-------------------------- MODULE BackgroundProofs --------------------------
(* The gateway's background work keeps its promises whatever the site does  *)
(* and wherever midnight falls: the crawl and the log writer are proved on  *)
(* their own, and the two together are shown to be each of them.            *)
EXTENDS Background, TLAPS

(***************************************************************************)
(* The log writer.                                                         *)
(***************************************************************************)

Lines == {NoLine} \cup [pc : {"dated", "writing"}, day : Nat]

LogType ==
    /\ today \in Nat /\ currentDate \in Nat
    /\ isOpen \in BOOLEAN /\ closed \in BOOLEAN
    /\ holder \in Writers \cup {Nobody}
    /\ line \in [Writers -> Lines]
    /\ lost \in [Writers -> {"no", "own", "file closed"}]
    /\ files \in SUBSET Nat

\* The writer never runs ahead of the clock, nor a file ahead of the writer.
InOrder == currentDate <= today /\ \A d \in files : d <= currentDate

\* Without an open file the writer either waits for a new day to open one, or was closed.
OpensNext == ~isOpen /\ ~closed => currentDate # today

\* Who writes holds the mutex, and found the file open or the writer closed.
WriterHolds == \A w \in Writers : line[w].pc = "writing" => holder = w /\ (isOpen \/ closed)

LogInv == LogType /\ InOrder /\ OpensNext /\ WriterHolds /\ LostForACause

LogNext ==
    \/ \E w \in Writers : Log(w) \/ rotateFileIfNeeded(w) \/ Write(w)
    \/ Midnight \/ Close \/ LogRestart

LogSpec == LogInit /\ [][LogNext]_logVars

\* What a line is as the logger dates it, and once its file is at hand.
LEMMA LineType ==
    /\ NoLine \in Lines /\ NoLine.pc = "none"
    /\ \A d \in Nat : [pc |-> "dated", day |-> d] \in Lines
    /\ \A l \in Lines : l.pc = "dated" => [l EXCEPT !.pc = "writing"] \in Lines
  BY DEF Lines, NoLine

LEMMA LogInitial == LogInit => LogInv
  <1> SUFFICES ASSUME LogInit
               PROVE  LogInv
    OBVIOUS
  <1>1. LogType /\ OpensNext
    BY LineType DEF LogInit, LogType, OpensNext
  <1>2. InOrder
    BY DEF LogInit, InOrder
  <1>3. WriterHolds /\ LostForACause
    BY LineType DEF LogInit, WriterHolds, LostForACause
  <1> QED
    BY <1>1, <1>2, <1>3 DEF LogInv

\* However the clock, the writer and the files move on.
LEMMA Ordered ==
    ASSUME LogInv, today' \in {today, today + 1}, currentDate' \in {currentDate, today},
           files' \in {files, files \cup {currentDate}}
    PROVE  InOrder'
  <1>1. today \in Nat /\ currentDate \in Nat /\ \A d \in files : d \in Nat
    BY DEF LogInv, LogType
  <1>2. currentDate <= today /\ \A d \in files : d <= currentDate
    BY DEF LogInv, InOrder
  <1>3. currentDate' <= today' /\ currentDate <= currentDate'
    BY <1>1, <1>2
  <1>4. ASSUME NEW d \in files'
        PROVE  d <= currentDate'
    <2>1. d \in Nat /\ d <= currentDate
      BY <1>1, <1>2
    <2> QED
      BY <1>1, <1>3, <2>1
  <1> QED
    BY <1>3, <1>4 DEF InOrder

\* The mutex goes with the line: what a goroutine that is done, or begins to write,
\* does to the lines.
LEMMA LogStarts ==
    ASSUME LogInv, NEW w \in Writers, Log(w)
    PROVE  LogInv'
  <1> USE DEF LogInv, LogType
  <1>1. line' \in [Writers -> Lines] /\ lost' \in [Writers -> {"no", "own", "file closed"}]
    BY LineType DEF Log
  <1>2. LogType' /\ InOrder' /\ OpensNext'
    BY <1>1 DEF Log, InOrder, OpensNext
  <1>3. WriterHolds'
    BY DEF Log, WriterHolds
  <1>4. LostForACause'
    BY DEF Log, LostForACause
  <1> QED
    BY <1>2, <1>3, <1>4

LEMMA LogRotates ==
    ASSUME LogInv, NEW w \in Writers, rotateFileIfNeeded(w)
    PROVE  LogInv'
  <1> USE WritersAssumption DEF LogInv, LogType, InOrder
  <1>0. /\ line[w].pc = "dated" /\ holder = Nobody
        /\ \A v \in Writers : line[v].pc # "writing"
        /\ UNCHANGED <<today, files, closed>>
    BY DEF rotateFileIfNeeded, WriterHolds
  <1>1. ASSUME Proceed(w), currentDate' = today, isOpen' \/ closed, isOpen' \in BOOLEAN
        PROVE  LogInv'
    <2>1. line' \in [Writers -> Lines]
      BY <1>0, <1>1, LineType DEF Proceed
    <2>2. LogType'
      BY <1>0, <1>1, <2>1 DEF Proceed
    <2>6. InOrder'
      <3>1. today' = today /\ currentDate' = today /\ files' = files
        BY <1>0, <1>1
      <3> QED
        BY <3>1, Ordered
    <2>5. OpensNext'
      BY <1>0, <1>1 DEF OpensNext
    <2>3. WriterHolds'
      BY <1>0, <1>1 DEF Proceed, WriterHolds
    <2>4. LostForACause'
      BY <1>0, <1>1 DEF Proceed, LostForACause
    <2> QED
      BY <2>2, <2>3, <2>4, <2>5, <2>6
  <1>2. ASSUME today # currentDate, NotOpened(w), Done(w, "own")
        PROVE  LogInv'
    <2>1. line' \in [Writers -> Lines]
      BY <1>2, LineType DEF Done
    <2>2. LogType'
      BY <1>0, <1>2, <2>1 DEF Done, NotOpened
    <2>6. InOrder'
      <3>1. today' = today /\ currentDate' = currentDate /\ files' = files
        BY <1>0, <1>2 DEF NotOpened
      <3> QED
        BY <3>1, Ordered
    <2>5. OpensNext'
      BY <1>0, <1>2 DEF NotOpened, OpensNext
    <2>3. WriterHolds'
      BY <1>0, <1>2, LineType DEF Done, WriterHolds
    <2>4. LostForACause'
      BY <1>0, <1>2 DEF Done, LostForACause
    <2> QED
      BY <2>2, <2>3, <2>4, <2>5, <2>6
  <1>3. CASE today = currentDate /\ Proceed(w) /\ UNCHANGED <<currentDate, isOpen>>
    <2>1. isOpen' \/ closed
      BY <1>3 DEF OpensNext
    <2> QED
      BY <1>1, <1>3, <2>1
  <1>4. CASE today # currentDate /\ Opened(w) /\ Proceed(w)
    BY <1>1, <1>4 DEF Opened, FileDate
  <1> QED
    BY <1>2, <1>3, <1>4 DEF rotateFileIfNeeded, FileDate

LEMMA LogWrites ==
    ASSUME LogInv, NEW w \in Writers, Write(w)
    PROVE  LogInv'
  <1> USE DEF LogInv, LogType
  <1>0. /\ holder = w /\ (isOpen \/ closed)
        /\ \A v \in Writers : line[v].pc = "writing" => v = w
        /\ UNCHANGED <<today, currentDate, isOpen, closed>>
    BY DEF Write, WriterHolds
  <1>1. PICK reason \in {"no", "own", "file closed"} :
            /\ Done(w, reason)
            /\ files' \in {files, files \cup {currentDate}}
            /\ reason = "file closed" => ~isOpen
    BY DEF Write
  <1>2. line' \in [Writers -> Lines]
    BY <1>1, LineType DEF Done
  <1>3. LogType'
    BY <1>0, <1>1, <1>2 DEF Done
  <1>4. InOrder'
    BY <1>0, <1>1, Ordered
  <1>7. OpensNext'
    BY <1>0 DEF OpensNext
  <1>5. WriterHolds'
    BY <1>0, <1>1, LineType DEF Done, WriterHolds
  <1>6. LostForACause'
    BY <1>0, <1>1 DEF Done, LostForACause
  <1> QED
    BY <1>3, <1>4, <1>5, <1>6, <1>7

LEMMA LogInductive == LogInv /\ [LogNext]_logVars => LogInv'
  <1> SUFFICES ASSUME LogInv, [LogNext]_logVars
               PROVE  LogInv'
    OBVIOUS
  <1> USE DEF LogInv
  <1>1. CASE Midnight
    <2>1. today' = today + 1 /\ today \in Nat /\ currentDate \in Nat
      BY <1>1 DEF Midnight, LogType
    <2>4. LogType'
      <3>1. today' \in Nat
        BY <2>1
      <3> QED
        BY <1>1, <3>1 DEF Midnight, LogType
    <2>5. WriterHolds' /\ LostForACause'
      BY <1>1 DEF Midnight, WriterHolds, LostForACause
    <2>2. InOrder'
      BY <1>1, Ordered DEF Midnight
    <2>3. currentDate' # today'
      <3>1. currentDate' = currentDate /\ currentDate <= today
        BY <1>1 DEF Midnight, InOrder
      <3> QED
        BY <2>1, <3>1
    <2> QED
      BY <2>2, <2>3, <2>4, <2>5 DEF OpensNext
  <1>2. CASE Close
    <2>1. InOrder'
      BY <1>2, Ordered DEF Close
    <2> QED
      BY <1>2, <2>1, WritersAssumption
         DEF Close, LogType, OpensNext, WriterHolds, LostForACause
  <1>3. CASE LogRestart
    <2>1. InOrder'
      BY <1>3, Ordered DEF LogRestart
    <2> QED
      BY <1>3, <2>1, LineType DEF LogRestart, LogType, OpensNext, WriterHolds, LostForACause
  <1>4. CASE UNCHANGED logVars
    BY <1>4 DEF logVars, LogType, InOrder, OpensNext, WriterHolds, LostForACause
  <1> QED
    BY <1>1, <1>2, <1>3, <1>4, LogStarts, LogRotates, LogWrites DEF LogNext

LEMMA LogInvariant == LogSpec => []LogInv
  BY LogInitial, LogInductive, PTL DEF LogSpec

(***************************************************************************)
(* The crawl.                                                              *)
(***************************************************************************)

Pages == Nat \ {0}

Crawls ==
    {Idle} \cup [pc : {"fetching"}, page : Pages]
           \cup [pc : {"saving"}, page : Pages, rows : SUBSET Records, total : Nat]
           \cup [pc : {"saved"}, page : Pages, total : Nat]

CrawlType ==
    /\ site \in Seq(Records) /\ due \in Seq(Records)
    /\ crawl \in Crawls
    /\ saved \in [Records -> Nat]
    /\ grown \in Nat
    /\ unsaved \in SUBSET Records

Distinct(list) == \A i, j \in 1 .. Len(list) : list[i] = list[j] => i = j

\* What is left of an earlier crawl when none is on.
Forgotten == crawl = Idle => due = <<>> /\ grown = 0 /\ saved = Unsaved

\* Each record owed is still listed, pushed on by as many places as the site grew at most.
Kept ==
    \A i \in 1 .. Len(due) :
        \E j \in 1 .. Len(site) : site[j] = due[i] /\ i <= j /\ j <= i + grown

Handled(x) == saved[x] >= 1 \/ x \in unsaved \/ (crawl.pc = "saving" /\ x \in crawl.rows)

\* How far down the list the crawl has come.
Reach == IF crawl.pc = "fetching" THEN (crawl.page - 1) * PageSize ELSE crawl.page * PageSize

\* A record owed that is listed within the reach of the crawl has been read: records
\* are only ever pushed away from it.
ReadUpToReach ==
    crawl # Idle =>
        \A i \in 1 .. Len(due), j \in 1 .. Len(site) :
            site[j] = due[i] /\ j <= Reach => Handled(due[i])

\* If the total of a page says that it was the last one, all that is owed has been read;
\* if not, there is more to come.
TotalIsRight ==
    /\ crawl.pc \in {"saving", "saved"} =>
          /\ HasThemAll(crawl.total, crawl.page) => \A i \in 1 .. Len(due) : Handled(due[i])
          /\ due # <<>> => crawl.total <= Len(site)
    /\ crawl.pc = "fetching" /\ due # <<>> => (crawl.page - 1) * PageSize < Len(site)

\* How far down the list the crawl has saved.
SavedReach == IF crawl.pc = "saved" THEN crawl.page * PageSize ELSE (crawl.page - 1) * PageSize

\* A record that comes on two pages has been pushed on in between.
SavedOnce ==
    crawl # Idle =>
        \A i \in 1 .. Len(due), j \in 1 .. Len(site) :
            site[j] = due[i] =>
                /\ saved[due[i]] <= 1 + j - i
                /\ SavedReach < j => saved[due[i]] <= j - i
                /\ crawl.pc = "saving" /\ due[i] \in crawl.rows =>
                      saved[due[i]] <= j - i /\ saved[due[i]] <= Reach - i

CrawlInv ==
    /\ CrawlType /\ Distinct(site) /\ Distinct(due) /\ Forgotten
    /\ Kept /\ ReadUpToReach /\ TotalIsRight /\ SavedOnce

CrawlNext ==
    \/ Publish \/ Withdraw \/ Begin \/ FetchFails \/ Refused \/ Fetch
    \/ SavePage \/ NextPage \/ CrawlStops

CrawlSpec == CrawlInit /\ [][CrawlNext]_crawlVars

\* Pages lie side by side.
LEMMA PageEnds ==
    ASSUME NEW page \in Pages
    PROVE  /\ (page - 1) * PageSize \in Nat /\ page * PageSize \in Nat
           /\ (page - 1) * PageSize < page * PageSize
           /\ page + 1 \in Pages /\ ((page + 1) - 1) * PageSize = page * PageSize
           /\ (1 - 1) * PageSize = 0
  <1>1. page \in Nat /\ page >= 1 /\ PageSize \in Nat /\ PageSize >= 1
    BY PagesAssumption DEF Pages
  <1>2. PICK before \in Nat : before = page - 1
    BY <1>1
  <1>3. page * PageSize = before * PageSize + PageSize
    BY <1>1, <1>2
  <1>4. before * PageSize \in Nat
    BY <1>1, <1>2
  <1>5. (page + 1) - 1 = page /\ page + 1 \in Pages
    BY <1>1 DEF Pages
  <1> QED
    BY <1>1, <1>2, <1>3, <1>4, <1>5

\* list is front and rest, without what lies between them.
Parts(list, front, before, rest, after) ==
    /\ list \in Seq(Records) /\ front \in Seq(Records) /\ rest \in Seq(Records)
    /\ before \in Nat /\ Len(front) = before /\ \A j \in 1 .. before : front[j] = list[j]
    /\ after \in Nat /\ Len(rest) = Len(list) - after /\ Len(list) \in Nat /\ after <= Len(list)
    /\ \A j \in 1 .. Len(list) - after : rest[j] = list[after + j]

LEMMA Split ==
    ASSUME NEW list \in Seq(Records), NEW before \in Nat, NEW after \in Nat,
           before <= Len(list), after <= Len(list)
    PROVE  Parts(list, SubSeq(list, 1, before), before, SubSeq(list, after + 1, Len(list)), after)
  BY DEF Parts

LEMMA Joined ==
    ASSUME NEW front \in Seq(Records), NEW rest \in Seq(Records)
    PROVE  /\ front \o rest \in Seq(Records) /\ Len(front \o rest) = Len(front) + Len(rest)
           /\ \A j \in 1 .. Len(front) + Len(rest) :
                 (front \o rest)[j] = IF j <= Len(front) THEN front[j] ELSE rest[j - Len(front)]
  OBVIOUS

\* list with x pushed in after its i-th record, and without that record.
With(list, i, x, longer) ==
    /\ longer \in Seq(Records) /\ Len(longer) = Len(list) + 1
    /\ \A j \in 1 .. Len(list) + 1 :
          longer[j] = IF j <= i THEN list[j] ELSE IF j = i + 1 THEN x ELSE list[j - 1]

Without(list, i, shorter) ==
    /\ shorter \in Seq(Records) /\ Len(shorter) = Len(list) - 1
    /\ \A j \in 1 .. Len(list) - 1 : shorter[j] = IF j < i THEN list[j] ELSE list[j + 1]

\* What is pushed in moves what comes after it on by one place.
LEMMA PushedIn ==
    ASSUME NEW list, NEW front, NEW rest, NEW i, Parts(list, front, i, rest, i),
           NEW x \in Records
    PROVE  With(list, i, x, front \o <<x>> \o rest)
  <1>0. PICK n \in Nat : n = Len(list)
    BY DEF Parts
  <1>1. /\ front \in Seq(Records) /\ Len(front) = i /\ \A j \in 1 .. i : front[j] = list[j]
        /\ rest \in Seq(Records) /\ Len(rest) = n - i /\ \A j \in 1 .. n - i : rest[j] = list[i + j]
        /\ i \in Nat /\ i <= n
    BY <1>0 DEF Parts
  <1>2. PICK head : head = front \o <<x>>
    OBVIOUS
  <1>3. /\ head \in Seq(Records) /\ Len(head) = i + 1
        /\ \A j \in 1 .. i : head[j] = list[j]
        /\ head[i + 1] = x
    BY <1>1, <1>2
  <1>4. PICK longer : longer = head \o rest
    OBVIOUS
  <1>5. /\ longer \in Seq(Records) /\ Len(longer) = n + 1
        /\ \A j \in 1 .. n + 1 : longer[j] = IF j <= i + 1 THEN head[j] ELSE rest[j - (i + 1)]
    <2>1. /\ longer \in Seq(Records) /\ Len(longer) = Len(head) + Len(rest)
          /\ \A j \in 1 .. Len(head) + Len(rest) :
                longer[j] = IF j <= Len(head) THEN head[j] ELSE rest[j - Len(head)]
      BY ONLY <1>1, <1>3, <1>4, Joined
    <2>2. Len(head) + Len(rest) = n + 1 /\ Len(head) = i + 1
      BY <1>1, <1>3
    <2> QED
      BY ONLY <2>1, <2>2
  <1>6. ASSUME NEW j \in 1 .. n + 1
        PROVE  longer[j] = IF j <= i THEN list[j] ELSE IF j = i + 1 THEN x ELSE list[j - 1]
    <2>1. CASE j <= i + 1
      <3>1. longer[j] = head[j] /\ (j \in 1 .. i \/ j = i + 1)
        BY <1>1, <1>5, <2>1
      <3> QED
        BY <1>1, <1>3, <3>1
    <2>2. CASE j > i + 1
      <3>1. /\ j - (i + 1) \in 1 .. n - i /\ i + (j - (i + 1)) = j - 1
            /\ ~(j <= i + 1) /\ ~(j <= i) /\ j # i + 1
        BY <1>1, <2>2
      <3>2. rest[j - (i + 1)] = list[i + (j - (i + 1))]
        BY <1>1, <3>1
      <3>3. longer[j] = rest[j - (i + 1)]
        BY <1>5, <3>1
      <3> QED
        BY <3>1, <3>2, <3>3
    <2> QED
      BY <1>1, <2>1, <2>2
  <1>7. With(list, i, x, longer)
    BY <1>0, <1>5, <1>6 DEF With
  <1> QED
    BY ONLY <1>2, <1>4, <1>7

\* A withdrawal moves what comes after it back by one.
LEMMA CutOut ==
    ASSUME NEW list, NEW front, NEW rest, NEW i, NEW before,
           Parts(list, front, before, rest, i), i = before + 1
    PROVE  Without(list, i, front \o rest)
  <1>0. PICK n \in Nat : n = Len(list)
    BY DEF Parts
  <1>1. /\ front \in Seq(Records) /\ Len(front) = i - 1 /\ \A j \in 1 .. i - 1 : front[j] = list[j]
        /\ rest \in Seq(Records) /\ Len(rest) = n - i /\ \A j \in 1 .. n - i : rest[j] = list[i + j]
        /\ i \in Nat \ {0} /\ i <= n
    BY <1>0 DEF Parts
  <1>2. PICK shorter : shorter = front \o rest
    OBVIOUS
  <1>3. /\ shorter \in Seq(Records) /\ Len(shorter) = n - 1
        /\ \A j \in 1 .. n - 1 : shorter[j] = IF j <= i - 1 THEN front[j] ELSE rest[j - (i - 1)]
    <2>1. /\ shorter \in Seq(Records) /\ Len(shorter) = Len(front) + Len(rest)
          /\ \A j \in 1 .. Len(front) + Len(rest) :
                shorter[j] = IF j <= Len(front) THEN front[j] ELSE rest[j - Len(front)]
      BY ONLY <1>1, <1>2, Joined
    <2>2. Len(front) + Len(rest) = n - 1 /\ Len(front) = i - 1
      BY <1>1
    <2> QED
      BY ONLY <2>1, <2>2
  <1>4. ASSUME NEW j \in 1 .. n - 1
        PROVE  shorter[j] = IF j < i THEN list[j] ELSE list[j + 1]
    <2>1. CASE j < i
      <3>1. j \in 1 .. i - 1 /\ j <= i - 1
        BY <2>1
      <3> QED
        BY <1>1, <1>3, <2>1, <3>1
    <2>2. CASE ~(j < i)
      <3>1. /\ j - (i - 1) \in 1 .. n - i /\ i + (j - (i - 1)) = j + 1
            /\ ~(j <= i - 1)
        BY <2>2
      <3>2. rest[j - (i - 1)] = list[i + (j - (i - 1))]
        BY <1>1, <3>1
      <3>3. shorter[j] = rest[j - (i - 1)]
        BY <1>3, <3>1
      <3> QED
        BY <2>2, <3>1, <3>2, <3>3
    <2> QED
      BY <2>1, <2>2
  <1>5. Without(list, i, shorter)
    BY <1>0, <1>3, <1>4 DEF Without
  <1> QED
    BY ONLY <1>2, <1>5

LEMMA SiteLists ==
    ASSUME NEW list \in Lists
    PROVE  list \in Seq(Records) /\ Distinct(list)
  <1>1. PICK n \in 0 .. Cardinality(Records) : list \in [1 .. n -> Records]
    BY DEF Lists
  <1>2. n \in Nat
    BY <1>1
  <1>3. list \in Seq(Records) /\ Len(list) = n /\ DOMAIN list = 1 .. n
    BY <1>1, <1>2
  <1> QED
    BY <1>3 DEF Lists, Distinct

LEMMA Places ==
    ASSUME CrawlType
    PROVE  /\ crawl.pc \in {"idle", "fetching", "saving", "saved"}
           /\ crawl = Idle <=> crawl.pc = "idle"
           /\ crawl # Idle => crawl.page \in Pages
           /\ crawl.pc = "saving" => crawl.rows \in SUBSET Records
           /\ crawl.pc \in {"saving", "saved"} => crawl.total \in Nat
  BY DEF CrawlType, Crawls, Idle

LEMMA FetchingPage ==
    ASSUME NEW page \in Pages
    PROVE  /\ Fetching(page) \in Crawls /\ Fetching(page) # Idle
           /\ Fetching(page).pc = "fetching" /\ Fetching(page).page = page
  BY DEF Fetching, Crawls, Idle

\* Once a crawl is over nothing is left of it.
LEMMA ReturnedClean ==
    ASSUME NEW error, Return(error)
    PROVE  CrawlInv'
  <1> USE DEF Return
  <1>0. Len(<<>>) = 0 /\ <<>> \in Seq(Records) /\ 1 .. 0 = {}
    OBVIOUS
  <1>1. CrawlType'
    BY <1>0 DEF CrawlType, Unsaved, Crawls
  <1>2. Distinct(site)' /\ Distinct(due)' /\ Kept'
    BY <1>0 DEF Distinct, Kept
  <1>3. crawl'.pc = "idle"
    BY DEF Idle
  <1>4. Forgotten' /\ ReadUpToReach' /\ TotalIsRight' /\ SavedOnce'
    BY <1>3 DEF Forgotten, ReadUpToReach, TotalIsRight, SavedOnce
  <1> QED
    BY <1>1, <1>2, <1>4 DEF CrawlInv

LEMMA CrawlInitial == CrawlInit => CrawlInv
  <1> SUFFICES ASSUME CrawlInit
               PROVE  CrawlInv
    OBVIOUS
  <1> USE DEF CrawlInit
  <1>0. Len(<<>>) = 0 /\ <<>> \in Seq(Records) /\ 1 .. 0 = {}
    OBVIOUS
  <1>1. CrawlType
    BY <1>0 DEF CrawlType, Unsaved, Crawls
  <1>2. Distinct(site) /\ Distinct(due) /\ Kept
    BY <1>0 DEF Distinct, Kept
  <1>3. crawl.pc = "idle"
    BY DEF Idle
  <1>4. Forgotten /\ ReadUpToReach /\ TotalIsRight /\ SavedOnce
    BY <1>3 DEF Forgotten, ReadUpToReach, TotalIsRight, SavedOnce
  <1> QED
    BY <1>1, <1>2, <1>4 DEF CrawlInv

\* A crawl that owes nothing: what it still keeps in order is its place and the list.
LEMMA NothingOwed ==
    ASSUME CrawlType', Distinct(site)', due' = <<>>, grown' = 0,
           crawl' # Idle \/ saved' = Unsaved
    PROVE  Distinct(due)' /\ Forgotten' /\ Kept' /\ ReadUpToReach' /\ TotalIsRight' /\ SavedOnce'
  <1>1. Len(due') = 0 /\ 1 .. Len(due') = {}
    OBVIOUS
  <1>2. Distinct(due)' /\ Kept'
    BY <1>1 DEF Distinct, Kept
  <1>3. Forgotten'
    BY DEF Forgotten, Unsaved
  <1>4. ReadUpToReach' /\ TotalIsRight' /\ SavedOnce'
    BY <1>1 DEF ReadUpToReach, TotalIsRight, SavedOnce
  <1> QED
    BY <1>2, <1>3, <1>4

\* Where the records stand after a publication.
LEMMA Published ==
    ASSUME CrawlInv, Publish
    PROVE  \E x \in Records, i \in Nat :
              /\ \A j \in 1 .. Len(site) : site[j] # x
              /\ i <= Len(site) /\ With(site, i, x, site')
  <1>1. PICK x \in Records \ Listed, i \in 0 .. Len(site) :
            site' = SubSeq(site, 1, i) \o <<x>> \o SubSeq(site, i + 1, Len(site))
    BY DEF Publish
  <1>2. i \in Nat /\ i <= Len(site) /\ site \in Seq(Records)
    BY DEF CrawlInv, CrawlType
  <1>3. \A j \in 1 .. Len(site) : site[j] # x
    BY DEF Listed
  <1>4. PICK front, rest : front = SubSeq(site, 1, i) /\ rest = SubSeq(site, i + 1, Len(site))
    OBVIOUS
  <1>5. Parts(site, front, i, rest, i)
    BY ONLY <1>2, <1>4, Split
  <1>6. With(site, i, x, site')
    <2>1. site' = front \o <<x>> \o rest /\ x \in Records
      BY <1>1, <1>4
    <2>2. With(site, i, x, front \o <<x>> \o rest)
      BY ONLY <1>5, <2>1, PushedIn
    <2> QED
      BY ONLY <2>1, <2>2
  <1> QED
    BY ONLY <1>1, <1>2, <1>3, <1>6, Zenon

\* A publication: every record stays where it is or moves on by one.
LEMMA PublishKeeps ==
    ASSUME CrawlInv, Publish
    PROVE  CrawlInv'
  <1>0. /\ CrawlType /\ Distinct(site) /\ Distinct(due) /\ Kept /\ ReadUpToReach /\ TotalIsRight
        /\ crawl # Idle /\ UNCHANGED <<crawl, result, saved, due, unsaved>>
        /\ grown' = IF due = <<>> THEN 0 ELSE grown + 1
        /\ grown \in Nat /\ due \in Seq(Records) /\ Len(site) \in Nat
    BY DEF CrawlInv, CrawlType, Publish
  <1>1. PICK x \in Records, i \in Nat :
            /\ \A j \in 1 .. Len(site) : site[j] # x
            /\ i <= Len(site)
            /\ site' \in Seq(Records) /\ Len(site') = Len(site) + 1
            /\ \A j \in 1 .. Len(site) + 1 :
                  site'[j] = IF j <= i THEN site[j] ELSE IF j = i + 1 THEN x ELSE site[j - 1]
    BY Published DEF With
  <1>2. ASSUME NEW j \in 1 .. Len(site')
        PROVE  \/ j = i + 1 /\ site'[j] = x
               \/ j <= i /\ j \in 1 .. Len(site) /\ site'[j] = site[j]
               \/ j > i + 1 /\ j - 1 \in 1 .. Len(site) /\ site'[j] = site[j - 1]
    BY <1>0, <1>1
  <1>3. CrawlType'
    <2>1. grown' \in Nat
      BY <1>0
    <2> QED
      BY <1>0, <1>1, <2>1 DEF CrawlType
  <1>4. Distinct(site)'
    <2> SUFFICES ASSUME NEW j \in 1 .. Len(site'), NEW k \in 1 .. Len(site'), site'[j] = site'[k]
                 PROVE  j = k
      BY DEF Distinct
    <2>1. ASSUME NEW a \in 1 .. Len(site), NEW b \in 1 .. Len(site), site[a] = site[b]
          PROVE  a = b
      BY <1>0, <2>1 DEF Distinct
    <2>2. CASE j = i + 1 \/ k = i + 1
      <3>1. ASSUME NEW m \in 1 .. Len(site'), site'[m] = x
            PROVE  m = i + 1
        BY <1>1, <1>2, <3>1
      <3>2. site'[j] = x /\ site'[k] = x
        <4>1. i + 1 \in 1 .. Len(site') => site'[i + 1] = x
          BY <1>2
        <4> QED
          BY <2>2, <4>1
      <3> QED
        BY <3>1, <3>2
    <2>3. CASE j # i + 1 /\ k # i + 1
      <3> DEFINE Old(m) == IF m <= i THEN m ELSE m - 1
      <3>1. ASSUME NEW m \in {j, k}
            PROVE  Old(m) \in 1 .. Len(site) /\ site'[m] = site[Old(m)]
        BY <1>0, <1>1, <1>2, <2>3
      <3>2. Old(j) = Old(k)
        BY <2>1, <3>1
      <3> QED
        BY <1>1, <2>3, <3>2
    <2> QED
      BY <2>2, <2>3
  <1>5. CASE due = <<>>
    BY <1>0, <1>3, <1>4, <1>5, NothingOwed DEF CrawlInv
  <1>6. CASE due # <<>>
    <2>1. grown' = grown + 1
      BY <1>0, <1>6
    <2>2. Kept'
      <3> SUFFICES ASSUME NEW k \in 1 .. Len(due)
                   PROVE  \E j \in 1 .. Len(site') : site'[j] = due[k] /\ k <= j /\ j <= k + grown'
        BY <1>0 DEF Kept
      <3>1. PICK j \in 1 .. Len(site) : site[j] = due[k] /\ k <= j /\ j <= k + grown
        BY <1>0 DEF Kept
      <3>2. CASE j <= i
        BY <1>0, <1>1, <2>1, <3>1, <3>2
      <3>3. CASE j > i
        <4>1. j + 1 \in 1 .. Len(site') /\ j + 1 - 1 = j /\ ~(j + 1 <= i) /\ j + 1 # i + 1
          BY <1>0, <1>1, <3>3
        <4>2. site'[j + 1] = due[k]
          BY <1>0, <1>1, <3>1, <4>1
        <4> QED
          BY <1>0, <2>1, <3>1, <4>1, <4>2
      <3> QED
        BY <1>1, <3>2, <3>3
    <2>3. UNCHANGED Reach /\ \A y : Handled(y)' = Handled(y)
      BY <1>0 DEF Reach, Handled
    <2>4. ReadUpToReach'
      <3> SUFFICES ASSUME NEW k \in 1 .. Len(due), NEW j \in 1 .. Len(site'),
                          site'[j] = due[k], j <= Reach
                   PROVE  Handled(due[k])
        BY <1>0, <2>3 DEF ReadUpToReach
      <3>1. due[k] # x
        <4>1. PICK a \in 1 .. Len(site) : site[a] = due[k]
          BY <1>0 DEF Kept
        <4> QED
          BY <1>1, <4>1
      <3>2. PICK a \in 1 .. Len(site) : a <= j /\ site[a] = due[k]
        <4>1. CASE j <= i /\ j \in 1 .. Len(site) /\ site'[j] = site[j]
          BY <4>1
        <4>2. CASE j > i + 1 /\ j - 1 \in 1 .. Len(site) /\ site'[j] = site[j - 1]
          BY <4>2
        <4> QED
          BY <1>2, <3>1, <4>1, <4>2
      <3>3. a <= Reach
        <4>1. Reach \in Nat
          BY <1>0, Places, PageEnds DEF Reach
        <4> QED
          BY <1>0, <1>1, <3>2, <4>1
      <3> QED
        BY <1>0, <3>2, <3>3 DEF ReadUpToReach
    <2>5. TotalIsRight'
      <3>1. crawl.pc \in {"saving", "saved"} => crawl.total \in Nat /\ crawl.total <= Len(site')
        BY <1>0, <1>1, <1>6, Places DEF TotalIsRight
      <3>2. crawl.pc = "fetching" => (crawl.page - 1) * PageSize < Len(site')
        <4>1. ASSUME crawl.pc = "fetching"
              PROVE  (crawl.page - 1) * PageSize \in Nat /\ (crawl.page - 1) * PageSize < Len(site)
          BY <1>0, <1>6, <4>1, Places, PageEnds DEF TotalIsRight
        <4> QED
          BY <1>0, <1>1, <4>1
      <3>3. crawl.pc \in {"saving", "saved"} /\ HasThemAll(crawl.total, crawl.page) =>
                \A k \in 1 .. Len(due) : Handled(due[k])
        BY <1>0 DEF TotalIsRight
      <3> QED
        BY <1>0, <2>3, <3>1, <3>2, <3>3 DEF TotalIsRight, HasThemAll
    <2>6. Forgotten' /\ Distinct(due)'
      BY <1>0 DEF Forgotten, Distinct
    <2>7. SavedOnce'
      <3> SUFFICES ASSUME NEW k \in 1 .. Len(due), NEW j \in 1 .. Len(site'), site'[j] = due[k]
                   PROVE  /\ saved[due[k]] <= 1 + j - k
                          /\ SavedReach < j => saved[due[k]] <= j - k
                          /\ crawl.pc = "saving" /\ due[k] \in crawl.rows =>
                                saved[due[k]] <= j - k /\ saved[due[k]] <= Reach - k
        <4>1. UNCHANGED <<Reach, SavedReach>>
          BY <1>0 DEF Reach, SavedReach
        <4> QED
          BY <1>0, <4>1 DEF SavedOnce
      <3>1. due[k] # x
        <4>1. PICK a \in 1 .. Len(site) : site[a] = due[k]
          BY <1>0 DEF Kept
        <4> QED
          BY <1>1, <4>1
      <3>2. PICK a \in 1 .. Len(site) : site[a] = due[k] /\ (j = a \/ j = a + 1)
        <4>1. CASE j <= i /\ j \in 1 .. Len(site) /\ site'[j] = site[j]
          BY <4>1
        <4>2. CASE j > i + 1 /\ j - 1 \in 1 .. Len(site) /\ site'[j] = site[j - 1]
          BY <4>2
        <4> QED
          BY <1>2, <3>1, <4>1, <4>2
      <3>3. /\ saved[due[k]] <= 1 + a - k
            /\ SavedReach < a => saved[due[k]] <= a - k
            /\ crawl.pc = "saving" /\ due[k] \in crawl.rows =>
                  saved[due[k]] <= a - k /\ saved[due[k]] <= Reach - k
        BY <1>0, <3>2 DEF CrawlInv, SavedOnce
      <3>4. saved[due[k]] \in Nat /\ k \in Nat /\ a \in Nat
        BY <1>0 DEF CrawlType
      <3>5. CASE j = a
        BY <3>3, <3>5
      <3>6. CASE j = a + 1
        <4>1. 1 + a - k = j - k /\ 1 + j - k = j - k + 1 /\ a - k <= j - k /\ j - k \in Int
          BY <3>4, <3>6
        <4> QED
          BY <3>3, <3>4, <4>1
      <3> QED
        BY <3>2, <3>5, <3>6
    <2> QED
      BY <1>3, <1>4, <2>2, <2>4, <2>5, <2>6, <2>7 DEF CrawlInv
  <1> QED
    BY <1>5, <1>6

LEMMA WithdrawKeeps ==
    ASSUME CrawlInv, Withdraw
    PROVE  CrawlInv'
  <1>0. /\ CrawlType /\ Distinct(site) /\ crawl # Idle
        /\ UNCHANGED <<crawl, result, saved, unsaved>> /\ due' = <<>> /\ grown' = 0
        /\ site \in Seq(Records) /\ Len(site) \in Nat
    BY DEF CrawlInv, CrawlType, Withdraw
  <1>1. PICK i \in 1 .. Len(site) :
            site' = SubSeq(site, 1, i - 1) \o SubSeq(site, i + 1, Len(site))
    BY DEF Withdraw
  <1>2. PICK front, rest, before :
            front = SubSeq(site, 1, i - 1) /\ rest = SubSeq(site, i + 1, Len(site)) /\ before = i - 1
    OBVIOUS
  <1>3. Parts(site, front, before, rest, i)
    <2>1. i \in Nat /\ before \in Nat /\ i <= Len(site) /\ before <= Len(site)
      BY <1>0, <1>2
    <2> QED
      BY ONLY <1>0, <1>2, <2>1, Split
  <1>4. /\ site' \in Seq(Records) /\ Len(site') = Len(site) - 1
        /\ \A j \in 1 .. Len(site) - 1 : site'[j] = IF j < i THEN site[j] ELSE site[j + 1]
    <2>1. site' = front \o rest /\ i = before + 1
      BY <1>1, <1>2
    <2>2. Without(site, i, front \o rest)
      BY ONLY <1>3, <2>1, CutOut
    <2>3. Without(site, i, site')
      BY ONLY <2>1, <2>2
    <2> QED
      BY ONLY <2>3 DEF Without
  <1>5. Distinct(site)'
    <2> SUFFICES ASSUME NEW j \in 1 .. Len(site'), NEW k \in 1 .. Len(site'), site'[j] = site'[k]
                 PROVE  j = k
      BY DEF Distinct
    <2>1. ASSUME NEW a \in 1 .. Len(site), NEW b \in 1 .. Len(site), site[a] = site[b]
          PROVE  a = b
      BY <1>0, <2>1 DEF Distinct
    <2>2. /\ j \in 1 .. Len(site) /\ j + 1 \in 1 .. Len(site)
          /\ k \in 1 .. Len(site) /\ k + 1 \in 1 .. Len(site)
          /\ site'[j] = IF j < i THEN site[j] ELSE site[j + 1]
          /\ site'[k] = IF k < i THEN site[k] ELSE site[k + 1]
      BY <1>0, <1>4
    <2>3. CASE j < i /\ k < i
      BY <2>1, <2>2, <2>3
    <2>6. CASE ~(j < i) /\ ~(k < i)
      <3>1. j + 1 = k + 1
        BY <2>1, <2>2, <2>6
      <3> QED
        BY <3>1
    <2>4. CASE j < i /\ ~(k < i)
      <3>1. j = k + 1
        BY <2>1, <2>2, <2>4
      <3> QED
        BY <2>4, <3>1
    <2>5. CASE ~(j < i) /\ k < i
      <3>1. j + 1 = k
        BY <2>1, <2>2, <2>5
      <3> QED
        BY <2>5, <3>1
    <2> QED
      BY <2>3, <2>4, <2>5, <2>6
  <1>6. CrawlType'
    <2>1. <<>> \in Seq(Records)
      OBVIOUS
    <2> QED
      BY <1>0, <1>4, <2>1 DEF CrawlType
  <1> QED
    BY <1>0, <1>5, <1>6, NothingOwed DEF CrawlInv

LEMMA BeginKeeps ==
    ASSUME CrawlInv, Begin
    PROVE  CrawlInv'
  <1>0. /\ crawl' = Fetching(1) /\ site' \in Lists /\ due' = site' /\ grown' = 0
        /\ saved' = Unsaved /\ unsaved' = unsaved /\ unsaved \in SUBSET Records
    BY DEF CrawlInv, CrawlType, Forgotten, Begin
  <1>1. 1 \in Pages /\ (1 - 1) * PageSize = 0 /\ (1 - 1) * PageSize < 1 * PageSize
    <2>1. 1 \in Pages
      BY DEF Pages
    <2> QED
      BY <2>1, PageEnds
  <1>2. site' \in Seq(Records) /\ Distinct(site)' /\ Distinct(due)' /\ Len(site') \in Nat
    <2>1. site' \in Seq(Records) /\ Distinct(site')
      BY <1>0, SiteLists
    <2> QED
      BY <1>0, <2>1 DEF Distinct
  <1>3. crawl'.pc = "fetching" /\ crawl'.page = 1 /\ crawl' # Idle /\ crawl' \in Crawls
    BY <1>0, <1>1, FetchingPage
  <1>4. CrawlType'
    BY <1>0, <1>2, <1>3 DEF CrawlType, Unsaved
  <1>5. Kept'
    BY <1>0, <1>2 DEF Kept
  <1>6. Reach' = 0 /\ SavedReach' = 0
    BY <1>1, <1>3 DEF Reach, SavedReach
  <1>7. ReadUpToReach'
    BY <1>2, <1>6 DEF ReadUpToReach
  <1>8. TotalIsRight'
    BY <1>0, <1>1, <1>2, <1>3 DEF TotalIsRight
  <1>9. SavedOnce'
    <2> SUFFICES ASSUME NEW k \in 1 .. Len(due'), NEW j \in 1 .. Len(site'), site'[j] = due'[k]
                 PROVE  saved'[due'[k]] <= 1 + j - k /\ saved'[due'[k]] <= j - k
      BY <1>3 DEF SavedOnce
    <2>1. j = k
      BY <1>0, <1>2 DEF Distinct
    <2>2. saved'[due'[k]] = 0
      BY <1>0, <1>2 DEF Unsaved
    <2> QED
      BY <2>1, <2>2
  <1>10. Forgotten'
    BY <1>3 DEF Forgotten
  <1> QED
    BY <1>2, <1>4, <1>5, <1>7, <1>8, <1>9, <1>10 DEF CrawlInv

LEMMA FetchFailsKeeps ==
    ASSUME CrawlInv, FetchFails
    PROVE  CrawlInv'
  <1>1. CASE Return("nil")
    BY <1>1, ReturnedClean
  <1>2. CASE crawl' = Fetching(crawl.page + 1) /\ UNCHANGED <<site, result, saved, unsaved>>
    <2>1. crawl.page \in Pages
      BY Places DEF CrawlInv, FetchFails
    <2>2. crawl' \in Crawls /\ crawl' # Idle
      BY <1>2, <2>1, FetchingPage, PageEnds
    <2>3. due' = <<>> /\ grown' = 0 /\ <<>> \in Seq(Records)
      BY DEF FetchFails
    <2>4. CrawlType' /\ Distinct(site)'
      BY <1>2, <2>2, <2>3 DEF CrawlInv, CrawlType, Distinct
    <2> QED
      BY <2>2, <2>3, <2>4, NothingOwed DEF CrawlInv
  <1> QED
    BY <1>1, <1>2 DEF FetchFails, GoOn

\* The page that is read lies between what was read before and what will be read next.
LEMMA FetchKeeps ==
    ASSUME CrawlInv, Fetch
    PROVE  CrawlInv'
  <1>1. CASE Return("no more data")
    BY <1>1, ReturnedClean
  <1>2. CASE /\ crawl' = [pc |-> "saving", page |-> crawl.page,
                          rows |-> Page(crawl.page), total |-> Len(site)]
             /\ UNCHANGED <<site, result, saved, past>>
    <2> DEFINE page == crawl.page
    <2>0. /\ crawl.pc = "fetching" /\ page \in Pages /\ crawl # Idle
          /\ site \in Seq(Records) /\ Len(site) \in Nat /\ grown \in Nat /\ due \in Seq(Records)
          /\ Distinct(site) /\ Kept /\ ReadUpToReach /\ SavedOnce /\ CrawlType
      <3>1. CrawlInv /\ CrawlType /\ crawl.pc = "fetching"
        BY DEF CrawlInv, Fetch
      <3>2. crawl # Idle /\ crawl.page \in Pages
        BY <3>1, Places
      <3>3. site \in Seq(Records) /\ grown \in Nat /\ due \in Seq(Records)
        BY <3>1 DEF CrawlType
      <3> QED
        BY <3>1, <3>2, <3>3 DEF CrawlInv
    <2>1. /\ (page - 1) * PageSize \in Nat /\ page * PageSize \in Nat
          /\ (page - 1) * PageSize < page * PageSize
      BY <2>0, PageEnds
    <2>2. /\ UNCHANGED <<site, saved, due, grown, unsaved>>
          /\ crawl'.pc = "saving" /\ crawl'.page = page /\ crawl'.rows = Page(page)
          /\ crawl'.total = Len(site) /\ crawl' # Idle
      BY <1>2 DEF past, Idle
    <2>3. Page(page) \in SUBSET Records
      BY <2>0 DEF Page
    <2>4. CrawlType'
      <3>1. crawl' \in Crawls
        BY <1>2, <2>0, <2>3 DEF Crawls
      <3> QED
        BY <2>0, <2>2, <3>1 DEF CrawlType
    <2>5. /\ Reach = (page - 1) * PageSize /\ SavedReach = (page - 1) * PageSize
          /\ Reach' = page * PageSize /\ SavedReach' = (page - 1) * PageSize
      BY <2>0, <2>2 DEF Reach, SavedReach
    <2>6. ReadUpToReach'
      <3> SUFFICES ASSUME NEW k \in 1 .. Len(due), NEW j \in 1 .. Len(site),
                          site[j] = due[k], j <= page * PageSize
                   PROVE  Handled(due[k])'
        BY <2>2, <2>5 DEF ReadUpToReach
      <3>1. CASE j <= (page - 1) * PageSize
        <4>1. saved[due[k]] >= 1 \/ due[k] \in unsaved
          BY <2>0, <2>5, <3>1 DEF ReadUpToReach, Handled
        <4> QED
          BY <2>2, <4>1 DEF Handled
      <3>2. CASE (page - 1) * PageSize < j
        BY <2>2, <3>2 DEF Handled, Page
      <3> QED
        BY <2>0, <2>1, <3>1, <3>2
    <2>7. TotalIsRight'
      <3>1. ASSUME Len(site) <= page * PageSize, NEW k \in 1 .. Len(due)
            PROVE  Handled(due[k])'
        <4>1. PICK j \in 1 .. Len(site) : site[j] = due[k]
          BY <2>0 DEF Kept
        <4>2. j <= page * PageSize
          BY <2>0, <2>1, <3>1
        <4> QED
          BY <2>2, <2>5, <2>6, <4>1, <4>2 DEF ReadUpToReach
      <3> QED
        BY <2>0, <2>2, <3>1 DEF TotalIsRight, HasThemAll
    <2>8. SavedOnce'
      <3> SUFFICES ASSUME NEW k \in 1 .. Len(due), NEW j \in 1 .. Len(site), site[j] = due[k]
                   PROVE  /\ saved[due[k]] <= 1 + j - k
                          /\ (page - 1) * PageSize < j => saved[due[k]] <= j - k
                          /\ due[k] \in Page(page) =>
                                saved[due[k]] <= j - k /\ saved[due[k]] <= page * PageSize - k
        BY <2>2, <2>5 DEF SavedOnce
      <3>1. /\ saved[due[k]] <= 1 + j - k
            /\ (page - 1) * PageSize < j => saved[due[k]] <= j - k
        BY <2>0, <2>5 DEF SavedOnce
      <3>2. ASSUME due[k] \in Page(page)
            PROVE  (page - 1) * PageSize < j /\ j <= page * PageSize
        <4>1. PICK a \in 1 .. Len(site) :
                  (page - 1) * PageSize < a /\ a <= page * PageSize /\ site[a] = due[k]
          BY <3>2 DEF Page
        <4>2. a = j
          BY <2>0, <4>1 DEF Distinct
        <4> QED
          BY <4>1, <4>2
      <3>3. saved[due[k]] \in Nat
        BY <2>0 DEF CrawlType
      <3>4. ASSUME due[k] \in Page(page)
            PROVE  saved[due[k]] <= j - k /\ saved[due[k]] <= page * PageSize - k
        <4>1. PICK end \in Nat : end = page * PageSize
          BY <2>1
        <4>2. saved[due[k]] <= j - k /\ j <= end
          BY <3>1, <3>2, <3>4, <4>1
        <4>3. saved[due[k]] <= end - k
          BY <3>3, <4>1, <4>2
        <4> QED
          BY <4>1, <4>2, <4>3
      <3> QED
        BY <3>1, <3>4
    <2>9. Distinct(site)' /\ Distinct(due)' /\ Forgotten' /\ Kept'
      BY <2>0, <2>2 DEF CrawlInv, Distinct, Forgotten, Kept
    <2> QED
      BY <2>4, <2>6, <2>7, <2>8, <2>9 DEF CrawlInv
  <1> QED
    BY <1>1, <1>2 DEF Fetch

\* What came and was not saved is noted, so nothing that was handled is no longer.
LEMMA SavePageKeeps ==
    ASSUME CrawlInv, SavePage
    PROVE  CrawlInv'
  <1>0. /\ crawl.pc = "saving" /\ crawl.page \in Pages /\ crawl # Idle /\ crawl.total \in Nat
        /\ crawl.rows \in SUBSET Records
        /\ CrawlType /\ Kept /\ ReadUpToReach /\ TotalIsRight /\ SavedOnce
        /\ saved \in [Records -> Nat] /\ unsaved \in SUBSET Records /\ due \in Seq(Records)
    BY Places DEF CrawlInv, CrawlType, SavePage
  <1>1. PICK read \in SUBSET crawl.rows :
            /\ saved' = [x \in Records |-> saved[x] + (IF x \in read THEN 1 ELSE 0)]
            /\ unsaved' = unsaved \cup (crawl.rows \ read)
    BY DEF SavePage
  <1>2. /\ UNCHANGED <<site, due, grown>>
        /\ crawl' = [pc |-> "saved", page |-> crawl.page, total |-> crawl.total]
        /\ crawl'.pc = "saved" /\ crawl'.page = crawl.page /\ crawl'.total = crawl.total
        /\ crawl' # Idle
    BY DEF SavePage, Idle
  <1>3. CrawlType'
    <2>1. crawl' \in Crawls
      BY <1>0, <1>2 DEF Crawls
    <2>2. \A x \in Records : saved[x] + (IF x \in read THEN 1 ELSE 0) \in Nat
      BY <1>0
    <2>3. saved' \in [Records -> Nat]
      BY <1>1, <2>2
    <2> QED
      BY <1>0, <1>1, <1>2, <2>1, <2>3 DEF CrawlType
  <1>4. ASSUME NEW x \in Records, Handled(x)
        PROVE  Handled(x)'
    <2>1. saved[x] \in Nat /\ saved'[x] = saved[x] + (IF x \in read THEN 1 ELSE 0)
      BY <1>0, <1>1
    <2>2. CASE x \in read
      BY <2>1, <2>2 DEF Handled
    <2>3. CASE x \notin read
      <3>1. saved'[x] = saved[x]
        BY <2>1, <2>3
      <3>2. saved[x] >= 1 \/ x \in unsaved \/ x \in crawl.rows
        BY <1>4 DEF Handled
      <3> QED
        BY <1>1, <2>3, <3>1, <3>2 DEF Handled
    <2> QED
      BY <2>2, <2>3
  <1>5. \A k \in 1 .. Len(due) : due[k] \in Records
    BY <1>0
  <1>6. /\ Reach' = Reach /\ SavedReach' = crawl.page * PageSize
        /\ Reach = crawl.page * PageSize /\ SavedReach = (crawl.page - 1) * PageSize
    BY <1>0, <1>2 DEF Reach, SavedReach
  <1>7. ReadUpToReach' /\ TotalIsRight'
    <2>1. ReadUpToReach'
      BY <1>0, <1>2, <1>4, <1>5, <1>6 DEF ReadUpToReach
    <2>2. TotalIsRight'
      BY <1>0, <1>2, <1>4, <1>5 DEF TotalIsRight, HasThemAll
    <2> QED
      BY <2>1, <2>2
  <1>8. SavedOnce'
    <2> SUFFICES ASSUME NEW k \in 1 .. Len(due), NEW j \in 1 .. Len(site), site[j] = due[k]
                 PROVE  /\ saved'[due[k]] <= 1 + j - k
                        /\ crawl.page * PageSize < j => saved'[due[k]] <= j - k
      BY <1>2, <1>6 DEF SavedOnce
    <2>1. PICK before, end : before = (crawl.page - 1) * PageSize /\ end = crawl.page * PageSize
      OBVIOUS
    <2>2. before \in Nat /\ end \in Nat /\ before < end
      BY ONLY <1>0, <2>1, PageEnds
    <2>3. /\ saved[due[k]] <= 1 + j - k
          /\ before < j => saved[due[k]] <= j - k
          /\ due[k] \in crawl.rows => saved[due[k]] <= j - k /\ saved[due[k]] <= end - k
      BY <1>0, <1>6, <2>1 DEF SavedOnce
    <2>4. PICK n \in Nat : n = saved[due[k]]
      BY <1>0, <1>5
    <2>5. saved'[due[k]] = n + (IF due[k] \in read THEN 1 ELSE 0)
      BY <1>1, <1>5, <2>4
    <2>6. CASE due[k] \in read
      <3>1. saved'[due[k]] = n + 1 /\ n <= j - k /\ n <= end - k
        BY <2>3, <2>4, <2>5, <2>6
      <3>2. n + 1 <= 1 + j - k /\ (end < j => n + 1 <= j - k)
        BY <2>2, <3>1
      <3> QED
        BY <2>1, <3>1, <3>2
    <2>7. CASE due[k] \notin read
      <3>1. saved'[due[k]] = n
        BY <2>4, <2>5, <2>7
      <3>2. end < j => before < j
        BY <2>2
      <3> QED
        BY <2>1, <2>3, <2>4, <3>1, <3>2
    <2> QED
      BY <2>6, <2>7
  <1>9. Distinct(site)' /\ Distinct(due)' /\ Forgotten' /\ Kept'
    BY <1>0, <1>2 DEF CrawlInv, Distinct, Forgotten, Kept
  <1> QED
    BY <1>3, <1>7, <1>8, <1>9 DEF CrawlInv

LEMMA NextPageKeeps ==
    ASSUME CrawlInv, NextPage
    PROVE  CrawlInv'
  <1>1. CASE Return("nil")
    BY <1>1, ReturnedClean
  <1>2. CASE /\ ~HasThemAll(crawl.total, crawl.page)
             /\ crawl' = Fetching(crawl.page + 1)
             /\ UNCHANGED <<site, result, saved, unsaved, due, grown>>
    <2>0. /\ crawl.pc = "saved" /\ crawl.page \in Pages /\ crawl # Idle /\ crawl.total \in Nat
          /\ CrawlType /\ ReadUpToReach /\ TotalIsRight /\ SavedOnce /\ Len(site) \in Nat
      BY Places DEF CrawlInv, CrawlType, NextPage
    <2>1. /\ crawl.page + 1 \in Pages /\ crawl.page * PageSize \in Nat
          /\ ((crawl.page + 1) - 1) * PageSize = crawl.page * PageSize
      BY <2>0, PageEnds
    <2>2. crawl'.pc = "fetching" /\ crawl'.page = crawl.page + 1 /\ crawl' # Idle /\ crawl' \in Crawls
      BY <1>2, <2>1, FetchingPage
    <2>3. CrawlType'
      BY <1>2, <2>0, <2>2 DEF CrawlType
    <2>4. /\ Reach' = crawl.page * PageSize /\ SavedReach' = crawl.page * PageSize
          /\ Reach = crawl.page * PageSize /\ SavedReach = crawl.page * PageSize
      BY <2>0, <2>1, <2>2 DEF Reach, SavedReach
    <2>5. \A x : Handled(x) => Handled(x)'
      BY <1>2, <2>0 DEF Handled
    <2>6. ReadUpToReach'
      BY <1>2, <2>0, <2>4, <2>5 DEF ReadUpToReach
    <2>7. TotalIsRight'
      <3>1. due # <<>> => crawl.total <= Len(site)
        BY <2>0 DEF TotalIsRight
      <3>2. crawl.page * PageSize < crawl.total
        BY <1>2, <2>0, <2>1 DEF HasThemAll
      <3>3. due # <<>> => crawl.page * PageSize < Len(site)
        BY <2>0, <2>1, <3>1, <3>2
      <3> QED
        BY <1>2, <2>1, <2>2, <3>3 DEF TotalIsRight
    <2>8. SavedOnce'
      BY <1>2, <2>0, <2>2, <2>4 DEF SavedOnce
    <2>9. Distinct(site)' /\ Distinct(due)' /\ Forgotten' /\ Kept'
      BY <1>2, <2>2 DEF CrawlInv, Distinct, Forgotten, Kept
    <2> QED
      BY <2>3, <2>6, <2>7, <2>8, <2>9 DEF CrawlInv
  <1>3. crawl.page \in Pages => Fetching(crawl.page + 1) # Idle
    BY FetchingPage, PageEnds
  <1> QED
    BY <1>1, <1>2, <1>3, Places DEF NextPage, GoOn, CrawlInv

LEMMA CrawlInductive == CrawlInv /\ [CrawlNext]_crawlVars => CrawlInv'
  <1> SUFFICES ASSUME CrawlInv, [CrawlNext]_crawlVars
               PROVE  CrawlInv'
    OBVIOUS
  <1>1. CASE Refused \/ CrawlStops
    BY <1>1, ReturnedClean DEF Refused, CrawlStops
  <1>2. CASE UNCHANGED crawlVars
    BY <1>2 DEF crawlVars, past, CrawlInv, CrawlType, Distinct, Forgotten, Kept, ReadUpToReach,
                Reach, Handled, TotalIsRight, HasThemAll, SavedOnce, SavedReach
  <1> QED
    BY <1>1, <1>2, PublishKeeps, WithdrawKeeps, BeginKeeps, FetchFailsKeeps, FetchKeeps,
       SavePageKeeps, NextPageKeeps DEF CrawlNext

LEMMA CrawlInvariant == CrawlSpec => []CrawlInv
  BY CrawlInitial, CrawlInductive, PTL DEF CrawlSpec

(***************************************************************************)
(* What the two promise.                                                   *)
(***************************************************************************)

LEMMA ReturnsByPage ==
    ASSUME CrawlInv, [CrawlNext]_crawlVars, NEW error, Returns(error)
    PROVE  /\ error = "nil" => FetchFails \/ NextPage
           /\ error = "no more data" => Fetch /\ Page(crawl.page) = {}
  <1>1. crawl # Idle /\ crawl' = Idle /\ result' = error
    BY DEF Returns
  <1>2. ~Publish /\ ~Withdraw /\ ~Begin /\ ~UNCHANGED crawlVars
    BY <1>1 DEF Publish, Withdraw, Begin, crawlVars
  <1>3. ~SavePage
    BY <1>1 DEF SavePage, Idle
  <1>4. CASE Refused \/ CrawlStops
    BY <1>1, <1>4 DEF Refused, CrawlStops, Return
  <1>5. CASE Fetch
    <2>1. Page(crawl.page) = {} /\ Return("no more data")
      BY <1>1, <1>5 DEF Fetch, Idle
    <2> QED
      BY <1>1, <1>5, <2>1 DEF Return
  <1>6. CASE FetchFails \/ NextPage
    <2>1. crawl.page \in Pages
      BY <1>1, Places DEF CrawlInv
    <2>2. crawl' # Fetching(crawl.page + 1)
      BY <1>1, <2>1, FetchingPage, PageEnds
    <2>3. Return("nil")
      BY <1>6, <2>2 DEF FetchFails, NextPage, GoOn
    <2> QED
      BY <1>1, <1>6, <2>3 DEF Return
  <1> QED
    BY <1>2, <1>3, <1>4, <1>5, <1>6 DEF CrawlNext

\* The last page is read: by its total, or by the number of pages a crawl may read.
LEMMA MissesNothing ==
    ASSUME CrawlInv, [CrawlNext]_crawlVars, Returns("nil"), crawl.pc # "fetching",
           NEW i \in DOMAIN due
    PROVE  /\ i + grown <= MaxPages * PageSize => saved[due[i]] >= 1 \/ due[i] \in unsaved
           /\ saved[due[i]] <= 1 + grown
  <1>1. NextPage /\ crawl.pc = "saved" /\ crawl # Idle /\ i \in 1 .. Len(due)
    <2>1. FetchFails \/ NextPage
      BY ReturnsByPage
    <2>2. NextPage /\ crawl.pc = "saved" /\ crawl # Idle
      BY <2>1 DEF FetchFails, NextPage, Idle
    <2> QED
      BY <2>2 DEF CrawlInv, CrawlType
  <1>2. ASSUME i + grown <= MaxPages * PageSize
        PROVE  Handled(due[i])
    <2>1. CASE HasThemAll(crawl.total, crawl.page)
      BY <1>1, <2>1 DEF CrawlInv, TotalIsRight
    <2>2. CASE crawl.page = MaxPages
      <3>1. PICK j \in 1 .. Len(site) : site[j] = due[i] /\ j <= i + grown
        BY <1>1 DEF CrawlInv, Kept
      <3>2. Reach = MaxPages * PageSize /\ Reach \in Nat /\ grown \in Nat
        BY <1>1, <2>2, Places, PageEnds DEF Reach, CrawlInv, CrawlType
      <3>3. j <= Reach
        BY <1>2, <3>1, <3>2
      <3> QED
        BY <1>1, <3>1, <3>3 DEF CrawlInv, ReadUpToReach
    <2>3. crawl' # Fetching(crawl.page + 1)
      BY <1>1, Places, FetchingPage, PageEnds DEF Returns, CrawlInv
    <2> QED
      BY <1>1, <2>1, <2>2, <2>3 DEF NextPage, GoOn
  <1>3. saved[due[i]] <= 1 + grown
    <2>1. PICK j \in 1 .. Len(site) : site[j] = due[i] /\ j <= i + grown
      BY <1>1 DEF CrawlInv, Kept
    <2>2. saved[due[i]] <= 1 + j - i
      BY <1>1, <2>1 DEF CrawlInv, SavedOnce
    <2>3. saved[due[i]] \in Nat /\ grown \in Nat
      BY <1>1 DEF CrawlInv, CrawlType
    <2>4. 1 + j - i <= 1 + grown
      BY <1>1, <2>1, <2>3
    <2> QED
      BY <1>1, <2>2, <2>3, <2>4
  <1> QED
    BY <1>1, <1>2, <1>3 DEF Handled

LEMMA NoneIsNone ==
    ASSUME CrawlInv, [CrawlNext]_crawlVars, Returns("no more data")
    PROVE  due = <<>>
  <1> SUFFICES ASSUME due # <<>>
               PROVE  FALSE
    OBVIOUS
  <1>1. Fetch /\ Page(crawl.page) = {}
    BY ReturnsByPage
  <1>2. crawl.pc = "fetching" /\ crawl.page \in Pages
    BY <1>1, Places DEF Fetch, CrawlInv, Returns
  <1>3. PICK before, end : before = (crawl.page - 1) * PageSize /\ end = crawl.page * PageSize
    OBVIOUS
  <1>4. before \in Nat /\ end \in Nat /\ before < end
    BY ONLY <1>2, <1>3, PageEnds
  <1>5. before < Len(site) /\ Len(site) \in Nat
    <2>1. (crawl.page - 1) * PageSize < Len(site)
      BY <1>2 DEF CrawlInv, TotalIsRight
    <2>2. Len(site) \in Nat
      <3>1. site \in Seq(Records)
        BY DEF CrawlInv, CrawlType
      <3> QED
        BY ONLY <3>1
    <2> QED
      BY ONLY <1>3, <2>1, <2>2
  <1>6. before + 1 \in 1 .. Len(site) /\ before < before + 1 /\ before + 1 <= end
    BY ONLY <1>4, <1>5
  <1>7. site[before + 1] \in Page(crawl.page)
    BY ONLY <1>3, <1>6 DEF Page
  <1> QED
    BY <1>1, <1>7

LEMMA BackgroundStep == [Next]_vars => [CrawlNext]_crawlVars /\ [LogNext]_logVars
  <1> USE CrawlerAssumption DEF CrawlNext, LogNext
  <1>1. SaveAndLog => CrawlNext /\ LogNext
    BY DEF SaveAndLog
  <1>2. GoOnOnceLogged => CrawlNext /\ UNCHANGED logVars
    BY DEF GoOnOnceLogged
  <1>3. LogStep => LogNext /\ UNCHANGED crawlVars
    BY DEF LogStep
  <1>4. Restart => CrawlNext /\ LogNext
    BY DEF Restart
  <1>5. CrawlStep => CrawlNext /\ [LogNext]_logVars
    BY <1>1, <1>2 DEF CrawlStep
  <1> QED
    BY <1>3, <1>4, <1>5 DEF Next, vars

\* The crawl that logs is a crawl, and the log it shares with the requests is a log:
\* neither is disturbed by waiting for the other.
THEOREM BackgroundComposition == Spec => CrawlSpec /\ LogSpec
  <1>1. Init => CrawlInit /\ LogInit
    BY DEF Init
  <1> QED
    BY <1>1, BackgroundStep, PTL DEF Spec, CrawlSpec, LogSpec

\* The variables have their types.
THEOREM BackgroundTypes == Spec => [](CrawlType /\ LogType)
  <1>1. CrawlInv /\ LogInv => CrawlType /\ LogType
    BY DEF CrawlInv, LogInv
  <1> QED
    BY <1>1, BackgroundComposition, CrawlInvariant, LogInvariant, PTL

\* Only Close makes the writer lose lines for want of an open file, however many days
\* it could not open one: rotateFileIfNeeded leaves currentDate alone when it fails.
THEOREM LostForACauseProved == Spec => []LostForACause
  <1>1. LogInv => LostForACause
    BY DEF LogInv
  <1> QED
    BY <1>1, BackgroundComposition, LogInvariant, PTL

\* However many days pass while lines wait, no file is written to after a later one.
THEOREM WrittenInOrderProved == Spec => WrittenInOrder
  <1>1. LogInv => \A d \in files : d <= currentDate
    BY DEF LogInv, InOrder
  <1>2. LogInv => [\A w \in Writers :
                      line[w].pc = "writing" /\ line'[w] = NoLine /\ lost'[w] = "no" =>
                          \A d \in files : d <= currentDate]_logVars
    BY <1>1
  <1> QED
    BY <1>2, BackgroundComposition, LogInvariant, PTL DEF WrittenInOrder

\* A crawl that ends well after its last page has saved what it owes, and nothing once
\* more than the site grew, for any number of records and any size and number of pages.
THEOREM NothingMissedProved == Spec => NothingMissed
  <1>1. CrawlInv /\ [CrawlNext]_crawlVars =>
            [Returns("nil") =>
                \/ crawl.pc = "fetching"
                \/ \A i \in DOMAIN due :
                      /\ i + grown <= MaxPages * PageSize =>
                            saved[due[i]] >= 1 \/ due[i] \in unsaved
                      /\ saved[due[i]] <= 1 + grown]_crawlVars
    BY MissesNothing
  <1> QED
    BY <1>1, BackgroundComposition, CrawlInvariant, PTL DEF NothingMissed, CrawlSpec

\* An empty page ends a crawl that still owes something never: the page before it said,
\* by its total, that there was more.
THEOREM NoDataHasACauseProved == Spec => NoDataHasACause
  <1>1. CrawlInv /\ [CrawlNext]_crawlVars => [Returns("no more data") => due = <<>>]_crawlVars
    BY NoneIsNone
  <1> QED
    BY <1>1, BackgroundComposition, CrawlInvariant, PTL DEF NoDataHasACause, CrawlSpec
=============================================================================
