---------------------------- MODULE MarketCrawl ----------------------------
(***************************************************************************)
(* The crawl of market prices (CrawlAndSave of                             *)
(* src/repositories/market_price_repository.go): it asks a site for one    *)
(* page of records after another and saves each page, when the gateway     *)
(* starts and every night.  Meanwhile the site publishes and withdraws     *)
(* records, which moves others from one page to the next; a page may fail  *)
(* to come, a record to be read and a page to be saved, and the crawl goes *)
(* on in each case.                                                        *)
(*                                                                         *)
(* The pause between two pages is left out, as is what a record says.      *)
(***************************************************************************)
EXTENDS Integers, Sequences, FiniteSets

CONSTANTS
    Records,    \* what the site may list
    PageSize,   \* 100
    MaxPages    \* 5

ASSUME PagesAssumption == PageSize \in Nat \ {0} /\ MaxPages \in Nat \ {0}

VARIABLES
    site,       \* the records that the site lists, in its order
    crawl,      \* where CrawlAndSave is, with its page, rows and total
    result,     \* how the last crawl ended
    saved,      \* how often this crawl has put a record into the table
    due, grown, unsaved     \* for properties only: what the crawl owes, which
                \* is the site as it began, or nothing once a page failed to come or
                \* the site withdrew a record; how many records it published since;
                \* those that came and could not be read or saved

past == <<due, grown, unsaved>>
crawlVars == <<site, crawl, result, saved, past>>

Idle == [pc |-> "idle"]
Fetching(page) == [pc |-> "fetching", page |-> page]

Lists == {list \in UNION {[1 .. n -> Records] : n \in 0 .. Cardinality(Records)} :
             \A i, j \in DOMAIN list : list[i] = list[j] => i = j}

Unsaved == [x \in Records |-> 0]

CrawlInit ==
    /\ site = <<>> /\ crawl = Idle /\ result = "none" /\ saved = Unsaved
    /\ due = <<>> /\ grown = 0 /\ unsaved = {}

-----------------------------------------------------------------------------
(* The site *)

Listed == {site[i] : i \in 1 .. Len(site)}

\* Anywhere in the list: what comes after it moves on.
Publish ==
    /\ crawl # Idle
    /\ \E x \in Records \ Listed, i \in 0 .. Len(site) :
          site' = SubSeq(site, 1, i) \o <<x>> \o SubSeq(site, i + 1, Len(site))
    /\ grown' = IF due = <<>> THEN 0 ELSE grown + 1
    /\ UNCHANGED <<crawl, result, saved, due, unsaved>>

Withdraw ==
    /\ crawl # Idle
    /\ \E i \in 1 .. Len(site) :
          site' = SubSeq(site, 1, i - 1) \o SubSeq(site, i + 1, Len(site))
    /\ due' = <<>> /\ grown' = 0
    /\ UNCHANGED <<crawl, result, saved, unsaved>>

Page(page) ==
    {site[i] : i \in {j \in 1 .. Len(site) :
                         (page - 1) * PageSize < j /\ j <= page * PageSize}}

-----------------------------------------------------------------------------
(* CrawlAndSave *)

\* The gateway starts, or it is two o'clock.
Begin ==
    /\ crawl = Idle
    /\ crawl' = Fetching(1)
    /\ site' \in Lists /\ due' = site'
    /\ UNCHANGED <<result, saved, grown, unsaved>>

\* Until the next crawl nobody asks the site, and past is forgotten.
Return(error) ==
    /\ site' = <<>> /\ crawl' = Idle /\ result' = error /\ saved' = Unsaved
    /\ due' = <<>> /\ grown' = 0 /\ unsaved' = {}

\* After the last page the crawl returns as if it had them all.
GoOn(page) ==
    \/ /\ page < MaxPages
       /\ crawl' = Fetching(page + 1)
       /\ UNCHANGED <<site, result, saved, unsaved>>
    \/ page = MaxPages /\ Return("nil")

\* No answer in ten seconds, another status than 200, no JSON: the page is left
\* out, without a pause and without a second try.
FetchFails ==
    /\ crawl.pc = "fetching"
    /\ GoOn(crawl.page)
    /\ due' = <<>> /\ grown' = 0

\* The site answers with an error code of its own.
Refused ==
    /\ crawl.pc = "fetching"
    /\ Return("refused")

Fetch ==
    /\ crawl.pc = "fetching"
    /\ \/ Page(crawl.page) = {} /\ Return("no more data")
       \/ /\ Page(crawl.page) # {}
          /\ crawl' = [pc |-> "saving", page |-> crawl.page,
                       rows |-> Page(crawl.page), total |-> Len(site)]
          /\ UNCHANGED <<site, result, saved, past>>

\* The records whose price and date can be read are one insert, which fails as a
\* whole; a failure is logged and forgotten.
SavePage ==
    /\ crawl.pc = "saving"
    /\ \E read \in SUBSET crawl.rows :
          /\ saved' = [x \in Records |-> saved[x] + (IF x \in read THEN 1 ELSE 0)]
          /\ unsaved' = unsaved \cup (crawl.rows \ read)
    /\ crawl' = [pc |-> "saved", page |-> crawl.page, total |-> crawl.total]
    /\ UNCHANGED <<site, result, due, grown>>

\* Mutants: one page too early; not when the total fills the page exactly.
OnePageLeft(total, page) == total <= (page + 1) * PageSize
PageNotFilled(total, page) == total < page * PageSize

HasThemAll(total, page) == total <= page * PageSize

NextPage ==
    /\ crawl.pc = "saved"
    /\ \/ HasThemAll(crawl.total, crawl.page) /\ Return("nil")
       \/ /\ ~HasThemAll(crawl.total, crawl.page)
          /\ GoOn(crawl.page)
          /\ crawl' = Idle \/ UNCHANGED <<due, grown>>

\* The gateway ends, and the crawl with it.
CrawlStops == Return("none")
-----------------------------------------------------------------------------

Returns(error) == crawl # Idle /\ crawl' = Idle /\ result' = error

\* A crawl that returns no error has saved every record that was on the site when
\* it began, in spite of what the site published meanwhile, unless the record was
\* pushed behind the last page, could not be read or saved, a page failed to come,
\* or the site withdrew something; and to save a record once more, the site must have
\* grown once more.
NothingMissed ==
    [][Returns("nil") =>
          \/ crawl.pc = "fetching"
          \/ \A i \in DOMAIN due :
                /\ i + grown <= MaxPages * PageSize =>
                      saved[due[i]] >= 1 \/ due[i] \in unsaved
                /\ saved[due[i]] <= 1 + grown]_crawlVars

\* "No more data found." (market_price_repository.go:128) is answered only when
\* nothing is owed: the site was empty when the crawl began, or since then a page
\* failed to come or a record was withdrawn, each of which ends what is owed.
NoDataHasACause == [][Returns("no more data") => due = <<>>]_crawlVars
=============================================================================
