-------------------------- MODULE DailyLogWriter --------------------------
(***************************************************************************)
(* The writer of the log files (src/utils/log_writer.go): one file a day,  *)
(* opened by the first line of the day.  gorm writes a line for every      *)
(* statement, from whichever goroutine made it.                            *)
(*                                                                         *)
(* A line is dated by the logger before it waits for the mutex; the writer *)
(* reads the clock itself, under the mutex, and the file is written to     *)
(* later still: midnight may fall anywhere in between.  Opening a file and *)
(* writing to it may fail.  The clock does not go back.                    *)
(***************************************************************************)
EXTENDS Integers

CONSTANTS
    Writers,    \* goroutines that log
    Nobody,
    LastDay     \* bound on the days, for model checking only

ASSUME WritersAssumption == Nobody \notin Writers
ASSUME LastDayAssumption == LastDay \in Nat \ {0}

Days == 1 .. LastDay

VARIABLES
    today,          \* the clock
    currentDate,    \* DailyLogWriter.currentDate
    isOpen,         \* whether currentFile is an open file
    holder,         \* who holds the mutex
    line,           \* each goroutine's line: where it is, what day it is dated
    lost,           \* why a goroutine's last line was not written, if so
    files,          \* the days whose file has a line; for properties only
    closed          \* whether Close was called; for properties only

logVars == <<today, currentDate, isOpen, holder, line, lost, files, closed>>

NoLine == [pc |-> "none"]

\* NewDailyLogWriter opens the file of the day.
LogInit ==
    /\ today = 1 /\ currentDate = 1 /\ isOpen = TRUE
    /\ holder = Nobody
    /\ line = [w \in Writers |-> NoLine]
    /\ lost = [w \in Writers |-> "no"]
    /\ files = {}
    /\ closed = FALSE

Midnight ==
    /\ today < LastDay
    /\ today' = today + 1
    /\ UNCHANGED <<currentDate, isOpen, holder, line, lost, files, closed>>

-----------------------------------------------------------------------------
(* Write *)

\* The logger dates the line.
Log(w) ==
    /\ line[w] = NoLine
    /\ line' = [line EXCEPT ![w] = [pc |-> "dated", day |-> today]]
    /\ lost' = [lost EXCEPT ![w] = "no"]
    /\ UNCHANGED <<today, currentDate, isOpen, holder, files, closed>>

Done(w, reason) ==
    /\ line' = [line EXCEPT ![w] = NoLine]
    /\ lost' = [lost EXCEPT ![w] = reason]
    /\ holder' = Nobody

\* Mutant: the line goes into the file of its own date.
DateOfTheLine(w) == line[w].day
FileDate(w) == today

\* Mutant: the date is set before the file is opened.
DatedButNotOpen(w) == currentDate' = FileDate(w) /\ isOpen' = FALSE

\* The old file is closed by then, and currentDate left as it was.
NotOpened(w) == isOpen' = FALSE /\ UNCHANGED currentDate

Opened(w) == isOpen' = TRUE /\ currentDate' = FileDate(w)

Proceed(w) ==
    /\ holder' = w
    /\ line' = [line EXCEPT ![w].pc = "writing"]
    /\ UNCHANGED lost

rotateFileIfNeeded(w) ==
    /\ line[w].pc = "dated" /\ holder = Nobody
    /\ \/ FileDate(w) = currentDate /\ Proceed(w) /\ UNCHANGED <<currentDate, isOpen>>
       \/ FileDate(w) # currentDate /\ Opened(w) /\ Proceed(w)
       \/ FileDate(w) # currentDate /\ NotOpened(w) /\ Done(w, "own")
    /\ UNCHANGED <<today, files, closed>>

Write(w) ==
    /\ line[w].pc = "writing"
    /\ \/ isOpen /\ files' = files \cup {currentDate} /\ Done(w, "no")
       \/ isOpen /\ Done(w, "own") /\ UNCHANGED files
       \/ ~isOpen /\ Done(w, "file closed") /\ UNCHANGED files
    /\ UNCHANGED <<today, currentDate, isOpen, closed>>

-----------------------------------------------------------------------------

\* The gateway's Run is about to return, while its requests go on.
Close ==
    /\ holder = Nobody
    /\ isOpen' = FALSE /\ closed' = TRUE
    /\ UNCHANGED <<today, currentDate, holder, line, lost, files>>

\* The gateway ends, in whatever it was about, and starts anew.
LogRestart ==
    /\ currentDate' = today /\ isOpen' = TRUE /\ closed' = FALSE
    /\ holder' = Nobody
    /\ line' = [w \in Writers |-> NoLine]
    /\ lost' = [w \in Writers |-> "no"]
    /\ UNCHANGED <<today, files>>
-----------------------------------------------------------------------------

\* The files are one log cut at midnights: no line goes into a file when a later
\* one has been written to, whoever was held up over midnight, whatever failed.
WrittenInOrder ==
    [][\A w \in Writers :
          line[w].pc = "writing" /\ line'[w] = NoLine /\ lost'[w] = "no" =>
              \A d \in files : d <= currentDate]_logVars

\* A line is only ever lost to a failure of its own: a file that could not be
\* opened for one line is opened for the next (log_writer.go:59 leaves currentDate
\* alone), and nobody writes to a file that was closed under it but by Close.
LostForACause == \A w \in Writers : lost[w] = "file closed" => closed
=============================================================================
