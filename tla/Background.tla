---------------------------- MODULE Background ----------------------------
(***************************************************************************)
(* What the gateway does besides its requests: the crawl of market prices, *)
(* and the log files that the statements of the crawl and of the requests  *)
(* are written to.  A page is saved, and its line logged, before the crawl *)
(* goes on: a crawl waits for whoever else logs, and runs over midnight.   *)
(***************************************************************************)
EXTENDS MarketCrawl, DailyLogWriter

CONSTANT Crawler    \* the goroutine of the crawl

ASSUME CrawlerAssumption == Crawler \in Writers

vars == <<crawlVars, logVars>>

Init == CrawlInit /\ LogInit

\* gorm logs the statement of an insert once it is done, whether it failed or not.
SaveAndLog == SavePage /\ Log(Crawler)

GoOnOnceLogged == line[Crawler] = NoLine /\ NextPage /\ UNCHANGED logVars

CrawlStep ==
    \/ SaveAndLog
    \/ GoOnOnceLogged
    \/ (Publish \/ Withdraw \/ Begin \/ FetchFails \/ Refused \/ Fetch)
          /\ UNCHANGED logVars

LogStep ==
    /\ \/ \E w \in Writers \ {Crawler} : Log(w)
       \/ \E w \in Writers : rotateFileIfNeeded(w) \/ Write(w)
       \/ Midnight \/ Close
    /\ UNCHANGED crawlVars

Restart == CrawlStops /\ LogRestart

Next == CrawlStep \/ LogStep \/ Restart

Spec == Init /\ [][Next]_vars
=============================================================================
