---------------------------- MODULE BrowserPool -----------------------------
(***************************************************************************)
(* Pages of the headless browser: src/services/browser-pool.js and its     *)
(* user, the browser scraping of src/services/scraper.js.                  *)
(*                                                                         *)
(* acquirePage is serialised by a chain of promises; contextCounter goes   *)
(* up when a page is made and down when the closing of its context is      *)
(* over, once per call of release().                                       *)
(***************************************************************************)
EXTENDS Integers, FiniteSets

CONSTANTS
    Scrape,     \* scrapings under way
    MaxPages,   \* BROWSER_MAX_PAGES
    MaxTwice    \* bound: releases called twice

ASSUME PoolConstants == IsFiniteSet(Scrape) /\ MaxPages \in Nat \ {0} /\ MaxTwice \in Nat

VARIABLES
    browser,    \* browserInstance is there and connected
    counter,    \* contextCounter
    scrape,     \* where each scraping stands
    closing,    \* calls of release() whose close() is not over
    open,       \* scrapings whose context is open and known to them
    twice       \* history: releases called a second time

poolVars == <<browser, counter, scrape, closing, open, twice>>

PoolTypeOK ==
    /\ browser \in BOOLEAN /\ counter \in Int
    /\ scrape \in [Scrape -> {"idle", "waiting", "turn", "launched", "context", "page", "read", "done"}]
    /\ closing \in [Scrape -> 0..2]
    /\ open \subseteq Scrape /\ twice \in 0..MaxTwice

PoolInit ==
    /\ browser = FALSE /\ counter = 0 /\ open = {} /\ twice = 0
    /\ scrape = [s \in Scrape |-> "idle"]
    /\ closing = [s \in Scrape |-> 0]

-----------------------------------------------------------------------------
\* Mutated form of the operator below.
RoomAtLimit == counter <= MaxPages

\* contextCounter < MAX_PAGES
Room == counter < MaxPages

\* contextLock: somebody is between its acquisition and its release.
Inside == {"turn", "launched", "context"}

Goes(s, to) == scrape' = [scrape EXCEPT ![s] = to]

-----------------------------------------------------------------------------
Ask(s) ==
    /\ scrape[s] = "idle"
    /\ Goes(s, "waiting")
    /\ UNCHANGED <<browser, counter, closing, open, twice>>

\* acquireContextLock
EnterLock(s) ==
    /\ scrape[s] = "waiting"
    /\ \A t \in Scrape : scrape[t] \notin Inside
    /\ Goes(s, IF Room THEN "turn" ELSE "idle")
    /\ UNCHANGED <<browser, counter, closing, open, twice>>

\* getBrowser: the browser that is there, or a new one.
GetBrowser(s) ==
    /\ scrape[s] = "turn"
    /\ browser' = TRUE
    /\ Goes(s, "launched")
    /\ UNCHANGED <<counter, closing, open, twice>>

NewContext(s) ==
    /\ scrape[s] = "launched" /\ browser
    /\ open' = open \cup {s}
    /\ Goes(s, "context")
    /\ UNCHANGED <<browser, counter, closing, twice>>

NewPage(s) ==
    /\ scrape[s] = "context" /\ s \in open
    /\ counter' = counter + 1
    /\ Goes(s, "page")
    /\ UNCHANGED <<browser, closing, open, twice>>

\* The launch, newContext or newPage fails: the lock is released.  A context
\* that was made stays open until the browser dies, and nobody counts it, here
\* or there.
AcquireFails(s) ==
    /\ scrape[s] \in Inside
    /\ open' = open \ {s}
    /\ Goes(s, "idle")
    /\ UNCHANGED <<browser, counter, closing, twice>>

\* release(), after the page was read or in the catch.
Release(s, works) ==
    /\ scrape[s] = "page"
    /\ closing' = [closing EXCEPT ![s] = @ + 1]
    /\ Goes(s, IF works THEN "read" ELSE "done")
    /\ UNCHANGED <<browser, counter, open, twice>>

\* The page is converted; when that fails, the catch releases again.
Convert(s, works) ==
    /\ scrape[s] = "read"
    /\ works \/ twice < MaxTwice
    /\ closing' = IF works THEN closing ELSE [closing EXCEPT ![s] = @ + 1]
    /\ twice' = IF works THEN twice ELSE twice + 1
    /\ Goes(s, "done")
    /\ UNCHANGED <<browser, counter, open>>

\* context.close() is over, well or badly; of two calls either may be the one
\* that waited for the context.
CloseEnds(s, last) ==
    /\ closing[s] > 0 /\ (closing[s] = 1 => last)
    /\ counter' = counter - 1
    /\ open' = IF last THEN open \ {s} ELSE open
    /\ closing' = [closing EXCEPT ![s] = @ - 1]
    /\ UNCHANGED <<browser, scrape, twice>>

Return(s) ==
    /\ scrape[s] = "done" /\ closing[s] = 0
    /\ Goes(s, "idle")
    /\ UNCHANGED <<browser, counter, closing, open, twice>>

\* The browser dies with all its contexts, or is closed at the shutdown.
Disconnect ==
    /\ browser
    /\ browser' = FALSE /\ open' = {}
    /\ UNCHANGED <<counter, scrape, closing, twice>>

PoolNext ==
    \/ \E s \in Scrape : Ask(s) \/ EnterLock(s) \/ GetBrowser(s) \/ NewContext(s)
                         \/ NewPage(s) \/ AcquireFails(s) \/ Return(s)
    \/ \E s \in Scrape, works \in BOOLEAN : Release(s, works) \/ Convert(s, works)
    \/ \E s \in Scrape, last \in BOOLEAN : CloseEnds(s, last)
    \/ Disconnect

PoolSpec == PoolInit /\ [][PoolNext]_poolVars

-----------------------------------------------------------------------------
\* No more contexts are in use than BROWSER_MAX_PAGES, save one for each release()
\* that a failed conversion called a second time: each takes the counter down
\* for good.
PagesBounded == Cardinality(open) <= MaxPages + twice
=============================================================================
