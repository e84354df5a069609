---------------------------- MODULE ScraperProofs ----------------------------
(* Theorems about the three components of a scrape: PageFetch, for all      *)
(* watches, pages, attempts and tries; ScrapeHealth, for every number of    *)
(* stores, runs and days; DealAlerts, for all watches, prices and periods.  *)
EXTENDS PageFetch, ScrapeHealth, DealAlerts, SequenceTheorems, WellFoundedInduction, TLAPS

(* PageFetch *)

Working == {"fetch", "page", "load", "parse"}

(* All drivers but the newest are ones whose launch failed, and so is that  *)
(* one while there is no browser.                                           *)
Launches ==
  /\ starts \in Nat /\ drivers \subseteq 1..starts /\ unlaunched \subseteq 1..starts
  /\ drivers \subseteq unlaunched \cup {starts}
  /\ ~browser /\ fetchPc # "raised" => drivers \subseteq unlaunched

(* Contexts belong to the browser's shops; a page is open only while it     *)
(* loads.                                                                   *)
EngineInv ==
  /\ fetchPc \in {"next", "end", "closed", "raised"} \cup Working
  /\ try \in Nat /\ try > 0
  /\ contexts \subseteq BrowserSites /\ poisoned \subseteq contexts
  /\ fetchPc # "load" => page = NoPage
  /\ fetchPc = "closed" => drivers \subseteq unlaunched \ {starts}
  /\ fetchPc \in Working /\ try > 1 => Site \notin poisoned
  /\ Launches

(* A failure that is on record when the first try has ended is that of a    *)
(* card of its page without a price in any layer of its own.                *)
LayerInv ==
  /\ html \in Listings \cup {NoHtml}
  /\ fetchPc \in Working /\ try = 1 => failures = {}
  /\ fetchPc = "next" /\ try = 1 => \A c \in Cards :
       c.url \in failures => c.semantic = NoPrice /\ c.shown = NoPrice

LEMMA InitEngine == FetchInit => EngineInv
BY DEF FetchInit, EngineInv, Launches, Working

(* start(), wherever it ends.                                               *)
LEMMA LaunchSteps ==
  ASSUME Launches, fetchPc # "raised",
         NotEntered \/ NotLaunched \/ StartBrowser \/ UNCHANGED launches
  PROVE  Launches'
<1>1. CASE NotEntered
  BY <1>1 DEF Launches, NotEntered, Unstarted
<1>2. CASE NotLaunched
  BY <1>2 DEF Launches, NotLaunched, Unstarted
<1>3. CASE StartBrowser
  <2>1. CASE browser
    BY <1>3, <2>1 DEF Launches, StartBrowser, Unstarted, launches
  <2>2. CASE ~browser
    <3>1. browser' /\ starts' = starts + 1 /\ drivers' = drivers \cup {starts + 1}
          /\ unlaunched' = unlaunched
      BY <1>3, <2>2, Zenon DEF StartBrowser, Unstarted
    <3>2. QED
      BY <2>2, <3>1 DEF Launches
  <2>3. QED
    BY <2>1, <2>2
<1>4. CASE UNCHANGED launches
  BY <1>4 DEF Launches, launches
<1>5. QED
  BY <1>1, <1>2, <1>3, <1>4

(* with_retry: the next try does not find the context of the last one.      *)
LEMMA RaisedEngine ==
  ASSUME EngineInv, fetchPc \in Working, Raised, page' = NoPage, watch' = watch, Launches'
  PROVE  EngineInv'
<1>1. CASE try < Tries
  <2>1. /\ contexts' = contexts \ ({Site} \cap BrowserSites)
        /\ poisoned' = poisoned \ ({Site} \cap BrowserSites)
        /\ try' = try + 1 /\ fetchPc' = "fetch"
    BY <1>1 DEF Raised, Reset
  <2>2. Site' = Site
    BY DEF Site
  <2>3. Site \notin poisoned'
    BY <2>1 DEF EngineInv
  <2>4. QED
    BY <2>1, <2>2, <2>3 DEF EngineInv, Working
<1>2. CASE ~(try < Tries)
  <2>1. /\ poisoned' = poisoned \cup ({Site} \cap contexts) /\ fetchPc' = "next"
        /\ try' = try /\ contexts' = contexts
    BY <1>2 DEF Raised
  <2>2. QED
    BY <2>1 DEF EngineInv, Working
<1>3. QED
  BY <1>1, <1>2

LEMMA StepEngine == EngineInv /\ [FetchNext]_fetchVars => EngineInv'
<1> SUFFICES ASSUME EngineInv, [FetchNext]_fetchVars PROVE EngineInv'
  OBVIOUS
<1> USE DEF EngineInv, Working
<1>l. Launches
  OBVIOUS
<1>r. ASSUME Raised, fetchPc \in Working, page' = NoPage, watch' = watch,
             NotEntered \/ NotLaunched \/ StartBrowser \/ UNCHANGED launches
      PROVE  EngineInv'
  <2>1. Launches'
    BY <1>l, <1>r, LaunchSteps
  <2>2. QED
    BY <1>r, <2>1, RaisedEngine
<1>k. ASSUME UNCHANGED launches, fetchPc # "raised" PROVE Launches'
  BY <1>l, <1>k, LaunchSteps
<1>1. CASE NextWatch
  BY <1>1, <1>k DEF NextWatch, engine
<1>2. CASE \E status \in HttpStatuses, blocked \in BOOLEAN : HttpGet(status, blocked)
  <2>1. PICK status \in HttpStatuses, blocked \in BOOLEAN : HttpGet(status, blocked)
    BY <1>2
  <2>2. /\ fetchPc = "fetch" /\ fetchPc' \in {"fetch", "parse"} /\ watch' = watch /\ try' = try
        /\ UNCHANGED <<launches, contexts, poisoned, page>>
    BY <2>1 DEF HttpGet, engine
  <2>3. QED
    BY <2>2, <1>k DEF Site
<1>3. CASE HttpFails
  BY <1>3, <1>k DEF HttpFails, position, engine, Site
<1>4. CASE GetContext
  <2>1. Launches'
    BY <1>4, <1>l, LaunchSteps DEF GetContext
  <2>2. QED
    BY <1>4, <2>1 DEF GetContext, position, Site
<1>5. CASE NoContext
  BY <1>5, <1>r DEF NoContext
<1>6. CASE NewPage
  BY <1>6, <1>k DEF NewPage, position, Site
<1>7. CASE NoNewPage
  BY <1>7, <1>r DEF NoNewPage
<1>8. CASE \E status \in BrowserStatuses, blocked \in BOOLEAN : Load(status, blocked)
  <2>1. PICK status \in BrowserStatuses, blocked \in BOOLEAN : Load(status, blocked)
    BY <1>8
  <2>2. /\ fetchPc = "load" /\ fetchPc' \in {"fetch", "parse"} /\ watch' = watch /\ try' = try
        /\ page' = NoPage /\ UNCHANGED <<launches, contexts, poisoned>>
    BY <2>1 DEF Load, PageClosed
  <2>3. QED
    BY <2>2, <1>k DEF Site
<1>9. CASE LoadFails
  BY <1>9, <1>k DEF LoadFails, PageClosed, position, Site
<1>10. CASE Parse
  BY <1>10, <1>k DEF Parse, position, engine
<1>11. CASE ParseFails
  BY <1>11, <1>r DEF ParseFails
<1>12. CASE PageLost
  BY <1>12, <1>r DEF PageLost, PageClosed
<1>13. CASE Close
  BY <1>13, <1>l DEF Close, Teardown, position, Launches
<1>14. CASE CloseFails
  BY <1>14, <1>l DEF CloseFails, Teardown, position, Launches
<1>15. CASE UNCHANGED fetchVars
  BY <1>15, <1>l DEF fetchVars, position, engine, launches, Site, Launches
<1>16. QED
  BY <1>1, <1>2, <1>3, <1>4, <1>5, <1>6, <1>7, <1>8, <1>9, <1>10, <1>11, <1>12, <1>13, <1>14, <1>15 DEF FetchNext

LEMMA EngineAlways == FetchSpec => []EngineInv
BY InitEngine, StepEngine, PTL DEF FetchSpec

(* A second try never runs in a context in which something raised, and no   *)
(* page outlives its request.                                               *)
THEOREM RetriesAreFresh == FetchSpec => []FreshRetry
<1>1. EngineInv => FreshRetry
  BY DEF EngineInv, Working, FreshRetry
<1>2. QED
  BY <1>1, EngineAlways, PTL

(* A run that was closed leaves no launched browser behind, and no driver   *)
(* but those whose launch failed before another was made.                   *)
THEOREM BrowsersAreClosed == FetchSpec => []BrowsersClosed
<1>1. EngineInv => BrowsersClosed
  BY DEF EngineInv, BrowsersClosed
<1>2. QED
  BY <1>1, EngineAlways, PTL

----------------------------------------------------------------------------
(* The watch at hand is one of the watches while a scraper works on it.     *)
FetchTypeInv ==
  /\ FetchTypeOK
  /\ fetchPc = "next" => watch <= Len(WatchSites)
  /\ fetchPc \in Working => watch \in 1..Len(WatchSites)

LEMMA WatchFacts ==
  /\ Len(WatchSites) \in Nat /\ \A w \in 1..Len(WatchSites) : WatchSites[w] \in Sites
  /\ Attempts \in Nat \ {0} /\ Tries \in Nat \ {0}
BY FetchAssumption DEF Sites

LEMMA InitFetchTypes == FetchInit => FetchTypeInv
<1> SUFFICES ASSUME FetchInit PROVE FetchTypeInv
  OBVIOUS
<1>1. Zero \in [Sites -> Nat]
  BY DEF Zero
<1>2. requests \in [Sites -> Nat] /\ limited \in [Sites -> Nat] /\ challenged \in [Sites -> Nat]
  BY <1>1 DEF FetchInit
<1>3. /\ fetchPc = "next" /\ watch = 0 /\ try = 1 /\ attempt = 1
      /\ contexts = {} /\ poisoned = {} /\ page = NoPage /\ html = NoHtml
  BY DEF FetchInit
<1>4. browser \in BOOLEAN
  BY Zenon DEF FetchInit
<1>5. LaunchTypes
  <2>1. starts = 0 /\ drivers = {} /\ unlaunched = {}
    BY DEF FetchInit
  <2>2. QED
    BY <1>4, <2>1 DEF LaunchTypes
<1>6. QED
  BY <1>2, <1>3, <1>4, <1>5, WatchFacts DEF FetchTypeInv, FetchTypeOK, Working

LEMMA CountTypes ==
  ASSUME FetchTypeInv, Site \in Sites, NEW status, Count(status)
  PROVE  requests' \in [Sites -> Nat] /\ limited' \in [Sites -> Nat]
BY DEF Count, FetchTypeInv, FetchTypeOK

LEMMA LaunchesTyped ==
  ASSUME LaunchTypes, NotEntered \/ NotLaunched \/ StartBrowser \/ UNCHANGED launches
  PROVE  LaunchTypes'
<1>1. starts' \in Nat /\ drivers' \subseteq 1..starts' /\ unlaunched' \subseteq 1..starts'
  <2>1. \/ starts' = starts /\ drivers' = drivers /\ unlaunched' = unlaunched
        \/ /\ starts' = starts + 1 /\ drivers' \in {drivers, drivers \cup {starts + 1}}
           /\ unlaunched' \in {unlaunched, unlaunched \cup {starts + 1}}
    BY Zenon DEF NotEntered, NotLaunched, StartBrowser, launches
  <2>2. starts \in Nat /\ drivers \subseteq 1..starts /\ unlaunched \subseteq 1..starts
    BY Zenon DEF LaunchTypes
  <2>3. 1..starts \subseteq 1..(starts + 1) /\ starts + 1 \in 1..(starts + 1) /\ starts + 1 \in Nat
    BY <2>2
  <2>4. QED
    BY <2>1, <2>2, <2>3
<1>2. browser' = browser \/ browser' = TRUE
  BY Zenon DEF NotEntered, NotLaunched, StartBrowser, Unstarted, launches
<1>3. browser' \in BOOLEAN
  BY <1>2, Zenon DEF LaunchTypes
<1>4. QED
  BY <1>1, <1>3 DEF LaunchTypes

LEMMA RaisedTypes ==
  ASSUME FetchTypeInv, fetchPc \in Working, Raised, UNCHANGED watch,
         page' \in Sites \cup {NoPage}, LaunchTypes',
         requests' \in [Sites -> Nat], limited' \in [Sites -> Nat], UNCHANGED challenged
  PROVE  FetchTypeInv'
<1>1. /\ contexts \subseteq BrowserSites /\ poisoned \subseteq contexts
      /\ watch \in 1..Len(WatchSites) /\ try \in 1..Tries /\ attempt \in 1..Attempts
      /\ challenged \in [Sites -> Nat]
  BY DEF FetchTypeInv, FetchTypeOK
<1>2. LaunchTypes' /\ watch' = watch /\ challenged' = challenged
  OBVIOUS
<1>3. contexts' \subseteq BrowserSites /\ poisoned' \subseteq contexts'
  BY <1>1 DEF Raised, Reset
<1>4. try' \in 1..Tries /\ attempt' \in 1..Attempts
  BY <1>1, WatchFacts DEF Raised
<1>5. fetchPc' \in {"fetch", "next"} /\ html' = NoHtml
  BY DEF Raised
<1>6. QED
  BY <1>1, <1>2, <1>3, <1>4, <1>5, WatchFacts DEF FetchTypeInv, FetchTypeOK, Working

LEMMA StepFetchTypes == FetchTypeInv /\ [FetchNext]_fetchVars => FetchTypeInv'
<1> SUFFICES ASSUME FetchTypeInv, [FetchNext]_fetchVars PROVE FetchTypeInv'
  OBVIOUS
<1>1. /\ fetchPc \in {"next", "fetch", "page", "load", "parse", "end", "closed", "raised"}
      /\ watch \in 0..(Len(WatchSites) + 1) /\ try \in 1..Tries /\ attempt \in 1..Attempts
      /\ contexts \subseteq BrowserSites /\ poisoned \subseteq contexts
      /\ page \in Sites \cup {NoPage} /\ html \in Listings \cup {NoHtml}
      /\ requests \in [Sites -> Nat] /\ limited \in [Sites -> Nat]
      /\ challenged \in [Sites -> Nat]
      /\ fetchPc = "next" => watch <= Len(WatchSites)
      /\ fetchPc \in Working => watch \in 1..Len(WatchSites)
  BY DEF FetchTypeInv, FetchTypeOK
<1>2. fetchPc \in Working => Site \in Sites
  BY <1>1, WatchFacts DEF Site
<1>t. LaunchTypes
  BY DEF FetchTypeInv, FetchTypeOK
<1>k. ASSUME UNCHANGED launches PROVE LaunchTypes'
  BY <1>t, <1>k, LaunchesTyped
<1>r. ASSUME fetchPc \in Working, Raised, UNCHANGED <<watch, page, counts>>,
             NotEntered \/ NotLaunched \/ StartBrowser \/ UNCHANGED launches
      PROVE  FetchTypeInv'
  <2>1. LaunchTypes'
    BY <1>t, <1>r, LaunchesTyped
  <2>2. /\ watch' = watch /\ page' \in Sites \cup {NoPage} /\ challenged' = challenged
        /\ requests' \in [Sites -> Nat] /\ limited' \in [Sites -> Nat]
    BY <1>1, <1>r DEF counts
  <2>3. QED
    BY <1>r, <2>1, <2>2, RaisedTypes
<1> USE DEF FetchTypeInv, FetchTypeOK, Working, position, engine, counts, found
<1>3. CASE NextWatch
  BY <1>1, <1>3, <1>k, WatchFacts DEF NextWatch
<1>4. CASE \E status \in HttpStatuses, blocked \in BOOLEAN : HttpGet(status, blocked)
  <2>1. PICK status \in HttpStatuses, blocked \in BOOLEAN : HttpGet(status, blocked)
    BY <1>4
  <2>2. fetchPc = "fetch" /\ Count(status) /\ Site \in Sites
    BY <2>1, <1>2 DEF HttpGet
  <2>3. requests' \in [Sites -> Nat] /\ limited' \in [Sites -> Nat]
    BY <2>2, CountTypes
  <2>4. challenged' \in [Sites -> Nat]
    <3>1. challenged' = challenged \/ challenged' = [challenged EXCEPT ![Site] = @ + 1]
      BY <2>1, Zenon DEF HttpGet, Challenged
    <3>2. QED
      BY <1>1, <2>2, <3>1
  <2>5. /\ fetchPc' \in {"fetch", "parse"} /\ attempt' \in 1..Attempts
        /\ html' \in Listings \cup {NoHtml}
    <3>1. CASE status = "limited" /\ AttemptsLeft
      BY <1>1, <2>1, <2>2, <3>1, WatchFacts DEF HttpGet, AttemptsLeft
    <3>2. CASE ~(status = "limited" /\ AttemptsLeft)
      BY <1>1, <2>1, <3>2 DEF HttpGet
    <3>3. QED
      BY <3>1, <3>2
  <2>6. UNCHANGED <<watch, try, launches, contexts, poisoned, page>>
    BY <2>1 DEF HttpGet
  <2>7. QED
    BY <1>1, <1>k, <2>2, <2>3, <2>4, <2>5, <2>6
<1>5. CASE HttpFails
  BY <1>1, <1>5, <1>k DEF HttpFails
<1>6. CASE GetContext
  <2>1. LaunchTypes'
    BY <1>6, <1>t, LaunchesTyped DEF GetContext
  <2>2. QED
    BY <1>1, <1>6, <2>1 DEF GetContext
<1>7. CASE NoContext
  BY <1>7, <1>r DEF NoContext
<1>8. CASE NewPage
  BY <1>1, <1>2, <1>8, <1>k DEF NewPage
<1>9. CASE NoNewPage
  BY <1>9, <1>r DEF NoNewPage
<1>10. CASE \E status \in BrowserStatuses, blocked \in BOOLEAN : Load(status, blocked)
  <2>1. PICK status \in BrowserStatuses, blocked \in BOOLEAN : Load(status, blocked)
    BY <1>10
  <2>2. fetchPc = "load" /\ Count(status) /\ Site \in Sites
    BY <2>1, <1>2 DEF Load
  <2>3. requests' \in [Sites -> Nat] /\ limited' \in [Sites -> Nat]
    BY <2>2, CountTypes
  <2>4. challenged' \in [Sites -> Nat]
    <3>1. challenged' = challenged \/ challenged' = [challenged EXCEPT ![Site] = @ + 1]
      BY <2>1, Zenon DEF Load, Challenged
    <3>2. QED
      BY <1>1, <2>2, <3>1
  <2>5. /\ fetchPc' \in {"fetch", "parse"} /\ attempt' \in 1..Attempts
        /\ html' \in Listings \cup {NoHtml} /\ page' = NoPage
    <3>1. CASE status \in {"limited", "unready"} /\ AttemptsLeft
      BY <1>1, <2>1, <2>2, <3>1, WatchFacts DEF Load, AttemptsLeft, PageClosed
    <3>2. CASE ~(status \in {"limited", "unready"} /\ AttemptsLeft)
      BY <1>1, <2>1, <3>2 DEF Load, PageClosed
    <3>3. QED
      BY <3>1, <3>2
  <2>6. UNCHANGED <<watch, try, launches, contexts, poisoned>>
    BY <2>1 DEF Load
  <2>7. QED
    BY <1>1, <1>k, <2>2, <2>3, <2>4, <2>5, <2>6
<1>11. CASE LoadFails
  <2>1. fetchPc = "load" /\ Site \in Sites
    BY <1>2, <1>11 DEF LoadFails
  <2>2. Count("ok") \/ Count("limited") \/ UNCHANGED <<requests, limited>>
    BY <1>11 DEF LoadFails
  <2>3. requests' \in [Sites -> Nat] /\ limited' \in [Sites -> Nat]
    BY <1>1, <2>1, <2>2, CountTypes
  <2>4. QED
    BY <1>1, <1>k, <1>11, <2>1, <2>3 DEF LoadFails, PageClosed
<1>12. CASE Parse
  BY <1>1, <1>12, <1>k DEF Parse
<1>13. CASE ParseFails
  BY <1>13, <1>r DEF ParseFails
<1>14. CASE PageLost
  <2>1. fetchPc = "load" /\ Site \in Sites
    BY <1>2, <1>14 DEF PageLost
  <2>2. Count("ok") \/ Count("limited") \/ UNCHANGED <<requests, limited>>
    BY <1>14 DEF PageLost
  <2>3. requests' \in [Sites -> Nat] /\ limited' \in [Sites -> Nat]
    BY <1>1, <2>1, <2>2, CountTypes
  <2>4. LaunchTypes' /\ page' \in Sites \cup {NoPage}
    BY <1>14, <1>k DEF PageLost, PageClosed
  <2>5. QED
    BY <1>14, <2>1, <2>3, <2>4, RaisedTypes DEF PageLost
<1>15. CASE Close
  <2>1. browser' \in BOOLEAN
    BY <1>15, Zenon DEF Close, Teardown
  <2>2. LaunchTypes'
    BY <1>t, <1>15, <2>1 DEF Close, Teardown, LaunchTypes
  <2>3. QED
    BY <1>1, <1>15, <2>2 DEF Close, Teardown
<1>16. CASE CloseFails
  <2>1. browser' \in BOOLEAN
    BY <1>16, Zenon DEF CloseFails, Teardown
  <2>2. LaunchTypes'
    BY <1>t, <1>16, <2>1 DEF CloseFails, Teardown, LaunchTypes
  <2>3. QED
    BY <1>1, <1>16, <2>2 DEF CloseFails, Teardown
<1>17. CASE UNCHANGED fetchVars
  BY <1>1, <1>k, <1>17 DEF fetchVars
<1>18. QED
  BY <1>3, <1>4, <1>5, <1>6, <1>7, <1>8, <1>9, <1>10, <1>11, <1>12, <1>13, <1>14, <1>15, <1>16, <1>17
  DEF FetchNext

(* Every variable of a run keeps its type: no try and no attempt is one too *)
(* many, whatever raises.                                                   *)
THEOREM FetchTypes == FetchSpec => []FetchTypeOK
<1>1. FetchTypeInv => FetchTypeOK
  BY DEF FetchTypeInv
<1>2. QED
  BY <1>1, InitFetchTypes, StepFetchTypes, PTL DEF FetchSpec

----------------------------------------------------------------------------
UniqueUrls ==
  \A p \in Pages : \A c, d \in Matching(p) : c.url = d.url => c = d

LEMMA NoPriceNoLayer ==
  ASSUME NEW p, NEW c, PriceOf(p, c) = NoPrice
  PROVE  c.semantic = NoPrice /\ c.shown = NoPrice
BY DEF PriceOf, Layered

LEMMA RaisedLayers ==
  ASSUME EngineInv, Raised
  PROVE  LayerInv'
<1>1. html' = NoHtml /\ (fetchPc' = "next" \/ try' # 1)
  BY DEF Raised, EngineInv
<1>2. fetchPc' \in Working => try' # 1
  BY DEF Raised, EngineInv, Working
<1>3. Cards' = {}
  BY <1>1 DEF Cards
<1>4. QED
  BY <1>1, <1>2, <1>3 DEF LayerInv

LEMMA StepLayers ==
  ASSUME UniqueUrls, EngineInv, LayerInv, [FetchNext]_fetchVars
  PROVE  LayerInv'
<1>1. CASE NextWatch
  <2>1. failures' = {} /\ html' = NoHtml
    BY <1>1 DEF NextWatch
  <2>2. QED
    BY <2>1 DEF LayerInv
<1>2. CASE Parse
  <2>1. html' = html /\ failures' = failures \cup Unreadable /\ try' = try /\ fetchPc = "parse"
        /\ fetchPc' = "next"
    BY <1>2 DEF Parse, position
  <2>2. ASSUME try = 1, NEW c \in Cards, c.url \in Unreadable
        PROVE  c.semantic = NoPrice /\ c.shown = NoPrice
    <3>1. html # NoHtml /\ c \in Matching(html[1])
      BY <2>2 DEF Cards
    <3>2. PICK p \in Pages : html = <<p>>
      BY <3>1 DEF LayerInv, Listings
    <3>3. PICK d \in Cards : d.url = c.url /\ PriceOf(html[1], d) = NoPrice
      BY <2>2 DEF Unreadable
    <3>4. d \in Matching(html[1])
      BY <3>1, <3>3 DEF Cards
    <3>5. html[1] = p
      BY <3>2
    <3>6. c = d
      BY <3>1, <3>3, <3>4, <3>5 DEF UniqueUrls
    <3>7. QED
      BY <3>3, <3>6, NoPriceNoLayer
  <2>3. Cards' = Cards
    BY <2>1 DEF Cards
  <2>4. try = 1 => failures = {}
    BY <2>1 DEF LayerInv, Working
  <2>5. QED
    BY <2>1, <2>2, <2>3, <2>4 DEF LayerInv, Working
<1>3. CASE NoContext \/ NoNewPage \/ PageLost \/ ParseFails
  <2>1. Raised
    BY <1>3 DEF NoContext, NoNewPage, PageLost, ParseFails
  <2>2. QED
    BY <2>1, RaisedLayers
<1>4. CASE \E status \in HttpStatuses, blocked \in BOOLEAN : HttpGet(status, blocked)
  <2>1. PICK status \in HttpStatuses, blocked \in BOOLEAN : HttpGet(status, blocked)
    BY <1>4
  <2>2. /\ fetchPc = "fetch" /\ fetchPc' \in {"fetch", "parse"} /\ try' = try /\ failures' = failures
        /\ html' \in Listings \cup {NoHtml, html}
    BY <2>1 DEF HttpGet, found
  <2>3. QED
    BY <2>2 DEF LayerInv, Working
<1>5. CASE \E status \in BrowserStatuses, blocked \in BOOLEAN : Load(status, blocked)
  <2>1. PICK status \in BrowserStatuses, blocked \in BOOLEAN : Load(status, blocked)
    BY <1>5
  <2>2. /\ fetchPc = "load" /\ fetchPc' \in {"fetch", "parse"} /\ try' = try /\ failures' = failures
        /\ html' \in Listings \cup {NoHtml, html}
    BY <2>1 DEF Load, found
  <2>3. QED
    BY <2>2 DEF LayerInv, Working
<1>6. CASE HttpFails \/ LoadFails
  <2>1. /\ fetchPc \in Working /\ fetchPc' = "parse" /\ html' = NoHtml /\ try' = try /\ failures' = failures
    BY <1>6 DEF HttpFails, LoadFails, position, found, Working
  <2>2. QED
    BY <2>1 DEF LayerInv, Working
<1>7. CASE GetContext \/ NewPage
  <2>1. /\ fetchPc \in Working /\ fetchPc' \in {"page", "load"} /\ html' = html /\ try' = try
        /\ failures' = failures
    BY <1>7 DEF GetContext, NewPage, position, found, Working
  <2>2. QED
    BY <2>1 DEF LayerInv, Working
<1>8. CASE Close \/ CloseFails
  <2>1. html' = html /\ fetchPc' \in {"closed", "raised"}
    BY <1>8 DEF Close, CloseFails
  <2>2. QED
    BY <2>1 DEF LayerInv, Working
<1>9. CASE UNCHANGED fetchVars
  <2>1. fetchPc' = fetchPc /\ html' = html /\ try' = try /\ failures' = failures
    BY <1>9 DEF fetchVars, position, found
  <2>2. Cards' = Cards
    BY <2>1 DEF Cards
  <2>3. QED
    BY <2>1, <2>2 DEF LayerInv
<1>10. QED
  BY <1>1, <1>2, <1>3, <1>4, <1>5, <1>6, <1>7, <1>8, <1>9 DEF FetchNext

(* A card with a valid price in a layer of its own is not given up as       *)
(* unreadable, whatever the JSON-LD says, as long as a listing's cards      *)
(* differ in their URLs.                                                    *)
THEOREM LayersSuffice ==
  ASSUME UniqueUrls
  PROVE  FetchSpec => []AnyLayerSuffices
<1>1. FetchInit => EngineInv /\ LayerInv
  <2>1. FetchInit => LayerInv
    BY DEF FetchInit, LayerInv, Cards, Working
  <2>2. QED
    BY <2>1, InitEngine
<1>2. (EngineInv /\ LayerInv) /\ [FetchNext]_fetchVars => (EngineInv /\ LayerInv)'
  BY StepEngine, StepLayers
<1>3. EngineInv /\ LayerInv => AnyLayerSuffices
  BY DEF LayerInv, AnyLayerSuffices
<1>4. QED
  BY <1>1, <1>2, <1>3, PTL DEF FetchSpec

----------------------------------------------------------------------------
(* ScrapeHealth *)

Rec == [at : Nat, parsed : BOOLEAN, others : BOOLEAN, limited : BOOLEAN, good : Nat]

HealthTypes ==
  /\ clock \in Nat /\ clock > 0
  /\ last \in [Stores -> Rec] /\ previous \in [Stores -> Rec]
  /\ zeros \in [Stores -> Nat] /\ parsedAt \in [Stores -> Nat]
  /\ step \in {"off", "notices"} /\ died \in BOOLEAN
  /\ fetched \subseteq Stores

(* s is in quarantine. *)
Sick(s) ==
  /\ previous[s].at # Never /\ ~last[s].parsed /\ ~previous[s].parsed
  /\ last[s].others \/ previous[s].others

(* What the two records and the start of the outage say of each other.      *)
RecordInv(s) ==
  /\ last[s].at <= clock /\ parsedAt[s] <= last[s].at
  /\ last[s].good = parsedAt[s]
  /\ previous[s].at # Never => last[s].at # Never
  /\ last[s].at # Never /\ ~last[s].parsed => zeros[s] # Never
  /\ zeros[s] # Never => parsedAt[s] <= zeros[s] /\ zeros[s] <= last[s].at

(* A told breakdown is about the present outage and known, or about one     *)
(* that ended; a new outage begins later than any that was told.            *)
Breakdown(s, t) == <<"breakdown", {<<s, t>>}>>
BreakdownTold(s) ==
  \A t \in Nat : Breakdown(s, t) \in told =>
    \/ t < parsedAt[s]
    \/ /\ t = zeros[s] /\ t # Never /\ "breakdown" \in known[s]
       /\ Sick(s) \/ t < last[s].at

(* A told silence that began when the store last parsed is known.           *)
DeadManTold(s) ==
  \A n \in told, g \in Nat : n[1] = "deadman" /\ <<s, g>> \in n[2] =>
    g < clock /\ (g = parsedAt[s] => "deadman" \in known[s])

(* What the run is about to tell is about the present outages.              *)
NoticesInv(s) ==
  /\ \A t \in Nat : Breakdown(s, t) \in notices => t = zeros[s] /\ Sick(s)
  /\ \A n \in notices, g \in Nat : n[1] = "deadman" /\ <<s, g>> \in n[2] => g < clock

(* Until a run dies, what must be known is, or is about to be told.         *)
KnownInv(s) ==
  ~died =>
    /\ Sick(s) => "breakdown" \in known[s]
                  \/ (step = "notices" /\ Breakdown(s, zeros[s]) \in notices)
    /\ s \in fetched /\ last[s].at = clock /\ parsedAt[s] # Never /\ clock - parsedAt[s] > DeadMan
         => known[s] \cap {"breakdown", "deadman"} # {}
            \/ (step = "notices" /\ \E n \in notices : n[1] = "deadman" /\ <<s, parsedAt[s]>> \in n[2])

StoreInv(s) ==
  RecordInv(s) /\ BreakdownTold(s) /\ DeadManTold(s) /\ NoticesInv(s) /\ KnownInv(s)

HealthInv == HealthTypes /\ \A s \in Stores : StoreInv(s)

LEMMA InitHealth == HealthInit => HealthInv
<1> SUFFICES ASSUME HealthInit PROVE HealthInv
  OBVIOUS
<1>1. HealthTypes
  <2>1. NoRecord \in Rec
    BY DEF NoRecord, Rec, Never
  <2>2. last \in [Stores -> Rec] /\ previous \in [Stores -> Rec]
    <3>1. last = [s \in Stores |-> NoRecord] /\ previous = [s \in Stores |-> NoRecord]
      BY DEF HealthInit
    <3>2. QED
      BY <2>1, <3>1
  <2>3. zeros \in [Stores -> Nat] /\ parsedAt \in [Stores -> Nat]
    BY DEF HealthInit, Never
  <2>4. clock = 1 /\ step = "off" /\ died \in BOOLEAN /\ fetched = {}
    BY DEF HealthInit
  <2>5. QED
    BY <2>2, <2>3, <2>4 DEF HealthTypes
<1>2. ASSUME NEW s \in Stores PROVE StoreInv(s)
  <2>1. /\ last[s].at = 0 /\ last[s].good = 0 /\ previous[s].at = 0
        /\ zeros[s] = 0 /\ parsedAt[s] = 0 /\ clock = 1
    BY DEF HealthInit, NoRecord, Never
  <2>2. told = {} /\ notices = {} /\ fetched = {}
    BY DEF HealthInit
  <2>3. RecordInv(s)
    BY <2>1 DEF RecordInv, Never
  <2>4. BreakdownTold(s) /\ DeadManTold(s) /\ NoticesInv(s)
    BY <2>2 DEF BreakdownTold, DeadManTold, NoticesInv
  <2>5. ~Sick(s)
    BY <2>1 DEF Sick, Never
  <2>6. KnownInv(s)
    BY <2>2, <2>5 DEF KnownInv
  <2>7. QED
    BY <2>3, <2>4, <2>6 DEF StoreInv
<1>3. QED
  BY <1>1, <1>2 DEF HealthInv

LEMMA SickStores == \A s \in Stores : s \in Quarantined(last, previous) <=> Sick(s)
BY DEF Quarantined, Sick

LEMMA SickStoresNext ==
  \A s \in Stores : s \in Quarantined(last', previous') <=> Sick(s)'
BY DEF Quarantined, Sick

(* The outcome of a run for one store, and what becomes of the others.      *)
Fetched(s, p) ==
  /\ last'[s].at = clock /\ last'[s].parsed = p
  /\ last'[s].good = (IF p THEN clock ELSE last[s].good)
  /\ previous'[s] = last[s]
  /\ zeros'[s] = (IF p THEN Never ELSE IF zeros[s] = Never THEN clock ELSE zeros[s])
  /\ parsedAt'[s] = (IF p THEN clock ELSE parsedAt[s])
  /\ known'[s] = (IF p THEN {} ELSE known[s])
Passed(s) ==
  /\ last'[s] = last[s] /\ previous'[s] = previous[s] /\ zeros'[s] = zeros[s]
  /\ parsedAt'[s] = parsedAt[s] /\ known'[s] = known[s]

LEMMA ScrapeFacts ==
  ASSUME HealthInv, Scrape
  PROVE  /\ HealthTypes'
         /\ \A s \in Stores :
              IF s \in Attempted THEN \E p \in BOOLEAN : Fetched(s, p) ELSE Passed(s)
<1>1. PICK outcome \in [Attempted -> [parsed : BOOLEAN, limited : BOOLEAN]] :
        /\ last' = [s \in Stores |-> IF s \in Attempted THEN NewRecord(s, outcome) ELSE last[s]]
        /\ previous' = [s \in Stores |-> IF s \in Attempted THEN last[s] ELSE previous[s]]
        /\ zeros' = [s \in Stores |-> IF s \in Attempted THEN OutageStart(s, outcome[s].parsed)
                                                          ELSE zeros[s]]
        /\ parsedAt' = [s \in Stores |-> IF s \in Attempted /\ outcome[s].parsed THEN clock
                                                                                ELSE parsedAt[s]]
        /\ known' = [s \in Stores |-> IF s \in Attempted /\ outcome[s].parsed THEN {} ELSE known[s]]
  BY DEF Scrape
<1>2. clock' = clock /\ died' = died /\ step' = "notices" /\ fetched' = Attempted
  BY DEF Scrape
<1>3. Attempted \subseteq Stores
  BY DEF Attempted
<1>t. HealthTypes
  BY DEF HealthInv
<1>4. ASSUME NEW s \in Attempted
      PROVE  /\ outcome[s].parsed \in BOOLEAN
             /\ NewRecord(s, outcome) \in Rec
             /\ NewRecord(s, outcome).at = clock
             /\ NewRecord(s, outcome).parsed = outcome[s].parsed
             /\ NewRecord(s, outcome).good = (IF outcome[s].parsed THEN clock ELSE last[s].good)
             /\ OutageStart(s, outcome[s].parsed) \in Nat
  <2>1. outcome[s] \in [parsed : BOOLEAN, limited : BOOLEAN]
    OBVIOUS
  <2>2. outcome[s].parsed \in BOOLEAN /\ outcome[s].limited \in BOOLEAN
    BY <2>1
  <2>3. last[s].good \in Nat /\ zeros[s] \in Nat /\ clock \in Nat
    BY <1>3, <1>t DEF HealthTypes, Rec
  <2> DEFINE others == \E t \in DOMAIN outcome \ {s} : outcome[t].parsed
             good == IF outcome[s].parsed THEN clock ELSE last[s].good
  <2>4. others \in BOOLEAN /\ good \in Nat
    BY <2>3
  <2>5. NewRecord(s, outcome) = [at |-> clock, parsed |-> outcome[s].parsed,
          limited |-> outcome[s].limited, others |-> others, good |-> good]
    BY DEF NewRecord, LastGood
  <2>6. OutageStart(s, outcome[s].parsed) \in Nat
    BY <2>3 DEF OutageStart, Never
  <2> HIDE DEF others, good
  <2>7. NewRecord(s, outcome) \in Rec
    BY <2>2, <2>3, <2>4, <2>5 DEF Rec
  <2>8. NewRecord(s, outcome).good = good /\ NewRecord(s, outcome).at = clock
        /\ NewRecord(s, outcome).parsed = outcome[s].parsed
    BY <2>5
  <2>9. QED
    BY <2>2, <2>6, <2>7, <2>8 DEF good
<1>5. HealthTypes'
  <2>1. last' \in [Stores -> Rec] /\ previous' \in [Stores -> Rec]
    BY <1>1, <1>4, <1>t DEF HealthTypes
  <2>2. zeros' \in [Stores -> Nat] /\ parsedAt' \in [Stores -> Nat]
    BY <1>1, <1>4, <1>t DEF HealthTypes
  <2>3. QED
    BY <1>2, <1>3, <1>t, <2>1, <2>2 DEF HealthTypes
<1>6. ASSUME NEW s \in Stores, s \in Attempted PROVE Fetched(s, outcome[s].parsed)
  <2>1. last'[s] = NewRecord(s, outcome) /\ previous'[s] = last[s]
    BY <1>1, <1>6
  <2>2. /\ zeros'[s] = OutageStart(s, outcome[s].parsed)
        /\ parsedAt'[s] = (IF outcome[s].parsed THEN clock ELSE parsedAt[s])
        /\ known'[s] = (IF outcome[s].parsed THEN {} ELSE known[s])
    BY <1>1, <1>6
  <2>3. QED
    BY <1>4, <1>6, <2>1, <2>2 DEF Fetched, OutageStart
<1>7. ASSUME NEW s \in Stores, s \notin Attempted PROVE Passed(s)
  BY <1>1, <1>7 DEF Passed
<1>8. QED
  BY <1>4, <1>5, <1>6, <1>7

(* A store that is fetched although its outage is told was left alone for   *)
(* the probe's age, or was fetched since.                                   *)
LEMMA LaterFetch ==
  ASSUME HealthInv, NEW s \in Stores, s \in Attempted,
         NEW t \in Nat, t = zeros[s], t # Never, Sick(s) \/ t < last[s].at
  PROVE  t < clock
<1>1. clock \in Nat /\ last[s].at \in Nat /\ zeros[s] \in Nat /\ RecordInv(s)
  BY DEF HealthInv, HealthTypes, StoreInv, Rec
<1>2. CASE Sick(s)
  <2>1. s \in ProbeDue(last)
    BY <1>2, SickStores DEF Attempted
  <2>2. clock - last[s].at >= ProbeAge
    BY <2>1 DEF ProbeDue
  <2>3. t <= last[s].at
    BY <1>1 DEF RecordInv
  <2>4. QED
    BY <1>1, <2>2, <2>3, HealthAssumption
<1>3. CASE t < last[s].at
  BY <1>1, <1>3 DEF RecordInv
<1>4. QED
  BY <1>2, <1>3

(* A scrape, for a store that it fetches.                                   *)
LEMMA ScrapeTold ==
  ASSUME HealthInv, Scrape, NEW s \in Stores
  PROVE  RecordInv(s)' /\ BreakdownTold(s)' /\ DeadManTold(s)'
<1>1. HealthTypes' /\ (IF s \in Attempted THEN \E p \in BOOLEAN : Fetched(s, p) ELSE Passed(s))
  BY ScrapeFacts
<1>2. clock' = clock /\ told' = told
  BY DEF Scrape
<1>3. RecordInv(s) /\ BreakdownTold(s) /\ DeadManTold(s)
  BY DEF HealthInv, StoreInv
<1>4. /\ clock \in Nat /\ clock > 0 /\ last[s].at \in Nat /\ zeros[s] \in Nat /\ parsedAt[s] \in Nat
      /\ last[s].parsed \in BOOLEAN
  BY DEF HealthInv, HealthTypes, Rec
<1>5. CASE s \notin Attempted
  <2>1. Passed(s)
    BY <1>1, <1>5
  <2>2. RecordInv(s)'
    BY <1>2, <1>3, <2>1 DEF Passed, RecordInv
  <2>3. BreakdownTold(s)'
    BY <1>2, <1>3, <2>1 DEF Passed, BreakdownTold, Sick
  <2>4. DeadManTold(s)'
    BY <1>2, <1>3, <2>1 DEF Passed, DeadManTold
  <2>5. QED
    BY <2>2, <2>3, <2>4
<1>6. CASE s \in Attempted
  <2>1. PICK p \in BOOLEAN : Fetched(s, p)
    BY <1>1, <1>6
  <2>2. RecordInv(s)'
    BY <1>2, <1>3, <1>4, <2>1 DEF Fetched, RecordInv, Never
  <2>3. ASSUME NEW t \in Nat, Breakdown(s, t) \in told'
        PROVE  \/ t < parsedAt'[s]
               \/ /\ t = zeros'[s] /\ t # Never /\ "breakdown" \in known'[s]
                  /\ Sick(s)' \/ t < last'[s].at
    <3>1. CASE t < parsedAt[s]
      <4>1. parsedAt[s] <= clock
        BY <1>3, <1>4 DEF RecordInv
      <4>2. QED
        BY <1>4, <2>1, <3>1, <4>1 DEF Fetched
    <3>2. CASE /\ t = zeros[s] /\ t # Never /\ "breakdown" \in known[s]
               /\ Sick(s) \/ t < last[s].at
      <4>1. t < clock
        BY <1>6, <3>2, LaterFetch
      <4>2. QED
        BY <2>1, <3>2, <4>1 DEF Fetched
    <3>3. QED
      BY <1>2, <1>3, <2>3, <3>1, <3>2 DEF BreakdownTold
  <2>4. BreakdownTold(s)'
    BY <2>3 DEF BreakdownTold, Breakdown
  <2>5. DeadManTold(s)'
    BY <1>2, <1>3, <1>4, <2>1 DEF DeadManTold, Fetched
  <2>6. QED
    BY <2>2, <2>4, <2>5
<1>7. QED
  BY <1>5, <1>6

(* The notices of a scrape.                                                 *)
LEMMA ScrapeNotices ==
  ASSUME Scrape
  PROVE  notices' = Breakdowns(Quarantined(last, previous), Quarantined(last', previous'))
                    \cup Recoveries(Quarantined(last', previous'))
                    \cup DeadMans(Quarantined(last', previous'))
BY DEF Scrape

LEMMA ScrapeNoticed ==
  ASSUME HealthInv, Scrape, NEW s \in Stores
  PROVE  NoticesInv(s)'
<1> DEFINE before == Quarantined(last, previous)
           after == Quarantined(last', previous')
<1>1. notices' = Breakdowns(before, after) \cup Recoveries(after) \cup DeadMans(after)
  BY ScrapeNotices
<1>2. clock' = clock /\ HealthTypes'
  BY ScrapeFacts DEF Scrape
<1>3. ASSUME NEW t \in Nat, Breakdown(s, t) \in notices'
      PROVE  t = zeros'[s] /\ Sick(s)'
  <2>1. Breakdown(s, t) \notin Recoveries(after)
    BY DEF Recoveries, Breakdown
  <2>2. Breakdown(s, t) \notin DeadMans(after)
    BY DEF DeadMans, Breakdown
  <2>3. Breakdown(s, t) \in Breakdowns(before, after)
    BY <1>1, <1>3, <2>1, <2>2
  <2>4. PICK q \in after \ before : Breakdown(s, t) = <<"breakdown", {<<q, zeros'[q]>>}>>
    BY <2>3 DEF Breakdowns
  <2>5. {<<s, t>>} = {<<q, zeros'[q]>>}
    BY <2>4 DEF Breakdown
  <2>6. <<s, t>> = <<q, zeros'[q]>>
    BY <2>5
  <2>7. s = q /\ t = zeros'[q]
    BY <2>6
  <2>8. QED
    BY <2>4, <2>7, SickStoresNext
<1>4. ASSUME NEW n \in notices', NEW g \in Nat, n[1] = "deadman", <<s, g>> \in n[2]
      PROVE  g < clock'
  <2>1. n \notin Breakdowns(before, after)
    BY <1>4 DEF Breakdowns
  <2>2. n \notin Recoveries(after)
    BY <1>4 DEF Recoveries
  <2>3. n \in DeadMans(after)
    BY <1>1, <1>4, <2>1, <2>2
  <2>4. n = <<"deadman", {<<q, last'[q].good>> : q \in Stale(after)}>>
    BY <2>3 DEF DeadMans
  <2>5. PICK q \in Stale(after) : <<s, g>> = <<q, last'[q].good>>
    BY <1>4, <2>4
  <2>6. clock - g > DeadMan
    BY <2>5 DEF Stale
  <2>7. QED
    BY <1>2, <1>4, <2>6, HealthAssumption DEF HealthTypes
<1>5. QED
  BY <1>3, <1>4 DEF NoticesInv, Breakdown

LEMMA ScrapeKnown ==
  ASSUME HealthInv, Scrape, step = "off", NEW s \in Stores
  PROVE  KnownInv(s)'
<1> DEFINE before == Quarantined(last, previous)
           after == Quarantined(last', previous')
<1>1. notices' = Breakdowns(before, after) \cup Recoveries(after) \cup DeadMans(after)
  BY ScrapeNotices
<1>2. clock' = clock /\ died' = died /\ step' = "notices" /\ fetched' = Attempted
  BY DEF Scrape
<1>3. IF s \in Attempted THEN \E p \in BOOLEAN : Fetched(s, p) ELSE Passed(s)
  BY ScrapeFacts
<1>4. (s \in before <=> Sick(s)) /\ (s \in after <=> Sick(s)')
  BY SickStores, SickStoresNext
<1>5. KnownInv(s) /\ RecordInv(s)
  BY DEF HealthInv, StoreInv
<1> HIDE DEF before, after
<1>6. ASSUME ~died', Sick(s)'
      PROVE  "breakdown" \in known'[s] \/ Breakdown(s, zeros'[s]) \in notices'
  <2>1. CASE s \notin before
    <3>1. Breakdown(s, zeros'[s]) \in Breakdowns(before, after)
      BY <1>4, <1>6, <2>1 DEF Breakdowns, Breakdown
    <3>2. QED
      BY <1>1, <3>1
  <2>2. CASE s \in before
    <3>1. "breakdown" \in known[s]
      BY <1>2, <1>4, <1>5, <1>6, <2>2 DEF KnownInv
    <3>2. known'[s] = known[s]
      BY <1>3, <1>6 DEF Fetched, Passed, Sick
    <3>3. QED
      BY <3>1, <3>2
  <2>3. QED
    BY <2>1, <2>2
<1>7. ASSUME ~died', s \in fetched', parsedAt'[s] # Never, clock' - parsedAt'[s] > DeadMan
      PROVE  \/ known'[s] \cap {"breakdown", "deadman"} # {}
             \/ \E n \in notices' : n[1] = "deadman" /\ <<s, parsedAt'[s]>> \in n[2]
  <2>1. PICK p \in BOOLEAN : Fetched(s, p)
    BY <1>2, <1>3, <1>7
  <2>2. clock \in Nat
    BY DEF HealthInv, HealthTypes
  <2>3. ~p
    BY <1>2, <1>7, <2>1, <2>2, HealthAssumption DEF Fetched
  <2>4. parsedAt'[s] = parsedAt[s] /\ last'[s].good = parsedAt[s] /\ known'[s] = known[s]
    BY <1>5, <2>1, <2>3 DEF Fetched, RecordInv
  <2>5. CASE s \in Probing \cap after
    <3>1. Sick(s)
      BY <2>5, SickStores DEF Probing
    <3>2. QED
      BY <1>2, <1>5, <1>7, <2>4, <3>1 DEF KnownInv
  <2>6. CASE s \notin Probing \cap after
    <3>1. s \in Stale(after)
      BY <1>2, <1>7, <2>4, <2>6 DEF Stale
    <3> DEFINE n == <<"deadman", {<<q, last'[q].good>> : q \in Stale(after)}>>
    <3>2. n \in notices'
      BY <1>1, <3>1 DEF DeadMans
    <3>3. n[1] = "deadman" /\ <<s, parsedAt'[s]>> \in n[2]
      BY <2>4, <3>1
    <3> HIDE DEF n
    <3>4. QED
      BY <3>2, <3>3
  <2>7. QED
    BY <2>5, <2>6
<1>8. QED
  BY <1>2, <1>6, <1>7 DEF KnownInv, Breakdown

LEMMA StepScrape ==
  ASSUME HealthInv, Scrape
  PROVE  HealthInv'
<1>1. HealthTypes'
  BY ScrapeFacts
<1>2. step = "off"
  BY DEF Scrape
<1>3. ASSUME NEW s \in Stores PROVE StoreInv(s)'
  BY <1>2, ScrapeTold, ScrapeNoticed, ScrapeKnown DEF StoreInv
<1>4. QED
  BY <1>1, <1>3 DEF HealthInv

(* notify: what the run found becomes told and known.                       *)
LEMMA StepNotify ==
  ASSUME HealthInv, Notify
  PROVE  HealthInv'
<1>1. /\ known' = [s \in Stores |-> known[s] \cup
                     {n[1] : n \in {m \in notices \ told : \E id \in m[2] : id[1] = s}}]
      /\ told' = told \cup notices /\ step = "notices" /\ step' = "off" /\ notices' = {}
      /\ last' = last /\ previous' = previous /\ zeros' = zeros
      /\ clock' = clock /\ parsedAt' = parsedAt /\ fetched' = fetched /\ died' = died
  BY DEF Notify, log
<1>2. ASSUME NEW s \in Stores, NEW n \in notices \ told, NEW t, <<s, t>> \in n[2]
      PROVE  n[1] \in known'[s]
  <2>1. \E id \in n[2] : id[1] = s
    BY <1>2
  <2>2. n \in {m \in notices \ told : \E id \in m[2] : id[1] = s}
    BY <2>1
  <2>3. QED
    BY <1>1, <2>2
<1>3. \A s \in Stores : known[s] \subseteq known'[s]
  BY <1>1
<1>4. ASSUME NEW s \in Stores PROVE StoreInv(s)'
  <2>1. /\ RecordInv(s) /\ BreakdownTold(s) /\ DeadManTold(s) /\ NoticesInv(s) /\ KnownInv(s)
        /\ zeros[s] \in Nat /\ parsedAt[s] \in Nat /\ last[s].at \in Nat /\ clock \in Nat
    BY DEF HealthInv, StoreInv, HealthTypes, Rec
  <2>2. RecordInv(s)'
    BY <1>1, <2>1 DEF RecordInv
  <2>3. ASSUME Sick(s) PROVE zeros[s] # Never /\ parsedAt[s] <= zeros[s]
    BY <2>1, <2>3 DEF RecordInv, Sick
  (* A text about this outage which was told before is known already.       *)
  <2>4. ASSUME NEW t \in Nat, Breakdown(s, t) \in notices
        PROVE  t = zeros[s] /\ Sick(s) /\ "breakdown" \in known'[s]
    <3>1. t = zeros[s] /\ Sick(s)
      BY <2>1, <2>4 DEF NoticesInv
    <3>2. CASE Breakdown(s, t) \in told
      <4>1. "breakdown" \in known[s]
        BY <2>1, <2>3, <3>1, <3>2 DEF BreakdownTold
      <4>2. QED
        BY <1>3, <3>1, <4>1
    <3>3. CASE Breakdown(s, t) \notin told
      <4>1. <<s, t>> \in Breakdown(s, t)[2] /\ Breakdown(s, t)[1] = "breakdown"
        BY DEF Breakdown
      <4>2. "breakdown" \in known'[s]
        BY <1>2, <2>4, <3>3, <4>1
      <4>3. QED
        BY <3>1, <4>2
    <3>4. QED
      BY <3>2, <3>3
  <2>5. ASSUME NEW n \in notices, NEW g \in Nat, n[1] = "deadman", <<s, g>> \in n[2]
        PROVE  g < clock /\ (g = parsedAt[s] => "deadman" \in known'[s])
    <3>1. CASE n \in told
      BY <1>3, <2>1, <2>5, <3>1 DEF DeadManTold
    <3>2. CASE n \notin told
      <4>1. "deadman" \in known'[s]
        BY <1>2, <2>5, <3>2
      <4>2. QED
        BY <2>1, <2>5, <4>1 DEF NoticesInv
    <3>3. QED
      BY <3>1, <3>2
  <2>6. BreakdownTold(s)'
    <3>1. ASSUME NEW t \in Nat, Breakdown(s, t) \in told'
          PROVE  \/ t < parsedAt[s]
                 \/ /\ t = zeros[s] /\ t # Never /\ "breakdown" \in known'[s]
                    /\ Sick(s) \/ t < last[s].at
      <4>1. CASE Breakdown(s, t) \in notices
        BY <2>3, <2>4, <4>1
      <4>2. CASE Breakdown(s, t) \in told
        BY <1>3, <2>1, <4>2 DEF BreakdownTold
      <4>3. QED
        BY <1>1, <3>1, <4>1, <4>2
    <3>2. QED
      BY <1>1, <3>1 DEF BreakdownTold, Breakdown, Sick
  <2>7. DeadManTold(s)'
    <3>1. ASSUME NEW n \in told', NEW g \in Nat, n[1] = "deadman", <<s, g>> \in n[2]
          PROVE  g < clock /\ (g = parsedAt[s] => "deadman" \in known'[s])
      <4>1. CASE n \in notices
        BY <2>5, <3>1, <4>1
      <4>2. CASE n \in told
        BY <1>3, <2>1, <3>1, <4>2 DEF DeadManTold
      <4>3. QED
        BY <1>1, <4>1, <4>2
    <3>2. QED
      BY <1>1, <3>1 DEF DeadManTold
  <2>8. NoticesInv(s)'
    BY <1>1 DEF NoticesInv
  <2>9. KnownInv(s)'
    <3>1. ASSUME ~died, Sick(s) PROVE "breakdown" \in known'[s]
      BY <1>3, <2>1, <2>4, <3>1 DEF KnownInv
    <3>2. ASSUME ~died, s \in fetched, last[s].at = clock, parsedAt[s] # Never,
                 clock - parsedAt[s] > DeadMan
          PROVE  known'[s] \cap {"breakdown", "deadman"} # {}
      <4>1. CASE known[s] \cap {"breakdown", "deadman"} # {}
        BY <1>3, <4>1
      <4>2. CASE \E n \in notices : n[1] = "deadman" /\ <<s, parsedAt[s]>> \in n[2]
        BY <2>1, <2>5, <4>2
      <4>3. QED
        BY <2>1, <3>2, <4>1, <4>2 DEF KnownInv
    <3>3. QED
      BY <1>1, <3>1, <3>2 DEF KnownInv, Sick
  <2>10. QED
    BY <2>2, <2>6, <2>7, <2>8, <2>9 DEF StoreInv
<1>5. HealthTypes'
  BY <1>1 DEF HealthInv, HealthTypes
<1>6. QED
  BY <1>4, <1>5 DEF HealthInv

LEMMA StepOther ==
  ASSUME HealthInv, Die \/ ClockTick \/ UNCHANGED healthVars
  PROVE  HealthInv'
<1>t. HealthTypes
  BY DEF HealthInv
<1>1. CASE Die
  <2>1. /\ last' = last /\ previous' = previous /\ zeros' = zeros /\ clock' = clock /\ told' = told
        /\ parsedAt' = parsedAt /\ known' = known /\ fetched' = fetched
        /\ died' = TRUE /\ step' = "off" /\ notices' = {}
    BY <1>1 DEF Die, log
  <2>2. ASSUME NEW s \in Stores PROVE StoreInv(s)'
    <3>1. RecordInv(s) /\ BreakdownTold(s) /\ DeadManTold(s)
      BY DEF HealthInv, StoreInv
    <3>2. NoticesInv(s)' /\ KnownInv(s)'
      BY <2>1 DEF NoticesInv, KnownInv
    <3>3. QED
      BY <2>1, <3>1, <3>2 DEF StoreInv, RecordInv, BreakdownTold, DeadManTold, Sick
  <2>3. QED
    BY <1>t, <2>1, <2>2 DEF HealthInv, HealthTypes
<1>2. CASE ClockTick
  <2>1. /\ last' = last /\ previous' = previous /\ zeros' = zeros /\ clock' = clock + 1
        /\ told' = told /\ parsedAt' = parsedAt /\ known' = known /\ fetched' = fetched
        /\ died' = died /\ step = "off" /\ step' = "off" /\ notices' = notices
    BY <1>2 DEF ClockTick, log, healthHistory
  <2>2. ASSUME NEW s \in Stores PROVE StoreInv(s)'
    <3>1. /\ RecordInv(s) /\ BreakdownTold(s) /\ DeadManTold(s) /\ NoticesInv(s) /\ KnownInv(s)
          /\ last[s].at \in Nat /\ clock \in Nat
      BY DEF HealthInv, StoreInv, HealthTypes, Rec
    <3>2. RecordInv(s)' /\ BreakdownTold(s)'
      BY <2>1, <3>1 DEF RecordInv, BreakdownTold, Sick
    <3>3. DeadManTold(s)'
      <4>1. \A g \in Nat : g < clock => g < clock + 1
        BY <3>1
      <4>2. QED
        BY <2>1, <3>1, <4>1 DEF DeadManTold
    <3>4. NoticesInv(s)'
      <4>1. \A g \in Nat : g < clock => g < clock + 1
        BY <3>1
      <4>2. QED
        BY <2>1, <3>1, <4>1 DEF NoticesInv, Sick
    <3>5. last[s].at # clock'
      BY <2>1, <3>1 DEF RecordInv
    <3>6. KnownInv(s)'
      BY <2>1, <3>1, <3>5 DEF KnownInv, Sick
    <3>7. QED
      BY <3>2, <3>3, <3>4, <3>6 DEF StoreInv
  <2>3. QED
    BY <1>t, <2>1, <2>2 DEF HealthInv, HealthTypes
<1>3. CASE UNCHANGED healthVars
  BY <1>3 DEF healthVars, log, healthHistory, HealthInv, HealthTypes, StoreInv, RecordInv, BreakdownTold,
     DeadManTold, NoticesInv, KnownInv, Sick
<1>4. QED
  BY <1>1, <1>2, <1>3

LEMMA HealthAlways == HealthSpec => []HealthInv
<1>1. HealthInv /\ [HealthNext]_healthVars => HealthInv'
  BY StepScrape, StepNotify, StepOther DEF HealthNext
<1>2. QED
  BY <1>1, InitHealth, PTL DEF HealthSpec

(* While no run dies between its records and its notices, the user knows of *)
(* every quarantine, for any number of stores, runs and outages.            *)
THEOREM QuarantinesAreTold == HealthSpec => []QuarantineTold
<1>1. HealthInv => QuarantineTold
  <2> SUFFICES ASSUME HealthInv, step = "off", ~died, NEW s \in Quarantined(last, previous)
               PROVE  "breakdown" \in known[s]
    BY DEF QuarantineTold
  <2>1. s \in Stores
    BY DEF Quarantined
  <2>2. Sick(s) /\ KnownInv(s)
    BY <2>1, SickStores DEF HealthInv, StoreInv
  <2>3. QED
    BY <2>2 DEF KnownInv
<1>2. QED
  BY <1>1, HealthAlways, PTL

(* The user was told of the present silence of every store that once parsed *)
(* and has been silent past the limit, after every run that fetched it,     *)
(* whatever was told of earlier ones and of recoveries.                     *)
THEOREM SilencesAreTold == HealthSpec => []SilenceTold
<1>1. HealthInv => SilenceTold
  <2> SUFFICES ASSUME HealthInv, step = "off", ~died, NEW s \in fetched,
                      last[s].at = clock, parsedAt[s] # Never, clock - parsedAt[s] > DeadMan
               PROVE  known[s] \cap {"breakdown", "deadman"} # {}
    BY DEF SilenceTold
  <2>1. KnownInv(s)
    BY DEF HealthInv, HealthTypes, StoreInv
  <2>2. QED
    BY <2>1 DEF KnownInv
<1>2. QED
  BY <1>1, HealthAlways, PTL

(* Neither quarantine nor cooldown keeps a store from being fetched when    *)
(* its newest record has the probe's age: a cooldown is no longer than that. *)
THEOREM NobodyStarves == HealthSpec => NoStoreStarves
<1>1. HealthInv /\ [HealthNext]_healthVars => [ProbedInTime]_healthVars
  <2> SUFFICES ASSUME HealthInv, [HealthNext]_healthVars, step = "off", step' = "notices",
                      NEW s \in Stores, last[s].at # Never, clock - last[s].at >= ProbeAge
               PROVE  s \in fetched'
    BY DEF ProbedInTime
  <2>1. Scrape
    BY DEF HealthNext, Notify, Die, ClockTick, healthVars
  <2>2. s \in ProbeDue(last)
    BY DEF ProbeDue
  <2>3. clock \in Nat /\ last[s].at \in Nat
    BY DEF HealthInv, HealthTypes, Rec
  <2>4. s \notin Cooling
    BY <2>3, HealthAssumption DEF Cooling
  <2>5. s \in Attempted
    BY <2>2, <2>4 DEF Attempted
  <2>6. QED
    BY <2>1, <2>5 DEF Scrape
<1>2. QED
  BY <1>1, HealthAlways, PTL DEF HealthSpec, NoStoreStarves

Kinds == {"breakdown", "recovered", "deadman"}

(* A notice is of one of the three kinds.                                   *)
HealthTypeInv == HealthTypeOK /\ \A n \in notices : n[1] \in Kinds

LEMMA InitHealthTypes == HealthInit => HealthTypeInv
<1> SUFFICES ASSUME HealthInit PROVE HealthTypeInv
  OBVIOUS
<1>1. NoRecord \in Records
  BY DEF NoRecord, Records
<1>2. last \in [Stores -> Records] /\ previous \in [Stores -> Records]
  <2>1. last = [s \in Stores |-> NoRecord] /\ previous = [s \in Stores |-> NoRecord]
    BY DEF HealthInit
  <2>2. QED
    BY <1>1, <2>1
<1>3. /\ zeros \in [Stores -> Times \cup {Never}] /\ parsedAt \in [Stores -> Times \cup {Never}]
      /\ known \in [Stores -> SUBSET {"breakdown", "recovered", "deadman"}]
  BY DEF HealthInit
<1>4. clock \in Times /\ scrapes \in 0..MaxScrapes
  BY HealthAssumption DEF HealthInit, Times
<1>5. step = "off" /\ fetched = {} /\ notices = {}
  BY DEF HealthInit
<1>6. died \in BOOLEAN
  BY Zenon DEF HealthInit
<1>7. QED
  BY <1>2, <1>3, <1>4, <1>5, <1>6 DEF HealthTypeInv, HealthTypeOK

LEMMA ScrapeTypes == HealthTypeInv /\ Scrape => HealthTypeInv'
<1> SUFFICES ASSUME HealthTypeInv, Scrape PROVE HealthTypeInv'
  OBVIOUS
<1>1. /\ clock \in Times /\ scrapes \in 0..MaxScrapes /\ died \in BOOLEAN
      /\ last \in [Stores -> Records] /\ previous \in [Stores -> Records]
      /\ zeros \in [Stores -> Times \cup {Never}] /\ parsedAt \in [Stores -> Times \cup {Never}]
      /\ known \in [Stores -> SUBSET {"breakdown", "recovered", "deadman"}]
  BY DEF HealthTypeInv, HealthTypeOK
<1>2. PICK outcome \in [Attempted -> [parsed : BOOLEAN, limited : BOOLEAN]] :
        /\ last' = [s \in Stores |-> IF s \in Attempted THEN NewRecord(s, outcome) ELSE last[s]]
        /\ previous' = [s \in Stores |-> IF s \in Attempted THEN last[s] ELSE previous[s]]
        /\ zeros' = [s \in Stores |-> IF s \in Attempted THEN OutageStart(s, outcome[s].parsed)
                                                          ELSE zeros[s]]
        /\ parsedAt' = [s \in Stores |-> IF s \in Attempted /\ outcome[s].parsed THEN clock
                                                                                ELSE parsedAt[s]]
        /\ known' = [s \in Stores |-> IF s \in Attempted /\ outcome[s].parsed THEN {} ELSE known[s]]
  BY DEF Scrape
<1>3. Attempted \subseteq Stores
  BY DEF Attempted
<1>4. ASSUME NEW s \in Attempted
      PROVE  /\ NewRecord(s, outcome) \in Records
             /\ OutageStart(s, outcome[s].parsed) \in Times \cup {Never}
  <2>1. outcome[s].parsed \in BOOLEAN /\ outcome[s].limited \in BOOLEAN
    <3>1. outcome[s] \in [parsed : BOOLEAN, limited : BOOLEAN]
      OBVIOUS
    <3>2. QED
      BY <3>1
  <2>2. last[s].good \in Times \cup {Never} /\ zeros[s] \in Times \cup {Never}
    <3>1. last[s] \in Records
      BY <1>1, <1>3
    <3>2. QED
      BY <3>1, <1>1, <1>3 DEF Records
  <2> DEFINE others == \E t \in DOMAIN outcome \ {s} : outcome[t].parsed
             good == IF outcome[s].parsed THEN clock ELSE last[s].good
  <2>3. others \in BOOLEAN /\ good \in Times \cup {Never}
    BY <1>1, <2>2
  <2>4. NewRecord(s, outcome) = [at |-> clock, parsed |-> outcome[s].parsed,
          limited |-> outcome[s].limited, others |-> others, good |-> good]
    BY DEF NewRecord, LastGood
  <2>5. OutageStart(s, outcome[s].parsed) \in Times \cup {Never}
    BY <1>1, <2>2 DEF OutageStart
  <2> HIDE DEF others, good
  <2>6. QED
    BY <1>1, <2>1, <2>3, <2>4, <2>5 DEF Records
<1>5. last' \in [Stores -> Records] /\ previous' \in [Stores -> Records]
  BY <1>1, <1>2, <1>4
<1>6. zeros' \in [Stores -> Times \cup {Never}] /\ parsedAt' \in [Stores -> Times \cup {Never}]
  BY <1>1, <1>2, <1>4
<1>7. known' \in [Stores -> SUBSET {"breakdown", "recovered", "deadman"}]
  BY <1>1, <1>2
<1>8. clock' = clock /\ scrapes' \in 0..MaxScrapes /\ died' = died
  BY <1>1, HealthAssumption DEF Scrape
<1>9. step' = "notices" /\ fetched' \subseteq Stores
  BY <1>3 DEF Scrape
<1>10. ASSUME NEW n \in notices' PROVE n[1] \in Kinds
  <2> DEFINE before == Quarantined(last, previous)
             after == Quarantined(last', previous')
  <2>1. notices' = Breakdowns(before, after) \cup Recoveries(after) \cup DeadMans(after)
    BY DEF Scrape
  <2> HIDE DEF before, after
  <2>2. CASE n \in Breakdowns(before, after)
    BY <2>2 DEF Breakdowns, Kinds
  <2>3. CASE n \in Recoveries(after)
    BY <2>3 DEF Recoveries, Kinds
  <2>4. CASE n \in DeadMans(after)
    BY <2>4 DEF DeadMans, Kinds
  <2>5. QED
    BY <2>1, <2>2, <2>3, <2>4
<1>11. QED
  BY <1>1, <1>5, <1>6, <1>7, <1>8, <1>9, <1>10 DEF HealthTypeInv, HealthTypeOK

LEMMA NotifyTypes == HealthTypeInv /\ Notify => HealthTypeInv'
<1> SUFFICES ASSUME HealthTypeInv, Notify PROVE HealthTypeInv'
  OBVIOUS
<1>1. /\ clock \in Times /\ scrapes \in 0..MaxScrapes /\ died \in BOOLEAN
      /\ last \in [Stores -> Records] /\ previous \in [Stores -> Records]
      /\ zeros \in [Stores -> Times \cup {Never}] /\ parsedAt \in [Stores -> Times \cup {Never}]
      /\ known \in [Stores -> SUBSET Kinds] /\ fetched \subseteq Stores
      /\ \A n \in notices : n[1] \in Kinds
  BY DEF HealthTypeInv, HealthTypeOK, Kinds
<1>2. known' = [s \in Stores |-> known[s] \cup
                 {n[1] : n \in {m \in notices \ told : \E id \in m[2] : id[1] = s}}]
  BY DEF Notify
<1>3. known' \in [Stores -> SUBSET Kinds]
  BY <1>1, <1>2
<1>4. step' = "off" /\ notices' = {}
      /\ UNCHANGED <<clock, scrapes, last, previous, zeros, parsedAt, fetched, died>>
  BY DEF Notify, log
<1>5. QED
  BY <1>1, <1>3, <1>4 DEF HealthTypeInv, HealthTypeOK, Kinds

LEMMA StepHealthTypes == HealthTypeInv /\ [HealthNext]_healthVars => HealthTypeInv'
<1> SUFFICES ASSUME HealthTypeInv, [HealthNext]_healthVars PROVE HealthTypeInv'
  OBVIOUS
<1>1. CASE Die
  <2>1. died' \in BOOLEAN
    BY <1>1, Zenon DEF Die
  <2>2. QED
    BY <1>1, <2>1 DEF Die, log, HealthTypeInv, HealthTypeOK
<1>2. CASE ClockTick
  <2>1. clock' \in Times
    BY <1>2, HealthAssumption DEF ClockTick, HealthTypeInv, HealthTypeOK, Times
  <2>2. QED
    BY <1>2, <2>1 DEF ClockTick, log, healthHistory, HealthTypeInv, HealthTypeOK
<1>3. CASE UNCHANGED healthVars
  BY <1>3 DEF healthVars, log, healthHistory, HealthTypeInv, HealthTypeOK
<1>4. QED
  BY <1>1, <1>2, <1>3, ScrapeTypes, NotifyTypes DEF HealthNext

(* Every variable of the stores' health keeps its type.                     *)
THEOREM HealthTypesHold == HealthSpec => []HealthTypeOK
<1>1. HealthTypeInv => HealthTypeOK
  BY DEF HealthTypeInv
<1>2. QED
  BY <1>1, InitHealthTypes, StepHealthTypes, PTL DEF HealthSpec

----------------------------------------------------------------------------
(* DealAlerts *)

Rows == (0..MaxDay) \X Prices

(* Rows are in the order of their days, and none is of a day to come.       *)
ByDay(rows) ==
  /\ \A i, j \in DOMAIN rows : i <= j => rows[i][1] <= rows[j][1]
  /\ \A i \in DOMAIN rows : rows[i][1] <= today

Row == <<today, shop.price>>

Judgements ==
  [watch : 1..Len(Watches), old : Prices, new : Prices, low : Prices,
   verdict : {"INSUFFICIENT_HISTORY", "FALSE_DISCOUNT", "INFLATED_REFERENCE", "GENUINE_DEAL",
              "NORMAL_DROP"},
   suspect : BOOLEAN]

DealTypeInv ==
  /\ today \in 0..MaxDay /\ visits \in 0..MaxVisits /\ visiting \in 0..(Len(Watches) + 1)
  /\ history \in Seq(Rows) /\ ByDay(history)
  /\ low \in Prices \cup {None} /\ seen \subseteq Rows
  /\ visiting # 0 => shop.price \in Prices
  /\ alerts \in Seq(Judgements) /\ (visiting = 0 => alerts = <<>>)

(* The history has the rows of earlier runs and, from its first visit on,   *)
(* this run's; it has all those of the last Keep days.                      *)
HistoryInv ==
  /\ \A i \in DOMAIN history : history[i] \in seen \/ (visiting > 1 /\ history[i] = Row)
  /\ visiting > 1 => history # <<>> /\ history[Len(history)] = Row
  /\ \A r \in seen : r[1] <= today
  /\ \A r \in seen : today - r[1] <= Keep => \E i \in DOMAIN history : history[i] = r
  /\ seen # {} => history # <<>>

(* The lifetime low is the price of a row, after the first visit of the     *)
(* first run.                                                               *)
LowInv ==
  \/ low = None /\ visiting <= 1 /\ visits <= visiting
  \/ \E r \in seen : low = r[2]
  \/ visiting > 1 /\ low = shop.price

(* A price below all that were seen has alerted on the first visit.         *)
FirstAlert ==
  /\ visiting > 1 /\ visits > 1 /\ shop.inStock
  /\ seen # {} /\ \A r \in seen : shop.price < r[2]
  /\ Watches[1].atl = "aggressive" /\ ~Watches[1].trusted
  => alerts # <<>>

(* What is true of each alert until the run ends.                           *)
Sound(a) ==
  /\ a.verdict = "GENUINE_DEAL" => \A r \in seen : today - r[1] <= Window => a.new < r[2]
  /\ a.suspect => a.verdict \in {"FALSE_DISCOUNT", "INSUFFICIENT_HISTORY"}

DealInv ==
  DealTypeInv /\ HistoryInv /\ LowInv /\ FirstAlert /\ \A i \in DOMAIN alerts : Sound(alerts[i])

LEMMA DealFacts ==
  /\ Len(Watches) \in Nat \ {0}
  /\ Prices \subseteq Nat \ {0} /\ MaxDay \in Nat /\ MaxVisits \in Nat
  /\ Short \in Nat /\ Window \in Nat /\ Keep \in Nat /\ Window <= Keep
BY DealAssumption

LEMMA LeastNumber ==
  ASSUME NEW S \in SUBSET Nat, S # {}
  PROVE  \E m \in S : \A k \in S : m <= k
<1>1. PICK m \in S : \A k \in S : <<k, m>> \notin OpToRel(<, Nat)
  BY WFMin, NatLessThanWellFounded, Zenon
<1>2. \A k \in S : ~(k < m)
  BY <1>1, Zenon DEF OpToRel
<1>3. QED
  BY <1>2

LEMMA LowestIs ==
  ASSUME NEW S \in SUBSET Nat, S # {}
  PROVE  Lowest(S) \in S /\ \A q \in S : Lowest(S) <= q
<1>1. \E p \in S : \A q \in S : p <= q
  BY LeastNumber
<1>2. QED
  BY <1>1 DEF Lowest

LEMMA RowIs ==
  ASSUME NEW r \in Rows
  PROVE  r[1] \in 0..MaxDay /\ r[2] \in Prices /\ r = <<r[1], r[2]>>
BY DEF Rows

(* The rows not older than n days are the last ones.                        *)
LEMMA FromIs ==
  ASSUME NEW rows \in Seq(Rows), ByDay(rows), today \in Nat, NEW n \in Nat
  PROVE  /\ From(rows, n) \in 1..(Len(rows) + 1)
         /\ \A j \in 1..Len(rows) : j >= From(rows, n) <=> today - rows[j][1] <= n
<1> DEFINE S == {j \in 1..Len(rows) : today - rows[j][1] <= n}
<1>1. DOMAIN rows = 1..Len(rows) /\ Len(rows) \in Nat
  OBVIOUS
<1>2. \A j \in 1..Len(rows) : rows[j][1] \in Nat
  <2>1. ASSUME NEW j \in 1..Len(rows) PROVE rows[j][1] \in Nat
    <3>1. rows[j] \in Rows
      OBVIOUS
    <3>2. QED
      BY <3>1, RowIs, DealFacts
  <2>2. QED
    BY <2>1
<1>3. \E k \in 1..(Len(rows) + 1) : \A j \in 1..Len(rows) : j >= k <=> today - rows[j][1] <= n
  <2>1. CASE S = {}
    <3>1. \A j \in 1..Len(rows) : ~(today - rows[j][1] <= n) /\ ~(j >= Len(rows) + 1)
      BY <2>1
    <3>2. QED
      BY <1>1, <3>1
  <2>2. CASE S # {}
    <3>1. S \in SUBSET Nat
      OBVIOUS
    <3>2. PICK k \in S : \A j \in S : k <= j
      BY <2>2, <3>1, LeastNumber
    <3>3. ASSUME NEW j \in 1..Len(rows), j >= k PROVE today - rows[j][1] <= n
      <4>1. rows[k][1] <= rows[j][1] /\ today - rows[k][1] <= n
        BY <1>1, <3>2, <3>3 DEF ByDay
      <4>2. QED
        BY <4>1, <1>2, <3>2
    <3>4. ASSUME NEW j \in 1..Len(rows), today - rows[j][1] <= n PROVE j >= k
      BY <3>2, <3>4
    <3>5. QED
      BY <3>2, <3>3, <3>4
  <2>3. QED
    BY <2>1, <2>2
<1>4. \E k \in 1..(Len(rows) + 1) : \A j \in DOMAIN rows : j >= k <=> today - rows[j][1] <= n
  BY <1>1, <1>3
<1>5. QED
  BY <1>1, <1>4 DEF From

(* What is left of a history when the rows before the k-th are dropped.     *)
LEMMA RestOfRows ==
  ASSUME NEW rows \in Seq(Rows), NEW k \in 1..(Len(rows) + 1)
  PROVE  LET rest == SubSeq(rows, k, Len(rows))
         IN  /\ rest \in Seq(Rows) /\ Len(rest) = Len(rows) + 1 - k
             /\ \A i \in 1..Len(rest) : rest[i] = rows[k + i - 1] /\ k + i - 1 \in 1..Len(rows)
             /\ \A j \in k..Len(rows) : j - k + 1 \in 1..Len(rest) /\ rest[j - k + 1] = rows[j]
<1> DEFINE rest == SubSeq(rows, k, Len(rows))
<1>1. Len(rows) \in Nat /\ \A i \in k..Len(rows) : rows[i] \in Rows
  OBVIOUS
<1>2. /\ rest \in Seq(Rows)
      /\ Len(rest) = IF k <= Len(rows) THEN Len(rows) - k + 1 ELSE 0
      /\ \A i \in 1..(Len(rows) - k + 1) : rest[i] = rows[k + i - 1]
  BY <1>1, SubSeqProperties
<1> HIDE DEF rest
<1>3. Len(rest) = Len(rows) + 1 - k
  BY <1>1, <1>2
<1>4. \A i \in 1..Len(rest) : rest[i] = rows[k + i - 1] /\ k + i - 1 \in 1..Len(rows)
  BY <1>1, <1>2, <1>3
<1>5. ASSUME NEW j \in k..Len(rows)
      PROVE  j - k + 1 \in 1..Len(rest) /\ rest[j - k + 1] = rows[j]
  <2>1. j - k + 1 \in 1..(Len(rows) - k + 1) /\ k + (j - k + 1) - 1 = j
    BY <1>1
  <2>2. rest[j - k + 1] = rows[k + (j - k + 1) - 1]
    BY <1>2, <2>1
  <2>3. QED
    BY <1>1, <1>3, <2>1, <2>2
<1>6. QED
  BY <1>2, <1>3, <1>4, <1>5 DEF rest

LEMMA RestByDay ==
  ASSUME NEW rows \in Seq(Rows), ByDay(rows), NEW k \in 1..(Len(rows) + 1)
  PROVE  ByDay(SubSeq(rows, k, Len(rows)))
<1> DEFINE rest == SubSeq(rows, k, Len(rows))
<1>1. /\ rest \in Seq(Rows) /\ Len(rest) = Len(rows) + 1 - k
      /\ \A i \in 1..Len(rest) : rest[i] = rows[k + i - 1] /\ k + i - 1 \in 1..Len(rows)
  BY RestOfRows
<1>2. DOMAIN rows = 1..Len(rows)
  OBVIOUS
<1> HIDE DEF rest
<1>3. DOMAIN rest = 1..Len(rest)
  BY <1>1
<1>4. ASSUME NEW i \in 1..Len(rest), NEW j \in 1..Len(rest), i <= j
      PROVE  rest[i][1] <= rest[j][1]
  <2>1. k + i - 1 <= k + j - 1
    BY <1>1, <1>4
  <2>2. QED
    BY <1>1, <1>2, <2>1 DEF ByDay
<1>5. \A i \in 1..Len(rest) : rest[i][1] <= today
  BY <1>1, <1>2 DEF ByDay
<1>6. QED
  BY <1>3, <1>4, <1>5 DEF ByDay, rest

(* prune_history keeps the last rows, among them the last and those that    *)
(* are not too old.                                                         *)
LEMMA PrunedIs ==
  ASSUME NEW rows \in Seq(Rows), ByDay(rows), today \in Nat, rows # <<>>
  PROVE  \E k \in 1..Len(rows) :
           Pruned(rows) = SubSeq(rows, k, Len(rows)) /\ k <= From(rows, Keep)
<1>1. Len(rows) \in Nat \ {0} /\ Keep \in Nat
  BY DealFacts
<1>2. From(rows, Keep) \in 1..(Len(rows) + 1)
  BY <1>1, FromIs
<1>3. Len(Within(rows, Keep)) = Len(rows) + 1 - From(rows, Keep)
  BY <1>2, RestOfRows DEF Within
<1>4. CASE Len(Within(rows, Keep)) < 2
  <2> DEFINE k == IF Len(rows) < 2 THEN 1 ELSE Len(rows) - 1
  <2>1. k \in 1..Len(rows) /\ k <= From(rows, Keep)
    BY <1>1, <1>2, <1>3, <1>4
  <2>2. Pruned(rows) = SubSeq(rows, k, Len(rows))
    BY <1>4 DEF Pruned
  <2>3. QED
    BY <2>1, <2>2
<1>5. CASE ~(Len(Within(rows, Keep)) < 2)
  <2>1. From(rows, Keep) \in 1..Len(rows)
    BY <1>1, <1>2, <1>3, <1>5
  <2>2. Pruned(rows) = SubSeq(rows, From(rows, Keep), Len(rows))
    BY <1>5 DEF Pruned, Within
  <2>3. QED
    BY <2>1, <2>2, <1>2
<1>6. QED
  BY <1>4, <1>5

(* The rows an alert is judged by hold every row of the window.             *)
LEMMA RecentIs ==
  ASSUME DealTypeInv
  PROVE  /\ PricesOf(Recent) \subseteq Prices
         /\ Recent # <<>> => PricesOf(Recent) # {}
         /\ \A i \in 1..Len(history) :
              today - history[i][1] <= Window => history[i][2] \in PricesOf(Recent)
<1> DEFINE k == From(history, Window)
           rest == SubSeq(history, k, Len(history))
<1>1. history \in Seq(Rows) /\ ByDay(history) /\ today \in Nat /\ Window \in Nat
  BY DealFacts DEF DealTypeInv
<1>2. /\ k \in 1..(Len(history) + 1)
      /\ \A j \in 1..Len(history) : j >= k <=> today - history[j][1] <= Window
  BY <1>1, FromIs
<1>3. /\ rest \in Seq(Rows)
      /\ \A j \in k..Len(history) : j - k + 1 \in 1..Len(rest) /\ rest[j - k + 1] = history[j]
  BY <1>1, <1>2, RestOfRows
<1>4. Recent = rest
  BY DEF Recent, Within
<1> HIDE DEF rest, k
<1>5. DOMAIN rest = 1..Len(rest) /\ \A j \in DOMAIN rest : rest[j] \in Rows
  BY <1>3
<1>6. PricesOf(rest) \subseteq Prices
  BY <1>5, RowIs DEF PricesOf
<1>7. rest # <<>> => PricesOf(rest) # {}
  <2>1. rest # <<>> => 1 \in DOMAIN rest
    BY <1>3
  <2>2. QED
    BY <2>1 DEF PricesOf
<1>8. ASSUME NEW i \in 1..Len(history), today - history[i][1] <= Window
      PROVE  history[i][2] \in PricesOf(rest)
  <2>1. i \in k..Len(history)
    BY <1>1, <1>2, <1>8
  <2>2. i - k + 1 \in DOMAIN rest /\ rest[i - k + 1] = history[i]
    BY <1>3, <1>5, <2>1
  <2>3. QED
    BY <2>2 DEF PricesOf
<1>9. QED
  BY <1>4, <1>6, <1>7, <1>8

LEMMA LowOfWindow ==
  ASSUME DealTypeInv, history # <<>>
  PROVE  /\ Previous \in Prices /\ ThirtyDayLow \in Prices
         /\ Recent # <<>> => ThirtyDayLow = Lowest(PricesOf(Recent))
         /\ \A i \in 1..Len(history) :
              today - history[i][1] <= Window => ThirtyDayLow <= history[i][2]
<1>1. history[Len(history)] \in Rows
  BY DEF DealTypeInv
<1>2. Previous \in Prices
  BY <1>1, RowIs DEF Previous
<1>3. PricesOf(Recent) \in SUBSET Nat
  BY RecentIs, DealFacts
<1>4. PricesOf(Recent) # {} =>
        /\ ThirtyDayLow = Lowest(PricesOf(Recent)) /\ ThirtyDayLow \in PricesOf(Recent)
        /\ \A q \in PricesOf(Recent) : ThirtyDayLow <= q
  BY <1>3, LowestIs DEF ThirtyDayLow
<1>5. PricesOf(Recent) = {} => ThirtyDayLow = Previous
  BY DEF ThirtyDayLow
<1>6. QED
  BY <1>2, <1>4, <1>5, RecentIs

LEMMA VerdictIs ==
  ASSUME NEW new \in Nat, NEW lowest \in Nat, NEW reference, NEW days \in Int
  PROVE  /\ Verdict(new, lowest, reference, days) \in
              {"INSUFFICIENT_HISTORY", "FALSE_DISCOUNT", "INFLATED_REFERENCE", "GENUINE_DEAL",
               "NORMAL_DROP"}
         /\ Verdict(new, lowest, reference, days) = "GENUINE_DEAL" => new < lowest
         /\ new >= lowest => Verdict(new, lowest, reference, days) \in
                               {"FALSE_DISCOUNT", "INSUFFICIENT_HISTORY"}
<1>1. Short \in Nat
  BY DealFacts
<1>2. CASE days < Short
  BY <1>2 DEF Verdict
<1>3. CASE days >= Short /\ new >= lowest
  BY <1>1, <1>3 DEF Verdict
<1>4. CASE days >= Short /\ new < lowest
  BY <1>1, <1>4 DEF Verdict
<1>5. QED
  BY <1>1, <1>2, <1>3, <1>4

(* A judgement made now is sound: the low it is made by is that of every    *)
(* row of the window, and a suspect does not beat it.                       *)
LEMMA JudgedSound ==
  ASSUME DealInv, NEW i \in 1..Len(Watches), visiting # 0, history # <<>>
  PROVE  Judged(i, shop.price) \in Judgements /\ Sound(Judged(i, shop.price))
<1> DEFINE v == Verdict(shop.price, ThirtyDayLow, shop.reference, HistoryDays)
           s == Suspect(Recent, shop.price, Previous, shop.reference)
<1>1. DealTypeInv /\ HistoryInv
  BY DEF DealInv
<1>2. shop.price \in Prices /\ shop.price \in Nat /\ today \in Nat
  <2>1. shop.price \in Prices /\ today \in 0..MaxDay
    BY <1>1, Zenon DEF DealTypeInv
  <2>2. Prices \subseteq Nat /\ MaxDay \in Nat
    BY DealFacts
  <2>3. shop.price \in Nat
    BY <2>1, <2>2, Zenon
  <2>4. today \in Nat
    BY <2>1, <2>2
  <2>5. QED
    BY <2>1, <2>3, <2>4
<1>3. /\ Previous \in Prices /\ ThirtyDayLow \in Prices /\ ThirtyDayLow \in Nat
      /\ Recent # <<>> => ThirtyDayLow = Lowest(PricesOf(Recent))
      /\ \A j \in 1..Len(history) :
           today - history[j][1] <= Window => ThirtyDayLow <= history[j][2]
  BY <1>1, LowOfWindow, DealFacts
<1>4. HistoryDays \in Int
  <2>1. history[1] \in Rows
    BY <1>1 DEF DealTypeInv
  <2>2. history[1][1] \in Int
    BY <2>1, RowIs, DealFacts
  <2>3. QED
    BY <1>2, <2>2 DEF HistoryDays
<1>5. /\ v \in {"INSUFFICIENT_HISTORY", "FALSE_DISCOUNT", "INFLATED_REFERENCE", "GENUINE_DEAL",
               "NORMAL_DROP"}
      /\ v = "GENUINE_DEAL" => shop.price < ThirtyDayLow
      /\ shop.price >= ThirtyDayLow => v \in {"FALSE_DISCOUNT", "INSUFFICIENT_HISTORY"}
  BY <1>2, <1>3, <1>4, VerdictIs
<1>6. s \in BOOLEAN
  BY Zenon DEF Suspect
<1>7. s => shop.price >= ThirtyDayLow
  BY <1>3 DEF Suspect
<1>8. ASSUME v = "GENUINE_DEAL", NEW r \in seen, today - r[1] <= Window
      PROVE  shop.price < r[2]
  <2>1. r \in Rows
    BY <1>1 DEF DealTypeInv
  <2>2. r[1] \in Nat /\ r[2] \in Nat
    BY <2>1, RowIs, DealFacts
  <2>3. today - r[1] <= Keep
    BY <1>2, <1>8, <2>2, DealFacts
  <2>4. PICK j \in DOMAIN history : history[j] = r
    BY <1>1, <2>3 DEF HistoryInv
  <2>5. j \in 1..Len(history)
    BY <1>1 DEF DealTypeInv
  <2>6. ThirtyDayLow <= r[2]
    BY <1>3, <1>8, <2>4, <2>5
  <2>7. QED
    BY <1>2, <1>3, <1>5, <1>8, <2>2, <2>6
<1>9. Judged(i, shop.price) = [watch |-> i, old |-> Previous, new |-> shop.price,
                               low |-> ThirtyDayLow, verdict |-> v, suspect |-> s]
  BY Zenon DEF Judged
<1> HIDE DEF v, s
<1>10. Judged(i, shop.price) \in Judgements
  BY <1>2, <1>3, <1>5, <1>6, <1>9 DEF Judgements
<1>11. Sound(Judged(i, shop.price))
  BY <1>5, <1>7, <1>8, <1>9 DEF Sound
<1>12. QED
  BY <1>10, <1>11

LEMMA LowerIs ==
  ASSUME NEW new \in Prices, low \in Prices \cup {None}, history \in Seq(Rows)
  PROVE  /\ Lower(new) \in Prices
         /\ \/ Lower(new) = new
            \/ Lower(new) = low /\ low # None
            \/ low = None /\ \E i \in DOMAIN history : Lower(new) = history[i][2]
<1> DEFINE known_prices == {new} \cup (IF low = None THEN PricesOf(history) ELSE {low})
<1>1. \A i \in DOMAIN history : history[i][2] \in Prices
  <2>1. \A i \in DOMAIN history : history[i] \in Rows
    OBVIOUS
  <2>2. QED
    BY <2>1, RowIs
<1>2. PricesOf(history) \subseteq Prices
  BY <1>1 DEF PricesOf
<1>3. known_prices \in SUBSET Prices /\ known_prices # {}
  BY <1>2 DEF None
<1>4. known_prices \in SUBSET Nat
  BY <1>3, DealFacts
<1> HIDE DEF known_prices
<1>5. Lower(new) \in known_prices
  BY <1>3, <1>4, LowestIs DEF Lower, known_prices
<1>6. QED
  BY <1>3, <1>5 DEF known_prices, PricesOf

LEMMA InitDeal == DealInit => DealInv
<1> SUFFICES ASSUME DealInit PROVE DealInv
  OBVIOUS
<1>1. MaxDay \in Nat /\ MaxVisits \in Nat /\ Len(Watches) \in Nat
  BY DealFacts
<1>2. /\ history \in Seq(Rows) /\ \A i, j \in DOMAIN history : i <= j => history[i][1] <= history[j][1]
      /\ seen = {history[i] : i \in DOMAIN history}
      /\ today = (IF history = <<>> THEN 0 ELSE history[Len(history)][1])
  BY DealAssumption DEF DealInit, Rows
<1>3. DOMAIN history = 1..Len(history) /\ Len(history) \in Nat
      /\ \A i \in DOMAIN history : history[i] \in Rows
  BY <1>2
<1>4. seen \subseteq Rows
  BY <1>2, <1>3
<1>5. today \in 0..MaxDay /\ \A i \in DOMAIN history : history[i][1] <= today
  <2>1. CASE history = <<>>
    BY <1>1, <1>2, <1>3, <2>1
  <2>2. CASE history # <<>>
    <3>1. Len(history) \in DOMAIN history /\ today = history[Len(history)][1]
      BY <1>2, <1>3, <2>2
    <3>2. today \in 0..MaxDay
      BY <1>3, <3>1 DEF Rows
    <3>3. \A i \in DOMAIN history : i <= Len(history)
      BY <1>3
    <3>4. QED
      BY <1>2, <3>1, <3>2, <3>3
  <2>3. QED
    BY <2>1, <2>2
<1>6. visits = 0 /\ visiting = 0 /\ low = None /\ alerts = <<>>
  BY DEF DealInit
<1>7. DealTypeInv
  <2>1. ByDay(history)
    BY <1>2, <1>5 DEF ByDay
  <2>2. alerts \in Seq(Judgements)
    BY <1>6
  <2>3. QED
    BY <1>1, <1>2, <1>4, <1>5, <1>6, <2>1, <2>2 DEF DealTypeInv
<1>8. HistoryInv
  <2>1. \A r \in seen : r[1] <= today /\ \E i \in DOMAIN history : history[i] = r
    BY <1>2, <1>5
  <2>2. seen # {} => history # <<>>
    BY <1>2, <1>3
  <2>3. QED
    BY <1>2, <1>6, <2>1, <2>2 DEF HistoryInv
<1>9. LowInv /\ FirstAlert /\ DOMAIN alerts = {}
  BY <1>6 DEF LowInv, FirstAlert
<1>10. QED
  BY <1>7, <1>8, <1>9 DEF DealInv

(* The history with this observation, and what a visit leaves of it.        *)
LEMMA NoteIs ==
  ASSUME DealTypeInv, visiting # 0
  PROVE  LET rows == Append(history, Row)
         IN  /\ rows \in Seq(Rows) /\ rows # <<>> /\ ByDay(rows)
             /\ Len(rows) = Len(history) + 1 /\ rows[Len(rows)] = Row
             /\ \A i \in 1..Len(history) : rows[i] = history[i]
<1> DEFINE rows == Append(history, Row)
<1>1. shop.price \in Prices /\ today \in 0..MaxDay /\ history \in Seq(Rows) /\ ByDay(history)
  BY Zenon DEF DealTypeInv
<1>2. Row \in Rows
  BY <1>1 DEF Row, Rows
<1>3. Row[1] = today
  BY DEF Row
<1>4. today \in Nat
  BY <1>1, DealFacts
<1> HIDE DEF Row
<1>5. /\ rows \in Seq(Rows) /\ rows # <<>> /\ Len(rows) = Len(history) + 1 /\ rows[Len(rows)] = Row
      /\ \A i \in 1..Len(history) : rows[i] = history[i]
  BY <1>1, <1>2
<1> HIDE DEF rows
<1>6. DOMAIN rows = 1..Len(rows) /\ DOMAIN history = 1..Len(history) /\ Len(history) \in Nat
  BY <1>1, <1>5
<1>7. \A i \in 1..Len(rows) : rows[i][1] <= today
  <2>1. ASSUME NEW i \in 1..Len(rows) PROVE rows[i][1] <= today
    <3>1. CASE i = Len(rows)
      BY <3>1, <1>3, <1>4, <1>5
    <3>2. CASE i # Len(rows)
      <4>1. i \in 1..Len(history)
        BY <1>5, <1>6, <3>2
      <4>2. rows[i] = history[i] /\ history[i][1] <= today
        BY <4>1, <1>1, <1>5, <1>6 DEF ByDay
      <4>3. QED
        BY <4>2
    <3>3. QED
      BY <3>1, <3>2
  <2>2. QED
    BY <2>1
<1>8. ASSUME NEW i \in 1..Len(rows), NEW j \in 1..Len(rows), i <= j
      PROVE  rows[i][1] <= rows[j][1]
  <2>1. CASE j = Len(rows)
    BY <2>1, <1>3, <1>5, <1>7
  <2>2. CASE j # Len(rows)
    <3>1. i \in 1..Len(history) /\ j \in 1..Len(history)
      BY <1>5, <1>6, <1>8, <2>2
    <3>2. history[i][1] <= history[j][1]
      BY <3>1, <1>1, <1>6, <1>8 DEF ByDay
    <3>3. QED
      BY <3>1, <3>2, <1>5
  <2>3. QED
    BY <2>1, <2>2
<1>9. ByDay(rows)
  BY <1>6, <1>7, <1>8 DEF ByDay
<1>10. QED
  BY <1>5, <1>9 DEF rows

LEMMA KeptIs ==
  ASSUME DealTypeInv, visiting # 0
  PROVE  LET kept == Pruned(Append(history, Row))
         IN  /\ kept \in Seq(Rows) /\ kept # <<>> /\ ByDay(kept) /\ kept[Len(kept)] = Row
             /\ \A i \in DOMAIN kept : kept[i] = Row \/ \E j \in DOMAIN history : kept[i] = history[j]
             /\ \A j \in DOMAIN history : today - history[j][1] <= Keep =>
                  \E i \in DOMAIN kept : kept[i] = history[j]
<1> DEFINE rows == Append(history, Row)
           kept == Pruned(rows)
<1>1. /\ rows \in Seq(Rows) /\ rows # <<>> /\ ByDay(rows)
      /\ Len(rows) = Len(history) + 1 /\ rows[Len(rows)] = Row
      /\ \A i \in 1..Len(history) : rows[i] = history[i]
  BY NoteIs
<1>2. DOMAIN history = 1..Len(history) /\ Len(history) \in Nat
  BY DEF DealTypeInv
<1>3. today \in Nat /\ Keep \in Nat
  <2>1. today \in 0..MaxDay
    BY Zenon DEF DealTypeInv
  <2>2. QED
    BY <2>1, DealFacts
<1> HIDE DEF rows
<1>4. PICK k \in 1..Len(rows) : kept = SubSeq(rows, k, Len(rows)) /\ k <= From(rows, Keep)
  BY <1>1, <1>3, PrunedIs
<1>5. k \in 1..(Len(rows) + 1)
  BY <1>1, <1>2
<1>6. /\ kept \in Seq(Rows) /\ Len(kept) = Len(rows) + 1 - k
      /\ \A i \in 1..Len(kept) : kept[i] = rows[k + i - 1] /\ k + i - 1 \in 1..Len(rows)
      /\ \A j \in k..Len(rows) : j - k + 1 \in 1..Len(kept) /\ kept[j - k + 1] = rows[j]
  BY <1>1, <1>4, <1>5, RestOfRows
<1>7. ByDay(kept)
  BY <1>1, <1>4, <1>5, RestByDay
<1> HIDE DEF kept
<1>8. DOMAIN kept = 1..Len(kept)
  BY <1>6
<1>9. Len(kept) \in 1..Len(rows) /\ k + Len(kept) - 1 = Len(rows)
  BY <1>1, <1>2, <1>6
<1>10. kept # <<>> /\ kept[Len(kept)] = Row
  <2>1. Len(kept) \in 1..Len(kept)
    BY <1>1, <1>2, <1>9
  <2>2. kept[Len(kept)] = rows[Len(rows)]
    BY <2>1, <1>6, <1>9
  <2>3. QED
    BY <1>1, <1>8, <2>1, <2>2
<1>11. ASSUME NEW i \in DOMAIN kept
       PROVE  kept[i] = Row \/ \E j \in DOMAIN history : kept[i] = history[j]
  <2>1. PICK j \in 1..Len(rows) : kept[i] = rows[j]
    BY <1>6, <1>8
  <2>2. j = Len(rows) \/ j \in 1..Len(history)
    BY <1>1, <1>2
  <2>3. QED
    BY <1>1, <1>2, <2>1, <2>2
<1>12. ASSUME NEW j \in DOMAIN history, today - history[j][1] <= Keep
       PROVE  \E i \in DOMAIN kept : kept[i] = history[j]
  <2>1. j \in 1..Len(rows) /\ rows[j] = history[j]
    BY <1>1, <1>2
  <2>2. /\ From(rows, Keep) \in 1..(Len(rows) + 1)
        /\ \A i \in 1..Len(rows) : i >= From(rows, Keep) <=> today - rows[i][1] <= Keep
    BY <1>1, <1>3, FromIs
  <2>3. j >= From(rows, Keep)
    BY <1>12, <2>1, <2>2
  <2>4. j \in k..Len(rows)
    BY <1>1, <1>2, <1>4, <2>1, <2>2, <2>3
  <2>5. QED
    BY <1>6, <1>8, <2>1, <2>4
<1>13. QED
  BY <1>6, <1>7, <1>10, <1>11, <1>12 DEF kept, rows

(* What a visit adds to the alerts.                                         *)
LEMMA VisitAlerts ==
  ASSUME DealInv, Visit
  PROVE  /\ alerts' \in Seq(Judgements) /\ \A i \in DOMAIN alerts' : Sound(alerts'[i])
         /\ alerts # <<>> => alerts' # <<>>
<1> DEFINE new == Judged(visiting, shop.price)
           alerting == /\ ShouldAlert(Watches[visiting], Previous, shop.price, PriorLow)
                       /\ Watches[visiting].trusted => shop.firstParty
<1>1. visiting \in 1..Len(Watches) /\ visiting # 0
  <2>1. DOMAIN Watches = 1..Len(Watches)
    BY DealAssumption
  <2>2. visiting \in 1..Len(Watches)
    BY <2>1 DEF Visit
  <2>3. QED
    BY <2>2, DealFacts
<1>2. alerts \in Seq(Judgements) /\ \A i \in DOMAIN alerts : Sound(alerts[i])
  BY Zenon DEF DealInv, DealTypeInv
<1>3. alerts' = IF alerting THEN Append(alerts, new) ELSE alerts
  BY Zenon DEF Visit
<1>4. alerting => history # <<>>
  BY Zenon DEF ShouldAlert, Previous
<1>5. alerting => new \in Judgements /\ Sound(new)
  BY <1>1, <1>4, JudgedSound
<1> HIDE DEF alerting, new
<1>6. CASE alerting
  <2>1. alerts' = Append(alerts, new) /\ new \in Judgements /\ Sound(new)
    BY <1>3, <1>5, <1>6
  <2>2. /\ alerts' \in Seq(Judgements) /\ alerts' # <<>> /\ DOMAIN alerts' = 1..(Len(alerts) + 1)
        /\ alerts'[Len(alerts) + 1] = new
        /\ \A i \in 1..Len(alerts) : alerts'[i] = alerts[i]
    BY <1>2, <2>1
  <2>3. DOMAIN alerts = 1..Len(alerts) /\ Len(alerts) \in Nat
    BY <1>2
  <2>4. ASSUME NEW i \in 1..(Len(alerts) + 1) PROVE Sound(alerts'[i])
    <3>1. i = Len(alerts) + 1 \/ i \in 1..Len(alerts)
      BY <2>3
    <3>2. alerts'[i] = new \/ (i \in DOMAIN alerts /\ alerts'[i] = alerts[i])
      BY <2>2, <2>3, <3>1
    <3>3. QED
      BY <1>2, <2>1, <3>2, Zenon
  <2>5. QED
    BY <2>2, <2>4
<1>7. CASE ~alerting
  BY <1>2, <1>3, <1>7, Zenon
<1>8. QED
  BY <1>6, <1>7

(* A price below all that were seen is below the one before and the low:    *)
(* the first visit alerts.                                                  *)
LEMMA FirstVisit ==
  ASSUME DealInv, Visit, visiting = 1, visits > 1, shop.inStock, seen # {},
         \A r \in seen : shop.price < r[2],
         Watches[1].atl = "aggressive", ~Watches[1].trusted
  PROVE  alerts' # <<>>
<1>1. /\ shop.price \in Prices /\ seen \subseteq Rows /\ alerts \in Seq(Judgements)
      /\ history \in Seq(Rows)
  <2>1. visiting # 0
    OBVIOUS
  <2>2. QED
    BY <2>1, Zenon DEF DealInv, DealTypeInv
<1>2. history # <<>> /\ \A i \in DOMAIN history : history[i] \in seen
  BY DEF DealInv, HistoryInv
<1>3. \A r \in seen : r[2] \in Nat \ {0}
  BY <1>1, RowIs, DealFacts
<1>4. history[Len(history)] \in seen
  BY <1>1, <1>2
<1>5. Previous = history[Len(history)][2]
  BY <1>2 DEF Previous
<1>6. Previous # None /\ shop.price < Previous
  BY <1>3, <1>4, <1>5 DEF None
<1>7. \E r \in seen : low = r[2]
  <2>1. LowInv
    BY DEF DealInv
  <2>2. visits \in Nat
    <3>1. visits \in 0..MaxVisits
      BY Zenon DEF DealInv, DealTypeInv
    <3>2. QED
      BY <3>1, DealFacts
  <2>3. QED
    BY <2>1, <2>2 DEF LowInv
<1>8. PriorLow # None /\ shop.price < PriorLow
  BY <1>3, <1>7 DEF PriorLow, None
<1>9. ShouldAlert(Watches[visiting], Previous, shop.price, PriorLow)
  BY <1>6, <1>8 DEF ShouldAlert
<1>10. alerts' = Append(alerts, Judged(visiting, shop.price))
  BY <1>9 DEF Visit
<1>11. QED
  BY <1>1, <1>10

LEMMA StepVisit == DealInv /\ Visit => DealInv'
<1> SUFFICES ASSUME DealInv, Visit PROVE DealInv'
  OBVIOUS
<1> DEFINE kept == Pruned(Append(history, Row))
<1>1. /\ visiting \in 1..Len(Watches) /\ visiting # 0 /\ visiting' = visiting + 1
      /\ Len(Watches) \in Nat
  <2>1. DOMAIN Watches = 1..Len(Watches)
    BY DealAssumption
  <2>2. visiting \in 1..Len(Watches) /\ visiting' = visiting + 1
    BY <2>1 DEF Visit
  <2>3. QED
    BY <2>2, DealFacts
<1>2. /\ history' = kept /\ low' = Lower(shop.price)
      /\ UNCHANGED <<today, visits, shop, seen>>
  BY Zenon DEF Visit, Row
<1>3. DealTypeInv /\ HistoryInv /\ LowInv /\ FirstAlert
  BY DEF DealInv
<1>4. /\ kept \in Seq(Rows) /\ kept # <<>> /\ ByDay(kept) /\ kept[Len(kept)] = Row
      /\ \A i \in DOMAIN kept : kept[i] = Row \/ \E j \in DOMAIN history : kept[i] = history[j]
      /\ \A j \in DOMAIN history : today - history[j][1] <= Keep =>
           \E i \in DOMAIN kept : kept[i] = history[j]
  BY <1>1, <1>3, KeptIs
<1> HIDE DEF kept
<1>5. /\ today \in 0..MaxDay /\ visits \in 0..MaxVisits /\ shop.price \in Prices
      /\ low \in Prices \cup {None} /\ seen \subseteq Rows
  BY <1>1, <1>3, Zenon DEF DealTypeInv
<1>6. /\ Lower(shop.price) \in Prices
      /\ \/ Lower(shop.price) = shop.price
         \/ Lower(shop.price) = low /\ low # None
         \/ low = None /\ \E i \in DOMAIN history : Lower(shop.price) = history[i][2]
  <2>1. history \in Seq(Rows)
    BY <1>3, Zenon DEF DealTypeInv
  <2>2. QED
    BY <1>5, <2>1, LowerIs
<1>7. /\ alerts' \in Seq(Judgements) /\ \A i \in DOMAIN alerts' : Sound(alerts'[i])
      /\ alerts # <<>> => alerts' # <<>>
  BY VisitAlerts
<1>8. visiting' \in 0..(Len(Watches) + 1) /\ visiting' > 1 /\ visiting' # 0
  BY <1>1
<1>9. Row' = Row
  BY <1>2 DEF Row
<1>10. DealTypeInv'
  <2>1. ByDay(history)'
    BY <1>2, <1>4 DEF ByDay
  <2>2. QED
    BY <1>2, <1>4, <1>5, <1>6, <1>7, <1>8, <2>1 DEF DealTypeInv
<1>11. HistoryInv'
  <2>1. \A i \in DOMAIN history' : history'[i] \in seen' \/ (visiting' > 1 /\ history'[i] = Row')
    BY <1>2, <1>3, <1>4, <1>8, <1>9 DEF HistoryInv
  <2>2. history' # <<>> /\ history'[Len(history')] = Row'
    BY <1>2, <1>4, <1>9
  <2>3. \A r \in seen' : r[1] <= today'
    BY <1>2, <1>3 DEF HistoryInv
  <2>4. ASSUME NEW r \in seen', today' - r[1] <= Keep
        PROVE  \E i \in DOMAIN history' : history'[i] = r
    <3>1. PICK j \in DOMAIN history : history[j] = r
      BY <1>2, <1>3, <2>4 DEF HistoryInv
    <3>2. QED
      BY <1>2, <1>4, <2>4, <3>1
  <2>5. QED
    BY <2>1, <2>2, <2>3, <2>4 DEF HistoryInv
<1>12. LowInv'
  <2>1. CASE low' = shop.price
    BY <1>2, <1>8, <2>1 DEF LowInv
  <2>2. CASE low' = low /\ low # None
    BY <1>2, <1>3, <1>8, <2>2 DEF LowInv
  (* The older rows that the first visit of all takes it from were seen.    *)
  <2>3. CASE low = None /\ \E i \in DOMAIN history : low' = history[i][2]
    <3>1. PICK i \in DOMAIN history : low' = history[i][2]
      BY <2>3
    <3>2. CASE visiting > 1
      <4>1. (\E r \in seen : low = r[2]) \/ low = shop.price
        BY <1>1, <1>3, <3>2 DEF LowInv
      <4>2. low # None
        <5>1. \A r \in seen : r[2] \in Prices
          BY <1>5, RowIs
        <5>2. \A q \in Prices : q # None
          BY DealFacts DEF None
        <5>3. QED
          BY <1>5, <4>1, <5>1, <5>2
      <4>3. QED
        BY <2>3, <4>2
    <3>3. CASE ~(visiting > 1)
      <4>1. history[i] \in seen
        BY <1>3, <3>1, <3>3 DEF HistoryInv
      <4>2. QED
        BY <1>2, <3>1, <4>1 DEF LowInv
    <3>4. QED
      BY <3>2, <3>3
  <2>4. QED
    BY <1>2, <1>6, <2>1, <2>2, <2>3
<1>13. FirstAlert'
  <2> SUFFICES ASSUME visits > 1, shop.inStock, seen # {}, \A r \in seen : shop.price < r[2],
                      Watches[1].atl = "aggressive", ~Watches[1].trusted
               PROVE  alerts' # <<>>
    BY <1>2 DEF FirstAlert
  <2>1. CASE visiting = 1
    BY <2>1, FirstVisit
  <2>2. CASE visiting > 1
    BY <1>3, <1>7, <2>2 DEF FirstAlert
  <2>3. QED
    BY <1>1, <2>1, <2>2
<1>14. \A i \in DOMAIN alerts' : Sound(alerts[i])'
  BY <1>2, <1>7 DEF Sound
<1>15. QED
  BY <1>10, <1>11, <1>12, <1>13, <1>14 DEF DealInv

LEMMA StepStartRun == DealInv /\ StartRun => DealInv'
<1> SUFFICES ASSUME DealInv, StartRun PROVE DealInv'
  OBVIOUS
<1>1. /\ visiting = 0 /\ visits < MaxVisits /\ visits' = visits + 1 /\ visiting' = 1
      /\ alerts' = <<>> /\ UNCHANGED <<today, history, low, seen>> /\ shop'.price \in Prices
  BY DEF StartRun
<1>2. DealTypeInv /\ HistoryInv /\ LowInv
  BY DEF DealInv
<1>3. /\ today \in 0..MaxDay /\ visits \in 0..MaxVisits /\ history \in Seq(Rows) /\ ByDay(history)
      /\ low \in Prices \cup {None} /\ seen \subseteq Rows
  BY <1>2, Zenon DEF DealTypeInv
<1>4. MaxVisits \in Nat /\ Len(Watches) \in Nat \ {0}
  BY DealFacts
<1>5. DealTypeInv'
  <2>1. ByDay(history)'
    BY <1>1, <1>3 DEF ByDay
  <2>2. visits' \in 0..MaxVisits /\ visiting' \in 0..(Len(Watches) + 1)
    BY <1>1, <1>3, <1>4
  <2>3. alerts' \in Seq(Judgements)
    BY <1>1
  <2>4. QED
    BY <1>1, <1>3, <2>1, <2>2, <2>3 DEF DealTypeInv
<1>6. HistoryInv'
  BY <1>1, <1>2 DEF HistoryInv
<1>7. LowInv'
  BY <1>1, <1>2, <1>3, <1>4 DEF LowInv
<1>8. FirstAlert'
  BY <1>1 DEF FirstAlert
<1>9. \A i \in DOMAIN alerts' : Sound(alerts[i])'
  BY <1>1
<1>10. QED
  BY <1>5, <1>6, <1>7, <1>8, <1>9 DEF DealInv

LEMMA StepEndRun == DealInv /\ EndRun => DealInv'
<1> SUFFICES ASSUME DealInv, EndRun PROVE DealInv'
  OBVIOUS
<1>1. /\ visiting = Len(Watches) + 1 /\ visiting' = 0 /\ seen' = seen \cup {Row}
      /\ alerts' = <<>> /\ UNCHANGED <<today, visits, history, low>>
  BY Zenon DEF EndRun, Row
<1>2. DealTypeInv /\ HistoryInv /\ LowInv
  BY DEF DealInv
<1>3. Len(Watches) \in Nat \ {0}
  BY DealFacts
<1>4. visiting > 1 /\ visiting # 0 /\ ~(visiting <= 1)
  BY <1>1, <1>3
<1>5. /\ today \in 0..MaxDay /\ visits \in 0..MaxVisits /\ history \in Seq(Rows) /\ ByDay(history)
      /\ low \in Prices \cup {None} /\ seen \subseteq Rows /\ shop.price \in Prices
  BY <1>2, <1>4, Zenon DEF DealTypeInv
<1>6. Row \in Rows /\ Row[1] = today /\ Row[2] = shop.price
  BY <1>5 DEF Row, Rows
<1>7. today \in Nat
  BY <1>5, DealFacts
<1> HIDE DEF Row
<1>8. DealTypeInv'
  <2>1. ByDay(history)'
    BY <1>1, <1>5 DEF ByDay
  <2>2. seen' \subseteq Rows
    BY <1>1, <1>5, <1>6
  <2>3. visiting' \in 0..(Len(Watches) + 1)
    BY <1>1, <1>3
  <2>4. alerts' \in Seq(Judgements)
    BY <1>1
  <2>5. QED
    BY <1>1, <1>5, <2>1, <2>2, <2>3, <2>4 DEF DealTypeInv
<1>9. HistoryInv'
  <2>1. history # <<>> /\ history[Len(history)] = Row /\ Len(history) \in DOMAIN history
    BY <1>2, <1>4, <1>5 DEF HistoryInv
  <2>2. \A i \in DOMAIN history' : history'[i] \in seen'
    BY <1>1, <1>2 DEF HistoryInv
  <2>3. \A r \in seen' : r[1] <= today'
    BY <1>1, <1>2, <1>6, <1>7 DEF HistoryInv
  <2>4. ASSUME NEW r \in seen', today' - r[1] <= Keep
        PROVE  \E i \in DOMAIN history' : history'[i] = r
    <3>1. CASE r \in seen
      BY <1>1, <1>2, <2>4, <3>1 DEF HistoryInv
    <3>2. CASE r = Row
      BY <1>1, <2>1, <3>2
    <3>3. QED
      BY <1>1, <3>1, <3>2
  <2>5. ~(visiting' > 1)
    BY <1>1
  <2>6. QED
    BY <1>1, <2>1, <2>2, <2>3, <2>4, <2>5 DEF HistoryInv
<1>10. LowInv'
  <2>1. Row \in seen'
    BY <1>1
  <2>2. (\E r \in seen : low = r[2]) \/ low = Row[2]
    BY <1>2, <1>4, <1>6 DEF LowInv
  <2>3. \E r \in seen' : low' = r[2]
    BY <1>1, <2>1, <2>2
  <2>4. QED
    BY <2>3 DEF LowInv
<1>11. FirstAlert'
  BY <1>1 DEF FirstAlert
<1>12. \A i \in DOMAIN alerts' : Sound(alerts[i])'
  BY <1>1
<1>13. QED
  BY <1>8, <1>9, <1>10, <1>11, <1>12 DEF DealInv

LEMMA StepNextDay == DealInv /\ NextDay => DealInv'
<1> SUFFICES ASSUME DealInv, NextDay PROVE DealInv'
  OBVIOUS
<1>1. /\ visiting = 0 /\ today < MaxDay /\ today' = today + 1
      /\ UNCHANGED <<visits, shop, visiting, history, low, alerts, seen>>
  BY DEF NextDay
<1>2. DealTypeInv /\ HistoryInv /\ LowInv
  BY DEF DealInv
<1>3. /\ today \in 0..MaxDay /\ visits \in 0..MaxVisits /\ history \in Seq(Rows) /\ ByDay(history)
      /\ low \in Prices \cup {None} /\ seen \subseteq Rows /\ alerts = <<>>
  BY <1>1, <1>2, Zenon DEF DealTypeInv
<1>4. MaxDay \in Nat /\ Len(Watches) \in Nat \ {0} /\ Keep \in Nat
  BY DealFacts
<1>5. today \in Nat /\ today' \in 0..MaxDay
  BY <1>1, <1>3, <1>4
<1>6. \A r \in Rows : r[1] \in Nat
  BY RowIs, DealFacts
<1>7. DealTypeInv'
  <2>1. DOMAIN history = 1..Len(history) /\ \A i \in DOMAIN history : history[i] \in Rows
    BY <1>3
  <2>2. \A i \in DOMAIN history : history[i][1] <= today'
    BY <1>1, <1>3, <1>5, <1>6, <2>1 DEF ByDay
  <2>3. ByDay(history)'
    BY <1>1, <1>3, <2>2 DEF ByDay
  <2>4. alerts' \in Seq(Judgements)
    BY <1>1, <1>3
  <2>5. visiting' \in 0..(Len(Watches) + 1)
    BY <1>1, <1>4
  <2>6. QED
    BY <1>1, <1>3, <1>5, <2>3, <2>4, <2>5 DEF DealTypeInv
<1>8. HistoryInv'
  <2>1. \A r \in seen : r[1] \in Nat /\ r[1] <= today
    <3>1. \A r \in seen : r[1] \in Nat
      BY <1>3, <1>6, Zenon
    <3>2. \A r \in seen : r[1] <= today
      BY <1>2, Zenon DEF HistoryInv
    <3>3. QED
      BY <3>1, <3>2, Zenon
  <2>2. \A r \in seen : r[1] <= today'
    BY <1>1, <1>5, <2>1
  <2>3. \A r \in seen : today' - r[1] <= Keep => today - r[1] <= Keep
    BY <1>1, <1>4, <1>5, <2>1
  <2>4. \A r \in seen : today' - r[1] <= Keep => \E i \in DOMAIN history : history[i] = r
    BY <1>2, <2>3 DEF HistoryInv
  <2>5. ~(visiting > 1)
    BY <1>1
  <2>6. QED
    BY <1>1, <1>2, <2>2, <2>4, <2>5 DEF HistoryInv
<1>9. LowInv'
  BY <1>1, <1>2 DEF LowInv
<1>10. FirstAlert'
  BY <1>1 DEF FirstAlert
<1>11. \A i \in DOMAIN alerts' : Sound(alerts[i])'
  BY <1>1, <1>3
<1>12. QED
  BY <1>7, <1>8, <1>9, <1>10, <1>11 DEF DealInv

LEMMA DealAlways == DealSpec => []DealInv
<1>1. DealInv /\ UNCHANGED dealVars => DealInv'
  <2> SUFFICES ASSUME DealInv, UNCHANGED dealVars PROVE DealInv'
    OBVIOUS
  <2>1. UNCHANGED <<today, visits, shop, visiting, history, low, alerts, seen>>
    BY DEF dealVars
  <2>2. DealTypeInv'
    BY <2>1 DEF DealInv, DealTypeInv, ByDay
  <2>3. HistoryInv' /\ LowInv' /\ FirstAlert'
    BY <2>1 DEF DealInv, HistoryInv, LowInv, FirstAlert, Row
  <2>4. \A i \in DOMAIN alerts' : Sound(alerts[i])'
    BY <2>1 DEF DealInv, Sound
  <2>5. QED
    BY <2>2, <2>3, <2>4 DEF DealInv
<1>2. DealInv /\ [DealNext]_dealVars => DealInv'
  BY <1>1, StepStartRun, StepVisit, StepEndRun, StepNextDay DEF DealNext
<1>3. QED
  BY <1>2, InitDeal, PTL DEF DealSpec

(* GenuineBeatsTheWindow, of analyze.py's rule over the 30 days scrape.py   *)
(* hands on: a genuine deal is below all prices of the window, for any      *)
(* watches and prices, and any window no longer than what is kept.          *)
THEOREM GenuineIsBelow == DealSpec => []GenuineBeatsTheWindow
<1>1. DealInv => GenuineBeatsTheWindow
  BY DEF DealInv, Sound, GenuineBeatsTheWindow
<1>2. QED
  BY <1>1, DealAlways, PTL

(* JudgementsAgree: what deal_stats.py suspects to be fake, analyze.py      *)
(* never calls a deal, whatever the three periods are.                      *)
THEOREM SuspectsAreNoDeals == DealSpec => []JudgementsAgree
<1>1. DealInv => JudgementsAgree
  BY DEF DealInv, Sound, JudgementsAgree
<1>2. QED
  BY <1>1, DealAlways, PTL

(* RecordAlerts: from the second run on, the first watch to find an offer   *)
(* at its lowest price ever alerts, though every row that knew the record   *)
(* may have been pruned, and an older version may have recorded it.         *)
THEOREM RecordsAlert == DealSpec => RecordAlerts
<1>1. DealInv /\ [DealNext]_dealVars => [RecordAlert]_dealVars
  <2> SUFFICES ASSUME DealInv, DealNext, visiting' = 0, visiting # 0, visits > 1, shop.inStock,
                      seen # {}, \A r \in seen : shop.price < r[2],
                      Watches[1].atl = "aggressive", ~Watches[1].trusted
               PROVE  alerts # <<>>
    BY DEF RecordAlert
  <2>1. Len(Watches) \in Nat \ {0}
    BY DealFacts
  <2>2. CASE StartRun
    BY <2>2 DEF StartRun
  <2>3. CASE Visit
    <3>1. DOMAIN Watches = 1..Len(Watches)
      BY DealAssumption
    <3>2. visiting \in 1..Len(Watches) /\ visiting' = visiting + 1
      BY <2>3, <3>1 DEF Visit
    <3>3. QED
      BY <2>1, <3>2
  <2>4. CASE EndRun
    <3>1. visiting > 1
      BY <2>1, <2>4 DEF EndRun
    <3>2. FirstAlert
      BY DEF DealInv
    <3>3. QED
      BY <3>1, <3>2 DEF FirstAlert
  <2>5. CASE NextDay
    BY <2>5 DEF NextDay
  <2>6. QED
    BY <2>2, <2>3, <2>4, <2>5 DEF DealNext
<1>2. QED
  BY <1>1, DealAlways, PTL DEF DealSpec, RecordAlerts

(* DealTypeOK, whatever the bounds: DealAlerts keeps what its variables     *)
(* are for.                                                                 *)
THEOREM DealTypes == DealSpec => []DealTypeOK
<1>1. DealInv => DealTypeOK
  <2> SUFFICES ASSUME DealInv PROVE DealTypeOK
    OBVIOUS
  <2>1. DealTypeInv
    BY DEF DealInv
  <2>2. history \in Seq((0..MaxDay) \X Prices) /\ seen \subseteq (0..MaxDay) \X Prices
    BY <2>1 DEF DealTypeInv, Rows
  <2>3. alerts \in Seq(Judgements)
    BY <2>1, Zenon DEF DealTypeInv
  <2>4. \A i \in DOMAIN alerts : alerts[i] \in Judgements
    BY <2>3
  <2>5. \A i \in DOMAIN alerts : alerts[i].old \in Prices /\ alerts[i].low \in Prices
    BY <2>4 DEF Judgements
  <2>6. QED
    BY <2>1, <2>2, <2>5, Zenon DEF DealTypeInv, DealTypeOK
<1>2. QED
  BY <1>1, DealAlways, PTL

============================================================================
