----------------------------- MODULE PageFetch -----------------------------
(***************************************************************************)
(* scripts/scrape.py, from a watch to the offers on a shop's listing page: *)
(* plain HTTP or the one browser of the run, which keeps a context per     *)
(* shop, up to Attempts requests, a second try of the whole scraper after  *)
(* an exception, and the layers a price is looked for in.  One thread.     *)
(* The browser runs under a Playwright driver, a process of its own that   *)
(* ends when the stealth context it was entered through is exited.         *)
(*                                                                         *)
(* A page is what its parser sees: its cards and its JSON-LD products.     *)
(***************************************************************************)
EXTENDS Naturals, Sequences, FiniteSets

CONSTANTS WatchSites,    \* the sites the watches visit, in their order
          BrowserSites,  \* those fetched with fetch_with_browser
          Attempts,      \* MAX_FETCH_ATTEMPTS
          Tries,         \* SCRAPER_RETRY_ATTEMPTS
          Pages          \* listings a shop may answer with

ASSUME FetchAssumption ==
  /\ WatchSites \in Seq(STRING) /\ Attempts \in Nat \ {0} /\ Tries \in Nat \ {0}

NoPrice == 0
Sites == {WatchSites[i] : i \in DOMAIN WatchSites}
NoHtml == <<>>
Listings == {<<p>> : p \in Pages}

VARIABLES
  fetchPc,
  watch, try, attempt,
  starts,             \* stealth contexts made: _stealth_ctx is the last one
  drivers,            \* those entered and not exited
  unlaunched,         \* history: those whose browser could not be launched
  browser,            \* _browser is not None
  contexts,           \* sites with a context
  poisoned,           \* history: those whose context saw an exception leave the scraper
  page,               \* an open page's site
  html,               \* what fetch returned: a page or nothing
  requests, limited,  \* fetch_attempt_counts, rate_limit_hit_counts
  challenged,         \* challenge_counts
  results, failures   \* of the watch: offers, and cards without a price

position == <<watch, try, attempt>>
launches == <<starts, drivers, unlaunched, browser>>
engine == <<launches, contexts, poisoned, page>>
counts == <<requests, limited, challenged>>
found == <<results, failures>>
fetchVars == <<fetchPc, position, engine, html, counts, found>>

NoPage == "none"
Zero == [s \in Sites |-> 0]

FetchInit ==
  /\ fetchPc = "next" /\ watch = 0 /\ try = 1 /\ attempt = 1
  /\ starts = 0 /\ drivers = {} /\ unlaunched = {} /\ browser = FALSE
  /\ contexts = {} /\ poisoned = {} /\ page = NoPage
  /\ html = NoHtml
  /\ requests = Zero /\ limited = Zero /\ challenged = Zero
  /\ results = {} /\ failures = {}

Site == WatchSites[watch]

----------------------------------------------------------------------------
(* The next watch, or the end of the loop.                                  *)
NextWatch ==
  /\ fetchPc = "next"
  /\ watch' = watch + 1 /\ try' = 1 /\ attempt' = 1 /\ results' = {} /\ failures' = {}
  /\ fetchPc' = IF watch < Len(WatchSites) THEN "fetch" ELSE "end"
  /\ html' = NoHtml
  /\ UNCHANGED <<engine, counts>>

(* with_retry, when an exception left the scraper; _run takes the last one  *)
(* for an empty answer.                                                     *)
Reset_Nothing == UNCHANGED contexts /\ poisoned' = poisoned \cup ({Site} \cap contexts)
Reset ==
  /\ contexts' = contexts \ ({Site} \cap BrowserSites)
  /\ poisoned' = poisoned \ ({Site} \cap BrowserSites)

Raised ==
  /\ IF try < Tries
     THEN /\ Reset
          /\ try' = try + 1 /\ attempt' = 1 /\ fetchPc' = "fetch"
     ELSE /\ fetchPc' = "next" /\ poisoned' = poisoned \cup ({Site} \cap contexts)
          /\ UNCHANGED <<try, attempt, contexts>>
  /\ results' = {} /\ html' = NoHtml

Count(status) ==
  /\ requests' = [requests EXCEPT ![Site] = @ + 1]
  /\ limited' = IF status = "limited" THEN [limited EXCEPT ![Site] = @ + 1] ELSE limited

AttemptsLeft_OneMore == attempt <= Attempts
AttemptsLeft == attempt < Attempts

Challenged(blocked) ==
  challenged' = IF blocked THEN [challenged EXCEPT ![Site] = @ + 1] ELSE challenged

----------------------------------------------------------------------------
(* fetch: one request.  403 and 429 are tried again; in the end a challenge *)
(* and any status but 200 are no answer.                                    *)
HttpStatuses == {"ok", "limited", "other"}

HttpGet(status, blocked) ==
  /\ fetchPc = "fetch" /\ Site \notin BrowserSites
  /\ Count(status)
  /\ IF status = "limited" /\ AttemptsLeft
     THEN attempt' = attempt + 1 /\ UNCHANGED <<fetchPc, html, challenged>>
     ELSE /\ fetchPc' = "parse" /\ attempt' = attempt
          /\ html' \in IF status = "ok" /\ ~blocked THEN Listings ELSE {NoHtml}
          /\ Challenged(blocked)
  /\ UNCHANGED <<watch, try, engine, found>>

HttpFails ==
  /\ fetchPc = "fetch" /\ Site \notin BrowserSites
  /\ fetchPc' = "parse" /\ html' = NoHtml
  /\ UNCHANGED <<position, engine, counts, found>>

(* fetch_with_browser, in three steps that may each raise: the context and  *)
(* the page outside its own try statement.  start() forgets a driver whose  *)
(* browser could not be launched: the next one is made in its place.        *)
Unstarted_Always == TRUE
Unstarted == ~browser

StartBrowser ==
  IF Unstarted THEN /\ starts' = starts + 1 /\ drivers' = drivers \cup {starts + 1}
               /\ browser' = TRUE /\ UNCHANGED unlaunched
  ELSE UNCHANGED launches

GetContext ==
  /\ fetchPc = "fetch" /\ Site \in BrowserSites
  /\ StartBrowser
  /\ contexts' = contexts \cup {Site}
  /\ fetchPc' = "page"
  /\ UNCHANGED <<position, poisoned, page, html, counts, found>>

(* __enter__ raises, or the launch does once the driver runs, or the        *)
(* browser makes no context.                                                *)
NotEntered == Unstarted /\ starts' = starts + 1 /\ UNCHANGED <<drivers, unlaunched, browser>>
NotLaunched ==
  /\ Unstarted /\ starts' = starts + 1
  /\ drivers' = drivers \cup {starts + 1} /\ unlaunched' = unlaunched \cup {starts + 1}
  /\ UNCHANGED browser

NoContext ==
  /\ fetchPc = "fetch" /\ Site \in BrowserSites /\ Site \notin contexts
  /\ NotEntered \/ NotLaunched \/ StartBrowser
  /\ Raised
  /\ UNCHANGED <<watch, page, counts, failures>>

NewPage ==
  /\ fetchPc = "page"
  /\ page' = Site /\ fetchPc' = "load"
  /\ UNCHANGED <<position, launches, contexts, poisoned, html, counts, found>>

NoNewPage ==
  /\ fetchPc = "page" /\ Raised
  /\ UNCHANGED <<watch, launches, page, counts, failures>>

(* The page is closed whatever happened.  A listing that did not appear and *)
(* a 403 or 429 are tried again; the last answer counts, whatever its       *)
(* status, unless it is a challenge that stayed.                            *)
BrowserStatuses == {"ok", "limited", "unready"}
PageClosed == NoPage

Load(status, blocked) ==
  /\ fetchPc = "load"
  /\ page' = PageClosed
  /\ Count(status)
  /\ IF status \in {"limited", "unready"} /\ AttemptsLeft
     THEN attempt' = attempt + 1 /\ fetchPc' = "fetch" /\ UNCHANGED <<html, challenged>>
     ELSE /\ fetchPc' = "parse" /\ attempt' = attempt
          /\ html' \in IF blocked THEN {NoHtml} ELSE Listings
          /\ Challenged(blocked)
  /\ UNCHANGED <<watch, try, launches, contexts, poisoned, found>>

(* A navigation that fails is no answer and no reason for another try.      *)
LoadFails ==
  /\ fetchPc = "load"
  /\ page' = PageClosed
  /\ \/ Count("ok") \/ Count("limited") \/ UNCHANGED <<requests, limited>>
  /\ fetchPc' = "parse" /\ html' = NoHtml
  /\ UNCHANGED <<position, launches, contexts, poisoned, challenged, found>>

(* page.close() itself raises, from the finally clause: the page is gone    *)
(* with its target, and its context is the one in which something raised.   *)
PageLost ==
  /\ fetchPc = "load"
  /\ page' = PageClosed
  /\ \/ Count("ok") \/ Count("limited") \/ UNCHANGED <<requests, limited>>
  /\ Raised
  /\ UNCHANGED <<watch, launches, challenged, failures>>

----------------------------------------------------------------------------
(* A listing: its cards and its JSON-LD products, both in their order.      *)

(* match_jsonld_product: by URL, then by name.                              *)
Entries(p, c) ==
  LET same == SelectSeq(p.products, LAMBDA e : e.url = c.url)
  IN  same \o SelectSeq(p.products, LAMBDA e : e.name = c.name)

(* resolve_layered_price, and the shop's own selector after it.             *)
Layered_Shadowed(p, c) ==
  IF Entries(p, c) # <<>> THEN Entries(p, c)[1].price ELSE c.semantic
Layered(p, c) ==
  IF Entries(p, c) # <<>> /\ Entries(p, c)[1].price # NoPrice THEN Entries(p, c)[1].price
  ELSE c.semantic

PriceOf(p, c) == IF Layered(p, c) # NoPrice THEN Layered(p, c) ELSE c.shown

Matching(p) == {c \in {p.cards[i] : i \in DOMAIN p.cards} : c.matches}

(* scrape_*_listing, after fetch: a card without a price is logged.         *)
Cards == IF html = NoHtml THEN {} ELSE Matching(html[1])
Unreadable == {c.url : c \in {d \in Cards : PriceOf(html[1], d) = NoPrice}}

Parse ==
  /\ fetchPc = "parse"
  /\ results' = {<<c.url, PriceOf(html[1], c)>> : c \in {d \in Cards : d.url \notin Unreadable}}
  /\ failures' = failures \cup Unreadable
  /\ fetchPc' = "next"
  /\ UNCHANGED <<position, engine, html, counts>>

(* Markup the parser cannot navigate, after any part of the cards.          *)
ParseFails ==
  /\ fetchPc = "parse" /\ html # NoHtml
  /\ \E logged \in SUBSET Unreadable : failures' = failures \cup logged
  /\ Raised
  /\ UNCHANGED <<watch, launches, page, counts>>

(* main's finally, whether _run reached its end or raised between two       *)
(* watches.  Only the newest driver is still known to it.                   *)
Teardown == contexts' = {} /\ browser' = FALSE /\ poisoned' = {}

Close ==
  /\ fetchPc \in {"next", "end"}
  /\ Teardown /\ drivers' = drivers \ {starts}
  /\ fetchPc' = "closed"
  /\ UNCHANGED <<position, starts, unlaunched, page, html, counts, found>>

(* Its __exit__ is outside any try statement: the run ends with the         *)
(* exception.                                                               *)
CloseFails ==
  /\ fetchPc \in {"next", "end"} /\ starts # 0
  /\ Teardown
  /\ fetchPc' = "raised"
  /\ UNCHANGED <<position, starts, drivers, unlaunched, page, html, counts, found>>

FetchNext ==
  \/ NextWatch \/ GetContext \/ NoContext \/ NewPage \/ NoNewPage \/ LoadFails \/ PageLost
  \/ \E status \in HttpStatuses, blocked \in BOOLEAN : HttpGet(status, blocked)
  \/ \E status \in BrowserStatuses, blocked \in BOOLEAN : Load(status, blocked)
  \/ HttpFails
  \/ Parse \/ ParseFails \/ Close \/ CloseFails

FetchSpec == FetchInit /\ [][FetchNext]_fetchVars

----------------------------------------------------------------------------
LaunchTypes ==
  /\ starts \in Nat /\ drivers \subseteq 1..starts /\ unlaunched \subseteq 1..starts
  /\ browser \in BOOLEAN

FetchTypeOK ==
  /\ fetchPc \in {"next", "fetch", "page", "load", "parse", "end", "closed", "raised"}
  /\ watch \in 0..(Len(WatchSites) + 1) /\ try \in 1..Tries /\ attempt \in 1..Attempts
  /\ LaunchTypes /\ contexts \subseteq BrowserSites /\ poisoned \subseteq contexts
  /\ page \in Sites \cup {NoPage} /\ html \in Listings \cup {NoHtml}
  /\ requests \in [Sites -> Nat] /\ limited \in [Sites -> Nat] /\ challenged \in [Sites -> Nat]

(* A second try never runs in the context in which the first one raised,    *)
(* and no page outlives its request, whatever raised where.                 *)
FreshRetry ==
  /\ try > 1 /\ fetchPc = "page" => Site \notin poisoned
  /\ fetchPc \in {"fetch", "parse", "next", "closed", "raised"} => page = NoPage

(* A run that was closed leaves no launched browser behind, however many    *)
(* attempts, watches and retries shared it, and of the drivers whose launch *)
(* failed none but those a later start has replaced.                        *)
BrowsersClosed == fetchPc = "closed" => drivers \subseteq unlaunched \ {starts}

(* A card that shows a valid price in any of the layers of its own is never *)
(* given up as unreadable, however the other layers are broken.             *)
AnyLayerSuffices ==
  \A c \in Cards :
    c.url \in failures /\ try = 1 /\ fetchPc = "next" => c.semantic = NoPrice /\ c.shown = NoPrice
============================================================================
