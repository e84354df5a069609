---------------------------- MODULE PeakDispatch ----------------------------
(***************************************************************************)
(* When the monitor scrapes: monitor.yml's two crons, which GitHub may     *)
(* deliver late or drop, cadence_gate.py, which stops the odd-hour one     *)
(* outside the peak window, and peak_dispatch.py, which looks every ten    *)
(* minutes whether a scrape is due and starts one.                         *)
(*                                                                         *)
(* The unit of time is a tick of the dispatcher.  Runs of one concurrency  *)
(* group start one after the other, and a newer one waiting displaces an   *)
(* older one.  RUN_LIST_LIMIT is never reached.                            *)
(***************************************************************************)
EXTENDS Integers, Sequences

CONSTANTS WindowDue,    \* WINDOW_INTERVAL_MINUTES - SLACK_MINUTES
          BaselineDue,  \* the same of --baseline-interval, if above the slack; 0: off
          StaleRun, Lookback,
          MaxRuns       \* bound: runs within the lookback

ASSUME DispatchAssumption ==
  /\ WindowDue \in Nat /\ BaselineDue \in Nat /\ StaleRun \in Nat /\ WindowDue <= StaleRun
  /\ Lookback \in Nat /\ MaxRuns \in Nat

VARIABLES
  window,   \* the two repository variables: unset, invalid, or where now is
  runs,     \* the workflow's runs, oldest first
  turn,     \* the dispatcher's in this tick: before, decided, over
  looked    \* how many runs there were when it decided

dispatcher == <<turn, looked>>
dispatchVars == <<window, runs, dispatcher>>

Windows == {"unset", "invalid", "outside", "inside"}
States == {"queued", "gate", "scraping", "scraped", "skipped", "cancelled"}

DispatchInit == window \in Windows /\ runs = <<>> /\ turn = "before" /\ looked = 0

Unfinished(r) == r.state \in {"queued", "gate", "scraping"}

(* missed: runs that arrived between the dispatcher's look and its dispatch. *)
NewRun(by, missed) == [age |-> 0, by |-> by, state |-> "queued", missed |-> missed]

(* A run that waits is displaced by the next one.                           *)
Started(run) ==
  Append([i \in DOMAIN runs |-> IF runs[i].state = "queued"
            THEN [runs[i] EXCEPT !.state = "cancelled"] ELSE runs[i]], run)

----------------------------------------------------------------------------
(* GitHub. *)

Cron(by) ==
  /\ Len(runs) < MaxRuns
  /\ runs' = Started(NewRun(by, 0))
  /\ UNCHANGED <<window, dispatcher>>

Proceed(i) ==
  /\ runs[i].state = "queued" /\ \A j \in DOMAIN runs : runs[j].state \notin {"gate", "scraping"}
  /\ runs' = [runs EXCEPT ![i].state = "gate"]
  /\ UNCHANGED <<window, dispatcher>>

(* should_run, and then the golden gate, which may fail.                    *)
ShouldRun(r) == r.by = "oddHours" => window = "inside"

Gate(i) ==
  /\ runs[i].state = "gate"
  /\ \E to \in {"skipped"} \cup IF ShouldRun(runs[i]) THEN {"scraping"} ELSE {} :
       runs' = [runs EXCEPT ![i].state = to]
  /\ UNCHANGED <<window, dispatcher>>

Finish(i) ==
  /\ runs[i].state = "scraping"
  /\ runs' = [runs EXCEPT ![i].state = "scraped"]
  /\ UNCHANGED <<window, dispatcher>>

----------------------------------------------------------------------------
(* peak_dispatch.py *)

UnderWay_Running == \E i \in DOMAIN runs : runs[i].state = "scraping" /\ runs[i].age <= StaleRun
UnderWay == \E i \in DOMAIN runs : Unfinished(runs[i]) /\ runs[i].age <= StaleRun

(* The newest finished run whose scrape job was not skipped.                *)
Scrapes ==
  {i \in DOMAIN runs : runs[i].state = "scraped" /\ runs[i].age <= Lookback}

Needed == IF window = "inside" THEN WindowDue ELSE BaselineDue

ScrapeDue == \A i \in Scrapes : (\A j \in Scrapes : j <= i) => runs[i].age >= Needed

Applies == window = "inside" \/ (window # "invalid" /\ BaselineDue > 0)

(* evaluate.  gh may fail at any call, and then nothing is dispatched.      *)
Evaluate ==
  /\ turn = "before"
  /\ \/ Applies /\ ~UnderWay /\ ScrapeDue /\ turn' = "decided" /\ looked' = Len(runs)
     \/ turn' = "over" /\ UNCHANGED looked
  /\ UNCHANGED <<window, runs>>

(* main: gh workflow run.                                                   *)
Dispatch ==
  /\ turn = "decided" /\ turn' = "over" /\ looked' = 0
  /\ \/ Len(runs) < MaxRuns /\ runs' = Started(NewRun("dispatch", Len(runs) - looked))
     \/ UNCHANGED runs
  /\ UNCHANGED window

Kept(r) == Unfinished(r) \/ r.age <= Lookback
Older(r) == IF r.age > Lookback THEN r ELSE [r EXCEPT !.age = @ + 1]

(* Time passes; the finished runs that no lookback reaches any more are     *)
(* forgotten, the oldest first.                                             *)
Aged == [i \in DOMAIN runs |-> Older(runs[i])]

Advance ==
  /\ turn = "over" /\ turn' = "before"
  /\ \E n \in 0..Len(runs) :
       /\ \A i \in 1..n : ~Kept(Aged[i])
       /\ n < Len(runs) => Kept(Aged[n + 1])
       /\ runs' = SubSeq(Aged, n + 1, Len(runs))
  /\ window' \in Windows /\ UNCHANGED looked

DispatchNext ==
  \/ \E by \in {"cron", "oddHours"} : Cron(by)
  \/ \E i \in DOMAIN runs : Proceed(i) \/ Gate(i) \/ Finish(i)
  \/ Evaluate \/ Dispatch \/ Advance

DispatchSpec == DispatchInit /\ [][DispatchNext]_dispatchVars

----------------------------------------------------------------------------
DispatchTypeOK ==
  /\ window \in Windows /\ turn \in {"before", "decided", "over"}
  /\ Len(runs) <= MaxRuns /\ looked \in 0..Len(runs)
  /\ \A i \in DOMAIN runs :
       /\ runs[i].state \in States /\ runs[i].age \in 0..(Lookback + 1)
       /\ runs[i].by \in {"cron", "oddHours", "dispatch"}
       /\ runs[i].missed \in 0..MaxRuns

(* A dispatch never doubles a scrape: whatever arrived late, waited, was    *)
(* skipped or hung, a dispatched scrape begins at least one interval after  *)
(* the scrapes before it, except one that arrived while the dispatcher was  *)
(* at it.                                                                   *)
Shortest == IF BaselineDue \in 1..WindowDue THEN BaselineDue ELSE WindowDue
Scraping(r) == r.state \in {"scraping", "scraped"}
Spaced ==
  \A i, j \in DOMAIN runs :
    /\ i < j - runs[j].missed /\ runs[j].by = "dispatch"
    /\ Scraping(runs[i]) /\ Scraping(runs[j])
    => runs[i].age - runs[j].age >= Shortest \/ runs[i].age > Lookback
============================================================================
