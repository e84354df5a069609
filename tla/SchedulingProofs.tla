------------------------- MODULE SchedulingProofs -------------------------
(* Theorems about MonitorLoop, for every stage limit and every pause, and   *)
(* about PeakDispatch, for every interval and any number of runs.           *)
EXTENDS MonitorLoop, PeakDispatch, SequenceTheorems, WellFoundedInduction, TLAPS

Running == {"assign", "wait", "grace"}

(* The types, and where the main thread stands while there is a child or a  *)
(* stage to run.                                                            *)
Places ==
  /\ command \in {"run", "once"} /\ configured \in BOOLEAN
  /\ loopPc \in {"top", "check", "spawn", "pause", "exited", "down"} \cup Running
  /\ stage \in 1..4 /\ waited \in Nat
  /\ child \in {"none", "running", "ok", "failed"}
  /\ alertsFrom \in {"none", "old", "this"} /\ formattedFrom \in {"none", "old", "this"}
  /\ child # "none" => loopPc \in Running
  /\ loopPc \in {"spawn"} \cup Running => stage \in 1..3

(* A stage begins with what the stages before it wrote in this cycle, and   *)
(* what ended well has written its own file.                                *)
FreshInv ==
  /\ loopPc \in {"check", "spawn"} \cup Running =>
       (stage >= 2 => alertsFrom = "this") /\ (stage >= 3 => formattedFrom = "this")
  /\ child = "ok" =>
       (stage = 1 => alertsFrom = "this") /\ (stage = 2 => formattedFrom = "this")

(* Each stage adds at most one unit between two heartbeats; a stage that is *)
(* killed begins from a heartbeat, adds two and ends the cycle.             *)
BeatInv ==
  /\ beat \in 0..3
  /\ command = "once" => loopPc # "pause" /\ (loopPc = "top" => beat = 0)
  /\ loopPc \in {"check", "spawn", "assign", "wait"} => beat < stage
  /\ loopPc = "grace" => beat = 0 \/ (beat = 1 /\ child = "failed")

LoopInv == Places /\ FreshInv /\ BeatInv

LEMMA StagesAre ==
  /\ Len(Stages) = 3
  /\ Stages[1] = "scrape" /\ Stages[2] = "analyze" /\ Stages[3] = "notify"
BY DEF Stages

LEMMA InitLoop == LoopInit => LoopInv
BY StagesAre DEF LoopInit, LoopInv, Places, FreshInv, BeatInv, Running

LEMMA StepLoop == LoopInv /\ [LoopNext]_loopVars => LoopInv'
<1> SUFFICES ASSUME LoopInv, [LoopNext]_loopVars PROVE LoopInv'
  OBVIOUS
<1> USE StagesAre DEF LoopInv, Places, FreshInv, BeatInv, Running
<1>1. CASE StartCycle
  BY <1>1 DEF StartCycle, process, handoffs, Outdated
<1>2. CASE Check
  BY <1>2 DEF Check, process, handoffs, AfterCycle
<1>3. CASE SkipNotify
  BY <1>3 DEF SkipNotify, process, handoffs
<1>4. CASE Spawn
  BY <1>4 DEF Spawn, handoffs
<1>5. CASE Assign
  BY <1>5 DEF Assign, handoffs
<1>6. CASE Reap
  <2>1. CASE child = "ok"
    BY <1>6, <2>1 DEF Reap, handoffs
  <2>2. CASE child = "failed"
    BY <1>6, <2>2 DEF Reap, handoffs, AfterCycle
  <2>3. QED
    BY <1>6, <2>1, <2>2 DEF Reap
<1>7. CASE WaitExpires
  BY <1>7 DEF WaitExpires, handoffs
<1>8. CASE GraceExpires
  BY <1>8 DEF GraceExpires, flow, handoffs
<1>9. CASE Pause
  BY <1>9 DEF Pause, process, handoffs
<1>10. CASE ChildEnds
  <2>1. CASE stage = 1
    BY <1>10, <2>1 DEF ChildEnds, Output, flow, handoffs
  <2>2. CASE stage = 2
    BY <1>10, <2>2 DEF ChildEnds, Output, flow, handoffs
  <2>3. CASE stage = 3
    BY <1>10, <2>3 DEF ChildEnds, Output, flow, handoffs
  <2>4. stage \in 1..3
    BY <1>10 DEF ChildEnds
  <2>5. QED
    BY <2>1, <2>2, <2>3, <2>4
<1>11. CASE RequestStop
  BY <1>11 DEF RequestStop, flow, handoffs
<1>12. CASE KillContainer
  BY <1>12 DEF KillContainer, handoffs
<1>13. CASE Restart
  BY <1>13 DEF Restart, handoffs
<1>14. CASE UNCHANGED loopVars
  BY <1>14 DEF loopVars, flow, process, handoffs
<1>15. QED
  BY <1>1, <1>2, <1>3, <1>4, <1>5, <1>6, <1>7, <1>8, <1>9, <1>10, <1>11,
     <1>12, <1>13, <1>14 DEF LoopNext, Loop

(* The flags, which no step of the proof above asks for.                    *)
Flags == handle \in BOOLEAN /\ stop \in BOOLEAN /\ termed \in BOOLEAN

LEMMA StepFlags == Flags /\ [LoopNext]_loopVars => Flags'
<1> SUFFICES ASSUME Flags, [LoopNext]_loopVars PROVE Flags'
  OBVIOUS
<1>1. handle' \in {handle, TRUE, FALSE}
  BY Zenon DEF LoopNext, Loop, StartCycle, Check, SkipNotify, Spawn, Assign, Reap, WaitExpires,
     GraceExpires, Pause, ChildEnds, RequestStop, KillContainer, Restart, loopVars, process
<1>2. stop' \in {stop, TRUE, FALSE}
  BY Zenon DEF LoopNext, Loop, StartCycle, Check, SkipNotify, Spawn, Assign, Reap, WaitExpires,
     GraceExpires, Pause, ChildEnds, RequestStop, KillContainer, Restart, loopVars
<1>3. termed' \in {termed, TRUE, FALSE, termed \/ (handle /\ child = "running")}
  BY Zenon DEF LoopNext, Loop, StartCycle, Check, SkipNotify, Spawn, Assign, Reap, WaitExpires,
     GraceExpires, Pause, ChildEnds, RequestStop, KillContainer, Restart, loopVars, process
<1>4. QED
  BY <1>1, <1>2, <1>3, Zenon DEF Flags

LEMMA LoopAlways == LoopSpec => []LoopInv
BY InitLoop, StepLoop, PTL DEF LoopSpec

(* notify delivers what this cycle's scrape found, whichever stages fail,   *)
(* hang or are killed, and wherever a signal or a restart falls.            *)
THEOREM CyclesAreFresh == LoopSpec => []NotifyReadsThisCycle
<1>1. LoopInv => NotifyReadsThisCycle
  BY StagesAre DEF LoopInv, Places, FreshInv, Running, NotifyReadsThisCycle
<1>2. QED
  BY <1>1, LoopAlways, PTL

(* The heartbeat of a living loop is never older than three units, so that  *)
(* Docker does not restart it, for every limit and pause.                   *)
THEOREM HeartbeatsHold ==
  ASSUME MaxAge \in Nat, 3 <= MaxAge
  PROVE  LoopSpec => []AlwaysHealthy
<1>1. LoopInv => AlwaysHealthy
  BY DEF LoopInv, BeatInv, AlwaysHealthy
<1>2. QED
  BY <1>1, LoopAlways, PTL

(* Every variable of the loop keeps its type. *)
THEOREM LoopTypes == LoopSpec => []LoopTypeOK
<1>1. LoopInit => Flags
  BY Zenon DEF LoopInit, Flags
<1>2. LoopInv /\ Flags => LoopTypeOK
  <2> SUFFICES ASSUME LoopInv, Flags PROVE LoopTypeOK
    OBVIOUS
  <2>1. stage \in 1..(Len(Stages) + 1) /\ beat \in Nat
    BY StagesAre DEF LoopInv, Places, BeatInv
  <2>2. loopPc \in {"top", "check", "spawn", "assign", "wait", "grace", "pause", "exited", "down"}
    BY DEF LoopInv, Places, Running
  <2>3. QED
    BY <2>1, <2>2, Zenon DEF LoopInv, Places, Flags, LoopTypeOK
<1>3. QED
  BY <1>1, <1>2, StepFlags, LoopAlways, PTL DEF LoopSpec

----------------------------------------------------------------------------
(* PeakDispatch. *)

Runs ==
  [age : 0..(Lookback + 1), by : {"cron", "oddHours", "dispatch"},
   state : States, missed : 0..MaxRuns]

Settled(r) == r.state \in {"skipped", "cancelled"}

(* A run of this age did not begin early after r.                           *)
Late(r, age) == Settled(r) \/ r.age - age >= Shortest \/ r.age > Lookback

(* Runs are listed by age; each dispatched one is late for those listed     *)
(* when the dispatcher looked; the first n are late for a run of now.       *)
ByAge(s) == \A i, j \in DOMAIN s : i <= j => s[i].age >= s[j].age
Apart(s) ==
  \A i, j \in DOMAIN s : i < j - s[j].missed /\ s[j].by = "dispatch" => Late(s[i], s[j].age)
Ready(s, n) == \A i \in 1..n : Late(s[i], 0)

DispatchInv ==
  /\ window \in Windows /\ turn \in {"before", "decided", "over"}
  /\ runs \in Seq(Runs) /\ Len(runs) <= MaxRuns
  /\ looked \in 0..Len(runs) /\ (turn # "decided" => looked = 0)
  /\ ByAge(runs) /\ Apart(runs)
  /\ turn = "decided" => Ready(runs, looked)

LEMMA InitDispatch == DispatchInit => DispatchInv
<1> SUFFICES ASSUME DispatchInit PROVE DispatchInv
  OBVIOUS
<1>1a. runs = <<>>
  BY DEF DispatchInit
<1>1. runs \in Seq(Runs) /\ Len(runs) = 0 /\ DOMAIN runs = {}
  BY <1>1a, EmptySeq, LenProperties
<1>2. window \in Windows /\ turn = "before" /\ looked = 0
  BY DEF DispatchInit
<1>3. ByAge(runs) /\ Apart(runs)
  BY <1>1 DEF ByAge, Apart
<1>4. QED
  BY <1>1, <1>2, <1>3, DispatchAssumption DEF DispatchInv

(* Of a nonempty set of places the last.                                    *)
LEMMA LastPlace ==
  ASSUME NEW n \in Nat, NEW S \in SUBSET (1..n), S # {}
  PROVE  \E m \in S : \A k \in S : k <= m
<1> DEFINE T == {n - k : k \in S}
<1>1. T \in SUBSET Nat
  <2>1. ASSUME NEW k \in S PROVE n - k \in Nat
    BY <2>1
  <2>2. QED
    BY <2>1
<1>1a. T # {}
  OBVIOUS
<1>2. PICK d \in T : \A k \in T : <<k, d>> \notin OpToRel(<, Nat)
  BY <1>1, <1>1a, WFMin, NatLessThanWellFounded, Zenon
<1>3. \A k \in T : ~(k < d)
  BY <1>1, <1>2, Zenon DEF OpToRel
<1>4. PICK m \in S : d = n - m
  BY <1>2
<1>5. ASSUME NEW k \in S PROVE k <= m
  <2>1. ~(n - k < n - m)
    BY <1>3, <1>4
  <2>2. QED
    BY <2>1
<1>6. QED
  BY <1>5

LEMMA RunFields ==
  ASSUME NEW r \in Runs
  PROVE  r.age \in Nat /\ r.age <= Lookback + 1 /\ r.missed \in Nat /\ r.state \in States
<1>1. \E a \in 0..(Lookback + 1), b \in {"cron", "oddHours", "dispatch"}, st \in States,
           m \in 0..MaxRuns : r = [age |-> a, by |-> b, state |-> st, missed |-> m]
  BY DEF Runs
<1>2. PICK a \in 0..(Lookback + 1), b \in {"cron", "oddHours", "dispatch"}, st \in States,
           m \in 0..MaxRuns : r = [age |-> a, by |-> b, state |-> st, missed |-> m]
  BY <1>1
<1>3. r.age = a /\ r.missed = m /\ r.state = st
  BY <1>2
<1>4. Lookback \in Nat /\ MaxRuns \in Nat
  BY DispatchAssumption
<1>5. a \in Nat /\ a <= Lookback + 1 /\ m \in Nat
  BY <1>4
<1>6. QED
  BY <1>3, <1>5

(* Runs may change their state, and none leaves a settled one.              *)
SameButState(s, t) ==
  \A i \in 1..Len(s) :
    /\ t[i].age = s[i].age /\ t[i].by = s[i].by /\ t[i].missed = s[i].missed
    /\ Settled(s[i]) => Settled(t[i])

LEMMA MovedRuns ==
  ASSUME NEW s \in Seq(Runs), NEW t \in Seq(Runs), Len(t) = Len(s), SameButState(s, t),
         ByAge(s), Apart(s)
  PROVE  /\ ByAge(t) /\ Apart(t)
         /\ \A n \in 0..Len(s) : Ready(s, n) => Ready(t, n)
<1>1. DOMAIN s = 1..Len(s) /\ DOMAIN t = 1..Len(s)
  OBVIOUS
<1>2. \A i \in 1..Len(s) : \A age : Late(s[i], age) => Late(t[i], age)
  BY DEF Late, SameButState
<1>3. QED
  BY <1>1, <1>2 DEF SameButState, ByAge, Apart, Ready

(* A new run comes last; a dispatched one when those it was decided on are  *)
(* late for it.                                                             *)
LEMMA NewRuns ==
  ASSUME NEW s \in Seq(Runs), NEW r \in Runs, r.age = 0, ByAge(s), Apart(s),
         r.by = "dispatch" => \A i \in 1..Len(s) : i <= Len(s) - r.missed => Late(s[i], 0)
  PROVE  /\ Append(s, r) \in Seq(Runs) /\ Len(Append(s, r)) = Len(s) + 1
         /\ ByAge(Append(s, r)) /\ Apart(Append(s, r))
         /\ \A n \in 0..Len(s) : Ready(s, n) => Ready(Append(s, r), n)
<1> DEFINE t == Append(s, r)
<1>1. t \in Seq(Runs) /\ Len(t) = Len(s) + 1 /\ t[Len(s) + 1] = r
      /\ DOMAIN t = 1..(Len(s) + 1)
  OBVIOUS
<1>2. \A i \in 1..Len(s) : t[i] = s[i] /\ i \in DOMAIN s
  OBVIOUS
<1>3. ASSUME NEW i \in 1..(Len(s) + 1) PROVE t[i].age \in Nat /\ t[i].missed \in Nat
  <2>1. t[i] \in Runs
    BY <1>1
  <2>2. QED
    BY <2>1, RunFields
<1> HIDE DEF t
<1>4. ByAge(t)
  <2> SUFFICES ASSUME NEW i \in 1..(Len(s) + 1), NEW j \in 1..(Len(s) + 1), i <= j
               PROVE  t[i].age >= t[j].age
    BY <1>1 DEF ByAge
  <2>1. CASE j = Len(s) + 1
    BY <2>1, <1>1, <1>3
  <2>2. CASE j \in 1..Len(s)
    <3>1. i \in 1..Len(s)
      BY <2>2
    <3>2. QED
      BY <2>2, <3>1, <1>2 DEF ByAge
  <2>3. QED
    BY <2>1, <2>2
<1>5. Apart(t)
  <2> SUFFICES ASSUME NEW i \in 1..(Len(s) + 1), NEW j \in 1..(Len(s) + 1),
                      i < j - t[j].missed, t[j].by = "dispatch"
               PROVE  Late(t[i], t[j].age)
    BY <1>1 DEF Apart
  <2>0. i < j /\ i \in 1..Len(s)
    BY <1>3
  <2>1. CASE j = Len(s) + 1
    BY <2>0, <2>1, <1>1, <1>2, <1>3
  <2>2. CASE j \in 1..Len(s)
    BY <2>0, <2>2, <1>2 DEF Apart
  <2>3. QED
    BY <2>1, <2>2
<1>6. ASSUME NEW n \in 0..Len(s), Ready(s, n) PROVE Ready(t, n)
  BY <1>2, <1>6 DEF Ready
<1>7. QED
  BY <1>1, <1>4, <1>5, <1>6 DEF t

(* Started: those that wait are cancelled and the new run comes last.       *)
LEMMA StartedRuns ==
  ASSUME DispatchInv, NEW r \in Runs, r.age = 0,
         r.by = "dispatch" => \A i \in 1..Len(runs) : i <= Len(runs) - r.missed => Late(runs[i], 0)
  PROVE  /\ Started(r) \in Seq(Runs) /\ Len(Started(r)) = Len(runs) + 1
         /\ ByAge(Started(r)) /\ Apart(Started(r))
         /\ \A n \in 0..Len(runs) : Ready(runs, n) => Ready(Started(r), n)
<1> DEFINE t == [i \in DOMAIN runs |-> IF runs[i].state = "queued"
                   THEN [runs[i] EXCEPT !.state = "cancelled"] ELSE runs[i]]
<1>1. runs \in Seq(Runs) /\ ByAge(runs) /\ Apart(runs) /\ DOMAIN runs = 1..Len(runs)
  <2>1. runs \in Seq(Runs) /\ ByAge(runs) /\ Apart(runs)
    BY DEF DispatchInv
  <2>2. QED
    BY <2>1
<1>2. \A i \in 1..Len(runs) : runs[i] \in Runs
  BY <1>1
<1>3. \A i \in 1..Len(runs) :
        t[i] = IF runs[i].state = "queued" THEN [runs[i] EXCEPT !.state = "cancelled"] ELSE runs[i]
  BY <1>1
<1>4. t \in Seq(Runs) /\ Len(t) = Len(runs)
  <2>1. ASSUME NEW i \in 1..Len(runs) PROVE t[i] \in Runs
    <3>1. runs[i] \in Runs /\ "cancelled" \in States
      BY <1>2 DEF States
    <3>2. [runs[i] EXCEPT !.state = "cancelled"] \in Runs
      BY <3>1 DEF Runs
    <3>3. QED
      BY <1>3, <3>1, <3>2
  <2>2. DOMAIN t = 1..Len(runs) /\ Len(runs) \in Nat
    BY <1>1
  <2> HIDE DEF t
  <2>3. t = [i \in 1..Len(runs) |-> t[i]]
    BY <2>2, <1>1 DEF t
  <2>4. t \in [1..Len(runs) -> Runs]
    BY <2>1, <2>3
  <2>5. QED
    BY <2>2, <2>4
<1> HIDE DEF t
<1>5. SameButState(runs, t)
  <2> SUFFICES ASSUME NEW i \in 1..Len(runs)
               PROVE  /\ t[i].age = runs[i].age /\ t[i].by = runs[i].by
                      /\ t[i].missed = runs[i].missed
                      /\ Settled(runs[i]) => Settled(t[i])
    BY DEF SameButState
  <2>1. runs[i] \in Runs
    BY <1>2
  <2>2. QED
    BY <2>1, <1>3 DEF Runs, Settled
<1>6. /\ ByAge(t) /\ Apart(t)
      /\ \A n \in 0..Len(runs) : Ready(runs, n) => Ready(t, n)
  BY <1>1, <1>4, <1>5, MovedRuns
<1>7. r.by = "dispatch" => \A i \in 1..Len(t) : i <= Len(t) - r.missed => Late(t[i], 0)
  BY <1>4, <1>5 DEF Late, SameButState
<1>8. /\ Append(t, r) \in Seq(Runs) /\ Len(Append(t, r)) = Len(t) + 1
      /\ ByAge(Append(t, r)) /\ Apart(Append(t, r))
      /\ \A n \in 0..Len(t) : Ready(t, n) => Ready(Append(t, r), n)
  BY <1>4, <1>6, <1>7, NewRuns
<1>9. Started(r) = Append(t, r)
  BY DEF Started, t
<1>10. QED
  BY <1>4, <1>6, <1>8, <1>9

(* Advance: all runs grow older together, and the first n are forgotten.    *)
LEMMA AgedRuns ==
  ASSUME DispatchInv
  PROVE  Aged \in Seq(Runs) /\ Len(Aged) = Len(runs) /\ ByAge(Aged) /\ Apart(Aged)
<1>1. runs \in Seq(Runs) /\ ByAge(runs) /\ Apart(runs)
  BY DEF DispatchInv
<1>2. DOMAIN runs = 1..Len(runs) /\ Len(runs) \in Nat
  BY <1>1
<1>3. Lookback \in Nat
  BY DispatchAssumption
<1>4. \A i \in 1..Len(runs) : runs[i] \in Runs
  BY <1>1
<1>5. \A i \in 1..Len(runs) : runs[i].age \in Nat /\ runs[i].age <= Lookback + 1 /\ runs[i].missed \in Nat
  BY <1>4, RunFields
<1>6. ASSUME NEW i \in 1..Len(runs)
      PROVE  /\ Older(runs[i]) \in Runs
             /\ Older(runs[i]).by = runs[i].by /\ Older(runs[i]).missed = runs[i].missed
             /\ Settled(Older(runs[i])) <=> Settled(runs[i])
             /\ Older(runs[i]).age = IF runs[i].age > Lookback THEN runs[i].age ELSE runs[i].age + 1
  <2>1. CASE runs[i].age > Lookback
    <3>1. Older(runs[i]) = runs[i]
      BY <2>1 DEF Older
    <3>2. QED
      BY <2>1, <3>1, <1>4
  <2>2. CASE ~(runs[i].age > Lookback)
    <3>1. Older(runs[i]) = [runs[i] EXCEPT !.age = @ + 1]
      BY <2>2 DEF Older
    <3>2. runs[i] \in Runs /\ runs[i].age + 1 \in 0..(Lookback + 1)
      BY <2>2, <1>3, <1>4, <1>5
    <3>3. [runs[i] EXCEPT !.age = @ + 1] \in Runs
      BY <3>2 DEF Runs
    <3>4. QED
      BY <2>2, <3>1, <3>2, <3>3 DEF Runs, Settled
  <2>3. QED
    BY <2>1, <2>2
<1>7. DOMAIN Aged = 1..Len(runs) /\ \A i \in 1..Len(runs) : Aged[i] = Older(runs[i])
  BY <1>2 DEF Aged
<1>8. Aged \in Seq(Runs) /\ Len(Aged) = Len(runs)
  <2>1. Aged = [i \in 1..Len(runs) |-> Aged[i]]
    BY <1>2 DEF Aged
  <2>2. Aged \in [1..Len(runs) -> Runs]
    BY <1>6, <1>7, <2>1
  <2>3. QED
    BY <1>2, <1>7, <2>2
<1>9. ByAge(Aged)
  <2> SUFFICES ASSUME NEW i \in 1..Len(runs), NEW j \in 1..Len(runs), i <= j
               PROVE  Aged[i].age >= Aged[j].age
    BY <1>7 DEF ByAge
  <2>1. runs[i].age >= runs[j].age
    BY <1>1, <1>2 DEF ByAge
  <2>2. Aged[i].age = (IF runs[i].age > Lookback THEN runs[i].age ELSE runs[i].age + 1)
        /\ Aged[j].age = (IF runs[j].age > Lookback THEN runs[j].age ELSE runs[j].age + 1)
    BY <1>6, <1>7
  <2>3. QED
    BY <2>1, <2>2, <1>3, <1>5
<1>10. Apart(Aged)
  <2> SUFFICES ASSUME NEW i \in 1..Len(runs), NEW j \in 1..Len(runs),
                      i < j - Aged[j].missed, Aged[j].by = "dispatch"
               PROVE  Late(Aged[i], Aged[j].age)
    BY <1>7 DEF Apart
  <2>0. Aged[j].missed = runs[j].missed /\ Aged[j].by = runs[j].by /\ runs[j].missed \in Nat
    BY <1>5, <1>6, <1>7
  <2>1. Late(runs[i], runs[j].age) /\ i <= j
    BY <2>0, <1>1, <1>2 DEF Apart
  <2>2. runs[i].age >= runs[j].age
    BY <2>1, <1>1, <1>2 DEF ByAge
  <2>3. Aged[i].age = (IF runs[i].age > Lookback THEN runs[i].age ELSE runs[i].age + 1)
        /\ Aged[j].age = (IF runs[j].age > Lookback THEN runs[j].age ELSE runs[j].age + 1)
        /\ (Settled(Aged[i]) <=> Settled(runs[i]))
    BY <1>6, <1>7
  <2>4. CASE Settled(runs[i])
    BY <2>3, <2>4 DEF Late
  <2>5. CASE runs[i].age > Lookback
    BY <2>3, <2>5 DEF Late
  <2>6. CASE ~(runs[i].age > Lookback) /\ runs[i].age - runs[j].age >= Shortest
    <3>1. Aged[i].age = runs[i].age + 1 /\ Aged[j].age = runs[j].age + 1
      BY <2>2, <2>3, <2>6, <1>3, <1>5
    <3>2. Aged[i].age - Aged[j].age = runs[i].age - runs[j].age
      BY <3>1, <1>5
    <3>3. QED
      BY <2>6, <3>2 DEF Late
  <2>7. QED
    BY <2>1, <2>4, <2>5, <2>6 DEF Late
<1>11. QED
  BY <1>8, <1>9, <1>10

LEMMA RestOfRuns ==
  ASSUME NEW s \in Seq(Runs), ByAge(s), Apart(s), NEW n \in 0..Len(s)
  PROVE  LET t == SubSeq(s, n + 1, Len(s))
         IN  t \in Seq(Runs) /\ Len(t) = Len(s) - n /\ ByAge(t) /\ Apart(t)
<1> DEFINE t == SubSeq(s, n + 1, Len(s))
<1>1. \A i \in (n + 1)..Len(s) : s[i] \in Runs
  OBVIOUS
<1>2. t \in Seq(Runs) /\ Len(t) = Len(s) - n /\ DOMAIN t = 1..(Len(s) - n)
      /\ \A i \in 1..(Len(s) - n) : t[i] = s[n + i]
  OBVIOUS
<1> HIDE DEF t
<1>3. DOMAIN s = 1..Len(s) /\ \A i \in 1..(Len(s) - n) : n + i \in 1..Len(s)
  OBVIOUS
<1>4. ByAge(t)
  <2> SUFFICES ASSUME NEW i \in 1..(Len(s) - n), NEW j \in 1..(Len(s) - n), i <= j
               PROVE  t[i].age >= t[j].age
    BY <1>2 DEF ByAge
  <2>1. s[n + i].age >= s[n + j].age
    BY <1>3 DEF ByAge
  <2>2. QED
    BY <2>1, <1>2
<1>5. Apart(t)
  <2> SUFFICES ASSUME NEW i \in 1..(Len(s) - n), NEW j \in 1..(Len(s) - n),
                      i < j - t[j].missed, t[j].by = "dispatch"
               PROVE  Late(t[i], t[j].age)
    BY <1>2 DEF Apart
  <2>1. t[j] = s[n + j] /\ t[i] = s[n + i] /\ n + j \in 1..Len(s) /\ n + i \in 1..Len(s)
    BY <1>2, <1>3
  <2>2. t[j].missed \in Nat
    <3>1. s[n + j] \in Runs
      BY <2>1
    <3>2. QED
      BY <2>1, <3>1, RunFields
  <2>3. n + i < (n + j) - s[n + j].missed
    BY <2>1, <2>2
  <2>4. QED
    BY <2>1, <2>3, <1>3 DEF Apart
<1>6. QED
  BY <1>2, <1>4, <1>5 DEF t

(* Evaluate: nothing fresh is under way and the newest scrape is old        *)
(* enough, and so are those before it.                                      *)
LEMMA DecidedRuns ==
  ASSUME DispatchInv, Applies, ~UnderWay, ScrapeDue
  PROVE  Ready(runs, Len(runs))
<1>1. runs \in Seq(Runs) /\ ByAge(runs) /\ window \in Windows
  BY DEF DispatchInv
<1>2. DOMAIN runs = 1..Len(runs) /\ Len(runs) \in Nat
  BY <1>1
<1>3. WindowDue \in Nat /\ BaselineDue \in Nat /\ StaleRun \in Nat /\ Lookback \in Nat
  BY DispatchAssumption
<1>4. /\ Needed >= Shortest /\ Needed \in Nat
      /\ Shortest \in Nat /\ Shortest <= StaleRun
  BY <1>3, DispatchAssumption DEF Needed, Applies, Shortest
<1>5. \A i \in 1..Len(runs) : runs[i].age \in Nat /\ runs[i].state \in States
  BY <1>1, RunFields
<1> SUFFICES ASSUME NEW i \in 1..Len(runs) PROVE Late(runs[i], 0)
  BY DEF Ready
<1>6. CASE Unfinished(runs[i])
  <2>1. runs[i].age > StaleRun
    BY <1>2, <1>3, <1>5, <1>6 DEF UnderWay
  <2>2. QED
    BY <2>1, <1>3, <1>4, <1>5 DEF Late
<1>7. CASE i \in Scrapes
  <2>1. Scrapes \in SUBSET (1..Len(runs)) /\ Scrapes # {}
    BY <1>2, <1>7 DEF Scrapes
  <2>2. PICK m \in Scrapes : \A k \in Scrapes : k <= m
    BY <2>1, <1>2, LastPlace
  <2>3. runs[m].age >= Needed
    BY <2>2 DEF ScrapeDue
  <2>4. runs[i].age >= runs[m].age
    BY <2>1, <2>2, <1>1, <1>2, <1>7 DEF ByAge
  <2>5. runs[m].age \in Nat
    BY <2>1, <2>2, <1>5
  <2>6. QED
    BY <2>3, <2>4, <2>5, <1>4, <1>5 DEF Late
<1>8. CASE ~Unfinished(runs[i]) /\ i \notin Scrapes
  <2>1. Settled(runs[i]) \/ runs[i].state = "scraped"
    BY <1>5, <1>8 DEF Unfinished, Settled, States
  <2>2. runs[i].state = "scraped" => runs[i].age > Lookback
    BY <1>2, <1>3, <1>5, <1>8 DEF Scrapes
  <2>3. QED
    BY <2>1, <2>2 DEF Late
<1>9. QED
  BY <1>6, <1>7, <1>8

(* Proceed, Gate and Finish: one run moves on.                              *)
LEMMA OneRunMoves ==
  ASSUME DispatchInv, NEW i \in DOMAIN runs, NEW to \in States,
         runs[i].state \notin {"skipped", "cancelled"},
         runs' = [runs EXCEPT ![i].state = to], UNCHANGED <<window, dispatcher>>
  PROVE  DispatchInv'
<1>1. runs \in Seq(Runs) /\ ByAge(runs) /\ Apart(runs)
  BY DEF DispatchInv
<1>2. DOMAIN runs = 1..Len(runs) /\ Len(runs) \in Nat /\ i \in 1..Len(runs) /\ runs[i] \in Runs
  BY <1>1
<1>3. [runs[i] EXCEPT !.state = to] \in Runs
  BY <1>2 DEF Runs
<1>4. runs' = [runs EXCEPT ![i] = [runs[i] EXCEPT !.state = to]]
  OBVIOUS
<1>5. runs' \in Seq(Runs) /\ Len(runs') = Len(runs)
      /\ \A j \in 1..Len(runs) :
           runs'[j] = IF j = i THEN [runs[i] EXCEPT !.state = to] ELSE runs[j]
  BY <1>1, <1>2, <1>3, <1>4, ExceptSeq
<1>6. SameButState(runs, runs')
  <2> SUFFICES ASSUME NEW j \in 1..Len(runs)
               PROVE  /\ runs'[j].age = runs[j].age /\ runs'[j].by = runs[j].by
                      /\ runs'[j].missed = runs[j].missed
                      /\ Settled(runs[j]) => Settled(runs'[j])
    BY DEF SameButState
  <2>1. CASE j = i
    <3>1. runs'[j] = [runs[j] EXCEPT !.state = to] /\ ~Settled(runs[j])
      BY <2>1, <1>5 DEF Settled
    <3>2. QED
      BY <2>1, <3>1, <1>2 DEF Runs
  <2>2. CASE j # i
    <3>1. runs'[j] = runs[j]
      BY <2>2, <1>5
    <3>2. QED
      BY <3>1
  <2>3. QED
    BY <2>1, <2>2
<1>7. /\ ByAge(runs') /\ Apart(runs')
      /\ \A n \in 0..Len(runs) : Ready(runs, n) => Ready(runs', n)
  <2>1. runs' \in Seq(Runs) /\ Len(runs') = Len(runs)
    BY <1>5
  <2>2. QED
    BY <1>1, <1>6, <2>1, MovedRuns
<1>8. window' = window /\ turn' = turn /\ looked' = looked
  BY DEF dispatcher
<1>9. /\ window \in Windows /\ turn \in {"before", "decided", "over"} /\ Len(runs) <= MaxRuns
      /\ looked \in 0..Len(runs) /\ (turn # "decided" => looked = 0)
      /\ turn = "decided" => Ready(runs, looked)
  BY DEF DispatchInv
<1>10. turn' = "decided" => Ready(runs', looked')
  BY <1>7, <1>8, <1>9
<1>11. QED
  BY <1>5, <1>7, <1>8, <1>9, <1>10 DEF DispatchInv

LEMMA StepDispatch ==
  ASSUME DispatchInv, [DispatchNext]_dispatchVars
  PROVE  DispatchInv'
<1>1. runs \in Seq(Runs) /\ ByAge(runs) /\ Apart(runs) /\ Len(runs) <= MaxRuns
  BY DEF DispatchInv
<1>2. DOMAIN runs = 1..Len(runs) /\ Len(runs) \in Nat /\ MaxRuns \in Nat /\ Lookback \in Nat
  BY <1>1, DispatchAssumption
<1>3. /\ window \in Windows /\ turn \in {"before", "decided", "over"}
      /\ looked \in 0..Len(runs) /\ (turn # "decided" => looked = 0)
      /\ turn = "decided" => Ready(runs, looked)
  BY DEF DispatchInv
<1>4. CASE \E by \in {"cron", "oddHours"} : Cron(by)
  <2>1. PICK by \in {"cron", "oddHours"} : Cron(by)
    BY <1>4
  <2>2. Len(runs) < MaxRuns /\ runs' = Started(NewRun(by, 0))
        /\ window' = window /\ turn' = turn /\ looked' = looked
    BY <2>1 DEF Cron, dispatcher
  <2> DEFINE r == NewRun(by, 0)
  <2>3. r = [age |-> 0, by |-> by, state |-> "queued", missed |-> 0]
    BY DEF NewRun
  <2>4. r \in Runs /\ r.age = 0 /\ r.by # "dispatch"
    BY <2>3, <1>2 DEF Runs, States
  <2> HIDE DEF r
  <2>5. /\ Started(r) \in Seq(Runs) /\ Len(Started(r)) = Len(runs) + 1
        /\ ByAge(Started(r)) /\ Apart(Started(r))
        /\ \A n \in 0..Len(runs) : Ready(runs, n) => Ready(Started(r), n)
    BY <2>4, StartedRuns
  <2>6. runs' = Started(r)
    BY <2>2 DEF r
  <2>7. turn' = "decided" => Ready(runs', looked')
    BY <1>3, <2>2, <2>5, <2>6
  <2>8. QED
    BY <1>2, <1>3, <2>2, <2>5, <2>6, <2>7 DEF DispatchInv
<1>5. CASE \E i \in DOMAIN runs : Proceed(i) \/ Gate(i) \/ Finish(i)
  <2>1. PICK i \in DOMAIN runs : Proceed(i) \/ Gate(i) \/ Finish(i)
    BY <1>5
  <2>2. CASE Proceed(i)
    BY <2>2, OneRunMoves DEF Proceed, States
  <2>3. CASE Gate(i)
    <3>1. PICK to \in {"skipped", "scraping"} : runs' = [runs EXCEPT ![i].state = to]
      BY <2>3 DEF Gate
    <3>2. to \in States /\ runs[i].state \notin {"skipped", "cancelled"}
      BY <2>3 DEF Gate, States
    <3>3. UNCHANGED <<window, dispatcher>>
      BY <2>3 DEF Gate
    <3>4. QED
      BY <3>1, <3>2, <3>3, OneRunMoves
  <2>4. CASE Finish(i)
    BY <2>4, OneRunMoves DEF Finish, States
  <2>5. QED
    BY <2>1, <2>2, <2>3, <2>4
<1>6. CASE Evaluate
  <2>1. turn = "before" /\ window' = window /\ runs' = runs
    BY <1>6 DEF Evaluate
  <2>2. CASE Applies /\ ~UnderWay /\ ScrapeDue /\ turn' = "decided" /\ looked' = Len(runs)
    <3>1. Ready(runs, Len(runs))
      BY <2>2, DecidedRuns
    <3>2. QED
      BY <1>1, <1>2, <1>3, <2>1, <2>2, <3>1 DEF DispatchInv
  <2>3. CASE turn' = "over" /\ UNCHANGED looked
    BY <1>1, <1>2, <1>3, <2>1, <2>3 DEF DispatchInv
  <2>4. QED
    BY <1>6, <2>2, <2>3 DEF Evaluate
<1>7. CASE Dispatch
  <2>1. turn = "decided" /\ turn' = "over" /\ looked' = 0 /\ window' = window
    BY <1>7 DEF Dispatch
  <2>2. CASE Len(runs) < MaxRuns /\ runs' = Started(NewRun("dispatch", Len(runs) - looked))
    <3> DEFINE r == NewRun("dispatch", Len(runs) - looked)
    <3>1. r = [age |-> 0, by |-> "dispatch", state |-> "queued", missed |-> Len(runs) - looked]
      BY DEF NewRun
    <3>2. Len(runs) - looked \in 0..MaxRuns
      BY <1>1, <1>2, <1>3
    <3>3. r \in Runs /\ r.age = 0 /\ r.missed = Len(runs) - looked
      BY <3>1, <3>2, <1>2 DEF Runs, States
    <3> HIDE DEF r
    <3>4. \A i \in 1..Len(runs) : i <= Len(runs) - r.missed => Late(runs[i], 0)
      BY <3>3, <2>1, <1>2, <1>3 DEF Ready
    <3>5. /\ Started(r) \in Seq(Runs) /\ Len(Started(r)) = Len(runs) + 1
          /\ ByAge(Started(r)) /\ Apart(Started(r))
      BY <3>3, <3>4, StartedRuns
    <3>6. runs' = Started(r)
      BY <2>2 DEF r
    <3>7. QED
      BY <1>2, <1>3, <2>1, <2>2, <3>5, <3>6 DEF DispatchInv
  <2>3. CASE UNCHANGED runs
    BY <1>1, <1>2, <1>3, <2>1, <2>3 DEF DispatchInv
  <2>4. QED
    BY <1>7, <2>2, <2>3 DEF Dispatch
<1>8. CASE Advance
  <2>1. turn = "over" /\ turn' = "before" /\ looked' = looked /\ window' \in Windows
    BY <1>8 DEF Advance
  <2>2. PICK n \in 0..Len(runs) : runs' = SubSeq(Aged, n + 1, Len(runs))
    BY <1>8 DEF Advance
  <2>3. Aged \in Seq(Runs) /\ Len(Aged) = Len(runs) /\ ByAge(Aged) /\ Apart(Aged)
    BY AgedRuns
  <2>4. runs' \in Seq(Runs) /\ Len(runs') = Len(runs) - n /\ ByAge(runs') /\ Apart(runs')
    BY <2>2, <2>3, RestOfRuns
  <2>5. QED
    BY <1>1, <1>2, <1>3, <2>1, <2>4 DEF DispatchInv
<1>9. CASE UNCHANGED dispatchVars
  BY <1>1, <1>3, <1>9 DEF DispatchInv, dispatchVars, dispatcher
<1>10. QED
  BY <1>4, <1>5, <1>6, <1>7, <1>8, <1>9 DEF DispatchNext

LEMMA DispatchAlways == DispatchSpec => []DispatchInv
<1>1. DispatchInv /\ [DispatchNext]_dispatchVars => DispatchInv'
  BY StepDispatch
<1>2. QED
  BY <1>1, InitDispatch, PTL DEF DispatchSpec

(* Dispatched scrapes keep their distance from every scrape before them     *)
(* that the dispatcher could see, whatever GitHub delays, drops, displaces  *)
(* or leaves hanging and whatever becomes of the window: a run counts as    *)
(* stale only after the shortest interval.                                  *)
THEOREM DispatchesAreSpaced == DispatchSpec => []Spaced
<1>1. DispatchInv => Spaced
  BY DEF DispatchInv, Apart, Late, Settled, Spaced, Scraping
<1>2. QED
  BY <1>1, DispatchAlways, PTL

(* Every variable of the dispatcher keeps its type.                         *)
THEOREM DispatchTypes == DispatchSpec => []DispatchTypeOK
<1>1. DispatchInv => DispatchTypeOK
  <2> SUFFICES ASSUME DispatchInv PROVE DispatchTypeOK
    OBVIOUS
  <2>1. ASSUME NEW i \in DOMAIN runs
        PROVE  /\ runs[i].state \in States /\ runs[i].age \in 0..(Lookback + 1)
               /\ runs[i].by \in {"cron", "oddHours", "dispatch"}
               /\ runs[i].missed \in 0..MaxRuns
    <3>1. runs[i] \in Runs
      BY <2>1 DEF DispatchInv
    <3>2. QED
      BY <3>1 DEF Runs
  <2>2. QED
    BY <2>1 DEF DispatchInv, DispatchTypeOK
<1>2. QED
  BY <1>1, DispatchAlways, PTL
============================================================================
