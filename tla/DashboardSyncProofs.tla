------------------------ MODULE DashboardSyncProofs ------------------------
(* Theorems about DashboardSync, for every number of edits, watches and     *)
(* foreign commits.                                                         *)
EXTENDS DashboardSync, TLAPS

Replaying == phase \in {"replay", "park", "push", "landed"}

(* What TypeOK needs to be inductive: somebody holds the lock exactly while *)
(* a sync runs, a replay stands on a readable document, and an entry whose  *)
(* conflict is on record is being parked for it.                            *)
LockInv == phase = "idle" <=> owner = NoServer
TipInv == Replaying => Tip(head) \in Docs
ParkInv == phase = "park" => \A e \in todo : IsNext(e) => Fate(e) \in {"conflict", "invalid"}
TypedInv == TypeOK /\ LockInv /\ TipInv /\ ParkInv

(* Every commit of the dashboard, pushed or not, is an edit of what its user *)
(* saw.                                                                      *)
ClobberInv == EditsOnly(origin) /\ EditsOnly(head) /\ EditsOnly(late)

(* Why an entry may leave the journal: the tip the replay compares with got *)
(* each value either from the origin that was fetched after the entry was   *)
(* made or from an entry this replay committed, and those stay queued until *)
(* they are on origin.                                                      *)
OneServer == \A s, t \in Servers : s = t

SinceInv == \A e \in Accepted : since[e] <= Len(origin)

QueueInv ==
  /\ phase \in {"replay", "park"} => todo \subseteq pending /\ todo \cap applied = {}
  /\ Replaying => applied \subseteq pending

SourceInv ==
  phase \in {"replay", "park"} =>
    /\ \A e \in Accepted : since[e] <= Len(head)
    /\ \A w \in Watches, e \in Accepted :
         \/ HeldSince(origin, since[e], w, Tip(head)[w])
         \/ \E f \in applied : submitted[f].wid = w /\ submitted[f].result = Tip(head)[w]

CommitInv ==
  /\ phase \in {"replay", "park", "push"} =>
       \A f \in applied, e \in Accepted :
         HeldSince(head, since[e], submitted[f].wid, submitted[f].result)
  /\ phase = "landed" =>
       \A f \in applied, e \in Accepted :
         HeldSince(origin, since[e], submitted[f].wid, submitted[f].result)

(* The record of a conflict is on disk before its entry is un-queued, and a *)
(* dismissal writes back what it read.                                      *)
RecordInv ==
  /\ phase = "park" => /\ \A s \in Servers : JournalFree(s)
                       /\ \A e \in todo : IsNext(e) => e \in conflicts
  /\ \A s \in Servers :
       removing[s] # 0 => /\ removing[s] \in conflicts
                          /\ kept[s] = conflicts \ {removing[s]}

KeepInv == SinceInv /\ QueueInv /\ SourceInv /\ CommitInv /\ RecordInv

LEMMA InitTyped == Init => TypedInv
<1> USE DashboardAssumption
<1>1. SUFFICES ASSUME Init PROVE TypedInv
  OBVIOUS
<1>2. PICK d \in Docs : origin = <<[by |-> 0, doc |-> d]>>
  BY <1>1 DEF Init
<1>3. [by |-> 0, doc |-> d] \in Commits
  BY DEF Commits
<1>4. /\ origin \in Seq(Commits) /\ head \in Seq(Commits) /\ late \in Seq(Commits)
      /\ Len(origin) > 0 /\ Len(head) > 0
  BY <1>1, <1>2, <1>3 DEF Init
<1>5. /\ submitted \in Seq(Edits) /\ Len(submitted) = 0
      /\ since \in Seq(Nat) /\ Len(since) = 0
  BY <1>1 DEF Init
<1>6. fates \in [Entries -> {"none", "conflict", "invalid"}]
  BY <1>1 DEF Init, NoFates
<1>7. TypeOK
  <2>1. /\ removing \in [Servers -> Accepted \cup {0}]
        /\ kept \in [Servers -> SUBSET Accepted]
    BY <1>1 DEF Init
  <2>2. /\ owner \in Servers \cup {NoServer} /\ phase \in Phases
        /\ outcome \in States /\ attempt \in 0..MaxAttempts
    <3>1. owner = NoServer /\ phase = "idle" /\ outcome = "pushed" /\ attempt = 0
      BY <1>1 DEF Init
    <3>2. QED
      BY <3>1 DEF Phases, States
  <2>6. dirty \in BOOLEAN
    BY <1>1 DEF Init
  <2>3. /\ pending = {} /\ conflicts = {} /\ dismissed = {} /\ todo = {} /\ applied = {}
        /\ blocked = {} /\ focus = 0
    BY <1>1 DEF Init
  <2>4. /\ pending \subseteq Accepted /\ conflicts \subseteq Accepted
        /\ dismissed \subseteq Accepted /\ todo \subseteq Accepted
        /\ applied \subseteq Accepted /\ blocked \subseteq Watches
        /\ focus \in Accepted \cup {0} /\ Len(submitted) <= MaxEdits
    BY <1>5, <2>3
  <2>7. QED
    BY <1>4, <1>5, <1>6, <2>1, <2>2, <2>4, <2>6 DEF TypeOK
<1>8. QED
  BY <1>1, <1>7 DEF Init, TypedInv, LockInv, TipInv, ParkInv, Replaying

(* A commit the replay appends is a commit.                                 *)
LEMMA WithTyped ==
  ASSUME NEW doc \in Docs, NEW op \in Edits
  PROVE  /\ With(doc, op) \in Docs
         /\ With(doc, op)[op.wid] = op.result
         /\ \A w \in Watches : w # op.wid => With(doc, op)[w] = doc[w]
BY DEF With, Docs, Edits

LEMMA StepTyped == TypedInv /\ [Next]_vars => TypeOK'
<1> USE DashboardAssumption DEF TypeOK, Accepted, Phases, States, Entries, edits
<1>1. SUFFICES ASSUME TypedInv, [Next]_vars PROVE TypeOK'
  OBVIOUS
<1>0. TypeOK /\ LockInv /\ TipInv /\ ParkInv
  BY <1>1 DEF TypedInv
<1> USE <1>0
<1>2. CASE UNCHANGED vars
  BY <1>2 DEF vars, journal, dismissal, repo, run, loop, request
<1>3. ASSUME NEW s \in Servers, NEW op \in Edits, Submit(s, op) PROVE TypeOK'
  <2>1. /\ submitted' \in Seq(Edits) /\ Len(submitted') = Len(submitted) + 1
        /\ Len(submitted') <= MaxEdits
        /\ since' \in Seq(Nat) /\ Len(since') = Len(submitted')
    BY <1>3 DEF Submit
  <2>2. /\ removing' \in [Servers -> (1..Len(submitted')) \cup {0}]
        /\ kept' \in [Servers -> SUBSET (1..Len(submitted'))]
    <3>1. \A t \in Servers : /\ removing[t] \in (1..Len(submitted')) \cup {0}
                             /\ kept[t] \in SUBSET (1..Len(submitted'))
      BY <2>1
    <3>2. QED
      BY <1>3, <3>1 DEF Submit, StartSync, LockFree, dismissal
  <2>3. blocked' \subseteq Watches /\ fates' \in [Entries -> {"none", "conflict", "invalid"}]
    BY <1>3 DEF Submit, StartSync
  <2>4. /\ pending' \subseteq 1..Len(submitted') /\ conflicts' \subseteq 1..Len(submitted')
        /\ dismissed' \subseteq 1..Len(submitted') /\ focus' \in 1..Len(submitted')
        /\ todo' \subseteq 1..Len(submitted') /\ applied' \subseteq 1..Len(submitted')
    <3>1. /\ pending' = pending \cup {Len(submitted) + 1}
          /\ conflicts' = conflicts /\ dismissed' = dismissed
          /\ focus' = Len(submitted) + 1 /\ todo' = todo /\ applied' = applied
      BY <1>3 DEF Submit, StartSync, LockFree
    <3>2. 1..Len(submitted) \subseteq 1..Len(submitted')
      BY <2>1
    <3>3. Len(submitted) + 1 \in 1..Len(submitted')
      BY <2>1
    <3>4. QED
      BY <3>1, <3>2, <3>3
  <2>5. /\ attempt' = 1 /\ phase' = "fetch" /\ owner' = s
        /\ UNCHANGED <<origin, late, head, dirty, outcome>>
    BY <1>3 DEF Submit, StartSync, LockFree, repo
  <2>6. /\ dirty' \in BOOLEAN /\ outcome' \in States /\ origin' \in Seq(Commits)
        /\ head' \in Seq(Commits) /\ late' \in Seq(Commits) /\ Len(origin') > 0 /\ Len(head') > 0
    BY <2>5
  <2>7. attempt' \in 0..MaxAttempts
    BY <2>5
  <2>8. QED
    BY <2>1, <2>2, <2>3, <2>4, <2>5, <2>6, <2>7
<1>4. ASSUME NEW s \in Servers, Retry(s) PROVE TypeOK'
  BY <1>4 DEF Retry, StartSync, LockFree, NoFates, dismissal, repo
<1>5. ASSUME NEW s \in Servers, Refresh(s) PROVE TypeOK'
  BY <1>5 DEF Refresh, journal, dismissal, run, loop, request
<1>6. ASSUME NEW s \in Servers, Step(s) PROVE TypeOK'
  <2>15. ASSUME NEW state \in States, Stop(state), submitted' = submitted
         PROVE  /\ phase' \in Phases /\ outcome' \in States
                /\ todo' \subseteq Accepted' /\ applied' \subseteq Accepted'
                /\ blocked' \subseteq Watches /\ attempt' \in 0..MaxAttempts
    BY <2>15 DEF Stop, LeaveLoop
  <2>1. CASE Fetch(s)
    <3>1. CASE Stop("invalid")
      BY <2>1, <3>1, <2>15 DEF Fetch, request, journal, dismissal
    <3>2. CASE ~Stop("invalid")
      BY <2>1, <3>2 DEF Fetch, request, journal, dismissal
    <3>3. QED
      BY <3>1, <3>2
  <2>2. CASE FetchFails(s) \/ PushFails(s)
    BY <2>2, <2>15 DEF FetchFails, PushFails, journal, dismissal, repo, request
  <2>3. ASSUME NEW e \in todo, ReplayApplies(s, e) PROVE TypeOK'
    <3>1. Tip(head) \in Docs
      BY <2>3 DEF ReplayApplies, At, TipInv, Replaying
    <3>2. With(Tip(head), submitted[e]) \in Docs
      BY <3>1, WithTyped
    <3>3. [by |-> e, doc |-> With(Tip(head), submitted[e])] \in Commits
      BY <3>2 DEF Commits
    <3>4. head' \in Seq(Commits) /\ Len(head') > 0
      BY <2>3, <3>3 DEF ReplayApplies, Committed
    <3>5. QED
      BY <2>3, <3>4 DEF ReplayApplies, journal, dismissal
  <2>4. ASSUME NEW e \in todo, ReplayDrops(s, e) PROVE TypeOK'
    BY <2>4 DEF ReplayDrops, dismissal, repo
  <2>5. ASSUME NEW e \in todo, ReplayRecords(s, e) PROVE TypeOK'
    BY <2>5 DEF ReplayRecords, dismissal, repo, run, loop, request
  <2>6. ASSUME NEW e \in todo, Unqueue(s, e) PROVE TypeOK'
    <3>1. submitted[e].wid \in Watches
      BY DEF Edits
    <3>2. Fate(e) \in {"none", "conflict", "invalid"}
      BY <2>6 DEF Unqueue, At, ParkInv
    <3>3. QED
      BY <2>6, <3>1, <3>2 DEF Unqueue, dismissal, repo
  <2>7. CASE ReplayFails(s)
    <3>1. ASSUME NEW e \in todo, phase = "replay"
          PROVE Committed(e) \in Seq(Commits) /\ Len(Committed(e)) > 0
      <4>1. Tip(head) \in Docs
        BY <3>1 DEF TipInv, Replaying
      <4>2. [by |-> e, doc |-> With(Tip(head), submitted[e])] \in Commits
        BY <4>1, WithTyped DEF Commits
      <4>3. QED
        BY <4>2 DEF Committed
    <3>2. head' \in Seq(Commits) /\ Len(head') > 0
      BY <2>7, <3>1 DEF ReplayFails, Saving
    <3>3. dirty' \in BOOLEAN
      BY <2>7 DEF ReplayFails
    <3>4. QED
      BY <2>7, <2>15, <3>2, <3>3 DEF ReplayFails, request, journal, dismissal
  <2>13. CASE ReplayDone(s)
    <3>1. CASE applied = {}
      BY <2>13, <3>1, <2>15 DEF ReplayDone, journal, dismissal, repo, request
    <3>2. CASE applied # {}
      BY <2>13, <3>2 DEF ReplayDone, journal, dismissal, repo, request, loop
    <3>3. QED
      BY <3>1, <3>2
  <2>8. CASE PushLands(s)
    BY <2>8 DEF PushLands, journal, dismissal, run, loop, request
  <2>14. CASE PushAnswerLost(s)
    <3>1. \/ origin' = head /\ late' = <<>>
          \/ late' = head /\ origin' = origin
      BY <2>14 DEF PushAnswerLost
    <3>4. <<>> \in Seq(Commits) /\ head \in Seq(Commits) /\ origin \in Seq(Commits)
      OBVIOUS
    <3>2. /\ origin' \in Seq(Commits) /\ late' \in Seq(Commits) /\ Len(origin') > 0
      <4>1. CASE origin' = head /\ late' = <<>>
        BY <3>4, <4>1
      <4>2. CASE late' = head /\ origin' = origin
        BY <3>4, <4>2
      <4>3. QED
        BY <3>1, <4>1, <4>2
    <3>3. /\ phase' \in Phases /\ outcome' \in States
          /\ todo' \subseteq Accepted' /\ applied' \subseteq Accepted'
          /\ blocked' \subseteq Watches /\ attempt' \in 0..MaxAttempts
      BY <2>14, <2>15 DEF PushAnswerLost
    <3>5. UNCHANGED <<submitted, since, pending, conflicts, dismissed, removing, kept,
                      head, dirty, owner, fates, focus>>
      BY <2>14 DEF PushAnswerLost, request, journal, dismissal
    <3>6. dirty' \in BOOLEAN /\ head' \in Seq(Commits) /\ Len(head') > 0
      BY <3>5
    <3>7. /\ fates' \in [Entries -> {"none", "conflict", "invalid"}]
          /\ focus' \in Accepted' \cup {0}
          /\ removing' \in [Servers -> Accepted' \cup {0}]
          /\ kept' \in [Servers -> SUBSET Accepted']
      BY <3>5
    <3>8. QED
      BY <3>2, <3>3, <3>5, <3>6, <3>7
  <2>9. CASE PushRejected(s)
    <3>1. attempt' \in 0..MaxAttempts
      BY <2>9, <2>15 DEF PushRejected, NextAttempt, AttemptsLeft
    <3>2. /\ phase' \in Phases /\ outcome' \in States
          /\ todo' \subseteq Accepted' /\ applied' \subseteq Accepted'
          /\ blocked' \subseteq Watches
      BY <2>9, <2>15 DEF PushRejected
    <3>3. QED
      BY <2>9, <3>1, <3>2 DEF PushRejected, journal, dismissal, repo, request
  <2>10. CASE Acknowledge(s)
    BY <2>10, <2>15 DEF Acknowledge, dismissal, repo, request
  <2>11. CASE Finish(s)
    BY <2>11 DEF Finish, EndSync, LeaveLoop, NoFates, dismissal, repo, Refused
  <2>12. QED
    BY <1>6, <2>1, <2>2, <2>3, <2>4, <2>5, <2>6, <2>7, <2>8, <2>9, <2>10, <2>11, <2>13, <2>14
       DEF Step
<1>7. ASSUME NEW s \in Servers, DismissWrite(s) PROVE TypeOK'
  BY <1>7 DEF DismissWrite, Released, JournalFree, dismissal, repo, run, loop, request
<1>8. ASSUME NEW s \in Servers, Crash(s) PROVE TypeOK'
  <2>1. dirty' \in BOOLEAN
    BY <1>8 DEF Crash
  <2>5. /\ removing' \in [Servers -> Accepted \cup {0}]
        /\ kept' \in [Servers -> SUBSET Accepted]
    BY <1>8 DEF Crash, Released, dismissal
  <2>2. CASE owner = s
    <3>1. /\ owner' = NoServer /\ phase' = "idle" /\ outcome' = "pushed"
          /\ todo' = {} /\ applied' = {} /\ blocked' = {} /\ fates' = NoFates
          /\ focus' = 0 /\ attempt' = 0
          /\ UNCHANGED <<edits, journal, dismissed, origin, late, head>>
      BY <1>8, <2>2 DEF Crash, EndSync, LeaveLoop
    <3>2. NoFates \in [Entries -> {"none", "conflict", "invalid"}]
      BY DEF NoFates
    <3>3. QED
      BY <2>1, <2>5, <3>1, <3>2 DEF journal
  <2>3. CASE owner # s
    BY <1>8, <2>1, <2>3, <2>5 DEF Crash, journal, run, loop, request
  <2>4. QED
    BY <2>2, <2>3
<1>9. ASSUME NEW s \in Servers, NEW e \in Entries, DismissRead(s, e) PROVE TypeOK'
  BY <1>9 DEF DismissRead, JournalFree, journal, repo, run, loop, request
<1>10. CASE RestoreTree \/ LatePushLands
  <2>1. <<>> \in Seq(Commits)
    OBVIOUS
  <2>2. FastForward(origin, late) => Len(late) > 0
    BY DEF FastForward
  <2>3. CASE RestoreTree
    <3>1. /\ dirty' = FALSE
          /\ UNCHANGED <<submitted, since, pending, conflicts, dismissed, removing, kept,
                         origin, late, head, owner, phase, todo, applied, blocked, fates,
                         focus, attempt, outcome>>
      BY <2>3 DEF RestoreTree, journal, dismissal, run, loop, request
    <3>2. QED
      BY <3>1
  <2>4. CASE LatePushLands
    BY <2>1, <2>2, <2>4 DEF LatePushLands, journal, dismissal, run, loop, request
  <2>5. QED
    BY <1>10, <2>3, <2>4
<1>11. ASSUME NEW doc \in Docs \cup {Broken}, OtherCommit(doc) PROVE TypeOK'
  <2>1. [by |-> 0, doc |-> doc] \in Commits
    BY DEF Commits
  <2>2. origin' \in Seq(Commits) /\ Len(origin') > 0
    BY <1>11, <2>1 DEF OtherCommit
  <2>3. late' \in Seq(Commits)
    BY <1>11 DEF OtherCommit
  <2>4. QED
    BY <1>11, <2>2, <2>3 DEF OtherCommit, journal, dismissal, run, loop, request
<1>12. QED
  BY <1>1, <1>2, <1>3, <1>4, <1>5, <1>6, <1>7, <1>8, <1>9, <1>10, <1>11 DEF Next

(* The last commit, and the rest, after an append.                          *)
LEMMA AppendTip ==
  ASSUME NEW h \in Seq(Commits), NEW c \in Commits
  PROVE  /\ Append(h, c) \in Seq(Commits)
         /\ Len(Append(h, c)) = Len(h) + 1
         /\ Tip(Append(h, c)) = c.doc
         /\ \A i \in DOMAIN h : Append(h, c)[i] = h[i]
         /\ DOMAIN Append(h, c) = DOMAIN h \cup {Len(h) + 1}
         /\ Append(h, c)[Len(h) + 1] = c
BY DEF Tip

LEMMA TipTyped ==
  ASSUME NEW h \in Seq(Commits), Len(h) > 0
  PROVE  Tip(h) \in Docs \cup {Broken}
<1>1. h[Len(h)] \in Commits
  OBVIOUS
<1>2. QED
  BY <1>1 DEF Tip, Commits

LEMMA StepLock == TypedInv /\ [Next]_vars => LockInv'
<1> USE DashboardAssumption
<1>1. SUFFICES ASSUME TypedInv, [Next]_vars PROVE LockInv'
  OBVIOUS
<1>0. LockInv
  BY <1>1 DEF TypedInv
<1> USE <1>0 DEF LockInv
<1>2. CASE UNCHANGED vars
  BY <1>2 DEF vars
<1>3. ASSUME NEW s \in Servers, NEW op \in Edits, Submit(s, op) PROVE LockInv'
  BY <1>3 DEF Submit, StartSync, LockFree
<1>4. ASSUME NEW s \in Servers, Retry(s) PROVE LockInv'
  BY <1>4 DEF Retry, StartSync, LockFree
<1>5. ASSUME NEW s \in Servers, Refresh(s) PROVE LockInv'
  BY <1>5 DEF Refresh
<1>6. ASSUME NEW s \in Servers, Step(s) PROVE LockInv'
  BY <1>6 DEF Step, Fetch, FetchFails, ReplayApplies, ReplayDrops, ReplayRecords,
     Unqueue, ReplayFails, ReplayDone, PushLands, PushAnswerLost, PushFails, PushRejected, Acknowledge, Finish, At, Stop, LeaveLoop, request, EndSync
<1>7. ASSUME NEW s \in Servers, DismissWrite(s) PROVE LockInv'
  BY <1>7 DEF DismissWrite
<1>8. ASSUME NEW s \in Servers, Crash(s) PROVE LockInv'
  BY <1>8 DEF Crash, EndSync, LeaveLoop
<1>9. ASSUME NEW s \in Servers, NEW e \in Entries, DismissRead(s, e) PROVE LockInv'
  BY <1>9 DEF DismissRead
<1>10. CASE RestoreTree \/ LatePushLands
  BY <1>10 DEF RestoreTree, LatePushLands
<1>11. ASSUME NEW doc \in Docs \cup {Broken}, OtherCommit(doc) PROVE LockInv'
  BY <1>11 DEF OtherCommit
<1>12. QED
  BY <1>1, <1>2, <1>3, <1>4, <1>5, <1>6, <1>7, <1>8, <1>9, <1>10, <1>11 DEF Next

LEMMA StepTip == TypedInv /\ [Next]_vars => TipInv'
<1> USE DashboardAssumption
<1>1. SUFFICES ASSUME TypedInv, [Next]_vars PROVE TipInv'
  OBVIOUS
<1>0. LockInv /\ TipInv /\ TypeOK
  BY <1>1 DEF TypedInv
<1>2. ASSUME UNCHANGED <<head, phase>> PROVE TipInv'
  BY <1>0, <1>2 DEF TipInv, Replaying, Tip
<1>3. ASSUME phase' \notin {"replay", "park", "push", "landed"} PROVE TipInv'
  BY <1>3 DEF TipInv, Replaying
<1>4. ASSUME head' = head, Replaying PROVE TipInv'
  BY <1>0, <1>4 DEF TipInv, Tip
<1>5. ASSUME NEW s \in Servers, Step(s) PROVE TipInv'
  <2>1. CASE Fetch(s)
    <3>1. Tip(origin) \in Docs \cup {Broken}
      BY <1>0, TipTyped DEF TypeOK
    <3>2. head' = origin /\ (Tip(origin) = Broken => phase' = "finish")
      BY <2>1 DEF Fetch, Stop, LeaveLoop, request
    <3>3. Tip(head') = Tip(origin)
      BY <3>2
    <3>4. QED
      BY <3>1, <3>2, <3>3, <1>3 DEF TipInv, Tip
  <2>2. ASSUME NEW e \in todo, ReplayApplies(s, e) PROVE TipInv'
    <3>1. Tip(head) \in Docs /\ submitted[e] \in Edits
      BY <1>0, <2>2 DEF ReplayApplies, At, TipInv, Replaying, TypeOK, Accepted
    <3>2. With(Tip(head), submitted[e]) \in Docs
      BY <3>1, WithTyped
    <3>3. [by |-> e, doc |-> With(Tip(head), submitted[e])] \in Commits
      BY <3>2, <1>0 DEF Commits, TypeOK, Accepted, Entries
    <3>4. Tip(head)' \in Docs
      BY <2>2, <3>2, <3>3, <1>0, AppendTip DEF ReplayApplies, Committed, TypeOK, Tip
    <3>5. QED
      BY <3>4 DEF TipInv
  <2>3. CASE FetchFails(s) \/ PushAnswerLost(s) \/ PushFails(s) \/ PushRejected(s) \/ ReplayFails(s)
             \/ Acknowledge(s) \/ Finish(s)
    BY <2>3, <1>3 DEF FetchFails, PushAnswerLost, PushFails, PushRejected,
       ReplayFails, Acknowledge, Finish, Stop, LeaveLoop, request, EndSync
  <2>4. CASE ReplayDone(s) \/ PushLands(s)
             \/ \E e \in todo : ReplayDrops(s, e) \/ ReplayRecords(s, e) \/ Unqueue(s, e)
    <3>1. head' = head
      BY <2>4 DEF ReplayDone, PushLands, ReplayDrops, ReplayRecords, Unqueue, repo
    <3>2. Replaying
      BY <2>4 DEF ReplayDone, PushLands, ReplayDrops, ReplayRecords, Unqueue, At,
         Replaying
    <3>3. QED
      BY <3>1, <3>2, <1>4
  <2>5. QED
    BY <1>5, <2>1, <2>2, <2>3, <2>4 DEF Step
<1>6. ASSUME NEW s \in Servers, NEW op \in Edits, Submit(s, op) PROVE TipInv'
  BY <1>6, <1>3 DEF Submit, StartSync, LockFree
<1>7. ASSUME NEW s \in Servers, Retry(s) \/ Refresh(s) \/ DismissWrite(s) \/ Crash(s) PROVE TipInv'
  <2>1. CASE Retry(s)
    BY <2>1, <1>3 DEF Retry, StartSync, LockFree
  <2>2. CASE Refresh(s)
    BY <2>2, <1>0, <1>3 DEF Refresh, LockFree, LockInv
  <2>3. CASE DismissWrite(s)
    BY <2>3, <1>2 DEF DismissWrite, repo
  <2>4. CASE Crash(s)
    BY <2>4, <1>2, <1>3 DEF Crash, EndSync, LeaveLoop
  <2>5. QED
    BY <1>7, <2>1, <2>2, <2>3, <2>4
<1>8. CASE UNCHANGED vars \/ RestoreTree \/ LatePushLands \/ (\E doc \in Docs \cup {Broken} : OtherCommit(doc))
           \/ \E s \in Servers, e \in Entries : DismissRead(s, e)
  BY <1>8, <1>2 DEF vars, RestoreTree, LatePushLands, OtherCommit, DismissRead, repo
<1>9. QED
  BY <1>1, <1>5, <1>6, <1>7, <1>8 DEF Next

(* The running sync sees the same entry next, with the same fate.           *)
LEMMA StepPark == TypedInv /\ [Next]_vars => ParkInv'
<1> USE DashboardAssumption DEF edits
<1>1. SUFFICES ASSUME TypedInv, [Next]_vars, phase' = "park"
               PROVE \A e \in todo' : IsNext(e)' => Fate(e)' \in {"conflict", "invalid"}
  BY DEF ParkInv
<1>0. LockInv /\ ParkInv /\ TypeOK
  BY <1>1 DEF TypedInv
<1>2. ASSUME UNCHANGED <<head, todo, blocked>>, \A e \in todo : submitted'[e] = submitted[e],
             \A e \in todo : IsNext(e) => Fate(e) \in {"conflict", "invalid"}
      PROVE \A e \in todo' : IsNext(e)' => Fate(e)' \in {"conflict", "invalid"}
  BY <1>2 DEF IsNext, Fate, Tip
<1>3. ASSUME NEW s \in Servers, Step(s)
      PROVE \A e \in todo' : IsNext(e)' => Fate(e)' \in {"conflict", "invalid"}
  <2>1. PICK e \in todo : ReplayRecords(s, e)
    BY <1>1, <1>3 DEF Step, Fetch, FetchFails, ReplayApplies, ReplayDrops,
       ReplayRecords, Unqueue, ReplayFails, ReplayDone, PushLands, PushAnswerLost, PushFails, PushRejected, Acknowledge, Finish, At, Stop, LeaveLoop, request, EndSync
  <2>2. \A f \in todo : IsNext(f) => f = e
    BY <2>1, <1>0 DEF ReplayRecords, IsNext, TypeOK, Accepted
  <2>3. QED
    BY <2>1, <2>2, <1>2 DEF ReplayRecords, repo, run, loop, request
<1>4. phase = "park" => \A e \in todo : IsNext(e) => Fate(e) \in {"conflict", "invalid"}
  BY <1>0 DEF ParkInv
<1>5. CASE \E s \in Servers, op \in Edits : Submit(s, op)
  BY <1>5, <1>1 DEF Submit, StartSync, LockFree
<1>6. CASE \E s \in Servers : Retry(s) \/ Refresh(s)
  BY <1>6, <1>1, <1>0 DEF Retry, Refresh, StartSync, LockFree, LockInv
<1>7. CASE \E s \in Servers : DismissWrite(s) \/ Crash(s)
  BY <1>7, <1>1, <1>2, <1>4 DEF DismissWrite, Crash, EndSync, LeaveLoop, repo, run,
     loop, request
<1>8. CASE UNCHANGED vars \/ RestoreTree \/ LatePushLands \/ (\E doc \in Docs \cup {Broken} : OtherCommit(doc))
           \/ \E s \in Servers, e \in Entries : DismissRead(s, e)
  BY <1>8, <1>1, <1>2, <1>4 DEF vars, RestoreTree, LatePushLands, OtherCommit,
     DismissRead, repo, run, loop, request
<1>9. QED
  BY <1>1, <1>3, <1>5, <1>6, <1>7, <1>8 DEF Next

LEMMA StepTypedInv == TypedInv /\ [Next]_vars => TypedInv'
BY StepTyped, StepLock, StepTip, StepPark DEF TypedInv

LEMMA AlwaysTyped == Spec => []TypedInv
BY InitTyped, StepTypedInv, PTL DEF Spec

(* Every reachable state of the dashboard has its type.                     *)
THEOREM TypeCorrect == Spec => []TypeOK
<1>1. TypedInv => TypeOK
  BY DEF TypedInv
<1>2. QED
  BY <1>1, AlwaysTyped, PTL

----------------------------------------------------------------------------
(* A journal entry never changes and never gets another number.             *)
LEMMA EntriesStay ==
  ASSUME TypeOK, [Next]_vars
  PROVE  /\ Accepted \subseteq Accepted'
         /\ \A e \in Accepted : submitted'[e] = submitted[e] /\ since'[e] = since[e]
<1>1. ASSUME NEW s \in Servers, NEW op \in Edits, Submit(s, op)
      PROVE  /\ Accepted \subseteq Accepted'
             /\ \A e \in Accepted : submitted'[e] = submitted[e] /\ since'[e] = since[e]
  BY <1>1 DEF Submit, TypeOK, Accepted
<1>2. ASSUME NEW s \in Servers, Retry(s) \/ Refresh(s) \/ DismissWrite(s) \/ Crash(s)
      PROVE  edits' = edits
  BY <1>2 DEF Retry, Refresh, DismissWrite, Crash
<1>3. ASSUME NEW s \in Servers, Step(s) PROVE edits' = edits
  BY <1>3 DEF Step, Fetch, FetchFails, ReplayApplies, ReplayDrops, ReplayRecords,
     Unqueue, ReplayFails, ReplayDone, PushLands, PushAnswerLost, PushFails, PushRejected,
     Acknowledge, Finish
<1>4. CASE UNCHANGED vars \/ RestoreTree \/ LatePushLands \/ (\E doc \in Docs \cup {Broken} : OtherCommit(doc))
           \/ \E s \in Servers, e \in Entries : DismissRead(s, e)
  <2>1. edits' = edits
    BY <1>4 DEF vars, RestoreTree, LatePushLands, OtherCommit, DismissRead
  <2>2. QED
    BY <2>1 DEF Accepted, edits
<1>5. edits' = edits => /\ Accepted' = Accepted
                        /\ UNCHANGED <<submitted, since>>
  BY DEF Accepted, edits
<1>6. QED
  BY <1>1, <1>2, <1>3, <1>4, <1>5 DEF Next

(* What a step may do to the remote branch: nothing, one foreign commit, or *)
(* become the clone's HEAD by a fast-forward.                               *)
LEMMA OriginSteps ==
  ASSUME [Next]_vars
  PROVE  \/ origin' = origin
         \/ \E doc \in Docs \cup {Broken} : origin' = Append(origin, [by |-> 0, doc |-> doc])
         \/ phase = "push" /\ FastForward(origin, head) /\ origin' = head /\ head' = head
         \/ FastForward(origin, late) /\ origin' = late
<1>1. ASSUME NEW s \in Servers, Step(s), ~PushLands(s), ~PushAnswerLost(s)
      PROVE  origin' = origin
  BY <1>1 DEF Step, Fetch, FetchFails, ReplayApplies, ReplayDrops, ReplayRecords,
     Unqueue,
     ReplayFails, ReplayDone, PushFails, PushRejected, Acknowledge, Finish, repo
<1>2. ASSUME NEW s \in Servers, PushLands(s) \/ PushAnswerLost(s)
      PROVE  \/ origin' = origin
             \/ phase = "push" /\ FastForward(origin, head) /\ origin' = head /\ head' = head
  BY <1>2 DEF PushLands, PushAnswerLost, At
<1>3. ASSUME NEW s \in Servers,
             \/ Retry(s) \/ Refresh(s) \/ DismissWrite(s) \/ Crash(s)
             \/ \E op \in Edits : Submit(s, op)
             \/ \E e \in Entries : DismissRead(s, e)
      PROVE  origin' = origin
  BY <1>3 DEF Retry, Refresh, DismissWrite, Crash, Submit, StartSync, LockFree,
     DismissRead, repo
<1>4. CASE UNCHANGED vars \/ RestoreTree
  BY <1>4 DEF vars, RestoreTree, repo
<1>5. CASE LatePushLands \/ \E doc \in Docs \cup {Broken} : OtherCommit(doc)
  BY <1>5 DEF LatePushLands, OtherCommit
<1>6. QED
  BY <1>1, <1>2, <1>3, <1>4, <1>5 DEF Next

(* ... and to the clone's HEAD.                                             *)
LEMMA HeadSteps ==
  ASSUME TypeOK, [Next]_vars
  PROVE  \/ head' = head
         \/ head' = origin /\ origin' = origin
         \/ /\ phase = "replay" /\ origin' = origin
            /\ \E e \in todo :
                 /\ Changes(e)
                 /\ head' = Committed(e)
<1>1. ASSUME NEW s \in Servers, Step(s), ~Fetch(s), ~ReplayFails(s),
             ~\E e \in todo : ReplayApplies(s, e)
      PROVE  head' = head
  BY <1>1 DEF Step, FetchFails, ReplayDrops, ReplayRecords, Unqueue, ReplayDone,
     PushLands, PushAnswerLost, PushFails, PushRejected, Acknowledge, Finish, repo
<1>2. ASSUME NEW s \in Servers, Fetch(s) \/ Refresh(s)
      PROVE  head' = origin /\ origin' = origin
  BY <1>2 DEF Fetch, Refresh
<1>3. ASSUME NEW s \in Servers, NEW e \in todo, ReplayApplies(s, e)
      PROVE  /\ phase = "replay" /\ origin' = origin /\ Changes(e)
             /\ head' = Committed(e)
  BY <1>3 DEF ReplayApplies, At
<1>7. ASSUME NEW s \in Servers, ReplayFails(s), head' # head
      PROVE  /\ phase = "replay" /\ origin' = origin
             /\ \E e \in todo : Changes(e) /\ head' = Committed(e)
  <2>1. PICK e \in todo : IsNext(e) /\ head' = Committed(e)
    BY <1>7 DEF ReplayFails
  <2>2. PICK f \in todo : phase = "replay" /\ IsNext(f) /\ Changes(f)
    BY <1>7 DEF ReplayFails, Saving
  <2>3. e = f
    BY <2>1, <2>2 DEF IsNext, TypeOK, Accepted
  <2>4. QED
    BY <1>7, <2>1, <2>2, <2>3 DEF ReplayFails
<1>4. ASSUME NEW s \in Servers,
             \/ Retry(s) \/ DismissWrite(s) \/ Crash(s)
             \/ \E op \in Edits : Submit(s, op)
             \/ \E e \in Entries : DismissRead(s, e)
      PROVE  head' = head
  BY <1>4 DEF Retry, DismissWrite, Crash, Submit, StartSync, LockFree, DismissRead, repo
<1>5. CASE UNCHANGED vars \/ RestoreTree \/ LatePushLands \/ (\E doc \in Docs \cup {Broken} : OtherCommit(doc))
  BY <1>5 DEF vars, RestoreTree, LatePushLands, OtherCommit, repo
<1>6. QED
  BY <1>1, <1>2, <1>3, <1>4, <1>5, <1>7 DEF Next

(* A push whose answer was lost is the HEAD of its time.                    *)
LEMMA LateSteps ==
  ASSUME [Next]_vars
  PROVE  late' = late \/ late' = <<>> \/ late' = head
<1>1. ASSUME NEW s \in Servers, Step(s) PROVE late' = late \/ late' = <<>> \/ late' = head
  BY <1>1 DEF Step, Fetch, FetchFails, ReplayApplies, ReplayDrops, ReplayRecords,
     Unqueue,
     ReplayFails, ReplayDone, PushLands, PushAnswerLost, PushFails, PushRejected, Acknowledge,
     Finish, repo
<1>2. ASSUME NEW s \in Servers,
             \/ Retry(s) \/ Refresh(s) \/ DismissWrite(s) \/ Crash(s)
             \/ \E op \in Edits : Submit(s, op)
             \/ \E e \in Entries : DismissRead(s, e)
      PROVE  late' = late
  BY <1>2 DEF Retry, Refresh, DismissWrite, Crash, Submit, StartSync, LockFree,
     DismissRead, repo
<1>3. CASE UNCHANGED vars \/ RestoreTree \/ LatePushLands \/ \E doc \in Docs \cup {Broken} : OtherCommit(doc)
  BY <1>3 DEF vars, RestoreTree, LatePushLands, OtherCommit, repo
<1>4. QED
  BY <1>1, <1>2, <1>3 DEF Next

LEMMA EditsStay ==
  ASSUME TypeOK, [Next]_vars, NEW h, EditsOnly(h)
  PROVE  \A i \in DOMAIN h :
           h[i].by # 0 => /\ i > 1 /\ h[i].by \in Accepted'
                          /\ IsEdit(h[i - 1].doc, h[i].doc, submitted'[h[i].by])
BY EntriesStay DEF EditsOnly

LEMMA StepClobber ==
  ASSUME TypedInv, ClobberInv, [Next]_vars
  PROVE  ClobberInv'
<1> USE DashboardAssumption
<1>0. TypeOK /\ TipInv /\ EditsOnly(origin) /\ EditsOnly(head)
  BY DEF TypedInv, ClobberInv
<1>1. ASSUME NEW h, EditsOnly(h), origin' = h PROVE EditsOnly(origin)'
  BY <1>0, <1>1, EditsStay DEF EditsOnly
<1>2. ASSUME NEW h, EditsOnly(h), head' = h PROVE EditsOnly(head)'
  BY <1>0, <1>2, EditsStay DEF EditsOnly
<1>3. EditsOnly(origin)'
  <2>1. ASSUME NEW doc \in Docs \cup {Broken}, origin' = Append(origin, [by |-> 0, doc |-> doc])
        PROVE  EditsOnly(origin)'
    <3>1. [by |-> 0, doc |-> doc] \in Commits
      BY DEF Commits
    <3>2. EditsOnly(Append(origin, [by |-> 0, doc |-> doc]))
      BY <1>0, <3>1, AppendTip, SMTT(20) DEF EditsOnly, TypeOK
    <3>3. QED
      BY <2>1, <3>2, <1>1
  <2>2. QED
    BY <1>0, <1>1, <2>1, OriginSteps DEF ClobberInv
<1>4. EditsOnly(head)'
  <2>1. ASSUME NEW e \in todo, Changes(e), phase = "replay",
               head' = Committed(e)
        PROVE  EditsOnly(head)'
    <3>1. /\ Tip(head) \in Docs /\ submitted[e] \in Edits /\ e \in Accepted
          /\ e \in Entries
      BY <1>0, <2>1 DEF TipInv, Replaying, TypeOK, Accepted, Entries
    <3>2. [by |-> e, doc |-> With(Tip(head), submitted[e])] \in Commits
      BY <3>1, WithTyped DEF Commits
    <3>3. Verdict(Tip(head), submitted[e]) = "applied"
      BY <2>1 DEF Changes, Fate
    <3>4. IsEdit(Tip(head), With(Tip(head), submitted[e]), submitted[e])
      BY <3>1, <3>3 DEF IsEdit, Verdict
    <3>5. EditsOnly(Append(head, [by |-> e, doc |-> With(Tip(head), submitted[e])]))
      <4> DEFINE c == [by |-> e, doc |-> With(Tip(head), submitted[e])]
      <4>1. /\ DOMAIN Append(head, c) = DOMAIN head \cup {Len(head) + 1}
            /\ \A i \in DOMAIN head : Append(head, c)[i] = head[i]
            /\ Append(head, c)[Len(head) + 1] = c
        BY <1>0, <3>2, AppendTip DEF TypeOK
      <4>2. DOMAIN head = 1..Len(head) /\ Len(head) \in Nat /\ Len(head) > 0
        BY <1>0 DEF TypeOK
      <4>3. Append(head, c)[Len(head) + 1 - 1] = head[Len(head)]
        <5>1. Len(head) + 1 - 1 = Len(head) /\ Len(head) \in DOMAIN head
          BY <4>2
        <5> HIDE DEF c
        <5>2. QED
          BY <4>1, <5>1
      <4> HIDE DEF c
      <4>4. c.by = e /\ c.doc = With(Tip(head), submitted[e])
        BY DEF c
      <4>5. ASSUME NEW i \in DOMAIN head, head[i].by # 0
            PROVE  /\ i > 1 /\ head[i].by \in Accepted
                   /\ IsEdit(Append(head, c)[i - 1].doc, head[i].doc, submitted[head[i].by])
        <5>1. i > 1 /\ i - 1 \in DOMAIN head
          BY <1>0, <4>2, <4>5 DEF EditsOnly
        <5>2. QED
          BY <1>0, <4>1, <4>5, <5>1 DEF EditsOnly
      <4>6. /\ Len(head) + 1 > 1 /\ c.by \in Accepted
            /\ IsEdit(Append(head, c)[Len(head) + 1 - 1].doc, c.doc, submitted[c.by])
        <5>1. Len(head) + 1 > 1 /\ c.by \in Accepted
          BY <3>1, <4>2, <4>4
        <5>2. IsEdit(head[Len(head)].doc, c.doc, submitted[c.by])
          BY <3>4, <4>4 DEF Tip
        <5>3. QED
          BY <4>3, <5>1, <5>2
      <4>7. EditsOnly(Append(head, c))
        BY <4>1, <4>5, <4>6 DEF EditsOnly
      <4>8. QED
        BY <4>7 DEF c
    <3>6. QED
      BY <2>1, <3>5, <1>2 DEF Committed
  <2>2. QED
    BY <1>0, <1>2, <2>1, HeadSteps
<1>5. EditsOnly(late)'
  <2>1. EditsOnly(<<>>)
    BY DEF EditsOnly
  <2>2. ASSUME NEW h, EditsOnly(h), late' = h PROVE EditsOnly(late)'
    BY <1>0, <2>2, EditsStay DEF EditsOnly
  <2>3. QED
    BY <1>0, <2>1, <2>2, LateSteps DEF ClobberInv
<1>6. QED
  BY <1>3, <1>4, <1>5 DEF ClobberInv

(* operations.apply, for every document and every interleaving: a commit of *)
(* the dashboard on the remote branch changes one watch, from exactly what  *)
(* the user saw, and adds no duplicate.                                     *)
THEOREM NoClobber == Spec => []OwnCommitsAreEdits
<1>1. Init => ClobberInv
  BY DEF Init, ClobberInv, EditsOnly
<1>2. TypedInv /\ ClobberInv /\ [Next]_vars => ClobberInv'
  BY StepClobber
<1>3. ClobberInv => OwnCommitsAreEdits
  BY DEF ClobberInv, OwnCommitsAreEdits
<1>4. QED
  BY <1>1, <1>2, <1>3, AlwaysTyped, PTL DEF Spec

----------------------------------------------------------------------------
LEMMA OriginGrows ==
  ASSUME TypeOK, [Next]_vars, NEW n, NEW w, NEW v, HeldSince(origin, n, w, v)
  PROVE  HeldSince(origin', n, w, v)
<1>1. PICK i \in DOMAIN origin : i >= n /\ origin[i].doc # Broken /\ origin[i].doc[w] = v
  BY DEF HeldSince
<1>2. ASSUME NEW doc \in Docs \cup {Broken}, origin' = Append(origin, [by |-> 0, doc |-> doc])
      PROVE  i \in DOMAIN origin' /\ origin'[i] = origin[i]
  <2>1. [by |-> 0, doc |-> doc] \in Commits
    BY DEF Commits
  <2>2. QED
    BY <1>2, <2>1, AppendTip DEF TypeOK
<1>3. ASSUME NEW h \in Seq(Commits), FastForward(origin, h), origin' = h
      PROVE  i \in DOMAIN origin' /\ origin'[i] = origin[i]
  <2>1. /\ DOMAIN origin = 1..Len(origin) /\ DOMAIN h = 1..Len(h)
        /\ Len(origin) \in Nat /\ Len(h) \in Nat
    BY DEF TypeOK
  <2>2. Len(origin) <= Len(h) /\ \A j \in 1..Len(origin) : h[j] = origin[j]
    BY <1>3 DEF FastForward
  <2>3. i \in DOMAIN h /\ h[i] = origin[i]
    BY <2>1, <2>2
  <2>4. QED
    BY <1>3, <2>3
<1>4. i \in DOMAIN origin' /\ origin'[i] = origin[i]
  <2>1. head \in Seq(Commits) /\ late \in Seq(Commits)
    BY DEF TypeOK
  <2>2. QED
    BY <1>2, <1>3, <2>1, OriginSteps
<1>5. QED
  BY <1>1, <1>4 DEF HeldSince

(* How a replay goes on: it starts on the fetched tip, commits the next     *)
(* entry, or leaves HEAD alone and un-queues at most one entry it was       *)
(* looking at.                                                              *)
LEMMA ReplaySteps ==
  ASSUME TypedInv, [Next]_vars, phase' \in {"replay", "park"}
  PROVE  \/ /\ head' = origin /\ Tip(origin) # Broken /\ UNCHANGED <<origin, pending>>
            /\ todo' = pending /\ applied' = {}
         \/ /\ phase = "replay" /\ UNCHANGED <<origin, pending>>
            /\ \E e \in todo :
                 /\ head' = Committed(e)
                 /\ applied' = applied \cup {e} /\ todo' = todo \ {e}
         \/ /\ phase \in {"replay", "park"} /\ UNCHANGED <<head, applied>>
            /\ \/ UNCHANGED <<todo, pending>>
               \/ \E e \in todo : todo' = todo \ {e} /\ pending' = pending \ {e}
<1> DEFINE Begins ==
      /\ head' = origin /\ Tip(origin) # Broken /\ UNCHANGED <<origin, pending>>
      /\ todo' = pending /\ applied' = {}
<1> DEFINE Commit ==
      /\ phase = "replay" /\ UNCHANGED <<origin, pending>>
      /\ \E e \in todo :
           /\ head' = Committed(e)
           /\ applied' = applied \cup {e} /\ todo' = todo \ {e}
<1> DEFINE Waits ==
      /\ phase \in {"replay", "park"} /\ UNCHANGED <<head, applied>>
      /\ \/ UNCHANGED <<todo, pending>>
         \/ \E e \in todo : todo' = todo \ {e} /\ pending' = pending \ {e}
<1>0. LockInv
  BY DEF TypedInv
<1>1. ASSUME NEW s \in Servers, Step(s) PROVE Begins \/ Commit \/ Waits
  <2>1. CASE Fetch(s)
    BY <2>1 DEF Fetch, Stop, LeaveLoop, request, journal
  <2>2. ASSUME NEW e \in todo, ReplayApplies(s, e) PROVE Commit
    BY <2>2 DEF ReplayApplies, At, journal
  <2>3. ASSUME NEW e \in todo, ReplayDrops(s, e) \/ ReplayRecords(s, e) \/ Unqueue(s, e) PROVE Waits
    BY <2>3 DEF ReplayDrops, ReplayRecords, Unqueue, At, repo, run, loop, request
  <2>4. CASE FetchFails(s) \/ ReplayFails(s) \/ PushLands(s) \/ PushAnswerLost(s) \/ PushFails(s)
             \/ PushRejected(s) \/ Acknowledge(s) \/ Finish(s)
    BY <2>4 DEF FetchFails, ReplayFails, PushLands, PushAnswerLost, PushFails,
       PushRejected, Acknowledge, Finish, Stop, LeaveLoop, request, EndSync, At
  <2>5. CASE ReplayDone(s)
    BY <2>5 DEF ReplayDone, Stop, LeaveLoop, request
  <2>6. QED
    BY <1>1, <2>1, <2>2, <2>3, <2>4, <2>5 DEF Step
<1>2. CASE \E s \in Servers, op \in Edits : Submit(s, op)
  BY <1>2 DEF Submit, StartSync, LockFree
<1>3. CASE \E s \in Servers : Retry(s) \/ Refresh(s)
  BY <1>0, <1>3 DEF Retry, Refresh, StartSync, LockFree, LockInv
<1>4. CASE \E s \in Servers : DismissWrite(s) \/ Crash(s)
  BY <1>4 DEF DismissWrite, Crash, EndSync, LeaveLoop, repo, run, loop, request, journal
<1>5. CASE UNCHANGED vars \/ RestoreTree \/ LatePushLands \/ (\E doc \in Docs \cup {Broken} : OtherCommit(doc))
           \/ \E s \in Servers, e \in Entries : DismissRead(s, e)
  BY <1>5 DEF vars, RestoreTree, LatePushLands, OtherCommit, DismissRead, repo, run,
     loop, request, journal
<1>6. QED
  BY <1>1, <1>2, <1>3, <1>4, <1>5 DEF Next

(* After the replay: the push and its acknowledgement.                      *)
LEMMA PushSteps ==
  ASSUME TypedInv, [Next]_vars, phase' \in {"push", "landed"}
  PROVE  /\ UNCHANGED <<head, applied, pending>>
         /\ \/ phase' = "push" /\ phase = "replay"
            \/ phase' = "landed" /\ phase = "push" /\ origin' = head
            \/ phase' = phase
<1>0. LockInv
  BY DEF TypedInv
<1>1. ASSUME NEW s \in Servers, Step(s)
      PROVE  /\ UNCHANGED <<head, applied, pending>>
             /\ \/ phase' = "push" /\ phase = "replay"
                \/ phase' = "landed" /\ phase = "push" /\ origin' = head
  <2>1. ReplayDone(s) \/ PushLands(s)
    BY <1>1 DEF Step, Fetch, FetchFails, ReplayApplies, ReplayDrops, ReplayRecords,
       Unqueue, ReplayFails, PushAnswerLost, PushFails, PushRejected, Acknowledge, Finish, At, Stop, LeaveLoop, request, EndSync
  <2>2. QED
    BY <2>1 DEF ReplayDone, PushLands, At, Stop, LeaveLoop, request, repo, run, loop,
       journal
<1>2. CASE \E s \in Servers, op \in Edits : Submit(s, op)
  BY <1>2 DEF Submit, StartSync, LockFree
<1>3. CASE \E s \in Servers : Retry(s) \/ Refresh(s)
  BY <1>0, <1>3 DEF Retry, Refresh, StartSync, LockFree, LockInv
<1>4. CASE \E s \in Servers : DismissWrite(s) \/ Crash(s)
  BY <1>4 DEF DismissWrite, Crash, EndSync, LeaveLoop, repo, run, loop, request, journal
<1>5. CASE UNCHANGED vars \/ RestoreTree \/ LatePushLands \/ (\E doc \in Docs \cup {Broken} : OtherCommit(doc))
           \/ \E s \in Servers, e \in Entries : DismissRead(s, e)
  BY <1>5 DEF vars, RestoreTree, LatePushLands, OtherCommit, DismissRead, repo, run,
     loop, request, journal
<1>6. QED
  BY <1>1, <1>2, <1>3, <1>4, <1>5 DEF Next

LEMMA StepQueue ==
  ASSUME TypedInv, QueueInv, [Next]_vars
  PROVE  QueueInv'
<1>1. CASE phase' \in {"replay", "park"}
  BY <1>1, ReplaySteps DEF QueueInv, Replaying
<1>2. CASE phase' \in {"push", "landed"}
  BY <1>2, PushSteps DEF QueueInv, Replaying
<1>3. QED
  BY <1>1, <1>2 DEF QueueInv, Replaying

LEMMA StepSince ==
  ASSUME TypedInv, SinceInv, [Next]_vars
  PROVE  SinceInv'
<1> USE DashboardAssumption
<1>0. TypeOK
  BY DEF TypedInv
<1>1. Len(origin) <= Len(origin')
  <2>1. ASSUME NEW doc \in Docs \cup {Broken}, origin' = Append(origin, [by |-> 0, doc |-> doc])
        PROVE  Len(origin) <= Len(origin')
    BY <1>0, <2>1 DEF TypeOK
  <2>2. \A h : FastForward(origin, h) /\ origin' = h => Len(origin) <= Len(origin')
    BY DEF FastForward
  <2>3. origin' = origin => Len(origin) <= Len(origin')
    BY <1>0 DEF TypeOK
  <2>4. QED
    BY <2>1, <2>2, <2>3, OriginSteps
<1>2. ASSUME NEW s \in Servers, NEW op \in Edits, Submit(s, op)
      PROVE  \A e \in Accepted' : since'[e] <= Len(origin')
  <2>1. /\ since' = Append(since, Len(origin)) /\ submitted' = Append(submitted, op)
        /\ origin' = origin
    BY <1>2 DEF Submit, StartSync, LockFree, repo
  <2>2. QED
    BY <1>0, <2>1 DEF TypeOK, Accepted, SinceInv
<1>3. ASSUME Accepted' = Accepted PROVE \A e \in Accepted' : since'[e] <= Len(origin')
  <2>1. ASSUME NEW e \in Accepted PROVE since[e] \in Nat /\ Len(origin) \in Nat /\ Len(origin') \in Nat
    <3>1. TypeOK'
      BY StepTyped
    <3>2. QED
      <4>1. origin \in Seq(Commits) /\ origin' \in Seq(Commits)
        BY <1>0, <3>1 DEF TypeOK
      <4>2. since[e] \in Nat
        BY <1>0 DEF TypeOK, Accepted
      <4>3. QED
        BY <4>1, <4>2
  <2>2. QED
    BY <1>0, <1>1, <1>3, <2>1, EntriesStay DEF SinceInv
<1>4. (\E s \in Servers, op \in Edits : Submit(s, op)) \/ Accepted' = Accepted
  BY DEF Next, Step, Fetch, FetchFails, ReplayApplies, ReplayDrops, ReplayRecords,
     Unqueue, ReplayFails, ReplayDone, PushLands, PushAnswerLost, PushFails, PushRejected,
     Acknowledge, Finish, Retry, Refresh, DismissWrite, Crash, DismissRead, RestoreTree, LatePushLands,
     OtherCommit, vars, edits, Accepted
<1>5. QED
  BY <1>2, <1>3, <1>4 DEF SinceInv

(* Nothing is submitted while a replay or a push goes on.                   *)
LEMMA NoneJoins ==
  ASSUME [Next]_vars, phase' \in {"replay", "park", "push", "landed"}
  PROVE  UNCHANGED <<submitted, since>> /\ Accepted' = Accepted
<1>1. ~ \E s \in Servers, op \in Edits : Submit(s, op)
  BY DEF Submit, StartSync
<1>2. edits' = edits
  BY <1>1 DEF Next, Step, Fetch, FetchFails, ReplayApplies, ReplayDrops, ReplayRecords,
     Unqueue, ReplayFails, ReplayDone, PushLands, PushAnswerLost, PushFails, PushRejected,
     Acknowledge, Finish, Retry, Refresh, DismissWrite, Crash, DismissRead, RestoreTree,
     LatePushLands, OtherCommit, vars
<1>3. QED
  BY <1>2 DEF edits, Accepted

LEMMA StepSource ==
  ASSUME TypedInv, SinceInv, SourceInv, [Next]_vars
  PROVE  SourceInv'
<1> USE DashboardAssumption
<1>0. TypeOK /\ TipInv
  BY DEF TypedInv
<1> DEFINE Sourced(w, e) ==
      \/ HeldSince(origin, since[e], w, Tip(head)[w])
      \/ \E f \in applied : submitted[f].wid = w /\ submitted[f].result = Tip(head)[w]
<1> DEFINE Good == /\ \A e \in Accepted : since'[e] <= Len(head')
                   /\ \A w \in Watches, e \in Accepted : Sourced(w, e)'
<1>1. SUFFICES ASSUME phase' \in {"replay", "park"} PROVE Good
  BY NoneJoins DEF SourceInv
<1>2. ASSUME head' = origin, Tip(origin) # Broken, origin' = origin
      PROVE  Good
  <2>1. Len(origin) \in DOMAIN origin
    BY <1>0 DEF TypeOK
  <2>2. \A e \in Accepted : since'[e] = since[e] /\ since[e] <= Len(origin)
    BY <1>0, <1>2, <2>1, EntriesStay DEF SinceInv
  <2>3. \A e \in Accepted : Len(origin) >= since'[e]
    BY <1>0, <2>1, <2>2, <1>2 DEF TypeOK, Accepted
  <2>4. ASSUME NEW w \in Watches, NEW e \in Accepted
        PROVE  HeldSince(origin', since'[e], w, Tip(head')[w])
    BY <1>2, <2>1, <2>3 DEF HeldSince, Tip
  <2>5. QED
    BY <1>2, <2>2, <2>4
<1>3. ASSUME NEW e \in todo, phase = "replay", origin' = origin,
             head' = Committed(e), applied' = applied \cup {e}
      PROVE  Good
  <2>1. /\ Tip(head) \in Docs /\ e \in Accepted /\ e \in Entries /\ submitted[e] \in Edits
        /\ applied \subseteq Accepted /\ todo \subseteq Accepted
    BY <1>0, <1>3 DEF TipInv, Replaying, TypeOK, Accepted, Entries
  <2>2. [by |-> e, doc |-> With(Tip(head), submitted[e])] \in Commits
    BY <2>1, WithTyped DEF Commits
  <2>3. Tip(head') = With(Tip(head), submitted[e]) /\ Len(head') = Len(head) + 1
    BY <1>0, <1>3, <2>2, AppendTip DEF TypeOK, Committed
  <2>4. \A f \in Accepted : submitted'[f] = submitted[f] /\ since'[f] = since[f]
    BY <1>0, EntriesStay
  <2>5. \A f \in Accepted : since'[f] <= Len(head')
    <3> HIDE DEF Sourced, Good
    <3>1. \A f \in Accepted : since[f] \in Nat /\ since[f] <= Len(head)
      <4>1. \A f \in Accepted : since[f] \in Nat
        BY <1>0 DEF TypeOK, Accepted
      <4>2. \A f \in Accepted : since[f] <= Len(head)
        BY <1>0, <1>3 DEF SourceInv
      <4>3. QED
        BY <4>1, <4>2
    <3>2. Len(head) \in Nat
      BY <1>0 DEF TypeOK
    <3>3. QED
      BY <1>3, <2>1, <2>3, <2>4, <3>1, <3>2
  <2>6. ASSUME NEW w \in Watches, NEW f \in Accepted PROVE Sourced(w, f)'
    <3>1. CASE w = submitted[e].wid
      <4>1. submitted'[e].wid = w /\ submitted'[e].result = Tip(head')[w] /\ e \in applied'
        BY <1>3, <2>1, <2>3, <2>4, <3>1, WithTyped
      <4>2. QED
        BY <4>1 DEF Tip
    <3>2. CASE w # submitted[e].wid
      <4>1. Tip(head')[w] = Tip(head)[w]
        BY <1>3, <2>1, <2>3, <2>6, <3>2, WithTyped
      <4>2. CASE HeldSince(origin, since[f], w, Tip(head)[w])
        BY <1>3, <2>4, <4>1, <4>2 DEF HeldSince, Tip
      <4>3. ASSUME NEW g \in applied, submitted[g].wid = w, submitted[g].result = Tip(head)[w]
            PROVE  Sourced(w, f)'
        <5>1. g \in applied' /\ submitted'[g].wid = w /\ submitted'[g].result = Tip(head')[w]
          BY <1>3, <2>1, <2>4, <4>1, <4>3
        <5>2. QED
          BY <5>1 DEF Tip
      <4>4. QED
        BY <1>3, <4>1, <4>2, <4>3 DEF SourceInv
    <3>3. QED
      BY <3>1, <3>2
  <2>7. QED
    BY <2>5, <2>6
<1>4. ASSUME phase \in {"replay", "park"}, UNCHANGED <<head, applied>>
      PROVE  Good
  <2>1. \A f \in Accepted : submitted'[f] = submitted[f] /\ since'[f] = since[f]
    BY <1>0, EntriesStay
  <2>2. applied \subseteq Accepted
    BY <1>0 DEF TypeOK
  <2>3. ASSUME NEW w \in Watches, NEW e \in Accepted PROVE Sourced(w, e)'
    <3>1. CASE HeldSince(origin, since[e], w, Tip(head)[w])
      <4>1. HeldSince(origin', since[e], w, Tip(head)[w])
        BY <1>0, <3>1, OriginGrows
      <4>2. QED
        BY <1>4, <2>1, <2>2, <2>3, <4>1 DEF HeldSince, Tip
    <3>2. ASSUME NEW f \in applied, submitted[f].wid = w, submitted[f].result = Tip(head)[w]
          PROVE  Sourced(w, e)'
      <4>1. /\ f \in applied' /\ submitted'[f].wid = w
            /\ submitted'[f].result = Tip(head')[w]
        BY <1>4, <2>1, <2>2, <3>2
      <4>2. QED
        BY <4>1 DEF Tip
    <3>3. QED
      BY <1>4, <2>3, <3>1, <3>2 DEF SourceInv
  <2>4. QED
    BY <1>4, <2>1, <2>2, <2>3 DEF SourceInv
<1>5. QED
  BY <1>1, <1>2, <1>3, <1>4, ReplaySteps

LEMMA StepCommit ==
  ASSUME TypedInv, SourceInv, CommitInv, [Next]_vars
  PROVE  CommitInv'
<1> USE DashboardAssumption
<1>0. TypeOK /\ TipInv /\ applied \subseteq Accepted
  BY DEF TypedInv, TypeOK
<1> DEFINE Held(h, f, g) == HeldSince(h, since[g], submitted[f].wid, submitted[f].result)
<1>1. ASSUME phase' \in {"replay", "park", "push"}, NEW f \in applied', NEW g \in Accepted
      PROVE  Held(head', f, g)
  <2>1. ASSUME UNCHANGED <<head, applied>>, phase \in {"replay", "park", "push"}
        PROVE  Held(head', f, g)
    BY <1>1, <2>1 DEF CommitInv
  <2>2. ASSUME NEW e \in todo, phase = "replay", applied' = applied \cup {e},
               head' = Committed(e)
        PROVE  Held(head', f, g)
    <3>1. Tip(head) \in Docs /\ e \in Accepted /\ e \in Entries /\ submitted[e] \in Edits
      BY <1>0, <2>2 DEF TipInv, Replaying, TypeOK, Accepted, Entries
    <3>2. [by |-> e, doc |-> With(Tip(head), submitted[e])] \in Commits
      BY <3>1, WithTyped DEF Commits
    <3>3. /\ \A i \in DOMAIN head : i \in DOMAIN head' /\ head'[i] = head[i]
          /\ Len(head) + 1 \in DOMAIN head'
          /\ head'[Len(head) + 1].doc = With(Tip(head), submitted[e])
      BY <1>0, <2>2, <3>2, AppendTip DEF TypeOK, Committed
    <3>4. CASE f \in applied
      <4>1. Held(head, f, g)
        BY <1>1, <2>2, <3>4 DEF CommitInv
      <4>2. QED
        BY <3>3, <4>1 DEF HeldSince
    <3>5. CASE f = e
      <4>1. /\ With(Tip(head), submitted[e]) # Broken
            /\ With(Tip(head), submitted[e])[submitted[e].wid] = submitted[e].result
        BY <3>1, WithTyped
      <4>2. Len(head) + 1 >= since[g]
        <5>1. since[g] <= Len(head)
          BY <1>1, <2>2 DEF SourceInv
        <5>2. since[g] \in Nat /\ Len(head) \in Nat
          BY <1>0, <1>1 DEF TypeOK, Accepted
        <5>3. QED
          BY <5>1, <5>2
      <4>3. QED
        BY <3>3, <3>5, <4>1, <4>2 DEF HeldSince
    <3>6. QED
      BY <1>1, <2>2, <3>4, <3>5
  <2>3. CASE phase' = "push"
    BY <2>1, <2>3, PushSteps
  <2>4. CASE phase' \in {"replay", "park"}
    BY <1>1, <2>1, <2>2, <2>4, ReplaySteps
  <2>5. QED
    BY <1>1, <2>3, <2>4
<1>2. ASSUME phase' = "landed", NEW f \in applied', NEW g \in Accepted PROVE Held(origin', f, g)
  <2>1. f \in applied
    BY <1>2, PushSteps
  <2>2. CASE phase = "push" /\ origin' = head
    BY <1>2, <2>1, <2>2 DEF CommitInv
  <2>3. CASE phase = "landed"
    <3>1. Held(origin, f, g)
      BY <1>2, <2>1, <2>3 DEF CommitInv
    <3>2. QED
      BY <1>0, <3>1, OriginGrows
  <2>4. QED
    BY <1>2, <2>2, <2>3, PushSteps
<1> HIDE DEF Held
<1>3. ASSUME phase' \in {"replay", "park", "push", "landed"}, NEW f, NEW g, NEW h
      PROVE  Held(h, f, g) <=> HeldSince(h, since'[g], submitted'[f].wid, submitted'[f].result)
  BY <1>3, NoneJoins DEF Held
<1>4. ASSUME phase' \in {"replay", "park", "push"}, NEW f \in applied', NEW e \in Accepted'
      PROVE  HeldSince(head', since'[e], submitted'[f].wid, submitted'[f].result)
  BY <1>1, <1>3, <1>4, NoneJoins
<1>5. ASSUME phase' = "landed", NEW f \in applied', NEW e \in Accepted'
      PROVE  HeldSince(origin', since'[e], submitted'[f].wid, submitted'[f].result)
  BY <1>2, <1>3, <1>5, NoneJoins
<1>6. QED
  BY <1>4, <1>5 DEF CommitInv, HeldSince

(* With one server no dismissal is under way while it handles a conflict.   *)
LEMMA StepDismissal ==
  ASSUME TypedInv, RecordInv, OneServer, [Next]_vars
  PROVE  /\ conflicts \cup dismissed \subseteq conflicts' \cup dismissed'
         /\ \A s \in Servers :
              removing'[s] # 0 => /\ removing'[s] \in conflicts'
                                  /\ kept'[s] = conflicts' \ {removing'[s]}
<1> DEFINE Whole(s) == removing[s] # 0 => /\ removing[s] \in conflicts
                                          /\ kept[s] = conflicts \ {removing[s]}
<1> DEFINE Good == /\ conflicts \cup dismissed \subseteq conflicts' \cup dismissed'
                   /\ \A s \in Servers : Whole(s)'
<1>0. /\ \A s, t \in Servers : s = t
      /\ \A s \in Servers : Whole(s)
      /\ removing \in [Servers -> Accepted \cup {0}] /\ kept \in [Servers -> SUBSET Accepted]
      /\ conflicts \subseteq Accepted
  BY DEF OneServer, RecordInv, TypedInv, TypeOK
<1>1. ASSUME UNCHANGED <<conflicts, dismissed, dismissal>> PROVE Good
  BY <1>0, <1>1 DEF dismissal
<1>2. ASSUME NEW s \in Servers, JournalFree(s), dismissal' = dismissal,
             conflicts \cup dismissed \subseteq conflicts' \cup dismissed'
      PROVE  Good
  BY <1>0, <1>2 DEF dismissal, JournalFree
<1>3. ASSUME NEW s \in Servers, Step(s) PROVE Good
  <2>1. CASE (\E e \in todo : ReplayRecords(s, e)) \/ Finish(s)
    BY <1>2, <2>1 DEF ReplayRecords, Finish, At
  <2>2. CASE ~(\E e \in todo : ReplayRecords(s, e)) /\ ~Finish(s)
    BY <1>1, <1>3, <2>2 DEF Step, Fetch, FetchFails, ReplayApplies, ReplayDrops,
       Unqueue,
       ReplayFails, ReplayDone, PushLands, PushAnswerLost, PushFails, PushRejected,
       Acknowledge, journal
  <2>3. QED
    BY <2>1, <2>2
<1>4. ASSUME NEW s \in Servers, DismissWrite(s) PROVE Good
  <2>1. conflicts' = conflicts \ {removing[s]} /\ dismissed' = dismissed \cup {removing[s]}
    BY <1>0, <1>4 DEF DismissWrite, JournalFree
  <2>2. \A t \in Servers : removing'[t] = 0
    BY <1>0, <1>4 DEF DismissWrite, Released
  <2>3. QED
    BY <2>1, <2>2
<1>5. ASSUME NEW s \in Servers, Crash(s) PROVE Good
  <2>1. (\A t \in Servers : removing'[t] = 0) \/ dismissal' = dismissal
    BY <1>0, <1>5 DEF Crash, Released
  <2>2. QED
    BY <1>1, <1>5, <2>1 DEF Crash, journal
<1>6. ASSUME NEW s \in Servers, NEW e \in Entries, DismissRead(s, e) PROVE Good
  <2>1. \A t \in Servers : removing'[t] = e /\ kept'[t] = conflicts \ {e}
    BY <1>0, <1>6 DEF DismissRead
  <2>2. QED
    BY <1>6, <2>1 DEF DismissRead, journal
<1>7. CASE \E s \in Servers : Retry(s) \/ Refresh(s) \/ \E op \in Edits : Submit(s, op)
  BY <1>1, <1>7 DEF Retry, Refresh, Submit, StartSync, LockFree, journal
<1>8. CASE UNCHANGED vars \/ RestoreTree \/ LatePushLands \/ (\E doc \in Docs \cup {Broken} : OtherCommit(doc))
  BY <1>1, <1>8 DEF vars, RestoreTree, LatePushLands, OtherCommit, journal
<1>9. QED
  BY <1>3, <1>4, <1>5, <1>6, <1>7, <1>8 DEF Next

LEMMA StepRecord ==
  ASSUME TypedInv, RecordInv, OneServer, [Next]_vars
  PROVE  RecordInv'
<1>0. LockInv /\ TypeOK
  BY DEF TypedInv
<1>1. ASSUME phase' = "park"
      PROVE  /\ \A s \in Servers : JournalFree(s)'
             /\ \A e \in todo' : IsNext(e)' => e \in conflicts'
  <2>1. ASSUME NEW s \in Servers, NEW e \in todo, ReplayRecords(s, e)
        PROVE  /\ \A t \in Servers : JournalFree(t)'
               /\ \A f \in todo' : IsNext(f)' => f \in conflicts'
    <3>1. \A f \in todo : IsNext(f) => f = e
      BY <1>0, <2>1 DEF ReplayRecords, IsNext, TypeOK, Accepted
    <3>2. QED
      BY <2>1, <3>1 DEF ReplayRecords, At, OneServer, JournalFree, IsNext, dismissal,
         run, loop, request
  <2>2. ASSUME phase = "park", UNCHANGED <<todo, conflicts, dismissal>>
        PROVE  /\ \A t \in Servers : JournalFree(t)'
               /\ \A f \in todo' : IsNext(f)' => f \in conflicts'
    BY <2>2 DEF RecordInv, JournalFree, IsNext, dismissal
  <2>3. ASSUME NEW s \in Servers, Step(s) PROVE \E e \in todo : ReplayRecords(s, e)
    BY <1>1, <2>3 DEF Step, Fetch, FetchFails, ReplayApplies, ReplayDrops,
       ReplayRecords, Unqueue, ReplayFails, ReplayDone, PushLands, PushAnswerLost, PushFails, PushRejected, Acknowledge, Finish, At, Stop, LeaveLoop, request, EndSync
  <2>4. CASE \E s \in Servers : Retry(s) \/ Refresh(s) \/ \E op \in Edits : Submit(s, op)
    BY <1>0, <1>1, <2>4 DEF Retry, Refresh, Submit, StartSync, LockFree, LockInv
  <2>5. CASE \E s \in Servers : DismissWrite(s) \/ Crash(s)
    BY <1>0, <1>1, <2>5 DEF DismissWrite, Crash, EndSync, LeaveLoop, RecordInv,
       OneServer, TypeOK, LockInv
  <2>6. CASE \E s \in Servers, e \in Entries : DismissRead(s, e)
    BY <1>0, <1>1, <2>6 DEF DismissRead, OneServer, TypeOK, LockInv
  <2>7. CASE UNCHANGED vars \/ RestoreTree \/ LatePushLands \/ \E doc \in Docs \cup {Broken} : OtherCommit(doc)
    BY <1>1, <2>2, <2>7 DEF vars, RestoreTree, LatePushLands, OtherCommit, journal,
       run, loop, request
  <2>8. QED
    BY <2>1, <2>2, <2>3, <2>4, <2>5, <2>6, <2>7 DEF Next
<1>2. QED
  BY <1>1, StepDismissal DEF RecordInv, JournalFree

(* Only three actions take an entry off the queue.                          *)
LEMMA Unqueuers ==
  ASSUME [Next]_vars, NEW e \in pending, e \notin pending'
  PROVE  \E s \in Servers : \/ Acknowledge(s) /\ e \in applied
                            \/ e \in todo /\ (ReplayDrops(s, e) \/ Unqueue(s, e))
<1>1. PICK s \in Servers : Step(s)
  <2>1. CASE \E s \in Servers : \/ Retry(s) \/ Refresh(s) \/ DismissWrite(s) \/ Crash(s)
                                \/ \E op \in Edits : Submit(s, op)
    BY <2>1 DEF Retry, Refresh, DismissWrite, Crash, Submit, StartSync, LockFree,
       journal
  <2>2. CASE UNCHANGED vars \/ RestoreTree \/ LatePushLands \/ (\E doc \in Docs \cup {Broken} : OtherCommit(doc))
             \/ \E s \in Servers, f \in Entries : DismissRead(s, f)
    BY <2>2 DEF vars, RestoreTree, LatePushLands, OtherCommit, DismissRead, journal
  <2>3. QED
    BY <2>1, <2>2 DEF Next
<1>2. \/ Acknowledge(s)
      \/ \E f \in todo : ReplayDrops(s, f) \/ Unqueue(s, f)
  BY <1>1 DEF Step, Fetch, FetchFails, ReplayApplies, ReplayRecords, ReplayFails,
     ReplayDone,
     PushLands, PushAnswerLost, PushFails, PushRejected, Finish, journal
<1>3. Acknowledge(s) => e \in applied
  BY DEF Acknowledge
<1>4. \A f \in todo : ReplayDrops(s, f) \/ Unqueue(s, f) => f = e
  BY DEF ReplayDrops, Unqueue
<1>5. QED
  BY <1>2, <1>3, <1>4

(* A dropped entry asked for what the tip has.                              *)
LEMMA Dropped ==
  ASSUME TypedInv, NEW s \in Servers, NEW e \in todo, ReplayDrops(s, e)
  PROVE  /\ phase = "replay" /\ Tip(head)[submitted[e].wid] = submitted[e].result
         /\ UNCHANGED <<applied, origin>> /\ pending' = pending \ {e}
<1>1. phase = "replay" /\ UNCHANGED <<applied, origin>> /\ pending' = pending \ {e}
  BY DEF ReplayDrops, At, repo
<1>2. Tip(head) \in Docs /\ submitted[e] \in Edits
  BY <1>1 DEF TypedInv, TipInv, Replaying, TypeOK, Accepted
<1>3. \/ Verdict(Tip(head), submitted[e]) = "already"
      \/ With(Tip(head), submitted[e]) = Tip(head)
  BY DEF ReplayDrops, Changes, Fate
<1>4. CASE With(Tip(head), submitted[e]) = Tip(head)
  BY <1>1, <1>2, <1>4, WithTyped
<1>5. CASE Verdict(Tip(head), submitted[e]) = "already"
  BY <1>1, <1>5 DEF Verdict
<1>6. QED
  BY <1>3, <1>4, <1>5

(* Each has a reason.                                                       *)
LEMMA Unqueued ==
  ASSUME TypedInv, KeepInv, [Next]_vars, NEW e \in pending, e \notin pending'
  PROVE  \/ e \in conflicts'
         \/ InPlace(e)
         \/ /\ phase = "replay" /\ e \in todo /\ Tip(head)[submitted[e].wid] = submitted[e].result
            /\ UNCHANGED <<applied, origin>> /\ pending' = pending \ {e}
<1>1. TypeOK /\ CommitInv /\ RecordInv
  BY DEF TypedInv, KeepInv
<1>2. PICK s \in Servers : \/ Acknowledge(s) /\ e \in applied
                           \/ e \in todo /\ (ReplayDrops(s, e) \/ Unqueue(s, e))
  BY Unqueuers
<1>3. CASE Acknowledge(s) /\ e \in applied
  <2>1. phase = "landed" /\ e \in Accepted
    BY <1>1, <1>3 DEF Acknowledge, At, TypeOK
  <2>2. QED
    BY <1>1, <1>3, <2>1 DEF CommitInv, InPlace
<1>4. CASE e \in todo /\ Unqueue(s, e)
  BY <1>1, <1>4 DEF Unqueue, At, RecordInv
<1>5. CASE e \in todo /\ ReplayDrops(s, e)
  BY <1>5, Dropped
<1>6. QED
  BY <1>2, <1>3, <1>4, <1>5

LEMMA StepKept ==
  ASSUME TypedInv, KeepInv, OneServer, [Next]_vars
  PROVE  \A e \in pending \cup conflicts : e \notin pending' \cup conflicts' => MayLeave(e)
<1>0. TypeOK /\ QueueInv /\ SourceInv /\ RecordInv
  BY DEF TypedInv, KeepInv
<1>1. SUFFICES ASSUME NEW e \in pending \cup conflicts, e \notin pending' \cup conflicts',
                      e \notin dismissed', ~InPlace(e)
               PROVE  \E f \in pending' : SameEdit(e, f)
  BY DEF MayLeave
<1>2. e \in pending /\ e \notin pending' /\ e \notin conflicts'
  BY <1>0, <1>1, StepDismissal
<1>3. /\ phase = "replay" /\ e \in todo /\ Tip(head)[submitted[e].wid] = submitted[e].result
      /\ UNCHANGED <<applied, origin>> /\ pending' = pending \ {e}
  BY <1>1, <1>2, Unqueued
<1>4. e \in Accepted /\ submitted[e].wid \in Watches
  BY <1>0, <1>2 DEF TypeOK, Accepted, Edits
<1>5. ~HeldSince(origin, since[e], submitted[e].wid, submitted[e].result)
  BY <1>1 DEF InPlace
<1>6. PICK f \in applied : /\ submitted[f].wid = submitted[e].wid
                           /\ submitted[f].result = submitted[e].result
  BY <1>0, <1>3, <1>4, <1>5 DEF SourceInv
<1>7. f \in pending'
  BY <1>0, <1>3, <1>6 DEF QueueInv, Replaying
<1>8. QED
  BY <1>6, <1>7 DEF SameEdit

(* journal.py, "never loses it": with one server on the clone, whatever     *)
(* fails and whoever else pushes, an edit leaves the journal only when the  *)
(* user dismisses it, when origin has held what it asks for since it was    *)
(* made, or while an equal edit stays queued.                               *)
THEOREM EditsKept == OneServer => (Spec => NoEditLost)
<1>1. SUFFICES ASSUME OneServer PROVE Spec => NoEditLost
  OBVIOUS
<1>2. Init => KeepInv
  BY DEF Init, KeepInv, SinceInv, QueueInv, SourceInv, CommitInv, RecordInv, Replaying,
     Accepted, JournalFree
<1>3. TypedInv /\ KeepInv /\ [Next]_vars => KeepInv'
  BY <1>1, StepSince, StepQueue, StepSource, StepCommit, StepRecord DEF KeepInv
<1>4. TypedInv /\ KeepInv /\ [Next]_vars
        => \A e \in pending \cup conflicts : e \notin pending' \cup conflicts' => MayLeave(e)
  BY <1>1, StepKept
<1>5. QED
  BY <1>2, <1>3, <1>4, AlwaysTyped, PTL DEF Spec, NoEditLost

----------------------------------------------------------------------------
(* Why no edit overtakes another of its watch: the replay takes the entries *)
(* in the order of the journal, nothing joins the queue meanwhile, and a    *)
(* watch stays blocked as long as the sync remembers that it parked an      *)
(* entry of it.                                                             *)
Settled(e) == e \in applied \/ (e \notin pending /\ fates[e] = "none")

OrderInv ==
  /\ phase = "idle" => \A e \in Entries : fates[e] = "none"
  /\ phase = "fetch" \/ Replaying =>
       \A e \in Accepted : fates[e] # "none" => submitted[e].wid \in blocked
  /\ phase \in {"replay", "park"} =>
       pending \subseteq todo \cup applied /\ \A f \in applied, e \in todo : f < e
  /\ Replaying =>
       \A f \in applied, e \in Accepted :
         e < f /\ submitted[e].wid = submitted[f].wid => Settled(e)

(* The sync's own view is left alone, or it is over.                        *)
LEMMA OrderKept ==
  ASSUME OrderInv, UNCHANGED <<submitted, pending, phase, todo, applied, blocked, fates>>
  PROVE  OrderInv'
BY DEF OrderInv, Replaying, Settled, Accepted

LEMMA OrderOver ==
  ASSUME \/ phase' = "finish"
         \/ phase' = "idle" /\ fates' = NoFates
  PROVE  OrderInv'
BY DEF OrderInv, Replaying, NoFates

(* One entry of the replay.                                                 *)
LEMMA OrderReplay ==
  ASSUME TypedInv, OrderInv, NEW s \in Servers, NEW g \in todo,
         ReplayApplies(s, g) \/ ReplayDrops(s, g) \/ ReplayRecords(s, g) \/ Unqueue(s, g)
  PROVE  OrderInv'
<1>1. /\ TypeOK /\ todo \subseteq Accepted /\ applied \subseteq Accepted
      /\ Accepted \subseteq Nat /\ g \in Accepted /\ IsNext(g) /\ submitted' = submitted
      /\ phase \in {"replay", "park"} /\ Accepted \subseteq Entries
      /\ fates \in [Entries -> {"none", "conflict", "invalid"}]
  <2>1. /\ TypeOK /\ todo \subseteq Accepted /\ applied \subseteq Accepted
        /\ Accepted \subseteq Nat /\ fates \in [Entries -> {"none", "conflict", "invalid"}]
    <3>1. TypeOK
      BY DEF TypedInv
    <3>2. /\ todo \subseteq Accepted /\ applied \subseteq Accepted
          /\ fates \in [Entries -> {"none", "conflict", "invalid"}]
      BY <3>1 DEF TypeOK
    <3>3. Accepted \subseteq Nat
      BY DEF Accepted
    <3> QED BY <3>1, <3>2, <3>3
  <2>2. IsNext(g) /\ submitted' = submitted /\ phase \in {"replay", "park"}
    BY DEF ReplayApplies, ReplayDrops, ReplayRecords, Unqueue, At, edits
  <2>3. Accepted \subseteq Entries
    <3>1. Len(submitted) \in Nat /\ Len(submitted) <= MaxEdits
      BY <2>1 DEF TypeOK
    <3> QED BY <3>1, DashboardAssumption DEF Accepted, Entries
  <2> QED BY <2>1, <2>2, <2>3
<1>2. /\ \A e \in Accepted : fates[e] # "none" => submitted[e].wid \in blocked
      /\ pending \subseteq todo \cup applied /\ \A f \in applied, e \in todo : f < e
      /\ \A f \in applied, e \in Accepted :
           e < f /\ submitted[e].wid = submitted[f].wid => Settled(e)
  BY <1>1 DEF OrderInv, Replaying
<1>3. Accepted' = Accepted
  BY <1>1 DEF Accepted
<1>4. \A e \in todo \ {g} : g < e
  BY <1>1 DEF IsNext
<1>5. CASE ReplayApplies(s, g)
  <2>1. /\ applied' = applied \cup {g} /\ todo' = todo \ {g}
        /\ UNCHANGED <<pending, phase, blocked, fates>> /\ Changes(g)
    BY <1>5 DEF ReplayApplies, journal
  <2>2. submitted[g].wid \notin blocked
    BY <2>1 DEF Changes, Fate
  <2>3. pending' \subseteq todo' \cup applied' /\ \A f \in applied', e \in todo' : f < e
    BY <1>2, <1>4, <2>1
  <2>4. ASSUME NEW f \in applied', NEW e \in Accepted, e < f,
               submitted[e].wid = submitted[f].wid
        PROVE  Settled(e)'
    <3>1. CASE f \in applied
      BY <1>2, <2>1, <2>4, <3>1 DEF Settled
    <3>2. CASE f = g
      <4>1. fates[e] = "none"
        BY <1>2, <2>2, <2>4, <3>2
      <4>2. e \notin todo
        BY <1>1, <2>4, <3>2 DEF IsNext
      <4>3. e \in pending => e \in applied
        BY <1>2, <4>2
      <4> QED BY <2>1, <4>1, <4>3 DEF Settled
    <3> QED BY <2>1, <2>4, <3>1, <3>2
  <2> QED BY <1>1, <1>2, <1>3, <2>1, <2>3, <2>4 DEF OrderInv, Replaying
<1>6. CASE ReplayDrops(s, g)
  <2>1. /\ todo' = todo \ {g} /\ pending' = pending \ {g}
        /\ UNCHANGED <<applied, phase, blocked, fates>>
    BY <1>6 DEF ReplayDrops
  <2>2. \A e \in Accepted : Settled(e) => Settled(e)'
    BY <2>1 DEF Settled
  <2> QED BY <1>1, <1>2, <1>3, <2>1, <2>2 DEF OrderInv, Replaying
<1>7. CASE ReplayRecords(s, g)
  <2>1. phase' = "park" /\ UNCHANGED <<pending, todo, applied, blocked, fates>>
    BY <1>7 DEF ReplayRecords, run, loop, request
  <2>2. \A e \in Accepted : Settled(e) => Settled(e)'
    BY <2>1 DEF Settled
  <2> QED BY <1>1, <1>2, <1>3, <2>1, <2>2 DEF OrderInv, Replaying
<1>8. CASE Unqueue(s, g)
  <2>1. /\ todo' = todo \ {g} /\ pending' = pending \ {g} /\ applied' = applied
        /\ phase' = "replay" /\ blocked' = blocked \cup {submitted[g].wid}
        /\ \A e \in Accepted \ {g} : fates'[e] = fates[e]
    BY <1>1, <1>8 DEF Unqueue
  <2>2. \A e \in Accepted : fates'[e] # "none" => submitted[e].wid \in blocked'
    BY <1>2, <2>1
  <2>3. ASSUME NEW f \in applied, NEW e \in Accepted, e < f,
               submitted[e].wid = submitted[f].wid
        PROVE  Settled(e)'
    <3>1. Settled(e) /\ f < g
      BY <1>2, <2>3
    <3>2. e # g
      BY <1>1, <2>3, <3>1
    <3> QED BY <2>1, <3>1, <3>2 DEF Settled
  <2> QED BY <1>1, <1>2, <1>3, <2>1, <2>2, <2>3 DEF OrderInv, Replaying
<1> QED BY <1>5, <1>6, <1>7, <1>8

LEMMA StepOrder ==
  ASSUME TypedInv, OrderInv, [Next]_vars
  PROVE  OrderInv'
<1>1. TypeOK /\ LockInv /\ Accepted \subseteq Entries
  <2>1. TypeOK /\ LockInv
    BY DEF TypedInv
  <2>2. Len(submitted) \in Nat /\ Len(submitted) <= MaxEdits
    BY <2>1 DEF TypeOK
  <2> QED BY <2>1, <2>2, DashboardAssumption DEF Accepted, Entries
<1>2. ASSUME NEW s \in Servers, NEW f, StartSync(s, f), Accepted' \subseteq Entries
      PROVE  OrderInv'
  <2>1. /\ phase = "idle" /\ phase' = "fetch" /\ UNCHANGED <<blocked, fates>>
    BY <1>1, <1>2 DEF StartSync, LockFree, LockInv
  <2>2. \A e \in Entries : fates'[e] = "none"
    BY <2>1 DEF OrderInv
  <2> QED BY <1>2, <2>1, <2>2 DEF OrderInv, Replaying
<1>3. ASSUME NEW s \in Servers, NEW op \in Edits, Submit(s, op) PROVE OrderInv'
  <2>1. Accepted' \subseteq Entries
    <3>1. Len(submitted') = Len(submitted) + 1 /\ Len(submitted) < MaxEdits
          /\ Len(submitted) \in Nat
      BY <1>1, <1>3 DEF Submit, TypeOK
    <3> QED BY <3>1, DashboardAssumption DEF Accepted, Entries
  <2> QED BY <1>2, <1>3, <2>1 DEF Submit
<1>4. ASSUME NEW s \in Servers, Retry(s) PROVE OrderInv'
  <2>1. Accepted' = Accepted
    BY <1>4 DEF Retry, edits, Accepted
  <2> QED BY <1>1, <1>2, <1>4, <2>1 DEF Retry
<1>5. ASSUME NEW s \in Servers, Step(s) PROVE OrderInv'
  <2>1. CASE Fetch(s)
    <3>1. CASE Stop("invalid")
      BY <3>1, OrderOver DEF Stop
    <3>2. CASE ~Stop("invalid")
      <4>1. /\ phase = "fetch" /\ phase' = "replay" /\ todo' = pending /\ applied' = {}
            /\ UNCHANGED <<submitted, pending, blocked, fates>>
        BY <2>1, <3>2 DEF Fetch, At, edits, journal, request
      <4>2. Accepted' = Accepted
        BY <4>1 DEF Accepted
      <4> QED BY <4>1, <4>2 DEF OrderInv, Replaying
    <3> QED BY <3>1, <3>2
  <2>2. CASE \E g \in todo : \/ ReplayApplies(s, g) \/ ReplayDrops(s, g)
                             \/ ReplayRecords(s, g) \/ Unqueue(s, g)
    BY <2>2, OrderReplay
  <2>3. CASE FetchFails(s) \/ ReplayFails(s) \/ PushAnswerLost(s) \/ PushFails(s) \/ Acknowledge(s)
    BY <2>3, OrderOver DEF FetchFails, ReplayFails, PushAnswerLost, PushFails, Acknowledge, Stop
  <2>4. CASE ReplayDone(s)
    <3>1. CASE applied = {}
      BY <2>4, <3>1, OrderOver DEF ReplayDone, Stop
    <3>2. CASE applied # {}
      <4>1. /\ phase = "replay" /\ phase' = "push"
            /\ UNCHANGED <<submitted, pending, applied, blocked, fates>>
        BY <2>4, <3>2 DEF ReplayDone, At, loop, edits, journal, request
      <4>2. Accepted' = Accepted
        BY <4>1 DEF Accepted
      <4> QED BY <4>1, <4>2 DEF OrderInv, Replaying, Settled
    <3> QED BY <3>1, <3>2
  <2>5. CASE PushLands(s)
    <3>1. /\ phase = "push" /\ phase' = "landed"
          /\ UNCHANGED <<submitted, pending, applied, blocked, fates>>
      BY <2>5 DEF PushLands, At, run, loop, edits, journal, request
    <3>2. Accepted' = Accepted
      BY <3>1 DEF Accepted
    <3> QED BY <3>1, <3>2 DEF OrderInv, Replaying, Settled
  <2>6. CASE PushRejected(s)
    <3>1. CASE AttemptsLeft(attempt)
      <4>1. /\ phase = "push" /\ phase' = "fetch" /\ UNCHANGED <<submitted, blocked, fates>>
        BY <2>6, <3>1 DEF PushRejected, At, edits, request
      <4>2. Accepted' = Accepted
        BY <4>1 DEF Accepted
      <4> QED BY <4>1, <4>2 DEF OrderInv, Replaying
    <3>2. CASE ~AttemptsLeft(attempt)
      BY <2>6, <3>2, OrderOver DEF PushRejected, Stop
    <3> QED BY <3>1, <3>2
  <2>7. CASE Finish(s)
    BY <2>7, OrderOver DEF Finish, EndSync
  <2> QED BY <1>5, <2>1, <2>2, <2>3, <2>4, <2>5, <2>6, <2>7 DEF Step
<1>6. ASSUME NEW s \in Servers, Crash(s) PROVE OrderInv'
  <2>1. CASE owner = s
    BY <1>6, <2>1, OrderOver DEF Crash, EndSync
  <2>2. CASE owner # s
    BY <1>6, <2>2, OrderKept DEF Crash, run, loop, request, edits, journal
  <2> QED BY <2>1, <2>2
<1>7. ASSUME NEW s \in Servers, Refresh(s) \/ DismissWrite(s) PROVE OrderInv'
  BY <1>7, OrderKept DEF Refresh, DismissWrite, run, loop, request, edits, journal
<1>8. CASE UNCHANGED vars \/ RestoreTree \/ LatePushLands
           \/ (\E doc \in Docs \cup {Broken} : OtherCommit(doc))
           \/ \E s \in Servers, e \in Entries : DismissRead(s, e)
  BY <1>8, OrderKept DEF vars, RestoreTree, LatePushLands, OtherCommit, DismissRead, run,
     loop, request, edits, journal
<1> QED BY <1>3, <1>4, <1>5, <1>6, <1>7, <1>8 DEF Next

(* NoOvertaking holds in every reachable state: of two edits of one watch,  *)
(* the later one is pushed with the earlier one or after it was settled,    *)
(* and never past one that the same sync put aside in any of its attempts.  *)
THEOREM PushedInOrder == Spec => []NoOvertaking
<1>1. Init => OrderInv
  BY DEF Init, OrderInv, Replaying, NoFates
<1>2. OrderInv => NoOvertaking
  BY DEF OrderInv, NoOvertaking, Replaying, Settled
<1>3. TypedInv /\ OrderInv /\ [Next]_vars => OrderInv'
  BY StepOrder
<1> QED BY <1>1, <1>2, <1>3, AlwaysTyped, PTL DEF Spec

----------------------------------------------------------------------------
(* Why the page is told the truth.  A sync remembers of the entries it      *)
(* parked that they are on record and no longer queued; a push takes along  *)
(* all that is queued; and what the request asks for is queued, in place or *)
(* parked, as its own entry or as an equal one.                             *)
FateInv ==
  \A f \in Entries : fates[f] # "none" =>
    f \in Accepted /\ f \in conflicts \cup dismissed /\ f \notin pending

EndInv ==
  /\ phase \in {"push", "landed"} => pending \subseteq applied
  /\ phase = "finish" => outcome # "conflict" /\ (outcome = "pushed" => pending = {})

Known(e) ==
  InPlace(e) \/ \E f \in Accepted : SameEdit(e, f) /\ (f \in pending \/ fates[f] # "none")
WantInv == phase # "idle" /\ focus # 0 => Known(focus)

AnswerInv == FateInv /\ EndInv /\ WantInv

(* What a step may do to the fates and the queue.                           *)
LEMMA FateSteps ==
  ASSUME TypedInv, RecordInv, OrderInv, OneServer, [Next]_vars
  PROVE  \/ fates' = NoFates /\ (phase = "idle" \/ phase' = "idle")
         \/ fates' = fates /\ pending' \subseteq pending
         \/ /\ phase = "park" /\ phase' = "replay"
            /\ \E e \in todo : /\ e \in conflicts' \cup dismissed' /\ pending' = pending \ {e}
                               /\ Fate(e) # "none" /\ fates' = [fates EXCEPT ![e] = Fate(e)]
<1>0. TypeOK /\ LockInv /\ ParkInv
  BY DEF TypedInv
<1>1. ASSUME NEW s \in Servers, NEW e \in todo, Unqueue(s, e)
      PROVE  /\ phase = "park" /\ phase' = "replay"
             /\ e \in conflicts' \cup dismissed' /\ pending' = pending \ {e}
             /\ Fate(e) # "none" /\ fates' = [fates EXCEPT ![e] = Fate(e)]
  <2>1. phase = "park" /\ IsNext(e) /\ conflicts' = conflicts
    BY <1>1 DEF Unqueue, At
  <2>2. Fate(e) \in {"conflict", "invalid"} /\ e \in conflicts
    BY <1>0, <2>1 DEF ParkInv, RecordInv
  <2>3. QED
    BY <1>1, <2>1, <2>2 DEF Unqueue
<1>2. ASSUME NEW s \in Servers, Step(s), ~ \E e \in todo : Unqueue(s, e)
      PROVE  \/ fates' = NoFates /\ phase' = "idle"
             \/ fates' = fates /\ pending' \subseteq pending
  BY <1>2 DEF Step, Fetch, FetchFails, ReplayApplies, ReplayDrops, ReplayRecords,
     ReplayFails, ReplayDone, PushLands, PushAnswerLost, PushFails, PushRejected,
     Acknowledge, Finish, EndSync, run, request, journal
<1>3. ASSUME NEW s \in Servers, Retry(s) \/ \E op \in Edits : Submit(s, op)
      PROVE  fates' = NoFates /\ phase = "idle"
  <2>1. owner = NoServer /\ fates' = fates
    BY <1>3 DEF Retry, Submit, StartSync, LockFree
  <2>2. \A e \in Entries : fates[e] = "none"
    BY <1>0, <2>1 DEF LockInv, OrderInv
  <2>3. fates = NoFates
    <3>1. fates \in [Entries -> {"none", "conflict", "invalid"}]
      BY <1>0 DEF TypeOK
    <3>2. QED
      BY <2>2, <3>1 DEF NoFates
  <2>4. phase = "idle"
    BY <1>0, <2>1 DEF LockInv
  <2>5. QED
    BY <2>1, <2>3, <2>4
<1>4. ASSUME NEW s \in Servers, Refresh(s) \/ DismissWrite(s) \/ Crash(s)
      PROVE  \/ fates' = NoFates /\ phase' = "idle"
             \/ fates' = fates /\ pending' \subseteq pending
  BY <1>4 DEF Refresh, DismissWrite, Crash, EndSync, run, request, journal
<1>5. CASE UNCHANGED vars \/ RestoreTree \/ LatePushLands \/ (\E doc \in Docs \cup {Broken} : OtherCommit(doc))
           \/ \E s \in Servers, e \in Entries : DismissRead(s, e)
  BY <1>5 DEF vars, RestoreTree, LatePushLands, OtherCommit, DismissRead, run, request, journal
<1>6. QED
  BY <1>1, <1>2, <1>3, <1>4, <1>5 DEF Next

LEMMA StepFate ==
  ASSUME TypedInv, RecordInv, OrderInv, FateInv, OneServer, [Next]_vars
  PROVE  FateInv'
<1>1. /\ fates \in [Entries -> {"none", "conflict", "invalid"}]
      /\ todo \subseteq Accepted /\ Accepted \subseteq Accepted'
      /\ conflicts \cup dismissed \subseteq conflicts' \cup dismissed'
  BY EntriesStay, StepDismissal DEF TypedInv, TypeOK
<1>2. CASE fates' = NoFates
  BY <1>2 DEF FateInv, NoFates
<1>3. CASE fates' = fates /\ pending' \subseteq pending
  BY <1>1, <1>3 DEF FateInv
<1>4. ASSUME NEW e \in todo, e \in conflicts' \cup dismissed', pending' = pending \ {e},
             fates' = [fates EXCEPT ![e] = Fate(e)]
      PROVE  FateInv'
  <2>1. \A f \in Entries \ {e} : fates'[f] = fates[f]
    BY <1>1, <1>4
  <2>2. QED
    BY <1>1, <1>4, <2>1 DEF FateInv
<1>5. QED
  BY <1>2, <1>3, <1>4, FateSteps

LEMMA StepEnd ==
  ASSUME TypedInv, OrderInv, EndInv, [Next]_vars
  PROVE  EndInv'
<1>0. LockInv /\ TypeOK
  BY DEF TypedInv
<1>1. ASSUME NEW s \in Servers, Step(s) PROVE EndInv'
  <2>1. CASE ReplayDone(s)
    <3>1. pending \subseteq applied
      BY <2>1 DEF ReplayDone, At, OrderInv
    <3>2. QED
      BY <2>1, <3>1 DEF ReplayDone, Stop, LeaveLoop, EndInv, loop, journal
  <2>2. CASE PushLands(s)
    BY <2>2 DEF PushLands, At, EndInv, run, loop, journal
  <2>3. CASE Acknowledge(s)
    BY <2>3 DEF Acknowledge, At, Stop, EndInv
  <2>4. CASE Fetch(s) \/ PushRejected(s)
    BY <2>4 DEF Fetch, PushRejected, Stop, EndInv
  <2>5. CASE FetchFails(s) \/ ReplayFails(s) \/ PushAnswerLost(s) \/ PushFails(s)
    BY <2>5 DEF FetchFails, ReplayFails, PushAnswerLost, PushFails, Stop, EndInv
  <2>6. CASE Finish(s) \/ \E e \in todo : \/ ReplayApplies(s, e) \/ ReplayDrops(s, e)
                                          \/ ReplayRecords(s, e) \/ Unqueue(s, e)
    BY <2>6 DEF Finish, EndSync, ReplayApplies, ReplayDrops, ReplayRecords, Unqueue, At, EndInv
  <2>7. QED
    BY <1>1, <2>1, <2>2, <2>3, <2>4, <2>5, <2>6 DEF Step
<1>2. CASE \E s \in Servers : Retry(s) \/ \E op \in Edits : Submit(s, op)
  BY <1>2 DEF Retry, Submit, StartSync, EndInv
<1>3. ASSUME UNCHANGED <<phase, pending, applied, outcome>> PROVE EndInv'
  BY <1>3 DEF EndInv
<1>4. ASSUME NEW s \in Servers, Crash(s) PROVE EndInv'
  <2>1. CASE owner = s
    BY <1>4, <2>1 DEF Crash, EndSync, EndInv
  <2>2. CASE owner # s
    BY <1>3, <1>4, <2>2 DEF Crash, run, loop, journal
  <2>3. QED
    BY <2>1, <2>2
<1>5. CASE \E s \in Servers : Refresh(s) \/ DismissWrite(s)
  BY <1>3, <1>5 DEF Refresh, DismissWrite, run, loop, journal
<1>6. CASE UNCHANGED vars \/ RestoreTree \/ LatePushLands \/ (\E doc \in Docs \cup {Broken} : OtherCommit(doc))
           \/ \E s \in Servers, e \in Entries : DismissRead(s, e)
  BY <1>3, <1>6 DEF vars, RestoreTree, LatePushLands, OtherCommit, DismissRead, run, loop, journal
<1>7. QED
  BY <1>1, <1>2, <1>4, <1>5, <1>6 DEF Next

(* Who asked, and whether a sync goes on.                                   *)
LEMMA FocusSteps ==
  ASSUME TypedInv, [Next]_vars, phase' # "idle", focus' # 0
  PROVE  \/ phase # "idle" /\ focus' = focus /\ UNCHANGED submitted
         \/ focus' \in pending' /\ focus' \in Accepted'
<1>0. LockInv /\ TypeOK
  BY DEF TypedInv
<1>1. ASSUME NEW s \in Servers, Step(s)
      PROVE  phase # "idle" /\ focus' = focus /\ UNCHANGED submitted
  BY <1>1 DEF Step, Fetch, FetchFails, ReplayApplies, ReplayDrops, ReplayRecords,
     Unqueue, ReplayFails, ReplayDone, PushLands, PushAnswerLost, PushFails, PushRejected,
     Acknowledge, Finish, EndSync, At, run, request, edits
<1>2. ASSUME NEW s \in Servers, NEW op \in Edits, Submit(s, op)
      PROVE  focus' \in pending' /\ focus' \in Accepted'
  BY <1>0, <1>2 DEF Submit, StartSync, TypeOK, Accepted
<1>3. CASE \E s \in Servers : Retry(s)
  BY <1>3 DEF Retry, StartSync
<1>4. CASE \E s \in Servers : Refresh(s) \/ DismissWrite(s) \/ Crash(s)
  BY <1>4 DEF Refresh, DismissWrite, Crash, EndSync, run, request, edits
<1>5. CASE UNCHANGED vars \/ RestoreTree \/ LatePushLands \/ (\E doc \in Docs \cup {Broken} : OtherCommit(doc))
           \/ \E s \in Servers, e \in Entries : DismissRead(s, e)
  BY <1>5 DEF vars, RestoreTree, LatePushLands, OtherCommit, DismissRead, run, request, edits
<1>6. QED
  BY <1>1, <1>2, <1>3, <1>4, <1>5 DEF Next

(* What takes an entry off the queue leaves what it asks for in place, as a *)
(* fate, or with an equal entry of this replay.                             *)
LEMMA EqualUnqueued ==
  ASSUME TypedInv, KeepInv, [Next]_vars, NEW f \in pending, f \notin pending',
         NEW e \in Accepted, SameEdit(e, f)
  PROVE  \/ fates'[f] # "none"
         \/ InPlace(e)
         \/ \E g \in applied : g \in pending' /\ SameEdit(e, g)
<1>1. TypeOK /\ ParkInv /\ SourceInv /\ CommitInv /\ QueueInv
  BY DEF TypedInv, KeepInv
<1>2. submitted[f].wid = submitted[e].wid /\ submitted[f].result = submitted[e].result
  BY DEF SameEdit
<1>3. PICK s \in Servers : \/ Acknowledge(s) /\ f \in applied
                           \/ f \in todo /\ (ReplayDrops(s, f) \/ Unqueue(s, f))
  BY Unqueuers
<1>4. CASE Acknowledge(s) /\ f \in applied
  <2>1. phase = "landed"
    BY <1>4 DEF Acknowledge, At
  <2>2. HeldSince(origin, since[e], submitted[f].wid, submitted[f].result)
    BY <1>1, <1>4, <2>1 DEF CommitInv
  <2>3. QED
    BY <1>2, <2>2 DEF InPlace
<1>5. CASE f \in todo /\ Unqueue(s, f)
  <2>1. Fate(f) \in {"conflict", "invalid"} /\ fates' = [fates EXCEPT ![f] = Fate(f)]
    BY <1>1, <1>5 DEF ParkInv, Unqueue, At
  <2>2. f \in DOMAIN fates
    <3>1. f \in Accepted /\ Len(submitted) <= MaxEdits /\ Len(submitted) \in Nat
      BY <1>1 DEF TypeOK
    <3>2. f \in Entries
      BY <3>1, DashboardAssumption DEF Accepted, Entries
    <3>3. QED
      BY <1>1, <3>2 DEF TypeOK
  <2>3. QED
    BY <2>1, <2>2
<1>6. CASE f \in todo /\ ReplayDrops(s, f)
  <2>1. /\ phase = "replay" /\ Tip(head)[submitted[f].wid] = submitted[f].result
        /\ pending' = pending \ {f}
    BY <1>6, Dropped
  <2>2. submitted[f].wid \in Watches
    BY <1>1 DEF TypeOK, Accepted, Edits
  <2>3. CASE HeldSince(origin, since[e], submitted[f].wid, submitted[f].result)
    BY <1>2, <2>3 DEF InPlace
  <2>4. ASSUME NEW g \in applied, submitted[g].wid = submitted[f].wid,
               submitted[g].result = submitted[f].result
        PROVE  g \in pending' /\ SameEdit(e, g)
    BY <1>1, <1>2, <1>6, <2>1, <2>4 DEF QueueInv, Replaying, SameEdit
  <2>5. QED
    BY <1>1, <2>1, <2>2, <2>3, <2>4 DEF SourceInv
<1>7. QED
  BY <1>3, <1>4, <1>5, <1>6

LEMMA StepWant ==
  ASSUME TypedInv, KeepInv, OrderInv, WantInv, OneServer, [Next]_vars
  PROVE  WantInv'
<1> SUFFICES ASSUME phase' # "idle", focus' # 0 PROVE Known(focus)'
  BY DEF WantInv
<1>1. TypeOK /\ RecordInv
  BY DEF TypedInv, KeepInv
<1>2. CASE focus' \in pending' /\ focus' \in Accepted'
  BY <1>2 DEF Known, SameEdit
<1>3. ASSUME phase # "idle", focus' = focus, submitted' = submitted,
             \A f \in Accepted : fates[f] # "none" => fates'[f] # "none"
      PROVE  Known(focus)'
  <2>1. Known(focus) /\ focus \in Accepted /\ Accepted' = Accepted
    BY <1>1, <1>3 DEF WantInv, TypeOK, Accepted
  <2>2. since'[focus] = since[focus]
    BY <1>1, <2>1, EntriesStay
  <2>3. ASSUME InPlace(focus) PROVE Known(focus)'
    <3>1. HeldSince(origin', since[focus], submitted[focus].wid, submitted[focus].result)
      BY <1>1, <2>3, OriginGrows DEF InPlace
    <3>2. QED
      BY <1>3, <2>2, <3>1 DEF Known, InPlace, HeldSince
  <2>4. ASSUME NEW f \in Accepted, SameEdit(focus, f), f \in pending' \/ fates'[f] # "none"
        PROVE  Known(focus)'
    BY <1>3, <2>1, <2>4 DEF Known, SameEdit
  <2>5. ASSUME NEW f \in Accepted, SameEdit(focus, f), f \in pending, f \notin pending'
        PROVE  Known(focus)'
    <3>1. applied \subseteq Accepted
      BY <1>1 DEF TypeOK
    <3>2. QED
      BY <2>1, <2>3, <2>4, <2>5, <3>1, EqualUnqueued
  <2>6. QED
    BY <1>3, <2>1, <2>3, <2>4, <2>5 DEF Known
<1>4. CASE phase # "idle" /\ focus' = focus /\ submitted' = submitted
  <2>1. /\ fates \in [Entries -> {"none", "conflict", "invalid"}] /\ todo \subseteq Accepted
        /\ Accepted \subseteq Entries
    <3>1. Len(submitted) \in Nat /\ Len(submitted) <= MaxEdits
      BY <1>1 DEF TypeOK
    <3>2. QED
      BY <1>1, <3>1, DashboardAssumption DEF TypeOK, Accepted, Entries
  <2>2. ASSUME NEW e \in todo, Fate(e) # "none", fates' = [fates EXCEPT ![e] = Fate(e)],
               NEW f \in Accepted, fates[f] # "none"
        PROVE  fates'[f] # "none"
    BY <2>1, <2>2
  <2>3. \A f \in Accepted : fates[f] # "none" => fates'[f] # "none"
    BY <1>1, <1>4, <2>2, FateSteps
  <2>4. QED
    BY <1>3, <1>4, <2>3
<1>5. QED
  BY <1>2, <1>4, FocusSteps

(* server.py: whatever fails, and whatever other edits are queued, the      *)
(* answer the page shows is true of the disk and of origin when it is sent, *)
(* with one server on the clone.                                            *)
THEOREM RepliesAreTrue == OneServer => (Spec => ReplyTruthful)
<1> SUFFICES ASSUME OneServer PROVE Spec => ReplyTruthful
  OBVIOUS
<1> DEFINE Inv == KeepInv /\ OrderInv /\ AnswerInv
<1>1. Init => Inv
  BY DEF Init, KeepInv, SinceInv, QueueInv, SourceInv, CommitInv, RecordInv, Replaying,
     Accepted, JournalFree, OrderInv, NoFates, AnswerInv, FateInv, EndInv, WantInv
<1>2. TypedInv /\ Inv /\ [Next]_vars => Inv'
  BY StepSince, StepQueue, StepSource, StepCommit, StepRecord, StepOrder, StepFate, StepEnd,
     StepWant DEF KeepInv, AnswerInv
<1>3. TypedInv /\ Inv /\ [Next]_vars =>
        \A s \in Servers : Finish(s) /\ focus # 0 => Truthful(focus, Answer, SavedLocally(Answer))
  <2> SUFFICES ASSUME TypedInv, Inv, [Next]_vars, NEW s \in Servers, Finish(s), focus # 0
               PROVE  Truthful(focus, Answer, SavedLocally(Answer))
    OBVIOUS
  <2>1. phase = "finish" /\ pending' = pending /\ Known(focus)
    BY DEF Finish, At, AnswerInv, WantInv
  <2>2. /\ focus \in Accepted /\ outcome \in States
        /\ fates \in [Entries -> {"none", "conflict", "invalid"}]
    BY DEF TypedInv, TypeOK
  <2>3. /\ conflicts \cup dismissed \subseteq conflicts' \cup dismissed'
        /\ Accepted \subseteq Entries
    <3>1. Len(submitted) \in Nat /\ Len(submitted) <= MaxEdits
      BY DEF TypedInv, TypeOK
    <3>2. Accepted \subseteq Entries
      BY <3>1, DashboardAssumption DEF Accepted, Entries
    <3>3. QED
      BY <3>2, StepDismissal DEF KeepInv
  <2>4. \A f \in Accepted : fates[f] # "none" => Parked(f) /\ f \notin pending'
    BY <2>1, <2>3 DEF AnswerInv, FateInv, Parked
  <2>5. InPlace(focus) \/ EqualParked(focus) \/ \E f \in pending' : SameEdit(focus, f)
    BY <2>1, <2>4 DEF Known, EqualParked
  <2>6. outcome # "conflict" /\ (outcome = "pushed" => pending' = {})
    BY <2>1 DEF AnswerInv, EndInv
  <2>7. CASE fates[focus] # "none"
    <3>1. Answer \in {"conflict", "invalid"} /\ Parked(focus) /\ focus \notin pending /\ focus \notin pending'
      BY <2>1, <2>2, <2>3, <2>4, <2>7 DEF Answer
    <3>2. ~SavedLocally(Answer)
      BY <3>1 DEF SavedLocally
    <3>3. QED
      BY <3>1, <3>2 DEF Truthful
  <2>8. CASE fates[focus] = "none"
    <3>1. Answer = outcome
      BY <2>8 DEF Answer
    <3>2. outcome \in {"pushed", "not_pushed", "rejected", "invalid"}
      BY <2>2, <2>6 DEF States
    <3>3. outcome = "pushed" => (InPlace(focus) \/ EqualParked(focus)) /\ focus \notin pending'
      BY <2>5, <2>6
    <3>4. ~SavedLocally(outcome) => focus \notin pending'
      BY <2>1, <3>2, <3>3 DEF SavedLocally
    <3>5. QED
      BY <2>5, <3>1, <3>2, <3>3, <3>4 DEF Truthful
  <2>9. QED
    BY <2>7, <2>8
<1>4. QED
  BY <1>1, <1>2, <1>3, AlwaysTyped, PTL DEF Spec, ReplyTruthful
============================================================================
