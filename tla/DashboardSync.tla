--------------------------- MODULE DashboardSync ---------------------------
(***************************************************************************)
(* The watchlist dashboard's save path (bf_price_monitor/dashboard): edits *)
(* are journaled under the clone's .git directory, replayed as one commit  *)
(* each on a freshly fetched origin, and pushed.  Other writers (the CI    *)
(* persist job, a person on another machine) push to the same branch.      *)
(*                                                                         *)
(* A document is a function from watch ids to contents; origin and the     *)
(* clone's HEAD are sequences of commits; a journal is a set of entry      *)
(* numbers, because pending.jsonl is only appended to and filtered and so  *)
(* stays in submission order.                                              *)
(***************************************************************************)
EXTENDS Naturals, Sequences

CONSTANTS Watches,       \* watch ids
          Values,        \* contents a watch can have
          Absent,        \* the content of a watch that is not in the file
          Broken,        \* a watchlist.json that store.load refuses
          DuplicateKey,  \* the case- and space-insensitive key of each watch
          Servers,       \* dashboard processes using the one clone
          NoServer,      \* nobody holds the clone lock
          MaxEdits,      \* bound: edits submitted
          MaxOthers,     \* bound: commits by other writers
          MaxHistory,    \* bound: a push that would make origin longer fails
          MaxAttempts    \* sync.MAX_ATTEMPTS

Docs == [Watches -> Values \cup {Absent}]
Entries == 1..MaxEdits
Edits == [kind : {"add"}, wid : Watches, expected : {Absent}, result : Values]
           \cup [kind : {"edit"}, wid : Watches, expected : Values, result : Values]
           \cup [kind : {"delete"}, wid : Watches, expected : Values, result : {Absent}]
Commits == [by : Entries \cup {0}, doc : Docs \cup {Broken}]
States == {"pushed", "not_pushed", "rejected", "conflict", "invalid"}
Phases == {"idle", "fetch", "replay", "park", "push", "landed", "finish"}
NoFates == [e \in Entries |-> "none"]

ASSUME DashboardAssumption ==
  /\ Absent \notin Values
  /\ Broken \notin Docs
  /\ NoServer \notin Servers
  /\ MaxEdits \in Nat
  /\ MaxOthers \in Nat
  /\ MaxHistory \in Nat
  /\ MaxAttempts \in Nat \ {0}

VARIABLES
  submitted,   \* the operation of every journal entry ever written, by number
  since,       \* history: how long origin was when the entry was written
  pending,     \* pending.jsonl: entries still queued
  conflicts,   \* conflicts.jsonl: entries recorded as impossible to apply
  dismissed,   \* entries whose conflict record was deleted on purpose
  removing,    \* per server: the entry a running dismissal removes (0: none)
  kept,        \* per server: the other records it read and will write back
  origin,      \* the commits of the remote branch
  head,        \* the commits below the clone's detached HEAD
  late,        \* a pushed history the remote may still accept (<<>>: none)
  dirty,       \* the clone's work tree has uncommitted changes
  owner,       \* holder of the clone lock
  phase,       \* where the owner's sync stands
  todo,        \* entries the running replay has not looked at yet
  applied,     \* entries the running replay committed
  blocked,     \* watches with an entry parked by this sync
  fates,       \* what this sync decided about each entry it parked
  focus,       \* the entry the request is about (0: a plain retry)
  attempt,     \* push attempts of this sync, the running one included
  outcome      \* the state the sync ends with

edits == <<submitted, since>>
journal == <<pending, conflicts>>
dismissal == <<removing, kept>>
repo == <<origin, late, head, dirty>>
loop == <<todo, applied, blocked, attempt>>
request == <<fates, focus>>
run == <<loop, request>>
vars == <<edits, journal, dismissed, dismissal, repo, owner, phase, run, outcome>>

----------------------------------------------------------------------------
(* Operations on documents *)

Tip(h) == h[Len(h)].doc
With(doc, op) == [doc EXCEPT ![op.wid] = op.result]

Duplicate(doc, wid) ==
  \E w \in Watches : doc[w] # Absent /\ DuplicateKey[w] = DuplicateKey[wid]

(* An edit that forgets the exact state the user saw. *)
Verdict_BlindEdit(doc, op) ==
  IF op.kind = "add" /\ doc[op.wid] = Absent /\ Duplicate(doc, op.wid) THEN "invalid"
  ELSE IF doc[op.wid] = op.result THEN "already"
  ELSE "applied"

(* A watch that is gone needs no edit any more. *)
Verdict_GoneIsDone(doc, op) ==
  IF doc[op.wid] = op.expected
  THEN IF op.kind = "add" /\ Duplicate(doc, op.wid) THEN "invalid" ELSE "applied"
  ELSE IF doc[op.wid] \in {op.result, Absent} THEN "already" ELSE "conflict"

Verdict(doc, op) ==
  IF doc[op.wid] = op.expected
  THEN IF op.kind = "add" /\ Duplicate(doc, op.wid) THEN "invalid" ELSE "applied"
  ELSE IF doc[op.wid] = op.result THEN "already" ELSE "conflict"

----------------------------------------------------------------------------
(* What the owner's sync looks at *)

(* Entries are replayed in journal order.                                   *)
IsNext_Newest(e) == e \in todo /\ \A f \in todo : f <= e
IsNext(e) == e \in todo /\ \A f \in todo : e <= f

Fate(e) ==
  IF submitted[e].wid \in blocked THEN "conflict"
  ELSE Verdict(Tip(head), submitted[e])

(* The entry produces a commit: it applies and changes the file. *)
Changes(e) ==
  /\ Fate(e) = "applied"
  /\ With(Tip(head), submitted[e]) # Tip(head)

Committed(e) == Append(head, [by |-> e, doc |-> With(Tip(head), submitted[e])])

(* The replay is somewhere between store.save and git commit.               *)
Saving == phase = "replay" /\ \E e \in todo : IsNext(e) /\ Changes(e)

Shown(w) == {head[i].doc[w] : i \in {j \in DOMAIN head : head[j].doc # Broken}}

(* Git accepts a push without --force only when it is a fast-forward. *)
FastForward(old, new) ==
  /\ Len(old) <= Len(new) /\ Len(new) <= MaxHistory
  /\ \A i \in 1..Len(old) : new[i] = old[i]

(* journal.Journal holds an RLock around each read-modify-write. *)
JournalFree(s) == removing[s] = 0

Released(s) ==
  /\ removing' = [removing EXCEPT ![s] = 0]
  /\ kept' = [kept EXCEPT ![s] = {}]

At(s, p) == owner = s /\ phase = p /\ JournalFree(s)

(* The loop is left, and its local variables with it. *)
LeaveLoop == todo' = {} /\ applied' = {} /\ blocked' = {} /\ attempt' = 0

Stop(state) == phase' = "finish" /\ outcome' = state /\ LeaveLoop

(* The lock is released. *)
EndSync ==
  /\ owner' = NoServer /\ phase' = "idle"
  /\ LeaveLoop
  /\ fates' = NoFates /\ focus' = 0
  /\ outcome' = "pushed"

----------------------------------------------------------------------------
Init ==
  /\ submitted = <<>> /\ since = <<>>
  /\ pending = {} /\ conflicts = {} /\ dismissed = {}
  /\ removing = [s \in Servers |-> 0] /\ kept = [s \in Servers |-> {}]
  /\ \E d \in Docs : origin = <<[by |-> 0, doc |-> d]>>
  /\ head = origin /\ late = <<>>
  /\ dirty = FALSE
  /\ owner = NoServer /\ phase = "idle"
  /\ todo = {} /\ applied = {} /\ blocked = {}
  /\ fates = NoFates
  /\ focus = 0 /\ attempt = 0
  /\ outcome = "pushed"

(* check_clone_ready: anything uncommitted refuses every save. *)
CloneReady == ~dirty

(* A thread lock within the process, a non-waiting byte lock across them. *)
LockFree == owner = NoServer

(* The part submit and retry share: take the lock, start at attempt 1. *)
StartSync(s, f) ==
  /\ CloneReady /\ LockFree /\ JournalFree(s)
  /\ owner' = s /\ phase' = "fetch"
  /\ focus' = f /\ attempt' = 1
  /\ UNCHANGED <<conflicts, dismissed, dismissal, repo, todo, applied, blocked, fates,
                 outcome>>

Submit(s, op) ==
  /\ Len(submitted) < MaxEdits
  /\ op.kind # "add" => op.expected \in Shown(op.wid)
  /\ submitted' = Append(submitted, op)
  /\ since' = Append(since, Len(origin))
  /\ pending' = pending \cup {Len(submitted) + 1}
  /\ StartSync(s, Len(submitted) + 1)

Retry(s) ==
  /\ pending # {}
  /\ StartSync(s, 0)
  /\ UNCHANGED <<edits, pending>>

(* Nothing is queued: detach onto the fetched tip. *)
Refresh(s) ==
  /\ CloneReady /\ LockFree /\ JournalFree(s)
  /\ pending = {}
  /\ head' = origin
  /\ UNCHANGED <<edits, journal, dismissed, dismissal, origin, late, dirty, owner,
                 phase, run, outcome>>

Fetch(s) ==
  /\ At(s, "fetch")
  /\ head' = origin
  /\ IF Tip(origin) = Broken
     THEN Stop("invalid")
     ELSE /\ phase' = "replay" /\ todo' = pending /\ applied' = {}
          /\ UNCHANGED <<blocked, attempt, outcome>>
  /\ UNCHANGED <<edits, journal, dismissed, dismissal, origin, late, dirty, owner,
                 request>>

(* Network failure, a fetch timeout, or git switch refusing. *)
FetchFails(s) ==
  /\ At(s, "fetch")
  /\ Stop("not_pushed")
  /\ UNCHANGED <<edits, journal, dismissed, dismissal, repo, owner, request>>

----------------------------------------------------------------------------
(* One entry of the replay *)

ReplayApplies(s, e) ==
  /\ At(s, "replay") /\ IsNext(e)
  /\ Changes(e)
  /\ head' = Committed(e)
  /\ applied' = applied \cup {e}
  /\ todo' = todo \ {e}
  /\ UNCHANGED <<edits, journal, dismissed, dismissal, origin, late, dirty, owner,
                 phase, blocked, fates, focus, attempt, outcome>>

(* Already there, or nothing changed on disk: un-queued without a commit. *)
ReplayDrops(s, e) ==
  /\ At(s, "replay") /\ IsNext(e)
  /\ Fate(e) \in {"applied", "already"} /\ ~Changes(e)
  /\ pending' = pending \ {e}
  /\ todo' = todo \ {e}
  /\ UNCHANGED <<edits, conflicts, dismissed, dismissal, repo, owner, phase,
                 applied, blocked, fates, focus, attempt, outcome>>

(* move_to_conflicts, first half: the record. *)
ReplayRecords(s, e) ==
  /\ At(s, "replay") /\ IsNext(e)
  /\ Fate(e) \in {"conflict", "invalid"}
  /\ conflicts' = conflicts \cup {e}
  /\ phase' = "park"
  /\ UNCHANGED <<edits, pending, dismissed, dismissal, repo, owner, run, outcome>>

(* Second half: un-queue the entry; only then does the sync note its fate   *)
(* and block its watch.                                                     *)
Unqueue(s, e) ==
  /\ At(s, "park") /\ IsNext(e)
  /\ pending' = pending \ {e}
  /\ blocked' = blocked \cup {submitted[e].wid}
  /\ fates' = [fates EXCEPT ![e] = Fate(e)]
  /\ todo' = todo \ {e}
  /\ phase' = "replay"
  /\ UNCHANGED <<edits, conflicts, dismissed, dismissal, repo, owner, applied,
                 focus, attempt, outcome>>

(* git add, commit or a file write fails, or the commit is made but times   *)
(* out; _discard_edits is best effort.                                      *)
ReplayFails(s) ==
  /\ owner = s /\ phase \in {"replay", "park"} /\ JournalFree(s)
  /\ todo # {}
  /\ \/ UNCHANGED <<head, dirty>>
     \/ Saving /\ dirty' = TRUE /\ UNCHANGED head
     \/ Saving /\ UNCHANGED dirty /\ \E e \in todo : IsNext(e) /\ head' = Committed(e)
  /\ Stop("not_pushed")
  /\ UNCHANGED <<edits, journal, dismissed, dismissal, origin, late, owner, request>>

ReplayDone(s) ==
  /\ At(s, "replay") /\ todo = {}
  /\ IF applied = {} THEN Stop("pushed") ELSE phase' = "push" /\ UNCHANGED <<loop, outcome>>
  /\ UNCHANGED <<edits, journal, dismissed, dismissal, repo, owner, request>>

----------------------------------------------------------------------------
(* The push *)

PushLands(s) ==
  /\ At(s, "push")
  /\ FastForward(origin, head)
  /\ origin' = head /\ late' = <<>>
  /\ phase' = "landed"
  /\ UNCHANGED <<edits, journal, dismissed, dismissal, head, dirty, owner, run,
                 outcome>>

(* The push times out here.  The remote has accepted it, or may still do    *)
(* so after the clone has gone on, as long as its branch has not moved.     *)
PushAnswerLost(s) ==
  /\ At(s, "push")
  /\ FastForward(origin, head)
  /\ \/ origin' = head /\ late' = <<>>
     \/ late' = head /\ UNCHANGED origin
  /\ Stop("not_pushed")
  /\ UNCHANGED <<edits, journal, dismissed, dismissal, head, dirty, owner, request>>

LatePushLands ==
  /\ FastForward(origin, late)
  /\ origin' = late /\ late' = <<>>
  /\ UNCHANGED <<edits, journal, dismissed, dismissal, head, dirty, owner, phase, run,
                 outcome>>

(* Network or authentication failure: nothing reached origin. *)
PushFails(s) ==
  /\ At(s, "push")
  /\ Stop("not_pushed")
  /\ UNCHANGED <<edits, journal, dismissed, dismissal, repo, owner, request>>

NextAttempt_Stuck(n) == n
NextAttempt(n) == n + 1

AttemptsLeft_OneMore(n) == n <= MaxAttempts
AttemptsLeft(n) == n < MaxAttempts

(* Not a fast-forward, or refused by a rule of the remote. *)
PushRejected(s) ==
  /\ At(s, "push")
  /\ IF AttemptsLeft(attempt)
     THEN /\ phase' = "fetch" /\ attempt' = NextAttempt(attempt)
          /\ UNCHANGED <<todo, applied, blocked, outcome>>
     ELSE Stop("rejected")
  /\ UNCHANGED <<edits, journal, dismissed, dismissal, repo, owner, request>>

Acknowledge(s) ==
  /\ At(s, "landed")
  /\ pending' = pending \ applied
  /\ Stop("pushed")
  /\ UNCHANGED <<edits, conflicts, dismissed, dismissal, repo, owner, request>>

----------------------------------------------------------------------------
(* _finish and the HTTP answer *)

ParkedAs(kind) == {e \in Entries : fates[e] = kind}

Answer ==
  IF focus # 0 /\ fates[focus] # "none" THEN fates[focus]
  ELSE IF focus = 0 /\ outcome = "pushed" /\ ParkedAs("conflict") # {} THEN "conflict"
  ELSE IF focus = 0 /\ outcome = "pushed" /\ ParkedAs("invalid") # {} THEN "invalid"
  ELSE outcome

Refused == IF focus # 0 /\ fates[focus] = "invalid" THEN {focus} ELSE {}

SavedLocally_StateOnly(state) == state \in {"not_pushed", "rejected"}
SavedLocally(state) ==
  state \in {"not_pushed", "rejected"} \/ (state = "invalid" /\ focus \in pending)

Finish(s) ==
  /\ At(s, "finish")
  /\ conflicts' = conflicts \ Refused
  /\ dismissed' = dismissed \cup Refused
  /\ EndSync
  /\ UNCHANGED <<edits, pending, dismissal, repo>>

----------------------------------------------------------------------------
(* The dismiss route: it takes neither write_lock nor CloneLock. *)

DismissRead(s, e) ==
  /\ JournalFree(s)
  /\ ~(owner = s /\ phase = "park")
  /\ e \in conflicts
  /\ removing' = [removing EXCEPT ![s] = e]
  /\ kept' = [kept EXCEPT ![s] = conflicts \ {e}]
  /\ UNCHANGED <<edits, journal, dismissed, repo, owner, phase, run, outcome>>

DismissWrite(s) ==
  /\ ~JournalFree(s)
  /\ conflicts' = kept[s]
  /\ dismissed' = dismissed \cup {removing[s]}
  /\ Released(s)
  /\ UNCHANGED <<edits, pending, repo, owner, phase, run, outcome>>

----------------------------------------------------------------------------
(* The process dies, or an exception the routes map to HTTP 500 ends the    *)
(* request (a dismissal goes on): the files stay as they are and the        *)
(* operating system drops the lock.  Between save and commit the work tree  *)
(* is left modified.                                                        *)
Crash(s) ==
  /\ \/ (owner = s \/ ~JournalFree(s)) /\ Released(s)
     \/ owner = s /\ UNCHANGED dismissal
  /\ IF owner = s
     THEN /\ EndSync
          /\ \/ UNCHANGED dirty
             \/ Saving /\ dirty' = TRUE
     ELSE UNCHANGED <<owner, phase, run, outcome, dirty>>
  /\ UNCHANGED <<edits, journal, dismissed, origin, late, head>>

(* The operator follows the start-up hint: git restore. *)
RestoreTree ==
  /\ owner = NoServer /\ dirty
  /\ dirty' = FALSE
  /\ UNCHANGED <<edits, journal, dismissed, dismissal, origin, late, head, owner,
                 phase, run, outcome>>

(* Another writer pushes: an edit of one watch, a commit that leaves the    *)
(* file alone (the price history), a broken file, or its repair.            *)
Foreign == SelectSeq(origin, LAMBDA c : c.by = 0)

OtherCommit(doc) ==
  /\ Len(Foreign) <= MaxOthers
  /\ \/ doc = Broken
     \/ Tip(origin) = Broken /\ doc \in Docs
     \/ doc \in Docs /\ Tip(origin) # Broken
          /\ \E w \in Watches : \A x \in Watches \ {w} : doc[x] = Tip(origin)[x]
  /\ origin' = Append(origin, [by |-> 0, doc |-> doc])
  /\ late' = <<>>
  /\ UNCHANGED <<edits, journal, dismissed, dismissal, head, dirty, owner,
                 phase, run, outcome>>

Step(s) ==
  \/ Fetch(s) \/ FetchFails(s)
  \/ \E e \in todo : \/ ReplayApplies(s, e) \/ ReplayDrops(s, e)
                     \/ ReplayRecords(s, e) \/ Unqueue(s, e)
  \/ ReplayFails(s) \/ ReplayDone(s)
  \/ PushLands(s) \/ PushAnswerLost(s) \/ PushFails(s) \/ PushRejected(s)
  \/ Acknowledge(s) \/ Finish(s)

Next ==
  \/ \E s \in Servers, op \in Edits : Submit(s, op)
  \/ \E s \in Servers : Retry(s) \/ Refresh(s) \/ Step(s) \/ DismissWrite(s) \/ Crash(s)
  \/ \E s \in Servers, e \in Entries : DismissRead(s, e)
  \/ RestoreTree \/ LatePushLands
  \/ \E doc \in Docs \cup {Broken} : OtherCommit(doc)

Spec == Init /\ [][Next]_vars

(* Git subprocesses and network calls all carry a timeout, so a running     *)
(* request takes its next step.  Nothing makes a user press a button.       *)
FairSpec == Spec /\ \A s \in Servers : WF_vars(Step(s)) /\ WF_vars(DismissWrite(s))

----------------------------------------------------------------------------
Accepted == 1..Len(submitted)
Landed == {origin[i].by : i \in DOMAIN origin}

(* Every variable has its type. *)
TypeOK ==
  /\ submitted \in Seq(Edits) /\ Len(submitted) <= MaxEdits
  /\ since \in Seq(Nat) /\ Len(since) = Len(submitted)
  /\ pending \subseteq Accepted /\ conflicts \subseteq Accepted
  /\ dismissed \subseteq Accepted
  /\ removing \in [Servers -> Accepted \cup {0}] /\ kept \in [Servers -> SUBSET Accepted]
  /\ origin \in Seq(Commits) /\ head \in Seq(Commits) /\ late \in Seq(Commits)
  /\ Len(origin) > 0 /\ Len(head) > 0
  /\ dirty \in BOOLEAN
  /\ owner \in Servers \cup {NoServer} /\ phase \in Phases
  /\ todo \subseteq Accepted /\ applied \subseteq Accepted
  /\ blocked \subseteq Watches
  /\ fates \in [Entries -> {"none", "conflict", "invalid"}]
  /\ focus \in Accepted \cup {0}
  /\ attempt \in 0..MaxAttempts
  /\ outcome \in States

(* An edit of the dashboard only ever lands on the exact content its user   *)
(* saw, and changes nothing but its watch (operations.apply, replayed on a  *)
(* fresh tip after every rejected push): nobody else's change is            *)
(* overwritten by a stale edit, nor an invalid duplicate added.             *)
IsEdit(before, after, op) ==
  /\ before \in Docs
  /\ before[op.wid] = op.expected
  /\ op.kind = "add" => ~Duplicate(before, op.wid)
  /\ after = With(before, op)

EditsOnly(h) ==
  \A i \in DOMAIN h :
    h[i].by # 0 => /\ i > 1
                   /\ h[i].by \in Accepted
                   /\ IsEdit(h[i - 1].doc, h[i].doc, submitted[h[i].by])

OwnCommitsAreEdits == EditsOnly(origin)

(* A journaled edit survives failed pushes, crashes and restarts: it leaves *)
(* the journal only when the user dismisses it, when what it asks for has   *)
(* been on origin since it was made, or while an equal edit stays queued.   *)
HeldSince(h, n, w, v) ==
  \E i \in DOMAIN h : i >= n /\ h[i].doc # Broken /\ h[i].doc[w] = v

InPlace(e) == HeldSince(origin, since[e], submitted[e].wid, submitted[e].result)

SameEdit(e, f) ==
  submitted[e].wid = submitted[f].wid /\ submitted[e].result = submitted[f].result

MayLeave(e) ==
  \/ e \in dismissed' \/ InPlace(e)
  \/ \E f \in pending' : SameEdit(e, f)

NoEditLost ==
  [][\A e \in pending \cup conflicts : e \notin pending' \cup conflicts' => MayLeave(e)]_vars

(* Edits of one watch are pushed in the order they were made, and none is   *)
(* pushed past one that this sync put aside, over all of its attempts: an   *)
(* earlier edit goes along, or was settled before the sync began.           *)
NoOvertaking ==
  phase \in {"push", "landed"} =>
    \A f \in applied, e \in Accepted :
      e < f /\ submitted[e].wid = submitted[f].wid =>
        e \in applied \/ (e \notin pending /\ fates[e] = "none")

(* The answer the page shows is true of the disk and of origin when it is   *)
(* sent.  "pushed": what the edit asks for is in place, or an equal edit    *)
(* was parked on the record meanwhile; "conflict": it is on record; "saved  *)
(* locally": it is queued, or its equal is or was parked, or it needed no   *)
(* change; in any other case it is not queued.                              *)
Parked(e) == e \in conflicts' \cup dismissed'
EqualParked(e) == \E f \in Accepted : SameEdit(e, f) /\ fates[f] # "none" /\ Parked(f)

Truthful(e, state, saved) ==
  /\ state = "pushed" => InPlace(e) \/ EqualParked(e)
  /\ state = "conflict" => Parked(e)
  /\ saved => InPlace(e) \/ EqualParked(e) \/ \E f \in pending' : SameEdit(e, f)
  /\ ~saved => e \notin pending'

ReplyTruthful ==
  [][\A s \in Servers :
       Finish(s) /\ focus # 0 => Truthful(focus, Answer, SavedLocally(Answer))]_vars

(* server.py: "pushed: done" -- the submitted edit is on origin.            *)
PushedMeansDone ==
  [][\A s \in Servers :
       Finish(s) /\ focus # 0 /\ Answer = "pushed" => InPlace(focus)]_vars

(* Fetch, replay and push end: the write lock is always released, however   *)
(* often the remote rejects.                                                *)
Syncing == phase # "idle"
SyncTerminates == [](Syncing => <>~Syncing)

(* operations.py: a replay whose push actually landed earlier is "already   *)
(* applied, nothing to do", so an edit on origin is no conflict.            *)
LandedIsNoConflict == Landed \cap conflicts = {}
============================================================================
