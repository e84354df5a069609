------------------------- MODULE FeedbackCollector -------------------------
(***************************************************************************)
(* scripts/feedback.py, bf_price_monitor/storage/feedback.py: button       *)
(* presses wait at Telegram, which hands them out by update id, forgets    *)
(* those below the offset it is asked for, drops what is a day old and may *)
(* restart its ids after a quiet week.  A collector takes a lease, polls,  *)
(* answers the buttons, commits the labels with the offset in one          *)
(* transaction, and confirms.  Several collectors share one database; each *)
(* may stall, overrun its lease or die.                                    *)
(*                                                                         *)
(* Presses are numbered in the order they were made; the unit of time is   *)
(* one that divides the three periods.                                     *)
(***************************************************************************)
EXTENDS Naturals, FiniteSets

CONSTANTS MaxPresses,   \* bound: presses
          MaxNow,       \* bound: days
          MaxId,        \* bound: update ids
          Rater,        \* who made a press, on one alert
          Acceptable,   \* authorized, well formed, about a delivered alert
          Scheduled,    \* collectors that poll once
          Workers,      \* collectors that poll until stopped
          Limit,        \* updates per answer
          Retention,    \* days Telegram keeps an update
          Trust,        \* OFFSET_TRUST_WINDOW
          Quiet         \* days without updates after which ids may restart

ASSUME FeedbackAssumption ==
  /\ MaxPresses \in Nat /\ MaxNow \in Nat /\ MaxId \in Nat /\ Limit \in Nat \ {0}
  /\ Retention \in Nat /\ Trust \in Nat /\ Quiet \in Nat
  /\ Retention < Trust /\ Trust + Retention <= Quiet
  /\ "none" \notin Scheduled \cup Workers /\ "dead" \notin Scheduled \cup Workers

Presses == 1..MaxPresses
Days == 0..MaxNow
Ids == 1..MaxId
Collectors == Scheduled \cup Workers
NoOffset == [last |-> 0, at |-> 0]
NoLease == [holder |-> "none", expired |-> TRUE]

VARIABLES
  made,      \* presses so far
  uid, day,  \* update id and day of each
  pending,   \* what Telegram still holds
  now,
  stored,    \* feedback_consumer_state: last update id, when it was fetched
  rank,      \* alert_feedback: seq of a press's row (0: none)
  received,  \* when the row's batch was fetched
  seq,       \* AUTOINCREMENT
  lease,
  pc, asked,       \* a collector's step, the offset it asks for,
  batch, at,       \* its updates, and when it got them
  committed, \* history: presses some transaction has dealt with
  expired,   \* history: presses Telegram dropped for their age
  erased,    \* history: presses whose row an operator deleted
  overran    \* history: collectors that outlived their lease

telegram == <<made, uid, day, pending, expired>>
database == <<stored, rank, received, seq, committed, erased>>
cycle == <<pc, asked, batch, at>>
collectorVars == <<telegram, now, database, lease, cycle, overran>>

CollectorInit ==
  /\ made = 0 /\ uid = [p \in Presses |-> 0] /\ day = [p \in Presses |-> 0]
  /\ pending = {} /\ now = 0
  /\ stored = NoOffset
  /\ rank = [p \in Presses |-> 0] /\ received = [p \in Presses |-> 0] /\ seq = 0
  /\ lease = NoLease
  /\ pc = [c \in Collectors |-> "idle"] /\ asked = [c \in Collectors |-> 0]
  /\ batch = [c \in Collectors |-> {}] /\ at = [c \in Collectors |-> 0]
  /\ committed = {} /\ expired = {} /\ erased = {} /\ overran = {}

----------------------------------------------------------------------------
(* Telegram. *)

NextIds ==
  IF made = 0 \/ now - day[made] >= Quiet THEN Ids ELSE Ids \cap {uid[made] + 1}

Press ==
  /\ made < MaxPresses
  /\ \E i \in NextIds : uid' = [uid EXCEPT ![made + 1] = i]
  /\ day' = [day EXCEPT ![made + 1] = now]
  /\ made' = made + 1 /\ pending' = pending \cup {made + 1}
  /\ UNCHANGED <<expired, now, database, lease, cycle, overran>>

(* A cycle takes minutes: none spans a day.                                 *)
Tick ==
  /\ now < MaxNow /\ \A c \in Collectors : pc[c] = "idle"
  /\ now' = now + 1
  /\ LET kept == {p \in pending : now' - day[p] <= Retention}
     IN  pending' = kept /\ expired' = expired \cup (pending \ kept)
  /\ UNCHANGED <<made, uid, day, database, lease, cycle, overran>>

Below(offset) == {p \in pending : uid[p] < offset}

FirstOf(S) == {p \in S : Cardinality({q \in S : uid[q] < uid[p]}) < Limit}

----------------------------------------------------------------------------
(* A collector. *)

Acquirable(c) == lease.holder \in {"none", c} \/ lease.expired

Released_Any(c) == NoLease
Released(c) == IF lease.holder = c THEN NoLease ELSE lease

(* The cycle is over.                                                       *)
Idle(c) ==
  /\ pc' = [pc EXCEPT ![c] = "idle"] /\ asked' = [asked EXCEPT ![c] = 0]
  /\ batch' = [batch EXCEPT ![c] = {}] /\ at' = [at EXCEPT ![c] = 0]

(* Without the lease the cycle is over at once.                             *)
Start(c) ==
  /\ pc[c] = "idle"
  /\ IF Acquirable(c)
     THEN /\ lease' = [holder |-> c, expired |-> FALSE]
          /\ pc' = [pc EXCEPT ![c] = "offset"]
     ELSE pc' = [pc EXCEPT ![c] = "done"] /\ UNCHANGED lease
  /\ UNCHANGED <<telegram, now, database, asked, batch, at, overran>>

(* A stored offset counts as a lower bound while the ids cannot have        *)
(* started again.                                                           *)
Trusted_Always == stored # NoOffset
Trusted_Never == FALSE
Trusted == stored # NoOffset /\ now - stored.at < Trust

Offset == IF Trusted THEN stored.last + 1 ELSE 0

ReadOffset(c) ==
  /\ pc[c] = "offset"
  /\ asked' = [asked EXCEPT ![c] = Offset]
  /\ pc' = [pc EXCEPT ![c] = "poll"]
  /\ UNCHANGED <<telegram, now, database, lease, batch, at, overran>>

(* get_updates: Telegram forgets what is below the offset.  The answers to  *)
(* the buttons, which nothing depends on, belong to this step.              *)
Poll(c) ==
  /\ pc[c] = "poll"
  /\ pending' = pending \ Below(asked[c])
  /\ batch' = [batch EXCEPT ![c] = FirstOf(pending')] /\ at' = [at EXCEPT ![c] = now]
  /\ pc' = [pc EXCEPT ![c] = IF pending' = {} THEN "done" ELSE "commit"]
  /\ UNCHANGED <<made, uid, day, expired, now, database, lease, asked, overran>>

(* TelegramError: the request or its answer got lost, or another poller is  *)
(* active.                                                                  *)
PollFails(c) ==
  /\ pc[c] = "poll"
  /\ pending' \in {pending, pending \ Below(asked[c])}
  /\ pc' = [pc EXCEPT ![c] = "done"]
  /\ UNCHANGED <<made, uid, day, expired, now, database, lease, asked, batch, at, overran>>

Last(c) == CHOOSE i \in Ids : (\E p \in batch[c] : uid[p] = i) /\ \A p \in batch[c] : uid[p] <= i

(* Rows for the acceptable presses without one, in the order of their ids.  *)
Fresh_Replace(c) == batch[c] \cap Acceptable
Fresh(c) == {p \in batch[c] \cap Acceptable : rank[p] = 0}

(* ingest_batch.                                                            *)
Commit(c) ==
  /\ pc[c] = "commit"
  /\ rank' = [p \in Presses |-> IF p \in Fresh(c)
                THEN seq + Cardinality({q \in Fresh(c) : uid[q] <= uid[p]}) ELSE rank[p]]
  /\ received' = [p \in Presses |-> IF p \in Fresh(c) THEN at[c] ELSE received[p]]
  /\ seq' = seq + Cardinality(Fresh(c))
  /\ stored' = [last |-> Last(c), at |-> at[c]]
  /\ committed' = committed \cup batch[c]
  /\ pc' = [pc EXCEPT ![c] = "confirm"]
  /\ UNCHANGED <<telegram, now, erased, lease, asked, batch, at, overran>>

(* The transaction fails: the process gives its lease back and ends.        *)
CommitFails(c) ==
  /\ pc[c] = "commit"
  /\ Idle(c) /\ lease' = Released(c)
  /\ UNCHANGED <<telegram, now, database, overran>>

(* The confirmation may be lost: the next poll repeats it.                  *)
Confirm(c) ==
  /\ pc[c] = "confirm"
  /\ pending' \in {pending, pending \ Below(Last(c) + 1)}
  /\ pc' = [pc EXCEPT ![c] = "done"]
  /\ UNCHANGED <<made, uid, day, expired, now, database, lease, asked, batch, at, overran>>

(* A worker goes on under the lease it has; a scheduled run gives it back.  *)
Done(c) ==
  /\ pc[c] = "done"
  /\ Idle(c)
  /\ lease' = IF c \in Scheduled THEN Released(c) ELSE lease
  /\ UNCHANGED <<telegram, now, database, overran>>

(* A worker told to stop.                                                   *)
StopWorker(c) ==
  /\ c \in Workers /\ pc[c] = "idle" /\ lease.holder = c
  /\ lease' = Released(c)
  /\ UNCHANGED <<telegram, now, database, cycle, overran>>

(* The process dies.  A new one has a holder name of its own.               *)
Crash(c) ==
  /\ pc[c] # "idle"
  /\ Idle(c)
  /\ lease' = IF lease.holder = c THEN [lease EXCEPT !.holder = "dead"] ELSE lease
  /\ UNCHANGED <<telegram, now, database, overran>>

OneOverrun == overran = {}   \* bound

LeaseExpires ==
  /\ lease.holder # "none" /\ ~lease.expired
  /\ \A c \in Collectors : lease.holder = c /\ pc[c] # "idle" => OneOverrun
  /\ lease' = [lease EXCEPT !.expired = TRUE]
  /\ overran' = overran \cup {c \in Collectors : lease.holder = c /\ pc[c] # "idle"}
  /\ UNCHANGED <<telegram, now, database, cycle>>

----------------------------------------------------------------------------
(* The operator's commands; neither takes the lease.                        *)

OneDeletion == erased = {}   \* bound

Delete(S) ==
  /\ S # {} /\ OneDeletion
  /\ rank' = [p \in Presses |-> IF p \in S THEN 0 ELSE rank[p]]
  /\ received' = [p \in Presses |-> IF p \in S THEN 0 ELSE received[p]]
  /\ erased' = erased \cup S
  /\ UNCHANGED <<telegram, now, stored, seq, committed, lease, cycle, overran>>

ForgetUser(r) == Delete({p \in Presses : rank[p] # 0 /\ Rater[p] = r})
Purge(before) == Delete({p \in Presses : rank[p] # 0 /\ received[p] < before})

Collect(c) ==
  \/ Start(c) \/ ReadOffset(c) \/ Poll(c) \/ PollFails(c)
  \/ Commit(c) \/ CommitFails(c) \/ Confirm(c) \/ Done(c)
  \/ StopWorker(c) \/ Crash(c)

CollectorNext ==
  \/ Press \/ Tick \/ LeaseExpires
  \/ \E c \in Collectors : Collect(c)
  \/ \E r \in {Rater[p] : p \in Presses} : ForgetUser(r)
  \/ \E before \in Days : Purge(before)

CollectorSpec == CollectorInit /\ [][CollectorNext]_collectorVars

----------------------------------------------------------------------------
FeedbackTypeOK ==
  /\ made \in 0..MaxPresses /\ now \in Days
  /\ uid \in [Presses -> Ids \cup {0}] /\ day \in [Presses -> Days]
  /\ pending \subseteq 1..made
  /\ stored \in [last : Ids \cup {0}, at : Days]
  /\ rank \in [Presses -> Nat] /\ received \in [Presses -> Days] /\ seq \in Nat
  /\ lease \in [holder : Collectors \cup {"none", "dead"}, expired : BOOLEAN]
  /\ pc \in [Collectors -> {"idle", "offset", "poll", "commit", "confirm", "done"}]
  /\ asked \in [Collectors -> Nat]
  /\ batch \in [Collectors -> SUBSET (1..made)] /\ at \in [Collectors -> Days]
  /\ committed \subseteq 1..made /\ expired \subseteq 1..made
  /\ erased \subseteq 1..made /\ overran \subseteq Collectors

(* Telegram never forgets a press before it is committed, except one that   *)
(* waited for more than a day, whatever restarts of the ids, crashes, lost  *)
(* confirmations and overlapping collectors happen.                         *)
NoPressLost == \A p \in 1..made : p \in pending \cup committed \cup expired

(* The label that counts for an alert and a rater is that of the last press *)
(* whose row is there: rows have the order of the presses.                  *)
LatestLabelWins ==
  \A p, q \in Presses :
    p < q /\ Rater[p] = Rater[q] /\ rank[p] # 0 /\ rank[q] # 0 /\ erased = {}
      => rank[p] < rank[q]

(* A deleted label does not come back, though its update may not have been  *)
(* confirmed, as long as no collector outlives its lease.                   *)
ErasedStaysErased == overran = {} => \A p \in erased : rank[p] = 0

(* Two collectors pull updates at a time only if one of them outlived its   *)
(* lease; a collector that did not get it never takes it from the holder.   *)
Pulling(c) == pc[c] \in {"offset", "poll", "commit", "confirm"}
OnePuller ==
  \A c, d \in Collectors : Pulling(c) /\ Pulling(d) /\ c # d => {c, d} \cap overran # {}
============================================================================
