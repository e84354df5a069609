---------------------- MODULE FeedbackCollectorProofs ----------------------
(* Theorems about FeedbackCollector, for every number of presses, days,     *)
(* update ids and collectors.                                               *)
EXTENDS FeedbackCollector, FiniteSetTheorems, TLAPS

(* Presses come in the order of their days; ids rise unless Telegram may    *)
(* have started them again.                                                 *)
Ordered ==
  /\ \A p \in 1..made : uid[p] \in Ids /\ day[p] <= now
  /\ \A p, q \in 1..made : p < q =>
       day[p] <= day[q] /\ (uid[p] < uid[q] \/ day[p] + Quiet <= day[q])

(* What Telegram holds and what a collector holds is at most a day old.      *)
Young ==
  /\ \A p \in pending : now <= day[p] + Retention /\ p \notin expired
  /\ \A c \in Collectors : \A p \in batch[c] : now <= day[p] + Retention /\ p \notin expired

(* A collector holds updates only between the poll and the end of a cycle.  *)
Holding ==
  \A c \in Collectors :
    /\ pc[c] \in {"idle", "offset", "poll"} => batch[c] = {}
    /\ pc[c] \in {"commit", "confirm"} => batch[c] # {} /\ at[c] = now

(* Rows belong to committed presses.                                        *)
Filed ==
  /\ \A p \in Presses : rank[p] # 0 => p \in committed
  /\ \A p \in Presses : rank[p] <= seq
  /\ erased \subseteq committed

BaseInv == FeedbackTypeOK /\ Ordered /\ Young /\ Holding /\ Filed

(* What no transaction has dealt with yet.                                  *)
Waiting == pending \ committed

(* The stored offset and the one a collector asks for are below every press *)
(* that waits, and stay so while Telegram cannot have restarted the ids.    *)
StoredInv ==
  /\ stored # NoOffset =>
       stored.at <= now
       /\ \E s \in 1..made : uid[s] = stored.last /\ stored.at <= day[s] + Retention
  /\ Trusted => \A p \in Waiting : stored.last < uid[p]
AskedInv ==
  \A c \in Collectors : pc[c] = "poll" /\ asked[c] # 0 =>
    /\ \E s \in 1..made : asked[c] = uid[s] + 1 /\ now < day[s] + Quiet
    /\ \A p \in Waiting : asked[c] <= uid[p]

(* A press that waits is in the batch or has a higher id than all of it.    *)
BatchInv ==
  \A c \in Collectors : \A p \in Waiting, b \in batch[c] :
    /\ pc[c] = "commit" => p \in batch[c] \/ uid[b] < uid[p]
    /\ pc[c] = "confirm" => uid[b] < uid[p]
WaitInv == NoPressLost /\ StoredInv /\ AskedInv /\ BatchInv

(* What was made before a committed press is committed or too old, so rows  *)
(* are given in the order of the presses.                                   *)
OrderInv ==
  /\ \A p, q \in 1..made : p < q /\ q \in committed => p \in committed \cup expired
  /\ erased = {} => \A p \in committed \cap Acceptable : rank[p] # 0
  /\ erased = {} => \A p, q \in Presses :
       p < q /\ rank[p] # 0 /\ rank[q] # 0 => rank[p] < rank[q]

(* Who pulls in time has the lease.                                         *)
LeaseInv ==
  \A c \in Collectors : Pulling(c) /\ c \notin overran =>
    lease.holder = c /\ ~lease.expired

(* While no collector outlives its lease, a committed press that Telegram   *)
(* still holds is below the stored offset, and in nobody's batch.           *)
SerialInv ==
  overran = {} =>
    /\ \A p \in erased : rank[p] = 0
    /\ \A p \in pending \cap committed : uid[p] <= stored.last /\ day[p] <= stored.at
    /\ \A c \in Collectors :
         /\ pc[c] = "poll" => \A p \in pending \cap committed : uid[p] < asked[c]
         /\ pc[c] = "commit" =>
              pending \cap committed = {} /\ batch[c] \cap committed = {}

LEMMA Smallest ==
  ASSUME NEW S \in SUBSET Nat, S # {}
  PROVE  \E m \in S : \A k \in S : m <= k
<1>1. PICK m \in S : \A k \in S : <<k, m>> \notin OpToRel(<, Nat)
  BY WFMin, NatLessThanWellFounded, Zenon
<1>2. \A k \in S : ~(k < m)
  BY <1>1, Zenon DEF OpToRel
<1>3. QED
  BY <1>2

(* The press with the lowest id of a set.                                   *)
LEMMA LowestId ==
  ASSUME NEW S, S # {}, \A p \in S : uid[p] \in Nat
  PROVE  \E m \in S : \A k \in S : uid[m] <= uid[k]
<1> DEFINE T == {uid[p] : p \in S}
<1>1. T \in SUBSET Nat /\ T # {}
  OBVIOUS
<1>2. PICK i \in T : \A k \in T : i <= k
  BY <1>1, Smallest
<1>3. QED
  BY <1>2

(* The press with the highest id of a set.                                  *)
LEMMA HighestId ==
  ASSUME NEW S, S # {}, \A p \in S : uid[p] \in Ids
  PROVE  \E m \in S : \A k \in S : uid[k] <= uid[m]
<1> DEFINE T == {MaxId - uid[p] : p \in S}
<1>1. T \in SUBSET Nat /\ T # {}
  BY FeedbackAssumption DEF Ids
<1>2. PICK i \in T : \A k \in T : i <= k
  BY <1>1, Smallest
<1>3. PICK m \in S : i = MaxId - uid[m]
  BY <1>2
<1>4. ASSUME NEW k \in S PROVE uid[k] <= uid[m]
  <2>1. MaxId - uid[m] <= MaxId - uid[k]
    BY <1>2, <1>3
  <2>2. MaxId \in Nat /\ uid[m] \in Nat /\ uid[k] \in Nat
    BY FeedbackAssumption DEF Ids
  <2>3. QED
    BY <2>1, <2>2
<1>5. QED
  BY <1>4

(* The last id of a batch is the id of one of its presses.                  *)
LEMMA LastFacts ==
  ASSUME NEW c, batch[c] # {}, \A p \in batch[c] : uid[p] \in Ids
  PROVE  /\ Last(c) \in Ids
         /\ \E b \in batch[c] : uid[b] = Last(c)
         /\ \A p \in batch[c] : uid[p] <= Last(c)
<1>1. PICK m \in batch[c] : \A k \in batch[c] : uid[k] <= uid[m]
  BY HighestId
<1>2. \E i \in Ids : (\E p \in batch[c] : uid[p] = i) /\ \A p \in batch[c] : uid[p] <= i
  BY <1>1
<1>3. QED
  BY <1>2 DEF Last

(* A batch has the lowest ids of what is pending, and is not empty.         *)
LEMMA FirstFacts ==
  ASSUME NEW S \in SUBSET (1..made), made \in Nat, S # {}, \A p \in S : uid[p] \in Ids
  PROVE  /\ FirstOf(S) \subseteq S /\ FirstOf(S) # {}
         /\ \A p \in FirstOf(S), q \in S : q \in FirstOf(S) \/ uid[p] < uid[q]
<1> DEFINE lower(p) == {q \in S : uid[q] < uid[p]}
<1>0. \A p \in S : uid[p] \in Nat
  BY DEF Ids
<1>1. IsFiniteSet(S)
  <2>1. IsFiniteSet(1..made)
    BY FS_Interval
  <2>2. QED
    BY <2>1, FS_Subset
<1>2. \A p \in S : IsFiniteSet(lower(p)) /\ Cardinality(lower(p)) \in Nat
  <2>1. \A p \in S : lower(p) \subseteq S
    OBVIOUS
  <2> HIDE DEF lower
  <2>2. \A p \in S : IsFiniteSet(lower(p))
    BY <1>1, <2>1, FS_Subset
  <2>3. QED
    BY <2>2, FS_CardinalityType
<1>3. PICK m \in S : \A k \in S : uid[m] <= uid[k]
  BY <1>0, LowestId
<1>4. lower(m) = {}
  <2>1. \A k \in S : ~(uid[k] < uid[m])
    BY <1>0, <1>3
  <2>2. QED
    BY <2>1
<1>5. m \in FirstOf(S)
  <2>1. Cardinality(lower(m)) < Limit
    BY <1>4, FS_EmptySet, FeedbackAssumption
  <2>2. QED
    BY <2>1 DEF FirstOf
<1>6. ASSUME NEW p \in FirstOf(S), NEW q \in S, ~(uid[p] < uid[q])
      PROVE  q \in FirstOf(S)
  <2>1. p \in S /\ Cardinality(lower(p)) < Limit
    BY DEF FirstOf
  <2>2. lower(q) \subseteq lower(p)
    <3>1. \A r \in S : uid[r] < uid[q] => uid[r] < uid[p]
      BY <1>0, <1>6, <2>1
    <3>2. QED
      BY <3>1
  <2>3. Cardinality(lower(q)) <= Cardinality(lower(p))
    <3> HIDE DEF lower
    <3>1. QED
      BY <1>2, <2>1, <2>2, FS_Subset
  <2>4. Cardinality(lower(q)) < Limit
    <3> HIDE DEF lower
    <3>1. QED
      BY <1>2, <2>1, <2>3, FeedbackAssumption
  <2>5. QED
    BY <2>4 DEF FirstOf
<1>7. QED
  BY <1>5, <1>6 DEF FirstOf

LEMMA Constants ==
  /\ MaxPresses \in Nat /\ MaxNow \in Nat /\ MaxId \in Nat
  /\ Retention \in Nat /\ Trust \in Nat /\ Quiet \in Nat
  /\ Retention < Trust /\ Trust + Retention <= Quiet /\ Retention < Quiet
BY FeedbackAssumption

(* The numbers of a press that was made.                                    *)
LEMMA Numbers ==
  ASSUME FeedbackTypeOK
  PROVE  /\ made \in Nat /\ now \in Nat /\ stored.last \in Nat /\ stored.at \in Nat
         /\ 1..made \subseteq Presses
         /\ \A p \in Presses : uid[p] \in Nat /\ day[p] \in Nat
         /\ \A c \in Collectors : asked[c] \in Nat /\ at[c] \in Nat
<1>1. made \in Nat /\ 1..made \subseteq Presses
  BY Constants DEF FeedbackTypeOK, Presses
<1>2. Ids \cup {0} \subseteq Nat /\ Days \subseteq Nat
  BY Constants DEF Ids, Days
<1>3. stored.last \in Ids \cup {0} /\ stored.at \in Days
  BY DEF FeedbackTypeOK
<1>4. uid \in [Presses -> Ids \cup {0}] /\ day \in [Presses -> Days]
  BY DEF FeedbackTypeOK
<1>5. asked \in [Collectors -> Nat] /\ at \in [Collectors -> Days] /\ now \in Days
  BY DEF FeedbackTypeOK
<1>6. QED
  BY <1>1, <1>2, <1>3, <1>4, <1>5

(* Presses close in time have the order of their ids.                       *)
LEMMA CloseIds ==
  ASSUME FeedbackTypeOK, Ordered, NEW p \in 1..made, NEW q \in 1..made, p < q,
         day[q] < day[p] + Quiet
  PROVE  uid[p] < uid[q]
<1>1. day[p] \in Nat /\ day[q] \in Nat /\ Quiet \in Nat
  BY Numbers, Constants
<1>2. QED
  BY <1>1 DEF Ordered

----------------------------------------------------------------------------
(* Types. *)

LEMMA InitBase == CollectorInit => BaseInv
<1> SUFFICES ASSUME CollectorInit PROVE BaseInv
  OBVIOUS
<1>1. 0 \in Days /\ 0 \in 0..MaxPresses
  BY Constants DEF Days
<1>2. NoOffset \in [last : Ids \cup {0}, at : Days]
  BY <1>1 DEF NoOffset
<1>3. NoLease \in [holder : Collectors \cup {"none", "dead"}, expired : BOOLEAN]
  BY DEF NoLease
<1>4. 1..made = {}
  BY DEF CollectorInit
<1>5. FeedbackTypeOK
  BY <1>1, <1>2, <1>3 DEF CollectorInit, FeedbackTypeOK
<1>6. QED
  BY <1>4, <1>5 DEF CollectorInit, BaseInv, Ordered, Young, Holding, Filed

(* What an action does not mention keeps its type.                          *)
LEMMA PressTyped ==
  ASSUME BaseInv, Press
  PROVE  /\ FeedbackTypeOK' /\ made' = made + 1 /\ made' \in 1..MaxPresses
         /\ \E i \in NextIds : uid' = [uid EXCEPT ![made + 1] = i] /\ i \in Ids
         /\ \A p \in 1..made : uid'[p] = uid[p] /\ day'[p] = day[p]
         /\ day'[made + 1] = now
<1>1. FeedbackTypeOK
  BY DEF BaseInv
<1>2. made' = made + 1 /\ made' \in 1..MaxPresses /\ 1..made \subseteq 1..made'
  BY <1>1, Numbers, Constants DEF Press, FeedbackTypeOK
<1>3. PICK i \in NextIds : uid' = [uid EXCEPT ![made + 1] = i]
  BY DEF Press
<1>4. i \in Ids
  BY DEF NextIds
<1>5. uid' \in [Presses -> Ids \cup {0}] /\ day' \in [Presses -> Days]
  BY <1>1, <1>3, <1>4 DEF Press, FeedbackTypeOK
<1>6. pending' \subseteq 1..made'
  BY <1>1, <1>2, Numbers DEF Press, FeedbackTypeOK
<1>7. made' \in 0..MaxPresses
  BY <1>2, Constants
<1>8. FeedbackTypeOK'
  <2> HIDE <1>3
  <2>1. UNCHANGED <<expired, now, database, lease, cycle, overran>>
    BY DEF Press
  <2>2. batch \in [Collectors -> SUBSET (1..made')]
    BY <1>1, <1>2 DEF FeedbackTypeOK
  <2>3. committed \subseteq 1..made' /\ expired \subseteq 1..made' /\ erased \subseteq 1..made'
    BY <1>1, <1>2 DEF FeedbackTypeOK
  <2>4. QED
    BY <1>1, <1>5, <1>6, <1>7, <2>1, <2>2, <2>3 DEF FeedbackTypeOK, database, cycle
<1>9. made + 1 \in Presses
  BY <1>2 DEF Presses
<1>10. \A p \in 1..made : p # made + 1 /\ p \in Presses
  BY <1>1, Numbers
<1>11. QED
  BY <1>1, <1>2, <1>3, <1>4, <1>8, <1>9, <1>10 DEF Press, FeedbackTypeOK

LEMMA PressBase ==
  ASSUME BaseInv, Press
  PROVE  BaseInv' /\ \A p \in 1..made : now < day[p] + Quiet => uid[p] < uid'[made + 1]
<1>1. FeedbackTypeOK /\ FeedbackTypeOK'
  BY PressTyped DEF BaseInv
<1>2. /\ made' = made + 1 /\ day'[made + 1] = now /\ now' = now
      /\ \A p \in 1..made : uid'[p] = uid[p] /\ day'[p] = day[p]
  BY PressTyped DEF Press
<1>3. uid'[made + 1] \in NextIds /\ uid'[made + 1] \in Ids
  <2>1. PICK i \in NextIds : uid' = [uid EXCEPT ![made + 1] = i] /\ i \in Ids
    BY PressTyped
  <2>2. made + 1 \in Presses
    BY PressTyped DEF Presses
  <2>3. QED
    BY <1>1, <2>1, <2>2 DEF FeedbackTypeOK
<1>4. /\ made \in Nat /\ now \in Nat /\ Quiet \in Nat /\ uid'[made + 1] \in Nat
      /\ \A p \in 1..made : uid[p] \in Nat /\ day[p] \in Nat /\ day[p] <= now
  BY <1>1, <1>3, Numbers, Constants DEF Ids, BaseInv, Ordered
<1>5. ASSUME NEW p \in 1..made PROVE uid[p] < uid'[made + 1] \/ day[p] + Quiet <= now
  <2>1. made \in 1..made
    BY <1>4
  <2>2. CASE now - day[made] >= Quiet
    <3>1. day[p] <= day[made]
      BY <1>4, <2>1 DEF BaseInv, Ordered
    <3>2. QED
      BY <1>4, <2>1, <2>2, <3>1
  <2>3. CASE ~(now - day[made] >= Quiet)
    <3>1. uid'[made + 1] = uid[made] + 1
      BY <1>3, <1>4, <2>1, <2>3 DEF NextIds
    <3>2. p = made \/ uid[p] < uid[made] \/ day[p] + Quiet <= day[made]
      BY <1>4, <2>1 DEF BaseInv, Ordered
    <3>3. QED
      BY <1>4, <2>1, <3>1, <3>2
  <2>4. QED
    BY <2>2, <2>3
<1>6. Ordered'
  <2>1. 1..made' = 1..made \cup {made + 1}
    BY <1>2, <1>4
  <2>2. \A p \in 1..made' : uid'[p] \in Ids /\ day'[p] <= now'
    BY <1>2, <1>3, <1>4, <2>1 DEF BaseInv, Ordered
  <2>3. ASSUME NEW p \in 1..made', NEW q \in 1..made', p < q
        PROVE  day'[p] <= day'[q] /\ (uid'[p] < uid'[q] \/ day'[p] + Quiet <= day'[q])
    <3>1. p \in 1..made
      BY <1>2, <1>4, <2>3
    <3>2. CASE q = made + 1
      BY <1>2, <1>4, <1>5, <3>1, <3>2
    <3>3. CASE q \in 1..made
      BY <1>2, <2>3, <3>1, <3>3 DEF BaseInv, Ordered
    <3>4. QED
      BY <2>1, <3>2, <3>3
  <2>4. QED
    BY <2>2, <2>3 DEF Ordered
<1>7. Young'
  <2>1. pending' = pending \cup {made + 1} /\ UNCHANGED <<expired, batch, now>>
    BY DEF Press, cycle
  <2>2. made + 1 \notin expired /\ now <= now + Retention
    BY <1>1, <1>4, Constants DEF FeedbackTypeOK
  <2>3. pending \subseteq 1..made /\ \A c \in Collectors : batch[c] \subseteq 1..made
    BY <1>1 DEF FeedbackTypeOK
  <2>4. QED
    BY <1>2, <2>1, <2>2, <2>3 DEF BaseInv, Young
<1>8. Holding' /\ Filed'
  BY DEF BaseInv, Holding, Filed, Press, cycle, database
<1>9. \A p \in 1..made : now < day[p] + Quiet => uid[p] < uid'[made + 1]
  BY <1>4, <1>5
<1>10. QED
  BY <1>1, <1>6, <1>7, <1>8, <1>9 DEF BaseInv

LEMMA TickBase ==
  ASSUME BaseInv, Tick
  PROVE  BaseInv'
<1>1. FeedbackTypeOK /\ now \in Nat /\ \A p \in 1..made : day[p] \in Nat
  BY Numbers DEF BaseInv
<1>2. /\ now' = now + 1 /\ pending' \subseteq pending /\ expired' = expired \cup (pending \ pending')
      /\ \A p \in pending' : now' <= day[p] + Retention
      /\ \A c \in Collectors : pc[c] = "idle"
      /\ UNCHANGED <<made, uid, day, database, lease, cycle, overran>>
  BY <1>1, Constants, Numbers DEF Tick, FeedbackTypeOK
<1>3. now' \in Days
  BY <1>1, Constants DEF Tick, FeedbackTypeOK, Days
<1>4. FeedbackTypeOK'
  BY <1>1, <1>2, <1>3 DEF FeedbackTypeOK, database, cycle
<1>5. \A c \in Collectors : batch'[c] = {}
  BY <1>2 DEF BaseInv, Holding, cycle
<1>6. Ordered'
  BY <1>1, <1>2 DEF BaseInv, Ordered
<1>7. Young'
  BY <1>2, <1>5 DEF BaseInv, Young
<1>8. Holding' /\ Filed'
  BY <1>2, <1>5 DEF BaseInv, Holding, Filed, cycle, database
<1>9. QED
  BY <1>4, <1>6, <1>7, <1>8 DEF BaseInv

LEMMA DeleteBase ==
  ASSUME BaseInv, NEW S, Delete(S), \A p \in S : p \in Presses /\ rank[p] # 0
  PROVE  BaseInv'
<1>1. /\ rank' = [p \in Presses |-> IF p \in S THEN 0 ELSE rank[p]]
      /\ received' = [p \in Presses |-> IF p \in S THEN 0 ELSE received[p]]
      /\ erased' = erased \cup S
      /\ UNCHANGED <<telegram, now, stored, seq, committed, lease, cycle, overran>>
  BY DEF Delete
<1>2. 0 \in Days /\ 0 \in Nat
  BY Constants DEF Days
<1>3. rank' \in [Presses -> Nat] /\ received' \in [Presses -> Days]
  BY <1>1, <1>2 DEF BaseInv, FeedbackTypeOK
<1>4. S \subseteq committed /\ committed \subseteq 1..made
  BY DEF BaseInv, Filed, FeedbackTypeOK
<1>5. FeedbackTypeOK'
  BY <1>1, <1>3, <1>4 DEF BaseInv, FeedbackTypeOK, telegram, cycle
<1>6. Ordered' /\ Young' /\ Holding'
  BY <1>1 DEF BaseInv, Ordered, Young, Holding, telegram, cycle
<1>7. seq \in Nat /\ \A p \in Presses : rank'[p] = IF p \in S THEN 0 ELSE rank[p]
  BY <1>1 DEF BaseInv, FeedbackTypeOK
<1>8. Filed'
  BY <1>1, <1>4, <1>7 DEF BaseInv, Filed
<1>9. QED
  BY <1>5, <1>6, <1>8 DEF BaseInv

LEMMA LeaseBase ==
  ASSUME BaseInv, LeaseExpires
  PROVE  BaseInv'
<1>1. FeedbackTypeOK /\ lease' = [lease EXCEPT !.expired = TRUE]
      /\ overran' = overran \cup {c \in Collectors : lease.holder = c /\ pc[c] # "idle"}
      /\ UNCHANGED <<telegram, now, database, cycle>>
  BY DEF BaseInv, LeaseExpires
<1>2. lease' \in [holder : Collectors \cup {"none", "dead"}, expired : BOOLEAN]
  BY <1>1 DEF FeedbackTypeOK
<1>3. overran' \subseteq Collectors
  BY <1>1 DEF FeedbackTypeOK
<1>4. FeedbackTypeOK'
  <2> HIDE <1>1
  <2>1. FeedbackTypeOK /\ UNCHANGED <<telegram, now, database, cycle>>
    BY <1>1
  <2>2. QED
    BY <1>2, <1>3, <2>1 DEF FeedbackTypeOK, telegram, database, cycle
<1>5. QED
  BY <1>1, <1>4
     DEF BaseInv, Ordered, Young, Holding, Filed, telegram, database, cycle

Leases == [holder : Collectors \cup {"none", "dead"}, expired : BOOLEAN]

LEMMA LeaseTypes ==
  /\ NoLease \in Leases
  /\ \A c \in Collectors : [holder |-> c, expired |-> FALSE] \in Leases
  /\ \A l \in Leases : [l EXCEPT !.holder = "dead"] \in Leases
BY DEF Leases, NoLease

(* Ending a cycle leaves the collector with nothing.                        *)
LEMMA IdleBase ==
  ASSUME BaseInv, NEW c \in Collectors, Idle(c), lease' \in {NoLease, lease, [lease EXCEPT !.holder = "dead"]},
         UNCHANGED <<telegram, now, database, overran>>
  PROVE  BaseInv'
<1>1. FeedbackTypeOK /\ 0 \in Days /\ 0 \in Nat
  BY Constants DEF BaseInv, Days
<1>2. lease' \in [holder : Collectors \cup {"none", "dead"}, expired : BOOLEAN]
  <2>1. lease \in Leases
    BY <1>1 DEF FeedbackTypeOK, Leases
  <2>2. lease' \in Leases
    BY <2>1, LeaseTypes
  <2>3. QED
    BY <2>2 DEF Leases
<1>3. /\ pc' = [pc EXCEPT ![c] = "idle"] /\ asked' = [asked EXCEPT ![c] = 0]
      /\ batch' = [batch EXCEPT ![c] = {}] /\ at' = [at EXCEPT ![c] = 0]
  BY DEF Idle
<1>4. pc' \in [Collectors -> {"idle", "offset", "poll", "commit", "confirm", "done"}]
  BY <1>1, <1>3 DEF FeedbackTypeOK
<1>5. asked' \in [Collectors -> Nat] /\ at' \in [Collectors -> Days]
  BY <1>1, <1>3 DEF FeedbackTypeOK
<1>6. batch' \in [Collectors -> SUBSET (1..made)]
  BY <1>1, <1>3 DEF FeedbackTypeOK
<1>7. FeedbackTypeOK'
  BY <1>1, <1>2, <1>4, <1>5, <1>6 DEF FeedbackTypeOK, telegram, database
<1>8. \A d \in Collectors :
        /\ pc'[d] = IF d = c THEN "idle" ELSE pc[d]
        /\ batch'[d] = IF d = c THEN {} ELSE batch[d]
        /\ at'[d] = IF d = c THEN 0 ELSE at[d]
  BY <1>1, <1>3 DEF FeedbackTypeOK
<1>9. Ordered' /\ Filed'
  BY DEF BaseInv, Ordered, Filed, telegram, database
<1>10. Young' /\ Holding'
  BY <1>8 DEF BaseInv, Young, Holding, telegram
<1>11. QED
  BY <1>7, <1>9, <1>10 DEF BaseInv

LEMMA StartBase ==
  ASSUME BaseInv, NEW c \in Collectors, Start(c) \/ ReadOffset(c) \/ StopWorker(c)
  PROVE  BaseInv'
<1>1. FeedbackTypeOK
  BY DEF BaseInv
<1>2. UNCHANGED <<telegram, now, database, batch, at, overran>>
  BY DEF Start, ReadOffset, StopWorker, cycle
<1>3. lease' \in [holder : Collectors \cup {"none", "dead"}, expired : BOOLEAN]
  <2>1. lease' \in {lease, NoLease, [holder |-> c, expired |-> FALSE]}
    BY DEF Start, ReadOffset, StopWorker, Released
  <2>2. lease \in Leases
    BY <1>1 DEF FeedbackTypeOK, Leases
  <2>3. lease' \in Leases
    BY <2>1, <2>2, LeaseTypes
  <2>4. QED
    BY <2>3 DEF Leases
<1>4. \/ pc' = pc
      \/ pc[c] \in {"idle", "offset"} /\ \E s \in {"offset", "poll", "done"} : pc' = [pc EXCEPT ![c] = s]
  BY DEF Start, ReadOffset, StopWorker, cycle
<1>5. Offset \in Nat
  BY <1>1, Numbers DEF Offset
<1>6. asked' \in [Collectors -> Nat]
  BY <1>1, <1>5 DEF Start, ReadOffset, StopWorker, cycle, FeedbackTypeOK
<1>7. pc' \in [Collectors -> {"idle", "offset", "poll", "commit", "confirm", "done"}]
  BY <1>1, <1>4 DEF FeedbackTypeOK
<1>8. FeedbackTypeOK'
  BY <1>1, <1>2, <1>3, <1>6, <1>7 DEF FeedbackTypeOK, telegram, database
<1>9. \A d \in Collectors : pc'[d] = pc[d] \/ (pc[d] \in {"idle", "offset"}
                                             /\ pc'[d] \in {"offset", "poll", "done"})
  BY <1>1, <1>4 DEF FeedbackTypeOK
<1>10. Holding'
  BY <1>2, <1>9 DEF BaseInv, Holding
<1>11. Ordered' /\ Young' /\ Filed'
  BY <1>2 DEF BaseInv, Ordered, Young, Filed, telegram, database
<1>12. QED
  BY <1>8, <1>10, <1>11 DEF BaseInv

(* What a poll leaves at Telegram and brings to the collector.              *)
LEMMA PollFacts ==
  ASSUME BaseInv, NEW c \in Collectors, Poll(c)
  PROVE  /\ pending' = pending \ Below(asked[c]) /\ pending' \subseteq 1..made
         /\ \A d \in Collectors : d # c =>
              pc'[d] = pc[d] /\ batch'[d] = batch[d] /\ at'[d] = at[d]
         /\ batch'[c] \subseteq pending' /\ at'[c] = now
         /\ \/ pc'[c] = "done" /\ pending' = {}
            \/ pc'[c] = "commit" /\ batch'[c] # {}
         /\ \A b \in batch'[c], p \in pending' : p \in batch'[c] \/ uid[b] < uid[p]
<1>1. FeedbackTypeOK /\ made \in Nat
  BY Numbers DEF BaseInv
<1>2. /\ pending' = pending \ Below(asked[c]) /\ pending' \subseteq 1..made
      /\ \A p \in pending' : uid[p] \in Ids
  BY <1>1 DEF BaseInv, Ordered, Poll, FeedbackTypeOK
<1>3. /\ batch' = [batch EXCEPT ![c] = FirstOf(pending')] /\ at' = [at EXCEPT ![c] = now]
      /\ pc' = [pc EXCEPT ![c] = IF pending' = {} THEN "done" ELSE "commit"]
  BY DEF Poll
<1>4. /\ \A d \in Collectors : d # c => pc'[d] = pc[d] /\ batch'[d] = batch[d] /\ at'[d] = at[d]
      /\ batch'[c] = FirstOf(pending') /\ at'[c] = now
      /\ pc'[c] = IF pending' = {} THEN "done" ELSE "commit"
  BY <1>1, <1>3 DEF FeedbackTypeOK
<1>5. FirstOf(pending') \subseteq pending'
  BY DEF FirstOf
<1>6. CASE pending' = {}
  BY <1>2, <1>4, <1>5, <1>6
<1>7. CASE pending' # {}
  <2>1. /\ FirstOf(pending') # {}
        /\ \A p \in FirstOf(pending'), q \in pending' : q \in FirstOf(pending') \/ uid[p] < uid[q]
    BY <1>1, <1>2, <1>7, FirstFacts
  <2>2. QED
    BY <1>2, <1>4, <1>5, <1>7, <2>1
<1>8. QED
  BY <1>6, <1>7

LEMMA PollBase ==
  ASSUME BaseInv, NEW c \in Collectors, Poll(c)
  PROVE  BaseInv'
<1>1. FeedbackTypeOK
  BY DEF BaseInv
<1>2. UNCHANGED <<made, uid, day, expired, now, database, lease, asked, overran>>
  BY DEF Poll
<1>3. pc' \in [Collectors -> {"idle", "offset", "poll", "commit", "confirm", "done"}]
  BY <1>1 DEF Poll, FeedbackTypeOK
<1>4. batch'[c] \subseteq 1..made /\ now \in Days
  BY <1>1, PollFacts DEF FeedbackTypeOK
<1>5. batch' \in [Collectors -> SUBSET (1..made)] /\ at' \in [Collectors -> Days]
  <2>1. batch' = [batch EXCEPT ![c] = batch'[c]] /\ at' = [at EXCEPT ![c] = now]
    BY <1>1 DEF Poll, FeedbackTypeOK
  <2>2. QED
    BY <1>1, <1>4, <2>1 DEF FeedbackTypeOK
<1>6. pending' \subseteq 1..made /\ pending' \subseteq pending
  BY PollFacts
<1>7. FeedbackTypeOK'
  BY <1>1, <1>2, <1>3, <1>5, <1>6 DEF FeedbackTypeOK, database
<1>8. Young'
  BY <1>2, <1>6, PollFacts DEF BaseInv, Young
<1>9. Holding'
  BY <1>2, PollFacts DEF BaseInv, Holding
<1>10. Ordered' /\ Filed'
  BY <1>2 DEF BaseInv, Ordered, Filed, database
<1>11. QED
  BY <1>7, <1>8, <1>9, <1>10 DEF BaseInv

(* A failed poll and a confirmation may take updates from Telegram.         *)
LEMMA ShrinkBase ==
  ASSUME BaseInv, NEW c \in Collectors, PollFails(c) \/ Confirm(c)
  PROVE  BaseInv'
<1>1. FeedbackTypeOK
  BY DEF BaseInv
<1>2. /\ UNCHANGED <<made, uid, day, expired, now, database, lease, asked, batch, at, overran>>
      /\ pending' \subseteq pending /\ pc' = [pc EXCEPT ![c] = "done"]
  BY DEF PollFails, Confirm
<1>3. FeedbackTypeOK'
  BY <1>1, <1>2 DEF FeedbackTypeOK, database
<1>4. \A d \in Collectors : pc'[d] = pc[d] \/ pc'[d] = "done"
  BY <1>1, <1>2 DEF FeedbackTypeOK
<1>5. Holding'
  BY <1>2, <1>4 DEF BaseInv, Holding
<1>6. Ordered' /\ Filed' /\ Young'
  BY <1>2 DEF BaseInv, Ordered, Filed, Young, database
<1>7. QED
  BY <1>3, <1>5, <1>6 DEF BaseInv

(* The rows a transaction adds.                                             *)
LEMMA CommitFacts ==
  ASSUME BaseInv, NEW c \in Collectors, Commit(c)
  PROVE  /\ batch[c] # {} /\ batch[c] \subseteq 1..made /\ at[c] = now
         /\ Fresh(c) = {p \in batch[c] \cap Acceptable : rank[p] = 0} /\ Fresh(c) \subseteq Presses
         /\ \A p \in Presses \ Fresh(c) : rank'[p] = rank[p]
         /\ \A p \in Fresh(c) : rank'[p] \in Nat /\ seq < rank'[p] /\ rank'[p] <= seq'
         /\ \A p, q \in Fresh(c) : uid[p] < uid[q] => rank'[p] < rank'[q]
         /\ seq \in Nat /\ seq' \in Nat /\ seq <= seq'
<1>1. FeedbackTypeOK /\ made \in Nat /\ 1..made \subseteq Presses
  BY Numbers DEF BaseInv
<1>2. batch[c] # {} /\ batch[c] \subseteq 1..made /\ at[c] = now
  BY <1>1 DEF Commit, BaseInv, Holding, FeedbackTypeOK
<1> DEFINE F == Fresh(c)
           upto(p) == {q \in F : uid[q] <= uid[p]}
<1>3. F = {p \in batch[c] \cap Acceptable : rank[p] = 0} /\ F \subseteq 1..made /\ F \subseteq Presses
  BY <1>1, <1>2 DEF Fresh
<1>4. \A p \in F : uid[p] \in Nat
  BY <1>1, <1>3, Numbers
<1>5. \A p \in F : upto(p) \subseteq F /\ p \in upto(p)
  BY <1>4
<1>6. \A p, q \in F : uid[p] < uid[q] => upto(p) \subseteq upto(q) /\ q \notin upto(p)
  BY <1>4
<1>7. /\ \A p \in Presses : rank'[p] = IF p \in F THEN seq + Cardinality(upto(p)) ELSE rank[p]
      /\ seq' = seq + Cardinality(F) /\ seq \in Nat
  BY <1>1 DEF Commit, FeedbackTypeOK
<1> HIDE DEF F, upto
<1>8. IsFiniteSet(F)
  <2>1. IsFiniteSet(1..made)
    BY <1>1, FS_Interval
  <2>2. QED
    BY <1>3, <2>1, FS_Subset
<1>9. Cardinality(F) \in Nat
  BY <1>8, FS_CardinalityType
<1>10. \A p \in F : /\ IsFiniteSet(upto(p)) /\ Cardinality(upto(p)) \in Nat
                    /\ Cardinality(upto(p)) <= Cardinality(F)
  BY <1>5, <1>8, FS_Subset, FS_CardinalityType
<1>11. \A p \in F : 0 < Cardinality(upto(p))
  BY <1>5, <1>10, FS_EmptySet
<1>12. \A p, q \in F : uid[p] < uid[q] => Cardinality(upto(p)) < Cardinality(upto(q))
  <2>1. ASSUME NEW p \in F, NEW q \in F, uid[p] < uid[q]
        PROVE  Cardinality(upto(p)) < Cardinality(upto(q))
    <3>1. upto(p) \subseteq upto(q) /\ upto(p) # upto(q)
      BY <1>5, <1>6, <2>1
    <3>2. /\ Cardinality(upto(p)) <= Cardinality(upto(q))
          /\ Cardinality(upto(p)) # Cardinality(upto(q))
      BY <1>10, <3>1, FS_Subset
    <3>3. QED
      BY <1>10, <3>2
  <2>2. QED
    BY <2>1
<1>13. \A p \in F : rank'[p] = seq + Cardinality(upto(p))
  BY <1>3, <1>7
<1>14. \A p \in F : rank'[p] \in Nat /\ seq < rank'[p] /\ rank'[p] <= seq'
  BY <1>7, <1>9, <1>10, <1>11, <1>13
<1>15. \A p, q \in F : uid[p] < uid[q] => rank'[p] < rank'[q]
  BY <1>7, <1>10, <1>12, <1>13
<1>16. seq \in Nat /\ seq' \in Nat /\ seq <= seq'
  BY <1>7, <1>9
<1>17. F = Fresh(c)
  BY DEF F
<1>18. \A p \in Presses \ F : rank'[p] = rank[p]
  BY <1>7
<1>19. QED
  BY <1>2, <1>3, <1>14, <1>15, <1>16, <1>17, <1>18

LEMMA CommitBase ==
  ASSUME BaseInv, NEW c \in Collectors, Commit(c)
  PROVE  BaseInv' /\ \E b \in batch[c] : uid[b] = Last(c) /\ \A p \in batch[c] : uid[p] <= Last(c)
<1>1. FeedbackTypeOK
  BY DEF BaseInv
<1>2. /\ UNCHANGED <<telegram, now, erased, lease, asked, batch, at, overran>>
      /\ stored' = [last |-> Last(c), at |-> at[c]] /\ committed' = committed \cup batch[c]
      /\ pc[c] = "commit" /\ pc' = [pc EXCEPT ![c] = "confirm"]
  BY DEF Commit
<1>3. batch[c] # {} /\ batch[c] \subseteq 1..made /\ \A p \in batch[c] : uid[p] \in Ids
  BY CommitFacts DEF BaseInv, Ordered
<1>4. /\ Last(c) \in Ids
      /\ \E b \in batch[c] : uid[b] = Last(c) /\ \A p \in batch[c] : uid[p] <= Last(c)
  BY <1>3, LastFacts
<1>5. rank' \in [Presses -> Nat] /\ seq' \in Nat
  <2>1. rank' = [p \in Presses |-> rank'[p]]
    BY DEF Commit
  <2>2. \A p \in Presses : rank'[p] \in Nat
    BY <1>1, CommitFacts DEF FeedbackTypeOK
  <2>3. QED
    BY <2>1, <2>2, CommitFacts
<1>6. received' \in [Presses -> Days] /\ stored' \in [last : Ids \cup {0}, at : Days]
  BY <1>1, <1>2, <1>4 DEF Commit, FeedbackTypeOK
<1>7. pc' \in [Collectors -> {"idle", "offset", "poll", "commit", "confirm", "done"}]
  BY <1>1, <1>2 DEF FeedbackTypeOK
<1>8. committed' \subseteq 1..made
  BY <1>1, <1>2, <1>3 DEF FeedbackTypeOK
<1>9. FeedbackTypeOK'
  BY <1>1, <1>2, <1>5, <1>6, <1>7, <1>8 DEF FeedbackTypeOK, telegram
<1>10. \A d \in Collectors : pc'[d] = IF d = c THEN "confirm" ELSE pc[d]
  BY <1>1, <1>2 DEF FeedbackTypeOK
<1>11. Holding'
  BY <1>2, <1>10 DEF BaseInv, Holding
<1>12. Ordered' /\ Young'
  BY <1>2 DEF BaseInv, Ordered, Young, telegram
<1>13. Filed'
  <2>1. \A p \in Presses : rank'[p] # 0 => p \in committed'
    BY <1>2, CommitFacts DEF BaseInv, Filed
  <2>2. \A p \in Presses : rank'[p] <= seq'
    <3>1. \A p \in Presses : rank[p] <= seq /\ rank[p] \in Nat
      BY <1>1 DEF BaseInv, Filed, FeedbackTypeOK
    <3>2. QED
      BY <3>1, CommitFacts
  <2>3. QED
    BY <1>2, <2>1, <2>2 DEF BaseInv, Filed
<1>14. QED
  BY <1>4, <1>9, <1>11, <1>12, <1>13 DEF BaseInv

LEMMA StepBase == BaseInv /\ [CollectorNext]_collectorVars => BaseInv'
<1> SUFFICES ASSUME BaseInv, [CollectorNext]_collectorVars PROVE BaseInv'
  OBVIOUS
<1>1. CASE Press
  BY <1>1, PressBase
<1>2. CASE Tick
  BY <1>2, TickBase
<1>3. CASE LeaseExpires
  BY <1>3, LeaseBase
<1>4. ASSUME NEW c \in Collectors, Collect(c) PROVE BaseInv'
  <2>1. CASE CommitFails(c) \/ Done(c) \/ Crash(c)
    <3>1. /\ Idle(c) /\ UNCHANGED <<telegram, now, database, overran>>
          /\ lease' \in {NoLease, lease, [lease EXCEPT !.holder = "dead"]}
      BY <2>1 DEF CommitFails, Done, Crash, Released
    <3>2. QED
      BY <3>1, IdleBase
  <2>2. CASE Start(c) \/ ReadOffset(c) \/ StopWorker(c)
    BY <2>2, StartBase
  <2>3. CASE PollFails(c) \/ Confirm(c)
    BY <2>3, ShrinkBase
  <2>4. QED
    BY <1>4, <2>1, <2>2, <2>3, PollBase, CommitBase DEF Collect
<1>5. ASSUME NEW r, ForgetUser(r) PROVE BaseInv'
  BY <1>5, DeleteBase DEF ForgetUser
<1>6. ASSUME NEW before, Purge(before) PROVE BaseInv'
  BY <1>6, DeleteBase DEF Purge
<1>7. CASE UNCHANGED collectorVars
  BY <1>7 DEF BaseInv, FeedbackTypeOK, Ordered, Young, Holding, Filed, collectorVars,
              telegram, database, cycle
<1>8. QED
  BY <1>1, <1>2, <1>3, <1>4, <1>5, <1>6, <1>7 DEF CollectorNext

THEOREM BaseCorrect == CollectorSpec => []BaseInv
BY InitBase, StepBase, PTL DEF CollectorSpec

(* Every variable keeps its type: the collector's answer to any sequence of *)
(* presses, days, failures, deaths and operators' deletions.                *)
THEOREM FeedbackTypes == CollectorSpec => []FeedbackTypeOK
<1>1. BaseInv => FeedbackTypeOK
  BY DEF BaseInv
<1>2. QED
  BY <1>1, BaseCorrect, PTL

----------------------------------------------------------------------------
(* No press is lost. *)

LEMMA InitWait == CollectorInit => WaitInv
<1> SUFFICES ASSUME CollectorInit PROVE WaitInv
  OBVIOUS
<1>1. 1..made = {} /\ ~Trusted
  BY DEF CollectorInit, Trusted
<1>2. QED
  BY <1>1 DEF CollectorInit, WaitInv, NoPressLost, StoredInv, AskedInv, BatchInv

(* The invariant survives when nothing is added to what waits and neither   *)
(* the stored offset nor any cycle advances.                                *)
LEMMA QuietWait ==
  ASSUME BaseInv, WaitInv, NoPressLost', pending' \subseteq pending, committed \subseteq committed',
         UNCHANGED <<made, uid, day, now, stored, asked, batch>>,
         \A c \in Collectors : pc'[c] \in {"poll", "commit"} => pc'[c] = pc[c],
         \A c \in Collectors : pc'[c] = "confirm" => pc[c] = "confirm"
  PROVE  WaitInv'
<1>1. Waiting' \subseteq Waiting /\ Trusted' = Trusted
  BY DEF Waiting, Trusted
<1>2. StoredInv'
  BY <1>1 DEF WaitInv, StoredInv
<1>3. AskedInv'
  BY <1>1 DEF WaitInv, AskedInv
<1>4. BatchInv'
  BY <1>1 DEF WaitInv, BatchInv
<1>5. QED
  BY <1>2, <1>3, <1>4 DEF WaitInv

LEMMA PressWait ==
  ASSUME BaseInv, WaitInv, Press
  PROVE  WaitInv'
<1> DEFINE n == made + 1
<1>1. /\ made' = n /\ pending' = pending \cup {n}
      /\ \A p \in 1..made : uid'[p] = uid[p] /\ day'[p] = day[p]
      /\ UNCHANGED <<expired, now, stored, committed, pc, asked, batch>>
  BY PressTyped DEF Press, database, cycle
<1>2. FeedbackTypeOK /\ made \in Nat /\ 1..made' = 1..made \cup {n} /\ n \notin 1..made
  BY <1>1, Numbers DEF BaseInv
<1>3. /\ Waiting' \subseteq Waiting \cup {n} /\ Waiting \subseteq 1..made
      /\ \A c \in Collectors : batch[c] \subseteq 1..made
  BY <1>1, <1>2 DEF Waiting, FeedbackTypeOK
<1>4. \A p \in 1..made : now < day[p] + Quiet => uid[p] < uid'[n]
  BY PressBase
<1>5. /\ now \in Nat /\ stored.at \in Nat /\ stored.last \in Nat /\ uid'[n] \in Nat
      /\ \A p \in 1..made : uid[p] \in Nat /\ day[p] \in Nat
  <2>1. FeedbackTypeOK'
    BY PressBase DEF BaseInv
  <2>2. uid'[n] \in Nat
    BY <1>1, <1>2, <2>1, Constants DEF FeedbackTypeOK, Presses, Ids
  <2>3. QED
    BY <1>2, <2>2, Numbers
<1> HIDE DEF n
<1>6. NoPressLost'
  BY <1>1, <1>2 DEF WaitInv, NoPressLost
<1>7. StoredInv'
  <2>1. Trusted' = Trusted
    BY <1>1 DEF Trusted
  <2>2. ASSUME Trusted PROVE stored.last < uid'[n]
    <3>1. PICK s \in 1..made : uid[s] = stored.last /\ stored.at <= day[s] + Retention
      BY <2>2 DEF Trusted, WaitInv, StoredInv
    <3>2. now < day[s] + Quiet
      <4>1. now - stored.at < Trust
        BY <2>2 DEF Trusted
      <4>2. day[s] \in Nat
        BY <1>5
      <4>3. QED
        BY <1>5, <3>1, <4>1, <4>2, Constants
    <3>3. QED
      BY <1>4, <3>1, <3>2
  <2>3. QED
    BY <1>1, <1>2, <1>3, <2>1, <2>2 DEF WaitInv, StoredInv
<1>8. AskedInv'
  <2>1. ASSUME NEW c \in Collectors, pc[c] = "poll", asked[c] # 0
        PROVE  /\ \E s \in 1..made' : asked[c] = uid'[s] + 1 /\ now < day'[s] + Quiet
               /\ \A p \in Waiting' : asked[c] <= uid'[p]
    <3>1. PICK s \in 1..made : asked[c] = uid[s] + 1 /\ now < day[s] + Quiet
      BY <2>1 DEF WaitInv, AskedInv
    <3>2. asked[c] <= uid'[n]
      BY <1>4, <1>5, <3>1
    <3>3. \A p \in Waiting : asked[c] <= uid'[p]
      BY <1>1, <1>3, <2>1 DEF WaitInv, AskedInv
    <3>4. asked[c] = uid'[s] + 1 /\ now < day'[s] + Quiet /\ s \in 1..made'
      BY <1>1, <1>2, <3>1
    <3>5. QED
      BY <1>3, <3>2, <3>3, <3>4
  <2>2. QED
    BY <1>1, <2>1 DEF AskedInv
<1>9. BatchInv'
  <2>1. ASSUME NEW c \in Collectors, NEW b \in batch[c] PROVE uid'[b] < uid'[n]
    <3>1. b \in 1..made /\ now <= day[b] + Retention
      BY <1>3, <2>1 DEF BaseInv, Young
    <3>2. now < day[b] + Quiet
      BY <1>5, <3>1, Constants
    <3>3. QED
      BY <1>1, <1>4, <3>1, <3>2
  <2>2. ASSUME NEW c \in Collectors, NEW p \in Waiting', NEW b \in batch'[c]
        PROVE  /\ pc'[c] = "commit" => p \in batch'[c] \/ uid'[b] < uid'[p]
               /\ pc'[c] = "confirm" => uid'[b] < uid'[p]
    <3>1. CASE p = n
      BY <1>1, <2>1, <2>2, <3>1
    <3>2. CASE p \in Waiting
      <4>1. uid'[p] = uid[p] /\ uid'[b] = uid[b] /\ b \in batch[c]
        BY <1>1, <1>3, <2>2, <3>2
      <4>2. QED
        BY <1>1, <2>2, <3>2, <4>1 DEF WaitInv, BatchInv
    <3>3. QED
      BY <1>3, <2>2, <3>1, <3>2
  <2>3. QED
    BY <2>2 DEF BatchInv
<1>10. QED
  BY <1>6, <1>7, <1>8, <1>9 DEF WaitInv

(* Time only takes trust away.                                              *)
LEMMA TickWait ==
  ASSUME BaseInv, WaitInv, Tick
  PROVE  WaitInv'
<1>1. /\ now' = now + 1 /\ pending' \subseteq pending /\ expired' = expired \cup (pending \ pending')
      /\ \A c \in Collectors : pc[c] = "idle"
      /\ UNCHANGED <<made, uid, day, stored, committed, pc, asked, batch>>
  BY DEF Tick, database, cycle
<1>2. NoPressLost'
  BY <1>1 DEF WaitInv, NoPressLost
<1>3. now \in Nat /\ stored.at \in Nat
  BY Numbers DEF BaseInv
<1>4. Trusted' => Trusted
  BY <1>1, <1>3, Constants DEF Trusted
<1>5. Waiting' \subseteq Waiting
  BY <1>1 DEF Waiting
<1>6. StoredInv'
  BY <1>1, <1>3, <1>4, <1>5 DEF WaitInv, StoredInv
<1>7. AskedInv' /\ BatchInv'
  BY <1>1 DEF AskedInv, BatchInv
<1>8. QED
  BY <1>2, <1>6, <1>7 DEF WaitInv

(* What is below the offset a collector asks for does not wait.             *)
LEMMA PollTakesNoWaiter ==
  ASSUME BaseInv, WaitInv, NEW c \in Collectors, pc[c] = "poll"
  PROVE  pending \cap Below(asked[c]) \subseteq committed
<1>1. ASSUME NEW p \in pending, uid[p] < asked[c], p \notin committed PROVE FALSE
  <2>1. uid[p] \in Nat /\ asked[c] \in Nat
    BY Numbers DEF BaseInv, FeedbackTypeOK
  <2>2. asked[c] # 0 /\ p \in Waiting
    BY <1>1, <2>1 DEF Waiting
  <2>3. asked[c] <= uid[p]
    BY <2>2 DEF WaitInv, AskedInv
  <2>4. QED
    BY <1>1, <2>1, <2>3
<1>2. QED
  BY <1>1 DEF Below

LEMMA ReadOffsetWait ==
  ASSUME BaseInv, WaitInv, NEW c \in Collectors, ReadOffset(c)
  PROVE  WaitInv'
<1>1. /\ pc[c] = "offset" /\ pc' = [pc EXCEPT ![c] = "poll"]
      /\ asked' = [asked EXCEPT ![c] = Offset]
      /\ UNCHANGED <<made, uid, day, pending, expired, now, stored, committed, batch>>
  BY DEF ReadOffset, telegram, database
<1>2. FeedbackTypeOK
  BY DEF BaseInv
<1>3. \A d \in Collectors :
        /\ pc'[d] = IF d = c THEN "poll" ELSE pc[d]
        /\ asked'[d] = IF d = c THEN Offset ELSE asked[d]
  BY <1>1, <1>2 DEF FeedbackTypeOK
<1>4. Waiting' = Waiting /\ Trusted' = Trusted
  BY <1>1 DEF Waiting, Trusted
<1>5. NoPressLost' /\ StoredInv' /\ BatchInv'
  BY <1>1, <1>3, <1>4 DEF WaitInv, NoPressLost, StoredInv, BatchInv
<1>6. ASSUME Offset # 0
      PROVE  /\ \E s \in 1..made : Offset = uid[s] + 1 /\ now < day[s] + Quiet
             /\ \A p \in Waiting : Offset <= uid[p]
  <2>1. Trusted /\ Offset = stored.last + 1
    BY <1>6 DEF Offset
  <2>2. PICK s \in 1..made : uid[s] = stored.last /\ stored.at <= day[s] + Retention
    BY <2>1 DEF Trusted, WaitInv, StoredInv
  <2>3. /\ now \in Nat /\ stored.at \in Nat /\ day[s] \in Nat /\ stored.last \in Nat
        /\ \A p \in Waiting : uid[p] \in Nat
    BY <1>2, Numbers DEF Waiting, FeedbackTypeOK
  <2>4. now < day[s] + Quiet
    BY <2>1, <2>2, <2>3, Constants DEF Trusted
  <2>5. \A p \in Waiting : Offset <= uid[p]
    <3>1. \A p \in Waiting : stored.last < uid[p]
      BY <2>1 DEF WaitInv, StoredInv
    <3>2. QED
      BY <2>1, <2>3, <3>1
  <2>6. QED
    BY <2>1, <2>2, <2>4, <2>5
<1>7. AskedInv'
  BY <1>1, <1>3, <1>4, <1>6 DEF WaitInv, AskedInv
<1>8. QED
  BY <1>5, <1>7 DEF WaitInv

LEMMA PollWait ==
  ASSUME BaseInv, WaitInv, NEW c \in Collectors, Poll(c)
  PROVE  WaitInv'
<1>1. /\ pc[c] = "poll"
      /\ UNCHANGED <<made, uid, day, expired, now, stored, committed, asked>>
  BY DEF Poll, database
<1>2. /\ pending' = pending \ Below(asked[c]) /\ pending' \subseteq 1..made
      /\ \A d \in Collectors : d # c => pc'[d] = pc[d] /\ batch'[d] = batch[d]
      /\ pc'[c] \in {"done", "commit"}
      /\ \A b \in batch'[c], p \in pending' : p \in batch'[c] \/ uid[b] < uid[p]
  BY PollFacts
<1>3. Waiting' \subseteq Waiting /\ Waiting' \subseteq pending' /\ Trusted' = Trusted
  BY <1>1, <1>2 DEF Waiting, Trusted
<1>4. NoPressLost'
  BY <1>1, <1>2, PollTakesNoWaiter DEF WaitInv, NoPressLost
<1>5. StoredInv'
  BY <1>1, <1>3 DEF WaitInv, StoredInv
<1>6. AskedInv'
  BY <1>1, <1>2, <1>3 DEF WaitInv, AskedInv
<1>7. BatchInv'
  <2>1. ASSUME NEW d \in Collectors, NEW p \in Waiting', NEW b \in batch'[d]
        PROVE  /\ pc'[d] = "commit" => p \in batch'[d] \/ uid'[b] < uid'[p]
               /\ pc'[d] = "confirm" => uid'[b] < uid'[p]
    <3>1. CASE d = c
      BY <1>1, <1>2, <1>3, <2>1, <3>1
    <3>2. CASE d # c
      BY <1>1, <1>2, <1>3, <2>1, <3>2 DEF WaitInv, BatchInv
    <3>3. QED
      BY <3>1, <3>2
  <2>2. QED
    BY <2>1 DEF BatchInv
<1>8. QED
  BY <1>4, <1>5, <1>6, <1>7 DEF WaitInv

LEMMA CommitWait ==
  ASSUME BaseInv, WaitInv, NEW c \in Collectors, Commit(c)
  PROVE  WaitInv'
<1>1. /\ pc[c] = "commit" /\ pc' = [pc EXCEPT ![c] = "confirm"]
      /\ stored' = [last |-> Last(c), at |-> at[c]] /\ committed' = committed \cup batch[c]
      /\ UNCHANGED <<made, uid, day, pending, expired, now, asked, batch>>
  BY DEF Commit, telegram
<1>2. PICK b \in batch[c] : uid[b] = Last(c) /\ \A p \in batch[c] : uid[p] <= Last(c)
  BY CommitBase
<1>3. b \in 1..made /\ at[c] = now /\ now <= day[b] + Retention
  BY <1>2, CommitFacts DEF BaseInv, Young
<1>4. \A d \in Collectors : pc'[d] = IF d = c THEN "confirm" ELSE pc[d]
  BY <1>1 DEF BaseInv, FeedbackTypeOK
<1>5. Waiting' = Waiting \ batch[c]
  BY <1>1 DEF Waiting
<1>6. \A p \in Waiting' : \A d \in batch[c] : uid[d] < uid[p]
  BY <1>1, <1>5 DEF WaitInv, BatchInv
<1>7. now \in Nat
  BY Numbers DEF BaseInv
<1>8. NoPressLost'
  BY <1>1 DEF WaitInv, NoPressLost
<1>9. StoredInv'
  <2>1. stored'.last = uid[b] /\ stored'.at = now
    BY <1>1, <1>2, <1>3
  <2>2. QED
    BY <1>1, <1>2, <1>3, <1>6, <1>7, <2>1 DEF StoredInv
<1>10. AskedInv'
  BY <1>1, <1>4, <1>5 DEF WaitInv, AskedInv
<1>11. BatchInv'
  <2>1. ASSUME NEW d \in Collectors, NEW p \in Waiting', NEW e \in batch'[d]
        PROVE  /\ pc'[d] = "commit" => p \in batch'[d] \/ uid'[e] < uid'[p]
               /\ pc'[d] = "confirm" => uid'[e] < uid'[p]
    <3>1. CASE d = c
      BY <1>1, <1>4, <1>6, <2>1, <3>1
    <3>2. CASE d # c
      BY <1>1, <1>4, <1>5, <2>1, <3>2 DEF WaitInv, BatchInv
    <3>3. QED
      BY <3>1, <3>2
  <2>2. QED
    BY <2>1 DEF BatchInv
<1>12. QED
  BY <1>8, <1>9, <1>10, <1>11 DEF WaitInv

LEMMA ConfirmWait ==
  ASSUME BaseInv, WaitInv, NEW c \in Collectors, PollFails(c) \/ Confirm(c)
  PROVE  WaitInv'
<1>1. /\ UNCHANGED <<made, uid, day, expired, now, stored, committed, asked, batch>>
      /\ pc' = [pc EXCEPT ![c] = "done"]
  BY DEF PollFails, Confirm, database
<1>2. \A d \in Collectors : pc'[d] = pc[d] \/ pc'[d] = "done"
  BY <1>1 DEF BaseInv, FeedbackTypeOK
<1>3. pending' \subseteq pending /\ pending \ pending' \subseteq committed
  <2>1. CASE PollFails(c)
    BY <2>1, PollTakesNoWaiter DEF PollFails
  <2>2. CASE Confirm(c)
    <3>1. batch[c] # {} /\ \A p \in batch[c] : uid[p] \in Ids
      BY <2>2 DEF Confirm, BaseInv, Holding, Ordered, FeedbackTypeOK
    <3>2. PICK b \in batch[c] : uid[b] = Last(c)
      BY <3>1, LastFacts
    <3>3. \A p \in Waiting : Last(c) < uid[p]
      BY <2>2, <3>2 DEF Confirm, WaitInv, BatchInv
    <3>4. Last(c) \in Nat /\ \A p \in pending : uid[p] \in Nat
      <4>1. b \in 1..made /\ pending \subseteq 1..made
        BY <3>2 DEF BaseInv, FeedbackTypeOK
      <4>2. QED
        BY <3>2, <4>1, Numbers DEF BaseInv
    <3>5. \A p \in pending : uid[p] < Last(c) + 1 => p \in committed
      BY <3>3, <3>4 DEF Waiting
    <3>6. QED
      BY <2>2, <3>5 DEF Confirm, Below
  <2>3. QED
    BY <2>1, <2>2
<1>4. NoPressLost'
  BY <1>1, <1>3 DEF WaitInv, NoPressLost
<1>5. QED
  BY <1>1, <1>2, <1>3, <1>4, QuietWait

LEMMA StepWait == BaseInv /\ WaitInv /\ [CollectorNext]_collectorVars => WaitInv'
<1> SUFFICES ASSUME BaseInv, WaitInv, [CollectorNext]_collectorVars PROVE WaitInv'
  OBVIOUS
<1>1. ASSUME UNCHANGED <<telegram, now, stored, committed, cycle>> PROVE WaitInv'
  <2>1. UNCHANGED <<made, uid, day, pending, expired, now, stored, committed, pc, asked, batch>>
    BY <1>1 DEF telegram, cycle
  <2>2. NoPressLost'
    BY <2>1 DEF WaitInv, NoPressLost
  <2>3. QED
    BY <2>1, <2>2, QuietWait
<1>2. CASE LeaseExpires
  BY <1>1, <1>2 DEF LeaseExpires, database
<1>3. ASSUME NEW c \in Collectors, Collect(c) PROVE WaitInv'
  <2>1. CASE CommitFails(c) \/ Done(c) \/ Crash(c)
    <3>1. Idle(c) /\ UNCHANGED <<telegram, now, database>>
      BY <2>1 DEF CommitFails, Done, Crash
    <3>2. \A d \in Collectors :
            /\ pc'[d] = IF d = c THEN "idle" ELSE pc[d]
            /\ asked'[d] = IF d = c THEN 0 ELSE asked[d]
            /\ batch'[d] = IF d = c THEN {} ELSE batch[d]
      BY <3>1 DEF Idle, BaseInv, FeedbackTypeOK
    <3>3. Waiting' = Waiting /\ Trusted' = Trusted
      BY <3>1 DEF Waiting, Trusted, telegram, database
    <3>4. NoPressLost' /\ StoredInv'
      BY <3>1, <3>3 DEF WaitInv, NoPressLost, StoredInv, telegram, database
    <3>5. AskedInv' /\ BatchInv'
      BY <3>1, <3>2, <3>3 DEF WaitInv, AskedInv, BatchInv, telegram, database
    <3>6. QED
      BY <3>4, <3>5 DEF WaitInv
  <2>2. CASE Start(c)
    <3>1. UNCHANGED <<made, uid, day, pending, expired, now, stored, committed, asked, batch>>
      BY <2>2 DEF Start, telegram, database
    <3>2. \A d \in Collectors : pc'[d] = pc[d] \/ pc'[d] \in {"offset", "done"}
      BY <2>2 DEF Start, BaseInv, FeedbackTypeOK
    <3>3. NoPressLost'
      BY <3>1 DEF WaitInv, NoPressLost
    <3>4. QED
      BY <3>1, <3>2, <3>3, QuietWait
  <2>3. CASE StopWorker(c)
    BY <1>1, <2>3 DEF StopWorker, database
  <2>4. QED
    BY <1>3, <2>1, <2>2, <2>3, ReadOffsetWait, PollWait, CommitWait, ConfirmWait DEF Collect
<1>4. ASSUME NEW S, Delete(S) PROVE WaitInv'
  BY <1>1, <1>4 DEF Delete
<1>5. CASE UNCHANGED collectorVars
  BY <1>1, <1>5 DEF collectorVars, database
<1>6. QED
  BY <1>2, <1>3, <1>4, <1>5, PressWait, TickWait DEF CollectorNext, ForgetUser, Purge

(* A press waits at Telegram until a transaction has dealt with it, or      *)
(* until it is too old for Telegram, whatever restarts of the ids, deaths,  *)
(* failures and overlapping collectors there are.                           *)
THEOREM NoPressIsLost == CollectorSpec => []NoPressLost
<1>1. WaitInv => NoPressLost
  BY DEF WaitInv
<1>2. QED
  BY <1>1, BaseCorrect, InitWait, StepWait, PTL DEF CollectorSpec

----------------------------------------------------------------------------
(* One collector at a time. *)

LEMMA InitLease == CollectorInit => LeaseInv
BY DEF CollectorInit, LeaseInv, Pulling

LEMMA StepLease == BaseInv /\ LeaseInv /\ [CollectorNext]_collectorVars => LeaseInv'
<1> SUFFICES ASSUME BaseInv, LeaseInv, [CollectorNext]_collectorVars PROVE LeaseInv'
  OBVIOUS
<1>1. /\ pc \in [Collectors -> {"idle", "offset", "poll", "commit", "confirm", "done"}]
      /\ lease \in Leases
  BY DEF BaseInv, FeedbackTypeOK, Leases
<1>2. ASSUME UNCHANGED <<pc, lease, overran>> PROVE LeaseInv'
  BY <1>2 DEF LeaseInv, Pulling
<1>3. CASE LeaseExpires
  <2>1. ASSUME NEW c \in Collectors, Pulling(c), c \notin overran' PROVE FALSE
    <3>1. pc[c] # "idle" /\ c \notin overran
      BY <1>3, <2>1 DEF LeaseExpires, Pulling
    <3>2. lease.holder = c
      BY <2>1, <3>1 DEF LeaseInv
    <3>3. QED
      BY <1>3, <2>1, <3>1, <3>2 DEF LeaseExpires
  <2>2. pc' = pc
    BY <1>3 DEF LeaseExpires, cycle
  <2>3. QED
    BY <2>1, <2>2 DEF LeaseInv, Pulling
<1>4. ASSUME NEW c \in Collectors, Collect(c) PROVE LeaseInv'
  <2>1. CASE Start(c)
    <3>1. pc[c] = "idle" /\ overran' = overran
      BY <2>1 DEF Start
    <3>2. CASE Acquirable(c)
      <4>1. lease' = [holder |-> c, expired |-> FALSE] /\ pc' = [pc EXCEPT ![c] = "offset"]
        BY <2>1, <3>2 DEF Start
      <4>2. \A d \in Collectors : Pulling(d) /\ d \notin overran => d = c
        BY <3>2, FeedbackAssumption DEF LeaseInv, Acquirable, Collectors
      <4>3. \A d \in Collectors : d # c => pc'[d] = pc[d]
        BY <1>1, <4>1
      <4>4. lease'.holder = c /\ ~lease'.expired
        BY <4>1
      <4>5. QED
        BY <3>1, <4>2, <4>3, <4>4 DEF LeaseInv, Pulling
    <3>3. CASE ~Acquirable(c)
      <4>1. lease' = lease /\ pc' = [pc EXCEPT ![c] = "done"]
        BY <2>1, <3>3 DEF Start
      <4>2. \A d \in Collectors : pc'[d] = pc[d] \/ pc'[d] = "done"
        BY <1>1, <4>1
      <4>3. QED
        BY <3>1, <4>1, <4>2 DEF LeaseInv, Pulling
    <3>4. QED
      BY <3>2, <3>3
  <2>2. CASE ReadOffset(c) \/ Poll(c) \/ PollFails(c) \/ Commit(c) \/ Confirm(c)
    <3>1. /\ UNCHANGED <<lease, overran>> /\ Pulling(c)
          /\ \E s \in {"poll", "commit", "confirm", "done"} : pc' = [pc EXCEPT ![c] = s]
      BY <2>2 DEF ReadOffset, Poll, PollFails, Commit, Confirm, Pulling
    <3>2. \A d \in Collectors : d # c => pc'[d] = pc[d]
      BY <1>1, <3>1
    <3>3. QED
      BY <3>1, <3>2 DEF LeaseInv, Pulling
  <2>3. CASE CommitFails(c) \/ Done(c) \/ Crash(c) \/ StopWorker(c)
    <3>1. /\ lease' = lease \/ lease.holder = c
          /\ overran' = overran
          /\ pc' = [pc EXCEPT ![c] = "idle"] \/ (pc' = pc /\ pc[c] = "idle")
      <4>1. lease' = lease \/ lease.holder = c
        BY <2>3 DEF CommitFails, Done, Crash, StopWorker, Released
      <4>2. pc' = [pc EXCEPT ![c] = "idle"] \/ (pc' = pc /\ pc[c] = "idle")
        <5>1. CASE Idle(c)
          BY <5>1 DEF Idle
        <5>2. CASE StopWorker(c)
          BY <5>2 DEF StopWorker, cycle
        <5>3. QED
          BY <2>3, <5>1, <5>2 DEF CommitFails, Done, Crash
      <4>3. overran' = overran
        BY <2>3 DEF CommitFails, Done, Crash, StopWorker
      <4>4. QED
        BY <4>1, <4>2, <4>3
    <3>2. \A d \in Collectors : d # c => pc'[d] = pc[d]
      BY <1>1, <3>1
    <3>3. ~Pulling(c)'
      BY <1>1, <3>1 DEF Pulling
    <3>4. QED
      BY <3>1, <3>2, <3>3 DEF LeaseInv, Pulling
  <2>4. QED
    BY <1>4, <2>1, <2>2, <2>3 DEF Collect
<1>5. CASE Press \/ Tick
  BY <1>2, <1>5 DEF Press, Tick, cycle
<1>6. ASSUME NEW S, Delete(S) PROVE LeaseInv'
  BY <1>2, <1>6 DEF Delete, cycle
<1>7. CASE UNCHANGED collectorVars
  BY <1>2, <1>7 DEF collectorVars, cycle
<1>8. QED
  BY <1>3, <1>4, <1>5, <1>6, <1>7 DEF CollectorNext, ForgetUser, Purge

(* Of two collectors that pull updates at a time, one outlived its lease.    *)
THEOREM OnePulls == CollectorSpec => []OnePuller
<1>1. LeaseInv => OnePuller
  BY DEF LeaseInv, OnePuller
<1>2. QED
  BY <1>1, BaseCorrect, InitLease, StepLease, PTL DEF CollectorSpec

----------------------------------------------------------------------------
(* The last label wins. *)

LEMMA InitOrder == CollectorInit => OrderInv
BY DEF CollectorInit, OrderInv

LEMMA CommitOrder ==
  ASSUME BaseInv, WaitInv, OrderInv, NEW c \in Collectors, Commit(c)
  PROVE  OrderInv'
<1>1. /\ committed' = committed \cup batch[c] /\ UNCHANGED <<made, uid, day, expired, erased, now>>
  BY DEF Commit, telegram
<1>2. batch[c] \subseteq 1..made /\ pc[c] = "commit"
  BY CommitFacts DEF Commit
<1>3. FeedbackTypeOK /\ Ordered /\ now \in Nat /\ 1..made \subseteq Presses
  BY Numbers DEF BaseInv
<1>4. ASSUME NEW p \in 1..made, NEW q \in batch[c], p < q, p \in pending \cup batch[c]
      PROVE  uid[p] < uid[q]
  <2>1. now <= day[p] + Retention /\ day[q] <= now /\ q \in 1..made
    BY <1>2, <1>3, <1>4 DEF BaseInv, Young, Ordered
  <2>2. day[p] \in Nat /\ day[q] \in Nat
    BY <1>2, <1>3, Numbers
  <2>3. day[q] < day[p] + Quiet
    BY <1>3, <2>1, <2>2, Constants
  <2>4. QED
    BY <1>3, <1>4, <2>1, <2>3, CloseIds
<1>5. ASSUME NEW p \in 1..made, NEW q \in 1..made, p < q, q \in committed'
      PROVE  p \in committed' \cup expired
  <2>1. CASE q \in committed
    BY <1>1, <1>5, <2>1 DEF OrderInv
  <2>2. CASE q \in batch[c]
    <3>1. p \in committed \cup expired \/ p \in pending \ committed
      BY DEF WaitInv, NoPressLost
    <3>2. ASSUME p \in pending \ committed PROVE p \in batch[c]
      <4>1. uid[p] < uid[q] /\ uid[p] \in Nat /\ uid[q] \in Nat
        BY <1>2, <1>3, <1>4, <1>5, <2>2, <3>2, Numbers
      <4>2. p \in batch[c] \/ uid[q] < uid[p]
        BY <1>2, <2>2, <3>2 DEF WaitInv, BatchInv, Waiting
      <4>3. QED
        BY <4>1, <4>2
    <3>3. QED
      BY <1>1, <3>1, <3>2
  <2>3. QED
    BY <1>1, <1>5, <2>1, <2>2
<1>6. ASSUME erased = {}, NEW p \in committed' \cap Acceptable PROVE rank'[p] # 0
  <2>1. p \in Presses /\ seq \in Nat
    BY <1>1, <1>2, <1>3, CommitFacts DEF FeedbackTypeOK
  <2>2. CASE p \in Fresh(c)
    BY <2>1, <2>2, CommitFacts
  <2>3. CASE p \notin Fresh(c)
    <3>1. rank[p] # 0
      BY <1>1, <1>6, <2>3, CommitFacts DEF OrderInv
    <3>2. QED
      BY <2>1, <2>3, <3>1, CommitFacts
  <2>4. QED
    BY <2>2, <2>3
<1>7. ASSUME erased = {}, NEW p \in Presses, NEW q \in Presses,
             p < q, rank'[p] # 0, rank'[q] # 0
      PROVE  rank'[p] < rank'[q]
  <2>1. /\ \A r \in Presses : rank[r] \in Nat /\ rank[r] <= seq
        /\ seq \in Nat /\ Fresh(c) \subseteq Presses
    BY <1>3, CommitFacts DEF BaseInv, Filed, FeedbackTypeOK
  <2>2. CASE p \notin Fresh(c) /\ q \notin Fresh(c)
    BY <1>7, <2>2, CommitFacts DEF OrderInv
  <2>3. CASE p \notin Fresh(c) /\ q \in Fresh(c)
    <3>1. rank'[p] = rank[p] /\ seq < rank'[q] /\ rank'[q] \in Nat
      BY <2>3, CommitFacts
    <3>2. QED
      BY <2>1, <3>1
  <2>4. CASE p \in Fresh(c) /\ q \in Fresh(c)
    <3>1. p \in batch[c] /\ q \in batch[c] /\ p \in 1..made
      BY <1>2, <2>4, CommitFacts
    <3>2. uid[p] < uid[q]
      BY <1>4, <1>7, <3>1
    <3>3. QED
      BY <2>4, <3>2, CommitFacts
  <2>5. ASSUME p \in Fresh(c), q \notin Fresh(c) PROVE FALSE
    <3>1. p \in batch[c] \cap Acceptable /\ rank[p] = 0 /\ p \notin expired /\ p \in 1..made
      BY <1>2, <2>5, CommitFacts DEF BaseInv, Young
    <3>2. rank[q] # 0
      BY <1>7, <2>5, CommitFacts
    <3>3. q \in committed /\ q \in 1..made
      BY <1>3, <3>2 DEF BaseInv, Filed, FeedbackTypeOK
    <3>4. p \in committed
      BY <1>7, <3>1, <3>3 DEF OrderInv
    <3>5. QED
      BY <1>7, <3>1, <3>4 DEF OrderInv
  <2>6. QED
    BY <2>2, <2>3, <2>4, <2>5
<1>8. QED
  BY <1>1, <1>5, <1>6, <1>7 DEF OrderInv

LEMMA StepOrder == BaseInv /\ WaitInv /\ OrderInv /\ [CollectorNext]_collectorVars => OrderInv'
<1> SUFFICES ASSUME BaseInv, WaitInv, OrderInv, [CollectorNext]_collectorVars PROVE OrderInv'
  OBVIOUS
<1>1. ASSUME UNCHANGED <<made, committed, rank, erased>>, expired \subseteq expired'
      PROVE  OrderInv'
  BY <1>1 DEF OrderInv
<1>2. CASE Press
  <2>1. made' = made + 1 /\ UNCHANGED <<committed, rank, erased, expired>>
    BY <1>2 DEF Press, database
  <2>2. committed \subseteq 1..made /\ made \in Nat
    BY Numbers DEF BaseInv, FeedbackTypeOK
  <2>3. ASSUME NEW p \in 1..made', NEW q \in 1..made', p < q, q \in committed
        PROVE  p \in committed \cup expired
    <3>1. q \in 1..made /\ p \in 1..made
      BY <2>2, <2>3
    <3>2. QED
      BY <2>3, <3>1 DEF OrderInv
  <2>4. QED
    BY <2>1, <2>3 DEF OrderInv
<1>3. CASE Tick
  BY <1>1, <1>3 DEF Tick, database
<1>4. CASE LeaseExpires
  BY <1>1, <1>4 DEF LeaseExpires, telegram, database
<1>5. ASSUME NEW c \in Collectors, Collect(c), ~Commit(c) PROVE OrderInv'
  BY <1>1, <1>5 DEF Collect, Start, ReadOffset, Poll, PollFails, CommitFails, Confirm, Done,
     StopWorker, Crash, telegram, database
<1>6. ASSUME NEW S, Delete(S) PROVE OrderInv'
  BY <1>6 DEF Delete, OrderInv, telegram
<1>7. CASE UNCHANGED collectorVars
  BY <1>1, <1>7 DEF collectorVars, telegram, database
<1>8. QED
  BY <1>2, <1>3, <1>4, <1>5, <1>6, <1>7, CommitOrder DEF CollectorNext, ForgetUser, Purge

(* While nothing was deleted, a later press of a rater has the later row,   *)
(* whoever committed it.                                                    *)
THEOREM TheLastLabelWins == CollectorSpec => []LatestLabelWins
<1>1. OrderInv => LatestLabelWins
  BY DEF OrderInv, LatestLabelWins
<1>2. QED
  BY <1>1, BaseCorrect, InitWait, StepWait, InitOrder, StepOrder, PTL DEF CollectorSpec

----------------------------------------------------------------------------
(* A deleted label does not come back. *)

LEMMA InitSerial == CollectorInit => SerialInv
BY DEF CollectorInit, SerialInv

(* While nobody outlived a lease, one collector pulls.                      *)
LEMMA Alone ==
  ASSUME LeaseInv, overran = {}, NEW c \in Collectors, NEW d \in Collectors, Pulling(c), Pulling(d)
  PROVE  c = d
BY DEF LeaseInv

LEMMA CollectSerial ==
  ASSUME BaseInv, LeaseInv, SerialInv, NEW c \in Collectors, Collect(c)
  PROVE  SerialInv'
<1>1. FeedbackTypeOK /\ overran' = overran /\ erased' = erased
  BY DEF BaseInv, Collect, Start, ReadOffset, Poll, PollFails, Commit, CommitFails, Confirm, Done,
     StopWorker, Crash, database
<1> SUFFICES ASSUME overran = {} PROVE SerialInv'
  BY <1>1 DEF SerialInv
<1>2. /\ \A p \in erased : rank[p] = 0
      /\ \A p \in pending \cap committed : uid[p] <= stored.last /\ day[p] <= stored.at
      /\ \A d \in Collectors :
           /\ pc[d] = "poll" => \A p \in pending \cap committed : uid[p] < asked[d]
           /\ pc[d] = "commit" => pending \cap committed = {} /\ batch[d] \cap committed = {}
  BY DEF SerialInv
<1>3. ASSUME pending' \subseteq pending,
             UNCHANGED <<uid, day, stored, committed, rank>>,
             \A d \in Collectors : pc'[d] \in {"poll", "commit"} =>
               pc'[d] = pc[d] /\ asked'[d] = asked[d] /\ batch'[d] = batch[d]
      PROVE  SerialInv'
  BY <1>1, <1>2, <1>3 DEF SerialInv
<1>4. CASE Start(c) \/ PollFails(c) \/ Confirm(c)
  <2>1. pending' \subseteq pending /\ UNCHANGED <<uid, day, stored, committed, rank, asked, batch>>
    BY <1>4 DEF Start, PollFails, Confirm, telegram, database
  <2>2. \A d \in Collectors : pc'[d] = pc[d] \/ pc'[d] \in {"offset", "done"}
    BY <1>1, <1>4 DEF Start, PollFails, Confirm, FeedbackTypeOK
  <2>3. QED
    BY <1>3, <2>1, <2>2
<1>5. CASE CommitFails(c) \/ Done(c) \/ Crash(c)
  <2>1. Idle(c) /\ UNCHANGED <<pending, uid, day, stored, committed, rank>>
    BY <1>5 DEF CommitFails, Done, Crash, telegram, database
  <2>2. \A d \in Collectors :
          pc'[d] = "idle" \/ (pc'[d] = pc[d] /\ asked'[d] = asked[d] /\ batch'[d] = batch[d])
    BY <1>1, <2>1 DEF Idle, FeedbackTypeOK
  <2>3. QED
    BY <1>3, <2>1, <2>2
<1>6. CASE StopWorker(c)
  BY <1>3, <1>6 DEF StopWorker, telegram, database, cycle
<1>7. CASE ReadOffset(c)
  <2>1. /\ UNCHANGED <<pending, uid, day, stored, committed, rank, batch, now>>
        /\ asked' = [asked EXCEPT ![c] = Offset] /\ pc' = [pc EXCEPT ![c] = "poll"]
    BY <1>7 DEF ReadOffset, telegram, database
  <2>2. \A d \in Collectors :
          /\ pc'[d] = IF d = c THEN "poll" ELSE pc[d]
          /\ asked'[d] = IF d = c THEN Offset ELSE asked[d]
    BY <1>1, <2>1 DEF FeedbackTypeOK
  <2>3. ASSUME NEW p \in pending \cap committed PROVE uid[p] < Offset
    <3>1. p \in 1..made /\ uid[p] \in Ids /\ now <= day[p] + Retention
      BY <1>1, <2>3 DEF BaseInv, Young, Ordered, FeedbackTypeOK
    <3>2. uid[p] <= stored.last /\ day[p] <= stored.at
      BY <1>2, <2>3
    <3>3. /\ uid[p] \in Nat /\ uid[p] > 0 /\ stored.last \in Nat /\ stored.at \in Nat
          /\ day[p] \in Nat /\ now \in Nat
      BY <1>1, <3>1, Numbers DEF Ids
    <3>4. now - stored.at < Trust
      BY <3>1, <3>2, <3>3, Constants
    <3>5. stored # NoOffset
      BY <3>2, <3>3 DEF NoOffset
    <3>6. Offset = stored.last + 1
      BY <3>4, <3>5 DEF Offset, Trusted
    <3>7. QED
      BY <3>2, <3>3, <3>6
  <2>4. QED
    BY <1>1, <1>2, <2>1, <2>2, <2>3 DEF SerialInv
<1>8. CASE Poll(c)
  <2>1. /\ pc[c] = "poll" /\ UNCHANGED <<uid, day, stored, committed, rank, asked>>
    BY <1>8 DEF Poll, database
  <2>2. /\ pending' = pending \ Below(asked[c]) /\ batch'[c] \subseteq pending'
        /\ pc'[c] \in {"done", "commit"}
        /\ \A d \in Collectors : d # c => pc'[d] = pc[d] /\ batch'[d] = batch[d]
    BY <1>8, PollFacts
  <2>3. pending' \cap committed = {}
    BY <1>2, <2>1, <2>2 DEF Below
  <2>4. \A d \in Collectors : d # c => pc[d] \notin {"poll", "commit"}
    BY <2>1, Alone DEF Pulling
  <2>5. QED
    BY <1>1, <1>2, <2>1, <2>2, <2>3, <2>4 DEF SerialInv
<1>9. CASE Commit(c)
  <2>1. /\ pc[c] = "commit" /\ pc' = [pc EXCEPT ![c] = "confirm"]
        /\ stored' = [last |-> Last(c), at |-> at[c]] /\ committed' = committed \cup batch[c]
        /\ UNCHANGED <<made, uid, day, pending, now, asked, batch>>
    BY <1>9 DEF Commit, telegram
  <2>2. \A d \in Collectors : pc'[d] = IF d = c THEN "confirm" ELSE pc[d]
    BY <1>1, <2>1 DEF FeedbackTypeOK
  <2>3. \A d \in Collectors : d # c => pc[d] \notin {"poll", "commit"}
    BY <2>1, Alone DEF Pulling
  <2>4. pending \cap committed = {} /\ batch[c] \cap committed = {}
    BY <1>2, <2>1
  <2>5. \A p \in pending \cap committed' : uid'[p] <= stored'.last /\ day'[p] <= stored'.at
    <3>1. \A p \in batch[c] : uid[p] <= Last(c)
      BY <1>9, CommitBase
    <3>2. \A p \in batch[c] : p \in 1..made /\ at[c] = now /\ day[p] <= now
      BY <1>9, CommitFacts DEF BaseInv, Ordered
    <3>3. QED
      BY <2>1, <2>4, <3>1, <3>2
  <2>6. \A p \in erased : rank'[p] = 0
    <3>1. erased \subseteq committed /\ erased \subseteq Presses
      <4>1. committed \subseteq 1..made /\ 1..made \subseteq Presses
        BY <1>1, Numbers DEF FeedbackTypeOK
      <4>2. QED
        BY <4>1 DEF BaseInv, Filed
    <3>2. Fresh(c) \cap erased = {}
      BY <1>9, <2>4, <3>1, CommitFacts
    <3>3. QED
      BY <1>2, <1>9, <3>1, <3>2, CommitFacts
  <2>7. \A d \in Collectors : pc'[d] \notin {"poll", "commit"}
    BY <2>2, <2>3
  <2>8. QED
    BY <1>1, <2>1, <2>5, <2>6, <2>7 DEF SerialInv
<1>10. QED
  BY <1>4, <1>5, <1>6, <1>7, <1>8, <1>9 DEF Collect

LEMMA StepSerial == BaseInv /\ LeaseInv /\ SerialInv /\ [CollectorNext]_collectorVars => SerialInv'
<1> SUFFICES ASSUME BaseInv, LeaseInv, SerialInv, [CollectorNext]_collectorVars PROVE SerialInv'
  OBVIOUS
<1>1. ASSUME pending' \subseteq pending, overran \subseteq overran',
             UNCHANGED <<uid, day, stored, committed, rank, erased, pc, asked, batch>>
      PROVE  SerialInv'
  BY <1>1 DEF SerialInv
<1>2. CASE Press
  <2>1. /\ pending' = pending \cup {made + 1}
        /\ \A p \in 1..made : uid'[p] = uid[p] /\ day'[p] = day[p]
        /\ UNCHANGED <<stored, committed, rank, erased, pc, asked, batch, overran>>
    BY <1>2, PressTyped DEF Press, database, cycle
  <2>2. made \in Nat /\ committed \subseteq 1..made
    BY Numbers DEF BaseInv, FeedbackTypeOK
  <2>3. pending' \cap committed = pending \cap committed
    BY <2>1, <2>2
  <2>4. \A p \in pending \cap committed : uid'[p] = uid[p] /\ day'[p] = day[p]
    BY <2>1, <2>2
  <2>5. QED
    BY <2>1, <2>3, <2>4 DEF SerialInv
<1>3. CASE Tick
  BY <1>1, <1>3 DEF Tick, database, cycle
<1>4. CASE LeaseExpires
  BY <1>1, <1>4 DEF LeaseExpires, telegram, database, cycle
<1>5. ASSUME NEW S, Delete(S), \A p \in S : p \in Presses /\ rank[p] # 0 PROVE SerialInv'
  <2>1. /\ rank' = [p \in Presses |-> IF p \in S THEN 0 ELSE rank[p]]
        /\ erased' = erased \cup S
        /\ UNCHANGED <<uid, day, pending, stored, committed, pc, asked, batch, overran>>
    BY <1>5 DEF Delete, telegram, cycle
  <2>2. erased \subseteq Presses
    <3>1. erased \subseteq 1..made /\ 1..made \subseteq Presses
      BY Numbers DEF BaseInv, FeedbackTypeOK
    <3>2. QED
      BY <3>1
  <2>3. (\A p \in erased : rank[p] = 0) => \A p \in erased' : rank'[p] = 0
    BY <1>5, <2>1, <2>2
  <2>4. QED
    BY <2>1, <2>3 DEF SerialInv
<1>6. ASSUME NEW r, ForgetUser(r) PROVE SerialInv'
  BY <1>5, <1>6 DEF ForgetUser
<1>7. ASSUME NEW before, Purge(before) PROVE SerialInv'
  BY <1>5, <1>7 DEF Purge
<1>8. CASE UNCHANGED collectorVars
  BY <1>1, <1>8 DEF collectorVars, telegram, database, cycle
<1>9. QED
  BY <1>2, <1>3, <1>4, <1>6, <1>7, <1>8, CollectSerial DEF CollectorNext

(* As long as no collector outlives its lease, the row an operator deleted   *)
(* is not written again, though Telegram may still hold its update: Telegram *)
(* keeps it for less time than the offset is trusted.                       *)
THEOREM ErasedLabelsStayErased == CollectorSpec => []ErasedStaysErased
<1>1. SerialInv => ErasedStaysErased
  BY DEF SerialInv, ErasedStaysErased
<1>2. QED
  BY <1>1, BaseCorrect, InitLease, StepLease, InitSerial, StepSerial, PTL DEF CollectorSpec
============================================================================
