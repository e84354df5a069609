------------------------ MODULE PersistHistoryProofs ------------------------
(* Theorems about PersistHistory, for every number of runs, products,       *)
(* prices, attempts and repetitions, as long as an artifact is gone before  *)
(* a row of its run can be pruned (PersistAssumption).                      *)
EXTENDS PersistHistory, FiniteSetTheorems, TLAPS

RunRecords == [stage : Stages, base : Docs, incoming : Docs, made : Dates, begun : Dates,
               persists : 0..MaxPersists, attempt : 1..MaxAttempts, tip : 0..MaxCommits,
               merged : Docs, answer : Answers]

Finite(d) == \A p \in Products : IsFiniteSet(d[p].rows)

FiniteInv ==
  /\ Finite(doc)
  /\ \A r \in Runs : Finite(runs[r].base) /\ Finite(runs[r].incoming) /\ Finite(runs[r].merged)

(* The rows of a document are those of the first commit and of landed runs. *)
Known(d) == \A p \in Products : \A row \in d[p].rows : row.run \in {0} \cup landed

(* A product never disappears.                                              *)
Within(d, e) == \A p \in Products : d[p] # NoEntry => e[p] # NoEntry

(* What a run started from is known, and the branch still has its products. *)
BaseOK(r) == Known(runs[r].base) /\ Within(runs[r].base, doc)

(* A run adds rows of its own, all of one day, and removes old ones only.   *)
CopyOK(r) == Scraped(r) =>
  /\ Within(runs[r].base, runs[r].incoming)
  /\ runs[r].made <= today
  /\ \A p \in Products : \A row \in Change(r).add[p] : row.run = r /\ row.date = runs[r].made
  /\ \A p \in Products : \A row \in Change(r).drop[p] : runs[r].made - row.date > MaxDays

NewOK(r) == ~Scraped(r) => r \notin landed /\ runs[r].answer = "none"

(* A persist job runs while its run's rows are too young to be pruned.      *)
DueOK(r) == runs[r].stage \in {"fetch", "push"} =>
  runs[r].begun <= today /\ today <= runs[r].begun + 1
  /\ runs[r].begun - runs[r].made <= Retention

(* The merge that waits to be pushed is current, if nobody was faster.      *)
PushOK(r) ==
  /\ runs[r].tip <= commits
  /\ runs[r].stage = "push" /\ runs[r].tip = commits =>
       runs[r].merged = Merged(runs[r].incoming, doc, runs[r].base)

(* What a landed run pruned never comes back.                               *)
Gone(r) == \A p \in Products : Change(r).drop[p] \cap doc[p].rows = {}
LandedOK(r) == r \in landed => Present(r) /\ Gone(r)

AnswerOK(r) == runs[r].answer \in {"pushed", "nothing to commit"} => Present(r)

RunOK(r) == /\ BaseOK(r) /\ CopyOK(r) /\ NewOK(r) /\ DueOK(r)
            /\ PushOK(r) /\ LandedOK(r) /\ AnswerOK(r)

Typed == TypeOK /\ FiniteInv
Inv == Typed /\ Known(doc) /\ \A r \in Runs : RunOK(r)

----------------------------------------------------------------------------
LEMMA Constants ==
  /\ MaxRuns \in Nat /\ Runs = 1..MaxRuns /\ 0 \notin Runs /\ Runs \subseteq Nat
  /\ MaxDate \in Nat /\ Dates = 0..MaxDate /\ MaxDays \in Nat /\ Retention \in Nat
  /\ Retention + 1 <= MaxDays /\ MaxAttempts \in Nat /\ 1 \in 1..MaxAttempts
  /\ MaxPersists \in Nat /\ MaxCommits \in Nat /\ 0 \in 0..MaxCommits /\ 0 \in 0..MaxPersists
  /\ Prices \subseteq Nat /\ -1 \notin Prices /\ NoEntry \notin [rows : SUBSET Rows, low : Prices]
BY PersistAssumption DEF Runs, Dates, NoEntry

(* The fallback of prune_history keeps at least what is recent.             *)
LEMMA PrunedIsOld ==
  ASSUME NEW rows \in SUBSET Rows, IsFiniteSet(rows), today \in Dates
  PROVE  /\ Pruned(rows) \subseteq rows
         /\ \A r \in rows \ Pruned(rows) : today - r.date > MaxDays
<1> USE Constants
<1>1. CASE Cardinality(Recent(rows)) >= MinEntries
  BY <1>1 DEF Pruned, Recent, Rows
<1>2. CASE ~(Cardinality(Recent(rows)) >= MinEntries)
  <2>1. IsFiniteSet(Recent(rows)) /\ Cardinality(Recent(rows)) \in Nat /\ Recent(rows) \subseteq rows
    BY FS_Subset, FS_CardinalityType DEF Recent
  <2>2. ASSUME NEW r \in Recent(rows)
        PROVE  Cardinality({q \in rows : Later(q, r)}) < MinEntries
    <3> DEFINE D == {q \in rows : Later(q, r)}
    <3>1. \A q \in D : q \in Recent(rows)
      BY DEF Later, Recent, Rows
    <3>2. D \subseteq Recent(rows)
      BY <3>1
    <3>3. IsFiniteSet(D) /\ Cardinality(D) <= Cardinality(Recent(rows)) /\ Cardinality(D) \in Nat
      <4> HIDE DEF D
      <4> QED BY <2>1, <3>2, FS_Subset, FS_CardinalityType
    <3> HIDE DEF D
    <3> QED BY <1>2, <2>1, <3>3, PersistAssumption DEF D
  <2> QED BY <1>2, <2>1, <2>2 DEF Pruned, Recent, Rows
<1> QED BY <1>1, <1>2

LEMMA LowerType ==
  /\ \A a \in Prices \cup {-1}, b \in Prices : Lower(a, b) \in Prices
  /\ \A a \in Prices, b \in Prices \cup {-1} : Lower(a, b) \in Prices
BY Constants DEF Lower

LEMMA EntryFacts ==
  /\ \A e \in Entries : e.rows \in SUBSET Rows /\ e.low \in Prices \cup {-1}
  /\ \A e \in Entries : e # NoEntry => e \in [rows : SUBSET Rows, low : Prices]
  /\ NoEntry \in Entries /\ NoEntry.rows = {} /\ NoDoc \in Docs
  /\ \A d \in Docs, p \in Products : d[p] \in Entries
  /\ \A d \in Docs : d = [p \in Products |-> d[p]]
BY DEF Entries, NoEntry, Docs, NoDoc

LEMMA ObservedType ==
  ASSUME NEW e \in Entries, NEW row \in Rows, IsFiniteSet(e.rows), today \in Dates
  PROVE  /\ Observed(e, row) \in Entries /\ Observed(e, row) # NoEntry
         /\ IsFiniteSet(Observed(e, row).rows)
         /\ Observed(e, row).rows \subseteq e.rows \cup {row}
         /\ \A r \in e.rows \ Observed(e, row).rows : today - r.date > MaxDays
<1> DEFINE all == e.rows \cup {row}
<1>1. all \in SUBSET Rows /\ IsFiniteSet(all)
  BY EntryFacts, FS_AddElement
<1>2. Pruned(all) \subseteq all /\ \A r \in all \ Pruned(all) : today - r.date > MaxDays
  <2> HIDE DEF all
  <2> QED BY <1>1, PrunedIsOld
<1>3. IsFiniteSet(Pruned(all))
  <2> HIDE DEF all
  <2> QED BY <1>1, <1>2, FS_Subset
<1>4. Observed(e, row) = [rows |-> Pruned(all), low |-> Lower(e.low, row.price)]
  BY DEF Observed
<1>5. Lower(e.low, row.price) \in Prices
  BY EntryFacts, LowerType DEF Rows
<1> HIDE DEF all
<1>6. Observed(e, row) \in [rows : SUBSET Rows, low : Prices]
  BY <1>1, <1>2, <1>4, <1>5
<1>7. Observed(e, row).rows = Pruned(all)
  BY <1>4
<1>8. Observed(e, row) \in Entries /\ Observed(e, row) # NoEntry
  BY <1>6, Constants DEF Entries
<1>9. \A r \in e.rows : r \in all
  BY DEF all
<1>10. \A r \in e.rows \ Observed(e, row).rows : today - r.date > MaxDays
  BY <1>2, <1>7, <1>9
<1>11. Observed(e, row).rows \subseteq e.rows \cup {row}
  BY <1>2, <1>7 DEF all
<1> QED BY <1>3, <1>7, <1>8, <1>10, <1>11

LEMMA MergedType ==
  ASSUME NEW i \in Docs, NEW t \in Docs, NEW b \in Docs
  PROVE  /\ Merged(i, t, b) \in Docs
         /\ Finite(i) /\ Finite(t) => Finite(Merged(i, t, b))
         /\ Within(t, Merged(i, t, b))
<1>1. ASSUME NEW p \in Products
      PROVE  /\ Merged(i, t, b)[p] \in Entries
             /\ IsFiniteSet(i[p].rows) /\ IsFiniteSet(t[p].rows) =>
                  IsFiniteSet(Merged(i, t, b)[p].rows)
             /\ t[p] # NoEntry => Merged(i, t, b)[p] # NoEntry
  <2> DEFINE m == Merged(i, t, b)[p]
  <2>1. m = MergedEntry(i[p], t[p], b[p]) /\ i[p] \in Entries /\ t[p] \in Entries
    BY EntryFacts DEF Merged
  <2>2. CASE t[p] = NoEntry \/ i[p] = NoEntry
    BY <2>1, <2>2 DEF MergedEntry
  <2>3. CASE t[p] # NoEntry /\ i[p] # NoEntry
    <3>1. m = [rows |-> MergedRows(i[p].rows, t[p].rows, b[p].rows),
               low |-> MergedLow(i[p].low, t[p].low)]
      BY <2>1, <2>3 DEF MergedEntry
    <3>2. MergedLow(i[p].low, t[p].low) \in Prices
      BY <2>1, <2>3, EntryFacts, LowerType DEF MergedLow
    <3>3. MergedRows(i[p].rows, t[p].rows, b[p].rows) \in SUBSET Rows
      BY <2>1, EntryFacts DEF MergedRows
    <3>4. m \in [rows : SUBSET Rows, low : Prices]
      BY <3>1, <3>2, <3>3
    <3>5. IsFiniteSet(i[p].rows) /\ IsFiniteSet(t[p].rows) => IsFiniteSet(m.rows)
      <4> SUFFICES ASSUME IsFiniteSet(i[p].rows), IsFiniteSet(t[p].rows)
                   PROVE  IsFiniteSet(m.rows)
        OBVIOUS
      <4>1. IsFiniteSet(i[p].rows \cup t[p].rows)
        BY FS_Union
      <4>2. m.rows \subseteq i[p].rows \cup t[p].rows
        BY <3>1 DEF MergedRows
      <4> QED BY <4>1, <4>2, FS_Subset
    <3> QED BY <3>4, <3>5, Constants DEF Entries
  <2> QED BY <2>2, <2>3
<1>2. Merged(i, t, b) = [p \in Products |-> Merged(i, t, b)[p]]
  BY DEF Merged
<1> QED BY <1>1, <1>2 DEF Docs, Finite, Within

(* The merge is the run's change applied to the tip.                        *)
LEMMA MergedRowsFact ==
  ASSUME NEW i \in Docs, NEW t \in Docs, NEW b \in Docs, Within(b, i), Within(b, t),
         NEW p \in Products
  PROVE  Merged(i, t, b)[p].rows = (t[p].rows \ (b[p].rows \ i[p].rows))
                                      \cup (i[p].rows \ b[p].rows)
<1>1. Merged(i, t, b)[p] = MergedEntry(i[p], t[p], b[p])
  BY DEF Merged
<1>2. CASE t[p] = NoEntry
  BY <1>1, <1>2, EntryFacts DEF MergedEntry, Within
<1>3. CASE t[p] # NoEntry /\ i[p] = NoEntry
  BY <1>1, <1>3, EntryFacts DEF MergedEntry, Within
<1>4. CASE t[p] # NoEntry /\ i[p] # NoEntry
  BY <1>1, <1>4 DEF MergedEntry, MergedRows
<1> QED BY <1>2, <1>3, <1>4

----------------------------------------------------------------------------
(* Types.                                                                   *)
LEMMA RunFacts ==
  ASSUME NEW x \in RunRecords
  PROVE  /\ \A st \in Stages : [x EXCEPT !.stage = st] \in RunRecords
         /\ x.base \in Docs /\ x.incoming \in Docs /\ x.merged \in Docs
         /\ x.stage \in Stages /\ x.answer \in Answers
         /\ x.made \in Dates /\ x.begun \in Dates /\ x.tip \in 0..MaxCommits
         /\ x.attempt \in 1..MaxAttempts /\ x.persists \in 0..MaxPersists
BY DEF RunRecords

LEMMA AnswerFacts ==
  ASSUME TypeOK, NEW r \in Runs, NEW a \in Answers
  PROVE  /\ Answer(r, a) \in RunRecords
         /\ Answer(r, a) = [runs[r] EXCEPT !.stage = "artifact", !.merged = NoDoc, !.tip = 0,
                                           !.attempt = 1, !.begun = 0, !.answer = a]
         /\ Answer(r, a).base = runs[r].base /\ Answer(r, a).incoming = runs[r].incoming
         /\ Answer(r, a).made = runs[r].made /\ Answer(r, a).persists = runs[r].persists
         /\ Answer(r, a).stage = "artifact" /\ Answer(r, a).merged = NoDoc
         /\ Answer(r, a).tip = 0 /\ Answer(r, a).begun = 0 /\ Answer(r, a).answer = a
<1>1. runs[r] \in RunRecords
  BY DEF TypeOK, RunRecords
<1>2. Answer(r, a) = [runs[r] EXCEPT !.stage = "artifact", !.merged = NoDoc, !.tip = 0,
                                     !.attempt = 1, !.begun = 0, !.answer = a]
  BY <1>1 DEF Answer, Forget, Goes, RunRecords
<1>3. 0 \in Dates /\ "artifact" \in Stages
  BY Constants DEF Stages
<1>4. Answer(r, a) = [stage |-> "artifact", base |-> runs[r].base,
                       incoming |-> runs[r].incoming, made |-> runs[r].made, begun |-> 0,
                       persists |-> runs[r].persists, attempt |-> 1, tip |-> 0,
                       merged |-> NoDoc, answer |-> a]
  BY <1>1, <1>2 DEF RunRecords
<1>5. Answer(r, a) \in RunRecords
  BY <1>1, <1>3, <1>4, RunFacts, EntryFacts, Constants DEF RunRecords
<1> QED BY <1>2, <1>4, <1>5

LEMMA RejectedFacts ==
  ASSUME TypeOK, NEW r \in Runs
  PROVE  /\ Rejected(r) \in RunRecords
         /\ \/ Rejected(r) = Answer(r, "rejected")
            \/ Rejected(r) = [runs[r] EXCEPT !.stage = "fetch", !.merged = NoDoc, !.tip = 0,
                                             !.attempt = runs[r].attempt + 1]
<1>1. runs[r] \in RunRecords /\ runs[r].attempt \in 1..MaxAttempts
  BY DEF TypeOK, RunRecords
<1>2. CASE AttemptsLeft(r)
  <2>1. Rejected(r) = [runs[r] EXCEPT !.stage = "fetch", !.merged = NoDoc, !.tip = 0,
                                      !.attempt = runs[r].attempt + 1]
    BY <1>1, <1>2 DEF Rejected, Forget, Goes, RunRecords
  <2>2. runs[r].attempt + 1 \in 1..MaxAttempts /\ "fetch" \in Stages
    BY <1>1, <1>2, Constants DEF AttemptsLeft, Stages
  <2> QED BY <1>1, <2>1, <2>2, EntryFacts, Constants DEF RunRecords
<1>3. CASE ~AttemptsLeft(r)
  BY <1>3, AnswerFacts DEF Rejected, Answers
<1> QED BY <1>2, <1>3

(* A run's row for each product it found.                                   *)
ScrapedDoc(r, found, price) ==
  [p \in Products |->
     IF p \in found
     THEN Observed(runs[r].base[p], [run |-> r, date |-> today, price |-> price[p]])
     ELSE runs[r].base[p]]

LEMMA ScrapedFacts ==
  ASSUME TypeOK, FiniteInv, NEW r \in Runs, NEW found \in SUBSET Products,
         NEW price \in [found -> Prices]
  PROVE  LET d == ScrapedDoc(r, found, price) IN
         /\ d \in Docs /\ Finite(d) /\ Within(runs[r].base, d)
         /\ \A p \in Products : \A row \in d[p].rows \ runs[r].base[p].rows :
              row.run = r /\ row.date = today
         /\ \A p \in Products : \A row \in runs[r].base[p].rows \ d[p].rows :
              today - row.date > MaxDays
<1> DEFINE d == ScrapedDoc(r, found, price)
<1>1. runs[r].base \in Docs /\ today \in Dates /\ Finite(runs[r].base)
  BY DEF TypeOK, FiniteInv
<1>2. ASSUME NEW p \in Products
      PROVE  /\ d[p] \in Entries /\ IsFiniteSet(d[p].rows)
             /\ runs[r].base[p] # NoEntry => d[p] # NoEntry
             /\ \A row \in d[p].rows \ runs[r].base[p].rows : row.run = r /\ row.date = today
             /\ \A row \in runs[r].base[p].rows \ d[p].rows : today - row.date > MaxDays
  <2>1. runs[r].base[p] \in Entries /\ IsFiniteSet(runs[r].base[p].rows)
    BY <1>1, EntryFacts DEF Finite
  <2>2. CASE p \in found
    <3> DEFINE row == [run |-> r, date |-> today, price |-> price[p]]
    <3>1. row \in Rows /\ row.run = r /\ row.date = today
      BY <1>1, <2>2, Constants DEF Rows
    <3>2. d[p] = Observed(runs[r].base[p], row)
      BY <2>2 DEF ScrapedDoc
    <3> HIDE DEF row, d
    <3> QED BY <1>1, <2>1, <3>1, <3>2, ObservedType
  <2>3. CASE p \notin found
    <3>1. d[p] = runs[r].base[p]
      BY <2>3 DEF ScrapedDoc
    <3> HIDE DEF d
    <3> QED BY <2>1, <3>1
  <2> QED BY <2>2, <2>3
<1>3. d \in Docs
  BY <1>2 DEF Docs, ScrapedDoc
<1> HIDE DEF d
<1>4. Finite(d) /\ Within(runs[r].base, d)
  BY <1>2 DEF Finite, Within
<1> QED BY <1>2, <1>3, <1>4 DEF d

FiniteRun(x) == Finite(x.base) /\ Finite(x.incoming) /\ Finite(x.merged)

LEMMA NoDocFacts == NoDoc \in Docs /\ Finite(NoDoc)
BY EntryFacts, FS_EmptySet DEF NoDoc, Finite

(* A step of one run.                                                       *)
LEMMA OneRun ==
  ASSUME TypeOK, FiniteInv, NEW r \in Runs, NEW new \in RunRecords, FiniteRun(new),
         runs' = [runs EXCEPT ![r] = new]
  PROVE  /\ runs' \in [Runs -> RunRecords]
         /\ runs'[r] = new /\ \A q \in Runs \ {r} : runs'[q] = runs[q]
         /\ \A q \in Runs : FiniteRun(runs'[q])
<1>1. runs \in [Runs -> RunRecords]
  BY DEF TypeOK, RunRecords
<1>2. \A q \in Runs : FiniteRun(runs[q])
  BY DEF FiniteInv, FiniteRun
<1> QED BY <1>1, <1>2

LEMMA Idle ==
  ASSUME TypeOK, FiniteInv, NEW r \in Runs, NEW new \in RunRecords, FiniteRun(new),
         runs' = [runs EXCEPT ![r] = new], UNCHANGED <<Branch, today>>
  PROVE  TypeOK' /\ FiniteInv'
BY OneRun DEF TypeOK, RunRecords, FiniteInv, FiniteRun, Branch

LEMMA Landing ==
  ASSUME TypeOK, FiniteInv, NEW r \in Runs, NEW new \in RunRecords, FiniteRun(new),
         runs' = [runs EXCEPT ![r] = new], Lands(r)
  PROVE  TypeOK' /\ FiniteInv'
<1>1. runs[r].merged \in Docs /\ Finite(runs[r].merged)
  BY DEF TypeOK, FiniteInv
<1>2. commits' \in 0..MaxCommits /\ doc' \in Docs /\ Finite(doc') /\ landed' \subseteq Runs
  <2>1. commits' \in 0..MaxCommits
    BY Constants, SMTT(20) DEF Lands, TypeOK
  <2>2. doc' = runs[r].merged /\ landed' \subseteq Runs
    BY DEF Lands, TypeOK
  <2>3. Finite(doc')
    BY <1>1, <2>2 DEF Finite
  <2> QED BY <1>1, <2>1, <2>2, <2>3
<1>3. \A p \in Products : {row.price : row \in runs[r].merged[p].rows} \subseteq Prices
  BY <1>1, EntryFacts DEF Rows
<1>4. ever' \in [Products -> SUBSET Prices]
  BY <1>3 DEF Lands, TypeOK
<1>5. today' \in Dates
  BY DEF Lands, TypeOK
<1> QED BY <1>2, <1>4, <1>5, OneRun DEF TypeOK, RunRecords, FiniteInv, FiniteRun

LEMMA TypeStep ==
  ASSUME TypeOK, FiniteInv, [Next]_vars
  PROVE  TypeOK' /\ FiniteInv'
<1>1. \A r \in Runs : runs[r] \in RunRecords /\ FiniteRun(runs[r])
  BY DEF TypeOK, RunRecords, FiniteInv, FiniteRun
<1>2. CASE UNCHANGED vars
  BY <1>2 DEF vars, TypeOK, FiniteInv
<1>3. ASSUME NEW r \in Runs, Checkout(r) PROVE TypeOK' /\ FiniteInv'
  <2> DEFINE new == [Goes(r, "scrape") EXCEPT !.base = doc]
  <2>9. runs[r] \in RunRecords /\ doc \in Docs /\ "scrape" \in Stages
    BY <1>1 DEF TypeOK, Stages
  <2>10. new \in RunRecords
    BY <2>9 DEF Goes, RunRecords
  <2>11. new.base = doc /\ new.incoming = runs[r].incoming /\ new.merged = runs[r].merged
    BY <2>9 DEF Goes, RunRecords
  <2>12. FiniteRun(new)
    <3> HIDE DEF new
    <3> QED BY <1>1, <2>11 DEF FiniteRun, FiniteInv
  <2>1. new \in RunRecords /\ FiniteRun(new)
    BY <2>10, <2>12
  <2>2. runs' = [runs EXCEPT ![r] = new] /\ UNCHANGED <<Branch, today>>
    BY <1>3 DEF Checkout
  <2> HIDE DEF new
  <2> QED BY <2>1, <2>2, Idle
<1>4. ASSUME NEW r \in Runs, Scrape(r) PROVE TypeOK' /\ FiniteInv'
  <2>1. CASE runs' = [runs EXCEPT ![r] = Goes(r, "lost")]
    <3>1. Goes(r, "lost") \in RunRecords /\ FiniteRun(Goes(r, "lost"))
      BY <1>1 DEF Goes, Stages, FiniteRun, RunRecords
    <3> QED BY <1>4, <2>1, <3>1, Idle DEF Scrape
  <2>2. ASSUME NEW found \in SUBSET Products, NEW price \in [found -> Prices],
               runs' = [runs EXCEPT ![r] = [Goes(r, "artifact") EXCEPT
                          !.made = today, !.incoming = ScrapedDoc(r, found, price)]]
        PROVE  TypeOK' /\ FiniteInv'
    <3> DEFINE new == [Goes(r, "artifact") EXCEPT
                         !.made = today, !.incoming = ScrapedDoc(r, found, price)]
    <3>1. ScrapedDoc(r, found, price) \in Docs /\ Finite(ScrapedDoc(r, found, price))
      BY ScrapedFacts
    <3>2. new \in RunRecords /\ FiniteRun(new)
      <4> HIDE DEF ScrapedDoc
      <4> QED BY <1>1, <3>1 DEF Goes, Stages, FiniteRun, RunRecords, TypeOK
    <3> HIDE DEF new
    <3> QED BY <1>4, <2>2, <3>2, Idle DEF Scrape, new
  <2> QED BY <1>4, <2>1, <2>2 DEF Scrape, ScrapedDoc
<1>5. ASSUME NEW r \in Runs, StartPersist(r) PROVE TypeOK' /\ FiniteInv'
  <2> DEFINE new == [Goes(r, "fetch") EXCEPT
                       !.persists = @ + 1, !.begun = today, !.answer = "none"]
  <2>1. runs[r].persists + 1 \in 0..MaxPersists
    <3>1. runs[r].persists \in 0..MaxPersists /\ runs[r].persists < MaxPersists
      BY <1>1, <1>5, RunFacts DEF StartPersist
    <3> QED BY <3>1, Constants
  <2>2. new \in RunRecords /\ FiniteRun(new)
    BY <1>1, <2>1 DEF Goes, Stages, Answers, FiniteRun, RunRecords, TypeOK
  <2>3. runs' = [runs EXCEPT ![r] = new] /\ UNCHANGED <<Branch, today>>
    BY <1>5 DEF StartPersist
  <2> HIDE DEF new
  <2> QED BY <2>2, <2>3, Idle
<1>6. ASSUME NEW r \in Runs, NEW a \in Answers
      PROVE  Answer(r, a) \in RunRecords /\ FiniteRun(Answer(r, a))
  <2>1. Answer(r, a) \in RunRecords
    BY AnswerFacts
  <2> QED BY <1>1, <2>1, AnswerFacts, NoDocFacts DEF FiniteRun
<1>7. ASSUME NEW r \in Runs PROVE Rejected(r) \in RunRecords /\ FiniteRun(Rejected(r))
  <2>1. CASE Rejected(r) = Answer(r, "rejected")
    BY <1>6, <2>1 DEF Answers
  <2>2. CASE Rejected(r) = [runs[r] EXCEPT !.stage = "fetch", !.merged = NoDoc, !.tip = 0,
                                           !.attempt = runs[r].attempt + 1]
    <3>1. /\ Rejected(r).base = runs[r].base /\ Rejected(r).incoming = runs[r].incoming
          /\ Rejected(r).merged = NoDoc
      BY <1>1, <2>2 DEF RunRecords
    <3> QED BY <1>1, <3>1, RejectedFacts, NoDocFacts DEF FiniteRun
  <2> QED BY <2>1, <2>2, RejectedFacts
<1>8. ASSUME NEW r \in Runs, Fetch(r) PROVE TypeOK' /\ FiniteInv'
  <2> DEFINE m == Merged(runs[r].incoming, doc, runs[r].base)
             new == [Goes(r, "push") EXCEPT !.merged = m, !.tip = commits]
  <2>1. m \in Docs /\ Finite(m)
    BY <1>1, MergedType DEF FiniteRun, FiniteInv, RunRecords, TypeOK
  <2> HIDE DEF m
  <2>2. new \in RunRecords /\ FiniteRun(new)
    BY <1>1, <2>1 DEF Goes, Stages, FiniteRun, RunRecords, TypeOK
  <2>3. UNCHANGED <<Branch, today>>
        /\ \/ runs' = [runs EXCEPT ![r] = Answer(r, "nothing to commit")]
           \/ runs' = [runs EXCEPT ![r] = new]
    BY <1>8 DEF Fetch, m
  <2> HIDE DEF new
  <2> QED BY <1>6, <2>2, <2>3, Idle DEF Answers
<1>9. ASSUME NEW r \in Runs, PushLands(r) PROVE TypeOK' /\ FiniteInv'
  BY <1>6, <1>9, Landing DEF PushLands, Answers
<1>10. ASSUME NEW r \in Runs, PushAnswerLost(r) PROVE TypeOK' /\ FiniteInv'
  BY <1>7, <1>10, Landing DEF PushAnswerLost
<1>11. ASSUME NEW r \in Runs, PushRejected(r) \/ PersistFails(r) PROVE TypeOK' /\ FiniteInv'
  BY <1>6, <1>7, <1>11, Idle DEF PushRejected, PersistFails, Answers
<1>12. CASE OtherCommit \/ Tick
  <2>1. commits' \in 0..MaxCommits
    <3>1. commits \in 0..MaxCommits
      BY DEF TypeOK
    <3>2. commits' = commits \/ (commits < MaxCommits /\ commits' = commits + 1)
      BY <1>12 DEF OtherCommit, Tick, Branch
    <3> QED BY <3>1, <3>2, Constants
  <2>2. today' \in Dates
    <3>1. today \in 0..MaxDate /\ Dates = 0..MaxDate
      BY DEF TypeOK, Dates
    <3>2. today' = today \/ (today < MaxDate /\ today' = today + 1)
      BY <1>12 DEF OtherCommit, Tick
    <3> QED BY <3>1, <3>2, Constants
  <2> QED BY <1>12, <2>1, <2>2 DEF OtherCommit, Tick, TypeOK, FiniteInv, Branch
<1> QED
  BY <1>2, <1>3, <1>4, <1>5, <1>8, <1>9, <1>10, <1>11, <1>12 DEF Next

LEMMA InitTyped == Init => Typed
<1> SUFFICES ASSUME Init PROVE Typed
  OBVIOUS
<1>1. \A c \in Prices : [run |-> 0, date |-> 0, price |-> c] \in Rows
  BY Constants DEF Rows
<1>2. \A c \in Prices : [rows |-> {[run |-> 0, date |-> 0, price |-> c]}, low |-> c]
                          \in [rows : SUBSET Rows, low : Prices]
  BY <1>1
<1>3. doc \in Docs
  BY <1>2 DEF Init, Docs, Entries
<1>4. Finite(doc)
  <2>1. ASSUME NEW p \in Products PROVE IsFiniteSet(doc[p].rows)
    <3>1. CASE doc[p] = NoEntry
      BY <3>1, FS_EmptySet DEF NoEntry
    <3>2. ASSUME NEW c \in Prices,
                 doc[p] = [rows |-> {[run |-> 0, date |-> 0, price |-> c]}, low |-> c]
          PROVE  IsFiniteSet(doc[p].rows)
      <4>1. doc[p].rows = {[run |-> 0, date |-> 0, price |-> c]}
        BY <3>2
      <4> QED BY <4>1, FS_Singleton
    <3> QED BY <3>1, <3>2 DEF Init
  <2> QED BY <2>1 DEF Finite
<1>5. NewRun \in RunRecords
  BY Constants, NoDocFacts DEF NewRun, RunRecords, Stages, Answers
<1>6. runs \in [Runs -> RunRecords] /\ \A r \in Runs : FiniteRun(runs[r])
  <2>1. NewRun.base = NoDoc /\ NewRun.incoming = NoDoc /\ NewRun.merged = NoDoc
    BY DEF NewRun
  <2>2. FiniteRun(NewRun)
    BY <2>1, NoDocFacts DEF FiniteRun
  <2> QED BY <1>5, <2>2 DEF Init
<1>7. ever \in [Products -> SUBSET Prices]
  <2>1. \A p \in Products : \A row \in doc[p].rows : row.price \in Prices
    BY <1>3, EntryFacts DEF Rows
  <2> QED BY <2>1 DEF Init
<1> QED BY <1>3, <1>4, <1>6, <1>7, Constants DEF Init, Typed, TypeOK, RunRecords, FiniteInv, FiniteRun

(* TypeOK holds in every reachable state, together with the finiteness of   *)
(* every history: no persist job makes more than MaxAttempts attempts.      *)
THEOREM TypeCorrect == Spec => []TypeOK
<1>1. Typed /\ [Next]_vars => Typed'
  BY TypeStep DEF Typed
<1>2. Typed => TypeOK
  BY DEF Typed
<1> QED BY InitTyped, <1>1, <1>2, PTL DEF Spec

----------------------------------------------------------------------------
(* What landing does to the branch.                                         *)
LEMMA RowFacts ==
  ASSUME Typed, NEW r \in Runs, NEW p \in Products
  PROVE  /\ Change(r).add[p] = runs[r].incoming[p].rows \ runs[r].base[p].rows
         /\ Change(r).drop[p] = runs[r].base[p].rows \ runs[r].incoming[p].rows
         /\ Change(r).add[p] \subseteq Rows /\ Change(r).drop[p] \subseteq Rows
         /\ doc[p].rows \subseteq Rows
         /\ \A row \in Rows : row.date \in Nat
         /\ today \in Nat /\ runs[r].made \in Nat /\ runs[r].begun \in Nat
<1>1. runs[r] \in RunRecords /\ doc \in Docs /\ today \in Dates
  BY DEF Typed, TypeOK, RunRecords
<1>2. runs[r].incoming[p] \in Entries /\ runs[r].base[p] \in Entries /\ doc[p] \in Entries
  BY <1>1, RunFacts, EntryFacts
<1>3. Change(r).add[p] = runs[r].incoming[p].rows \ runs[r].base[p].rows
      /\ Change(r).drop[p] = runs[r].base[p].rows \ runs[r].incoming[p].rows
  BY DEF Change
<1>4. Dates \subseteq Nat
  BY Constants
<1> QED BY <1>1, <1>2, <1>3, <1>4, RunFacts, EntryFacts DEF Rows

(* While a persist job runs, its rows cannot be pruned.                     *)
LEMMA Young ==
  ASSUME Inv, NEW r \in Runs, runs[r].stage \in {"fetch", "push"}, NEW p \in Products,
         NEW row \in Change(r).add[p]
  PROVE  ~(today - row.date > MaxDays)
<1>1. RunOK(r) /\ Typed
  BY DEF Inv
<1>2. row.date = runs[r].made
  BY <1>1 DEF RunOK, CopyOK, Scraped
<1>3. today <= runs[r].begun + 1 /\ runs[r].begun - runs[r].made <= Retention
  BY <1>1 DEF RunOK, DueOK
<1> QED BY <1>1, <1>2, <1>3, RowFacts, Constants, SMTT(20)

LEMMA LandedRows ==
  ASSUME Inv, NEW r \in Runs, Lands(r)
  PROVE  /\ Within(doc, doc')
         /\ \A p \in Products :
              doc'[p].rows = (doc[p].rows \ Change(r).drop[p]) \cup Change(r).add[p]
<1>1. RunOK(r) /\ Typed /\ runs[r].stage = "push" /\ runs[r].tip = commits
  BY DEF Inv, Lands
<1>2. doc' = Merged(runs[r].incoming, doc, runs[r].base)
  BY <1>1 DEF RunOK, PushOK, Lands
<1>3. runs[r].incoming \in Docs /\ runs[r].base \in Docs /\ doc \in Docs
  BY <1>1, RunFacts DEF Typed, TypeOK, RunRecords
<1>4. Within(runs[r].base, runs[r].incoming) /\ Within(runs[r].base, doc)
  BY <1>1 DEF RunOK, CopyOK, BaseOK, Scraped
<1>5. Within(doc, doc')
  BY <1>2, <1>3, MergedType
<1>6. \A p \in Products : doc'[p].rows =
        (doc[p].rows \ (runs[r].base[p].rows \ runs[r].incoming[p].rows))
           \cup (runs[r].incoming[p].rows \ runs[r].base[p].rows)
  BY <1>2, <1>3, <1>4, MergedRowsFact
<1> QED BY <1>1, <1>5, <1>6, RowFacts

(* A landing removes only what may be pruned, and brings back nothing.      *)
LEMMA LandedKeeps ==
  ASSUME Inv, NEW r \in Runs, Lands(r), NEW p \in Products
  PROVE  /\ \A row \in doc[p].rows : row \in doc'[p].rows \/ today - row.date > MaxDays
         /\ \A row \in doc'[p].rows : row \in doc[p].rows \/ row.run = r
         /\ Change(r).drop[p] \cap doc'[p].rows = {}
         /\ Change(r).add[p] \subseteq doc'[p].rows
         /\ r \in landed => doc'[p].rows = doc[p].rows
<1>1. RunOK(r) /\ Typed /\ Scraped(r)
  BY DEF Inv, Lands, Scraped
<1>2. \A row \in Change(r).drop[p] : today - row.date > MaxDays
  BY <1>1, RowFacts, Constants DEF RunOK, CopyOK
<1>3. \A row \in Change(r).add[p] : row.run = r
  BY <1>1 DEF RunOK, CopyOK
<1>4. Change(r).drop[p] \cap Change(r).add[p] = {}
  BY <1>1, RowFacts
<1>5. ASSUME r \in landed PROVE doc'[p].rows = doc[p].rows
  <2>1. Change(r).drop[p] \cap doc[p].rows = {}
    BY <1>1, <1>5 DEF RunOK, LandedOK, Gone
  <2>2. \A row \in Change(r).add[p] : row \in doc[p].rows
    BY <1>1, <1>5, Young DEF RunOK, LandedOK, Present, Lands
  <2>3. doc'[p].rows = (doc[p].rows \ Change(r).drop[p]) \cup Change(r).add[p]
    BY LandedRows
  <2> QED BY <2>1, <2>2, <2>3
<1> QED BY <1>2, <1>3, <1>4, <1>5, LandedRows

----------------------------------------------------------------------------
(* What a step leaves of the invariant.                                     *)
LEMMA SameChange ==
  ASSUME NEW r \in Runs, runs'[r].base = runs[r].base, runs'[r].incoming = runs[r].incoming
  PROVE  Change(r)' = Change(r)
BY DEF Change

(* A run that another one's step leaves alone, and the branch too.          *)
LEMMA OthersIdle ==
  ASSUME UNCHANGED <<Branch, today>>, NEW q \in Runs, runs'[q] = runs[q], RunOK(q)
  PROVE  RunOK(q)'
<1>1. Change(q)' = Change(q)
  BY SameChange
<1> QED BY <1>1 DEF RunOK, BaseOK, CopyOK, NewOK, DueOK, PushOK, LandedOK, AnswerOK, Present,
              Gone, Scraped, Known, Within, Branch

(* A run that another one's landing leaves alone.                           *)
LEMMA OthersLanding ==
  ASSUME Inv, NEW r \in Runs, Lands(r), NEW q \in Runs, q # r, runs'[q] = runs[q]
  PROVE  RunOK(q)'
<1>1. Change(q)' = Change(q) /\ today' = today /\ landed' = landed \cup {r} /\ RunOK(q)
  BY SameChange DEF Lands, Inv
<1>2. BaseOK(q)'
  <2>1. Known(runs[q].base) /\ Within(runs[q].base, doc) /\ Within(doc, doc')
    BY <1>1, LandedRows DEF RunOK, BaseOK
  <2> QED BY <1>1, <2>1 DEF BaseOK, Known, Within
<1>3. CopyOK(q)' /\ NewOK(q)' /\ DueOK(q)'
  BY <1>1 DEF RunOK, CopyOK, NewOK, DueOK, Scraped, Within
<1>4. PushOK(q)'
  <2>1. commits \in Nat /\ runs[q].tip \in Nat /\ runs[q].tip <= commits /\ commits' = commits + 1
    BY <1>1, Constants DEF RunOK, PushOK, Lands, Inv, Typed, TypeOK
  <2> QED BY <2>1 DEF PushOK
<1>5. Present(q) => Present(q)'
  BY <1>1, LandedKeeps DEF Present
<1>6. ASSUME q \in landed, Gone(q) PROVE Gone(q)'
  <2>1. ASSUME NEW p \in Products, NEW row \in Change(q).drop[p], row \in doc'[p].rows
        PROVE  FALSE
    <3>1. row \notin doc[p].rows
      BY <1>6, <2>1 DEF Gone
    <3>2. row.run = r /\ r \notin landed
      BY <2>1, <3>1, LandedKeeps
    <3>3. row \in runs[q].base[p].rows
      BY RowFacts DEF Inv
    <3>4. row.run \in {0} \cup landed
      BY <1>1, <3>3 DEF RunOK, BaseOK, Known
    <3> QED BY <3>2, <3>4, Constants
  <2> QED BY <1>1, <2>1 DEF Gone
<1>7. LandedOK(q)' /\ AnswerOK(q)'
  BY <1>1, <1>5, <1>6 DEF RunOK, LandedOK, AnswerOK
<1> QED BY <1>2, <1>3, <1>4, <1>7 DEF RunOK

(* A step of a run that keeps its copy, on a branch that stays.             *)
LEMMA OwnIdle ==
  ASSUME Inv, NEW r \in Runs, Scraped(r), Scraped(r)', UNCHANGED <<Branch, today>>,
         runs'[r].base = runs[r].base, runs'[r].incoming = runs[r].incoming,
         runs'[r].made = runs[r].made
  PROVE  /\ Change(r)' = Change(r)
         /\ BaseOK(r)' /\ CopyOK(r)' /\ NewOK(r)' /\ LandedOK(r)'
         /\ Present(r) => Present(r)'
<1>1. Change(r)' = Change(r) /\ RunOK(r)
  BY SameChange DEF Inv
<1> QED BY <1>1 DEF RunOK, BaseOK, CopyOK, NewOK, LandedOK, Present, Gone, Known, Within, Branch

(* The run that lands.                                                      *)
LEMMA OwnLanding ==
  ASSUME Inv, NEW r \in Runs, Lands(r), Scraped(r)',
         runs'[r].base = runs[r].base, runs'[r].incoming = runs[r].incoming,
         runs'[r].made = runs[r].made
  PROVE  /\ BaseOK(r)' /\ CopyOK(r)' /\ NewOK(r)' /\ LandedOK(r)' /\ Present(r)'
<1>1. /\ Change(r)' = Change(r) /\ RunOK(r) /\ Scraped(r)
      /\ today' = today /\ landed' = landed \cup {r}
  BY SameChange DEF Inv, Lands, Scraped
<1>2. BaseOK(r)'
  <2>1. Known(runs[r].base) /\ Within(runs[r].base, doc) /\ Within(doc, doc')
    BY <1>1, LandedRows DEF RunOK, BaseOK
  <2> QED BY <1>1, <2>1 DEF BaseOK, Known, Within
<1>3. CopyOK(r)' /\ NewOK(r)'
  BY <1>1 DEF RunOK, CopyOK, NewOK, Within
<1>4. Present(r)' /\ Gone(r)'
  BY <1>1, LandedKeeps DEF Present, Gone
<1> QED BY <1>2, <1>3, <1>4 DEF LandedOK

(* A persist job's process ends, or it tries again: what Answer and         *)
(* Rejected leave of the run.                                               *)
Ended(r) ==
  /\ runs'[r].base = runs[r].base /\ runs'[r].incoming = runs[r].incoming
  /\ runs'[r].made = runs[r].made /\ runs'[r].tip = 0
  /\ \/ runs'[r].stage = "artifact"
     \/ /\ runs'[r].stage = "fetch" /\ runs[r].stage \in {"fetch", "push"}
        /\ runs'[r].begun = runs[r].begun /\ runs'[r].answer = runs[r].answer

LEMMA EndedAnswer ==
  ASSUME Typed, NEW r \in Runs, NEW a \in Answers, runs' = [runs EXCEPT ![r] = Answer(r, a)]
  PROVE  Ended(r) /\ runs'[r].answer = a /\ Scraped(r)' /\ \A q \in Runs \ {r} : runs'[q] = runs[q]
<1>1. runs'[r] = Answer(r, a) /\ \A q \in Runs \ {r} : runs'[q] = runs[q]
  BY DEF Typed, TypeOK
<1>2. /\ runs'[r].base = runs[r].base /\ runs'[r].incoming = runs[r].incoming
      /\ runs'[r].made = runs[r].made /\ runs'[r].tip = 0
      /\ runs'[r].stage = "artifact" /\ runs'[r].answer = a
  <2>1. TypeOK
    BY DEF Typed
  <2>2. /\ Answer(r, a).base = runs[r].base /\ Answer(r, a).incoming = runs[r].incoming
        /\ Answer(r, a).made = runs[r].made /\ Answer(r, a).tip = 0
        /\ Answer(r, a).stage = "artifact" /\ Answer(r, a).answer = a
    BY <2>1, AnswerFacts, Zenon
  <2> QED BY <1>1, <2>2
<1> QED BY <1>1, <1>2 DEF Ended, Scraped

LEMMA EndedRejected ==
  ASSUME Typed, NEW r \in Runs, runs[r].stage = "push", runs' = [runs EXCEPT ![r] = Rejected(r)]
  PROVE  /\ Ended(r) /\ (runs'[r].answer = runs[r].answer \/ runs'[r].answer = "rejected")
         /\ Scraped(r)' /\ \A q \in Runs \ {r} : runs'[q] = runs[q]
<1>1. runs'[r] = Rejected(r) /\ \A q \in Runs \ {r} : runs'[q] = runs[q]
  BY DEF Typed, TypeOK
<1>2. CASE Rejected(r) = Answer(r, "rejected")
  BY <1>2, EndedAnswer DEF Answers
<1>3. CASE Rejected(r) = [runs[r] EXCEPT !.stage = "fetch", !.merged = NoDoc, !.tip = 0,
                                         !.attempt = runs[r].attempt + 1]
  <2>1. runs[r] \in RunRecords
    BY DEF Typed, TypeOK, RunRecords
  <2>2. /\ runs'[r].base = runs[r].base /\ runs'[r].incoming = runs[r].incoming
        /\ runs'[r].made = runs[r].made /\ runs'[r].tip = 0 /\ runs'[r].stage = "fetch"
        /\ runs'[r].begun = runs[r].begun /\ runs'[r].answer = runs[r].answer
    <3> DEFINE new == [runs[r] EXCEPT !.stage = "fetch", !.merged = NoDoc, !.tip = 0,
                                      !.attempt = runs[r].attempt + 1]
    <3>1. /\ new.base = runs[r].base /\ new.incoming = runs[r].incoming
          /\ new.made = runs[r].made /\ new.tip = 0 /\ new.stage = "fetch"
          /\ new.begun = runs[r].begun /\ new.answer = runs[r].answer
      BY <2>1 DEF RunRecords
    <3>2. runs'[r] = new
      BY <1>1, <1>3
    <3> HIDE DEF new
    <3> QED BY <3>1, <3>2
  <2> QED BY <1>1, <2>2 DEF Ended, Scraped
<1> QED BY <1>2, <1>3, RejectedFacts DEF Typed

(* What remains of RunOK for a run whose process ends or tries again.       *)
LEMMA EndedOK ==
  ASSUME Inv, NEW r \in Runs, Ended(r), commits' \in Nat, today' = today
  PROVE  DueOK(r)' /\ PushOK(r)'
<1>1. DueOK(r)
  BY DEF Inv, RunOK
<1>2. DueOK(r)'
  BY <1>1 DEF Ended, DueOK
<1>3. PushOK(r)'
  BY DEF Ended, PushOK
<1> QED BY <1>2, <1>3

LEMMA KnownStays ==
  ASSUME Inv, UNCHANGED Branch PROVE Known(doc)'
BY DEF Inv, Known, Branch

LEMMA CheckoutStep ==
  ASSUME Inv, NEW r \in Runs, Checkout(r) PROVE \A q \in Runs : RunOK(q)'
<1>1. runs[r] \in RunRecords /\ runs'[r] = [Goes(r, "scrape") EXCEPT !.base = doc]
      /\ \A q \in Runs \ {r} : runs'[q] = runs[q]
  BY DEF Inv, Typed, TypeOK, RunRecords, Checkout
<1>2. /\ runs'[r].stage = "scrape" /\ runs'[r].base = doc /\ runs'[r].tip = runs[r].tip
      /\ runs'[r].answer = runs[r].answer
  BY <1>1 DEF Goes, RunRecords
<1>3. UNCHANGED <<Branch, today>> /\ ~Scraped(r) /\ RunOK(r) /\ Known(doc)
  BY DEF Checkout, Scraped, Inv
<1>4. \A q \in Runs \ {r} : RunOK(q)'
  BY <1>1, <1>3, OthersIdle DEF Inv
<1>5. BaseOK(r)'
  BY <1>2, <1>3 DEF BaseOK, Known, Within, Branch
<1>6. CopyOK(r)' /\ NewOK(r)' /\ DueOK(r)' /\ PushOK(r)' /\ LandedOK(r)' /\ AnswerOK(r)'
  BY <1>2, <1>3 DEF RunOK, CopyOK, NewOK, DueOK, PushOK, LandedOK, AnswerOK, Scraped, Branch
<1> QED BY <1>4, <1>5, <1>6 DEF RunOK

LEMMA ScrapeStep ==
  ASSUME Inv, NEW r \in Runs, Scrape(r) PROVE \A q \in Runs : RunOK(q)'
<1>1. UNCHANGED <<Branch, today>> /\ ~Scraped(r) /\ RunOK(r) /\ runs[r] \in RunRecords /\ Typed
      /\ today \in Dates
  <2>1. UNCHANGED <<Branch, today>> /\ ~Scraped(r)
    BY DEF Scrape, Scraped
  <2>2. RunOK(r) /\ Typed
    BY DEF Inv
  <2>3. runs[r] \in RunRecords /\ today \in Dates
    BY <2>2 DEF Typed, TypeOK, RunRecords
  <2> QED BY <2>1, <2>2, <2>3
<1>2. r \notin landed /\ runs[r].answer = "none"
  BY <1>1 DEF RunOK, NewOK
<1>3. ASSUME NEW new \in RunRecords, runs' = [runs EXCEPT ![r] = new]
      PROVE  runs'[r] = new /\ \A q \in Runs \ {r} : RunOK(q)'
  <2>1. runs'[r] = new /\ \A q \in Runs \ {r} : runs'[q] = runs[q]
    BY <1>3 DEF Inv, Typed, TypeOK
  <2> QED BY <1>1, <2>1, OthersIdle DEF Inv
<1>4. CASE runs' = [runs EXCEPT ![r] = Goes(r, "lost")]
  <2>1. Goes(r, "lost") \in RunRecords
    BY <1>1, RunFacts DEF Goes, Stages
  <2>2. /\ runs'[r].stage = "lost" /\ runs'[r].base = runs[r].base
        /\ runs'[r].tip = runs[r].tip /\ runs'[r].answer = runs[r].answer
    <3>1. runs'[r] = Goes(r, "lost")
      BY <1>3, <1>4, <2>1
    <3> QED BY <1>1, <3>1 DEF Goes, RunRecords
  <2>3. RunOK(r)'
    BY <1>1, <1>2, <2>2 DEF RunOK, BaseOK, CopyOK, NewOK, DueOK, PushOK, LandedOK, AnswerOK,
                            Scraped, Known, Within, Branch
  <2> QED BY <1>3, <1>4, <2>1, <2>3
<1>5. ASSUME NEW found \in SUBSET Products, NEW price \in [found -> Prices],
             runs' = [runs EXCEPT ![r] = [Goes(r, "artifact") EXCEPT
                        !.made = today, !.incoming = ScrapedDoc(r, found, price)]]
      PROVE  \A q \in Runs : RunOK(q)'
  <2> DEFINE d == ScrapedDoc(r, found, price)
             new == [Goes(r, "artifact") EXCEPT !.made = today, !.incoming = d]
  <2>1. /\ d \in Docs /\ Within(runs[r].base, d)
        /\ \A p \in Products : \A row \in d[p].rows \ runs[r].base[p].rows :
             row.run = r /\ row.date = today
        /\ \A p \in Products : \A row \in runs[r].base[p].rows \ d[p].rows :
             today - row.date > MaxDays
    BY <1>1, ScrapedFacts DEF Typed
  <2>2. runs' = [runs EXCEPT ![r] = new]
    BY <1>5
  <2> HIDE DEF d
  <2>3. new \in RunRecords
    BY <1>1, <2>1 DEF Goes, Stages, RunRecords
  <2>4. /\ new.stage = "artifact" /\ new.base = runs[r].base /\ new.incoming = d
        /\ new.made = today /\ new.tip = runs[r].tip /\ new.answer = runs[r].answer
    BY <1>1 DEF Goes, RunRecords
  <2> HIDE DEF new
  <2>5. runs'[r] = new /\ \A q \in Runs \ {r} : RunOK(q)'
    BY <1>3, <2>2, <2>3
  <2>6. \A p \in Products : Change(r)'.add[p] = d[p].rows \ runs[r].base[p].rows
                            /\ Change(r)'.drop[p] = runs[r].base[p].rows \ d[p].rows
    BY <2>4, <2>5 DEF Change
  <2>7. CopyOK(r)'
    <3>1. today' = today /\ today <= today
      BY <1>1, Constants
    <3> QED BY <2>1, <2>4, <2>5, <2>6, <3>1 DEF CopyOK, Within
  <2>8. BaseOK(r)'
    BY <1>1, <2>4, <2>5 DEF RunOK, BaseOK, Known, Within, Branch
  <2>9. NewOK(r)' /\ DueOK(r)' /\ PushOK(r)' /\ LandedOK(r)' /\ AnswerOK(r)'
    BY <1>1, <1>2, <2>4, <2>5 DEF RunOK, NewOK, DueOK, PushOK, LandedOK, AnswerOK, Scraped, Branch
  <2> QED BY <2>5, <2>7, <2>8, <2>9 DEF RunOK
<1> QED BY <1>4, <1>5 DEF Scrape, ScrapedDoc

Started(r) == [Goes(r, "fetch") EXCEPT !.persists = @ + 1, !.begun = today, !.answer = "none"]

LEMMA StartPersistStep ==
  ASSUME Inv, NEW r \in Runs, StartPersist(r) PROVE \A q \in Runs : RunOK(q)'
<1>1. Typed /\ RunOK(r) /\ UNCHANGED <<Branch, today>> /\ today - runs[r].made <= Retention
      /\ today \in Nat /\ Scraped(r)
  <2>1. Typed /\ RunOK(r)
    BY DEF Inv
  <2>2. today \in Nat
    BY <2>1, Constants DEF Typed, TypeOK
  <2> QED BY <2>1, <2>2 DEF StartPersist, Scraped
<1>2. runs[r] \in RunRecords /\ runs'[r] = Started(r)
      /\ \A q \in Runs \ {r} : runs'[q] = runs[q]
  BY <1>1 DEF Typed, TypeOK, RunRecords, StartPersist, Started
<1>3. /\ runs'[r].base = runs[r].base /\ runs'[r].incoming = runs[r].incoming
      /\ runs'[r].made = runs[r].made /\ runs'[r].tip = runs[r].tip
      /\ runs'[r].stage = "fetch" /\ runs'[r].begun = today /\ runs'[r].answer = "none"
  <2> DEFINE new == Started(r)
  <2>1. /\ new.base = runs[r].base /\ new.incoming = runs[r].incoming
        /\ new.made = runs[r].made /\ new.tip = runs[r].tip
        /\ new.stage = "fetch" /\ new.begun = today /\ new.answer = "none"
    BY <1>2 DEF Goes, RunRecords, Started
  <2>2. runs'[r] = new
    BY <1>2
  <2> HIDE DEF new
  <2> QED BY <2>1, <2>2
<1>4. BaseOK(r)' /\ CopyOK(r)' /\ NewOK(r)' /\ LandedOK(r)'
  BY <1>1, <1>3, OwnIdle DEF Scraped
<1>5. DueOK(r)' /\ PushOK(r)' /\ AnswerOK(r)'
  <2>1. runs[r].made \in Nat /\ Retention \in Nat /\ runs[r].begun \in Nat
    <3>1. runs[r].made \in Dates /\ runs[r].begun \in Dates
      BY <1>2, RunFacts
    <3> QED BY <3>1, Constants
  <2>2. commits' = commits /\ today' = today
    BY <1>1 DEF Branch
  <2>3. DueOK(r)'
    BY <1>1, <1>3, <2>1, <2>2 DEF DueOK
  <2>4. PushOK(r)'
    BY <1>1, <1>3, <2>2 DEF RunOK, PushOK
  <2>5. AnswerOK(r)'
    BY <1>3 DEF AnswerOK
  <2> QED BY <2>3, <2>4, <2>5
<1>6. \A q \in Runs \ {r} : RunOK(q)'
  BY <1>1, <1>2, OthersIdle DEF Inv
<1> QED BY <1>4, <1>5, <1>6 DEF RunOK

(* A new answer is true.                                                    *)
Told(r) == \/ runs'[r].answer \notin {"pushed", "nothing to commit"}
           \/ runs'[r].answer = runs[r].answer
           \/ Present(r)

(* A process that ends without touching the branch.                         *)
LEMMA EndedStep ==
  ASSUME Inv, NEW r \in Runs, Ended(r), Scraped(r), Scraped(r)', UNCHANGED <<Branch, today>>,
         \A q \in Runs \ {r} : runs'[q] = runs[q],
         Told(r)
  PROVE  \A q \in Runs : RunOK(q)'
<1>1. RunOK(r) /\ commits' \in Nat /\ today' = today
  <2>1. RunOK(r) /\ TypeOK
    BY DEF Inv, Typed
  <2>2. commits \in 0..MaxCommits
    BY <2>1 DEF TypeOK
  <2>3. commits' = commits /\ today' = today
    BY DEF Branch
  <2>4. commits \in Nat
    BY <2>2
  <2> QED BY <2>1, <2>3, <2>4
<1>2. BaseOK(r)' /\ CopyOK(r)' /\ NewOK(r)' /\ LandedOK(r)' /\ (Present(r) => Present(r)')
  <2>1. /\ runs'[r].base = runs[r].base /\ runs'[r].incoming = runs[r].incoming
        /\ runs'[r].made = runs[r].made
    BY DEF Ended
  <2> QED BY <2>1, OwnIdle
<1>3. DueOK(r)' /\ PushOK(r)'
  BY <1>1, EndedOK
<1>4. AnswerOK(r)'
  BY <1>1, <1>2 DEF RunOK, AnswerOK, Told
<1>5. \A q \in Runs \ {r} : RunOK(q)'
  BY OthersIdle DEF Inv
<1> QED BY <1>2, <1>3, <1>4, <1>5 DEF RunOK

(* The merge changed nothing: the run's rows are there.                     *)
LEMMA FetchStep ==
  ASSUME Inv, NEW r \in Runs, Fetch(r) PROVE \A q \in Runs : RunOK(q)'
<1> DEFINE m == Merged(runs[r].incoming, doc, runs[r].base)
           new == [Goes(r, "push") EXCEPT !.merged = m, !.tip = commits]
<1>1. /\ Typed /\ RunOK(r) /\ runs[r] \in RunRecords /\ runs[r].stage = "fetch" /\ Scraped(r)
      /\ UNCHANGED <<Branch, today>>
  BY DEF Inv, Fetch, Scraped, Typed, TypeOK, RunRecords
<1>2. CASE m = doc /\ runs' = [runs EXCEPT ![r] = Answer(r, "nothing to commit")]
  <2>1. Within(runs[r].base, runs[r].incoming) /\ Within(runs[r].base, doc)
    BY <1>1 DEF RunOK, BaseOK, CopyOK
  <2>2. runs[r].incoming \in Docs /\ runs[r].base \in Docs /\ doc \in Docs
    BY <1>1, RunFacts DEF Typed, TypeOK
  <2>3. Present(r)
    <3>1. \A p \in Products : runs[r].incoming[p].rows \ runs[r].base[p].rows \subseteq doc[p].rows
      <4>1. doc = Merged(runs[r].incoming, doc, runs[r].base)
        BY <1>2
      <4> HIDE DEF m, new
      <4>2. \A p \in Products : doc[p].rows =
              (doc[p].rows \ (runs[r].base[p].rows \ runs[r].incoming[p].rows))
                 \cup (runs[r].incoming[p].rows \ runs[r].base[p].rows)
        <5>1. \A p \in Products : Merged(runs[r].incoming, doc, runs[r].base)[p].rows =
                (doc[p].rows \ (runs[r].base[p].rows \ runs[r].incoming[p].rows))
                   \cup (runs[r].incoming[p].rows \ runs[r].base[p].rows)
          BY <2>1, <2>2, MergedRowsFact
        <5> QED BY <4>1, <5>1
      <4> QED BY <4>2
    <3> QED BY <1>1, <3>1, RowFacts DEF Present
  <2>4. Ended(r) /\ Scraped(r)' /\ \A q \in Runs \ {r} : runs'[q] = runs[q]
    BY <1>1, <1>2, EndedAnswer DEF Answers
  <2> QED BY <1>1, <2>3, <2>4, EndedStep DEF Told
<1>3. CASE runs' = [runs EXCEPT ![r] = new]
  <2>1. runs'[r] = new /\ \A q \in Runs \ {r} : runs'[q] = runs[q]
    BY <1>1, <1>3 DEF Typed, TypeOK
  <2> HIDE DEF m
  <2>2. /\ runs'[r].base = runs[r].base /\ runs'[r].incoming = runs[r].incoming
        /\ runs'[r].made = runs[r].made /\ runs'[r].tip = commits
        /\ runs'[r].stage = "push" /\ runs'[r].begun = runs[r].begun
        /\ runs'[r].answer = runs[r].answer /\ runs'[r].merged = m
    BY <1>1, <2>1 DEF Goes, RunRecords
  <2> HIDE DEF new
  <2>3. BaseOK(r)' /\ CopyOK(r)' /\ NewOK(r)' /\ LandedOK(r)' /\ (Present(r) => Present(r)')
    BY <1>1, <2>2, OwnIdle DEF Scraped
  <2>4. commits \in Nat /\ commits' = commits /\ doc' = doc
    BY <1>1, Constants DEF Typed, TypeOK, Branch
  <2>5. PushOK(r)'
    BY <2>2, <2>4 DEF PushOK, m
  <2>6. DueOK(r)' /\ AnswerOK(r)'
    BY <1>1, <2>2, <2>3 DEF RunOK, DueOK, AnswerOK
  <2>7. \A q \in Runs \ {r} : RunOK(q)'
    BY <1>1, <2>1, OthersIdle DEF Inv
  <2> QED BY <2>3, <2>5, <2>6, <2>7 DEF RunOK
<1> QED BY <1>2, <1>3 DEF Fetch

(* A push that lands, whatever its author is told.                          *)
LEMMA LandingStep ==
  ASSUME Inv, NEW r \in Runs, Lands(r), Ended(r), Scraped(r)',
         \A q \in Runs \ {r} : runs'[q] = runs[q]
  PROVE  Known(doc)' /\ \A q \in Runs : RunOK(q)'
<1>1. /\ RunOK(r) /\ Known(doc) /\ commits' \in Nat /\ today' = today
      /\ landed' = landed \cup {r}
  <2>1. commits' \in Nat
    BY Constants DEF Inv, Typed, TypeOK, Lands
  <2> QED BY <2>1 DEF Inv, Lands
<1>2. Known(doc)'
  BY <1>1, LandedKeeps DEF Known
<1>3. BaseOK(r)' /\ CopyOK(r)' /\ NewOK(r)' /\ LandedOK(r)' /\ Present(r)'
  <2>1. /\ runs'[r].base = runs[r].base /\ runs'[r].incoming = runs[r].incoming
        /\ runs'[r].made = runs[r].made
    BY DEF Ended
  <2> QED BY <2>1, OwnLanding
<1>4. DueOK(r)' /\ PushOK(r)'
  BY <1>1, EndedOK
<1>5. AnswerOK(r)'
  BY <1>3 DEF AnswerOK
<1>6. \A q \in Runs \ {r} : RunOK(q)'
  BY OthersLanding DEF Inv
<1> QED BY <1>2, <1>3, <1>4, <1>5, <1>6 DEF RunOK

LEMMA OtherStep ==
  ASSUME Inv, OtherCommit \/ Tick PROVE Known(doc)' /\ \A q \in Runs : RunOK(q)'
<1>1. /\ UNCHANGED <<doc, landed, runs>>
      /\ commits \in Nat /\ today \in Nat
      /\ commits' = commits \/ commits' = commits + 1
      /\ today' = today \/ (today' = today + 1
           /\ \A r \in Runs : runs[r].stage \in {"fetch", "push"} => runs[r].begun = today)
  <2>1. commits \in Nat /\ today \in Nat
    BY Constants DEF Inv, Typed, TypeOK
  <2> QED BY <2>1 DEF OtherCommit, Tick, Branch
<1>2. ASSUME NEW q \in Runs PROVE RunOK(q)'
  <2>1. /\ RunOK(q) /\ Change(q)' = Change(q) /\ runs[q].made \in Nat
        /\ runs[q].tip \in Nat /\ runs[q].begun \in Nat
    <3>1. runs[q] \in RunRecords
      BY DEF Inv, Typed, TypeOK, RunRecords
    <3> QED BY <1>1, <3>1, SameChange, RunFacts, Constants, SMTT(20) DEF Inv
  <2>2. BaseOK(q)' /\ NewOK(q)'
    BY <1>1, <2>1 DEF RunOK, BaseOK, NewOK, Known, Within, Scraped
  <2>3. CopyOK(q)'
    BY <1>1, <2>1 DEF RunOK, CopyOK, Within, Scraped
  <2>4. DueOK(q)'
    BY <1>1, <2>1 DEF RunOK, DueOK
  <2>5. PushOK(q)'
    BY <1>1, <2>1 DEF RunOK, PushOK
  <2>6. Present(q) => Present(q)'
    <3>1. \A p \in Products : \A row \in Change(q).add[p] : row.date \in Nat
      BY RowFacts DEF Inv
    <3>2. ASSUME NEW d \in Nat, today - d > MaxDays PROVE today' - d > MaxDays
      BY <1>1, <3>2, Constants
    <3> QED BY <1>1, <2>1, <3>1, <3>2 DEF Present
  <2>7. LandedOK(q)' /\ AnswerOK(q)'
    BY <1>1, <2>1, <2>6 DEF RunOK, LandedOK, AnswerOK, Gone
  <2> QED BY <2>2, <2>3, <2>4, <2>5, <2>7 DEF RunOK
<1>3. Known(doc)'
  BY <1>1 DEF Inv, Known
<1> QED BY <1>2, <1>3

LEMMA InvStep == Inv /\ [Next]_vars => Inv'
<1> SUFFICES ASSUME Inv, [Next]_vars PROVE Inv'
  OBVIOUS
<1>1. Typed /\ Typed'
  BY TypeStep DEF Inv, Typed
<1>2. CASE UNCHANGED vars
  <2>1. UNCHANGED <<Branch, today>> /\ \A q \in Runs : runs'[q] = runs[q]
    BY <1>2 DEF vars, Branch
  <2> QED BY <1>1, <2>1, OthersIdle, KnownStays DEF Inv
<1>3. ASSUME NEW r \in Runs, Checkout(r) \/ Scrape(r) \/ StartPersist(r) \/ Fetch(r) PROVE Inv'
  <2>1. UNCHANGED Branch
    BY <1>3 DEF Checkout, Scrape, StartPersist, Fetch
  <2>2. \A q \in Runs : RunOK(q)'
    BY <1>3, CheckoutStep, ScrapeStep, StartPersistStep, FetchStep
  <2> QED BY <1>1, <2>1, <2>2, KnownStays DEF Inv
<1>4. ASSUME NEW r \in Runs, PushRejected(r) \/ PersistFails(r) PROVE Inv'
  <2>1. UNCHANGED <<Branch, today>> /\ Scraped(r)
    BY <1>4 DEF PushRejected, PersistFails, Scraped
  <2>2. /\ Ended(r) /\ Scraped(r)' /\ \A q \in Runs \ {r} : runs'[q] = runs[q]
        /\ Told(r)
    BY <1>1, <1>4, EndedAnswer, EndedRejected DEF PushRejected, PersistFails, Answers, Told
  <2>3. \A q \in Runs : RunOK(q)'
    BY <2>1, <2>2, EndedStep
  <2> QED BY <1>1, <2>1, <2>3, KnownStays DEF Inv
<1>5. ASSUME NEW r \in Runs, PushLands(r) \/ PushAnswerLost(r) PROVE Inv'
  <2>1. Lands(r) /\ runs[r].stage = "push"
    BY <1>5 DEF PushLands, PushAnswerLost, Lands
  <2>2. Ended(r) /\ Scraped(r)' /\ \A q \in Runs \ {r} : runs'[q] = runs[q]
    BY <1>1, <1>5, <2>1, EndedAnswer, EndedRejected DEF PushLands, PushAnswerLost, Answers
  <2> QED BY <1>1, <2>1, <2>2, LandingStep DEF Inv
<1>6. CASE OtherCommit \/ Tick
  BY <1>1, <1>6, OtherStep DEF Inv
<1> QED BY <1>2, <1>3, <1>4, <1>5, <1>6 DEF Next

LEMMA InitInv == Init => Inv
<1> SUFFICES ASSUME Init PROVE Inv
  OBVIOUS
<1>1. Typed
  BY InitTyped
<1>2. ASSUME NEW p \in Products, NEW row \in doc[p].rows PROVE row.run = 0
  <2>1. CASE doc[p] = NoEntry
    BY <2>1 DEF NoEntry
  <2>2. ASSUME NEW c \in Prices,
               doc[p] = [rows |-> {[run |-> 0, date |-> 0, price |-> c]}, low |-> c]
        PROVE  row.run = 0
    <3>1. row = [run |-> 0, date |-> 0, price |-> c]
      BY <2>2
    <3> QED BY <3>1
  <2> QED BY <2>1, <2>2 DEF Init
<1>3. Known(doc)
  BY <1>2 DEF Known
<1>4. ASSUME NEW r \in Runs PROVE RunOK(r)
  <2>1. runs[r] = NewRun
    BY DEF Init
  <2>2. /\ runs[r].stage = "new" /\ runs[r].answer = "none" /\ runs[r].tip = 0
        /\ runs[r].base = NoDoc
    BY <2>1 DEF NewRun
  <2>3. BaseOK(r)
    BY <2>2, EntryFacts DEF BaseOK, Known, Within, NoDoc
  <2>4. landed = {} /\ commits = 0 /\ 0 <= 0
    BY DEF Init
  <2>5. CopyOK(r) /\ NewOK(r) /\ DueOK(r) /\ LandedOK(r) /\ AnswerOK(r)
    BY <2>2, <2>4 DEF CopyOK, NewOK, DueOK, LandedOK, AnswerOK, Scraped
  <2>6. PushOK(r)
    BY <2>2, <2>4 DEF PushOK
  <2> QED BY <2>3, <2>5, <2>6 DEF RunOK
<1> QED BY <1>1, <1>3, <1>4 DEF Inv

LEMMA Invariant == Spec => []Inv
BY InitInv, InvStep, PTL DEF Spec

(* AnswerTrue holds in every reachable state: a persist job that reports    *)
(* success, after whatever rejections, lost answers and repetitions, has    *)
(* left its run's rows on the branch, until they are old enough to prune.   *)
THEOREM AnswersAreTrue == Spec => []AnswerTrue
<1>1. Inv => AnswerTrue
  BY DEF Inv, RunOK, AnswerOK, AnswerTrue
<1> QED BY <1>1, Invariant, PTL

----------------------------------------------------------------------------
(* The refinement.                                                          *)
LEMMA SameDecided ==
  ASSUME \A q \in Runs : (Scraped(q)' <=> Scraped(q)) /\ (Scraped(q) => Change(q)' = Change(q))
  PROVE  Decided' = Decided
BY DEF Decided, NoChange

LEMMA Quiet ==
  ASSUME UNCHANGED Branch, Decided' = Decided
  PROVE  UNCHANGED <<Decided, Listed, landed>>
BY DEF Branch, Listed

(* One run's step, on either side of the scrape.                            *)
LEMMA QuietRun ==
  ASSUME NEW r \in Runs, \A q \in Runs \ {r} : runs'[q] = runs[q],
         \/ ~Scraped(r) /\ ~Scraped(r)'
         \/ Scraped(r) /\ Scraped(r)' /\ runs'[r].base = runs[r].base
              /\ runs'[r].incoming = runs[r].incoming
  PROVE  Decided' = Decided
<1>1. ASSUME NEW q \in Runs
      PROVE  (Scraped(q)' <=> Scraped(q)) /\ (Scraped(q) => Change(q)' = Change(q))
  <2>1. CASE q # r
    BY <2>1, SameChange DEF Scraped
  <2>2. CASE q = r
    BY <2>2, SameChange
  <2> QED BY <2>1, <2>2
<1> QED BY <1>1, SameDecided

LEMMA InitLog == Init => Log!Init
<1> SUFFICES ASSUME Init PROVE Log!Init
  OBVIOUS
<1>1. doc \in Docs
  BY InitTyped DEF Typed, TypeOK
<1>2. Listed \in [Products -> SUBSET Rows]
  BY <1>1, EntryFacts DEF Listed
<1>3. \A r \in Runs : ~Scraped(r)
  BY DEF Init, NewRun, Scraped
<1>4. Decided = [r \in Runs |-> Log!Nothing]
  BY <1>3 DEF Decided, NoChange, Log!Nothing
<1> QED BY <1>2, <1>4 DEF Init, Log!Init

LEMMA ScrapeLog ==
  ASSUME Inv, Typed', NEW r \in Runs, Scrape(r)
  PROVE  Log!Decide(r) \/ UNCHANGED <<Decided, Listed, landed>>
<1>1. UNCHANGED Branch /\ ~Scraped(r) /\ runs \in [Runs -> RunRecords] /\ runs' \in [Runs -> RunRecords]
  BY DEF Scrape, Scraped, Inv, Typed, TypeOK, RunRecords
<1>2. \A q \in Runs \ {r} : runs'[q] = runs[q]
  BY <1>1 DEF Scrape
<1>3. Listed' = Listed /\ landed' = landed
  BY <1>1 DEF Branch, Listed
<1>4. CASE ~Scraped(r)'
  BY <1>1, <1>2, <1>4, Quiet, QuietRun
<1>5. CASE Scraped(r)'
  <2>1. Decided[r] = Log!Nothing
    BY <1>1 DEF Decided, NoChange, Log!Nothing
  <2>2. Decided'[r] = Change(r)'
    BY <1>5 DEF Decided
  <2>3. Change(r)' \in Log!Changes
    <3>1. runs'[r].incoming \in Docs /\ runs'[r].base \in Docs
      BY <1>1, RunFacts
    <3>2. \A p \in Products : runs'[r].incoming[p].rows \in SUBSET Rows
                            /\ runs'[r].base[p].rows \in SUBSET Rows
      BY <3>1, EntryFacts
    <3> QED BY <3>2 DEF Change, Log!Changes
  <2>4. ASSUME NEW q \in Runs, q # r PROVE Decided'[q] = Decided[q]
    <3>1. runs'[q] = runs[q]
      BY <1>2, <2>4
    <3>2. Change(q)' = Change(q) /\ (Scraped(q)' <=> Scraped(q))
      BY <3>1, SameChange DEF Scraped
    <3> QED BY <3>2 DEF Decided, NoChange
  <2>5. Decided' = [Decided EXCEPT ![r] = Decided'[r]]
    BY <2>4 DEF Decided
  <2> QED BY <1>3, <2>1, <2>2, <2>3, <2>5 DEF Log!Decide
<1> QED BY <1>4, <1>5

LEMMA LandingLog ==
  ASSUME Inv, NEW r \in Runs, Lands(r), Ended(r), Scraped(r)',
         \A q \in Runs \ {r} : runs'[q] = runs[q]
  PROVE  Log!Record(r) \/ UNCHANGED <<Decided, Listed, landed>>
<1>1. Scraped(r) /\ landed' = landed \cup {r}
  BY DEF Lands, Scraped
<1>2. Decided' = Decided
  BY <1>1, QuietRun DEF Ended
<1>3. CASE r \in landed
  <2>1. \A p \in Products : doc'[p].rows = doc[p].rows
    BY <1>3, LandedKeeps
  <2>2. Listed' = Listed
    BY <2>1 DEF Listed
  <2> QED BY <1>1, <1>2, <1>3, <2>2
<1>4. CASE r \notin landed
  <2>1. Decided[r] = Change(r)
    BY <1>1 DEF Decided
  <2>2. Listed' = [p \in Products |-> (Listed[p] \ Decided[r].drop[p]) \cup Decided[r].add[p]]
    <3>1. ASSUME NEW p \in Products
          PROVE  doc'[p].rows = (Listed[p] \ Decided[r].drop[p]) \cup Decided[r].add[p]
      <4>1. doc'[p].rows = (doc[p].rows \ Change(r).drop[p]) \cup Change(r).add[p]
        BY LandedRows
      <4>2. Listed[p] = doc[p].rows
        BY DEF Listed
      <4> QED BY <2>1, <4>1, <4>2
    <3>2. Listed' = [p \in Products |-> doc'[p].rows]
      BY DEF Listed
    <3> QED BY <3>1, <3>2
  <2> QED BY <1>1, <1>2, <1>4, <2>2 DEF Log!Record
<1> QED BY <1>3, <1>4

LEMMA LogStep ==
  ASSUME Inv, [Next]_vars
  PROVE  Log!Next \/ UNCHANGED <<Decided, Listed, landed>>
<1>1. Typed /\ Typed' /\ Inv'
  BY InvStep DEF Inv
<1>2. CASE UNCHANGED vars
  <2>1. UNCHANGED Branch /\ Decided' = Decided
    BY <1>2 DEF vars, Branch, Decided, Scraped, Change
  <2> QED BY <2>1, Quiet
<1>3. ASSUME NEW r \in Runs, Checkout(r) \/ StartPersist(r) \/ Fetch(r)
      PROVE  UNCHANGED <<Decided, Listed, landed>>
  <2>1. UNCHANGED Branch /\ runs[r] \in RunRecords
    BY <1>1, <1>3 DEF Checkout, StartPersist, Fetch, Typed, TypeOK, RunRecords
  <2>2. CASE Checkout(r)
    <3> DEFINE new == [Goes(r, "scrape") EXCEPT !.base = doc]
    <3>1. runs'[r] = new /\ runs[r].stage = "new" /\ \A q \in Runs \ {r} : runs'[q] = runs[q]
      BY <1>1, <2>2 DEF Typed, TypeOK, Checkout
    <3>2. new.stage = "scrape"
      BY <2>1 DEF Goes, RunRecords
    <3> HIDE DEF new
    <3>3. ~Scraped(r) /\ ~Scraped(r)'
      BY <3>1, <3>2 DEF Scraped
    <3> QED BY <2>1, <3>1, <3>3, Quiet, QuietRun
  <2>3. CASE StartPersist(r)
    <3> DEFINE new == Started(r)
    <3>1. runs'[r] = new /\ runs[r].stage = "artifact" /\ \A q \in Runs \ {r} : runs'[q] = runs[q]
      BY <1>1, <2>3 DEF Typed, TypeOK, StartPersist, Started
    <3>2. new.stage = "fetch" /\ new.base = runs[r].base /\ new.incoming = runs[r].incoming
      BY <2>1 DEF Started, Goes, RunRecords
    <3> HIDE DEF new
    <3>3. Scraped(r) /\ Scraped(r)'
      BY <3>1, <3>2 DEF Scraped
    <3> QED BY <2>1, <3>1, <3>2, <3>3, Quiet, QuietRun
  <2>4. CASE Fetch(r)
    <3> DEFINE m == Merged(runs[r].incoming, doc, runs[r].base)
               new == [Goes(r, "push") EXCEPT !.merged = m, !.tip = commits]
    <3>1. CASE runs' = [runs EXCEPT ![r] = Answer(r, "nothing to commit")]
      <4>1. Ended(r) /\ Scraped(r)' /\ \A q \in Runs \ {r} : runs'[q] = runs[q]
        BY <1>1, <3>1, EndedAnswer DEF Answers
      <4>2. Scraped(r) /\ runs'[r].base = runs[r].base /\ runs'[r].incoming = runs[r].incoming
        BY <2>4, <4>1 DEF Fetch, Scraped, Ended
      <4> QED BY <2>1, <4>1, <4>2, Quiet, QuietRun
    <3>2. CASE runs' = [runs EXCEPT ![r] = new]
      <4>1. runs'[r] = new /\ runs[r].stage = "fetch" /\ \A q \in Runs \ {r} : runs'[q] = runs[q]
        BY <1>1, <2>4, <3>2 DEF Typed, TypeOK, Fetch
      <4> HIDE DEF m
      <4>2. new.stage = "push" /\ new.base = runs[r].base /\ new.incoming = runs[r].incoming
        BY <2>1 DEF Goes, RunRecords
      <4> HIDE DEF new
      <4>3. Scraped(r) /\ Scraped(r)'
        BY <4>1, <4>2 DEF Scraped
      <4> QED BY <2>1, <4>1, <4>2, <4>3, Quiet, QuietRun
    <3> QED BY <2>4, <3>1, <3>2 DEF Fetch
  <2> QED BY <1>3, <2>2, <2>3, <2>4
<1>4. ASSUME NEW r \in Runs, PushRejected(r) \/ PersistFails(r)
      PROVE  UNCHANGED <<Decided, Listed, landed>>
  <2>1. UNCHANGED Branch /\ Scraped(r)
    BY <1>4 DEF PushRejected, PersistFails, Scraped
  <2>2. Ended(r) /\ Scraped(r)' /\ \A q \in Runs \ {r} : runs'[q] = runs[q]
    BY <1>1, <1>4, EndedAnswer, EndedRejected DEF PushRejected, PersistFails, Answers
  <2>3. runs'[r].base = runs[r].base /\ runs'[r].incoming = runs[r].incoming
    BY <2>2 DEF Ended
  <2> QED BY <2>1, <2>2, <2>3, Quiet, QuietRun
<1>5. ASSUME NEW r \in Runs, PushLands(r) \/ PushAnswerLost(r)
      PROVE  Log!Record(r) \/ UNCHANGED <<Decided, Listed, landed>>
  <2>1. Lands(r) /\ runs[r].stage = "push"
    BY <1>5 DEF PushLands, PushAnswerLost, Lands
  <2>2. Ended(r) /\ Scraped(r)' /\ \A q \in Runs \ {r} : runs'[q] = runs[q]
    BY <1>1, <1>5, <2>1, EndedAnswer, EndedRejected DEF PushLands, PushAnswerLost, Answers
  <2> QED BY <2>1, <2>2, LandingLog
<1>6. CASE OtherCommit \/ Tick
  <2>1. UNCHANGED <<doc, landed, runs>>
    BY <1>6 DEF OtherCommit, Tick, Branch
  <2>2. Decided' = Decided /\ Listed' = Listed
    BY <2>1 DEF Decided, Listed, Scraped, Change
  <2> QED BY <2>1, <2>2
<1>7. ASSUME NEW r \in Runs, Scrape(r)
      PROVE  Log!Decide(r) \/ UNCHANGED <<Decided, Listed, landed>>
  BY <1>1, <1>7, ScrapeLog
<1> QED BY <1>2, <1>3, <1>4, <1>5, <1>6, <1>7 DEF Next, Log!Next

(* RecordsOnce: the persist jobs implement ObservationLog.  A run's rows    *)
(* and prunings reach the branch in one step, and a second landing of the   *)
(* same run changes no row.                                                 *)
THEOREM RunsAreRecordedOnce == Spec => RecordsOnce
<1>1. Inv /\ [Next]_vars => [Log!Next]_<<Decided, Listed, landed>>
  BY LogStep
<1> QED BY <1>1, InitLog, Invariant, PTL DEF Spec, RecordsOnce, Log!Spec

----------------------------------------------------------------------------
(* The lowest price.                                                        *)

LowOK(p) ==
  /\ IF ever[p] = {} THEN doc[p] = NoEntry
     ELSE doc[p].low \in ever[p] /\ \A c \in ever[p] : doc[p].low <= c
  /\ \A row \in doc[p].rows : row.price \in ever[p]

(* What a run started from was on the branch; its own lowest price was too, *)
(* or it is that of a row the run adds, and none of those is lower.         *)
BaseLow(r) == \A p \in Products :
  runs[r].base[p] # NoEntry => runs[r].base[p].low \in ever[p]

CopyLow(r) == Scraped(r) => \A p \in Products : runs[r].incoming[p] # NoEntry =>
  /\ \/ runs[r].incoming[p].low \in ever[p]
     \/ \E row \in Change(r).add[p] : row.price = runs[r].incoming[p].low
  /\ \A row \in Change(r).add[p] : runs[r].incoming[p].low <= row.price

LowInv == /\ \A p \in Products : LowOK(p)
          /\ \A r \in Runs : BaseLow(r) /\ CopyLow(r)

LEMMA LowerFacts ==
  ASSUME NEW a \in Prices, NEW b \in Prices
  PROVE  /\ Lower(a, b) \in {a, b} /\ Lower(a, b) <= a /\ Lower(a, b) <= b
<1>1. a \in Nat /\ b \in Nat
  BY Constants
<1> QED BY <1>1 DEF Lower

LEMMA LowTypes ==
  ASSUME Typed, NEW r \in Runs, NEW p \in Products
  PROVE  /\ runs[r].base[p] \in Entries /\ runs[r].incoming[p] \in Entries /\ doc[p] \in Entries
         /\ ever[p] \subseteq Prices
         /\ \A row \in Change(r).add[p] : row.price \in Prices
<1>1. runs[r] \in RunRecords /\ doc \in Docs /\ ever[p] \subseteq Prices
  BY DEF Typed, TypeOK, RunRecords
<1>2. \A row \in Rows : row.price \in Prices
  BY DEF Rows
<1> QED BY <1>1, <1>2, RunFacts, EntryFacts, RowFacts

(* A landing lowers the tip's price to that of the rows it brings.          *)
LEMMA LowLanding ==
  ASSUME Inv, LowInv, NEW r \in Runs, Lands(r), NEW p \in Products
  PROVE  ever[p] \subseteq ever'[p] /\ LowOK(p)'
<1> DEFINE add == Change(r).add[p]
           i == runs[r].incoming[p]
           b == runs[r].base[p]
           t == doc[p]
           m == doc'[p]
<1>1. /\ Typed /\ RunOK(r) /\ Scraped(r) /\ LowOK(p) /\ CopyLow(r)
      /\ runs[r].stage = "push" /\ runs[r].tip = commits
  BY DEF Inv, LowInv, Lands, Scraped
<1>2. /\ b \in Entries /\ i \in Entries /\ t \in Entries /\ ever[p] \subseteq Prices
      /\ \A row \in add : row.price \in Prices
  BY <1>1, LowTypes
<1>3. m = MergedEntry(i, t, b)
  <2>1. doc' = Merged(runs[r].incoming, doc, runs[r].base)
    BY <1>1 DEF RunOK, PushOK, Lands
  <2> QED BY <2>1 DEF Merged
<1>4. ever'[p] = ever[p] \cup {row.price : row \in m.rows}
  BY DEF Lands
<1>5. m.rows \subseteq t.rows \cup add /\ add \subseteq m.rows
  BY LandedRows
<1>6. /\ ever[p] \subseteq ever'[p]
      /\ \A row \in m.rows : row.price \in ever'[p]
      /\ \A row \in add : row.price \in ever'[p]
      /\ \A c \in ever'[p] : c \in ever[p] \/ \E row \in add : row.price = c
  <2>1. \A row \in t.rows : row.price \in ever[p]
    BY <1>1 DEF LowOK
  <2> HIDE DEF add, m, t
  <2> QED BY <1>4, <1>5, <2>1
<1>7. /\ i # NoEntry => /\ i.low \in Prices
                        /\ i.low \in ever[p] \/ \E row \in add : row.price = i.low
                        /\ \A row \in add : i.low <= row.price
      /\ i = NoEntry => add = {}
  <2>1. i # NoEntry => i.low \in Prices
    BY <1>2, EntryFacts
  <2>2. i = NoEntry => add = {}
    BY <1>1, RowFacts, EntryFacts
  <2> QED BY <1>1, <2>1, <2>2 DEF CopyLow
<1>8. /\ t # NoEntry => t.low \in Prices /\ t.low \in ever[p] /\ \A c \in ever[p] : t.low <= c
      /\ t = NoEntry => ever[p] = {}
  <2>1. t # NoEntry => t.low \in Prices
    BY <1>2, EntryFacts
  <2>2. t = NoEntry => t.low \notin Prices
    BY Constants DEF NoEntry
  <2> QED BY <1>1, <1>2, <2>1, <2>2 DEF LowOK
<1> HIDE DEF add, i, b, t
<1>9. CASE t = NoEntry /\ i = NoEntry
  <2>1. m = NoEntry /\ ever'[p] = {}
    BY <1>3, <1>6, <1>7, <1>8, <1>9 DEF MergedEntry
  <2> QED BY <1>6, <2>1 DEF LowOK
<1>10. CASE t # NoEntry /\ i = NoEntry
  <2>1. m = t
    BY <1>3, <1>10 DEF MergedEntry
  <2>2. ever'[p] = ever[p]
    BY <1>6, <1>7, <1>10
  <2> HIDE DEF m
  <2>3. m.low \in ever'[p] /\ \A c \in ever'[p] : m.low <= c
    BY <1>8, <1>10, <2>1, <2>2
  <2> QED BY <1>6, <2>3 DEF LowOK, m
<1>11. CASE t = NoEntry /\ i # NoEntry
  <2>1. m = i
    BY <1>3, <1>11 DEF MergedEntry
  <2> HIDE DEF m
  <2>2. m.low \in ever'[p]
    BY <1>6, <1>7, <1>11, <2>1
  <2>3. \A c \in ever'[p] : m.low <= c
    BY <1>6, <1>7, <1>8, <1>11, <2>1
  <2> QED BY <1>6, <2>2, <2>3 DEF LowOK, m
<1>12. CASE t # NoEntry /\ i # NoEntry
  <2>1. m = [rows |-> MergedRows(i.rows, t.rows, b.rows), low |-> Lower(i.low, t.low)]
    BY <1>3, <1>12 DEF MergedEntry, MergedLow
  <2>2. m.low = Lower(i.low, t.low)
    BY <2>1
  <2> HIDE DEF m
  <2>3. m.low \in {i.low, t.low} /\ m.low <= i.low /\ m.low <= t.low
        /\ i.low \in Nat /\ t.low \in Nat /\ m.low \in Nat
    BY <1>7, <1>8, <1>12, <2>2, LowerFacts, Constants
  <2>4. m.low \in ever'[p]
    BY <1>6, <1>7, <1>8, <1>12, <2>3
  <2>5. ASSUME NEW c \in ever'[p] PROVE m.low <= c
    <3>1. CASE c \in ever[p]
      <4>1. t.low <= c /\ c \in Nat
        BY <1>2, <1>8, <1>12, <3>1, Constants
      <4> QED BY <2>3, <4>1
    <3>2. ASSUME NEW row \in add, row.price = c PROVE m.low <= c
      <4>1. i.low <= c /\ c \in Nat
        BY <1>2, <1>7, <1>12, <3>2, Constants
      <4> QED BY <2>3, <4>1
    <3> QED BY <1>6, <3>1, <3>2
  <2> QED BY <1>6, <2>4, <2>5 DEF LowOK, m
<1> QED BY <1>6, <1>9, <1>10, <1>11, <1>12

(* What stays true of a run's copy while the branch grows.                  *)
LEMMA LowStays ==
  ASSUME NEW q \in Runs, \A p \in Products : ever[p] \subseteq ever'[p],
         runs'[q].base = runs[q].base, runs'[q].incoming = runs[q].incoming,
         Scraped(q)' => Scraped(q), BaseLow(q), CopyLow(q)
  PROVE  BaseLow(q)' /\ CopyLow(q)'
<1>1. Change(q)' = Change(q)
  BY SameChange
<1>2. BaseLow(q)'
  BY DEF BaseLow
<1>3. CopyLow(q)'
  BY <1>1 DEF CopyLow
<1> QED BY <1>2, <1>3

LEMMA LowIdle ==
  ASSUME LowInv, UNCHANGED <<doc, ever>>, NEW r \in Runs,
         \A q \in Runs \ {r} : runs'[q] = runs[q], BaseLow(r)', CopyLow(r)'
  PROVE  LowInv'
<1>1. ASSUME NEW q \in Runs, q # r PROVE BaseLow(q)' /\ CopyLow(q)'
  BY <1>1, LowStays DEF LowInv, Scraped
<1>2. \A p \in Products : LowOK(p)'
  BY DEF LowInv, LowOK
<1> QED BY <1>1, <1>2 DEF LowInv

(* The scrape's own row is in its copy, which knows no lower one.           *)
LEMMA LowScraped ==
  ASSUME Inv, LowInv, NEW r \in Runs, Scrape(r), Typed' PROVE LowInv'
<1>1. /\ ~Scraped(r) /\ RunOK(r) /\ Typed /\ UNCHANGED <<doc, ever, today, landed>>
      /\ runs[r] \in RunRecords /\ today \in Dates /\ BaseLow(r) /\ CopyLow(r)
      /\ r \notin landed
  <2>1. ~Scraped(r) /\ UNCHANGED <<doc, ever, today, landed>>
    BY DEF Scrape, Scraped, Branch
  <2>2. RunOK(r) /\ Typed /\ BaseLow(r) /\ CopyLow(r)
    BY DEF Inv, LowInv
  <2> QED BY <2>1, <2>2 DEF RunOK, NewOK, Typed, TypeOK, RunRecords
<1>2. \A q \in Runs \ {r} : runs'[q] = runs[q]
  BY <1>1 DEF Scrape, Typed, TypeOK
<1>3. CASE runs' = [runs EXCEPT ![r] = Goes(r, "lost")]
  <2>1. runs'[r] = Goes(r, "lost")
    BY <1>1, <1>3 DEF Typed, TypeOK
  <2>2. runs'[r].base = runs[r].base /\ runs'[r].incoming = runs[r].incoming
        /\ runs'[r].stage = "lost"
    BY <1>1, <2>1 DEF Goes, RunRecords
  <2> QED BY <1>1, <1>2, <2>2, LowStays, LowIdle DEF Scraped
<1>4. ASSUME NEW found \in SUBSET Products, NEW price \in [found -> Prices],
             runs' = [runs EXCEPT ![r] = [Goes(r, "artifact") EXCEPT
                        !.made = today, !.incoming = ScrapedDoc(r, found, price)]]
      PROVE  LowInv'
  <2> DEFINE d == ScrapedDoc(r, found, price)
             new == [Goes(r, "artifact") EXCEPT !.made = today, !.incoming = d]
  <2>1. runs'[r] = new
    BY <1>1, <1>4 DEF Typed, TypeOK
  <2> HIDE DEF d
  <2>2. new.base = runs[r].base /\ new.incoming = d
    BY <1>1 DEF Goes, RunRecords
  <2> HIDE DEF new
  <2>3. runs'[r].base = runs[r].base /\ runs'[r].incoming = d
    BY <2>1, <2>2
  <2>4. \A p \in Products : Change(r)'.add[p] = d[p].rows \ runs[r].base[p].rows
    BY <2>3 DEF Change
  <2>5. BaseLow(r)'
    BY <1>1, <2>3 DEF BaseLow
  <2>6. ASSUME NEW p \in Products, d[p] # NoEntry
        PROVE  /\ \/ d[p].low \in ever[p]
                  \/ \E row \in Change(r)'.add[p] : row.price = d[p].low
               /\ \A row \in Change(r)'.add[p] : d[p].low <= row.price
    <3> DEFINE base == runs[r].base[p]
    <3>1. /\ base \in Entries /\ IsFiniteSet(base.rows)
          /\ base # NoEntry => base.low \in ever[p]
          /\ \A row \in base.rows : row.run \in {0} \cup landed
      BY <1>1, LowTypes DEF Typed, FiniteInv, Finite, BaseLow, RunOK, BaseOK, Known
    <3>2. CASE p \notin found
      <4>1. d[p] = base
        BY <3>2 DEF d, ScrapedDoc
      <4> HIDE DEF base
      <4> QED BY <2>4, <2>6, <3>1, <4>1 DEF base
    <3>3. CASE p \in found
      <4> DEFINE row == [run |-> r, date |-> today, price |-> price[p]]
      <4>1. row \in Rows /\ row.run = r /\ row.date = today /\ row.price = price[p]
            /\ price[p] \in Prices
        BY <1>1, <3>3 DEF Rows
      <4>2. d[p] = Observed(base, row)
        BY <3>3 DEF d, ScrapedDoc
      <4> HIDE DEF row, base
      <4>3. d[p].rows \subseteq base.rows \cup {row} /\ row \notin base.rows
        BY <1>1, <3>1, <4>1, <4>2, ObservedType, Constants
      <4>4. row \in d[p].rows
        <5> DEFINE all == base.rows \cup {row}
        <5>1. all \in SUBSET Rows /\ IsFiniteSet(all) /\ row \in all
          BY <3>1, <4>1, EntryFacts, FS_AddElement
        <5>2. d[p].rows = Pruned(all)
          BY <4>2 DEF Observed
        <5> HIDE DEF all
        <5>3. \A q \in all \ Pruned(all) : today - q.date > MaxDays
          BY <1>1, <5>1, PrunedIsOld
        <5>4. ~(today - row.date > MaxDays)
          BY <1>1, <4>1, Constants
        <5> QED BY <5>1, <5>2, <5>3, <5>4
      <4>5. Change(r)'.add[p] = {row}
        BY <2>4, <4>3, <4>4 DEF base
      <4>6. d[p].low = Lower(base.low, row.price)
        BY <4>2 DEF Observed
      <4>7. d[p].low <= row.price
            /\ (d[p].low = row.price \/ (base # NoEntry /\ d[p].low = base.low))
        <5>1. CASE base = NoEntry
          <6>1. d[p].low = row.price /\ row.price \in Nat
            BY <4>1, <4>6, <5>1, Constants DEF NoEntry, Lower
          <6> QED BY <6>1
        <5>2. CASE base # NoEntry
          <6>1. base.low \in Prices
            BY <3>1, <5>2, EntryFacts
          <6> QED BY <4>1, <4>6, <5>2, <6>1, LowerFacts
        <5> QED BY <5>1, <5>2
      <4> QED BY <3>1, <4>5, <4>7
    <3> QED BY <3>2, <3>3
  <2>7. CopyLow(r)'
    BY <1>1, <2>3, <2>6 DEF CopyLow
  <2> QED BY <1>1, <1>2, <2>5, <2>7, LowIdle
<1> QED BY <1>3, <1>4 DEF Scrape, ScrapedDoc

LEMMA LowCheckout ==
  ASSUME Inv, LowInv, NEW r \in Runs, Checkout(r) PROVE LowInv'
<1>1. /\ UNCHANGED <<doc, ever>> /\ Typed /\ runs[r] \in RunRecords
      /\ runs'[r] = [Goes(r, "scrape") EXCEPT !.base = doc]
      /\ \A q \in Runs \ {r} : runs'[q] = runs[q]
  BY DEF Inv, Typed, TypeOK, RunRecords, Checkout, Branch
<1>2. runs'[r].stage = "scrape" /\ runs'[r].base = doc
  BY <1>1 DEF Goes, RunRecords
<1>3. ASSUME NEW p \in Products, doc[p] # NoEntry PROVE doc[p].low \in ever[p]
  BY <1>3 DEF LowInv, LowOK
<1>4. BaseLow(r)' /\ CopyLow(r)'
  BY <1>1, <1>2, <1>3 DEF BaseLow, CopyLow, Scraped
<1> QED BY <1>1, <1>4, LowIdle

(* The persist job never touches the run's copy.                            *)
LEMMA CopyKept ==
  ASSUME Inv, NEW r \in Runs,
         \/ StartPersist(r) \/ Fetch(r) \/ PushRejected(r) \/ PersistFails(r)
         \/ PushLands(r) \/ PushAnswerLost(r)
  PROVE  /\ Scraped(r) /\ runs'[r].base = runs[r].base /\ runs'[r].incoming = runs[r].incoming
         /\ \A q \in Runs \ {r} : runs'[q] = runs[q]
<1>1. Typed /\ runs[r] \in RunRecords /\ Scraped(r)
  BY DEF Inv, Typed, TypeOK, RunRecords, Scraped, StartPersist, Fetch, PushRejected,
         PersistFails, PushLands, PushAnswerLost, Lands
<1>2. CASE StartPersist(r)
  <2> DEFINE new == Started(r)
  <2>1. runs'[r] = new /\ \A q \in Runs \ {r} : runs'[q] = runs[q]
    BY <1>1, <1>2 DEF Typed, TypeOK, StartPersist, Started
  <2>2. new.base = runs[r].base /\ new.incoming = runs[r].incoming
    BY <1>1 DEF Started, Goes, RunRecords
  <2> HIDE DEF new
  <2> QED BY <1>1, <2>1, <2>2
<1>3. CASE Fetch(r)
  <2> DEFINE m == Merged(runs[r].incoming, doc, runs[r].base)
             new == [Goes(r, "push") EXCEPT !.merged = m, !.tip = commits]
  <2>1. CASE runs' = [runs EXCEPT ![r] = Answer(r, "nothing to commit")]
    BY <1>1, <2>1, EndedAnswer DEF Answers, Ended
  <2>2. CASE runs' = [runs EXCEPT ![r] = new]
    <3>1. runs'[r] = new /\ \A q \in Runs \ {r} : runs'[q] = runs[q]
      BY <1>1, <2>2 DEF Typed, TypeOK
    <3> HIDE DEF m
    <3>2. new.base = runs[r].base /\ new.incoming = runs[r].incoming
      BY <1>1 DEF Goes, RunRecords
    <3> HIDE DEF new
    <3> QED BY <1>1, <3>1, <3>2
  <2> QED BY <1>3, <2>1, <2>2 DEF Fetch
<1>4. CASE PushRejected(r) \/ PersistFails(r) \/ PushLands(r) \/ PushAnswerLost(r)
  <2>1. /\ runs[r].stage = "push" /\ runs' = [runs EXCEPT ![r] = Rejected(r)]
        \/ \E a \in Answers : runs' = [runs EXCEPT ![r] = Answer(r, a)]
    BY <1>4 DEF PushRejected, PersistFails, PushLands, PushAnswerLost, Lands, Answers
  <2> QED BY <1>1, <2>1, EndedAnswer, EndedRejected DEF Ended
<1> QED BY <1>2, <1>3, <1>4

LEMMA LowStep == Inv /\ LowInv /\ [Next]_vars => LowInv'
<1> SUFFICES ASSUME Inv, LowInv, [Next]_vars PROVE LowInv'
  OBVIOUS
<1>1. Typed /\ Typed'
  BY InvStep DEF Inv
<1>2. CASE UNCHANGED <<doc, ever, runs>>
  <2>1. ASSUME NEW q \in Runs PROVE BaseLow(q)' /\ CopyLow(q)'
    BY <1>2, LowStays DEF LowInv, Scraped
  <2>2. \A p \in Products : LowOK(p)'
    BY <1>2 DEF LowInv, LowOK
  <2> QED BY <2>1, <2>2 DEF LowInv
<1>3. ASSUME NEW r \in Runs,
             StartPersist(r) \/ Fetch(r) \/ PushRejected(r) \/ PersistFails(r)
      PROVE  LowInv'
  <2>1. UNCHANGED <<doc, ever>>
    BY <1>3 DEF StartPersist, Fetch, PushRejected, PersistFails, Branch
  <2>2. /\ Scraped(r) /\ runs'[r].base = runs[r].base /\ runs'[r].incoming = runs[r].incoming
        /\ \A q \in Runs \ {r} : runs'[q] = runs[q]
    BY <1>3, CopyKept
  <2>3. BaseLow(r)' /\ CopyLow(r)'
    BY <2>1, <2>2, LowStays DEF LowInv
  <2> QED BY <2>1, <2>2, <2>3, LowIdle
<1>4. ASSUME NEW r \in Runs, PushLands(r) \/ PushAnswerLost(r) PROVE LowInv'
  <2>1. Lands(r)
    BY <1>4 DEF PushLands, PushAnswerLost
  <2>2. /\ Scraped(r) /\ runs'[r].base = runs[r].base /\ runs'[r].incoming = runs[r].incoming
        /\ \A q \in Runs \ {r} : runs'[q] = runs[q]
    BY <1>4, CopyKept
  <2>3. \A p \in Products : ever[p] \subseteq ever'[p] /\ LowOK(p)'
    BY <2>1, LowLanding
  <2>4. ASSUME NEW q \in Runs PROVE BaseLow(q)' /\ CopyLow(q)'
    <3>1. runs'[q].base = runs[q].base /\ runs'[q].incoming = runs[q].incoming
          /\ (Scraped(q)' => Scraped(q))
      BY <2>2 DEF Scraped
    <3> QED BY <2>3, <3>1, LowStays DEF LowInv
  <2> QED BY <2>3, <2>4 DEF LowInv
<1>5. CASE OtherCommit \/ Tick
  BY <1>2, <1>5 DEF OtherCommit, Tick, Branch
<1>6. CASE UNCHANGED vars
  BY <1>2, <1>6 DEF vars
<1> QED BY <1>1, <1>3, <1>4, <1>5, <1>6, LowCheckout, LowScraped DEF Next

LEMMA InitLow == Init => LowInv
<1> SUFFICES ASSUME Init PROVE LowInv
  OBVIOUS
<1>1. ASSUME NEW p \in Products PROVE LowOK(p)
  <2>1. ever[p] = {row.price : row \in doc[p].rows}
    BY DEF Init
  <2>2. CASE doc[p] = NoEntry
    BY <2>1, <2>2 DEF LowOK, NoEntry
  <2>3. ASSUME NEW c \in Prices,
               doc[p] = [rows |-> {[run |-> 0, date |-> 0, price |-> c]}, low |-> c]
        PROVE  LowOK(p)
    <3>1. doc[p].low = c /\ doc[p].rows = {[run |-> 0, date |-> 0, price |-> c]}
      BY <2>3
    <3>2. ever[p] = {c} /\ c \in Nat
      BY <2>1, <3>1, Constants
    <3> QED BY <3>1, <3>2 DEF LowOK
  <2> QED BY <2>2, <2>3 DEF Init
<1>2. ASSUME NEW r \in Runs PROVE BaseLow(r) /\ CopyLow(r)
  <2>1. runs[r].stage = "new" /\ runs[r].base = NoDoc
    BY DEF Init, NewRun
  <2> QED BY <2>1 DEF BaseLow, CopyLow, Scraped, NoDoc
<1> QED BY <1>1, <1>2 DEF LowInv

(* LowestEver holds in every reachable state: the lowest price on the       *)
(* branch is that of all rows that were ever there, in whatever order the   *)
(* runs persist and although the rows themselves are pruned.                *)
THEOREM LowestIsKept == Spec => []LowestEver
<1>1. LowInv => LowestEver
  BY DEF LowInv, LowOK, LowestEver
<1>2. Inv /\ LowInv /\ [Next]_vars => (Inv /\ LowInv)'
  BY InvStep, LowStep
<1> QED BY <1>1, <1>2, InitInv, InitLow, PTL DEF Spec
============================================================================
