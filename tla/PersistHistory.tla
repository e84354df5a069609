--------------------------- MODULE PersistHistory ---------------------------
(***************************************************************************)
(* scripts/persist_history.py and bf_price_monitor/history_merge.py: each  *)
(* monitor run scrapes on top of the price history it checked out, leaves  *)
(* its copy in an artifact, and a persist job merges that copy into the    *)
(* branch as it is by then.  The job can be run again, by hand too, while  *)
(* the artifact lasts; other runs and the dashboard move the branch.       *)
(*                                                                         *)
(* A product's history is a set of rows; the file lists them by date and   *)
(* run.  Of the product's other fields the lowest price stands for the     *)
(* lifetime statistics; title and seller are left out.                     *)
(***************************************************************************)
EXTENDS Integers, FiniteSets

CONSTANTS Products,
          MaxRuns,       \* bound: monitor runs
          Prices,
          MaxDays,       \* rows older than this are pruned ...
          MinEntries,    \* ... but for the last few
          Retention,     \* days an artifact is kept
          MaxAttempts,   \* pushes a persist job tries
          MaxPersists,   \* bound: persist jobs of a run
          MaxCommits,    \* bound: commits to the branch
          MaxDate        \* bound: days

Runs == 1..MaxRuns
Dates == 0..MaxDate
Rows == [run : Runs \cup {0}, date : Dates, price : Prices]

(* NoEntry: the document does not have the product.                         *)
NoEntry == [rows |-> {}, low |-> -1]
Entries == {NoEntry} \cup [rows : SUBSET Rows, low : Prices]
Docs == [Products -> Entries]
NoDoc == [p \in Products |-> NoEntry]

ASSUME PersistAssumption ==
  /\ MaxRuns \in Nat /\ Prices \subseteq Nat /\ MaxDate \in Nat
  /\ MaxDays \in Nat /\ MinEntries \in Nat \ {0}
  /\ Retention \in Nat /\ Retention + 1 <= MaxDays
  /\ MaxAttempts \in Nat \ {0} /\ MaxPersists \in Nat /\ MaxCommits \in Nat

VARIABLES
  commits,    \* commits on the branch so far
  doc,        \* the price history at its tip
  today,
  runs,       \* by run: where it stands
  ever,       \* history: the prices of every product that were ever on the branch
  landed      \* history: the runs whose merge was ever on the branch

vars == <<commits, doc, today, runs, ever, landed>>

Stages == {"new", "scrape", "artifact", "fetch", "push", "lost"}
Answers == {"none", "pushed", "nothing to commit", "rejected", "failed"}

NewRun == [stage |-> "new", base |-> NoDoc, incoming |-> NoDoc, made |-> 0, begun |-> 0,
           persists |-> 0, attempt |-> 1, tip |-> 0, merged |-> NoDoc, answer |-> "none"]

----------------------------------------------------------------------------
(* The scrape's part: prune_history, update_lifetime_stats.                 *)

Later(r, q) == r.date > q.date \/ (r.date = q.date /\ r.run > q.run)

Recent(rows) == {r \in rows : today - r.date <= MaxDays}

Pruned(rows) ==
  IF Cardinality(Recent(rows)) >= MinEntries THEN Recent(rows)
  ELSE {r \in rows : Cardinality({q \in rows : Later(q, r)}) < MinEntries}

Lower(a, b) == IF a = -1 \/ (b # -1 /\ b < a) THEN b ELSE a

Observed(entry, row) ==
  [rows |-> Pruned(entry.rows \cup {row}), low |-> Lower(entry.low, row.price)]

----------------------------------------------------------------------------
(* merge_product_entry: the tip's rows that the run did not remove, and the *)
(* rows that the run added.  merge_history_docs: products are a union.      *)
MergedRows_Union(incoming, tip, base) == incoming \cup tip
MergedRows_Whole(incoming, tip, base) == incoming
MergedRows(incoming, tip, base) == (tip \ (base \ incoming)) \cup (incoming \ base)

MergedLow_Incoming(incoming, tip) == incoming
MergedLow(incoming, tip) == Lower(incoming, tip)

MergedEntry(incoming, tip, base) ==
  IF tip = NoEntry THEN incoming
  ELSE IF incoming = NoEntry THEN tip
  ELSE [rows |-> MergedRows(incoming.rows, tip.rows, base.rows),
        low |-> MergedLow(incoming.low, tip.low)]

Merged(incoming, tip, base) ==
  [p \in Products |-> MergedEntry(incoming[p], tip[p], base[p])]

----------------------------------------------------------------------------
Init ==
  /\ commits = 0 /\ today = 0
  /\ doc \in [Products -> {NoEntry} \cup
              {[rows |-> {[run |-> 0, date |-> 0, price |-> c]}, low |-> c] : c \in Prices}]
  /\ runs = [r \in Runs |-> NewRun]
  /\ ever = [p \in Products |-> {row.price : row \in doc[p].rows}]
  /\ landed = {}

Goes(r, stage) == [runs[r] EXCEPT !.stage = stage]
Branch == <<commits, doc, ever, landed>>

Checkout(r) ==
  /\ runs[r].stage = "new"
  /\ runs' = [runs EXCEPT ![r] = [Goes(r, "scrape") EXCEPT !.base = doc]]
  /\ UNCHANGED <<Branch, today>>

(* The shops' answers: a price for some of the products.  A run that fails  *)
(* leaves no artifact.  Runs are numbered in the order of their scrapes,    *)
(* as their rows have theirs from observed_at.                              *)
Scrape(r) ==
  /\ runs[r].stage = "scrape" /\ \A q \in 1..(r - 1) : runs[q].stage \notin {"new", "scrape"}
  /\ \/ \E found \in SUBSET Products : \E price \in [found -> Prices] :
          runs' = [runs EXCEPT ![r] = [Goes(r, "artifact") EXCEPT
                     !.made = today,
                     !.incoming = [p \in Products |->
                        IF p \in found
                        THEN Observed(runs[r].base[p], [run |-> r, date |-> today, price |-> price[p]])
                        ELSE runs[r].base[p]]]]
     \/ runs' = [runs EXCEPT ![r] = Goes(r, "lost")]
  /\ UNCHANGED <<Branch, today>>

----------------------------------------------------------------------------
(* main: the artifact's copy and the commit it was made from are read once. *)
StartPersist(r) ==
  /\ runs[r].stage = "artifact" /\ today - runs[r].made <= Retention
  /\ runs[r].persists < MaxPersists
  /\ runs' = [runs EXCEPT ![r] = [Goes(r, "fetch") EXCEPT
                !.persists = @ + 1, !.begun = today, !.answer = "none"]]
  /\ UNCHANGED <<Branch, today>>

(* What the process knew is gone when it ends.                              *)
Forget(run) == [run EXCEPT !.merged = NoDoc, !.tip = 0]
Answer(r, answer) ==
  [Forget(Goes(r, "artifact")) EXCEPT !.attempt = 1, !.begun = 0, !.answer = answer]

(* _attempt: fetch, merge on the tip, commit.                               *)
Fetch(r) ==
  /\ runs[r].stage = "fetch"
  /\ LET merged == Merged(runs[r].incoming, doc, runs[r].base)
     IN  runs' = [runs EXCEPT ![r] =
           IF merged = doc THEN Answer(r, "nothing to commit")
           ELSE [Goes(r, "push") EXCEPT !.merged = merged, !.tip = commits]]
  /\ UNCHANGED <<Branch, today>>

(* The remote accepts a fast-forward only.                                  *)
Lands(r) ==
  /\ runs[r].stage = "push" /\ runs[r].tip = commits /\ commits < MaxCommits
  /\ commits' = commits + 1
  /\ doc' = runs[r].merged
  /\ ever' = [p \in Products |-> ever[p] \cup {row.price : row \in runs[r].merged[p].rows}]
  /\ landed' = landed \cup {r}
  /\ UNCHANGED today

AttemptsLeft_OneMore(r) == runs[r].attempt <= MaxAttempts
AttemptsLeft(r) == runs[r].attempt < MaxAttempts

Rejected(r) ==
  IF AttemptsLeft(r) THEN [Forget(Goes(r, "fetch")) EXCEPT !.attempt = @ + 1]
  ELSE Answer(r, "rejected")

PushLands(r) ==
  /\ Lands(r)
  /\ runs' = [runs EXCEPT ![r] = Answer(r, "pushed")]

(* The push worked, git reports an error.                                   *)
PushAnswerLost(r) ==
  /\ Lands(r)
  /\ runs' = [runs EXCEPT ![r] = Rejected(r)]

PushRejected(r) ==
  /\ runs[r].stage = "push"
  /\ runs' = [runs EXCEPT ![r] = Rejected(r)]
  /\ UNCHANGED <<Branch, today>>

(* PersistError, or the job is killed: no further attempt is made.          *)
PersistFails(r) ==
  /\ runs[r].stage \in {"fetch", "push"}
  /\ runs' = [runs EXCEPT ![r] = Answer(r, "failed")]
  /\ UNCHANGED <<Branch, today>>

----------------------------------------------------------------------------
(* The dashboard edits another file of the branch.                          *)
OtherCommit ==
  /\ commits < MaxCommits
  /\ commits' = commits + 1
  /\ UNCHANGED <<doc, ever, landed, today, runs>>

(* Midnight.  A persist job takes minutes, so it sees at most one.          *)
Tick ==
  /\ today < MaxDate
  /\ \A r \in Runs : runs[r].stage \in {"fetch", "push"} => runs[r].begun = today
  /\ today' = today + 1
  /\ UNCHANGED <<Branch, runs>>

Next ==
  \/ \E r \in Runs :
       \/ Checkout(r) \/ Scrape(r) \/ StartPersist(r) \/ Fetch(r)
       \/ PushLands(r) \/ PushAnswerLost(r) \/ PushRejected(r) \/ PersistFails(r)
  \/ OtherCommit \/ Tick

Spec == Init /\ [][Next]_vars

----------------------------------------------------------------------------
(* Every variable has its type; a persist job makes MaxAttempts attempts.   *)
TypeOK ==
  /\ commits \in 0..MaxCommits /\ doc \in Docs /\ today \in Dates
  /\ runs \in [Runs -> [stage : Stages, base : Docs, incoming : Docs, made : Dates,
                        begun : Dates, persists : 0..MaxPersists, attempt : 1..MaxAttempts,
                        tip : 0..MaxCommits, merged : Docs, answer : Answers]]
  /\ ever \in [Products -> SUBSET Prices] /\ landed \subseteq Runs

(* Each run's additions and prunings reach the branch once, whatever the    *)
(* order in which runs persist, whatever is retried, repeated or reported   *)
(* lost.                                                                    *)
Change(r) ==
  [add |-> [p \in Products |-> runs[r].incoming[p].rows \ runs[r].base[p].rows],
   drop |-> [p \in Products |-> runs[r].base[p].rows \ runs[r].incoming[p].rows]]

NoChange == [add |-> [p \in Products |-> {}], drop |-> [p \in Products |-> {}]]

Scraped(r) == runs[r].stage \in {"artifact", "fetch", "push"}
Decided == [r \in Runs |-> IF Scraped(r) THEN Change(r) ELSE NoChange]
Listed == [p \in Products |-> doc[p].rows]

Log == INSTANCE ObservationLog WITH change <- Decided, log <- Listed, recorded <- landed

RecordsOnce == Log!Spec

(* A run's rows are on the branch, unless they are old enough to prune.     *)
Present(r) ==
  \A p \in Products : \A row \in Change(r).add[p] :
    row \in doc[p].rows \/ today - row.date > MaxDays

(* A persist job that reports success has its run's rows on the branch, as  *)
(* long as nobody may have pruned them.                                     *)
AnswerTrue ==
  \A r \in Runs : runs[r].answer \in {"pushed", "nothing to commit"} => Present(r)

(* The lowest price of a product is that of all rows ever, pruned or not.   *)
LowestEver ==
  \A p \in Products :
    IF ever[p] = {} THEN doc[p] = NoEntry
    ELSE doc[p].low \in ever[p] /\ \A c \in ever[p] : doc[p].low <= c
=============================================================================
