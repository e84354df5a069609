--------------------------- MODULE ObservationLog ---------------------------
(* What the persisting of the price history promises: a run decides once    *)
(* what it adds to the log and what it drops from it, and the log receives  *)
(* that change once or never, whatever other runs did to it meanwhile.      *)
CONSTANTS Runs, Products, Rows

VARIABLES change,     \* what each run adds and drops, by product
          log,        \* the rows of each product
          recorded    \* the runs whose change the log has received

Changes == [add : [Products -> SUBSET Rows], drop : [Products -> SUBSET Rows]]
Nothing == [add |-> [p \in Products |-> {}], drop |-> [p \in Products |-> {}]]

Init ==
  /\ change = [r \in Runs |-> Nothing] /\ recorded = {}
  /\ log \in [Products -> SUBSET Rows]

Decide(r) ==
  /\ change[r] = Nothing
  /\ change'[r] \in Changes /\ change' = [change EXCEPT ![r] = change'[r]]
  /\ UNCHANGED <<log, recorded>>

Record(r) ==
  /\ r \notin recorded /\ recorded' = recorded \cup {r}
  /\ log' = [p \in Products |-> (log[p] \ change[r].drop[p]) \cup change[r].add[p]]
  /\ UNCHANGED change

Next == \E r \in Runs : Decide(r) \/ Record(r)

Spec == Init /\ [][Next]_<<change, log, recorded>>
=============================================================================
