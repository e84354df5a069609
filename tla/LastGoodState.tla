--------------------------- MODULE LastGoodState ---------------------------
(* What the runtime-state directory promises the monitor: the state that    *)
(* the next run starts from is replaced in one step, by the workspace as it *)
(* stands, or not at all; only damage to the disk can change it otherwise.  *)
EXTENDS Naturals

CONSTANT States

VARIABLES value,    \* what the next restore yields
          work,     \* the workspace of the running job
          damages   \* how often a stored file was damaged

Init == value \in States /\ work \in States /\ damages = 0

Work == work' \in States /\ UNCHANGED <<value, damages>>

Save == value' = work /\ UNCHANGED <<work, damages>>

Damage == damages' = damages + 1 /\ value' \in States /\ UNCHANGED work

Next == Work \/ Save \/ Damage

Spec == Init /\ [][Next]_<<value, work, damages>>
============================================================================
