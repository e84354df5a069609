--------------------------- MODULE MCRuntimeState ---------------------------
(* The clock of the runner goes forward.                                    *)
EXTENDS RuntimeState

Forward == [r \in Runs |-> r]
============================================================================
