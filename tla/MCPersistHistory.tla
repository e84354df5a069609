-------------------------- MODULE MCPersistHistory --------------------------
(* Two runs and their repetitions on one branch.                            *)
EXTENDS PersistHistory
=============================================================================
