---------------------------- MODULE MonitorLoop ----------------------------
(***************************************************************************)
(* scripts/run_loop.py, the container's entry point: scrape, analyze and   *)
(* notify as child processes, one after the other, then a pause, with a    *)
(* heartbeat file for Docker's health check and a signal handler that may  *)
(* run between any two instructions of the loop.                           *)
(*                                                                         *)
(* The unit of time is HEARTBEAT_EVERY_SECONDS: no wait is longer.  The    *)
(* container may be killed at any time; the files of data/ outlive it.     *)
(***************************************************************************)
EXTENDS Naturals, Sequences

CONSTANTS StageTimeout,   \* MONITOR_STAGE_TIMEOUT_MINUTES in units
          Interval,       \* MONITOR_INTERVAL_MINUTES in units
          MaxAge          \* HEARTBEAT_MAX_AGE_SECONDS in units

ASSUME LoopAssumption == StageTimeout \in Nat /\ Interval \in Nat /\ MaxAge \in Nat

Stages == <<"scrape", "analyze", "notify">>

VARIABLES
  command,       \* "run" or "once"
  configured,    \* telegram_configured
  loopPc,        \* where the main thread stands
  stage,         \* the stage it is at
  child,         \* the process: none, running, ok, failed
  handle,        \* _child is set
  stop,          \* the event
  termed,        \* the process got SIGTERM
  waited,        \* units since the stage or the pause began
  beat,          \* age of the heartbeat file
  alertsFrom,    \* the cycle that wrote alerts.json: none, old, this
  formattedFrom  \* the cycle whose alerts are in formatted_alerts.json

flow == <<loopPc, stage, waited>>
process == <<child, handle, termed>>
handoffs == <<alertsFrom, formattedFrom>>
loopVars == <<command, configured, flow, process, stop, beat, handoffs>>

LoopInit ==
  /\ command \in {"run", "once"} /\ configured \in BOOLEAN
  /\ loopPc = "top" /\ stage = 1 /\ waited = 0
  /\ child = "none" /\ handle = FALSE /\ termed = FALSE
  /\ stop = FALSE /\ beat = 0
  /\ alertsFrom = "none" /\ formattedFrom = "none"

Outdated(file) == IF file = "this" THEN "old" ELSE file

(* The loop's test and first heartbeat; "once" has neither.                 *)
StartCycle ==
  /\ loopPc = "top"
  /\ IF stop /\ command = "run"
     THEN loopPc' = "exited" /\ UNCHANGED <<stage, beat, handoffs>>
     ELSE /\ loopPc' = "check" /\ stage' = 1
          /\ beat' = IF command = "run" THEN 0 ELSE beat
          /\ alertsFrom' = Outdated(alertsFrom) /\ formattedFrom' = Outdated(formattedFrom)
  /\ UNCHANGED <<command, configured, waited, process, stop>>

----------------------------------------------------------------------------
(* run_cycle, run_stage *)

AfterCycle == IF command = "run" THEN "pause" ELSE "exited"

Check ==
  /\ loopPc = "check"
  /\ loopPc' = IF stop \/ stage > Len(Stages) THEN AfterCycle ELSE "spawn"
  /\ waited' = 0
  /\ UNCHANGED <<command, configured, stage, process, stop, beat, handoffs>>

SkipNotify ==
  /\ loopPc = "spawn" /\ Stages[stage] = "notify" /\ ~configured
  /\ loopPc' = "check" /\ stage' = stage + 1
  /\ UNCHANGED <<command, configured, waited, process, stop, beat, handoffs>>

(* Popen returns before its result is assigned.                             *)
Spawn ==
  /\ loopPc = "spawn" /\ (Stages[stage] = "notify" => configured)
  /\ child' = "running" /\ termed' = FALSE /\ loopPc' = "assign"
  /\ UNCHANGED <<command, configured, stage, waited, handle, stop, beat, handoffs>>

Assign ==
  /\ loopPc = "assign"
  /\ handle' = TRUE /\ loopPc' = "wait"
  /\ UNCHANGED <<command, configured, stage, waited, child, termed, stop, beat, handoffs>>

(* wait() returns: a failed stage ends the cycle.                           *)
Reap_Continues ==
  /\ loopPc \in {"wait", "grace"} /\ child \in {"ok", "failed"}
  /\ child' = "none" /\ handle' = FALSE /\ beat' = beat + 1
  /\ loopPc' = "check" /\ stage' = stage + 1
  /\ UNCHANGED <<command, configured, waited, termed, stop, handoffs>>

Reap ==
  /\ loopPc \in {"wait", "grace"} /\ child \in {"ok", "failed"}
  /\ child' = "none" /\ handle' = FALSE /\ beat' = beat + 1
  /\ IF child = "ok" THEN loopPc' = "check" /\ stage' = stage + 1
                     ELSE loopPc' = AfterCycle /\ stage' = stage
  /\ waited' = 0
  /\ UNCHANGED <<command, configured, termed, stop, handoffs>>

(* 30 seconds without an end: a heartbeat, and past the limit SIGTERM.      *)
WaitExpires_Silent ==
  /\ loopPc = "wait" /\ child = "running"
  /\ waited' = waited + 1 /\ beat' = beat + 1
  /\ IF waited' > StageTimeout THEN loopPc' = "grace" /\ termed' = TRUE
                               ELSE UNCHANGED <<loopPc, termed>>
  /\ UNCHANGED <<command, configured, stage, child, handle, stop, handoffs>>

WaitExpires ==
  /\ loopPc = "wait" /\ child = "running"
  /\ waited' = waited + 1 /\ beat' = 0
  /\ IF waited' > StageTimeout THEN loopPc' = "grace" /\ termed' = TRUE
                               ELSE UNCHANGED <<loopPc, termed>>
  /\ UNCHANGED <<command, configured, stage, child, handle, stop, handoffs>>

(* The grace passed as well: SIGKILL, and a wait that cannot fail.          *)
GraceExpires_Waits ==
  /\ loopPc = "grace" /\ child = "running" /\ termed' = TRUE /\ beat' = 0
  /\ UNCHANGED <<command, configured, flow, child, handle, stop, handoffs>>

GraceExpires ==
  /\ loopPc = "grace" /\ child = "running"
  /\ child' = "failed" /\ beat' = beat + 1
  /\ UNCHANGED <<command, configured, flow, handle, termed, stop, handoffs>>

(* The pause between two cycles, in waits of at most one unit that the      *)
(* event cuts short.                                                        *)
Pause ==
  /\ loopPc = "pause"
  /\ IF stop \/ waited = Interval
     THEN loopPc' = "top" /\ waited' = 0
     ELSE loopPc' = loopPc /\ waited' = waited + 1
  /\ beat' = IF stop THEN beat ELSE 0
  /\ UNCHANGED <<command, configured, stage, process, stop, handoffs>>

----------------------------------------------------------------------------
(* The child does its work and ends, or fails before or after it; SIGTERM   *)
(* kills it, but not when it is already done.                               *)
Output ==
  /\ alertsFrom' = IF Stages[stage] = "scrape" THEN "this" ELSE alertsFrom
  /\ formattedFrom' = IF Stages[stage] = "analyze" THEN alertsFrom ELSE formattedFrom

ChildEnds ==
  /\ child = "running"
  /\ \/ child' \in {"ok", "failed"} /\ Output
     \/ child' = "failed" /\ UNCHANGED handoffs
  /\ UNCHANGED <<command, configured, flow, handle, termed, stop, beat>>

(* request_stop.                                                            *)
RequestStop ==
  /\ loopPc \notin {"exited", "down"}
  /\ stop' = TRUE
  /\ termed' = (termed \/ (handle /\ child = "running"))
  /\ UNCHANGED <<command, configured, flow, child, handle, beat, handoffs>>

(* The container is killed with everything in it, and started again.        *)
KillContainer ==
  /\ loopPc # "down"
  /\ loopPc' = "down" /\ child' = "none"
  /\ UNCHANGED <<command, configured, stage, waited, handle, termed, stop, beat, handoffs>>

Restart ==
  /\ loopPc \in {"exited", "down"}
  /\ loopPc' = "top" /\ stage' = 1 /\ waited' = 0
  /\ child' = "none" /\ handle' = FALSE /\ termed' = FALSE
  /\ stop' = FALSE /\ beat' = 0
  /\ UNCHANGED <<command, configured, handoffs>>

Loop ==
  \/ StartCycle \/ Check \/ SkipNotify \/ Spawn \/ Assign
  \/ Reap \/ WaitExpires \/ GraceExpires \/ Pause

LoopNext == Loop \/ ChildEnds \/ RequestStop \/ KillContainer \/ Restart

(* The main thread runs; nothing is assumed of the child or the container.  *)
LoopFairness == WF_loopVars(Loop)

LoopSpec == LoopInit /\ [][LoopNext]_loopVars
LoopFairSpec == LoopSpec /\ LoopFairness

----------------------------------------------------------------------------
(* Every variable has its type. *)
LoopTypeOK ==
  /\ command \in {"run", "once"} /\ configured \in BOOLEAN
  /\ loopPc \in {"top", "check", "spawn", "assign", "wait", "grace", "pause", "exited", "down"}
  /\ stage \in 1..(Len(Stages) + 1) /\ waited \in Nat
  /\ child \in {"none", "running", "ok", "failed"}
  /\ handle \in BOOLEAN /\ stop \in BOOLEAN /\ termed \in BOOLEAN /\ beat \in Nat
  /\ alertsFrom \in {"none", "old", "this"} /\ formattedFrom \in {"none", "old", "this"}

(* Docker never sees a stale heartbeat while the loop is alive, however     *)
(* long a stage hangs and however the stages' ends fall between beats.      *)
AlwaysHealthy == command = "run" => beat <= MaxAge

(* notify delivers what this cycle's scrape found, never the handoff of an  *)
(* earlier cycle, of a failed stage or of a container that was killed.      *)
NotifyReadsThisCycle ==
  child = "running" /\ Stages[stage] = "notify" => formattedFrom = "this"

(* A stage that hangs, or ignores SIGTERM, does not stall the cycles.       *)
AtRest == loopPc \in {"top", "exited", "down"}
KeepsGoing == []<>AtRest
============================================================================
