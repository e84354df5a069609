----------------------------- MODULE Operations -----------------------------
(***************************************************************************)
(* The components around the alert pipeline, and the dashboard's sync,     *)
(* side by side.  They share no variable: what one hands to another is in  *)
(* the initial states or the inputs of the other.  So an initial state     *)
(* picks the part that moves, and the rest stays in one initial state.     *)
(***************************************************************************)
EXTENDS MonitorLoop, PeakDispatch, PageFetch, ScrapeHealth, DealAlerts,
        AiAnalysis, OfferStore, FeedbackCollector

CONSTANTS
  SyncWatches, Values, Absent, Broken, DuplicateKey, Servers, NoServer,
  MaxEdits, MaxOthers, MaxHistory, MaxAttempts   \* those of DashboardSync

VARIABLES
  part,
  submitted, since, syncPending, conflicts, dismissed, removing, kept, origin,
  head, late, dirty, owner, phase, todo, syncApplied, blocked, fates, focus,
  syncAttempt, outcome   \* those of DashboardSync

Sync == INSTANCE DashboardSync WITH
  Watches <- SyncWatches, pending <- syncPending, applied <- syncApplied,
  attempt <- syncAttempt

syncVars ==
  <<submitted, since, syncPending, conflicts, dismissed, removing, kept, origin,
    head, late, dirty, owner, phase, todo, syncApplied, blocked, fates, focus,
    syncAttempt, outcome>>
scheduling == <<loopVars, dispatchVars>>
scraping == <<fetchVars, healthVars, dealVars>>
judging == <<analysisVars, storeVars>>
opsVars == <<part, scheduling, scraping, judging, collectorVars, syncVars>>

Parts == {"loop", "dispatch", "fetch", "health", "deal", "analysis", "store",
          "collector", "sync"}

OpsInit ==
  /\ part \in Parts
  /\ LoopInit /\ (part = "loop" \/ (command = "run" /\ configured))
  /\ DispatchInit /\ (part = "dispatch" \/ window = "unset")
  /\ FetchInit /\ HealthInit
  /\ DealInit /\ (part = "deal" \/ history = <<>>)
  /\ AnalysisInit
  /\ part = "analysis" \/ <<candidates, handoff>> = <<CHOOSE b \in Batches : TRUE, CHOOSE n \in Notices : TRUE>>
  /\ StoreInit /\ (part = "store" \/ version = 0)
  /\ CollectorInit
  /\ Sync!Init /\ (part = "sync" \/ origin[1].doc = [w \in SyncWatches |-> Absent])

OpsNext ==
  \/ /\ part = "loop" /\ UNCHANGED <<part, dispatchVars, scraping, judging, collectorVars, syncVars>>
     /\ LoopNext
  \/ /\ part = "dispatch" /\ UNCHANGED <<part, loopVars, scraping, judging, collectorVars, syncVars>>
     /\ DispatchNext
  \/ /\ part = "fetch" /\ UNCHANGED <<part, scheduling, healthVars, dealVars, judging, collectorVars, syncVars>>
     /\ FetchNext
  \/ /\ part = "health" /\ UNCHANGED <<part, scheduling, fetchVars, dealVars, judging, collectorVars, syncVars>>
     /\ HealthNext
  \/ /\ part = "deal" /\ UNCHANGED <<part, scheduling, fetchVars, healthVars, judging, collectorVars, syncVars>>
     /\ DealNext
  \/ /\ part = "analysis" /\ UNCHANGED <<part, scheduling, scraping, storeVars, collectorVars, syncVars>>
     /\ AnalysisNext
  \/ /\ part = "store" /\ UNCHANGED <<part, scheduling, scraping, analysisVars, collectorVars, syncVars>>
     /\ StoreNext
  \/ /\ part = "collector" /\ UNCHANGED <<part, scheduling, scraping, judging, syncVars>>
     /\ CollectorNext
  \/ /\ part = "sync" /\ UNCHANGED <<part, scheduling, scraping, judging, collectorVars>>
     /\ Sync!Next

(* The fairness of the two components that must end what they begin.        *)
OnlySync(A) == part = "sync" /\ A /\ UNCHANGED <<part, scheduling, scraping, judging, collectorVars>>
OnlyLoop(A) ==
  part = "loop" /\ A /\ UNCHANGED <<part, dispatchVars, scraping, judging, collectorVars, syncVars>>
OpsFairness ==
  /\ \A s \in Servers : /\ WF_syncVars(OnlySync(Sync!Step(s)))
                        /\ WF_syncVars(OnlySync(Sync!DismissWrite(s)))
  /\ WF_loopVars(OnlyLoop(Loop))

OpsSpec == OpsInit /\ [][OpsNext]_opsVars /\ OpsFairness

----------------------------------------------------------------------------
(* Every variable of every component has its type.                          *)
OperationsTypeOK ==
  /\ LoopTypeOK /\ DispatchTypeOK /\ FetchTypeOK /\ HealthTypeOK /\ DealTypeOK
  /\ AnalysisTypeOK /\ StoreTypeOK /\ FeedbackTypeOK

(* A sync that has begun ends.                                              *)
Syncing == part = "sync" /\ Sync!Syncing
SyncTerminates == [](Syncing => <>~Syncing)
=============================================================================
