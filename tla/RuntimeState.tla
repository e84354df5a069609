---------------------------- MODULE RuntimeState ----------------------------
(***************************************************************************)
(* bf_price_monitor/runtime_state.py: the checkout wipes the workspace, so *)
(* each run restores the database, the health log and the outbox from a    *)
(* directory outside it, works on them, and saves them as a new snapshot.  *)
(* The job may fail before or within a step (the save runs nevertheless),  *)
(* the machine may die between any two file operations, and a stored       *)
(* snapshot may be damaged while nobody is using it.                       *)
(*                                                                         *)
(* A file's content is the set of runs whose work is in it.  A run saves   *)
(* at most once, so snapshots are numbered by the runs that made them.     *)
(***************************************************************************)
EXTENDS Naturals, FiniteSets

CONSTANTS MaxRuns,      \* bound: runs
          MaxDamages,   \* bound: snapshots damaged
          Keep,         \* snapshots kept by the pruning
          Clock         \* wall clock at each run's save: the sort key of ids

Runs == 1..MaxRuns
CopyOrder == <<"db", "health", "outbox">>
Files == {"db", "health", "outbox"}
Contents == [Files -> SUBSET Runs]
Empty == [f \in Files |-> {}]
Debris == [f \in Files |-> {0}]   \* whatever an incomplete directory holds

(* A directory is being written or deleted ("partial"), has a manifest that *)
(* matches ("sealed"), or has one that does not ("damaged").                *)
Dirs == [place : {"none", "tmp", "snapshots", "quarantine"},
         state : {"partial", "sealed", "damaged"}, content : Contents \cup {Debris}]
NoDir == [place |-> "none", state |-> "partial", content |-> Debris]

Stages == {"off", "setup", "restore", "copy", "work", "save", "build", "rename", "point",
           "prune", "gate"}

ASSUME RuntimeAssumption ==
  /\ MaxRuns \in Nat /\ MaxDamages \in Nat /\ Keep \in Nat \ {0}
  /\ Clock \in [Runs -> Nat]
  /\ \A i, j \in Runs : Clock[i] = Clock[j] => i = j

VARIABLES
  dirs,      \* the directories under the state root, by the run that made them
  current,   \* the snapshot CURRENT names (0: no such file)
  runs,      \* runs so far; the last one may be running
  stage,     \* where it stands
  work,      \* the workspace files
  torn,      \* workspace files with a malformed line
  from,      \* the snapshot the restore copies
  copied,    \* how many files of it are in place
  restored,  \* the restore step reported one of its good statuses
  saved,     \* the save step reported "saved"
  damages,
  floor      \* history: what a restore would have yielded when the run started

job == <<stage, work, torn, from, copied, restored, saved>>
vars == <<dirs, current, runs, job, damages, floor>>

----------------------------------------------------------------------------
(* _list_snapshot_ids: newest first.  Names of directories under            *)
(* construction begin with a dot and sort behind all others.                *)
Listed == {i \in Runs : dirs[i].place \in {"tmp", "snapshots"}}

Before(i, j) ==
  IF dirs[i].place = dirs[j].place THEN Clock[i] > Clock[j] ELSE dirs[i].place = "snapshots"

First(S) == CHOOSE i \in S : \A j \in S \ {i} : Before(i, j)

(* _validate_snapshot: a manifest, and files that match it.                 *)
Valid_NoManifest(i) == dirs[i].state # "damaged"
Valid(i) == dirs[i].state = "sealed"

(* CURRENT first, whatever else is there.                                   *)
Preferred(S) == IF current \in S THEN current ELSE First(S)

(* What a restore would yield now.  None runs during a save, so that the    *)
(* candidate of the running save counts from its renaming, or from the      *)
(* moment the save is cut off and leaves it behind.                         *)
Usable == {i \in Listed : Valid(i) /\ ~(stage = "rename" /\ i = runs)}
Restorable == IF current = 0 \/ Usable = {} THEN Empty ELSE dirs[Preferred(Usable)].content

----------------------------------------------------------------------------
Init ==
  /\ dirs = [i \in Runs |-> NoDir] /\ current = 0
  /\ runs = 0 /\ stage = "off"
  /\ work = Empty /\ torn = {} /\ from = 0 /\ copied = 0
  /\ restored = FALSE /\ saved = FALSE
  /\ damages = 0 /\ floor = Empty

(* actions/checkout cleans the workspace.                                   *)
StartRun ==
  /\ stage = "off" /\ runs < MaxRuns
  /\ runs' = runs + 1 /\ stage' = "setup"
  /\ work' = Empty /\ torn' = {} /\ from' = 0 /\ copied' = 0
  /\ restored' = FALSE /\ saved' = FALSE
  /\ floor' = Restorable
  /\ UNCHANGED <<dirs, current, damages>>

(* A failed set-up step skips the restore and everything up to the save.    *)
SetUp ==
  /\ stage = "setup"
  /\ stage' \in {"restore", "save"}
  /\ UNCHANGED <<dirs, current, runs, work, torn, from, copied, restored, saved, damages,
                 floor>>

----------------------------------------------------------------------------
(* restore *)

Restoring == stage = "restore" /\ UNCHANGED <<runs, torn, saved, damages, floor>>

(* No CURRENT, or nothing left to try.                                      *)
RestoreFresh ==
  /\ Restoring
  /\ current = 0 \/ Listed = {}
  /\ stage' = "work" /\ restored' = TRUE
  /\ UNCHANGED <<dirs, current, work, from, copied>>

Quarantine ==
  /\ Restoring
  /\ current # 0 /\ Listed # {} /\ ~Valid(Preferred(Listed))
  /\ dirs' = [dirs EXCEPT ![Preferred(Listed)].place = "quarantine"]
  /\ UNCHANGED <<current, stage, work, from, copied, restored>>

Choose ==
  /\ Restoring
  /\ current # 0 /\ Listed # {} /\ Valid(Preferred(Listed))
  /\ from' = Preferred(Listed) /\ stage' = "copy"
  /\ UNCHANGED <<dirs, current, work, copied, restored>>

(* When all three are in place the pointed snapshot, if another one had to  *)
(* be used, is already in quarantine.  The status written last may fail.    *)
Copy ==
  /\ stage = "copy"
  /\ LET f == CopyOrder[copied + 1]
     IN  work' = [work EXCEPT ![f] = dirs[from].content[f]]
  /\ copied' = copied + 1
  /\ IF copied' = 3 THEN stage' = "work" /\ restored' \in BOOLEAN
                    ELSE UNCHANGED <<stage, restored>>
  /\ UNCHANGED <<dirs, current, runs, torn, from, saved, damages, floor>>

(* The access list is wrong or cannot be read, or a file operation fails:   *)
(* the step is marked continue-on-error and the job goes on.                *)
RestoreFails ==
  /\ stage \in {"restore", "copy"}
  /\ stage' = "work"
  /\ UNCHANGED <<dirs, current, runs, work, torn, from, copied, restored, saved, damages,
                 floor>>

----------------------------------------------------------------------------
(* The scripts; one that dies leaves the others' work undone.               *)
Update(f) ==
  /\ stage = "work" /\ runs \notin work[f] /\ f \notin torn
  /\ work' = [work EXCEPT ![f] = @ \cup {runs}]
  /\ \/ UNCHANGED torn
     \/ f # "db" /\ torn' = torn \cup {f}
  /\ UNCHANGED <<dirs, current, runs, stage, from, copied, restored, saved, damages, floor>>

----------------------------------------------------------------------------
(* save: its step runs always *)

Saving == UNCHANGED <<runs, work, torn, from, copied, restored, damages, floor>>

(* .tmp-<id> is made and filled.                                            *)
SaveBegins ==
  /\ stage \in {"work", "save"} /\ Saving
  /\ dirs' = [dirs EXCEPT ![runs] = [NoDir EXCEPT !.place = "tmp"]]
  /\ stage' = "build"
  /\ UNCHANGED <<current, saved>>

(* The manifest is written last and the candidate is checked against it.    *)
Seal ==
  /\ stage = "build" /\ Saving
  /\ torn = {}
  /\ dirs' = [dirs EXCEPT ![runs] = [place |-> "tmp", state |-> "sealed", content |-> work]]
  /\ stage' = "rename"
  /\ UNCHANGED <<current, saved>>

Rename ==
  /\ stage = "rename" /\ Saving
  /\ dirs' = [dirs EXCEPT ![runs].place = "snapshots"]
  /\ stage' = "point"
  /\ UNCHANGED <<current, saved>>

Point ==
  /\ stage = "point" /\ Saving
  /\ current' = runs
  /\ stage' = "prune"
  /\ UNCHANGED <<dirs, saved>>

(* _prune_old_snapshots: what is behind the first Keep of the list.  rmtree *)
(* ignores errors and may leave some of them, or parts of them.  What the   *)
(* gate reads is the status written last, which may fail.                   *)
Doomed_Newest == {i \in Listed : Cardinality({j \in Listed : Before(i, j)}) >= Keep}
Doomed == {i \in Listed : Cardinality({j \in Listed : Before(j, i)}) >= Keep}

Prune ==
  /\ stage = "prune" /\ Saving
  /\ \E gone, part \in SUBSET Doomed :
       dirs' = [i \in Runs |-> IF i \in gone THEN NoDir
                               ELSE IF i \in part THEN [NoDir EXCEPT !.place = dirs[i].place]
                               ELSE dirs[i]]
  /\ saved' \in BOOLEAN /\ stage' = "gate"
  /\ UNCHANGED current

(* An exception while the candidate is made: it is set aside.               *)
SaveFails ==
  /\ stage \in {"build", "rename"} /\ Saving
  /\ dirs' = [dirs EXCEPT ![runs].place = "quarantine"]
  /\ stage' = "gate"
  /\ UNCHANGED <<current, saved>>

(* The access list is wrong, or an exception that save does not catch.      *)
SaveStops ==
  /\ stage \in {"work", "save", "build", "rename", "point", "prune"} /\ Saving
  /\ stage' = "gate"
  /\ UNCHANGED <<dirs, current, saved>>

----------------------------------------------------------------------------
(* "Verify runtime state gate": the run is green when both steps were good. *)
GateOk_SavedOnly == saved
GateOk == restored /\ saved

Gate ==
  /\ stage = "gate"
  /\ stage' = "off"
  /\ UNCHANGED <<dirs, current, runs, work, torn, from, copied, restored, saved, damages,
                 floor>>

(* The machine dies, or the job is killed.                                  *)
Crash ==
  /\ stage \notin {"off", "gate"}
  /\ stage' = "off"
  /\ UNCHANGED <<dirs, current, runs, work, torn, from, copied, restored, saved, damages,
                 floor>>

(* A stored file changes on disk while no step is using it.                 *)
Damage(i) ==
  /\ stage \in {"off", "work"} /\ damages < MaxDamages
  /\ i \in Listed /\ Valid(i)
  /\ dirs' = [dirs EXCEPT ![i].state = "damaged"]
  /\ damages' = damages + 1
  /\ UNCHANGED <<current, runs, job, floor>>

Next ==
  \/ StartRun \/ SetUp
  \/ RestoreFresh \/ Quarantine \/ Choose \/ Copy \/ RestoreFails
  \/ \E f \in Files : Update(f)
  \/ SaveBegins \/ Seal \/ Rename \/ Point \/ Prune \/ SaveFails \/ SaveStops
  \/ Gate \/ Crash
  \/ \E i \in Runs : Damage(i)

Spec == Init /\ [][Next]_vars

----------------------------------------------------------------------------
(* Every variable has its type; the workspace, above all, never receives    *)
(* anything from a directory that was not completed.                        *)
TypeOK ==
  /\ dirs \in [Runs -> Dirs] /\ current \in Runs \cup {0}
  /\ runs \in 0..MaxRuns /\ stage \in Stages
  /\ work \in Contents /\ torn \subseteq Files
  /\ from \in Runs \cup {0} /\ copied \in 0..3
  /\ restored \in BOOLEAN /\ saved \in BOOLEAN
  /\ damages \in 0..MaxDamages /\ floor \in Contents

(* The next run's state is replaced by a whole workspace in one step,       *)
(* wherever the save is cut off, and neither pruning, quarantine, nor an    *)
(* abandoned directory ever changes it.                                     *)
Promise == INSTANCE LastGoodState WITH States <- Contents, value <- Restorable

Implements == Promise!Spec

(* A green run has built on everything that was there when it started, and  *)
(* the next run starts from what it made.                                   *)
GreenKeeps ==
  [][Gate /\ GateOk => /\ current = runs /\ dirs[runs].content = work
                       /\ \A f \in Files : floor[f] \subseteq work[f]]_vars

(* "A failed check disables runtime state for that run": what the next run  *)
(* starts from never loses the work of an earlier run, undamaged disks      *)
(* provided.                                                                *)
NoForgetting ==
  [][damages' = damages => \A f \in Files : Restorable[f] \subseteq Restorable'[f]]_vars
============================================================================
