------------------------- MODULE RuntimeStateProofs -------------------------
(* Theorems about RuntimeState, for every number of runs, damaged snapshots *)
(* and kept snapshots, on a clock that goes forward.                        *)
EXTENDS RuntimeState, FiniteSetTheorems, WellFoundedInduction, TLAPS

ClockForward == \A i, j \in Runs : Clock[i] > Clock[j] <=> i > j

LEMMA Latest ==
  ASSUME NEW S, S \subseteq Runs, S # {}
  PROVE  \E i \in S : \A j \in S : j <= i
<1> DEFINE Less == OpToRel(<, Nat)
           T == {n \in Nat : \E i \in S : n = MaxRuns - i}
<1>1. IsWellFoundedOn(Less, Nat)
  BY NatLessThanWellFounded
<1>2. \A j \in S : MaxRuns - j \in Nat /\ MaxRuns - j \in T
  BY RuntimeAssumption DEF Runs
<1>3. T \subseteq Nat /\ T # {}
  <2> PICK j \in S : TRUE
    OBVIOUS
  <2> QED BY <1>2
<1>4. PICK n \in T : \A m \in T : ~(<<m, n>> \in Less)
  <2> HIDE DEF Less, T
  <2> QED BY <1>1, <1>3, WFMin
<1>5. \A m \in T : ~(m < n)
  BY <1>3, <1>4 DEF OpToRel
<1>6. PICK i \in S : n = MaxRuns - i
  OBVIOUS
<1>7. ASSUME NEW j \in S PROVE j <= i
  <2>1. ~(MaxRuns - j < MaxRuns - i)
    BY <1>5, <1>6, <1>2
  <2> QED BY <2>1, RuntimeAssumption DEF Runs
<1> QED BY <1>7
----------------------------------------------------------------------------
(* A directory that validates holds workspaces' contents only.              *)
Shape == \A i \in Runs : Valid(i) => dirs[i].content \in Contents

Made(place) == [place |-> place, state |-> "sealed", content |-> work]

(* What the running job has made of its snapshot.                           *)
SaveInv ==
  /\ stage # "off" => runs \in Runs
  /\ \A i \in Runs : i > runs => dirs[i].place = "none"
  /\ stage \in {"setup", "restore", "copy", "work", "save"} => dirs[runs].place = "none"
  /\ stage = "build" => dirs[runs].place = "tmp" /\ ~Valid(runs)
  /\ stage = "rename" => dirs[runs] = Made("tmp")
  /\ stage \in {"point", "prune"} \/ (stage = "gate" /\ saved) => dirs[runs] = Made("snapshots")
  /\ stage = "prune" \/ (stage = "gate" /\ saved) => current = runs
  /\ saved => stage \in {"gate", "off"}

(* What is in place of the snapshot that was the best at the start.         *)
RestoreInv ==
  /\ stage \in {"setup", "restore"} => floor = Restorable /\ copied = 0
  /\ stage = "copy" =>
       /\ copied < 3 /\ from \in Runs /\ Valid(from) /\ dirs[from].content = floor
       /\ \A k \in 1..copied : work[CopyOrder[k]] = floor[CopyOrder[k]]
  /\ restored => \A f \in Files : floor[f] \subseteq work[f]

Inv == TypeOK /\ Shape /\ SaveInv /\ RestoreInv

(* The order of the list has a first element, and only one.                 *)
Ordered ==
  \A S \in SUBSET Listed : S # {} =>
    /\ First(S) \in S
    /\ \A i \in S : (\A j \in S \ {i} : Before(i, j)) <=> i = First(S)

LEMMA FirstFacts == ASSUME ClockForward PROVE TypeOK => Ordered
<1> SUFFICES ASSUME TypeOK, NEW S \in SUBSET Listed, S # {}
    PROVE  /\ First(S) \in S
           /\ \A i \in S : (\A j \in S \ {i} : Before(i, j)) <=> i = First(S)
  BY DEF Ordered
<1>1. S \subseteq Runs /\ Clock \in [Runs -> Nat] /\ Runs \subseteq Nat
  BY RuntimeAssumption DEF Listed, Runs
<1>2. \A j \in S : dirs[j].place \in {"tmp", "snapshots"}
  BY DEF Listed
<1>3. \E i \in S : \A j \in S \ {i} : Before(i, j)
  <2>1. CASE \E k \in S : dirs[k].place = "snapshots"
    <3> DEFINE T == {k \in S : dirs[k].place = "snapshots"}
    <3>1. PICK i \in T : \A j \in T : j <= i
      BY <2>1, <1>1, Latest
    <3>2. ASSUME NEW j \in S \ {i} PROVE Before(i, j)
      BY <3>1, <1>1, <1>2 DEF Before, ClockForward
    <3> QED BY <3>2
  <2>2. CASE \A k \in S : dirs[k].place = "tmp"
    <3>1. PICK i \in S : \A j \in S : j <= i
      BY <1>1, Latest
    <3>2. ASSUME NEW j \in S \ {i} PROVE Before(i, j)
      BY <3>1, <1>1, <2>2 DEF Before, ClockForward
    <3> QED BY <3>2
  <2> QED BY <2>1, <2>2, <1>2
<1>4. \A i, j \in S : i # j /\ Before(i, j) => ~Before(j, i)
  BY <1>1, <1>2 DEF Before, ClockForward
<1>5. First(S) \in S /\ \A j \in S \ {First(S)} : Before(First(S), j)
  BY <1>3 DEF First
<1> QED BY <1>4, <1>5

(* What is restored depends on the usable snapshots alone.                  *)
LEMMA SameRestorable ==
  ASSUME Ordered, Ordered', Usable' = Usable, current' = current,
         \A i \in Usable : dirs'[i] = dirs[i]
  PROVE  Restorable' = Restorable
<1>1. Usable \subseteq Listed /\ Usable' \subseteq Listed'
  BY DEF Usable
<1>2. CASE Usable = {} \/ current = 0
  BY <1>2 DEF Restorable
<1>3. CASE Usable # {} /\ current # 0 /\ current \in Usable
  BY <1>3 DEF Restorable, Preferred
<1>4. CASE Usable # {} /\ current # 0 /\ current \notin Usable
  <2>1. PICK f \in Usable : f = First(Usable) /\ \A j \in Usable \ {f} : Before(f, j)
    BY <1>1, <1>4 DEF Ordered
  <2>2. \A j \in Usable \ {f} : Before(f, j)'
    BY <2>1 DEF Before
  <2>3. f = First(Usable)'
    BY <1>1, <1>4, <2>1, <2>2 DEF Ordered
  <2> QED BY <1>4, <2>1, <2>3 DEF Restorable, Preferred
<1> QED BY <1>2, <1>3, <1>4

----------------------------------------------------------------------------
LEMMA DirFacts ==
  /\ NoDir \in Dirs /\ Empty \in Contents /\ Files = {CopyOrder[k] : k \in 1..3}
  /\ \A k \in 1..3 : CopyOrder[k] \in Files
  /\ \A d \in Dirs : [d EXCEPT !.place = "quarantine"] \in Dirs
  /\ \A d \in Dirs : [d EXCEPT !.place = "tmp"] \in Dirs
  /\ \A d \in Dirs : [d EXCEPT !.place = "snapshots"] \in Dirs
  /\ \A d \in Dirs : [d EXCEPT !.state = "damaged"] \in Dirs
  /\ \A d \in Dirs : [NoDir EXCEPT !.place = d.place] \in Dirs
  /\ \A w \in Contents : [place |-> "tmp", state |-> "sealed", content |-> w] \in Dirs
<1>1. NoDir \in Dirs /\ Empty \in Contents
  BY DEF NoDir, Dirs, Empty, Contents
<1>2. Files = {CopyOrder[k] : k \in 1..3} /\ \A k \in 1..3 : CopyOrder[k] \in Files
  <2>1. CopyOrder[1] = "db" /\ CopyOrder[2] = "health" /\ CopyOrder[3] = "outbox"
    BY DEF CopyOrder
  <2>2. 1..3 = {1, 2, 3}
    OBVIOUS
  <2> QED BY <2>1, <2>2 DEF Files
<1>3. \A d \in Dirs : /\ [d EXCEPT !.place = "quarantine"] \in Dirs
                      /\ [d EXCEPT !.place = "tmp"] \in Dirs
                      /\ [d EXCEPT !.place = "snapshots"] \in Dirs
                      /\ [d EXCEPT !.state = "damaged"] \in Dirs
  BY DEF Dirs
<1>4. \A d \in Dirs : [NoDir EXCEPT !.place = d.place] \in Dirs
  BY DEF Dirs, NoDir
<1>5. \A w \in Contents : [place |-> "tmp", state |-> "sealed", content |-> w] \in Dirs
  BY DEF Dirs
<1> QED BY <1>1, <1>2, <1>3, <1>4, <1>5

LEMMA RunFacts ==
  /\ Runs = 1..MaxRuns /\ MaxRuns \in Nat /\ MaxDamages \in Nat
  /\ 0 \notin Runs /\ Runs \subseteq Nat
BY RuntimeAssumption DEF Runs

LEMMA PreferredFacts ==
  ASSUME TypeOK, Ordered, Listed # {}
  PROVE  Preferred(Listed) \in Listed /\ Preferred(Listed) \in Runs
BY DEF Preferred, Ordered, Listed

LEMMA RestorableFacts == ASSUME TypeOK, Shape, Ordered PROVE Restorable \in Contents
<1>1. Usable # {} => Preferred(Usable) \in Usable
  BY DEF Preferred, Ordered, Usable
<1>2. \A i \in Usable : dirs[i].content \in Contents
  BY DEF Usable, Listed, Shape
<1> QED BY <1>1, <1>2, DirFacts DEF Restorable

LEMMA RestorableLater == (TypeOK /\ Shape /\ Ordered => Restorable \in Contents)'
<1>1. TypeOK /\ Shape /\ Ordered => Restorable \in Contents
  BY RestorableFacts
<1> QED BY <1>1, PTL

LEMMA TypeStep ==
  ASSUME ClockForward, Inv, [Next]_vars
  PROVE  TypeOK' /\ Shape'
<1> USE DirFacts, RunFacts
<1>1. TypeOK /\ Shape /\ SaveInv /\ RestoreInv /\ Ordered
  BY FirstFacts DEF Inv
<1>2. CASE UNCHANGED vars
  BY <1>1, <1>2 DEF vars, job, TypeOK, Shape, Valid
<1>3. CASE StartRun
  <2>1. runs + 1 \in 0..MaxRuns
    BY <1>1, <1>3 DEF StartRun, TypeOK
  <2>2. floor' \in Contents
    BY <1>1, <1>3, RestorableFacts DEF StartRun
  <2>3. TypeOK'
    <3>1. dirs' \in [Runs -> Dirs] /\ current' \in Runs \cup {0} /\ damages' \in 0..MaxDamages
      BY <1>1, <1>3 DEF StartRun, TypeOK
    <3>2. runs' \in 0..MaxRuns /\ stage' \in Stages
      BY <1>3, <2>1 DEF StartRun, Stages
    <3>3. work' \in Contents /\ torn' = {} /\ from' = 0 /\ copied' = 0 /\ ~restored' /\ ~saved'
      BY <1>3 DEF StartRun
    <3>4. restored' \in BOOLEAN /\ saved' \in BOOLEAN
      BY <1>3 DEF StartRun
    <3> QED BY <2>2, <3>1, <3>2, <3>3, <3>4 DEF TypeOK
  <2>4. Shape'
    BY <1>1, <1>3 DEF StartRun, Shape, Valid
  <2> QED BY <2>3, <2>4
<1>4. CASE SetUp
  BY <1>1, <1>4 DEF SetUp, TypeOK, Shape, Valid, Stages
<1>5. CASE RestoreFresh
  BY <1>1, <1>5 DEF RestoreFresh, Restoring, TypeOK, Shape, Valid, Stages
<1>6. CASE Quarantine
  <2> DEFINE p == Preferred(Listed)
  <2>1. p \in Runs /\ dirs' = [dirs EXCEPT ![p].place = "quarantine"]
    BY <1>1, <1>6, PreferredFacts DEF Quarantine
  <2> HIDE DEF p
  <2>2. dirs' = [dirs EXCEPT ![p] = [dirs[p] EXCEPT !.place = "quarantine"]]
    BY <1>1, <2>1 DEF TypeOK
  <2>3. dirs' \in [Runs -> Dirs] /\ Shape'
    BY <1>1, <2>1, <2>2 DEF TypeOK, Shape, Valid, Dirs
  <2> QED BY <1>1, <1>6, <2>3 DEF Quarantine, Restoring, TypeOK
<1>7. CASE Choose
  <2>1. from' \in Runs
    BY <1>1, <1>7, PreferredFacts DEF Choose
  <2> QED BY <1>1, <1>7, <2>1 DEF Choose, Restoring, TypeOK, Shape, Valid, Stages
<1>8. CASE Copy
  <2>1. copied + 1 \in 1..3 /\ dirs[from].content \in Contents
    BY <1>1, <1>8 DEF Copy, RestoreInv, Shape, TypeOK
  <2>2. PICK f \in Files : work' = [work EXCEPT ![f] = dirs[from].content[f]]
    BY <1>8, <2>1 DEF Copy
  <2>3. work' \in Contents
    BY <1>1, <2>1, <2>2 DEF TypeOK, Contents
  <2>4. copied' \in 0..3
    BY <1>8, <2>1 DEF Copy
  <2>5. stage' \in Stages
    BY <1>1, <1>8 DEF Copy, TypeOK, Stages
  <2>6. restored' \in BOOLEAN
    BY <1>1, <1>8 DEF Copy, TypeOK
  <2> QED BY <1>1, <1>8, <2>3, <2>4, <2>5, <2>6 DEF Copy, TypeOK, Shape, Valid
<1>9. CASE RestoreFails
  BY <1>1, <1>9 DEF RestoreFails, TypeOK, Shape, Valid, Stages
<1>10. CASE \E f \in Files : Update(f)
  <2>1. PICK f \in Files : Update(f)
    BY <1>10
  <2>2. runs \in Runs
    BY <1>1, <2>1 DEF Update, SaveInv
  <2>3. work' \in Contents /\ torn' \subseteq Files
    BY <1>1, <2>1, <2>2 DEF Update, TypeOK, Contents
  <2> QED BY <1>1, <2>1, <2>3 DEF Update, TypeOK, Shape, Valid
<1>11. CASE SaveBegins
  <2>1. runs \in Runs /\ [NoDir EXCEPT !.place = "tmp"] \in Dirs
    BY <1>1, <1>11 DEF SaveBegins, SaveInv
  <2>2. dirs' \in [Runs -> Dirs] /\ Shape'
    BY <1>1, <1>11, <2>1 DEF SaveBegins, TypeOK, Shape, Valid, NoDir
  <2> QED BY <1>1, <1>11, <2>2 DEF SaveBegins, Saving, TypeOK, Stages
<1>12. CASE Seal
  <2>1. runs \in Runs /\ work \in Contents
    BY <1>1, <1>12 DEF Seal, SaveInv, TypeOK
  <2>2. dirs' \in [Runs -> Dirs] /\ Shape'
    BY <1>1, <1>12, <2>1 DEF Seal, TypeOK, Shape, Valid
  <2> QED BY <1>1, <1>12, <2>2 DEF Seal, Saving, TypeOK, Stages
<1>13. CASE Rename
  <2>1. runs \in Runs
    BY <1>1, <1>13 DEF Rename, SaveInv
  <2>2. dirs' = [dirs EXCEPT ![runs] = [dirs[runs] EXCEPT !.place = "snapshots"]]
    BY <1>1, <1>13, <2>1 DEF Rename, TypeOK
  <2>3. dirs' \in [Runs -> Dirs] /\ Shape'
    BY <1>1, <2>1, <2>2 DEF TypeOK, Shape, Valid, Dirs
  <2> QED BY <1>1, <1>13, <2>3 DEF Rename, Saving, TypeOK, Stages
<1>14. CASE Point
  BY <1>1, <1>14 DEF Point, Saving, SaveInv, TypeOK, Shape, Valid, Stages
<1>15. CASE Prune
  <2>1. \A i \in Runs : dirs'[i] \in {NoDir, [NoDir EXCEPT !.place = dirs[i].place], dirs[i]}
    BY <1>15 DEF Prune
  <2>2. dirs' \in [Runs -> Dirs]
    BY <1>1, <1>15, <2>1 DEF Prune, TypeOK
  <2>3. Shape'
    BY <1>1, <2>1 DEF Shape, Valid, NoDir
  <2> QED BY <1>1, <1>15, <2>2, <2>3 DEF Prune, Saving, TypeOK, Stages
<1>16. CASE SaveFails
  <2>1. runs \in Runs
    BY <1>1, <1>16 DEF SaveFails, SaveInv
  <2>2. dirs' = [dirs EXCEPT ![runs] = [dirs[runs] EXCEPT !.place = "quarantine"]]
    BY <1>1, <1>16, <2>1 DEF SaveFails, TypeOK
  <2>3. dirs' \in [Runs -> Dirs] /\ Shape'
    BY <1>1, <2>1, <2>2 DEF TypeOK, Shape, Valid, Dirs
  <2> QED BY <1>1, <1>16, <2>3 DEF SaveFails, Saving, TypeOK, Stages
<1>17. CASE SaveStops
  BY <1>1, <1>17 DEF SaveStops, Saving, TypeOK, Shape, Valid, Stages
<1>18. CASE Gate \/ Crash
  BY <1>1, <1>18 DEF Gate, Crash, TypeOK, Shape, Valid, Stages
<1>19. CASE \E i \in Runs : Damage(i)
  <2>1. PICK i \in Runs : Damage(i)
    BY <1>19
  <2>2. dirs' = [dirs EXCEPT ![i] = [dirs[i] EXCEPT !.state = "damaged"]]
    BY <1>1, <2>1 DEF Damage, TypeOK
  <2>3. dirs' \in [Runs -> Dirs] /\ Shape'
    BY <1>1, <2>1, <2>2 DEF TypeOK, Shape, Valid, Dirs
  <2>4. damages' \in 0..MaxDamages
    BY <1>1, <2>1 DEF Damage, TypeOK
  <2> QED BY <1>1, <2>1, <2>3, <2>4 DEF Damage, job, TypeOK
<1> QED
  BY <1>2, <1>3, <1>4, <1>5, <1>6, <1>7, <1>8, <1>9, <1>10, <1>11, <1>12, <1>13, <1>14, <1>15,
     <1>16, <1>17, <1>18, <1>19 DEF Next

LEMMA PruneSpares ==
  ASSUME ClockForward, Inv, Prune
  PROVE  dirs'[runs] = dirs[runs] /\ runs \in Runs
<1>1. runs \in Runs /\ dirs[runs].place = "snapshots"
  BY DEF Prune, Inv, SaveInv, Made
<1>2. \A j \in Listed : ~Before(j, runs)
  <2> SUFFICES ASSUME NEW j \in Listed, Before(j, runs) PROVE FALSE
    OBVIOUS
  <2>1. j \in Runs /\ dirs[j].place = "snapshots" /\ Clock[j] > Clock[runs]
    BY <1>1 DEF Before, Listed
  <2>2. j > runs
    BY <1>1, <2>1 DEF ClockForward
  <2> QED BY <2>1, <2>2 DEF Inv, SaveInv
<1>3. {j \in Listed : Before(j, runs)} = {}
  BY <1>2
<1>4. runs \notin Doomed
  BY <1>3, FS_EmptySet, RuntimeAssumption DEF Doomed
<1>5. PICK gone \in SUBSET Doomed, part \in SUBSET Doomed :
        dirs' = [i \in Runs |-> IF i \in gone THEN NoDir
                                ELSE IF i \in part THEN [NoDir EXCEPT !.place = dirs[i].place]
                                ELSE dirs[i]]
  BY DEF Prune
<1> QED BY <1>1, <1>4, <1>5

LEMMA SaveStep ==
  ASSUME ClockForward, Inv, [Next]_vars
  PROVE  SaveInv'
<1> USE RunFacts
<1>1. TypeOK /\ SaveInv /\ RestoreInv /\ Ordered
  BY FirstFacts DEF Inv
<1>2. CASE UNCHANGED vars
  BY <1>1, <1>2 DEF vars, job, SaveInv, Made, Valid
<1>3. CASE StartRun
  <2>1. runs' \in Runs /\ runs' > runs
    BY <1>1, <1>3 DEF StartRun, TypeOK
  <2> QED BY <1>1, <1>3, <2>1 DEF StartRun, SaveInv, TypeOK
<1>4. CASE SetUp
  BY <1>1, <1>4 DEF SetUp, SaveInv
<1>5. CASE RestoreFresh \/ Choose
  BY <1>1, <1>5 DEF RestoreFresh, Choose, Restoring, SaveInv
<1>6. CASE Quarantine
  <2> DEFINE p == Preferred(Listed)
  <2>1. p \in Listed /\ p \in Runs /\ dirs' = [dirs EXCEPT ![p].place = "quarantine"]
    BY <1>1, <1>6, PreferredFacts DEF Quarantine
  <2> HIDE DEF p
  <2>2. p # runs /\ ~(p > runs)
    BY <1>1, <1>6, <2>1 DEF Quarantine, Restoring, SaveInv, Listed
  <2>3. \A i \in Runs : i # p => dirs'[i] = dirs[i]
    BY <1>1, <2>1 DEF TypeOK
  <2> QED BY <1>1, <1>6, <2>1, <2>2, <2>3 DEF Quarantine, Restoring, SaveInv
<1>8. CASE Copy
  <2>1. stage' \in {"copy", "work"}
    BY <1>8 DEF Copy
  <2> QED BY <1>1, <1>8, <2>1 DEF Copy, SaveInv
<1>9. CASE RestoreFails
  BY <1>1, <1>9 DEF RestoreFails, SaveInv
<1>10. CASE \E f \in Files : Update(f)
  BY <1>1, <1>10 DEF Update, SaveInv
<1>11. CASE SaveBegins
  BY <1>1, <1>11 DEF SaveBegins, Saving, SaveInv, TypeOK, NoDir, Valid
<1>12. CASE Seal
  BY <1>1, <1>12 DEF Seal, Saving, SaveInv, TypeOK, Made
<1>13. CASE Rename
  BY <1>1, <1>13 DEF Rename, Saving, SaveInv, TypeOK, Made
<1>14. CASE Point
  BY <1>1, <1>14 DEF Point, Saving, SaveInv, Made
<1>15. CASE Prune
  <2>1. dirs'[runs] = dirs[runs] /\ runs \in Runs
    BY <1>15, PruneSpares
  <2>2. \A i \in Runs : dirs'[i] \in {NoDir, [NoDir EXCEPT !.place = dirs[i].place], dirs[i]}
    BY <1>15 DEF Prune
  <2>3. \A i \in Runs : i > runs => dirs'[i].place = "none"
    BY <1>1, <2>2 DEF SaveInv, NoDir
  <2> QED BY <1>1, <1>15, <2>1, <2>3 DEF Prune, Saving, SaveInv, Made
<1>16. CASE SaveFails
  BY <1>1, <1>16 DEF SaveFails, Saving, SaveInv, TypeOK
<1>17. CASE SaveStops
  BY <1>1, <1>17 DEF SaveStops, Saving, SaveInv
<1>18. CASE Gate \/ Crash
  BY <1>1, <1>18 DEF Gate, Crash, SaveInv
<1>19. CASE \E i \in Runs : Damage(i)
  <2>1. PICK i \in Runs : Damage(i)
    BY <1>19
  <2>2. \A k \in Runs : dirs'[k].place = dirs[k].place
    BY <1>1, <2>1 DEF Damage, TypeOK
  <2> QED BY <1>1, <2>1, <2>2 DEF Damage, job, SaveInv
<1> QED
  BY <1>2, <1>3, <1>4, <1>5, <1>6, <1>8, <1>9, <1>10, <1>11, <1>12, <1>13, <1>14, <1>15,
     <1>16, <1>17, <1>18, <1>19 DEF Next

----------------------------------------------------------------------------
(* What a step does to the value that a restore would yield.                *)
LEMMA FirstFactsLater == ASSUME ClockForward PROVE (TypeOK => Ordered)'
<1>1. TypeOK => Ordered
  BY FirstFacts
<1> QED BY <1>1, PTL

LEMMA NextOrdered == ASSUME ClockForward, Inv, [Next]_vars PROVE Ordered /\ Ordered'
<1>1. Ordered
  BY FirstFacts DEF Inv
<1>2. Ordered'
  BY FirstFactsLater, TypeStep
<1> QED BY <1>1, <1>2

(* Steps that touch no usable snapshot.                                     *)
LEMMA Untouched ==
  ASSUME ClockForward, Inv, [Next]_vars, dirs' = dirs, current' = current,
         stage # "rename", stage' # "rename"
  PROVE  Restorable' = Restorable
<1>1. Usable' = Usable
  BY DEF Usable, Listed, Valid
<1> QED BY <1>1, NextOrdered, SameRestorable

(* Steps that make a usable snapshot of the workspace.                      *)
LEMMA OneMore ==
  ASSUME Ordered, Ordered', current' = current, runs \in Runs, runs \notin Usable,
         Usable' = Usable \cup {runs}, dirs'[runs].content = work,
         \A i \in Usable : dirs'[i] = dirs[i]
  PROVE  Restorable' \in {Restorable, work}
<1>1. Usable \subseteq Listed /\ Usable' \subseteq Listed' /\ Usable' # {}
  BY DEF Usable
<1>2. CASE current = 0
  BY <1>2 DEF Restorable
<1>3. CASE current # 0 /\ current \in Usable
  BY <1>1, <1>3 DEF Restorable, Preferred
<1>4. CASE current # 0 /\ current = runs
  BY <1>1, <1>4 DEF Restorable, Preferred
<1>5. CASE current # 0 /\ current \notin Usable'
  <2>1. PICK f \in Usable' : f = First(Usable)' /\ \A j \in Usable' \ {f} : Before(f, j)'
    BY <1>1 DEF Ordered
  <2>2. Restorable' = dirs'[f].content
    BY <1>1, <1>5, <2>1 DEF Restorable, Preferred
  <2>3. CASE f = runs
    BY <2>2, <2>3
  <2>4. CASE f \in Usable
    <3>1. \A j \in Usable \ {f} : Before(f, j)
      BY <2>1, <2>4 DEF Before
    <3>2. f = First(Usable)
      BY <1>1, <2>4, <3>1 DEF Ordered
    <3> QED BY <1>5, <2>2, <2>4, <3>2 DEF Restorable, Preferred
  <2> QED BY <2>1, <2>3, <2>4
<1> QED BY <1>2, <1>3, <1>4, <1>5

LEMMA QuarantineKeeps ==
  ASSUME ClockForward, Inv, Quarantine
  PROVE  Restorable' = Restorable
<1>1. TypeOK /\ Ordered /\ Ordered'
  BY NextOrdered DEF Inv, Next
<1> DEFINE p == Preferred(Listed)
<1>2. p \in Runs /\ ~Valid(p) /\ dirs' = [dirs EXCEPT ![p].place = "quarantine"]
  BY <1>1, PreferredFacts DEF Quarantine
<1> HIDE DEF p
<1>3. \A i \in Runs : i # p => dirs'[i] = dirs[i]
  BY <1>1, <1>2 DEF TypeOK
<1>4. p \notin Listed' /\ p \notin Usable
  BY <1>1, <1>2 DEF Listed, Usable, TypeOK, Dirs
<1>5. stage # "rename" /\ stage' # "rename" /\ current' = current
  BY DEF Quarantine, Restoring
<1>6. Usable' = Usable
  BY <1>3, <1>4, <1>5 DEF Usable, Listed, Valid
<1> QED BY <1>1, <1>3, <1>4, <1>5, <1>6, SameRestorable DEF Usable, Listed

LEMMA CandidateKeeps ==
  ASSUME ClockForward, Inv, SaveBegins \/ Seal \/ SaveFails
  PROVE  Restorable' = Restorable
<1>1. TypeOK /\ SaveInv /\ Ordered /\ Ordered'
  BY NextOrdered DEF Inv, Next
<1>2. runs \in Runs /\ runs' = runs /\ current' = current
  BY <1>1 DEF SaveBegins, Seal, SaveFails, Saving, SaveInv
<1>3. \A i \in Runs : i # runs => dirs'[i] = dirs[i]
  BY <1>1 DEF SaveBegins, Seal, SaveFails, TypeOK
<1>4. runs \notin Usable
  BY <1>1 DEF SaveBegins, Seal, SaveFails, SaveInv, Usable, Listed
<1>5. runs \notin Usable'
  <2>1. CASE SaveBegins
    BY <1>1, <1>2, <2>1 DEF SaveBegins, NoDir, Usable, Valid, TypeOK
  <2>2. CASE Seal
    BY <1>2, <2>2 DEF Seal, Usable
  <2>3. CASE SaveFails
    BY <1>1, <1>2, <2>3 DEF SaveFails, Usable, Listed, TypeOK, Dirs
  <2> QED BY <2>1, <2>2, <2>3
<1>6. Usable' = Usable
  BY <1>2, <1>3, <1>4, <1>5 DEF Usable, Listed, Valid
<1> QED BY <1>1, <1>2, <1>3, <1>4, <1>6, SameRestorable DEF Usable, Listed

LEMMA PruneKeeps ==
  ASSUME ClockForward, Inv, Prune
  PROVE  Restorable' = Restorable
<1>1. dirs'[runs] = dirs[runs] /\ runs \in Runs /\ runs # 0
  BY PruneSpares, RunFacts
<1>2. current = runs /\ current' = runs /\ dirs[runs] = Made("snapshots")
  BY DEF Inv, SaveInv, Prune
<1>3. runs \in Usable /\ runs \in Usable'
  BY <1>1, <1>2 DEF Prune, Saving, Usable, Listed, Valid, Made
<1> QED BY <1>1, <1>2, <1>3 DEF Restorable, Preferred

LEMMA PointSaves ==
  ASSUME ClockForward, Inv, Point
  PROVE  Restorable' = work
<1>1. runs \in Runs /\ runs # 0 /\ dirs[runs] = Made("snapshots")
  BY RunFacts DEF Inv, SaveInv, Point
<1>2. runs \in Usable'
  BY <1>1 DEF Point, Saving, Usable, Listed, Valid, Made
<1> QED BY <1>1, <1>2 DEF Point, Restorable, Preferred, Made

LEMMA CutOff ==
  ASSUME ClockForward, Inv, stage = "rename", Rename \/ SaveStops \/ Crash
  PROVE  Restorable' \in {Restorable, work}
<1>1. TypeOK /\ Ordered /\ Ordered'
  BY NextOrdered DEF Inv, Next
<1>2. runs \in Runs /\ dirs[runs] = Made("tmp") /\ runs' = runs /\ current' = current
  BY DEF Inv, SaveInv, Rename, SaveStops, Crash, Saving
<1>3. \A i \in Runs : i # runs => dirs'[i] = dirs[i]
  BY <1>1 DEF Rename, SaveStops, Crash, TypeOK
<1>4. dirs'[runs].content = work /\ dirs'[runs].state = "sealed"
      /\ dirs'[runs].place \in {"tmp", "snapshots"}
  BY <1>1, <1>2 DEF Rename, SaveStops, Crash, TypeOK, Made
<1>5. stage' # "rename"
  BY DEF Rename, SaveStops, Crash
<1>6. runs \notin Usable
  BY DEF Usable
<1>7. Usable' = Usable \cup {runs}
  BY <1>2, <1>3, <1>4, <1>5 DEF Usable, Listed, Valid
<1> QED BY <1>1, <1>2, <1>3, <1>4, <1>6, <1>7, OneMore DEF Usable, Listed

----------------------------------------------------------------------------
LEMMA ChooseFirst ==
  ASSUME ClockForward, Inv, Choose
  PROVE  Restorable = dirs[Preferred(Listed)].content /\ Preferred(Listed) \in Usable
<1>1. Ordered
  BY FirstFacts DEF Inv
<1>2. Preferred(Listed) \in Listed
  BY <1>1, PreferredFacts DEF Choose, Inv
<1>3. Preferred(Listed) \in Usable
  BY <1>2 DEF Choose, Restoring, Usable
<1>4. Preferred(Usable) = Preferred(Listed)
  <2>1. CASE current \in Listed
    BY <1>3, <2>1 DEF Preferred
  <2>2. CASE current \notin Listed
    <3>1. current \notin Usable /\ Usable \subseteq Listed
      BY <2>2 DEF Usable
    <3>2. PICK f \in Usable : f = First(Listed) /\ f = Preferred(Listed)
      BY <1>3, <2>2 DEF Preferred
    <3>3. \A j \in Usable \ {f} : Before(f, j)
      BY <1>1, <3>1, <3>2 DEF Ordered
    <3>4. f = First(Usable)
      BY <1>1, <3>1, <3>3 DEF Ordered
    <3> QED BY <3>1, <3>2, <3>4 DEF Preferred
  <2> QED BY <2>1, <2>2
<1> QED BY <1>3, <1>4 DEF Restorable, Choose

LEMMA CopyStep ==
  ASSUME Inv, TypeOK', Copy
  PROVE  RestoreInv'
<1> USE DirFacts
<1>1. /\ copied \in 0..2 /\ from \in Runs /\ Valid(from) /\ dirs[from].content = floor
      /\ \A k \in 1..copied : work[CopyOrder[k]] = floor[CopyOrder[k]]
      /\ floor \in Contents /\ work \in Contents
  BY DEF Copy, Inv, TypeOK, RestoreInv
<1>2. PICK n \in 1..3 : n = copied + 1 /\ copied' = n
  BY <1>1 DEF Copy
<1>3. work' = [work EXCEPT ![CopyOrder[n]] = floor[CopyOrder[n]]]
  BY <1>1, <1>2 DEF Copy
<1>4. \A k \in 1..n : work'[CopyOrder[k]] = floor[CopyOrder[k]]
  BY <1>1, <1>2, <1>3 DEF Contents
<1>5. dirs' = dirs /\ floor' = floor /\ from' = from
  BY DEF Copy
<1>6. CASE n = 3
  <2>1. \A f \in Files : floor[f] \subseteq work'[f]
    BY <1>4, <1>6
  <2> QED BY <1>2, <1>5, <1>6, <2>1 DEF Copy, RestoreInv
<1>7. CASE n # 3
  <2>1. stage' = stage /\ restored' = restored /\ n < 3
    BY <1>2, <1>7 DEF Copy
  <2>2. restored => \A f \in Files : floor[f] \subseteq work'[f]
    BY <1>1, <1>3 DEF Inv, RestoreInv, Contents
  <2>3. Valid(from)'
    BY <1>1, <1>5 DEF Valid
  <2>4. dirs'[from'].content = floor'
    BY <1>1, <1>5
  <2> QED BY <1>1, <1>2, <1>4, <1>5, <2>1, <2>2, <2>3, <2>4 DEF Copy, RestoreInv
<1> QED BY <1>2, <1>6, <1>7

LEMMA RestoreStep ==
  ASSUME ClockForward, Inv, [Next]_vars
  PROVE  RestoreInv'
<1>1. TypeOK /\ SaveInv /\ RestoreInv
  BY DEF Inv
<1>2. CASE UNCHANGED vars
  <2>1. Restorable' = Restorable
    BY <1>2 DEF vars, job, Restorable, Preferred, Usable, Listed, Valid, First, Before
  <2> QED BY <1>1, <1>2, <2>1 DEF vars, job, RestoreInv, Valid
<1>3. CASE StartRun
  <2>1. Restorable' = Restorable
    BY <1>3, Untouched DEF StartRun
  <2> QED BY <1>3, <2>1 DEF StartRun, RestoreInv
<1>4. CASE SetUp
  <2>1. Restorable' = Restorable
    BY <1>4, Untouched DEF SetUp
  <2> QED BY <1>1, <1>4, <2>1 DEF SetUp, RestoreInv
<1>5. CASE RestoreFresh
  <2>1. Restorable = Empty
    BY <1>5 DEF RestoreFresh, Restorable, Usable
  <2>2. \A f \in Files : floor[f] \subseteq work[f]
    BY <1>1, <1>5, <2>1 DEF RestoreFresh, Restoring, RestoreInv, Empty
  <2> QED BY <1>1, <1>5, <2>2 DEF RestoreFresh, Restoring, RestoreInv
<1>6. CASE Quarantine
  BY <1>1, <1>6, QuarantineKeeps DEF Quarantine, Restoring, RestoreInv
<1>7. CASE Choose
  <2>1. PICK p \in Usable : p = Preferred(Listed) /\ Restorable = dirs[p].content
    BY <1>7, ChooseFirst
  <2>2. from' = p /\ dirs' = dirs /\ floor' = floor /\ stage' = "copy" /\ copied' = 0
    BY <1>1, <1>7, <2>1 DEF Choose, Restoring, RestoreInv
  <2>3. p \in Runs /\ Valid(p) /\ dirs[p].content = floor
    BY <1>1, <1>7, <2>1 DEF Usable, Listed, Choose, Restoring, RestoreInv
  <2>4. Valid(from)'
    BY <2>2, <2>3 DEF Valid
  <2>5. restored' => \A f \in Files : floor'[f] \subseteq work'[f]
    BY <1>1, <1>7 DEF Choose, Restoring, RestoreInv
  <2> QED BY <2>2, <2>3, <2>4, <2>5 DEF RestoreInv
<1>8. CASE Copy
  BY <1>8, CopyStep, TypeStep
<1>9. CASE RestoreFails
  BY <1>1, <1>9 DEF RestoreFails, RestoreInv
<1>10. CASE \E f \in Files : Update(f)
  <2>1. PICK f \in Files : Update(f)
    BY <1>10
  <2>2. \A g \in Files : work[g] \subseteq work'[g]
    BY <1>1, <2>1 DEF Update, TypeOK, Contents
  <2> QED BY <1>1, <2>1, <2>2 DEF Update, RestoreInv
<1>11. CASE SaveBegins \/ Seal \/ Rename \/ Point \/ Prune \/ SaveFails \/ SaveStops
  <2>1. /\ stage' \notin {"setup", "restore", "copy"}
        /\ UNCHANGED <<work, restored, floor>>
    BY <1>11 DEF SaveBegins, Seal, Rename, Point, Prune, SaveFails, SaveStops, Saving
  <2> QED BY <1>1, <2>1 DEF RestoreInv
<1>12. CASE Gate \/ Crash
  BY <1>1, <1>12 DEF Gate, Crash, RestoreInv
<1>13. CASE \E i \in Runs : Damage(i)
  BY <1>1, <1>13 DEF Damage, job, RestoreInv
<1> QED
  BY <1>2, <1>3, <1>4, <1>5, <1>6, <1>7, <1>8, <1>9, <1>10, <1>11, <1>12, <1>13 DEF Next

----------------------------------------------------------------------------
LEMMA InitInv == Init => Inv
<1> USE DirFacts, RunFacts
<1> SUFFICES ASSUME Init PROVE Inv
  OBVIOUS
<1>1. TypeOK
  <2>1. dirs \in [Runs -> Dirs] /\ current \in Runs \cup {0} /\ damages \in 0..MaxDamages
    BY DEF Init
  <2>2. runs \in 0..MaxRuns /\ stage \in Stages
    BY DEF Init, Stages
  <2>3. work \in Contents /\ floor \in Contents
    BY DEF Init
  <2>4. torn = {} /\ from = 0 /\ copied = 0
    BY DEF Init
  <2>5. restored \in BOOLEAN /\ saved \in BOOLEAN
    BY DEF Init
  <2> QED BY <2>1, <2>2, <2>3, <2>4, <2>5 DEF TypeOK
<1>2. Shape /\ SaveInv
  BY DEF Init, Shape, SaveInv, Valid, NoDir
<1>3. RestoreInv
  BY DEF Init, RestoreInv
<1> QED BY <1>1, <1>2, <1>3 DEF Inv

LEMMA Invariance == ASSUME ClockForward PROVE Spec => []Inv
<1>1. Inv /\ [Next]_vars => Inv'
  BY TypeStep, SaveStep, RestoreStep DEF Inv
<1> QED BY <1>1, InitInv, PTL DEF Spec

(* Every variable keeps its type; what a restore copies, above all, was     *)
(* completed (restore, save).                                               *)
THEOREM TypeCorrect == ASSUME ClockForward PROVE Spec => []TypeOK
<1>1. Inv => TypeOK
  BY DEF Inv
<1> QED BY <1>1, Invariance, PTL

(* A run whose gate lets it pass has built on everything that was there at  *)
(* its start, and what it made is what the next run restores.               *)
THEOREM GreenRunsKeep == ASSUME ClockForward PROVE Spec => GreenKeeps
<1>1. Inv /\ [Next]_vars =>
        [Gate /\ GateOk => /\ current = runs /\ dirs[runs].content = work
                           /\ \A f \in Files : floor[f] \subseteq work[f]]_vars
  BY DEF Inv, SaveInv, RestoreInv, Gate, GateOk, Made
<1> QED BY <1>1, Invariance, PTL DEF Spec, GreenKeeps

LEMMA PromiseStep ==
  ASSUME ClockForward, Inv, [Next]_vars
  PROVE  [Promise!Next]_<<Restorable, work, damages>>
<1> DEFINE Done == [Promise!Next]_<<Restorable, work, damages>>
<1>1. Restorable' = Restorable /\ damages' = damages => Done
  BY TypeStep DEF Promise!Next, Promise!Work, TypeOK
<1>2. Restorable' = work /\ work' = work /\ damages' = damages => Done
  BY DEF Promise!Next, Promise!Save
<1>3. CASE UNCHANGED vars
  <2>1. Restorable' = Restorable
    BY <1>3 DEF vars, job, Restorable, Preferred, Usable, Listed, Valid, First, Before
  <2> QED BY <1>1, <1>3, <2>1 DEF vars
<1>4. CASE StartRun \/ SetUp \/ RestoreFresh \/ Choose \/ Copy \/ RestoreFails \/ Gate
           \/ \E f \in Files : Update(f)
  <2>1. /\ dirs' = dirs /\ current' = current /\ damages' = damages
        /\ stage # "rename" /\ stage' # "rename"
    BY <1>4 DEF StartRun, SetUp, RestoreFresh, Choose, Copy, RestoreFails, Gate, Update, Restoring
  <2> QED BY <1>1, <2>1, Untouched
<1>5. CASE Quarantine
  BY <1>1, <1>5, QuarantineKeeps DEF Quarantine, Restoring
<1>6. CASE SaveBegins \/ Seal \/ SaveFails
  BY <1>1, <1>6, CandidateKeeps DEF SaveBegins, Seal, SaveFails, Saving
<1>7. CASE Prune
  BY <1>1, <1>7, PruneKeeps DEF Prune, Saving
<1>8. CASE Point
  BY <1>2, <1>8, PointSaves DEF Point, Saving
<1>9. CASE Rename \/ SaveStops \/ Crash
  <2>1. work' = work /\ damages' = damages
    BY <1>9 DEF Rename, SaveStops, Crash, Saving
  <2>2. CASE stage = "rename"
    BY <1>1, <1>2, <1>9, <2>1, <2>2, CutOff
  <2>3. CASE stage # "rename"
    <3>1. dirs' = dirs /\ current' = current /\ stage' # "rename"
      BY <1>9, <2>3 DEF Rename, SaveStops, Crash
    <3> QED BY <1>1, <2>1, <2>3, <3>1, Untouched
  <2> QED BY <2>2, <2>3
<1>10. CASE \E i \in Runs : Damage(i)
  <2>1. damages' = damages + 1 /\ work' = work
    BY <1>10 DEF Damage, job
  <2>2. Restorable' \in Contents
    <3>1. (TypeOK /\ Shape /\ Ordered => Restorable \in Contents)'
      BY RestorableLater
    <3> QED BY <3>1, TypeStep, NextOrdered
  <2> QED BY <2>1, <2>2 DEF Promise!Next, Promise!Damage
<1> QED
  BY <1>3, <1>4, <1>5, <1>6, <1>7, <1>8, <1>9, <1>10 DEF Next

(* Wherever a save is cut off, the state the next run starts from is        *)
(* replaced by a whole workspace in one step or not at all.                 *)
THEOREM SaveIsAtomic == ASSUME ClockForward PROVE Spec => Implements
<1>1. Init => Promise!Init
  BY DirFacts DEF Init, Promise!Init, Restorable
<1>2. Inv /\ [Next]_vars => [Promise!Next]_<<Restorable, work, damages>>
  BY PromiseStep
<1> QED BY <1>1, <1>2, Invariance, PTL DEF Spec, Implements, Promise!Spec
=============================================================================
