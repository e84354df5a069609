------------------------ MODULE NotifyOutboxProofs ------------------------
(* Theorems about NotifyOutbox, for every number of offers, notices,        *)
(* channels, attempts and crashes.                                          *)
EXTENDS NotifyOutbox, SequenceTheorems, TLAPS

(* An offer's record is about that offer, any other is about a notice.      *)
Labelled(records) ==
  \A id \in Ids : records[id].status # "none" =>
    IF id \in Offers \X Channels THEN records[id].about = id[1]
                               ELSE records[id].about \in Notices

LabelInv == Labelled(outbox) /\ Labelled(saved.outbox)

(* What is left to replay is PENDING, and is not the event being sent;       *)
(* between runs nothing is sent.                                            *)
DueInv ==
  /\ stage = "off" => job = Idle
  /\ stage # "replay" => due = {}
  /\ \A id \in due : outbox[id].status = "PENDING" /\ job.id # id

(* The offer whose channels are being gone through was taken from the list. *)
TodoInv == todo # {} => stage = "deals" /\ pos > 1 /\ pos - 1 \in DOMAIN alerts

(* The event being sent is PENDING on file until its outcome is.             *)
JobInv ==
  job.step \in {"send", "record"} =>
    outbox[job.id].status = "PENDING" /\ outbox[job.id].about = job.about

TypedInv == TypeOK /\ LabelInv /\ DueInv /\ TodoInv /\ JobInv

(* A delivery within the cooldown that left a record is on file as SENT, and *)
(* its record is not older than the delivery.                               *)
KeptInv ==
  \A id \in Offers \X Channels :
    told[id] < Cooldown /\ id \notin unsure =>
      outbox[id].status = "SENT" /\ outbox[id].age <= told[id]
Inv == TypedInv /\ KeptInv

LEMMA AgeFacts ==
  /\ Forever \in Nat /\ Never \in Nat /\ Never \notin Ages
  /\ Cooldown <= Forever /\ 0 \in Ages
  /\ \A a \in Ages : Older(a) \in Ages /\ a <= Older(a)
  /\ \A a, b \in Ages : a <= b => Older(a) <= Older(b)
BY NotifyAssumption DEF Forever, Never, Ages, Older

LEMMA IdFacts ==
  /\ \A id \in Ids : id[2] \in Channels
  /\ \A n \in Notices : IdOf(n) \in Ids /\ IdOf(n) \notin Offers \X Channels
  /\ Offers \X Channels \subseteq Ids
  /\ Idle.id \notin Ids
BY NotifyAssumption DEF Ids, IdOf, Idle, Job, Subjects

LEMMA InitTyped == Init => TypedInv
<1> USE NotifyAssumption, AgeFacts
<1>1. SUFFICES ASSUME Init PROVE TypedInv
  OBVIOUS
<1>2. NoRecord \in Records
  BY DEF NoRecord, Records
<1>3. outbox \in [Ids -> Records] /\ saved = [outbox |-> outbox, audit |-> {}] /\ audit = {}
  BY <1>1, <1>2 DEF Init
<1>4. saved \in [outbox : [Ids -> Records], audit : SUBSET Ids]
  BY <1>3
<1>5. told \in [Subjects \X Channels -> Ages \cup {Never}]
  BY <1>1 DEF Init
<1>6. /\ stage = "off" /\ configured = {} /\ notices = <<>> /\ alerts = <<>>
      /\ due = {} /\ silenced = {} /\ pos = 1 /\ todo = {} /\ job = Idle
      /\ unsure = {} /\ crashes = 0
  BY <1>1 DEF Init
<1>7. <<>> \in Seq(Notices) /\ <<>> \in Seq(Alerts)
  OBVIOUS
<1>8. TypeOK
  BY <1>3, <1>4, <1>5, <1>6, <1>7 DEF TypeOK, Jobs
<1>9. \A id \in Ids : outbox[id].status = "none"
  BY <1>1 DEF Init, NoRecord
<1>10. QED
  BY <1>3, <1>6, <1>8, <1>9
     DEF TypedInv, LabelInv, Labelled, DueInv, TodoInv, JobInv, Idle, Job

(* A record that is put on file is one, and labelled.                       *)
LEMMA PutTyped ==
  ASSUME TypeOK, NEW id \in Ids, NEW status \in {"PENDING", "SENT", "DEAD_LETTER"},
         NEW about \in Subjects, Put(id, status, about)
  PROVE  /\ outbox' \in [Ids -> Records]
         /\ outbox'[id] = [status |-> status, age |-> 0, about |-> about]
         /\ \A x \in Ids \ {id} : outbox'[x] = outbox[x]
<1>1. [status |-> status, age |-> 0, about |-> about] \in Records
  BY AgeFacts DEF Records
<1>2. QED
  BY <1>1 DEF Put, TypeOK

LEMMA AgedTyped ==
  ASSUME NEW records \in [Ids -> Records]
  PROVE  /\ Aged(records) \in [Ids -> Records]
         /\ \A id \in Ids : /\ Aged(records)[id].status = records[id].status
                            /\ Aged(records)[id].about = records[id].about
                            /\ Aged(records)[id].status # "none" =>
                                 Aged(records)[id].age = Older(records[id].age)
<1>1. ASSUME NEW id \in Ids
      PROVE  [records[id] EXCEPT !.age = IF records[id].status = "none" THEN 0 ELSE Older(@)]
               \in Records
  BY AgeFacts DEF Records
<1>2. QED
  BY <1>1 DEF Aged, Records

LEMMA NewJob ==
  ASSUME NEW id \in Ids, NEW about \in Subjects, NEW step \in {"send", "record"},
         NEW tries \in 0..MaxAttempts
  PROVE  Job(id, about, step, tries) \in Jobs
BY DEF Job, Jobs

LEMMA UpToSeq == ASSUME NEW n \in Nat, NEW S PROVE UpTo(n, S) \subseteq Seq(S)
<1>1. \A m \in 0..n : m \in Nat
  OBVIOUS
<1>2. QED
  BY <1>1, SeqDef DEF UpTo

(* What is known of the event being sent.                                   *)
LEMMA JobFacts ==
  ASSUME TypedInv
  PROVE  /\ job # Idle <=> job.step # "none"
         /\ job.step # "none" =>
              /\ job \in [id : Ids, about : Subjects, step : {"send", "record", "audit"},
                          tries : 0..MaxAttempts, ok : BOOLEAN]
              /\ job.id[2] \in Channels
         /\ job.step \in {"send", "record"} =>
              IF job.id \in Offers \X Channels THEN job.about = job.id[1]
                                               ELSE job.about \in Notices
<1>1. job # Idle <=> job.step # "none"
  BY DEF TypedInv, TypeOK, Jobs, Idle, Job
<1>2. job.step # "none" => job \in [id : Ids, about : Subjects,
        step : {"send", "record", "audit"}, tries : 0..MaxAttempts, ok : BOOLEAN]
  BY DEF TypedInv, TypeOK, Jobs, Idle, Job
<1>3. job.step \in {"send", "record"} =>
        IF job.id \in Offers \X Channels THEN job.about = job.id[1]
                                         ELSE job.about \in Notices
  BY <1>2 DEF TypedInv, LabelInv, Labelled, JobInv
<1>4. QED
  BY <1>1, <1>2, <1>3, IdFacts

(* What every outcome of a send does to the job.                            *)
LEMMA SendJob ==
  ASSUME TypedInv, job.step = "send",
         Retry \/ (\E ok \in BOOLEAN : job' = Finished(ok))
  PROVE  /\ job' \in Jobs /\ job'.id = job.id /\ job'.about = job.about
         /\ job'.step \in {"send", "record"}
<1>1. job \in [id : Ids, about : Subjects, step : {"send", "record", "audit"},
               tries : 0..MaxAttempts, ok : BOOLEAN]
  BY JobFacts
<1>2. ASSUME NEW ok \in BOOLEAN, job' = Finished(ok)
      PROVE  /\ job' \in Jobs /\ job'.id = job.id /\ job'.about = job.about
             /\ job'.step \in {"send", "record"}
  BY <1>1, <1>2 DEF Finished, Jobs
<1>3. CASE job.tries < MaxAttempts /\ job' = [job EXCEPT !.tries = @ + 1]
  <2>1. job.tries + 1 \in 0..MaxAttempts
    BY <1>1, <1>3, NotifyAssumption
  <2>2. QED
    BY <1>1, <1>3, <2>1 DEF Jobs
<1>4. QED
  BY <1>2, <1>3 DEF Retry, AttemptsLeft

----------------------------------------------------------------------------
(* TypedInv is inductive: a step of the schedule, of the main loop, of the   *)
(* sends and of the bookkeeping, each in its lemma.                         *)
LEMMA LoopTyped ==
  ASSUME TypedInv,
         \/ StartRun \/ (\E id \in due : Replay(id)) \/ ReplayEnds
         \/ SkipNotice \/ QueueNotice \/ HealthEnds
         \/ TakeAlert \/ (\E c \in todo : SkipChannel(c) \/ QueueDeal(c))
  PROVE  TypedInv'
<1> USE AgeFacts, IdFacts, JobFacts
<1>1. TypeOK /\ LabelInv /\ DueInv /\ TodoInv /\ JobInv
  BY DEF TypedInv
<1>2. CASE StartRun
  <2>1. notices' \in Seq(Notices) /\ alerts' \in Seq(Alerts)
    BY <1>2, UpToSeq, NotifyAssumption DEF StartRun
  <2>2. configured' \subseteq Channels /\ due' \subseteq Ids
    BY <1>2 DEF StartRun, Stale
  <2>3. TypeOK'
    BY <1>1, <1>2, <2>1, <2>2 DEF StartRun, TypeOK, files, history
  <2>4. DueInv'
    BY <1>1, <1>2 DEF StartRun, Stale, DueInv, files
  <2>5. LabelInv' /\ TodoInv' /\ JobInv'
    BY <1>1, <1>2 DEF StartRun, files, LabelInv, Labelled, DueInv, TodoInv, JobInv
  <2>6. QED
    BY <2>3, <2>4, <2>5 DEF TypedInv
<1>3. ASSUME NEW id \in due, Replay(id) PROVE TypedInv'
  <2>1. id \in Ids /\ outbox[id].status = "PENDING"
    BY <1>1 DEF DueInv, TypeOK
  <2>2. outbox[id].about \in Subjects
    BY <1>1, <2>1 DEF LabelInv, Labelled, Subjects
  <2>3. /\ job' \in Jobs /\ job'.id = id /\ job'.about = outbox[id].about
        /\ job'.step \in {"send", "record"}
    BY <1>3, <2>1, <2>2, NewJob, NotifyAssumption DEF Replay, Job
  <2>4. TypeOK'
    BY <1>1, <1>3, <2>3 DEF Replay, TypeOK, files, input, history
  <2>5. LabelInv' /\ DueInv' /\ TodoInv' /\ JobInv'
    BY <1>1, <1>3, <2>1, <2>3
       DEF Replay, files, input, LabelInv, Labelled, DueInv, TodoInv, JobInv
  <2>6. QED
    BY <2>4, <2>5 DEF TypedInv
<1>4. CASE ReplayEnds \/ SkipNotice \/ HealthEnds
  <2>1. TypeOK'
    BY <1>1, <1>4 DEF ReplayEnds, SkipNotice, HealthEnds, Free, TypeOK, files, input, history
  <2>2. LabelInv' /\ DueInv' /\ TodoInv' /\ JobInv'
    BY <1>1, <1>4 DEF ReplayEnds, SkipNotice, HealthEnds, Free, files, input,
       LabelInv, Labelled, DueInv, TodoInv, JobInv
  <2>3. QED
    BY <2>1, <2>2 DEF TypedInv
<1>5. CASE QueueNotice
  <2>1. Notice \in Notices /\ IdOf(Notice) \in Ids /\ Notice \in Subjects
    BY <1>1, <1>5 DEF QueueNotice, Notice, TypeOK, Subjects
  <2>2. /\ outbox' \in [Ids -> Records]
        /\ outbox'[IdOf(Notice)] = [status |-> "PENDING", age |-> 0, about |-> Notice]
        /\ \A x \in Ids \ {IdOf(Notice)} : outbox'[x] = outbox[x]
    BY <1>1, <1>5, <2>1, PutTyped DEF QueueNotice
  <2>3. /\ job' \in Jobs /\ job'.id = IdOf(Notice) /\ job'.about = Notice
        /\ job'.step = "send"
    BY <1>5, <2>1, NewJob, NotifyAssumption DEF QueueNotice, Job
  <2>4. TypeOK'
    BY <1>1, <1>5, <2>2, <2>3 DEF QueueNotice, TypeOK, files, input, history
  <2>5. LabelInv' /\ DueInv' /\ TodoInv' /\ JobInv'
    BY <1>1, <1>5, <2>1, <2>2, <2>3
       DEF QueueNotice, Free, input, LabelInv, Labelled, DueInv, TodoInv, JobInv
  <2>6. QED
    BY <2>4, <2>5 DEF TypedInv
<1>6. CASE TakeAlert
  <2>1. alerts[pos] \in Alerts
    BY <1>1, <1>6 DEF TakeAlert, TypeOK
  <2>2. Route(alerts[pos].offer) \subseteq Channels
    <3>1. \A i \in DOMAIN alerts : alerts[i] \in Alerts
      BY <1>1 DEF TypeOK
    <3>2. \A i \in DOMAIN alerts : alerts[i].channels \subseteq Channels
      BY <3>1 DEF Alerts
    <3>3. QED
      BY <3>2 DEF Route
  <2>3. TypeOK'
    BY <1>1, <1>6, <2>2 DEF TakeAlert, TypeOK, files, input, history
  <2>4. LabelInv' /\ DueInv' /\ TodoInv' /\ JobInv'
    BY <1>1, <1>6 DEF TakeAlert, Free, files, input, LabelInv, Labelled, DueInv, TodoInv,
       JobInv, TypeOK
  <2>5. QED
    BY <2>3, <2>4 DEF TypedInv
<1>7. ASSUME NEW c \in todo, SkipChannel(c) PROVE TypedInv'
  <2>1. TypeOK'
    BY <1>1, <1>7 DEF SkipChannel, TypeOK, files, input, history
  <2>2. LabelInv' /\ DueInv' /\ TodoInv' /\ JobInv'
    BY <1>1, <1>7 DEF SkipChannel, files, input, LabelInv, Labelled, DueInv, TodoInv, JobInv
  <2>3. QED
    BY <2>1, <2>2 DEF TypedInv
<1>8. ASSUME NEW c \in todo, QueueDeal(c) PROVE TypedInv'
  <2>1. Deal(c) \in Offers \X Channels /\ Deal(c) \in Ids /\ Deal(c)[1] \in Subjects
    <3>1. pos - 1 \in DOMAIN alerts /\ c \in Channels
      BY <1>1 DEF TodoInv, TypeOK
    <3>2. alerts[pos - 1] \in Alerts
      BY <1>1, <3>1 DEF TypeOK
    <3>3. QED
      BY <3>1, <3>2 DEF Deal, Alerts, Subjects
  <2>2. /\ outbox' \in [Ids -> Records]
        /\ outbox'[Deal(c)] = [status |-> "PENDING", age |-> 0, about |-> Deal(c)[1]]
        /\ \A x \in Ids \ {Deal(c)} : outbox'[x] = outbox[x]
    BY <1>1, <1>8, <2>1, PutTyped DEF QueueDeal
  <2>3. /\ job' \in Jobs /\ job'.id = Deal(c) /\ job'.about = Deal(c)[1]
        /\ job'.step = "send"
    BY <1>8, <2>1, NewJob, NotifyAssumption DEF QueueDeal, Job
  <2>4. TypeOK'
    BY <1>1, <1>8, <2>2, <2>3 DEF QueueDeal, TypeOK, files, input, history
  <2>5. LabelInv' /\ DueInv' /\ TodoInv' /\ JobInv'
    BY <1>1, <1>8, <2>1, <2>2, <2>3
       DEF QueueDeal, Free, input, LabelInv, Labelled, DueInv, TodoInv, JobInv
  <2>6. QED
    BY <2>4, <2>5 DEF TypedInv
<1>9. QED
  BY <1>2, <1>3, <1>4, <1>5, <1>6, <1>7, <1>8

(* Where a delivery is noted: the offer's own id, or a notice's.             *)
LEMMA ReachedAt ==
  ASSUME TypedInv, job.step = "send"
  PROVE  /\ <<job.about, job.id[2]>> \in Subjects \X Channels
         /\ job.about \in Offers => job.id = <<job.about, job.id[2]>>
         /\ \A id \in Offers \X Channels :
              id = <<job.about, job.id[2]>> => job.id = id
<1>1. job.about \in Subjects /\ job.id[2] \in Channels
  BY JobFacts
<1>2. ASSUME job.about \in Offers PROVE job.id = <<job.about, job.id[2]>>
  <2>1. job.id \in Offers \X Channels /\ job.about = job.id[1]
    BY <1>2, JobFacts, NotifyAssumption
  <2>2. QED
    BY <2>1
<1>3. QED
  BY <1>1, <1>2

LEMMA SendTyped ==
  ASSUME TypedInv, Delivered \/ AnswerLost \/ SendFails \/ Refused
  PROVE  TypedInv'
<1>1. TypeOK /\ LabelInv /\ DueInv /\ TodoInv /\ JobInv
  BY DEF TypedInv
<1>2. job.step = "send" /\ job.id \in Ids
  BY JobFacts DEF Delivered, AnswerLost, SendFails, Refused
<1>3. /\ job' \in Jobs /\ job'.id = job.id /\ job'.about = job.about
      /\ job'.step \in {"send", "record"}
  BY SendJob, <1>2 DEF Delivered, AnswerLost, SendFails, Refused
<1>4. told' \in [Subjects \X Channels -> Ages \cup {Never}] /\ unsure' \subseteq Ids
  <2>1. CASE Delivered \/ AnswerLost
    <3>1. Reached
      BY <2>1 DEF Delivered, AnswerLost
    <3>2. <<job.about, job.id[2]>> \in Subjects \X Channels
      BY <1>2, ReachedAt
    <3>3. 0 \in Ages \cup {Never} /\ job.id \in Ids
      BY <1>2, AgeFacts
    <3> DEFINE i == <<job.about, job.id[2]>>
               I == Subjects \X Channels
               A == Ages \cup {Never}
    <3>4. told \in [I -> A] /\ unsure \subseteq Ids
      BY <1>1 DEF TypeOK
    <3>5. told' = [told EXCEPT ![i] = 0] /\ unsure' = unsure \cup {job.id} /\ i \in I /\ 0 \in A
      BY <3>1, <3>2, <3>3 DEF Reached
    <3> HIDE DEF i, I, A
    <3>6. told' \in [I -> A] /\ unsure' \subseteq Ids
      BY <3>3, <3>4, <3>5
    <3>7. QED
      BY <3>6 DEF I, A
  <2>2. CASE SendFails \/ Refused
    BY <1>1, <2>2 DEF SendFails, Refused, TypeOK, history
  <2>3. QED
    BY <2>1, <2>2
<1>5. UNCHANGED <<files, saved, stage, input, run, crashes>>
  BY DEF Delivered, AnswerLost, SendFails, Refused
<1>6. TypeOK'
  BY <1>1, <1>3, <1>4, <1>5 DEF TypeOK, files, input, run
<1>7. job # Idle /\ stage # "off"
  BY <1>1, <1>2, JobFacts DEF DueInv
<1>8. LabelInv' /\ DueInv' /\ TodoInv' /\ JobInv'
  BY <1>1, <1>2, <1>3, <1>5, <1>7
     DEF LabelInv, Labelled, DueInv, TodoInv, JobInv, files, input, run
<1>9. QED
  BY <1>6, <1>8 DEF TypedInv

LEMMA BookTyped ==
  ASSUME TypedInv, Record \/ Audit
  PROVE  TypedInv'
<1>1. TypeOK /\ LabelInv /\ DueInv /\ TodoInv /\ JobInv
  BY DEF TypedInv
<1>2. /\ job \in [id : Ids, about : Subjects, step : {"send", "record", "audit"},
                  tries : 0..MaxAttempts, ok : BOOLEAN]
      /\ stage # "off"
  BY <1>1, JobFacts DEF Record, Audit, DueInv
<1>3. CASE Record
  <2>1. Outcome \in {"SENT", "DEAD_LETTER"} /\ Put(job.id, Outcome, job.about)
    BY <1>3 DEF Record, Outcome
  <2>2. /\ outbox' \in [Ids -> Records]
        /\ outbox'[job.id] = [status |-> Outcome, age |-> 0, about |-> job.about]
        /\ \A x \in Ids \ {job.id} : outbox'[x] = outbox[x]
    BY <1>1, <1>2, <2>1, PutTyped
  <2>3. job' \in Jobs /\ job'.id = job.id /\ job'.step = "audit"
    BY <1>2, <1>3 DEF Record, Jobs
  <2>4. unsure' \subseteq Ids
    BY <1>1, <1>2, <1>3 DEF Record, TypeOK
  <2>5. TypeOK'
    BY <1>1, <1>3, <2>2, <2>3, <2>4 DEF Record, TypeOK, input, run
  <2>6. IF job.id \in Offers \X Channels THEN job.about = job.id[1]
                                         ELSE job.about \in Notices
    BY <1>3, JobFacts DEF Record
  <2>7. LabelInv'
    BY <1>1, <1>3, <2>2, <2>6 DEF Record, LabelInv, Labelled
  <2>8. DueInv' /\ TodoInv' /\ JobInv'
    BY <1>1, <1>2, <1>3, <2>2, <2>3, JobFacts DEF Record, DueInv, TodoInv, JobInv, TypeOK,
       input, run
  <2>9. QED
    BY <2>5, <2>7, <2>8 DEF TypedInv
<1>4. CASE Audit
  <2>1. TypeOK'
    BY <1>1, <1>2, <1>4 DEF Audit, TypeOK, Jobs, input, run, history
  <2>2. job' = Idle /\ job'.step = "none" /\ job'.id \notin Ids
    BY <1>4, IdFacts DEF Audit, Idle, Job
  <2>3. LabelInv' /\ DueInv' /\ TodoInv' /\ JobInv'
    BY <1>1, <1>4, <2>2 DEF Audit, LabelInv, Labelled, DueInv, TodoInv, JobInv, TypeOK, input,
       run
  <2>4. QED
    BY <2>1, <2>3 DEF TypedInv
<1>5. QED
  BY <1>3, <1>4

LEMMA ScheduleTyped ==
  ASSUME TypedInv, EndRun \/ Crash \/ Tick
  PROVE  TypedInv'
<1>1. TypeOK /\ LabelInv /\ DueInv /\ TodoInv /\ JobInv
  BY DEF TypedInv
<1>2. CASE EndRun \/ Crash
  <2>1. Leave /\ crashes' \in 0..MaxCrashes
    BY <1>1, <1>2, NotifyAssumption DEF EndRun, Crash, TypeOK
  <2>2. /\ stage' = "off" /\ job' = Idle /\ configured' = {} /\ notices' = <<>>
        /\ alerts' = <<>> /\ due' = {} /\ silenced' = {} /\ pos' = 1 /\ todo' = {}
        /\ told' = told
    BY <2>1 DEF Leave
  <2>3. /\ outbox' \in [Ids -> Records] /\ audit' \subseteq Ids /\ unsure' \subseteq Ids
        /\ saved' \in [outbox : [Ids -> Records], audit : SUBSET Ids]
        /\ LabelInv'
    <3>1. CASE /\ saved' = [outbox |-> outbox, audit |-> audit]
               /\ UNCHANGED <<files, unsure>>
      BY <1>1, <3>1 DEF TypeOK, LabelInv, files
    <3>2. CASE /\ outbox' = saved.outbox /\ audit' = saved.audit
               /\ unsure' = unsure \cup {id \in Ids : outbox[id] # saved.outbox[id]}
               /\ UNCHANGED saved
      BY <1>1, <3>2 DEF TypeOK, LabelInv
    <3>3. QED
      BY <2>1, <3>1, <3>2 DEF Leave
  <2>4. <<>> \in Seq(Notices) /\ <<>> \in Seq(Alerts)
    OBVIOUS
  <2>5. stage' \in {"off", "replay", "health", "deals"} /\ pos' \in Nat \ {0} /\ job' \in Jobs
    BY <2>2 DEF Jobs
  <2>6. TypeOK'
    BY <1>1, <2>1, <2>2, <2>3, <2>4, <2>5 DEF TypeOK
  <2>7. DueInv' /\ TodoInv' /\ JobInv'
    BY <2>2 DEF DueInv, TodoInv, JobInv, Idle, Job
  <2>8. QED
    BY <2>3, <2>6, <2>7 DEF TypedInv
<1>3. CASE Tick
  <2>1. /\ outbox \in [Ids -> Records] /\ saved.outbox \in [Ids -> Records]
        /\ outbox' = Aged(outbox)
        /\ saved' = [saved EXCEPT !.outbox = Aged(saved.outbox)]
    BY <1>1, <1>3 DEF TypeOK, Tick
  <2>2. /\ Aged(outbox) \in [Ids -> Records] /\ Aged(saved.outbox) \in [Ids -> Records]
        /\ \A id \in Ids : /\ outbox'[id].status = outbox[id].status
                           /\ outbox'[id].about = outbox[id].about
                           /\ Aged(saved.outbox)[id].status = saved.outbox[id].status
                           /\ Aged(saved.outbox)[id].about = saved.outbox[id].about
    BY <2>1, AgedTyped
  <2>3. saved' \in [outbox : [Ids -> Records], audit : SUBSET Ids]
        /\ saved'.outbox = Aged(saved.outbox)
    BY <1>1, <2>1, <2>2 DEF TypeOK
  <2>4. told' \in [Subjects \X Channels -> Ages \cup {Never}]
    <3>1. \A x \in Subjects \X Channels : told[x] # Never => Older(told[x]) \in Ages
      BY <1>1, AgeFacts DEF TypeOK
    <3>2. QED
      BY <1>3, <3>1 DEF Tick
  <2>5. TypeOK'
    BY <1>1, <1>3, <2>1, <2>2, <2>3, <2>4 DEF Tick, TypeOK, input, run
  <2>6. LabelInv'
    BY <1>1, <2>1, <2>2, <2>3 DEF LabelInv, Labelled
  <2>7. DueInv' /\ TodoInv' /\ JobInv'
    BY <1>1, <1>3, <2>2, JobFacts DEF Tick, DueInv, TodoInv, JobInv, TypeOK, input, run
  <2>8. QED
    BY <2>5, <2>6, <2>7 DEF TypedInv
<1>4. QED
  BY <1>2, <1>3

LEMMA StepTyped == ASSUME TypedInv, [Next]_vars PROVE TypedInv'
<1>1. CASE UNCHANGED vars
  <2>1. UNCHANGED <<outbox, audit, saved, stage, configured, notices, alerts, due, silenced,
                    pos, todo, job, told, unsure, crashes>>
    BY <1>1 DEF vars, files, input, run, history
  <2>2. QED
    BY <2>1 DEF TypedInv, TypeOK, LabelInv, Labelled, DueInv, TodoInv, JobInv
<1>2. QED
  BY <1>1, LoopTyped, SendTyped, BookTyped, ScheduleTyped DEF Next, Work

----------------------------------------------------------------------------
LEMMA InitKept == Init => KeptInv
BY AgeFacts, NotifyAssumption DEF Init, KeptInv, Subjects, Never, Ages

(* The loop puts nothing over a SENT record that is still cooling down.      *)
LEMMA LoopKept ==
  ASSUME TypedInv, KeptInv,
         \/ StartRun \/ (\E id \in due : Replay(id)) \/ ReplayEnds
         \/ SkipNotice \/ QueueNotice \/ HealthEnds
         \/ TakeAlert \/ (\E c \in todo : SkipChannel(c) \/ QueueDeal(c))
  PROVE  KeptInv'
<1> USE AgeFacts, IdFacts
<1>1. TypeOK /\ TodoInv
  BY DEF TypedInv
<1>2. UNCHANGED <<told, unsure>>
  BY DEF StartRun, Replay, ReplayEnds, SkipNotice, QueueNotice, HealthEnds, TakeAlert,
     SkipChannel, QueueDeal, history
<1>3. CASE UNCHANGED outbox
  BY <1>2, <1>3 DEF KeptInv
<1>4. CASE QueueNotice
  <2>1. Notice \in Notices
    BY <1>1, <1>4 DEF QueueNotice, Notice, TypeOK
  <2>2. \A x \in Offers \X Channels : outbox'[x] = outbox[x]
    BY <1>1, <1>4, <2>1 DEF QueueNotice, Put, TypeOK
  <2>3. QED
    BY <1>2, <2>2 DEF KeptInv
<1>5. ASSUME NEW c \in todo, QueueDeal(c) PROVE KeptInv'
  <2>1. Deal(c) \in Offers \X Channels
    <3>1. pos - 1 \in DOMAIN alerts /\ c \in Channels
      BY <1>1 DEF TodoInv, TypeOK
    <3>2. alerts[pos - 1] \in Alerts
      BY <1>1, <3>1 DEF TypeOK
    <3>3. QED
      BY <3>1, <3>2 DEF Deal, Alerts
  <2>2. \A x \in (Offers \X Channels) \ {Deal(c)} : outbox'[x] = outbox[x]
    BY <1>1, <1>5 DEF QueueDeal, Put, TypeOK
  <2>3. ~ (told[Deal(c)] < Cooldown /\ Deal(c) \notin unsure)
    <3>1. /\ outbox[Deal(c)] \in Records
          /\ told[Deal(c)] \in Ages \cup {Never}
      BY <1>1, <2>1, IdFacts DEF TypeOK, Subjects
    <3>2. ~ (outbox[Deal(c)].status = "SENT" /\ outbox[Deal(c)].age < Cooldown)
      BY <1>5 DEF QueueDeal, CoolingDown
    <3>3. QED
      BY <2>1, <3>1, <3>2, NotifyAssumption DEF KeptInv, Records, Ages
  <2>4. QED
    BY <1>2, <2>2, <2>3 DEF KeptInv
<1>6. QED
  BY <1>3, <1>4, <1>5 DEF StartRun, Replay, ReplayEnds, SkipNotice, HealthEnds, TakeAlert,
     SkipChannel, files

LEMMA SendKept ==
  ASSUME TypedInv, KeptInv, Delivered \/ AnswerLost \/ SendFails \/ Refused
  PROVE  KeptInv'
<1>1. UNCHANGED outbox
  BY DEF Delivered, AnswerLost, SendFails, Refused, files
<1>2. CASE SendFails \/ Refused
  BY <1>1, <1>2 DEF SendFails, Refused, history, KeptInv
<1>3. CASE Delivered \/ AnswerLost
  <2>1. /\ told' = [told EXCEPT ![<<job.about, job.id[2]>>] = 0]
        /\ unsure' = unsure \cup {job.id} /\ job.step = "send"
    BY <1>3 DEF Delivered, AnswerLost, Reached
  <2>2. told \in [Subjects \X Channels -> Ages \cup {Never}]
    BY DEF TypedInv, TypeOK
  <2>3. \A id \in Offers \X Channels : id \notin unsure' => told'[id] = told[id]
    BY <2>1, <2>2, ReachedAt DEF Subjects
  <2>4. QED
    BY <1>1, <2>1, <2>3 DEF KeptInv
<1>4. QED
  BY <1>2, <1>3

(* A SENT record is as fresh as the delivery; a DEAD_LETTER one replaces a   *)
(* PENDING one, so there was no delivery to keep.                           *)
LEMMA BookKept ==
  ASSUME TypedInv, KeptInv, Record \/ Audit
  PROVE  KeptInv'
<1>1. TypeOK /\ JobInv
  BY DEF TypedInv
<1>2. CASE Audit
  BY <1>2 DEF Audit, history, KeptInv
<1>3. CASE Record
  <2>1. job.id \in Ids /\ outbox[job.id].status = "PENDING" /\ UNCHANGED told
    BY <1>1, <1>3, JobFacts DEF Record, JobInv
  <2>2. /\ outbox'[job.id] = [status |-> Outcome, age |-> 0, about |-> job.about]
        /\ \A x \in Ids \ {job.id} : outbox'[x] = outbox[x]
    BY <1>1, <1>3, <2>1 DEF Record, Put, TypeOK
  <2>3. \A x \in Ids \ {job.id} : x \notin unsure' => x \notin unsure
    BY <1>3 DEF Record
  <2>4. ASSUME job.id \in Offers \X Channels,
               told[job.id] < Cooldown /\ job.id \notin unsure'
        PROVE  outbox'[job.id].status = "SENT" /\ outbox'[job.id].age <= told[job.id]
    <3>1. told[job.id] \in Nat
      BY <1>1, <2>4, AgeFacts DEF TypeOK, Subjects, Ages
    <3>2. job.ok
      BY <1>3, <2>1, <2>4 DEF Record, KeptInv
    <3>3. QED
      BY <2>2, <3>1, <3>2 DEF Outcome
  <2>5. QED
    BY <2>1, <2>2, <2>3, <2>4, IdFacts DEF KeptInv
<1>4. QED
  BY <1>2, <1>3

(* A file that is not saved takes what it lost to unsure; time ages a record *)
(* and the delivery alike.                                                  *)
LEMMA ScheduleKept ==
  ASSUME TypedInv, KeptInv, EndRun \/ Crash \/ Tick
  PROVE  KeptInv'
<1>1. TypeOK
  BY DEF TypedInv
<1>2. CASE EndRun \/ Crash
  <2>1. Leave
    BY <1>2 DEF EndRun, Crash
  <2>2. CASE UNCHANGED <<files, unsure>>
    BY <2>1, <2>2 DEF Leave, KeptInv, files
  <2>3. CASE /\ outbox' = saved.outbox
             /\ unsure' = unsure \cup {id \in Ids : outbox[id] # saved.outbox[id]}
    BY <2>1, <2>3, IdFacts DEF Leave, KeptInv
  <2>4. QED
    BY <2>1, <2>2, <2>3 DEF Leave
<1>3. CASE Tick
  <2> SUFFICES ASSUME NEW id \in Offers \X Channels, told'[id] < Cooldown, id \notin unsure'
               PROVE  outbox'[id].status = "SENT" /\ outbox'[id].age <= told'[id]
    BY DEF KeptInv
  <2>1. id \in Ids /\ id \in Subjects \X Channels /\ unsure' = unsure
    BY <1>3, IdFacts DEF Tick, Subjects
  <2>2. outbox[id] \in Records /\ told[id] \in Ages \cup {Never}
    BY <1>1, <2>1 DEF TypeOK
  <2>3. told'[id] = IF told[id] = Never THEN Never ELSE Older(told[id])
    BY <1>3, <2>1 DEF Tick
  <2>4. told[id] # Never /\ told'[id] = Older(told[id])
    BY <2>3, AgeFacts, NotifyAssumption DEF Never
  <2>5. told[id] < Cooldown /\ told[id] \in Ages
    BY <2>2, <2>4, AgeFacts, NotifyAssumption DEF Ages
  <2>6. outbox[id].status = "SENT" /\ outbox[id].age <= told[id]
    BY <2>1, <2>5 DEF KeptInv
  <2>7. outbox'[id].status = "SENT" /\ outbox'[id].age = Older(outbox[id].age)
    BY <1>1, <1>3, <2>1, <2>6, AgedTyped DEF Tick, TypeOK
  <2>8. QED
    BY <2>2, <2>4, <2>5, <2>6, <2>7, AgeFacts DEF Records
<1>4. QED
  BY <1>2, <1>3

LEMMA StepKept == ASSUME Inv, [Next]_vars PROVE KeptInv'
<1>1. CASE UNCHANGED vars
  BY <1>1 DEF vars, files, history, Inv, KeptInv
<1>2. QED
  BY <1>1, LoopKept, SendKept, BookKept, ScheduleKept DEF Inv, Next, Work

LEMMA Invariance == Spec => []Inv
<1>1. Init => Inv
  BY InitTyped, InitKept DEF Inv
<1>2. Inv /\ [Next]_vars => Inv'
  BY StepTyped, StepKept DEF Inv
<1>3. QED
  BY <1>1, <1>2, PTL DEF Spec

(* Every variable of notify.py's model keeps its type.                      *)
THEOREM NotifyTypes == Spec => []TypeOK
<1>1. Inv => TypeOK
  BY DEF Inv, TypedInv
<1>2. QED
  BY <1>1, Invariance, PTL

(* notify.py reaches the user about an offer on a channel at most once per   *)
(* cooldown unless an earlier delivery left no SENT record, whatever the     *)
(* replays, the retries, the watches, the crashes and the failed saves.      *)
THEOREM OncePerCooldown == Spec => NoRepeat
<1> DEFINE Clean == (Delivered \/ AnswerLost) /\ job.about \in Offers
                      /\ told[<<job.about, job.id[2]>>] < Cooldown => job.id \in unsure
<1>1. Inv => Clean
  <2> SUFFICES ASSUME Inv, Delivered \/ AnswerLost, job.about \in Offers,
                      told[<<job.about, job.id[2]>>] < Cooldown
               PROVE  job.id \in unsure
    OBVIOUS
  <2>1. job.step = "send"
    BY DEF Delivered, AnswerLost
  <2>2. job.id = <<job.about, job.id[2]>> /\ job.id[2] \in Channels
    BY <2>1, ReachedAt, JobFacts DEF Inv
  <2>3. job.id \in Offers \X Channels /\ told[job.id] < Cooldown
    BY <2>2
  <2>4. outbox[job.id].status = "PENDING"
    BY <2>1 DEF Inv, TypedInv, JobInv
  <2>5. QED
    BY <2>3, <2>4 DEF Inv, KeptInv
<1>2. []Inv => [][Clean]_vars
  BY <1>1, PTL
<1>3. QED
  BY <1>2, Invariance, PTL DEF NoRepeat

----------------------------------------------------------------------------
(* The audit table. *)

(* An event id of the subject.                                              *)
About(x, id) ==
  (x \in Offers /\ id = <<x, id[2]>>) \/ (x \in Notices /\ id = IdOf(x))

(* The user got something that has this event id.                           *)
Got(id) == \E x \in Subjects : About(x, id) /\ told[<<x, id[2]>>] # Never

Filed(records) ==
  \A id \in Ids : records[id].status # "none" => About(records[id].about, id)

(* Records and sends carry the id of what they are about, and a send that    *)
(* succeeded reached the user.                                              *)
AboutInv ==
  /\ Filed(outbox) /\ Filed(saved.outbox)
  /\ job.step # "none" => About(job.about, job.id)
  /\ job.ok => job.step \in {"record", "audit"} /\ told[<<job.about, job.id[2]>>] # Never

Audited(records, rows) == \A id \in Ids : records[id].status = "SENT" => id \in rows

(* Without a crash, only the event whose row is next may lack it.           *)
RowInv ==
  /\ \A id \in audit \cup saved.audit : Got(id)
  /\ crashes = 0 =>
       /\ Audited(saved.outbox, saved.audit)
       /\ Audited(outbox, audit \cup {id \in {job.id} : job.step = "audit" /\ job.ok})

AuditInv == TypedInv /\ AboutInv /\ RowInv

LEMMA InitAudit == Init => AuditInv
<1> SUFFICES ASSUME Init PROVE AuditInv
  OBVIOUS
<1>1. /\ audit = {} /\ saved.audit = {} /\ saved.outbox = outbox
      /\ job.step = "none" /\ ~job.ok
      /\ \A id \in Ids : outbox[id].status = "none"
  BY DEF Init, NoRecord, Idle, Job
<1>2. QED
  BY <1>1, InitTyped DEF AuditInv, AboutInv, Filed, RowInv, Audited

(* What was told is not untold.                                             *)
LEMMA ToldStays ==
  ASSUME TypedInv, [Next]_vars, NEW x \in Subjects, NEW c \in Channels, told[<<x, c>>] # Never
  PROVE  told'[<<x, c>>] # Never
<1>1. told \in [Subjects \X Channels -> Ages \cup {Never}]
  BY DEF TypedInv, TypeOK
<1>2. CASE Tick
  <2>1. told'[<<x, c>>] = Older(told[<<x, c>>])
    BY <1>2 DEF Tick
  <2>2. told[<<x, c>>] \in Ages
    BY <1>1
  <2>3. QED
    BY <2>1, <2>2, AgeFacts
<1>3. CASE Delivered \/ AnswerLost
  <2>1. told' = [told EXCEPT ![<<job.about, job.id[2]>>] = 0]
    BY <1>3 DEF Delivered, AnswerLost, Reached
  <2>2. 0 # Never
    BY AgeFacts
  <2>3. QED
    BY <1>1, <2>1, <2>2
<1>4. ASSUME ~Tick, ~(Delivered \/ AnswerLost) PROVE told' = told
  BY <1>4 DEF Next, Work, StartRun, Replay, ReplayEnds, SkipNotice, QueueNotice, HealthEnds,
     TakeAlert, SkipChannel, QueueDeal, SendFails, Refused, Record, Audit, EndRun, Crash, Leave,
     vars, history
<1>5. QED
  BY <1>2, <1>3, <1>4

LEMMA GotStays ==
  ASSUME TypedInv, [Next]_vars, NEW id \in Ids, Got(id)
  PROVE  Got(id)'
BY ToldStays, IdFacts DEF Got, About, IdOf

(* The loop starts sends about what their id says, and marks nothing SENT.   *)
LEMMA LoopAudit ==
  ASSUME AuditInv,
         \/ StartRun \/ (\E id \in due : Replay(id)) \/ ReplayEnds
         \/ SkipNotice \/ QueueNotice \/ HealthEnds
         \/ TakeAlert \/ (\E c \in todo : SkipChannel(c) \/ QueueDeal(c))
  PROVE  AboutInv' /\ RowInv'
<1>1. /\ TypeOK /\ LabelInv /\ DueInv /\ TodoInv /\ AboutInv /\ RowInv
  BY DEF AuditInv, TypedInv
<1>2. UNCHANGED <<audit, saved, told, crashes>>
  BY DEF StartRun, Replay, ReplayEnds, SkipNotice, QueueNotice, HealthEnds, TakeAlert,
     SkipChannel, QueueDeal, files, history
<1>3. job.step = "none" \/ job' = job
  BY DEF StartRun, Replay, ReplayEnds, SkipNotice, QueueNotice, HealthEnds, TakeAlert,
     SkipChannel, QueueDeal, Free, Idle, Job
<1>4. CASE UNCHANGED <<outbox, job>>
  BY <1>1, <1>2, <1>4 DEF AboutInv, Filed, RowInv, Audited, Got
<1>5. ASSUME NEW id \in Ids, NEW x, About(x, id), job.step = "none",
             \/ outbox' = outbox
             \/ outbox' = [outbox EXCEPT ![id] = [status |-> "PENDING", age |-> 0, about |-> x]],
             \E step \in {"send", "record"}, tries \in Nat : job' = Job(id, x, step, tries)
      PROVE  AboutInv' /\ RowInv'
  <2>1. \A i \in Ids : outbox'[i] = outbox[i] \/ (i = id /\ outbox'[i].status = "PENDING" /\ outbox'[i].about = x)
    BY <1>1, <1>5 DEF TypeOK
  <2>2. job'.step \in {"send", "record"} /\ job'.id = id /\ job'.about = x /\ ~job'.ok
    BY <1>5 DEF Job
  <2>3. AboutInv'
    BY <1>1, <1>2, <1>5, <2>1, <2>2 DEF AboutInv, Filed
  <2>4. \A i \in audit \cup saved.audit : Got(i)'
    BY <1>1, <1>2 DEF RowInv, Got
  <2>5. crashes = 0 => Audited(outbox', audit)
    BY <1>1, <1>5, <2>1 DEF RowInv, Audited
  <2>6. QED
    BY <1>1, <1>2, <2>2, <2>3, <2>4, <2>5 DEF RowInv, Audited
<1>6. CASE \E id \in due : Replay(id)
  <2>1. PICK id \in due : Replay(id)
    BY <1>6
  <2>2. id \in Ids /\ About(outbox[id].about, id) /\ outbox' = outbox /\ job.step = "none"
    BY <1>1, <2>1 DEF Replay, Free, Idle, Job, TypeOK, DueInv, AboutInv, Filed, files
  <2>3. \E step \in {"send", "record"}, tries \in Nat : job' = Job(id, outbox[id].about, step, tries)
    BY <2>1 DEF Replay
  <2>4. QED
    BY <1>5, <2>2, <2>3
<1>7. CASE QueueNotice
  <2>1. Notice \in Notices /\ IdOf(Notice) \in Ids
    BY <1>1, <1>7, IdFacts DEF QueueNotice, Notice, TypeOK
  <2>2. About(Notice, IdOf(Notice)) /\ job.step = "none"
    BY <1>7, <2>1 DEF About, QueueNotice, Free, Idle, Job
  <2>3. /\ outbox' = [outbox EXCEPT ![IdOf(Notice)] = [status |-> "PENDING", age |-> 0, about |-> Notice]]
        /\ job' = Job(IdOf(Notice), Notice, "send", 1)
    BY <1>7 DEF QueueNotice, Put
  <2>4. QED
    BY <1>5, <2>1, <2>2, <2>3
<1>8. ASSUME NEW c \in todo, QueueDeal(c) PROVE AboutInv' /\ RowInv'
  <2>1. c \in Channels /\ alerts[pos - 1] \in Alerts
    BY <1>1, <1>8 DEF TypeOK, TodoInv
  <2>2. Deal(c) = <<alerts[pos - 1].offer, c>> /\ Deal(c) \in Offers \X Channels
    BY <2>1 DEF Deal, Alerts
  <2>3. Deal(c) \in Ids /\ About(Deal(c)[1], Deal(c)) /\ job.step = "none"
    BY <1>8, <2>2, IdFacts DEF About, QueueDeal, Free, Idle, Job
  <2>4. /\ outbox' = [outbox EXCEPT ![Deal(c)] = [status |-> "PENDING", age |-> 0, about |-> Deal(c)[1]]]
        /\ \E tries \in Nat : job' = Job(Deal(c), Deal(c)[1], "send", tries)
    BY <1>8 DEF QueueDeal, Put
  <2>5. QED
    BY <1>5, <2>3, <2>4
<1>9. CASE StartRun \/ ReplayEnds \/ SkipNotice \/ HealthEnds \/ TakeAlert
  BY <1>4, <1>9 DEF StartRun, ReplayEnds, SkipNotice, HealthEnds, TakeAlert, files
<1>10. ASSUME NEW c \in todo, SkipChannel(c) PROVE AboutInv' /\ RowInv'
  BY <1>4, <1>10 DEF SkipChannel, files
<1>11. QED
  BY <1>6, <1>7, <1>8, <1>9, <1>10

LEMMA SendAudit ==
  ASSUME AuditInv, [Next]_vars, Delivered \/ AnswerLost \/ SendFails \/ Refused
  PROVE  AboutInv' /\ RowInv'
<1>1. TypedInv /\ TypeOK /\ AboutInv /\ RowInv /\ job.step = "send" /\ UNCHANGED <<files, saved, crashes>>
  BY DEF AuditInv, TypedInv, Delivered, AnswerLost, SendFails, Refused
<1>2. job' \in Jobs /\ job'.id = job.id /\ job'.about = job.about /\ job'.step \in {"send", "record"}
  BY <1>1, SendJob DEF Delivered, AnswerLost, SendFails, Refused
<1>3. job'.ok => Delivered
  <2>1. ~job.ok /\ job \in [id : Ids, about : Subjects, step : {"send", "record", "audit"},
                            tries : 0..MaxAttempts, ok : BOOLEAN]
    BY <1>1, JobFacts DEF AboutInv
  <2>2. ASSUME job' = Finished(FALSE) \/ job' = [job EXCEPT !.tries = @ + 1] PROVE ~job'.ok
    BY <2>1, <2>2 DEF Finished
  <2>3. QED
    BY <2>2 DEF AnswerLost, SendFails, Refused, Retry
<1>4. job'.ok => told'[<<job.about, job.id[2]>>] # Never
  <2>1. <<job.about, job.id[2]>> \in Subjects \X Channels
    BY <1>1, ReachedAt
  <2>2. ASSUME Delivered PROVE told'[<<job.about, job.id[2]>>] = 0
    BY <1>1, <2>1, <2>2 DEF Delivered, Reached, TypeOK
  <2>3. QED
    BY <1>3, <2>2, AgeFacts
<1>5. job'.step # "audit" /\ job.step # "audit" /\ (job'.ok => job'.step = "record")
  <2>1. ASSUME Delivered PROVE job'.step = "record"
    BY <1>1, <2>1, JobFacts DEF Delivered, Finished
  <2>2. QED
    BY <1>1, <1>2, <1>3, <2>1
<1>6. AboutInv'
  BY <1>1, <1>2, <1>4, <1>5 DEF AboutInv, Filed, files
<1>7. \A id \in audit \cup saved.audit : Got(id)'
  <2>1. audit \cup saved.audit \subseteq Ids
    BY <1>1 DEF TypeOK
  <2>2. QED
    BY <1>1, <2>1, GotStays DEF RowInv
<1>8. RowInv'
  BY <1>1, <1>5, <1>7 DEF RowInv, Audited, files
<1>9. QED
  BY <1>6, <1>8

LEMMA BookAudit ==
  ASSUME AuditInv, Record \/ Audit
  PROVE  AboutInv' /\ RowInv'
<1>1. /\ TypedInv /\ TypeOK /\ AboutInv /\ RowInv /\ UNCHANGED <<saved, told, crashes>>
      /\ job.step \in {"record", "audit"} /\ job.id \in Ids
      /\ job \in [id : Ids, about : Subjects, step : {"send", "record", "audit"},
                  tries : 0..MaxAttempts, ok : BOOLEAN]
  BY JobFacts DEF AuditInv, TypedInv, Record, Audit, history
<1>2. About(job.about, job.id) /\ (job.ok => told[<<job.about, job.id[2]>>] # Never)
  BY <1>1 DEF AboutInv
<1>3. CASE Record
  <2>1. /\ outbox' = [outbox EXCEPT ![job.id] = [status |-> Outcome, age |-> 0, about |-> job.about]]
        /\ job' = [job EXCEPT !.step = "audit"] /\ audit' = audit /\ job.step = "record"
    BY <1>3 DEF Record, Put
  <2>2. job'.step = "audit" /\ job'.id = job.id /\ job'.about = job.about /\ job'.ok = job.ok
    BY <1>1, <2>1
  <2>3. \A id \in Ids : outbox'[id] = outbox[id] \/ (id = job.id /\ outbox'[id].about = job.about
                                                    /\ (outbox'[id].status = "SENT" => job.ok))
    BY <1>1, <2>1 DEF TypeOK, Outcome
  <2>4. AboutInv'
    BY <1>1, <1>2, <2>2, <2>3 DEF AboutInv, Filed
  <2>5. \A id \in audit \cup saved.audit : Got(id)'
    BY <1>1 DEF RowInv, Got
  <2>6. ASSUME crashes = 0, NEW id \in Ids, outbox'[id].status = "SENT"
        PROVE  id \in audit \/ (id = job.id /\ job.ok)
    <3>1. CASE outbox'[id] = outbox[id]
      BY <1>1, <2>1, <2>6, <3>1 DEF RowInv, Audited
    <3>2. QED
      BY <2>3, <2>6, <3>1
  <2>7. QED
    BY <1>1, <2>1, <2>2, <2>4, <2>5, <2>6 DEF RowInv, Audited
<1>4. CASE Audit
  <2>1. /\ audit' = (IF job.ok THEN audit \cup {job.id} ELSE audit) /\ job' = Idle
        /\ outbox' = outbox /\ job.step = "audit"
    BY <1>4 DEF Audit
  <2>2. job'.step = "none" /\ ~job'.ok
    BY <2>1 DEF Idle, Job
  <2>3. AboutInv'
    BY <1>1, <2>1, <2>2 DEF AboutInv, Filed
  <2>4. job.ok => Got(job.id)
    BY <1>1, <1>2 DEF Got
  <2>5. \A id \in audit' \cup saved'.audit : Got(id)'
    BY <1>1, <2>1, <2>4 DEF RowInv, Got
  <2>6. crashes = 0 => Audited(outbox, audit')
    BY <1>1, <2>1 DEF RowInv, Audited
  <2>7. QED
    BY <1>1, <2>1, <2>2, <2>3, <2>5, <2>6 DEF RowInv, Audited
<1>5. QED
  BY <1>3, <1>4

LEMMA ScheduleAudit ==
  ASSUME AuditInv, [Next]_vars, EndRun \/ Crash \/ Tick
  PROVE  AboutInv' /\ RowInv'
<1>1. TypedInv /\ TypeOK /\ AboutInv /\ RowInv
  BY DEF AuditInv, TypedInv
<1>2. \A id \in audit \cup saved.audit : Got(id)'
  <2>1. audit \cup saved.audit \subseteq Ids
    BY <1>1 DEF TypeOK
  <2>2. QED
    BY <1>1, <2>1, GotStays DEF RowInv
<1>3. CASE EndRun \/ Crash
  <2>1. job' = Idle /\ job'.step = "none" /\ ~job'.ok /\ told' = told
    BY <1>3 DEF EndRun, Crash, Leave, Idle, Job
  <2>2. \/ saved' = [outbox |-> outbox, audit |-> audit] /\ outbox' = outbox /\ audit' = audit
        \/ saved' = saved /\ outbox' = saved.outbox /\ audit' = saved.audit
    BY <1>3 DEF EndRun, Crash, Leave, files
  <2>3. AboutInv'
    BY <1>1, <2>1, <2>2 DEF AboutInv, Filed
  <2>4. \A id \in audit' \cup saved'.audit : Got(id)'
    BY <1>2, <2>2
  <2>5. ASSUME crashes' = 0
        PROVE  Audited(saved'.outbox, saved'.audit) /\ Audited(outbox', audit')
    <3>1. crashes = 0 /\ EndRun
      BY <1>1, <1>3, <2>5, NotifyAssumption DEF Crash, EndRun, TypeOK
    <3>2. job.step = "none"
      BY <3>1 DEF EndRun, Free, Idle, Job
    <3>3. Audited(outbox, audit) /\ Audited(saved.outbox, saved.audit)
      BY <1>1, <3>1, <3>2 DEF RowInv, Audited
    <3>4. QED
      BY <2>2, <3>3
  <2>6. QED
    BY <2>1, <2>3, <2>4, <2>5 DEF RowInv, Audited
<1>4. CASE Tick
  <2>1. /\ outbox' = Aged(outbox) /\ saved' = [saved EXCEPT !.outbox = Aged(saved.outbox)]
        /\ UNCHANGED <<audit, job, crashes>>
    BY <1>4 DEF Tick
  <2>2. outbox \in [Ids -> Records] /\ saved \in [outbox : [Ids -> Records], audit : SUBSET Ids]
    BY <1>1 DEF TypeOK
  <2>3. saved'.outbox = Aged(saved.outbox) /\ saved'.audit = saved.audit /\ saved.outbox \in [Ids -> Records]
    BY <2>1, <2>2
  <2>4. \A id \in Ids :
          /\ outbox'[id].status = outbox[id].status /\ outbox'[id].about = outbox[id].about
          /\ saved'.outbox[id].status = saved.outbox[id].status
          /\ saved'.outbox[id].about = saved.outbox[id].about
    BY <2>1, <2>2, <2>3, AgedTyped
  <2>5. job.ok => told'[<<job.about, job.id[2]>>] # Never
    <3>1. job.ok => job.about \in Subjects /\ job.id[2] \in Channels
      BY <1>1, JobFacts DEF AboutInv
    <3>2. QED
      BY <1>1, <3>1, ToldStays DEF AboutInv
  <2>6. AboutInv'
    BY <1>1, <2>1, <2>4, <2>5 DEF AboutInv, Filed
  <2>7. RowInv'
    BY <1>1, <1>2, <2>1, <2>3, <2>4 DEF RowInv, Audited
  <2>8. QED
    BY <2>6, <2>7
<1>5. QED
  BY <1>3, <1>4

LEMMA StepAudit == AuditInv /\ [Next]_vars => AuditInv'
<1> SUFFICES ASSUME AuditInv, [Next]_vars PROVE AuditInv'
  OBVIOUS
<1>1. TypedInv'
  BY StepTyped DEF AuditInv
<1>2. CASE UNCHANGED vars
  <2>1. UNCHANGED <<outbox, audit, saved, job, told, crashes>>
    BY <1>2 DEF vars, files, history
  <2>2. AboutInv' /\ RowInv'
    BY <2>1 DEF AuditInv, AboutInv, Filed, RowInv, Audited, Got
  <2>3. QED
    BY <1>1, <2>2 DEF AuditInv
<1>3. QED
  BY <1>1, <1>2, LoopAudit, SendAudit, BookAudit, ScheduleAudit DEF AuditInv, Next, Work

(* A "delivered" row of delivery_attempts, which decides whether a pressed   *)
(* button counts, stands for a message that reached the user; and as long    *)
(* as no run dies, each event on file as SENT has its row.                  *)
THEOREM AuditIsTrue == Spec => []AuditAgrees
<1>1. AuditInv => AuditAgrees
  <2> SUFFICES ASSUME AuditInv PROVE AuditAgrees
    OBVIOUS
  <2>1. \A id \in audit : Got(id)
    BY DEF AuditInv, RowInv
  <2>2. crashes = 0 => \A id \in Ids : outbox[id].status = "SENT" => id \in audit \/ job.id = id
    BY DEF AuditInv, RowInv, Audited
  <2>3. QED
    BY <2>1, <2>2 DEF AuditAgrees, Got, About
<1>2. QED
  BY <1>1, InitAudit, StepAudit, PTL DEF Spec
----------------------------------------------------------------------------
(* Nothing is dropped. *)

DistinctTexts == \A m, n \in Notices : TextOf[m] = TextOf[n] => m = n

LEMMA AboutUnique ==
  ASSUME DistinctTexts, NEW id, NEW x, NEW y, About(x, id), About(y, id)
  PROVE  x = y
<1>1. CASE x \in Offers /\ y \in Offers
  BY <1>1, NotifyAssumption DEF About
<1>2. CASE x \in Notices /\ y \in Notices
  BY <1>2, NotifyAssumption DEF About, IdOf, DistinctTexts
<1>3. ASSUME NEW o \in Offers, NEW n \in Notices PROVE ~(About(o, id) /\ About(n, id))
  BY NotifyAssumption DEF About, IdOf
<1>4. QED
  BY <1>1, <1>2, <1>3 DEF About

(* A record says SENT of what reached the user.                             *)
SentTold(records) ==
  \A id \in Ids : records[id].status = "SENT" => told[<<records[id].about, id[2]>>] # Never
SentInv == SentTold(outbox) /\ SentTold(saved.outbox)

(* What the run has gone past is settled, but for the channels it is at.    *)
Told(n) == Settled(IdOf(n), n)
NoticeDone(k) == Told(notices[k])
DealDone(k, c) == Settled(<<alerts[k].offer, c>>, alerts[k].offer)
AlertDone(k) ==
  \A c \in Route(alerts[k].offer) \cap configured :
    (c \in todo /\ alerts[k].offer = alerts[pos - 1].offer) \/ DealDone(k, c)
ProgressInv ==
  /\ stage \in {"off", "replay"} => pos = 1
  /\ stage = "health" =>
       /\ \A n \in silenced : Told(n)
       /\ \A k \in DOMAIN notices : k < pos => NoticeDone(k)
  /\ stage = "deals" =>
       /\ \A k \in DOMAIN notices : NoticeDone(k)
       /\ \A k \in DOMAIN alerts : k < pos => AlertDone(k)

TriedInv == AuditInv /\ SentInv /\ ProgressInv

LEMMA InitTried == Init => TriedInv
<1> SUFFICES ASSUME Init PROVE TriedInv
  OBVIOUS
<1>1. /\ saved.outbox = outbox /\ pos = 1 /\ stage = "off"
      /\ \A id \in Ids : outbox[id].status = "none"
  BY DEF Init, NoRecord
<1>2. QED
  BY <1>1, InitAudit DEF TriedInv, SentInv, SentTold, ProgressInv

(* What a step does to the outbox and to the saved one.                     *)
Puts(id, status, x) ==
  /\ outbox'[id].status = status /\ outbox'[id].about = x
  /\ \A i \in Ids \ {id} : outbox'[i] = outbox[i]

LEMMA OutboxSteps ==
  ASSUME AuditInv, [Next]_vars
  PROVE  \/ outbox' = outbox /\ saved' = saved
         \/ saved' = saved /\ \E id \in Ids, x \in Subjects : About(x, id) /\ Puts(id, "PENDING", x)
         \/ /\ saved' = saved /\ job.id \in Ids /\ job.about \in Subjects
            /\ About(job.about, job.id) /\ Puts(job.id, Outcome, job.about)
            /\ job.ok => told[<<job.about, job.id[2]>>] # Never
         \/ stage' = "off" /\ pos' = 1 /\ (outbox' = outbox \/ outbox' = saved.outbox)
            /\ (saved'.outbox = outbox \/ saved'.outbox = saved.outbox)
         \/ /\ stage' = stage
            /\ \A id \in Ids :
                 /\ outbox'[id].status = outbox[id].status /\ outbox'[id].about = outbox[id].about
                 /\ saved'.outbox[id].status = saved.outbox[id].status
                 /\ saved'.outbox[id].about = saved.outbox[id].about
<1>1. TypedInv /\ TypeOK /\ TodoInv /\ AboutInv
  BY DEF AuditInv, TypedInv
<1>2. ASSUME NEW id \in Ids, NEW x \in Subjects,
             NEW status \in {"PENDING", "SENT", "DEAD_LETTER"}, Put(id, status, x)
      PROVE  Puts(id, status, x)
  <2>1. /\ outbox'[id] = [status |-> status, age |-> 0, about |-> x]
        /\ \A i \in Ids \ {id} : outbox'[i] = outbox[i]
    BY <1>1, <1>2, PutTyped
  <2>2. QED
    BY <2>1 DEF Puts
<1>3. CASE QueueNotice
  <2>1. Notice \in Notices
    BY <1>1, <1>3 DEF QueueNotice, Notice, TypeOK
  <2>2. IdOf(Notice) \in Ids /\ Notice \in Subjects /\ About(Notice, IdOf(Notice))
    BY <2>1, IdFacts DEF About, Subjects
  <2>3. Put(IdOf(Notice), "PENDING", Notice) /\ saved' = saved
    BY <1>3 DEF QueueNotice
  <2>4. QED
    BY <1>2, <2>2, <2>3
<1>4. ASSUME NEW c \in todo, QueueDeal(c)
      PROVE  saved' = saved /\ \E id \in Ids, x \in Subjects : About(x, id) /\ Puts(id, "PENDING", x)
  <2>1. c \in Channels /\ alerts[pos - 1] \in Alerts
    BY <1>1, <1>4 DEF TypeOK, TodoInv
  <2>2. Deal(c) = <<alerts[pos - 1].offer, c>> /\ Deal(c) \in Offers \X Channels
    BY <2>1 DEF Deal, Alerts
  <2>3. Deal(c) \in Ids /\ Deal(c)[1] \in Subjects /\ About(Deal(c)[1], Deal(c))
    BY <2>2, IdFacts DEF About, Subjects
  <2>4. Put(Deal(c), "PENDING", Deal(c)[1]) /\ saved' = saved
    BY <1>4 DEF QueueDeal
  <2>5. QED
    BY <1>2, <2>3, <2>4
<1>5. CASE Record
  <2>1. job.step = "record" /\ Put(job.id, Outcome, job.about) /\ saved' = saved
    BY <1>5 DEF Record
  <2>2. job.id \in Ids /\ job.about \in Subjects
    BY <1>1, <2>1, JobFacts
  <2>3. Outcome \in {"PENDING", "SENT", "DEAD_LETTER"}
    BY DEF Outcome
  <2>4. QED
    BY <1>1, <1>2, <2>1, <2>2, <2>3 DEF AboutInv
<1>6. CASE EndRun \/ Crash
  <2>1. Leave
    BY <1>6 DEF EndRun, Crash
  <2>2. saved' = [outbox |-> outbox, audit |-> audit] => saved'.outbox = outbox
    OBVIOUS
  <2>3. QED
    BY <2>1, <2>2 DEF Leave, files
<1>7. CASE Tick
  <2>1. /\ outbox' = Aged(outbox) /\ saved' = [saved EXCEPT !.outbox = Aged(saved.outbox)]
        /\ stage' = stage
    BY <1>7 DEF Tick
  <2>2. outbox \in [Ids -> Records] /\ saved \in [outbox : [Ids -> Records], audit : SUBSET Ids]
    BY <1>1 DEF TypeOK
  <2>3. saved'.outbox = Aged(saved.outbox) /\ saved.outbox \in [Ids -> Records]
    BY <2>1, <2>2
  <2>4. QED
    BY <2>1, <2>2, <2>3, AgedTyped
<1>8. ASSUME NEW id \in due, Replay(id) PROVE outbox' = outbox /\ saved' = saved
  BY <1>8 DEF Replay, files
<1>9. ASSUME NEW c \in todo, SkipChannel(c) PROVE outbox' = outbox /\ saved' = saved
  BY <1>9 DEF SkipChannel, files
<1>10. CASE \/ StartRun \/ ReplayEnds \/ SkipNotice \/ HealthEnds \/ TakeAlert
            \/ Delivered \/ AnswerLost \/ SendFails \/ Refused \/ Audit \/ UNCHANGED vars
  BY <1>10 DEF StartRun, ReplayEnds, SkipNotice, HealthEnds, TakeAlert, Delivered, AnswerLost,
     SendFails, Refused, Audit, vars, files
<1>11. QED
  BY <1>3, <1>4, <1>5, <1>6, <1>7, <1>8, <1>9, <1>10 DEF Next, Work

LEMMA AboutSubject ==
  ASSUME NEW id \in Ids, NEW x, About(x, id)
  PROVE  x \in Subjects /\ id[2] \in Channels
BY IdFacts DEF About, Subjects

LEMMA StepSent ==
  ASSUME AuditInv, SentInv, [Next]_vars
  PROVE  SentInv'
<1>1. TypedInv /\ AboutInv
  BY DEF AuditInv
<1>2. ASSUME NEW records, Filed(records), SentTold(records), NEW id \in Ids,
             records[id].status = "SENT"
      PROVE  told'[<<records[id].about, id[2]>>] # Never
  <2>1. About(records[id].about, id)
    BY <1>2 DEF Filed
  <2>2. QED
    BY <1>1, <1>2, <2>1, AboutSubject, ToldStays DEF SentTold
<1>3. ASSUME NEW id \in Ids, outbox[id].status = "SENT"
      PROVE  told'[<<outbox[id].about, id[2]>>] # Never
  BY <1>1, <1>2, <1>3 DEF SentInv, AboutInv
<1>4. ASSUME NEW id \in Ids, saved.outbox[id].status = "SENT"
      PROVE  told'[<<saved.outbox[id].about, id[2]>>] # Never
  BY <1>1, <1>2, <1>4 DEF SentInv, AboutInv
<1>5. CASE outbox' = outbox /\ saved' = saved
  BY <1>3, <1>4, <1>5 DEF SentInv, SentTold
<1>6. CASE saved' = saved /\ \E id \in Ids, x \in Subjects : About(x, id) /\ Puts(id, "PENDING", x)
  <2>1. PICK id \in Ids, x \in Subjects : Puts(id, "PENDING", x)
    BY <1>6
  <2>2. \A i \in Ids : outbox'[i].status = "SENT" => outbox'[i] = outbox[i]
    BY <2>1 DEF Puts
  <2>3. QED
    BY <1>3, <1>4, <1>6, <2>2 DEF SentInv, SentTold
<1>7. CASE /\ saved' = saved /\ job.id \in Ids /\ job.about \in Subjects
           /\ About(job.about, job.id) /\ Puts(job.id, Outcome, job.about)
           /\ job.ok => told[<<job.about, job.id[2]>>] # Never
  <2>1. ASSUME outbox'[job.id].status = "SENT"
        PROVE  told'[<<outbox'[job.id].about, job.id[2]>>] # Never
    <3>1. job.ok
      BY <1>7, <2>1 DEF Puts, Outcome
    <3>2. QED
      BY <1>1, <1>7, <3>1, AboutSubject, ToldStays DEF Puts
  <2>2. \A i \in Ids : i = job.id \/ outbox'[i] = outbox[i]
    BY <1>7 DEF Puts
  <2>3. QED
    BY <1>3, <1>4, <1>7, <2>1, <2>2 DEF SentInv, SentTold
<1>8. CASE \/ (outbox' = outbox \/ outbox' = saved.outbox)
              /\ (saved'.outbox = outbox \/ saved'.outbox = saved.outbox)
           \/ \A id \in Ids :
                 /\ outbox'[id].status = outbox[id].status /\ outbox'[id].about = outbox[id].about
                 /\ saved'.outbox[id].status = saved.outbox[id].status
                 /\ saved'.outbox[id].about = saved.outbox[id].about
  BY <1>3, <1>4, <1>8 DEF SentInv, SentTold
<1>9. QED
  BY <1>5, <1>6, <1>7, <1>8, OutboxSteps

(* SENT is enough, because the record is about nothing else.                *)
LEMMA SentSettled ==
  ASSUME DistinctTexts, AuditInv, SentInv, NEW id \in Ids, NEW x, About(x, id),
         outbox[id].status = "SENT"
  PROVE  Settled(id, x)
<1>1. About(outbox[id].about, id)
  BY DEF AuditInv, AboutInv, Filed
<1>2. outbox[id].about = x
  BY <1>1, AboutUnique
<1>3. QED
  BY <1>2 DEF SentInv, SentTold, Settled

(* What is settled stays so until the run ends.                             *)
LEMMA SettledStays ==
  ASSUME DistinctTexts, AuditInv, SentInv, [Next]_vars, stage' # "off",
         NEW id \in Ids, NEW x, About(x, id), Settled(id, x)
  PROVE  Settled(id, x)'
<1>1. told[<<x, id[2]>>] # Never => told'[<<x, id[2]>>] # Never
  BY AboutSubject, ToldStays DEF AuditInv
<1>2. CASE outbox'[id].status = outbox[id].status
  BY <1>1, <1>2 DEF Settled
<1>3. CASE \E i \in Ids, y \in Subjects : Puts(i, "PENDING", y)
  <2>1. PICK i \in Ids, y \in Subjects : Puts(i, "PENDING", y)
    BY <1>3
  <2>2. outbox'[id].status = "PENDING" \/ outbox'[id] = outbox[id]
    BY <2>1 DEF Puts
  <2>3. QED
    BY <1>2, <2>2 DEF Settled
<1>4. CASE /\ job.id \in Ids /\ About(job.about, job.id) /\ Puts(job.id, Outcome, job.about)
           /\ job.ok => told[<<job.about, job.id[2]>>] # Never
  <2>1. CASE id # job.id
    BY <1>2, <1>4, <2>1 DEF Puts
  <2>2. CASE id = job.id
    <3>1. job.about = x
      BY <1>4, <2>2, AboutUnique
    <3>2. outbox'[id].status = "DEAD_LETTER" \/ told[<<x, id[2]>>] # Never
      BY <1>4, <2>2, <3>1 DEF Puts, Outcome
    <3>3. QED
      BY <1>1, <3>2 DEF Settled
  <2>3. QED
    BY <2>1, <2>2
<1>5. QED
  BY <1>2, <1>3, <1>4, OutboxSteps

LEMMA OfferOf == TypeOK => \A k \in DOMAIN alerts : alerts[k].offer \in Offers
<1>1. TypeOK => \A k \in DOMAIN alerts : alerts[k] \in Alerts
  BY DEF TypeOK
<1>2. QED
  BY <1>1 DEF Alerts

(* So is each element of the run's two lists, and each silenced notice.     *)
LEMMA DoneStays ==
  ASSUME DistinctTexts, AuditInv, SentInv, [Next]_vars, stage' # "off",
         notices' = notices, alerts' = alerts, configured' = configured
  PROVE  /\ \A n \in Notices : Told(n) => Told(n)'
         /\ \A k \in DOMAIN notices : NoticeDone(k) => NoticeDone(k)'
         /\ \A k \in DOMAIN alerts : \A c \in configured : DealDone(k, c) => DealDone(k, c)'
         /\ \A k \in DOMAIN alerts : Route(alerts[k].offer)' = Route(alerts[k].offer)
<1>1. TypeOK
  BY DEF AuditInv, TypedInv
<1>2. ASSUME NEW n \in Notices, Told(n) PROVE Told(n)'
  <2>1. IdOf(n) \in Ids /\ About(n, IdOf(n)) /\ IdOf(n)' = IdOf(n)
    BY IdFacts DEF About, IdOf
  <2>2. Settled(IdOf(n), n)
    BY <1>2 DEF Told
  <2>3. outbox'[IdOf(n)].status \in {"PENDING", "DEAD_LETTER"} \/ told'[<<n, IdOf(n)[2]>>] # Never
    BY <2>1, <2>2, SettledStays DEF Settled
  <2>4. QED
    BY <2>1, <2>3 DEF Told, Settled
<1>3. ASSUME NEW k \in DOMAIN notices, NoticeDone(k) PROVE NoticeDone(k)'
  <2>1. notices[k] \in Notices /\ Told(notices[k])
    BY <1>1, <1>3 DEF TypeOK, NoticeDone
  <2>2. PICK n \in Notices : n = notices[k] /\ Told(n)
    BY <2>1
  <2>3. Told(n)' /\ notices'[k] = n
    BY <1>2, <2>2
  <2>4. QED
    BY <2>3 DEF NoticeDone, Told, Settled, IdOf
<1>4. ASSUME NEW k \in DOMAIN alerts, NEW c \in configured, DealDone(k, c) PROVE DealDone(k, c)'
  <2>1. PICK o \in Offers : o = alerts[k].offer
    BY <1>1, OfferOf
  <2>2. <<o, c>> \in Ids /\ About(o, <<o, c>>) /\ Settled(<<o, c>>, o)
    BY <1>1, <1>4, <2>1 DEF TypeOK, Ids, About, DealDone
  <2>3. outbox'[<<o, c>>].status \in {"PENDING", "DEAD_LETTER"} \/ told'[<<o, <<o, c>>[2]>>] # Never
    BY <2>2, SettledStays DEF Settled
  <2>4. alerts'[k].offer = o
    BY <2>1
  <2>5. QED
    BY <2>3, <2>4 DEF DealDone, Settled
<1>5. \A k \in DOMAIN alerts : Route(alerts[k].offer)' = Route(alerts[k].offer)
  BY DEF Route
<1>6. QED
  BY <1>2, <1>3, <1>4, <1>5

(* Steps that go through neither list.                                      *)
Elsewhere == UNCHANGED <<stage, configured, notices, alerts, silenced, pos, todo>>

LEMMA ElsewhereProgress ==
  ASSUME DistinctTexts, TriedInv, [Next]_vars, Elsewhere
  PROVE  ProgressInv'
<1>1. AuditInv /\ SentInv /\ ProgressInv /\ TypeOK
  BY DEF TriedInv, AuditInv, TypedInv
<1>2. CASE stage \in {"off", "replay"}
  BY <1>1, <1>2 DEF ProgressInv, Elsewhere
<1>3. ASSUME stage \in {"health", "deals"}
      PROVE  /\ \A n \in Notices : Told(n) => Told(n)'
             /\ \A k \in DOMAIN notices : NoticeDone(k) => NoticeDone(k)'
             /\ \A k \in DOMAIN alerts : AlertDone(k) => AlertDone(k)'
  <2>1. stage' # "off" /\ notices' = notices /\ alerts' = alerts /\ configured' = configured
        /\ todo' = todo /\ pos' = pos
    BY <1>3 DEF Elsewhere
  <2>2. ASSUME NEW k \in DOMAIN alerts, AlertDone(k) PROVE AlertDone(k)'
    <3>1. \A c \in configured : DealDone(k, c) => DealDone(k, c)'
      BY <1>1, <2>1, DoneStays
    <3>2. Route(alerts[k].offer)' = Route(alerts[k].offer)
      BY <1>1, <2>1, DoneStays
    <3>3. QED
      BY <2>1, <2>2, <3>1, <3>2 DEF AlertDone
  <2>3. QED
    BY <1>1, <2>1, <2>2, DoneStays
<1>4. CASE stage = "health"
  <2>1. /\ \A n \in silenced : Told(n)'
        /\ \A k \in DOMAIN notices : k < pos => NoticeDone(k)'
    BY <1>1, <1>3, <1>4 DEF ProgressInv, TypeOK
  <2>2. QED
    BY <1>4, <2>1 DEF ProgressInv, Elsewhere
<1>5. CASE stage = "deals"
  <2>1. /\ \A k \in DOMAIN notices : NoticeDone(k)'
        /\ \A k \in DOMAIN alerts : k < pos => AlertDone(k)'
    BY <1>1, <1>3, <1>5 DEF ProgressInv
  <2>2. QED
    BY <1>5, <2>1 DEF ProgressInv, Elsewhere
<1>6. QED
  BY <1>1, <1>2, <1>4, <1>5 DEF TypeOK

(* The steps through the notices.                                           *)
LEMMA HealthProgress ==
  ASSUME DistinctTexts, TriedInv, [Next]_vars,
         ReplayEnds \/ SkipNotice \/ QueueNotice \/ HealthEnds
  PROVE  ProgressInv'
<1>1. AuditInv /\ SentInv /\ ProgressInv /\ TypeOK
  BY DEF TriedInv, AuditInv, TypedInv
<1>2. /\ stage' \in {"health", "deals"} /\ notices' = notices /\ alerts' = alerts
      /\ configured' = configured
  BY DEF ReplayEnds, SkipNotice, QueueNotice, HealthEnds, Free, input
<1>3. /\ \A n \in Notices : Told(n) => Told(n)'
      /\ \A k \in DOMAIN notices : NoticeDone(k) => NoticeDone(k)'
  BY <1>1, <1>2, DoneStays
<1>4. silenced \subseteq Notices /\ pos \in Nat
      /\ \A k \in DOMAIN notices : notices[k] \in Notices /\ k \in Nat /\ k >= 1
  BY <1>1 DEF TypeOK
<1>5. CASE ReplayEnds
  <2>1. /\ stage = "replay" /\ stage' = "health" /\ pos' = pos
        /\ silenced' = {n \in Notices : outbox[IdOf(n)].status = "SENT"}
    BY <1>5 DEF ReplayEnds, Free
  <2>2. pos' = 1
    BY <1>1, <2>1 DEF ProgressInv
  <2>3. ASSUME NEW n \in silenced' PROVE Told(n)'
    <3>1. n \in Notices /\ outbox[IdOf(n)].status = "SENT"
      BY <2>1
    <3>2. IdOf(n) \in Ids /\ About(n, IdOf(n))
      BY <3>1, IdFacts DEF About
    <3>3. Told(n)
      BY <1>1, <3>1, <3>2, SentSettled DEF Told
    <3>4. QED
      BY <1>3, <3>1, <3>3
  <2>4. \A k \in DOMAIN notices' : ~(k < pos')
    BY <1>2, <1>4, <2>2
  <2>5. QED
    BY <2>1, <2>2, <2>3, <2>4 DEF ProgressInv
<1>6. CASE SkipNotice \/ QueueNotice
  <2>1. /\ stage = "health" /\ stage' = "health" /\ pos' = pos + 1 /\ pos \in DOMAIN notices
        /\ silenced' = silenced
    BY <1>6 DEF SkipNotice, QueueNotice, Free
  <2>2. Notice \in Notices /\ Notice = notices[pos]
    BY <1>4, <2>1 DEF Notice
  <2>3. ASSUME NEW k \in DOMAIN notices, k = pos PROVE NoticeDone(k)'
    <3>1. CASE SkipNotice
      <4>1. NoticeDone(k)
        BY <1>1, <2>1, <2>2, <2>3, <3>1 DEF SkipNotice, ProgressInv, NoticeDone
      <4>2. QED
        BY <1>3, <4>1
    <3>2. CASE QueueNotice
      <4>1. Put(IdOf(Notice), "PENDING", Notice)
        BY <3>2 DEF QueueNotice
      <4>2. IdOf(Notice) \in Ids /\ Notice \in Subjects
        BY <2>2, IdFacts DEF Subjects
      <4>3. outbox'[IdOf(Notice)] = [status |-> "PENDING", age |-> 0, about |-> Notice]
        BY <1>1, <4>1, <4>2, PutTyped
      <4>4. IdOf(Notice) = IdOf(notices'[k])
        BY <1>2, <2>2, <2>3 DEF IdOf
      <4>5. outbox'[IdOf(notices'[k])].status = "PENDING"
        BY <4>3, <4>4
      <4>6. QED
        BY <4>5 DEF NoticeDone, Told, Settled, IdOf
    <3>3. QED
      BY <1>6, <3>1, <3>2
  <2>4. ASSUME NEW k \in DOMAIN notices, k < pos + 1 PROVE NoticeDone(k)'
    <3>1. k = pos \/ k < pos
      BY <1>4, <2>4
    <3>2. k < pos => NoticeDone(k)
      BY <1>1, <2>1 DEF ProgressInv
    <3>3. k < pos => NoticeDone(k)'
      BY <1>3, <3>2
    <3>4. QED
      BY <2>3, <3>1, <3>3
  <2>5. \A n \in silenced' : Told(n)'
    BY <1>1, <1>3, <1>4, <2>1 DEF ProgressInv
  <2>6. QED
    BY <1>2, <2>1, <2>4, <2>5 DEF ProgressInv
<1>7. CASE HealthEnds
  <2>1. stage = "health" /\ stage' = "deals" /\ pos' = 1 /\ pos \notin DOMAIN notices
    BY <1>7 DEF HealthEnds, Free
  <2>2. \A k \in DOMAIN notices : k < pos
    BY <1>1, <2>1 DEF TypeOK
  <2>3. \A k \in DOMAIN notices' : NoticeDone(k)'
    BY <1>1, <1>2, <1>3, <2>1, <2>2 DEF ProgressInv
  <2>4. \A k \in DOMAIN alerts' : ~(k < pos')
    BY <1>1, <1>2, <2>1 DEF TypeOK
  <2>5. QED
    BY <2>1, <2>3, <2>4 DEF ProgressInv
<1>8. QED
  BY <1>5, <1>6, <1>7

(* The steps through the alerts.                                            *)
LEMMA DealsProgress ==
  ASSUME DistinctTexts, TriedInv, [Next]_vars,
         TakeAlert \/ \E c \in todo : SkipChannel(c) \/ QueueDeal(c)
  PROVE  ProgressInv'
<1>1. AuditInv /\ SentInv /\ ProgressInv /\ TypeOK /\ TodoInv
  BY DEF TriedInv, AuditInv, TypedInv
<1>2. /\ stage = "deals" /\ stage' = "deals" /\ notices' = notices /\ alerts' = alerts
      /\ configured' = configured
  BY DEF TakeAlert, SkipChannel, QueueDeal, Free, input
<1>3. \A k \in DOMAIN notices' : NoticeDone(k)'
  BY <1>1, <1>2, DoneStays DEF ProgressInv
<1>4. \A k \in DOMAIN alerts : \A c \in configured : DealDone(k, c) => DealDone(k, c)'
  BY <1>1, <1>2, DoneStays
<1>5. \A k \in DOMAIN alerts : Route(alerts[k].offer)' = Route(alerts[k].offer)
  BY <1>1, <1>2, DoneStays
<1>6. \A k \in DOMAIN alerts : k < pos => AlertDone(k)
  BY <1>1, <1>2 DEF ProgressInv
<1>7. pos \in Nat /\ \A k \in DOMAIN alerts : alerts[k].offer \in Offers /\ k \in Nat /\ k >= 1
  BY <1>1, OfferOf DEF TypeOK
<1>8. SUFFICES \A k \in DOMAIN alerts : k < pos' => AlertDone(k)'
  BY <1>2, <1>3 DEF ProgressInv
<1>9. CASE TakeAlert
  <2>1. /\ todo = {} /\ pos \in DOMAIN alerts /\ pos' = pos + 1
        /\ todo' = IF \E i \in 1..(pos - 1) : alerts[i].offer = alerts[pos].offer
                   THEN {} ELSE Route(alerts[pos].offer)
    BY <1>9 DEF TakeAlert
  <2>2. ASSUME NEW k \in DOMAIN alerts, k < pos PROVE AlertDone(k)'
    <3>1. \A c \in Route(alerts[k].offer) \cap configured : DealDone(k, c)
      BY <1>6, <2>1, <2>2 DEF AlertDone
    <3>2. \A c \in Route(alerts[k].offer)' \cap configured' : DealDone(k, c)'
      BY <1>2, <1>4, <1>5, <2>2, <3>1
    <3>3. QED
      BY <3>2 DEF AlertDone
  <2>3. ASSUME NEW k \in DOMAIN alerts, k = pos PROVE AlertDone(k)'
    <3>1. ASSUME NEW i \in 1..(k - 1), alerts[i].offer = alerts[k].offer PROVE AlertDone(k)'
      <4>1. i \in DOMAIN alerts /\ i < pos
        BY <1>1, <2>1, <2>3 DEF TypeOK
      <4>2. \A c \in Route(alerts[i].offer) \cap configured : DealDone(i, c)
        BY <1>6, <2>1, <4>1 DEF AlertDone
      <4>3. \A c \in Route(alerts[k].offer) \cap configured : DealDone(k, c)
        BY <3>1, <4>2 DEF DealDone
      <4>4. \A c \in Route(alerts[k].offer)' \cap configured' : DealDone(k, c)'
        BY <1>2, <1>4, <1>5, <4>3
      <4>5. QED
        BY <4>4 DEF AlertDone
    <3>2. CASE ~ \E i \in 1..(k - 1) : alerts[i].offer = alerts[k].offer
      <4>1. todo' = Route(alerts[k].offer)
        BY <2>1, <2>3, <3>2
      <4>2. todo' = Route(alerts[k].offer)'
        BY <1>5, <4>1
      <4>3. pos' - 1 = k
        BY <1>7, <2>1, <2>3
      <4>4. QED
        BY <4>2, <4>3 DEF AlertDone
    <3>3. QED
      BY <3>1, <3>2
  <2>4. \A k \in DOMAIN alerts : k < pos + 1 => k = pos \/ k < pos
    BY <1>7
  <2>5. QED
    BY <2>1, <2>2, <2>3, <2>4
<1>10. ASSUME NEW d \in todo, SkipChannel(d) \/ QueueDeal(d)
       PROVE  \A k \in DOMAIN alerts : k < pos' => AlertDone(k)'
  <2>1. pos' = pos /\ todo' = todo \ {d} /\ pos - 1 \in DOMAIN alerts
    BY <1>1, <1>10 DEF SkipChannel, QueueDeal, TodoInv
  <2> DEFINE o == alerts[pos - 1].offer
  <2>2. o \in Offers /\ d \in Channels /\ Deal(d) = <<o, d>>
    BY <1>1, <1>7, <2>1 DEF Deal, TypeOK
  <2>3. <<o, d>> \in Ids /\ About(o, <<o, d>>)
    BY <2>2 DEF Ids, About
  <2>4. ASSUME d \in configured PROVE DealDone(pos - 1, d)'
    <3>1. CASE SkipChannel(d)
      <4>1. outbox[<<o, d>>].status \in {"PENDING", "SENT"}
        BY <2>2, <2>4, <3>1 DEF SkipChannel, InFlight, CoolingDown
      <4>2. Settled(<<o, d>>, o)
        BY <1>1, <2>3, <4>1, SentSettled DEF Settled
      <4>3. QED
        BY <1>4, <2>1, <2>4, <4>2 DEF DealDone
    <3>2. CASE QueueDeal(d)
      <4>1. Put(<<o, d>>, "PENDING", o)
        BY <2>2, <3>2 DEF QueueDeal
      <4>2. outbox'[<<o, d>>] = [status |-> "PENDING", age |-> 0, about |-> o]
        BY <1>1, <2>2, <2>3, <4>1, PutTyped DEF Subjects
      <4>3. alerts'[pos' - 1].offer = o
        BY <1>2, <2>1
      <4>4. outbox'[<<alerts'[pos' - 1].offer, d>>].status = "PENDING"
        BY <4>2, <4>3
      <4>5. QED
        BY <2>1, <4>4 DEF DealDone, Settled
    <3>3. QED
      BY <1>10, <3>1, <3>2
  <2>5. ASSUME NEW k \in DOMAIN alerts, k < pos PROVE AlertDone(k)'
    <3>1. ASSUME NEW c \in Route(alerts[k].offer) \cap configured
          PROVE  (c \in todo' /\ alerts'[k].offer = alerts'[pos' - 1].offer) \/ DealDone(k, c)'
      <4>1. (c \in todo /\ alerts[k].offer = o) \/ DealDone(k, c)
        BY <1>6, <2>5 DEF AlertDone
      <4>2. CASE DealDone(k, c)
        BY <1>4, <4>2
      <4>3. CASE c \in todo /\ alerts[k].offer = o /\ c # d
        BY <1>2, <2>1, <4>3
      <4>4. CASE c = d /\ alerts[k].offer = o
        <5>1. alerts'[k].offer = alerts'[pos' - 1].offer
          BY <1>2, <2>1, <4>4
        <5>2. DealDone(pos - 1, d)'
          BY <2>4, <4>4
        <5>3. QED
          BY <2>1, <4>4, <5>1, <5>2 DEF DealDone, Settled
      <4>5. QED
        BY <4>1, <4>2, <4>3, <4>4
    <3>2. QED
      BY <1>2, <1>5, <3>1 DEF AlertDone
  <2>6. QED
    BY <2>1, <2>5
<1>11. QED
  BY <1>9, <1>10

LEMMA StepTried == DistinctTexts /\ TriedInv /\ [Next]_vars => TriedInv'
<1> SUFFICES ASSUME DistinctTexts, TriedInv, [Next]_vars PROVE TriedInv'
  OBVIOUS
<1>1. AuditInv' /\ SentInv'
  BY StepAudit, StepSent DEF TriedInv
<1> SUFFICES ProgressInv'
  BY <1>1 DEF TriedInv
<1>2. CASE \/ Delivered \/ AnswerLost \/ SendFails \/ Refused \/ Record \/ Audit \/ Tick
           \/ UNCHANGED vars \/ \E id \in due : Replay(id)
  <2>1. Elsewhere
    BY <1>2 DEF Elsewhere, Delivered, AnswerLost, SendFails, Refused, Record, Audit, Tick,
       Replay, vars, input, run
  <2>2. QED
    BY <2>1, ElsewhereProgress
<1>3. CASE ReplayEnds \/ SkipNotice \/ QueueNotice \/ HealthEnds
  BY <1>3, HealthProgress
<1>4. CASE TakeAlert \/ \E c \in todo : SkipChannel(c) \/ QueueDeal(c)
  BY <1>4, DealsProgress
<1>5. CASE StartRun
  <2>1. stage = "off" /\ stage' = "replay" /\ pos' = pos
    BY <1>5 DEF StartRun
  <2>2. QED
    BY <2>1 DEF TriedInv, ProgressInv
<1>6. CASE EndRun \/ Crash
  <2>1. stage' = "off" /\ pos' = 1
    BY <1>6 DEF EndRun, Crash, Leave
  <2>2. QED
    BY <2>1 DEF ProgressInv
<1>7. QED
  BY <1>2, <1>3, <1>4, <1>5, <1>6 DEF Next, Work

(* No alert and no notice is dropped: when a run ends, each of them has     *)
(* reached the user, or is dead-lettered, or waits for the replay, on every *)
(* configured channel of every watch that asked for it.                     *)
THEOREM EveryoneIsTried == ASSUME DistinctTexts PROVE Spec => EveryoneTried
<1>1. TriedInv => (EndRun => /\ \A i \in DOMAIN notices : Settled(IdOf(notices[i]), notices[i])
                             /\ \A i \in DOMAIN alerts : \A c \in alerts[i].channels \cap configured :
                                  Settled(<<alerts[i].offer, c>>, alerts[i].offer))
  <2> SUFFICES ASSUME TriedInv, EndRun
               PROVE  /\ \A i \in DOMAIN notices : NoticeDone(i)
                      /\ \A i \in DOMAIN alerts : \A c \in alerts[i].channels \cap configured :
                           DealDone(i, c)
    BY DEF NoticeDone, Told, DealDone
  <2>1. stage = "deals" /\ todo = {} /\ pos \notin DOMAIN alerts /\ TypeOK /\ ProgressInv
    BY DEF EndRun, Free, TriedInv, AuditInv, TypedInv
  <2>2. \A i \in DOMAIN alerts : i < pos
    BY <2>1 DEF TypeOK
  <2>3. ASSUME NEW i \in DOMAIN alerts, NEW c \in alerts[i].channels \cap configured
        PROVE  DealDone(i, c)
    <3>1. AlertDone(i)
      BY <2>1, <2>2 DEF ProgressInv
    <3>2. c \in Route(alerts[i].offer)
      BY DEF Route
    <3>3. QED
      BY <2>1, <3>1, <3>2 DEF AlertDone
  <2>4. QED
    BY <2>1, <2>3 DEF ProgressInv
<1>2. QED
  BY <1>1, InitTried, StepTried, PTL DEF Spec, EveryoneTried
============================================================================
