---------------------------- MODULE NotifyOutbox ----------------------------
(***************************************************************************)
(* scripts/notify.py: one run replays what an earlier run left PENDING in  *)
(* the outbox, sends the health notices, then the deal alerts, each as     *)
(* PENDING -> send -> SENT or DEAD_LETTER -> audit row.  Runs come one     *)
(* after the other (the workflow's concurrency group); a run may die       *)
(* anywhere, and the next one starts from the files that were saved.       *)
(*                                                                         *)
(* The outbox is append-only and the last line of an event id wins, so it  *)
(* is a function from ids to records.  The copy a run holds in memory      *)
(* differs from the file only in the notices this run sent (silenced).     *)
(* Times are ages, counted up to the longest period anything asks for.     *)
(***************************************************************************)
EXTENDS Naturals, Sequences

CONSTANTS Offers,       \* offers at a price (url, price, site: the dedup key)
          Notices,      \* operational events a health text reports
          TextOf,       \* the text of each notice, whose hash is its event id
          Channels,
          Telegram,     \* the channel of every notice, always configured
          Nobody,
          Grace,        \* REPLAY_GRACE_SECONDS
          Cooldown,     \* cooldown_hours
          MaxAttempts,  \* notify.MAX_ATTEMPTS
          MaxAlerts,    \* bound: alerts, and notices, of a run
          MaxCrashes    \* bound: runs that die

Subjects == Offers \cup Notices
Ids == (Offers \X Channels) \cup ({TextOf[n] : n \in Notices} \X {Telegram})
Forever == IF Grace < Cooldown THEN Cooldown ELSE Grace
Never == Forever + 1
Ages == 0..Forever
Records == [status : {"none", "PENDING", "SENT", "DEAD_LETTER"}, age : Ages,
            about : Subjects \cup {Nobody}]
NoRecord == [status |-> "none", age |-> 0, about |-> Nobody]
Alerts == [offer : Offers, channels : (SUBSET Channels) \ {{}}]
UpTo(n, S) == UNION {[1..m -> S] : m \in 0..n}

ASSUME NotifyAssumption ==
  /\ Telegram \in Channels
  /\ \A n \in Notices : n \notin Offers /\ TextOf[n] \notin Offers
  /\ Nobody \notin Subjects \cup Channels
  /\ Grace \in Nat /\ Cooldown \in Nat \ {0}
  /\ MaxAttempts \in Nat \ {0} /\ MaxAlerts \in Nat /\ MaxCrashes \in Nat

VARIABLES
  outbox,      \* alert_outbox.jsonl: the last record of each event id
  audit,       \* delivery_attempts: ids with a "delivered" row
  saved,       \* both files as the next run will find them
  stage,       \* where the run stands
  configured,  \* channels this run has settings for
  notices,     \* scrape_health_alerts.json
  alerts,      \* formatted_alerts.json: an offer and the channels of its watch
  due,         \* PENDING events the replay still has to resend
  silenced,    \* texts the run read as SENT
  pos,         \* next element of notices or alerts
  todo,        \* channels the current offer has not been through
  job,         \* the id being sent, what it is about, and how far it is
  told,        \* history: time since the user last got it, per subject and channel
  unsure,      \* history: ids delivered without a SENT record that lasted
  crashes

files == <<outbox, audit>>
input == <<configured, notices, alerts>>
run == <<due, silenced, pos, todo>>
history == <<told, unsure>>
vars == <<files, saved, stage, input, run, job, history, crashes>>

Job(id, about, step, tries) ==
  [id |-> id, about |-> about, step |-> step, tries |-> tries, ok |-> FALSE]

Idle == Job(<<Nobody, Nobody>>, Nobody, "none", 0)

Finished(ok) == [job EXCEPT !.step = "record", !.ok = ok]

Put(id, status, about) ==
  outbox' = [outbox EXCEPT ![id] = [status |-> status, age |-> 0, about |-> about]]

(* main loop: the next element is taken only when the last one is settled. *)
Free(s) == stage = s /\ job = Idle

IdOf(n) == <<TextOf[n], Telegram>>

----------------------------------------------------------------------------
Init ==
  /\ outbox = [id \in Ids |-> NoRecord] /\ audit = {}
  /\ saved = [outbox |-> outbox, audit |-> audit]
  /\ stage = "off"
  /\ configured = {} /\ notices = <<>> /\ alerts = <<>>
  /\ due = {} /\ silenced = {} /\ pos = 1 /\ todo = {}
  /\ job = Idle
  /\ told = [x \in Subjects \X Channels |-> Never] /\ unsure = {}
  /\ crashes = 0

(* A PENDING record within the grace period may be another run's.           *)
Stale_Fresh == {id \in Ids : outbox[id].status = "PENDING" /\ outbox[id].age < Grace}
Stale == {id \in Ids : outbox[id].status = "PENDING" /\ outbox[id].age >= Grace}

StartRun ==
  /\ stage = "off"
  /\ stage' = "replay"
  /\ \E C \in SUBSET Channels : Telegram \in C /\ configured' = C
  /\ notices' \in UpTo(MaxAlerts, Notices) /\ alerts' \in UpTo(MaxAlerts, Alerts)
  /\ due' = Stale
  /\ UNCHANGED <<files, saved, silenced, pos, todo, job, history, crashes>>

----------------------------------------------------------------------------
(* _replay_pending_outbox *)

Replay(id) ==
  /\ Free("replay") /\ id \in due
  /\ due' = due \ {id}
  /\ job' = IF id[2] \in configured
            THEN Job(id, outbox[id].about, "send", 1)
            ELSE Job(id, outbox[id].about, "record", 0)
  /\ UNCHANGED <<files, saved, stage, input, silenced, pos, todo, history, crashes>>

ReplayEnds ==
  /\ Free("replay") /\ due = {}
  /\ stage' = "health"
  /\ silenced' = {n \in Notices : outbox[IdOf(n)].status = "SENT"}
  /\ UNCHANGED <<files, saved, input, due, pos, todo, job, history, crashes>>

----------------------------------------------------------------------------
(* _send_health_alerts *)

Notice == notices[pos]

SkipNotice ==
  /\ Free("health") /\ pos \in DOMAIN notices /\ Notice \in silenced
  /\ pos' = pos + 1
  /\ UNCHANGED <<files, saved, stage, input, due, silenced, todo, job, history, crashes>>

QueueNotice ==
  /\ Free("health") /\ pos \in DOMAIN notices /\ Notice \notin silenced
  /\ pos' = pos + 1
  /\ Put(IdOf(Notice), "PENDING", Notice)
  /\ job' = Job(IdOf(Notice), Notice, "send", 1)
  /\ UNCHANGED <<audit, saved, stage, input, due, silenced, todo, history, crashes>>

HealthEnds ==
  /\ Free("health") /\ pos \notin DOMAIN notices
  /\ stage' = "deals" /\ pos' = 1
  /\ UNCHANGED <<files, saved, input, due, silenced, todo, job, history, crashes>>

----------------------------------------------------------------------------
(* The deal alerts.  An offer matched by several watches goes once to the   *)
(* union of their channels.                                                 *)

Route_FirstWatch(o) ==
  UNION {alerts[i].channels : i \in {j \in DOMAIN alerts :
           alerts[j].offer = o /\ \A k \in 1..(j - 1) : alerts[k].offer # o}}
Route(o) == UNION {alerts[i].channels : i \in {j \in DOMAIN alerts : alerts[j].offer = o}}

TakeAlert ==
  /\ Free("deals") /\ todo = {} /\ pos \in DOMAIN alerts
  /\ pos' = pos + 1
  /\ todo' = IF \E i \in 1..(pos - 1) : alerts[i].offer = alerts[pos].offer
             THEN {} ELSE Route(alerts[pos].offer)
  /\ UNCHANGED <<files, saved, stage, input, due, silenced, job, history, crashes>>

Deal(c) == <<alerts[pos - 1].offer, c>>
InFlight(id) == outbox[id].status = "PENDING"

CoolingDown_Grace(id) == outbox[id].status = "SENT" /\ outbox[id].age < Grace
CoolingDown(id) == outbox[id].status = "SENT" /\ outbox[id].age < Cooldown

SkipChannel(c) ==
  /\ Free("deals") /\ c \in todo
  /\ c \notin configured \/ InFlight(Deal(c)) \/ CoolingDown(Deal(c))
  /\ todo' = todo \ {c}
  /\ UNCHANGED <<files, saved, stage, input, due, silenced, pos, job, history, crashes>>

(* Telegram may get the chart first: one attempt, number 0, outside the     *)
(* retry budget.                                                            *)
QueueDeal(c) ==
  /\ Free("deals") /\ c \in todo
  /\ c \in configured /\ ~InFlight(Deal(c)) /\ ~CoolingDown(Deal(c))
  /\ todo' = todo \ {c}
  /\ Put(Deal(c), "PENDING", Deal(c)[1])
  /\ \E first \in IF c = Telegram THEN {0, 1} ELSE {1} :
       job' = Job(Deal(c), Deal(c)[1], "send", first)
  /\ UNCHANGED <<audit, saved, stage, input, due, silenced, pos, history, crashes>>

----------------------------------------------------------------------------
(* One send: _try_send_chart and _deliver_with_retry *)

Reached ==
  /\ told' = [told EXCEPT ![<<job.about, job.id[2]>>] = 0]
  /\ unsure' = unsure \cup {job.id}

AttemptsLeft_OneMore == job.tries <= MaxAttempts
AttemptsLeft == job.tries < MaxAttempts

Retry == job' = IF AttemptsLeft THEN [job EXCEPT !.tries = @ + 1] ELSE Finished(FALSE)

Delivered ==
  /\ job.step = "send"
  /\ Reached
  /\ job' = Finished(TRUE)
  /\ UNCHANGED <<files, saved, stage, input, run, crashes>>

(* The message gets through but its answer does not (a timeout, a 5xx).     *)
AnswerLost ==
  /\ job.step = "send"
  /\ Reached
  /\ Retry
  /\ UNCHANGED <<files, saved, stage, input, run, crashes>>

SendFails ==
  /\ job.step = "send"
  /\ Retry
  /\ UNCHANGED <<files, saved, stage, input, run, history, crashes>>

(* A 4xx other than 429 is permanent; for the chart it is one more failure. *)
Refused ==
  /\ job.step = "send" /\ job.tries > 0
  /\ job' = Finished(FALSE)
  /\ UNCHANGED <<files, saved, stage, input, run, history, crashes>>

Outcome_Optimistic == "SENT"
Outcome == IF job.ok THEN "SENT" ELSE "DEAD_LETTER"

Record ==
  /\ job.step = "record"
  /\ Put(job.id, Outcome, job.about)
  /\ job' = [job EXCEPT !.step = "audit"]
  /\ unsure' = IF job.ok THEN unsure \ {job.id} ELSE unsure
  /\ UNCHANGED <<audit, saved, stage, input, run, told, crashes>>

Audit ==
  /\ job.step = "audit"
  /\ audit' = IF job.ok THEN audit \cup {job.id} ELSE audit
  /\ job' = Idle
  /\ UNCHANGED <<outbox, saved, stage, input, run, history, crashes>>

----------------------------------------------------------------------------
(* The save step runs whether or not the run died; when it fails, or the    *)
(* machine is gone, the next run starts from the last files that were kept. *)
Leave ==
  /\ stage' = "off" /\ job' = Idle
  /\ configured' = {} /\ notices' = <<>> /\ alerts' = <<>>
  /\ due' = {} /\ silenced' = {} /\ pos' = 1 /\ todo' = {}
  /\ \/ /\ saved' = [outbox |-> outbox, audit |-> audit]
        /\ UNCHANGED <<files, unsure>>
     \/ /\ outbox' = saved.outbox /\ audit' = saved.audit
        /\ unsure' = unsure \cup {id \in Ids : outbox[id] # saved.outbox[id]}
        /\ UNCHANGED saved
  /\ UNCHANGED told

EndRun ==
  /\ Free("deals") /\ todo = {} /\ pos \notin DOMAIN alerts
  /\ Leave
  /\ UNCHANGED crashes

Crash ==
  /\ stage # "off" /\ crashes < MaxCrashes
  /\ crashes' = crashes + 1
  /\ Leave

Older(a) == IF a < Forever THEN a + 1 ELSE a
Aged(f) == [id \in Ids |-> [f[id] EXCEPT !.age = IF f[id].status = "none" THEN 0 ELSE Older(@)]]

Tick ==
  /\ outbox' = Aged(outbox)
  /\ saved' = [saved EXCEPT !.outbox = Aged(saved.outbox)]
  /\ told' = [x \in Subjects \X Channels |-> IF told[x] = Never THEN Never ELSE Older(told[x])]
  /\ UNCHANGED <<audit, stage, input, run, job, unsure, crashes>>

Work ==
  \/ (\E id \in due : Replay(id)) \/ ReplayEnds
  \/ SkipNotice \/ QueueNotice \/ HealthEnds
  \/ TakeAlert \/ \E c \in todo : SkipChannel(c) \/ QueueDeal(c)
  \/ Delivered \/ AnswerLost \/ SendFails \/ Refused
  \/ Record \/ Audit \/ EndRun

Next == StartRun \/ Work \/ Crash \/ Tick

Spec == Init /\ [][Next]_vars

(* The schedule keeps starting runs, a run that is not killed goes on, and  *)
(* time passes.                                                             *)
FairSpec == Spec /\ WF_vars(StartRun) /\ WF_vars(Work) /\ WF_vars(Tick)

----------------------------------------------------------------------------
(* Every variable has its type. *)
Jobs == {Idle} \cup [id : Ids, about : Subjects, step : {"send", "record", "audit"},
                     tries : 0..MaxAttempts, ok : BOOLEAN]

TypeOK ==
  /\ outbox \in [Ids -> Records] /\ audit \subseteq Ids
  /\ saved \in [outbox : [Ids -> Records], audit : SUBSET Ids]
  /\ stage \in {"off", "replay", "health", "deals"}
  /\ configured \subseteq Channels
  /\ notices \in Seq(Notices) /\ alerts \in Seq(Alerts)
  /\ due \subseteq Ids /\ silenced \subseteq Notices
  /\ pos \in Nat \ {0} /\ todo \subseteq Channels
  /\ job \in Jobs
  /\ told \in [Subjects \X Channels -> Ages \cup {Never}] /\ unsure \subseteq Ids
  /\ crashes \in 0..MaxCrashes

(* The user gets an offer on a channel at most once per cooldown, over      *)
(* replays, retries, several watches and several runs, except when a        *)
(* delivery left no SENT record behind: the answer was lost, the run died   *)
(* before the record, or the record was not saved.                          *)
NoRepeat ==
  [][(Delivered \/ AnswerLost) /\ job.about \in Offers /\ told[<<job.about, job.id[2]>>] < Cooldown
       => job.id \in unsure]_vars

(* No alert and no notice is dropped: when a run ends, each of them has     *)
(* reached the user once, or is dead-lettered, or waits for the replay, on  *)
(* every configured channel of every watch that asked for it.               *)
Settled(id, about) ==
  outbox[id].status \in {"PENDING", "DEAD_LETTER"} \/ told[<<about, id[2]>>] # Never

EveryoneTried ==
  [][EndRun => /\ \A i \in DOMAIN notices : Settled(IdOf(notices[i]), notices[i])
               /\ \A i \in DOMAIN alerts : \A c \in alerts[i].channels \cap configured :
                    Settled(<<alerts[i].offer, c>>, alerts[i].offer)]_vars

(* The audit table, which decides whether a pressed feedback button counts, *)
(* agrees with the outbox: a "delivered" row means that the user got the    *)
(* message, and only a run that dies can leave a SENT event without one.    *)
AuditAgrees ==
  /\ \A id \in audit : \E x \in Subjects :
       /\ id = <<x, id[2]>> \/ (x \in Notices /\ id = IdOf(x))
       /\ told[<<x, id[2]>>] # Never
  /\ crashes = 0 =>
       \A id \in Ids : outbox[id].status = "SENT" => id \in audit \/ job.id = id

(* A PENDING event left by a dead run is settled by a later one.            *)
PendingResolved ==
  \A id \in Ids : (outbox[id].status = "PENDING") ~> (outbox[id].status # "PENDING")
============================================================================
