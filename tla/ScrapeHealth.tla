---------------------------- MODULE ScrapeHealth ----------------------------
(***************************************************************************)
(* scripts/scrape.py, the health of the stores: each run appends one       *)
(* record per store it fetched to scrape_health.jsonl, and every decision  *)
(* (quarantine, probe, cooldown, the three notices) is a query over that   *)
(* log.  notify.py sends a notice unless it sent the same text before.     *)
(*                                                                         *)
(* The queries read a store's last two records and the first record of its *)
(* trailing zeros, which is what the state keeps of the log.  A run may    *)
(* die after the records are appended and before the notices are written.  *)
(***************************************************************************)
EXTENDS Naturals, FiniteSets

CONSTANTS Stores,
          MaxTime,    \* bound: time
          MaxScrapes, \* bound: runs
          Cooldown,   \* RATE_LIMIT_COOLDOWN_MINUTES
          ProbeAge,   \* QUARANTINE_PROBE_HOURS
          DeadMan,    \* DEAD_MAN_THRESHOLD_HOURS
          Limitable   \* bound: stores that may answer with 403 or 429

ASSUME HealthAssumption ==
  /\ MaxTime \in Nat \ {0} /\ MaxScrapes \in Nat /\ Limitable \subseteq Stores
  /\ Cooldown \in Nat /\ ProbeAge \in Nat \ {0} /\ Cooldown <= ProbeAge /\ DeadMan \in Nat

Times == 1..MaxTime
Never == 0
NoRecord == [at |-> Never, parsed |-> FALSE, others |-> FALSE, limited |-> FALSE, good |-> Never]
Records == [at : Times \cup {Never}, parsed : BOOLEAN, others : BOOLEAN, limited : BOOLEAN,
            good : Times \cup {Never}]

VARIABLES
  clock, scrapes,
  last, previous,   \* a store's last two records
  zeros,            \* run_started_utc of the first of its trailing zero records
  step,             \* "off", or "notices" when the records are appended
  notices,          \* what the run is about to write
  told,             \* texts the user got
  parsedAt,         \* history: when a store last parsed something
  known,            \* history: kinds of notice the user got about a store since it last parsed
  fetched,          \* history: stores the last run fetched
  died              \* history: a run died before its notices

log == <<last, previous, zeros>>
healthHistory == <<parsedAt, known, fetched, died>>
healthVars == <<clock, scrapes, log, step, notices, told, healthHistory>>

HealthInit ==
  /\ clock = 1 /\ scrapes = 0
  /\ last = [s \in Stores |-> NoRecord] /\ previous = [s \in Stores |-> NoRecord]
  /\ zeros = [s \in Stores |-> Never]
  /\ step = "off" /\ notices = {} /\ told = {}
  /\ parsedAt = [s \in Stores |-> Never]
  /\ known = [s \in Stores |-> {}] /\ fetched = {} /\ died = FALSE

----------------------------------------------------------------------------
(* _quarantined_stores: the last two records are zero and another store     *)
(* parsed something in one of the two runs.                                 *)
Quarantined(l, p) ==
  {s \in Stores : /\ p[s].at # Never /\ ~l[s].parsed /\ ~p[s].parsed
                  /\ l[s].others \/ p[s].others}

(* _probe_due_stores *)
ProbeDue_After(l) == {s \in Stores : clock - l[s].at > ProbeAge}
ProbeDue(l) == {s \in Stores : clock - l[s].at >= ProbeAge}

(* _rate_limited_stores *)
Cooling == {s \in Stores : last[s].at # Never /\ last[s].limited /\ clock - last[s].at < Cooldown}

Probing == Quarantined(last, previous) \cap ProbeDue(last)
Attempted == (Stores \ (Quarantined(last, previous) \ ProbeDue(last))) \ Cooling

(* The record a fetched store gets.                                         *)
LastGood(s, parsed) == IF parsed THEN clock ELSE last[s].good

NewRecord(s, outcome) ==
  [at |-> clock, parsed |-> outcome[s].parsed, limited |-> outcome[s].limited,
   others |-> \E t \in DOMAIN outcome \ {s} : outcome[t].parsed,
   good |-> LastGood(s, outcome[s].parsed)]

(* _outage_start *)
OutageStart_First(s, parsed) == IF zeros[s] = Never /\ ~parsed THEN clock ELSE zeros[s]
OutageStart(s, parsed) ==
  IF parsed THEN Never ELSE IF zeros[s] = Never THEN clock ELSE zeros[s]

(* The three notices.  A dead-man text names all its stores.                *)
Breakdowns(before, after) == {<<"breakdown", {<<s, zeros'[s]>>}>> : s \in after \ before}
Recoveries(after) ==
  {<<"recovered", {<<s, clock>>}>> : s \in {t \in Probing \cap Attempted : last'[t].parsed} \ after}
Stale(after) ==
  {s \in Attempted \ (Probing \cap after) : /\ last'[s].good # Never
                                            /\ clock - last'[s].good > DeadMan}
DeadMans_StoresOnly(after) ==
  IF Stale(after) = {} THEN {} ELSE {<<"deadman", {<<s, Never>> : s \in Stale(after)}>>}
DeadMans(after) ==
  IF Stale(after) = {} THEN {}
  ELSE {<<"deadman", {<<s, last'[s].good>> : s \in Stale(after)}>>}

(* _run, up to the records: an exception of a scraper counts as zero.       *)
Scrape ==
  /\ step = "off" /\ scrapes < MaxScrapes
  /\ \E outcome \in [Attempted -> [parsed : BOOLEAN, limited : BOOLEAN]] :
       /\ \A s \in Attempted \ Limitable : ~outcome[s].limited
       /\ last' = [s \in Stores |-> IF s \in Attempted THEN NewRecord(s, outcome) ELSE last[s]]
       /\ previous' = [s \in Stores |-> IF s \in Attempted THEN last[s] ELSE previous[s]]
       /\ zeros' = [s \in Stores |-> IF s \in Attempted THEN OutageStart(s, outcome[s].parsed)
                                                         ELSE zeros[s]]
       /\ parsedAt' = [s \in Stores |-> IF s \in Attempted /\ outcome[s].parsed THEN clock
                                                                               ELSE parsedAt[s]]
       /\ known' = [s \in Stores |-> IF s \in Attempted /\ outcome[s].parsed THEN {} ELSE known[s]]
  /\ LET before == Quarantined(last, previous)
         after == Quarantined(last', previous')
     IN  notices' = Breakdowns(before, after) \cup Recoveries(after) \cup DeadMans(after)
  /\ scrapes' = scrapes + 1 /\ step' = "notices" /\ fetched' = Attempted
  /\ UNCHANGED <<clock, told, died>>

(* scrape_health_alerts.json, the history and alerts.json are written, and  *)
(* notify sends the texts it has not sent before.                           *)
Notify ==
  /\ step = "notices"
  /\ known' = [s \in Stores |-> known[s] \cup
                 {n[1] : n \in {m \in notices \ told : \E id \in m[2] : id[1] = s}}]
  /\ told' = told \cup notices
  /\ step' = "off" /\ notices' = {}
  /\ UNCHANGED <<clock, scrapes, log, parsedAt, fetched, died>>

(* The run dies, or the database or a file cannot be written.               *)
Die ==
  /\ step = "notices"
  /\ step' = "off" /\ notices' = {} /\ died' = TRUE
  /\ UNCHANGED <<clock, scrapes, log, told, parsedAt, known, fetched>>

ClockTick ==
  /\ step = "off" /\ clock < MaxTime
  /\ clock' = clock + 1
  /\ UNCHANGED <<scrapes, log, step, notices, told, healthHistory>>

HealthNext == Scrape \/ Notify \/ Die \/ ClockTick

HealthSpec == HealthInit /\ [][HealthNext]_healthVars

----------------------------------------------------------------------------
HealthTypeOK ==
  /\ clock \in Times /\ scrapes \in 0..MaxScrapes
  /\ last \in [Stores -> Records] /\ previous \in [Stores -> Records]
  /\ zeros \in [Stores -> Times \cup {Never}]
  /\ step \in {"off", "notices"}
  /\ known \in [Stores -> SUBSET {"breakdown", "recovered", "deadman"}]
  /\ parsedAt \in [Stores -> Times \cup {Never}]
  /\ fetched \subseteq Stores /\ died \in BOOLEAN

(* The user knows of every quarantine: a later outage of the store is never *)
(* taken for one that was already told.                                     *)
QuarantineTold ==
  step = "off" /\ ~died =>
    \A s \in Quarantined(last, previous) : "breakdown" \in known[s]

(* Whatever the quarantine, the probes and the cooldowns do, the user was   *)
(* told of the present silence of every store that once parsed and has not  *)
(* for longer than the limit, after every run that fetched it: news that it *)
(* recovered, or of an earlier silence in the same words, is not enough.    *)
SilenceTold ==
  step = "off" /\ ~died =>
    \A s \in fetched : last[s].at = clock /\ parsedAt[s] # Never /\ clock - parsedAt[s] > DeadMan
                         => known[s] \cap {"breakdown", "deadman"} # {}

(* No store is left alone for long: a run fetches every store whose newest  *)
(* record has the probe's age.                                              *)
ProbedInTime ==
  step = "off" /\ step' = "notices" =>
    \A s \in Stores : last[s].at # Never /\ clock - last[s].at >= ProbeAge => s \in fetched'
NoStoreStarves == [][ProbedInTime]_healthVars
============================================================================
