----------------------------- MODULE AiAnalysis -----------------------------
(***************************************************************************)
(* scripts/analyze.py: each alert of the scrape gets a rule's verdict and  *)
(* a model's explanation, from Hugging Face, or Ollama, or a template.     *)
(* The notices the scrape left for the user are in a file that this stage  *)
(* appends to, in place, when both providers failed.  The stage may be     *)
(* killed at any step, by a time limit or with its container.              *)
(*                                                                         *)
(* An alert is its rule verdict and what is wrong with it, if anything; a  *)
(* record is <<alert's place, verdict, recommended, who explained it>>.    *)
(***************************************************************************)
EXTENDS Naturals, Sequences

CONSTANTS Batches,  \* contents of alerts.json
          Notices   \* contents of scrape_health_alerts.json

Verdicts == {"GENUINE_DEAL", "FALSE_DISCOUNT", "INFLATED_REFERENCE",
             "NORMAL_DROP", "INSUFFICIENT_HISTORY"}
Flaws == {"none", "malformed", "noBaseline"}

(* What a provider may answer: an error, no JSON object with the four keys, *)
(* one the schema refuses, or one it accepts, with a verdict of its own.    *)
Refused == {"malformed", "schema_invalid"}
ModelAnswers == Refused \cup Verdicts
Torn == <<"torn">>
Outage == "outage"

ASSUME AnalysisAssumption ==
  /\ Batches \subseteq Seq([verdict : Verdicts, flaw : Flaws])
  /\ Notices \subseteq Seq(STRING)

VARIABLES
  analysisPc,       \* next, hf, ollama, outage, judge, audit, write, done, failed
  candidates,       \* alerts.json
  current,          \* the alert at hand
  provider,         \* who answered: hf, ollama, none
  answer,
  record,           \* the alert's record
  records,          \* those made so far
  formattedAlerts,  \* formatted_alerts.json: "old", or this run's
  handoff,          \* scrape_health_alerts.json: a list of notices, or cut short
  written,          \* history: the notices the scrape left
  audit             \* ai_audit.jsonl: this run's lines

call == <<provider, answer>>
files == <<formattedAlerts, handoff, audit>>
analysisVars == <<analysisPc, candidates, current, call, record, records, files, written>>

NotJudged == <<>>
OldFile == <<"old">>

AnalysisInit ==
  /\ analysisPc = "next" /\ candidates \in Batches /\ current = 0
  /\ provider = "none" /\ answer = "none" /\ record = NotJudged /\ records = <<>>
  /\ formattedAlerts = OldFile /\ handoff \in Notices /\ written = handoff /\ audit = <<>>

----------------------------------------------------------------------------
(* main's loop.  A malformed candidate ends the stage; one without a usable *)
(* baseline is left out.                                                    *)
NextAlert ==
  /\ analysisPc = "next"
  /\ current' = current + 1
  /\ analysisPc' = IF current = Len(candidates) THEN "write"
                   ELSE CASE candidates[current + 1].flaw = "malformed"  -> "failed"
                          [] candidates[current + 1].flaw = "noBaseline" -> "next"
                          [] candidates[current + 1].flaw = "none"       -> "hf"
  /\ UNCHANGED <<candidates, call, record, records, files, written>>

(* get_analysis: the providers in their order.                              *)
AskHf ==
  /\ analysisPc = "hf"
  /\ \/ analysisPc' = "judge" /\ provider' = "hf" /\ answer' \in ModelAnswers
     \/ analysisPc' = "ollama" /\ UNCHANGED call
  /\ UNCHANGED <<candidates, current, record, records, files, written>>

AskOllama ==
  /\ analysisPc = "ollama"
  /\ \/ analysisPc' = "judge" /\ provider' = "ollama" /\ answer' \in ModelAnswers
     \/ analysisPc' = "outage" /\ provider' = "none" /\ answer' = "none"
  /\ UNCHANGED <<candidates, current, record, records, files, written>>

(* _queue_dual_failure_alert: read, append, write in place.  A file that    *)
(* cannot be read stays; one that cannot be written is cut short.           *)
Appended_Alone == <<Outage>>
Appended == Append(handoff, Outage)

QueueOutage ==
  /\ analysisPc = "outage" /\ analysisPc' = "judge"
  /\ handoff' \in IF handoff = Torn THEN {Torn} ELSE {Appended, handoff, Torn}
  /\ UNCHANGED <<candidates, current, call, record, records, formattedAlerts, audit, written>>

(* default_analysis, or the model's answer with the rule's verdict.         *)
Rule == candidates[current].verdict
Says(v, by) == <<current, v, v = "GENUINE_DEAL", by>>
Explained_Model ==
  IF answer \in Verdicts THEN Says(answer, provider) ELSE Says(Rule, "rule")
Explained == Says(Rule, IF answer \in Verdicts THEN provider ELSE "rule")

Judge ==
  /\ analysisPc = "judge" /\ analysisPc' = "audit"
  /\ record' = Explained
  /\ UNCHANGED <<candidates, current, call, records, files, written>>

(* _log_audit_record; a line that cannot be written ends the stage.         *)
Audit ==
  /\ analysisPc = "audit"
  /\ \/ /\ audit' = Append(audit, <<current, provider, answer, record[2]>>)
        /\ records' = Append(records, record)
        /\ analysisPc' = "next" /\ provider' = "none" /\ answer' = "none" /\ record' = NotJudged
     \/ analysisPc' = "failed" /\ UNCHANGED <<audit, records, call, record>>
  /\ UNCHANGED <<candidates, current, formattedAlerts, handoff, written>>

(* One file at the end, written in place.                                   *)
WriteFile ==
  /\ analysisPc = "write"
  /\ \/ formattedAlerts' = records /\ analysisPc' = "done"
     \/ formattedAlerts' = Torn /\ analysisPc' = "failed"
  /\ UNCHANGED <<candidates, current, call, record, records, handoff, audit, written>>

(* Killed: between two steps, or in the middle of a write.                  *)
KillAnalysis ==
  /\ analysisPc \notin {"done", "failed"}
  /\ analysisPc' = "failed"
  /\ handoff' \in {handoff} \cup IF analysisPc = "outage" THEN {Torn} ELSE {}
  /\ UNCHANGED <<candidates, current, call, record, records, formattedAlerts, audit, written>>

AnalysisNext ==
  \/ NextAlert \/ AskHf \/ AskOllama \/ QueueOutage \/ Judge \/ Audit \/ WriteFile \/ KillAnalysis

AnalysisSpec == AnalysisInit /\ [][AnalysisNext]_analysisVars

----------------------------------------------------------------------------
AnalysisTypeOK ==
  /\ analysisPc \in {"next", "hf", "ollama", "outage", "judge", "audit", "write", "done", "failed"}
  /\ candidates \in Batches /\ current \in 0..(Len(candidates) + 1)
  /\ provider \in {"hf", "ollama", "none"} /\ answer \in ModelAnswers \cup {"none"}
  /\ Len(records) <= Len(candidates) /\ written \in Notices

(* Whatever the providers answer and whichever of them fail, the finished   *)
(* stage has one record per usable alert, in their order, and each says     *)
(* what the rule says.                                                      *)
Usable == {n \in DOMAIN candidates : candidates[n].flaw = "none"}
InOrder(made) == \A m, n \in DOMAIN made : m < n => made[m][1] < made[n][1]
ByTheRule(r) ==
  /\ r[1] \in Usable /\ r[2] = candidates[r[1]].verdict
  /\ r[3] <=> candidates[r[1]].verdict = "GENUINE_DEAL"
RuleDecides ==
  analysisPc = "done" =>
    /\ \A n \in DOMAIN formattedAlerts : ByTheRule(formattedAlerts[n])
    /\ \A a \in Usable : \E n \in DOMAIN formattedAlerts : formattedAlerts[n][1] = a
    /\ InOrder(formattedAlerts)

(* The notices the scrape left are still there, in front of this stage's    *)
(* own, unless a write was cut short.                                       *)
NoticesSurvive ==
  handoff # Torn => /\ Len(handoff) >= Len(written)
                    /\ SubSeq(handoff, 1, Len(written)) = written
============================================================================
