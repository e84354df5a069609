-------------------------- MODULE OperationsProofs --------------------------
(***************************************************************************)
(* The remaining components of Operations: AiAnalysis, for all batches and *)
(* notices; OfferStore, for all shops, titles and processes.  And          *)
(* Operations itself: every part keeps what its component promises.        *)
(***************************************************************************)
EXTENDS Operations, SchedulingProofs, ScraperProofs, FeedbackCollectorProofs,
        FiniteSetTheorems

----------------------------------------------------------------------------
(* AiAnalysis *)

AtHand == {"hf", "ollama", "outage", "judge", "audit"}
Judgeable == [verdict : Verdicts, flaw : Flaws]
Bys == {"hf", "ollama", "rule", "none"}
Marks == STRING \cup {"torn", "outage"}

(* How many alerts have been dealt with.                                    *)
Dealt ==
  IF analysisPc \in AtHand THEN current - 1
  ELSE IF current > Len(candidates) THEN Len(candidates) ELSE current

AnalysisTypeInv ==
  /\ analysisPc \in AtHand \cup {"next", "write", "done", "failed"}
  /\ candidates \in Batches /\ candidates \in Seq(Judgeable)
  /\ current \in 0..(Len(candidates) + 1)
  /\ provider \in {"hf", "ollama", "none"} /\ answer \in ModelAnswers \cup {"none"}
  /\ handoff \in Seq(Marks) /\ written \in Notices
  /\ records \in Seq(Nat \X Verdicts \X BOOLEAN \X Bys)

(* Where the loop is, and the record it is about to keep.                   *)
LoopPlace ==
  /\ analysisPc = "next" => current <= Len(candidates)
  /\ analysisPc \in AtHand => current \in Usable
  /\ analysisPc \in {"write", "done"} => current = Len(candidates) + 1
  /\ analysisPc = "audit" => record = Explained

(* The records are those of the usable alerts dealt with, in their order.   *)
RecordsInv ==
  /\ \A n \in DOMAIN records : ByTheRule(records[n]) /\ records[n][1] <= Dealt
  /\ analysisPc # "failed" =>
       \A a \in Usable : a <= Dealt => \E n \in DOMAIN records : records[n][1] = a
  /\ InOrder(records) /\ Len(records) <= Dealt
  /\ analysisPc = "done" => formattedAlerts = records

AnalysisInv == AnalysisTypeInv /\ LoopPlace /\ RecordsInv /\ NoticesSurvive

LEMMA BatchIs ==
  ASSUME candidates \in Batches
  PROVE  candidates \in Seq(Judgeable)
BY AnalysisAssumption DEF Judgeable

LEMMA MarksAre ==
  Notices \subseteq Seq(Marks) /\ Torn \in Seq(Marks) /\ Outage \in Marks
<1>0. Notices \subseteq Seq(STRING)
  BY AnalysisAssumption
<1>1. ASSUME NEW n \in Notices PROVE n \in Seq(Marks)
  <2>1. n \in Seq(STRING)
    BY <1>0, Zenon
  <2>2. \A i \in 1..Len(n) : n[i] \in STRING
    BY <2>1
  <2>3. \A i \in 1..Len(n) : n[i] \in Marks
    BY <2>2, Zenon DEF Marks
  <2>4. Len(n) \in Nat /\ n = [i \in 1..Len(n) |-> n[i]]
    BY <2>1
  <2>5. QED
    BY <2>3, <2>4
<1>2. "torn" \in Marks /\ "outage" \in Marks
  BY DEF Marks
<1>3. Torn \in Seq(Marks)
  BY <1>2 DEF Torn
<1>4. QED
  BY <1>1, <1>2, <1>3, Zenon DEF Outage

LEMMA InitAnalysis == AnalysisInit => AnalysisInv
<1> SUFFICES ASSUME AnalysisInit PROVE AnalysisInv
  OBVIOUS
<1>1. /\ analysisPc = "next" /\ candidates \in Batches /\ current = 0 /\ provider = "none"
      /\ answer = "none" /\ records = <<>> /\ handoff \in Notices /\ written = handoff
  BY DEF AnalysisInit
<1>2. candidates \in Seq(Judgeable) /\ Len(candidates) \in Nat
  BY <1>1, BatchIs
<1>3. handoff \in Seq(Marks)
  BY <1>1, MarksAre, Zenon
<1>4. records \in Seq(Nat \X Verdicts \X BOOLEAN \X Bys)
  BY <1>1
<1>5. AnalysisTypeInv
  BY <1>1, <1>2, <1>3, <1>4 DEF AnalysisTypeInv
<1>6. LoopPlace
  BY <1>1, <1>2 DEF LoopPlace, AtHand
<1>7. RecordsInv
  <2>1. Dealt = 0
    BY <1>1, <1>2 DEF Dealt, AtHand
  <2>2. \A a \in Usable : ~(a <= Dealt)
    BY <1>2, <2>1 DEF Usable
  <2>3. DOMAIN records = {} /\ Len(records) = 0
    BY <1>1
  <2>4. QED
    BY <1>1, <2>1, <2>2, <2>3 DEF RecordsInv, InOrder
<1>8. NoticesSurvive
  BY <1>1, <1>3 DEF NoticesSurvive
<1>9. QED
  BY <1>5, <1>6, <1>7, <1>8 DEF AnalysisInv

(* The record of the alert at hand.                                         *)
LEMMA ExplainedIs ==
  ASSUME AnalysisTypeInv, current \in Usable
  PROVE  /\ Explained \in Nat \X Verdicts \X BOOLEAN \X Bys
         /\ Explained[1] = current /\ ByTheRule(Explained)
<1>1. /\ candidates \in Seq(Judgeable) /\ current \in 1..Len(candidates)
      /\ provider \in {"hf", "ollama", "none"}
  BY DEF AnalysisTypeInv, Usable
<1>2. candidates[current] \in Judgeable
  BY <1>1
<1>3. Rule \in Verdicts
  BY <1>2 DEF Rule, Judgeable
<1> DEFINE by == IF answer \in Verdicts THEN provider ELSE "rule"
           deal == Rule = "GENUINE_DEAL"
<1>4. by \in Bys /\ deal \in BOOLEAN
  BY <1>1 DEF Bys
<1>5. Explained = <<current, Rule, deal, by>>
  BY DEF Explained, Says
<1>6. current \in Nat
  BY <1>1
<1>7. ByTheRule(Explained)
  BY <1>5 DEF ByTheRule, Rule
<1> HIDE DEF by, deal
<1>8. QED
  BY <1>3, <1>4, <1>5, <1>6, <1>7

(* Nothing but the place and the answer changes, within the handling of     *)
(* one alert.                                                               *)
LEMMA SameAlert ==
  ASSUME AnalysisInv, UNCHANGED <<candidates, current, records, handoff, written>>,
         analysisPc \in AtHand, analysisPc' \in AtHand,
         provider' \in {"hf", "ollama", "none"}, answer' \in ModelAnswers \cup {"none"},
         analysisPc' = "audit" => record' = Explained'
  PROVE  AnalysisTypeInv' /\ LoopPlace' /\ RecordsInv'
<1>1. AnalysisTypeInv /\ LoopPlace /\ RecordsInv
  BY DEF AnalysisInv
<1>2. AnalysisTypeInv'
  BY <1>1, Zenon DEF AnalysisTypeInv
<1>3. Usable' = Usable /\ Dealt' = Dealt
  BY DEF Usable, Dealt
<1>4. analysisPc' \notin {"next", "write", "done", "failed"}
  BY DEF AtHand
<1>5. analysisPc \notin {"next", "write", "done", "failed"}
  BY DEF AtHand
<1>6. LoopPlace'
  BY <1>1, <1>3, <1>4 DEF LoopPlace
<1>7. RecordsInv'
  BY <1>1, <1>3, <1>4, <1>5 DEF RecordsInv, InOrder, ByTheRule
<1>8. QED
  BY <1>2, <1>6, <1>7

LEMMA StepNextAlert ==
  ASSUME AnalysisInv, NextAlert
  PROVE  AnalysisInv'
<1>1. AnalysisTypeInv /\ LoopPlace /\ RecordsInv /\ NoticesSurvive
  BY DEF AnalysisInv
<1>2. /\ analysisPc = "next" /\ current' = current + 1
      /\ UNCHANGED <<candidates, provider, answer, record, records, formattedAlerts, handoff,
                     audit, written>>
  BY DEF NextAlert, call, files
<1>3. /\ candidates \in Seq(Judgeable) /\ Len(candidates) \in Nat /\ current \in Nat
      /\ current <= Len(candidates)
  BY <1>1, <1>2 DEF AnalysisTypeInv, LoopPlace
<1>4. /\ current' \in 0..(Len(candidates) + 1) /\ Usable' = Usable
      /\ DOMAIN candidates = 1..Len(candidates)
  BY <1>2, <1>3 DEF Usable
<1>5. Dealt = current
  BY <1>2, <1>3 DEF Dealt, AtHand
<1>6. \/ current = Len(candidates) /\ analysisPc' = "write"
      \/ /\ current < Len(candidates)
         /\ \/ analysisPc' = "failed"
            \/ analysisPc' = "next" /\ candidates[current + 1].flaw = "noBaseline"
            \/ analysisPc' = "hf" /\ candidates[current + 1].flaw = "none"
  <2>1. CASE current = Len(candidates)
    BY <2>1 DEF NextAlert
  <2>2. CASE current # Len(candidates)
    <3>1. current < Len(candidates) /\ current + 1 \in 1..Len(candidates)
      BY <1>3, <2>2
    <3>2. candidates[current + 1] \in Judgeable
      BY <1>3, <3>1
    <3>3. candidates[current + 1].flaw \in Flaws
      BY <3>2 DEF Judgeable
    <3>4. CASE candidates[current + 1].flaw = "malformed"
      BY <2>2, <3>1, <3>4 DEF NextAlert
    <3>5. CASE candidates[current + 1].flaw = "noBaseline"
      BY <2>2, <3>1, <3>5 DEF NextAlert
    <3>6. CASE candidates[current + 1].flaw = "none"
      BY <2>2, <3>1, <3>6 DEF NextAlert
    <3>7. QED
      BY <3>3, <3>4, <3>5, <3>6 DEF Flaws
  <2>3. QED
    BY <2>1, <2>2
<1>7. analysisPc' \in {"write", "failed", "next", "hf"}
  BY <1>6
<1>8. AnalysisTypeInv'
  <2>1. analysisPc' \in AtHand \cup {"next", "write", "done", "failed"}
    BY <1>7 DEF AtHand
  <2>2. QED
    BY <1>1, <1>2, <1>4, <2>1 DEF AnalysisTypeInv
<1>9. LoopPlace'
  <2>1. analysisPc' = "next" => current' <= Len(candidates')
    BY <1>2, <1>3, <1>6
  <2>2. analysisPc' = "hf" => current' \in Usable'
    BY <1>2, <1>3, <1>4, <1>6 DEF Usable
  <2>3. analysisPc' = "write" => current' = Len(candidates') + 1
    BY <1>2, <1>6
  <2>4. analysisPc' \in AtHand => analysisPc' = "hf"
    BY <1>7 DEF AtHand
  <2>5. analysisPc' # "audit" /\ analysisPc' # "done"
    BY <1>7
  <2>6. QED
    BY <2>1, <2>2, <2>3, <2>4, <2>5 DEF LoopPlace
<1>10. RecordsInv'
  <2>1. Dealt' = current \/ (Dealt' = current + 1 /\ current + 1 <= Len(candidates))
    BY <1>2, <1>3, <1>6 DEF Dealt, AtHand
  <2>2. analysisPc' = "next" => Dealt' = current + 1 /\ current + 1 \notin Usable
    <3>1. analysisPc' = "next" => current < Len(candidates)
      BY <1>6
    <3>2. analysisPc' = "next" => Dealt' = current + 1
      BY <1>2, <1>3, <3>1 DEF Dealt, AtHand
    <3>3. QED
      BY <1>6, <3>2 DEF Usable
  <2>3. analysisPc' = "hf" \/ analysisPc' = "write" => Dealt' = current
    BY <1>2, <1>3, <1>6 DEF Dealt, AtHand
  <2>4. \A n \in DOMAIN records : records[n] \in Nat \X Verdicts \X BOOLEAN \X Bys
    BY <1>1 DEF AnalysisTypeInv
  <2>5. \A n \in DOMAIN records : records[n][1] \in Nat
    BY <2>4
  <2>6. \A n \in DOMAIN records : ByTheRule(records[n])' /\ records[n][1] <= Dealt'
    BY <1>1, <1>2, <1>3, <1>4, <1>5, <2>1, <2>5 DEF RecordsInv, ByTheRule
  <2>7. Len(records) \in Nat
    BY <1>1 DEF AnalysisTypeInv
  <2>8. Len(records') <= Dealt'
    BY <1>1, <1>2, <1>3, <1>5, <2>1, <2>7 DEF RecordsInv
  <2>9. ASSUME analysisPc' # "failed", NEW a \in Usable, a <= Dealt'
        PROVE  \E n \in DOMAIN records : records[n][1] = a
    <3>1. a \in Nat
      BY <1>4 DEF Usable
    <3>2. a <= current
      BY <1>3, <1>7, <2>2, <2>3, <2>9, <3>1
    <3>3. QED
      BY <1>1, <1>2, <1>5, <3>2 DEF RecordsInv
  <2>10. QED
    BY <1>1, <1>2, <1>4, <1>7, <2>6, <2>8, <2>9 DEF RecordsInv, InOrder
<1>11. NoticesSurvive'
  BY <1>1, <1>2 DEF NoticesSurvive
<1>12. QED
  BY <1>8, <1>9, <1>10, <1>11 DEF AnalysisInv

LEMMA StepAsk ==
  ASSUME AnalysisInv, AskHf \/ AskOllama
  PROVE  AnalysisInv'
<1>1. /\ analysisPc \in {"hf", "ollama"} /\ analysisPc' \in {"judge", "ollama", "outage"}
      /\ UNCHANGED <<candidates, current, records, handoff, written>>
  BY DEF AskHf, AskOllama, files, call
<1>2. provider' \in {"hf", "ollama", "none"} /\ answer' \in ModelAnswers \cup {"none"}
  <2>1. provider \in {"hf", "ollama", "none"} /\ answer \in ModelAnswers \cup {"none"}
    BY DEF AnalysisInv, AnalysisTypeInv
  <2>2. CASE AskHf
    BY <2>1, <2>2 DEF AskHf, call
  <2>3. CASE AskOllama
    BY <2>1, <2>3 DEF AskOllama, call
  <2>4. QED
    BY <2>2, <2>3
<1>3. analysisPc \in AtHand /\ analysisPc' \in AtHand /\ analysisPc' # "audit"
  BY <1>1 DEF AtHand
<1>4. AnalysisTypeInv' /\ LoopPlace' /\ RecordsInv'
  BY <1>1, <1>2, <1>3, SameAlert
<1>5. NoticesSurvive'
  BY <1>1 DEF AnalysisInv, NoticesSurvive
<1>6. QED
  BY <1>4, <1>5 DEF AnalysisInv

LEMMA StepQueueOutage ==
  ASSUME AnalysisInv, QueueOutage
  PROVE  AnalysisInv'
<1>1. /\ analysisPc = "outage" /\ analysisPc' = "judge"
      /\ UNCHANGED <<candidates, current, provider, answer, records, written>>
  BY DEF QueueOutage, call
<1>2. handoff' = handoff \/ handoff' = Torn \/ (handoff # Torn /\ handoff' = Append(handoff, Outage))
  BY DEF QueueOutage, Appended
<1>3. AnalysisTypeInv /\ LoopPlace /\ RecordsInv /\ NoticesSurvive
  BY DEF AnalysisInv
<1>4. handoff \in Seq(Marks) /\ handoff' \in Seq(Marks)
  <2>1. handoff \in Seq(Marks) /\ Torn \in Seq(Marks) /\ Outage \in Marks
    BY <1>3, MarksAre, Zenon DEF AnalysisTypeInv
  <2>2. QED
    BY <1>2, <2>1
<1>5. AnalysisTypeInv'
  BY <1>1, <1>3, <1>4 DEF AnalysisTypeInv, AtHand
<1>6. Usable' = Usable /\ Dealt' = Dealt
  BY <1>1 DEF Usable, Dealt, AtHand
<1>7. LoopPlace'
  BY <1>1, <1>3, <1>6 DEF LoopPlace, AtHand
<1>8. RecordsInv'
  BY <1>1, <1>3, <1>6 DEF RecordsInv, InOrder, ByTheRule
<1>9. NoticesSurvive'
  <2>1. written \in Seq(Marks) /\ written' = written
    BY <1>1, <1>3, MarksAre DEF AnalysisTypeInv
  <2>2. CASE handoff' = handoff \/ handoff' = Torn
    BY <1>3, <2>1, <2>2 DEF NoticesSurvive
  <2>3. CASE handoff # Torn /\ handoff' = Append(handoff, Outage)
    <3>1. Len(written) <= Len(handoff) /\ SubSeq(handoff, 1, Len(written)) = written
      BY <1>3, <2>3 DEF NoticesSurvive
    <3>2. Outage \in Marks
      BY MarksAre
    <3>3. /\ handoff' \in Seq(Marks) /\ Len(handoff') = Len(handoff) + 1
          /\ \A i \in 1..Len(handoff) : handoff'[i] = handoff[i]
      BY <1>4, <2>3, <3>2
    <3>4. Len(written) \in 0..Len(handoff) /\ Len(handoff) \in Nat /\ Len(written) \in Nat
      BY <1>4, <2>1, <3>1
    <3>5. SubSeq(handoff', 1, Len(written)) = SubSeq(handoff, 1, Len(written))
      <4>1. \A i \in 1..Len(written) : handoff[i] \in Marks /\ handoff'[i] = handoff[i]
        BY <1>4, <3>3, <3>4
      <4>2. /\ SubSeq(handoff, 1, Len(written)) \in Seq(Marks)
            /\ Len(SubSeq(handoff, 1, Len(written))) = Len(written)
            /\ \A i \in 1..Len(written) : SubSeq(handoff, 1, Len(written))[i] = handoff[i]
        BY <2>1, <3>1, <3>4, <4>1, SubSeqProperties
      <4>3. /\ SubSeq(handoff', 1, Len(written)) \in Seq(Marks)
            /\ Len(SubSeq(handoff', 1, Len(written))) = Len(written)
            /\ \A i \in 1..Len(written) : SubSeq(handoff', 1, Len(written))[i] = handoff'[i]
        BY <2>1, <3>1, <3>4, <4>1, SubSeqProperties
      <4>4. QED
        BY <4>1, <4>2, <4>3, SeqEqual
    <3>6. QED
      BY <2>1, <3>1, <3>3, <3>4, <3>5 DEF NoticesSurvive
  <2>4. QED
    BY <1>2, <2>2, <2>3
<1>10. QED
  BY <1>5, <1>7, <1>8, <1>9 DEF AnalysisInv

LEMMA StepJudge ==
  ASSUME AnalysisInv, Judge
  PROVE  AnalysisInv'
<1>1. /\ analysisPc = "judge" /\ analysisPc' = "audit" /\ record' = Explained
      /\ UNCHANGED <<candidates, current, provider, answer, records, handoff, written>>
  BY DEF Judge, call, files
<1>2. provider' \in {"hf", "ollama", "none"} /\ answer' \in ModelAnswers \cup {"none"}
  BY <1>1 DEF AnalysisInv, AnalysisTypeInv
<1>3. Explained' = Explained
  BY <1>1 DEF Explained, Says, Rule
<1>4. analysisPc \in AtHand /\ analysisPc' \in AtHand
  BY <1>1 DEF AtHand
<1>5. AnalysisTypeInv' /\ LoopPlace' /\ RecordsInv'
  BY <1>1, <1>2, <1>3, <1>4, SameAlert
<1>6. NoticesSurvive'
  BY <1>1 DEF AnalysisInv, NoticesSurvive
<1>7. QED
  BY <1>5, <1>6 DEF AnalysisInv

(* The stage ends before its work is done.                                  *)
LEMMA Fails ==
  ASSUME AnalysisInv, analysisPc' = "failed",
         UNCHANGED <<candidates, current, provider, answer, records, written>>,
         handoff' \in {handoff, Torn}
  PROVE  AnalysisInv'
<1>1. AnalysisTypeInv /\ LoopPlace /\ RecordsInv /\ NoticesSurvive
  BY DEF AnalysisInv
<1>2. handoff' \in Seq(Marks)
  BY <1>1, MarksAre DEF AnalysisTypeInv
<1>3. AnalysisTypeInv'
  BY <1>1, <1>2 DEF AnalysisTypeInv
<1>4. LoopPlace'
  BY DEF LoopPlace, AtHand
<1>5. Usable' = Usable
  BY DEF Usable
<1>6. /\ candidates \in Seq(Judgeable) /\ Len(candidates) \in Nat
      /\ current \in Nat /\ current <= Len(candidates) + 1
  BY <1>1 DEF AnalysisTypeInv
<1>7. analysisPc \in AtHand => current <= Len(candidates)
  BY <1>1 DEF LoopPlace, Usable
<1>8. Dealt <= Dealt' /\ Dealt \in Int /\ Dealt' \in Int
  BY <1>6, <1>7 DEF Dealt, AtHand
<1>9. /\ Len(records) \in Nat
      /\ \A n \in DOMAIN records : records[n] \in Nat \X Verdicts \X BOOLEAN \X Bys
  BY <1>1 DEF AnalysisTypeInv
<1>10. \A n \in DOMAIN records : records[n][1] \in Nat
  BY <1>9
<1>11. \A n \in DOMAIN records : ByTheRule(records[n])' /\ records[n][1] <= Dealt'
  BY <1>1, <1>5, <1>8, <1>10 DEF RecordsInv, ByTheRule
<1>12. Len(records') <= Dealt'
  BY <1>1, <1>8, <1>9 DEF RecordsInv
<1>13. RecordsInv'
  BY <1>1, <1>11, <1>12 DEF RecordsInv, InOrder
<1>14. NoticesSurvive'
  BY <1>1 DEF NoticesSurvive
<1>15. QED
  BY <1>3, <1>4, <1>13, <1>14 DEF AnalysisInv

LEMMA StepAudit ==
  ASSUME AnalysisInv, Audit
  PROVE  AnalysisInv'
<1>1. /\ analysisPc = "audit" /\ UNCHANGED <<candidates, current, handoff, written>>
      /\ \/ /\ records' = Append(records, record) /\ analysisPc' = "next"
            /\ provider' = "none" /\ answer' = "none"
         \/ analysisPc' = "failed" /\ UNCHANGED <<records, provider, answer>>
  BY DEF Audit, call
<1>2. AnalysisTypeInv /\ LoopPlace /\ RecordsInv /\ NoticesSurvive
  BY DEF AnalysisInv
<1>3. CASE analysisPc' = "failed" /\ UNCHANGED <<records, provider, answer>>
  BY <1>1, <1>3, Fails
<1>4. CASE /\ records' = Append(records, record) /\ analysisPc' = "next"
           /\ provider' = "none" /\ answer' = "none"
  <2>1. current \in Usable /\ record = Explained
    BY <1>1, <1>2 DEF LoopPlace, AtHand
  <2>2. /\ record \in Nat \X Verdicts \X BOOLEAN \X Bys
        /\ record[1] = current /\ ByTheRule(record)
    BY <1>2, <2>1, ExplainedIs
  <2>3. /\ candidates \in Seq(Judgeable) /\ Len(candidates) \in Nat
        /\ current \in 1..Len(candidates) /\ current \in Nat
    BY <1>2, <2>1 DEF AnalysisTypeInv, Usable
  <2>4. Usable' = Usable /\ Dealt = current - 1 /\ Dealt' = current
    BY <1>1, <1>4, <2>3 DEF Usable, Dealt, AtHand
  <2>5. records \in Seq(Nat \X Verdicts \X BOOLEAN \X Bys)
    BY <1>2 DEF AnalysisTypeInv
  <2>6. /\ records' \in Seq(Nat \X Verdicts \X BOOLEAN \X Bys)
        /\ DOMAIN records' = 1..(Len(records) + 1) /\ Len(records') = Len(records) + 1
        /\ records'[Len(records) + 1] = record
        /\ \A n \in 1..Len(records) : records'[n] = records[n]
    BY <1>4, <2>2, <2>5
  <2>7. DOMAIN records = 1..Len(records) /\ Len(records) \in Nat
    BY <2>5
  <2>8. \A n \in 1..Len(records) : records[n][1] \in Nat
    BY <2>5
  <2>9. \A n \in 1..(Len(records) + 1) : n = Len(records) + 1 \/ n \in 1..Len(records)
    BY <2>7
  <2>10. AnalysisTypeInv'
    BY <1>1, <1>2, <1>4, <2>6 DEF AnalysisTypeInv
  <2>11. LoopPlace'
    BY <1>1, <1>4, <2>3 DEF LoopPlace, AtHand
  <2>12. ASSUME NEW n \in 1..(Len(records) + 1)
         PROVE  ByTheRule(records[n])' /\ records'[n][1] <= Dealt'
    <3>1. CASE n = Len(records) + 1
      BY <1>1, <2>2, <2>3, <2>4, <2>6, <3>1 DEF ByTheRule
    <3>2. CASE n \in 1..Len(records)
      <4>1. ByTheRule(records[n]) /\ records[n][1] <= current - 1 /\ records[n][1] \in Nat
        BY <1>2, <2>4, <2>7, <2>8, <3>2 DEF RecordsInv
      <4>2. records'[n] = records[n]
        BY <2>6, <3>2
      <4>3. QED
        BY <1>1, <2>3, <2>4, <4>1, <4>2 DEF ByTheRule
    <3>3. QED
      BY <2>9, <3>1, <3>2
  <2>13. ASSUME NEW a \in Usable, a <= current
         PROVE  \E n \in DOMAIN records' : records'[n][1] = a
    <3>1. CASE a = current
      <4>1. Len(records) + 1 \in DOMAIN records'
        BY <2>6, <2>7
      <4>2. QED
        BY <2>2, <2>6, <3>1, <4>1
    <3>2. CASE a # current
      <4>1. a \in 1..Len(candidates)
        BY <2>3 DEF Usable
      <4>2. a <= current - 1
        BY <2>3, <2>13, <3>2, <4>1
      <4>3. PICK n \in DOMAIN records : records[n][1] = a
        BY <1>1, <1>2, <2>4, <4>2 DEF RecordsInv
      <4>4. n \in 1..Len(records) /\ n \in DOMAIN records'
        BY <2>6, <2>7
      <4>5. QED
        BY <2>6, <4>3, <4>4
    <3>3. QED
      BY <3>1, <3>2
  <2>14. ASSUME NEW m \in 1..(Len(records) + 1), NEW n \in 1..(Len(records) + 1), m < n
         PROVE  records'[m][1] < records'[n][1]
    <3>1. m \in 1..Len(records) /\ records'[m] = records[m]
      BY <2>6, <2>7, <2>14
    <3>2. CASE n = Len(records) + 1
      <4>1. records[m][1] <= current - 1 /\ records[m][1] \in Nat
        BY <1>2, <2>4, <2>7, <2>8, <3>1 DEF RecordsInv
      <4>2. QED
        BY <2>2, <2>3, <2>6, <3>1, <3>2, <4>1
    <3>3. CASE n \in 1..Len(records)
      <4>1. records[m][1] < records[n][1]
        BY <1>2, <2>7, <2>14, <3>1, <3>3 DEF RecordsInv, InOrder
      <4>2. QED
        BY <2>6, <3>1, <3>3, <4>1
    <3>4. QED
      BY <2>9, <3>2, <3>3
  <2>15. Len(records') <= Dealt'
    <3>1. Len(records) <= current - 1
      BY <1>2, <2>4 DEF RecordsInv
    <3>2. QED
      BY <2>3, <2>4, <2>6, <2>7, <3>1
  <2>16. RecordsInv'
    <3>1. InOrder(records)'
      BY <2>6, <2>14 DEF InOrder
    <3>2. QED
      BY <1>4, <2>4, <2>6, <2>12, <2>13, <2>15, <3>1 DEF RecordsInv
  <2>17. NoticesSurvive'
    BY <1>1, <1>2 DEF NoticesSurvive
  <2>18. QED
    BY <2>10, <2>11, <2>16, <2>17 DEF AnalysisInv
<1>5. QED
  BY <1>1, <1>3, <1>4

LEMMA StepWriteFile ==
  ASSUME AnalysisInv, WriteFile
  PROVE  AnalysisInv'
<1>1. /\ analysisPc = "write"
      /\ UNCHANGED <<candidates, current, provider, answer, records, handoff, written>>
      /\ (formattedAlerts' = records /\ analysisPc' = "done") \/ analysisPc' = "failed"
  BY DEF WriteFile, call
<1>2. AnalysisTypeInv /\ LoopPlace /\ RecordsInv /\ NoticesSurvive
  BY DEF AnalysisInv
<1>3. CASE analysisPc' = "failed"
  BY <1>1, <1>3, Fails
<1>4. CASE formattedAlerts' = records /\ analysisPc' = "done"
  <2>1. AnalysisTypeInv' /\ LoopPlace'
    BY <1>1, <1>2, <1>4 DEF AnalysisTypeInv, LoopPlace, AtHand
  <2>2. Usable' = Usable /\ Dealt' = Dealt
    BY <1>1, <1>4 DEF Usable, Dealt, AtHand
  <2>3. RecordsInv'
    BY <1>1, <1>2, <1>4, <2>2 DEF RecordsInv, InOrder, ByTheRule
  <2>4. NoticesSurvive'
    BY <1>1, <1>2 DEF NoticesSurvive
  <2>5. QED
    BY <2>1, <2>3, <2>4 DEF AnalysisInv
<1>5. QED
  BY <1>1, <1>3, <1>4

LEMMA StepAnalysis == AnalysisInv /\ [AnalysisNext]_analysisVars => AnalysisInv'
<1> SUFFICES ASSUME AnalysisInv, [AnalysisNext]_analysisVars PROVE AnalysisInv'
  OBVIOUS
<1>1. CASE KillAnalysis
  <2>1. /\ analysisPc' = "failed" /\ handoff' \in {handoff, Torn}
        /\ UNCHANGED <<candidates, current, provider, answer, records, written>>
    BY <1>1 DEF KillAnalysis, call
  <2>2. QED
    BY <2>1, Fails
<1>2. CASE UNCHANGED analysisVars
  <2>1. UNCHANGED <<analysisPc, candidates, current, provider, answer, record, records,
                    formattedAlerts, handoff, written>>
    BY <1>2 DEF analysisVars, call, files
  <2>2. AnalysisTypeInv' /\ NoticesSurvive'
    BY <2>1 DEF AnalysisInv, AnalysisTypeInv, NoticesSurvive
  <2>3. Usable' = Usable /\ Dealt' = Dealt /\ Explained' = Explained
    BY <2>1 DEF Usable, Dealt, Explained, Says, Rule
  <2>4. LoopPlace' /\ RecordsInv'
    BY <2>1, <2>3 DEF AnalysisInv, LoopPlace, RecordsInv, InOrder, ByTheRule
  <2>5. QED
    BY <2>2, <2>4 DEF AnalysisInv
<1>3. QED
  BY <1>1, <1>2, StepNextAlert, StepAsk, StepQueueOutage, StepJudge, StepAudit, StepWriteFile
  DEF AnalysisNext

LEMMA AnalysisAlways == AnalysisSpec => []AnalysisInv
BY InitAnalysis, StepAnalysis, PTL DEF AnalysisSpec

(* RuleDecides, of analyze.py's main: whatever the providers answer and     *)
(* whichever fail, for any batch: the records of a finished stage are those *)
(* of the usable alerts, in their order, with the rule's verdicts.          *)
THEOREM TheRuleDecides == AnalysisSpec => []RuleDecides
<1>1. AnalysisInv => RuleDecides
  <2> SUFFICES ASSUME AnalysisInv, analysisPc = "done" PROVE RuleDecides
    BY DEF RuleDecides
  <2>1. AnalysisTypeInv /\ LoopPlace /\ RecordsInv
    BY DEF AnalysisInv
  <2>2. formattedAlerts = records /\ InOrder(records)
        /\ \A n \in DOMAIN records : ByTheRule(records[n])
    BY <2>1 DEF RecordsInv
  <2>3. Len(candidates) \in Nat /\ candidates \in Seq(Judgeable)
    BY <2>1 DEF AnalysisTypeInv
  <2>4. Dealt = Len(candidates)
    BY <2>1, <2>3 DEF Dealt, AtHand, LoopPlace
  <2>5. \A a \in Usable : a <= Dealt
    BY <2>3, <2>4 DEF Usable
  <2>6. \A a \in Usable : \E n \in DOMAIN records : records[n][1] = a
    BY <2>1, <2>5 DEF RecordsInv
  <2>7. QED
    BY <2>2, <2>6 DEF RuleDecides
<1>2. QED
  BY <1>1, AnalysisAlways, PTL

(* NoticesSurvive: what the scrape left for the user stays in front, unless *)
(* a write of analyze.py was cut short.                                     *)
THEOREM TheNoticesSurvive == AnalysisSpec => []NoticesSurvive
<1>1. AnalysisInv => NoticesSurvive
  BY DEF AnalysisInv
<1>2. QED
  BY <1>1, AnalysisAlways, PTL

(* AnalysisTypeOK, for all batches and notices.                             *)
THEOREM AnalysisTypes == AnalysisSpec => []AnalysisTypeOK
<1>1. AnalysisInv => AnalysisTypeOK
  <2> SUFFICES ASSUME AnalysisInv PROVE AnalysisTypeOK
    OBVIOUS
  <2>1. AnalysisTypeInv /\ RecordsInv /\ LoopPlace
    BY DEF AnalysisInv
  <2>2. /\ Len(candidates) \in Nat /\ candidates \in Seq(Judgeable) /\ Len(records) \in Nat
        /\ current \in 0..(Len(candidates) + 1)
    BY <2>1 DEF AnalysisTypeInv
  <2>3. analysisPc \in AtHand => current <= Len(candidates)
    BY <2>1, <2>2 DEF LoopPlace, Usable
  <2>4. Dealt <= Len(candidates) /\ Dealt \in Int
    BY <2>2, <2>3 DEF Dealt
  <2>5. Len(records) <= Len(candidates)
    BY <2>1, <2>2, <2>4 DEF RecordsInv
  <2>6. QED
    BY <2>1, <2>5 DEF AnalysisTypeInv, AnalysisTypeOK, AtHand
<1>2. QED
  BY <1>1, AnalysisAlways, PTL

----------------------------------------------------------------------------
(* OfferStore *)

(* A process is at most one version past the database's, and one that is    *)
(* about to migrate is not done.                                            *)
SchemaInv ==
  /\ MigratedOnce
  /\ \A p \in Openers : opening[p] <= version + 1 /\ (peeked[p] => opening[p] <= 3)

OpenedInv == StoreTypeOK /\ SchemaInv

LEMMA ThreeVersions == Versions = {1, 2, 3} /\ Cardinality(Versions) = 3
<1>1. Versions = {1, 2, 3}
  BY DEF Versions
<1>2. ASSUME NEW n \in Nat PROVE Cardinality(1..n) = n
  BY FS_Interval
<1>3. QED
  BY <1>1, <1>2 DEF Versions

LEMMA InitStore == StoreInit => OpenedInv
<1> SUFFICES ASSUME StoreInit PROVE OpenedInv
  OBVIOUS
<1>1. /\ version \in {0, 1, 2, 3} /\ applied = [v \in Versions |-> IF v <= version THEN 1 ELSE 0]
      /\ opening = [p \in Openers |-> 1] /\ peeked = [p \in Openers |-> FALSE]
  BY ThreeVersions DEF StoreInit
<1>2. applied \in [Versions -> Nat]
  BY <1>1
<1>3. opening \in [Openers -> 1..(Cardinality(Versions) + 1)] /\ peeked \in [Openers -> BOOLEAN]
  BY <1>1, ThreeVersions
<1>4. StoreTypeOK
  BY <1>1, <1>2, <1>3, ThreeVersions DEF StoreTypeOK, StoreInit
<1>5. SchemaInv
  BY <1>1 DEF SchemaInv, MigratedOnce
<1>6. QED
  BY <1>4, <1>5 DEF OpenedInv

(* The schema's half of StoreTypeOK.                                        *)
SchemaTypes ==
  /\ version \in {0, 1, 2, 3} /\ applied \in [Versions -> Nat]
  /\ opening \in [Openers -> 1..4] /\ peeked \in [Openers -> BOOLEAN]

LEMMA SchemaTypesAre == StoreTypeOK => SchemaTypes
BY ThreeVersions DEF StoreTypeOK, SchemaTypes

LEMMA SchemaKept ==
  ASSUME StoreTypeOK, UNCHANGED catalogue, SchemaTypes'
  PROVE  StoreTypeOK'
<1>1. UNCHANGED <<title, product, link, remaps>>
  BY DEF catalogue
<1>2. QED
  BY <1>1, ThreeVersions DEF StoreTypeOK, SchemaTypes

LEMMA StepPeek ==
  ASSUME OpenedInv, NEW p \in Openers, Peek(p)
  PROVE  OpenedInv'
<1>1. StoreTypeOK /\ SchemaInv /\ SchemaTypes
  BY SchemaTypesAre DEF OpenedInv
<1>2. opening[p] <= 3 /\ opening[p] \in 1..4
  BY <1>1, ThreeVersions DEF Peek, Open, SchemaTypes
<1>3. UNCHANGED <<version, applied, catalogue>>
  BY DEF Peek
<1>4. CASE version >= opening[p] /\ opening' = [opening EXCEPT ![p] = @ + 1] /\ UNCHANGED peeked
  <2>1. SchemaTypes'
    BY <1>1, <1>2, <1>3, <1>4 DEF SchemaTypes
  <2>2. ASSUME NEW q \in Openers
        PROVE  opening'[q] <= version' + 1 /\ (peeked'[q] => opening'[q] <= 3)
    <3>1. opening[q] <= version + 1 /\ (peeked[q] => opening[q] <= 3)
      BY <1>1 DEF SchemaInv
    <3>2. q # p => opening'[q] = opening[q]
      BY <1>1, <1>4 DEF SchemaTypes
    <3>3. opening'[p] = opening[p] + 1 /\ ~peeked[p]
      BY <1>1, <1>4 DEF SchemaTypes, Peek
    <3>4. opening'[p] <= version + 1
      BY <1>1, <1>2, <1>4, <3>3 DEF SchemaTypes
    <3>5. QED
      BY <1>3, <1>4, <3>1, <3>2, <3>3, <3>4
  <2>3. SchemaInv'
    BY <1>1, <1>3, <2>2 DEF SchemaInv, MigratedOnce
  <2>4. QED
    BY <1>1, <1>3, <2>1, <2>3, SchemaKept DEF OpenedInv
<1>5. CASE peeked' = [peeked EXCEPT ![p] = TRUE] /\ UNCHANGED opening
  <2>1. SchemaTypes'
    BY <1>1, <1>3, <1>5 DEF SchemaTypes
  <2>2. \A q \in Openers : peeked'[q] => peeked[q] \/ q = p
    BY <1>1, <1>5 DEF SchemaTypes
  <2>3. SchemaInv'
    BY <1>1, <1>2, <1>3, <1>5, <2>2 DEF SchemaInv, MigratedOnce
  <2>4. QED
    BY <1>1, <1>3, <2>1, <2>3, SchemaKept DEF OpenedInv
<1>6. QED
  BY <1>4, <1>5 DEF Peek

LEMMA StepMigrate ==
  ASSUME OpenedInv, NEW p \in Openers, Migrate(p)
  PROVE  OpenedInv'
<1>1. StoreTypeOK /\ SchemaInv /\ SchemaTypes
  BY SchemaTypesAre DEF OpenedInv
<1>2. /\ opening[p] \in {1, 2, 3} /\ opening[p] <= version + 1 /\ version \in Nat
  BY <1>1 DEF Migrate, SchemaInv, SchemaTypes
<1>3. /\ opening' = [opening EXCEPT ![p] = @ + 1] /\ peeked' = [peeked EXCEPT ![p] = FALSE]
      /\ UNCHANGED catalogue
  BY DEF Migrate
<1>4. \/ /\ version < opening[p] /\ version' = opening[p]
         /\ applied' = [applied EXCEPT ![opening[p]] = @ + 1]
      \/ version >= opening[p] /\ UNCHANGED <<version, applied>>
  BY <1>1, <1>2 DEF Migrate, Missing, SchemaTypes
<1>5. version' \in {0, 1, 2, 3} /\ version <= version' /\ opening[p] <= version'
  BY <1>1, <1>2, <1>4 DEF SchemaTypes
<1>6. applied' \in [Versions -> Nat]
  BY <1>1, <1>2, <1>4, ThreeVersions DEF SchemaTypes
<1>7. SchemaTypes'
  <2>1. opening' \in [Openers -> 1..4] /\ peeked' \in [Openers -> BOOLEAN]
    BY <1>1, <1>2, <1>3 DEF SchemaTypes
  <2>2. QED
    BY <1>5, <1>6, <2>1 DEF SchemaTypes
<1>8. MigratedOnce'
  <2>1. MigratedOnce
    BY <1>1 DEF SchemaInv
  <2>2. CASE version >= opening[p] /\ UNCHANGED <<version, applied>>
    BY <2>1, <2>2 DEF MigratedOnce
  <2>3. CASE /\ version < opening[p] /\ version' = opening[p]
             /\ applied' = [applied EXCEPT ![opening[p]] = @ + 1]
    <3>1. opening[p] = version + 1 /\ opening[p] \in Versions
      BY <1>2, <2>3, ThreeVersions
    <3>2. ASSUME NEW v \in Versions PROVE applied'[v] = IF v <= version' THEN 1 ELSE 0
      <4>1. v \in Nat /\ applied[v] = IF v <= version THEN 1 ELSE 0
        BY <2>1, ThreeVersions DEF MigratedOnce
      <4>2. CASE v = opening[p]
        BY <1>1, <1>2, <2>3, <3>1, <4>1, <4>2 DEF SchemaTypes
      <4>3. CASE v # opening[p]
        <5>1. applied'[v] = applied[v]
          BY <1>1, <2>3, <4>3 DEF SchemaTypes
        <5>2. v <= version <=> v <= version'
          BY <1>2, <2>3, <3>1, <4>1, <4>3
        <5>3. QED
          BY <4>1, <5>1, <5>2
      <4>4. QED
        BY <4>2, <4>3
    <3>3. QED
      BY <3>2 DEF MigratedOnce
  <2>4. QED
    BY <1>4, <2>2, <2>3
<1>9. ASSUME NEW q \in Openers
      PROVE  opening'[q] <= version' + 1 /\ (peeked'[q] => opening'[q] <= 3)
  <2>1. CASE q = p
    BY <1>1, <1>2, <1>3, <1>5, <2>1 DEF SchemaTypes
  <2>2. CASE q # p
    <3>1. opening'[q] = opening[q] /\ peeked'[q] = peeked[q] /\ opening[q] \in 1..4
      BY <1>1, <1>3, <2>2 DEF SchemaTypes
    <3>2. opening[q] <= version + 1 /\ (peeked[q] => opening[q] <= 3)
      BY <1>1 DEF SchemaInv
    <3>3. QED
      BY <1>2, <1>5, <3>1, <3>2
  <2>3. QED
    BY <2>1, <2>2
<1>10. QED
  BY <1>1, <1>3, <1>7, <1>8, <1>9, SchemaKept DEF OpenedInv, SchemaInv

LEMMA StepReopen ==
  ASSUME OpenedInv, NEW p \in Openers, Reopen(p)
  PROVE  OpenedInv'
<1>1. StoreTypeOK /\ SchemaInv /\ SchemaTypes
  BY SchemaTypesAre DEF OpenedInv
<1>2. /\ opening' = [opening EXCEPT ![p] = 1] /\ peeked' = [peeked EXCEPT ![p] = FALSE]
      /\ UNCHANGED <<version, applied, catalogue>>
  BY DEF Reopen
<1>3. SchemaTypes'
  BY <1>1, <1>2 DEF SchemaTypes
<1>4. ASSUME NEW q \in Openers
      PROVE  opening'[q] <= version' + 1 /\ (peeked'[q] => opening'[q] <= 3)
  <2>1. opening[q] <= version + 1 /\ (peeked[q] => opening[q] <= 3) /\ version \in Nat
    BY <1>1 DEF SchemaInv, SchemaTypes
  <2>2. CASE q = p
    BY <1>1, <1>2, <2>1, <2>2 DEF SchemaTypes
  <2>3. CASE q # p
    BY <1>1, <1>2, <2>1, <2>3 DEF SchemaTypes
  <2>4. QED
    BY <2>2, <2>3
<1>5. SchemaInv'
  BY <1>1, <1>2, <1>4 DEF SchemaInv, MigratedOnce
<1>6. QED
  BY <1>1, <1>2, <1>3, <1>5, SchemaKept DEF OpenedInv

(* Whatever an offer resolves to is a product, and a known one its own.     *)
LEMMA ResolutionIs ==
  ASSUME StoreTypeOK, NEW o \in Offers, NEW t \in Titles, NEW r \in Resolutions(o, t)
  PROVE  /\ r.to \in Products /\ r.linked \in Products \cup {NoTitle}
         /\ Known(o) => r.to = product[o]
<1>1. product \in [Offers -> Products \cup {NoTitle}] /\ link \in [Offers -> Products \cup {NoTitle}]
  BY DEF StoreTypeOK
<1>2. CASE Known(o)
  <2>1. r = [to |-> product[o], linked |-> product[o]]
    BY <1>2 DEF Resolutions
  <2>2. product[o] # NoTitle /\ product[o] \in Products \cup {NoTitle}
    BY <1>1, <1>2 DEF Known
  <2>3. QED
    BY <2>1, <2>2
<1>3. CASE ~Known(o) /\ Matches(o, t) = {}
  <2>1. r = [to |-> t, linked |-> link[o]]
    BY <1>3 DEF Resolutions
  <2>2. QED
    BY <1>1, <1>3, <2>1 DEF Products
<1>4. CASE ~Known(o) /\ Matches(o, t) # {}
  <2>1. PICK m \in Matches(o, t) : r = [to |-> IF m.merged THEN m.to ELSE t, linked |-> m.to]
    BY <1>4 DEF Resolutions
  <2>2. PICK q \in Best(o, t) : m = [to |-> product[q], merged |-> Like(t, q) = 2]
    BY DEF Matches
  <2>3. q \in Offers /\ product[q] # NoTitle
    BY DEF Best, Candidates
  <2>4. m.to \in Products
    BY <1>1, <2>2, <2>3
  <2>5. QED
    BY <1>4, <2>1, <2>4 DEF Products
<1>5. QED
  BY <1>2, <1>3, <1>4

LEMMA RecordIs ==
  ASSUME StoreTypeOK, NEW o \in Offers, NEW t \in Titles, Record(o, t)
  PROVE  StoreTypeOK' /\ KeepsProducts /\ UNCHANGED schema
<1>1. PICK r \in Resolutions(o, t) :
        /\ product' = [product EXCEPT ![o] = r.to]
        /\ title' = [title EXCEPT ![r.to] = t]
        /\ link' = [link EXCEPT ![o] = r.linked]
        /\ remaps' = IF r.to = t THEN remaps
                     ELSE remaps \cup {[offer |-> o, old |-> t, new |-> r.to]}
  BY DEF Record
<1>2. /\ r.to \in Products /\ r.linked \in Products \cup {NoTitle}
      /\ Known(o) => r.to = product[o]
  BY ResolutionIs
<1>3. UNCHANGED <<version, applied, opening, peeked>>
  BY DEF Record, schema
<1>4. product' \in [Offers -> Products \cup {NoTitle}] /\ link' \in [Offers -> Products \cup {NoTitle}]
  BY <1>1, <1>2 DEF StoreTypeOK
<1>5. title' \in [Products -> Titles \cup {NoTitle}]
  BY <1>1, <1>2 DEF StoreTypeOK
<1>6. remaps' \subseteq [offer : Offers, old : Products, new : Products]
  <2>1. t \in Products
    BY DEF Products
  <2>2. QED
    BY <1>1, <1>2, <2>1 DEF StoreTypeOK
<1>7. StoreTypeOK'
  BY <1>3, <1>4, <1>5, <1>6 DEF StoreTypeOK
<1>8. KeepsProducts
  <2> SUFFICES ASSUME NEW w \in WellFormed, product[w] # NoTitle PROVE product'[w] = product[w]
    BY DEF KeepsProducts
  <2>1. w \in Offers
    BY StoreAssumption
  <2>2. w = o => Known(o)
    BY DEF Known
  <2>3. product \in [Offers -> Products \cup {NoTitle}]
    BY DEF StoreTypeOK
  <2>4. QED
    BY <1>1, <1>2, <2>1, <2>2, <2>3
<1>9. QED
  BY <1>3, <1>7, <1>8 DEF schema

LEMMA StepStore == OpenedInv /\ [StoreNext]_storeVars => OpenedInv' /\ KeepsProducts
<1> SUFFICES ASSUME OpenedInv, [StoreNext]_storeVars PROVE OpenedInv' /\ KeepsProducts
  OBVIOUS
<1>1. ASSUME NEW p \in Openers, Peek(p) \/ Migrate(p) \/ Reopen(p)
      PROVE  OpenedInv' /\ KeepsProducts
  <2>1. UNCHANGED product
    BY <1>1 DEF Peek, Migrate, Reopen, catalogue
  <2>2. KeepsProducts
    BY <2>1 DEF KeepsProducts
  <2>3. QED
    BY <1>1, <2>2, StepPeek, StepMigrate, StepReopen
<1>2. ASSUME NEW o \in Offers, NEW t \in Titles, Record(o, t)
      PROVE  OpenedInv' /\ KeepsProducts
  <2>1. StoreTypeOK' /\ KeepsProducts /\ UNCHANGED <<version, applied, opening, peeked>>
    BY <1>2, RecordIs DEF OpenedInv, schema
  <2>2. SchemaInv'
    BY <2>1 DEF OpenedInv, SchemaInv, MigratedOnce
  <2>3. QED
    BY <2>1, <2>2 DEF OpenedInv
<1>3. CASE UNCHANGED storeVars
  <2>1. UNCHANGED <<version, applied, opening, peeked, title, product, link, remaps>>
    BY <1>3 DEF storeVars, schema, catalogue
  <2>2. StoreTypeOK'
    BY <2>1 DEF OpenedInv, StoreTypeOK
  <2>3. SchemaInv' /\ KeepsProducts
    BY <2>1 DEF OpenedInv, SchemaInv, MigratedOnce, KeepsProducts
  <2>4. QED
    BY <2>2, <2>3 DEF OpenedInv
<1>4. QED
  BY <1>1, <1>2, <1>3 DEF StoreNext

LEMMA StoreAlways == StoreSpec => []OpenedInv
<1>1. OpenedInv /\ [StoreNext]_storeVars => OpenedInv'
  BY StepStore
<1>2. QED
  BY <1>1, InitStore, PTL DEF StoreSpec

(* MigratedOnce, of _apply_migrations: for any number of processes that     *)
(* open the database at once, a migration that is there was applied once.   *)
THEOREM MigrationsAreApplied == StoreSpec => []MigratedOnce
<1>1. OpenedInv => MigratedOnce
  BY DEF OpenedInv, SchemaInv
<1>2. QED
  BY <1>1, StoreAlways, PTL

(* StableIdentity, of _resolve_product_id: for all shops, titles and any    *)
(* likeness of titles, a well-formed offer keeps its product.               *)
THEOREM OffersKeepTheirProducts == StoreSpec => StableIdentity
<1>1. OpenedInv /\ [StoreNext]_storeVars => [KeepsProducts]_storeVars
  BY StepStore
<1>2. QED
  BY <1>1, StoreAlways, PTL DEF StoreSpec, StableIdentity

(* StoreTypeOK, for all shops, titles and processes.                        *)
THEOREM StoreTypes == StoreSpec => []StoreTypeOK
<1>1. OpenedInv => StoreTypeOK
  BY DEF OpenedInv
<1>2. QED
  BY <1>1, StoreAlways, PTL

----------------------------------------------------------------------------
(* Operations: every step is a step of one part and leaves the others.      *)

LEMMA OpsSteps ==
  ASSUME [OpsNext]_opsVars
  PROVE  /\ [LoopNext]_loopVars /\ [DispatchNext]_dispatchVars
         /\ [FetchNext]_fetchVars /\ [HealthNext]_healthVars /\ [DealNext]_dealVars
         /\ [AnalysisNext]_analysisVars /\ [StoreNext]_storeVars /\ [CollectorNext]_collectorVars
<1> USE DEF scheduling, scraping, judging
<1>1. CASE UNCHANGED opsVars
  BY <1>1, Zenon DEF opsVars
<1>2. CASE LoopNext /\ UNCHANGED <<part, dispatchVars, scraping, judging, collectorVars, syncVars>>
  BY <1>2, Zenon
<1>3. CASE DispatchNext /\ UNCHANGED <<part, loopVars, scraping, judging, collectorVars, syncVars>>
  BY <1>3, Zenon
<1>4. CASE FetchNext /\ UNCHANGED <<part, scheduling, healthVars, dealVars, judging, collectorVars, syncVars>>
  BY <1>4, Zenon
<1>5. CASE HealthNext /\ UNCHANGED <<part, scheduling, fetchVars, dealVars, judging, collectorVars, syncVars>>
  BY <1>5, Zenon
<1>6. CASE DealNext /\ UNCHANGED <<part, scheduling, fetchVars, healthVars, judging, collectorVars, syncVars>>
  BY <1>6, Zenon
<1>7. CASE AnalysisNext /\ UNCHANGED <<part, scheduling, scraping, storeVars, collectorVars, syncVars>>
  BY <1>7, Zenon
<1>8. CASE StoreNext /\ UNCHANGED <<part, scheduling, scraping, analysisVars, collectorVars, syncVars>>
  BY <1>8, Zenon
<1>9. CASE CollectorNext /\ UNCHANGED <<part, scheduling, scraping, judging, syncVars>>
  BY <1>9, Zenon
<1>10. CASE UNCHANGED <<part, scheduling, scraping, judging, collectorVars>>
  BY <1>10, Zenon
<1>11. QED
  BY <1>1, <1>2, <1>3, <1>4, <1>5, <1>6, <1>7, <1>8, <1>9, <1>10, Zenon DEF OpsNext

(* So a behaviour of the whole is one of each component.                    *)
LEMMA OpsRefines ==
  OpsSpec =>
    /\ LoopSpec /\ DispatchSpec /\ FetchSpec /\ HealthSpec /\ DealSpec
    /\ AnalysisSpec /\ StoreSpec /\ CollectorSpec
<1>1. OpsInit =>
        /\ LoopInit /\ DispatchInit /\ FetchInit /\ HealthInit /\ DealInit
        /\ AnalysisInit /\ StoreInit /\ CollectorInit
  BY Zenon DEF OpsInit
<1>2. [OpsNext]_opsVars =>
        /\ [LoopNext]_loopVars /\ [DispatchNext]_dispatchVars
        /\ [FetchNext]_fetchVars /\ [HealthNext]_healthVars /\ [DealNext]_dealVars
        /\ [AnalysisNext]_analysisVars /\ [StoreNext]_storeVars /\ [CollectorNext]_collectorVars
  BY OpsSteps
<1>3. QED
  BY <1>1, <1>2, PTL
  DEF OpsSpec, LoopSpec, DispatchSpec, FetchSpec, HealthSpec, DealSpec, AnalysisSpec, StoreSpec,
      CollectorSpec

(* OperationsTypeOK, for all values of all the components' constants: no    *)
(* step of a part reaches into another, and each keeps its types.           *)
THEOREM EveryPartIsTyped == OpsSpec => []OperationsTypeOK
BY OpsRefines, LoopTypes, DispatchTypes, FetchTypes, HealthTypesHold, DealTypes, AnalysisTypes,
   StoreTypes, FeedbackTypes, PTL
DEF OperationsTypeOK

(* What the components promise without a hypothesis on their constants      *)
(* holds of the whole, the promises about steps included.                   *)
THEOREM EveryPartIsSafe ==
  OpsSpec =>
    /\ []NotifyReadsThisCycle /\ []Spaced
    /\ []FreshRetry /\ []BrowsersClosed
    /\ []QuarantineTold /\ []SilenceTold /\ NoStoreStarves
    /\ []GenuineBeatsTheWindow /\ []JudgementsAgree /\ RecordAlerts
    /\ []RuleDecides /\ []NoticesSurvive
    /\ []MigratedOnce /\ StableIdentity
    /\ []NoPressLost /\ []OnePuller /\ []LatestLabelWins /\ []ErasedStaysErased
<1>1. OpsSpec =>
        []NotifyReadsThisCycle /\ []Spaced /\ []FreshRetry /\ []BrowsersClosed
  BY OpsRefines, CyclesAreFresh, DispatchesAreSpaced, RetriesAreFresh, BrowsersAreClosed, PTL
<1>2. OpsSpec =>
        /\ []QuarantineTold /\ []SilenceTold /\ NoStoreStarves
        /\ []GenuineBeatsTheWindow /\ []JudgementsAgree /\ RecordAlerts
  BY OpsRefines, QuarantinesAreTold, SilencesAreTold, NobodyStarves, GenuineIsBelow,
     SuspectsAreNoDeals, RecordsAlert, PTL
<1>3. OpsSpec => []RuleDecides /\ []NoticesSurvive /\ []MigratedOnce /\ StableIdentity
  BY OpsRefines, TheRuleDecides, TheNoticesSurvive, MigrationsAreApplied,
     OffersKeepTheirProducts, PTL
<1>4. OpsSpec => []NoPressLost /\ []OnePuller /\ []LatestLabelWins /\ []ErasedStaysErased
  BY OpsRefines, NoPressIsLost, OnePulls, TheLastLabelWins, ErasedLabelsStayErased, PTL
<1>5. QED
  BY <1>1, <1>2, <1>3, <1>4

============================================================================
