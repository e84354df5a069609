----------------------------- MODULE DealAlerts -----------------------------
(***************************************************************************)
(* From a price on a shop's page to a judged alert: the part of            *)
(* scripts/scrape.py that records an observation and decides on an alert   *)
(* for each watch that finds the offer, and the part of scripts/analyze.py *)
(* and analytics/deal_stats.py that judges it.  One offer, several         *)
(* watches, runs on any day.                                               *)
(*                                                                         *)
(* Prices are whole RON; the three ages (14, 30 and 90 days) keep their    *)
(* order.  An observation made with a price is a row <<day, price>>.       *)
(***************************************************************************)
EXTENDS Integers, Sequences, FiniteSets

CONSTANTS Watches,      \* the watches that find the offer, in their order
          Prices, References,
          Legacy,               \* what an older version may have recorded
          MaxDay, MaxVisits,    \* bounds
          Short, Window, Keep   \* 14, 30 and 90 days

ASSUME DealAssumption ==
  /\ Watches \in Seq([target : Nat, minDrop : Nat, atl : {"aggressive", "conservative", "off"},
                      trusted : BOOLEAN]) \ {<<>>}
  /\ Prices \subseteq Nat \ {0} /\ References \subseteq Nat \ {0}
  /\ MaxDay \in Nat /\ MaxVisits \in Nat
  /\ Legacy \subseteq Seq((0..MaxDay) \X Prices)
  /\ \A rows \in Legacy : \A i, j \in DOMAIN rows : i <= j => rows[i][1] <= rows[j][1]
  /\ Short \in Nat /\ Window \in Nat /\ Keep \in Nat /\ Window <= Keep

None == 0

VARIABLES
  today, visits,
  shop,      \* what the page shows in this run: price, stock, seller, struck-through price
  visiting,  \* the watch to visit next; 0 outside a run
  history,   \* entry["history"]
  low,       \* entry["all_time_low"]
  alerts,    \* this run's, with their judgement
  seen       \* history variable: every row of earlier runs

dealVars == <<today, visits, shop, visiting, history, low, alerts, seen>>

Closed == [price |-> None, inStock |-> FALSE, firstParty |-> FALSE, reference |-> None]

(* An older version kept the rows and no lowest price.                      *)
DealInit ==
  /\ history \in Legacy /\ low = None
  /\ seen = {history[i] : i \in DOMAIN history}
  /\ today = (IF history = <<>> THEN 0 ELSE history[Len(history)][1])
  /\ visits = 0 /\ shop = Closed /\ visiting = 0 /\ alerts = <<>>

----------------------------------------------------------------------------
(* The price rules of scrape.py.                                            *)

ClearsFloor(prev, new) == prev - new >= 5 /\ (prev - new) * 100 >= 2 * prev

(* should_alert, with the lowest price from before this observation.        *)
ShouldAlert(w, prev, new, lowest) ==
  LET record == lowest # None /\ new < lowest
  IN  /\ prev # None /\ new < prev /\ shop.inStock
      /\ \/ record /\ w.atl = "aggressive"
         \/ record /\ w.atl = "conservative" /\ ClearsFloor(prev, new)
         \/ /\ ClearsFloor(prev, new)
            /\ w.target # None => new <= w.target
            /\ (prev - new) * 100 >= w.minDrop * prev

Lowest(s) == IF s = {} THEN None ELSE CHOOSE p \in s : \A q \in s : p <= q

PricesOf(rows) == {rows[i][2] : i \in DOMAIN rows}

(* update_lifetime_stats                                                    *)
Lower(new) == Lowest({new} \cup (IF low = None THEN PricesOf(history) ELSE {low}))

(* The rows not older than n days.  Rows are in the order of their days.    *)
From(rows, n) ==
  CHOOSE k \in 1..(Len(rows) + 1) :
    \A j \in DOMAIN rows : j >= k <=> today - rows[j][1] <= n
Within(rows, n) == SubSeq(rows, From(rows, n), Len(rows))

(* prune_history: 90 days, and never fewer than the last two.               *)
Pruned(rows) ==
  LET kept == Within(rows, Keep)
  IN  IF Len(kept) < 2 THEN SubSeq(rows, IF Len(rows) < 2 THEN 1 ELSE Len(rows) - 1, Len(rows))
                       ELSE kept

(* The low before the observation: the record it may beat.                  *)
PriorLow_Updated == Lower(shop.price)
PriorLow == low

Previous == IF history = <<>> THEN None ELSE history[Len(history)][2]

(* The rows an alert carries: 30 days, without this observation.            *)
Recent_Short == Within(history, Window - 1)
Recent == Within(history, Window)

ThirtyDayLow == IF PricesOf(Recent) = {} THEN Previous ELSE Lowest(PricesOf(Recent))

HistoryDays == IF history = <<>> THEN 0 ELSE today - history[1][1]

----------------------------------------------------------------------------
(* analyze.py: evaluate_omnibus_rule.  A percentage is rounded to two       *)
(* decimals before it is compared with 5.                                   *)
Verdict(new, lowest, reference, days) ==
  CASE days < Short -> "INSUFFICIENT_HISTORY"
    [] days >= Short /\ new >= lowest -> "FALSE_DISCOUNT"
    [] days >= Short /\ new < lowest /\ reference # None /\ 4 * reference > 5 * lowest
         -> "INFLATED_REFERENCE"
    [] OTHER -> IF (lowest - new) * 20000 >= 999 * lowest THEN "GENUINE_DEAL" ELSE "NORMAL_DROP"

(* deal_stats.py.  Twice the median of a window's prices.                   *)
Rank(rows, i) ==
  Cardinality({j \in DOMAIN rows : rows[j][2] < rows[i][2] \/ (rows[j][2] = rows[i][2] /\ j <= i)})
Nth(rows, n) == rows[CHOOSE i \in DOMAIN rows : Rank(rows, i) = n][2]
TwiceMedian(rows) == Nth(rows, (Len(rows) + 1) \div 2) + Nth(rows, Len(rows) \div 2 + 1)

Hiked(price, rows) == 8 * price > 5 * TwiceMedian(rows)

(* compute_deal_stats: a price far above its norm, and a "discount" that    *)
(* does not beat the window's lowest price.                                 *)
Suspect_AnyHike(rows, new, old, reference) ==
  rows # <<>> /\ ((reference # None /\ Hiked(reference, rows)) \/ (Hiked(old, rows) /\ new < old))
Suspect(rows, new, old, reference) ==
  /\ rows # <<>> /\ new >= Lowest(PricesOf(rows))
  /\ \/ reference # None /\ Hiked(reference, rows)
     \/ Hiked(old, rows) /\ new < old

(* The alert of a watch, as analyze.py hands it on.                         *)
Judged(i, new) ==
  [watch |-> i, old |-> Previous, new |-> new, low |-> ThirtyDayLow,
   verdict |-> Verdict(new, ThirtyDayLow, shop.reference, HistoryDays),
   suspect |-> Suspect(Recent, new, Previous, shop.reference)]

----------------------------------------------------------------------------
(* _run *)

StartRun ==
  /\ visiting = 0 /\ visits < MaxVisits
  /\ shop' \in [price : Prices, inStock : BOOLEAN, firstParty : BOOLEAN,
                reference : References \cup {None}]
  /\ visits' = visits + 1 /\ visiting' = 1 /\ alerts' = <<>>
  /\ UNCHANGED <<today, history, low, seen>>

(* A watch finds the offer: the observation is recorded whatever becomes    *)
(* of the alert.                                                            *)
Visit ==
  /\ visiting \in DOMAIN Watches
  /\ low' = Lower(shop.price)
  /\ history' = Pruned(Append(history, <<today, shop.price>>))
  /\ alerts' = IF /\ ShouldAlert(Watches[visiting], Previous, shop.price, PriorLow)
                  /\ Watches[visiting].trusted => shop.firstParty
               THEN Append(alerts, Judged(visiting, shop.price)) ELSE alerts
  /\ visiting' = visiting + 1
  /\ UNCHANGED <<today, visits, shop, seen>>

EndRun ==
  /\ visiting = Len(Watches) + 1
  /\ visiting' = 0 /\ seen' = seen \cup {<<today, shop.price>>}
  /\ shop' = Closed /\ alerts' = <<>>
  /\ UNCHANGED <<today, visits, history, low>>

(* The page could not be read in this run.                                  *)
NextDay ==
  /\ visiting = 0 /\ today < MaxDay
  /\ today' = today + 1
  /\ UNCHANGED <<visits, shop, visiting, history, low, alerts, seen>>

DealNext == StartRun \/ Visit \/ EndRun \/ NextDay

DealSpec == DealInit /\ [][DealNext]_dealVars

----------------------------------------------------------------------------
DealTypeOK ==
  /\ today \in 0..MaxDay /\ visits \in 0..MaxVisits
  /\ visiting \in 0..(Len(Watches) + 1)
  /\ history \in Seq((0..MaxDay) \X Prices)
  /\ low \in Prices \cup {None}
  /\ seen \subseteq (0..MaxDay) \X Prices
  /\ \A i \in DOMAIN alerts : alerts[i].old \in Prices /\ alerts[i].low \in Prices

(* A deal is called genuine only if its price is below every price the shop *)
(* had in the 30 days before the run, whatever was pruned since.            *)
GenuineBeatsTheWindow ==
  \A i \in DOMAIN alerts :
    alerts[i].verdict = "GENUINE_DEAL" =>
      \A r \in seen : today - r[1] <= Window => alerts[i].new < r[2]

(* The two judgements on an alert, made in two modules from two copies of   *)
(* the window, agree: a suspected fake is never a deal.                     *)
JudgementsAgree ==
  \A i \in DOMAIN alerts :
    alerts[i].suspect => alerts[i].verdict \in {"FALSE_DISCOUNT", "INSUFFICIENT_HISTORY"}

(* "An all-time-low override always alerts when a price is the lowest ever  *)
(* recorded" (README.md:120), though the rows that knew it may be pruned:   *)
(* for the first watch to find the offer, from the second run on, since the *)
(* first one does not compare with the low it takes from the older rows.    *)
RecordAlert ==
  /\ visiting' = 0 /\ visiting # 0 /\ visits > 1 /\ shop.inStock
  /\ seen # {} /\ \A r \in seen : shop.price < r[2]
  /\ Watches[1].atl = "aggressive" /\ ~Watches[1].trusted
  => alerts # <<>>
RecordAlerts == [][RecordAlert]_dealVars

(* "When several watches match the same offer, it is sent to the union of   *)
(* their channels" (README.md:126): watches with one rule alert together.   *)
EveryWatchAlerts ==
  [][visiting' = 0 /\ visiting # 0 =>
       \A i, j \in DOMAIN Watches : Watches[i] = Watches[j] =>
         ((\E k \in DOMAIN alerts : alerts[k].watch = i)
            <=> (\E k \in DOMAIN alerts : alerts[k].watch = j))]_dealVars
============================================================================
