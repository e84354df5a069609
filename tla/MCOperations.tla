---------------------------- MODULE MCOperations ----------------------------
(* One small instance of each component.                                    *)
EXTENDS Operations

(* Two shops, one with a SKU that has no pattern; a title is most like      *)
(* itself.                                                                  *)
MCRetailer == [o \in {"e1", "p1", "p2"} |-> IF o = "e1" THEN "emag" ELSE "pcgarage"]
MCLikeness == [t \in {"a", "b"} \X {"a", "b"} |-> IF t[1] = t[2] THEN 2 ELSE 1]

(* A listing whose JSON-LD has no price, and one whose JSON-LD has the URL.  *)
Card(matches, url, name, semantic, shown) ==
  [matches |-> matches, url |-> url, name |-> name, semantic |-> semantic, shown |-> shown]
Product(url, name, price) == [url |-> url, name |-> name, price |-> price]
MCPages ==
  {[cards |-> <<Card(TRUE, "u1", "n", 7, 0), Card(TRUE, "u2", "n", 0, 0), Card(FALSE, "u3", "m", 5, 5)>>,
    products |-> <<Product("u4", "n", 0)>>],
   [cards |-> <<Card(TRUE, "u1", "n", 0, 10)>>, products |-> <<Product("u1", "n", 11)>>]}
MCWatchSites == <<"emag", "flanco">>

(* One watch without conditions, one with all of them.                      *)
Watch(target, atl, trusted) ==
  [target |-> target, minDrop |-> 0, atl |-> atl, trusted |-> trusted]
MCWatches == <<Watch(0, "aggressive", FALSE), Watch(96, "conservative", TRUE)>>

(* Nothing, or a low price that is pruned before the last day.               *)
MCLegacy == {<<>>, <<<<0, 80>>, <<1, 100>>>>}

Alerts == [verdict : {"GENUINE_DEAL", "NORMAL_DROP"}, flaw : {"none", "malformed", "noBaseline"}]
MCBatches == UNION {[1..n -> Alerts] : n \in 0..2}
MCNotices == {<<>>, <<"breakdown">>}

RatedBy == <<"r", "r">>
MCDuplicateKey == [w \in {"w1"} |-> "key"]
=============================================================================
