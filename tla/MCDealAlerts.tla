---------------------------- MODULE MCDealAlerts ----------------------------
(* Two watches without conditions, such as one query for two channels.       *)
EXTENDS DealAlerts

Plain == [target |-> 0, minDrop |-> 0, atl |-> "aggressive", trusted |-> FALSE]
NothingOlder == {<<>>}
TwoWatches == <<Plain, Plain>>
=============================================================================
