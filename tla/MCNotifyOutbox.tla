--------------------------- MODULE MCNotifyOutbox ---------------------------
(* scrape.py's texts name the outage they report; analyze.py's do not.       *)
EXTENDS NotifyOutbox, TLC

CONSTANTS o1, n1, n2, ntfy

OwnText == [n \in Notices |-> n]
OneText == [n \in Notices |-> "outage"]
============================================================================
