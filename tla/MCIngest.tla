------------------------------ MODULE MCIngest ------------------------------
(* One incident id and, besides the worker that is also the admin who deletes,    *)
(* deliveries of which two collide on it, as their fingerprints have the same     *)
(* beginning; the others are refused or ignored, each for a reason of its own.    *)
EXTENDS Ingest

CONSTANTS w1, a1, a2, r1, r2, r3, r4, r5, r6, r7, r8

Raw == {"9F8E7D6C-1", "9F8E7D6C-2"}
Prefix == [pagerduty |-> "PD-9F8E7D6C", opsgenie |-> "OG-9F8E7D6C", alertmanager |-> "AM-9F8E7D6C"]
CutRaw == [t \in DOMAIN Prefix |-> [x \in Raw |-> Prefix[t]]]

Firing(x) == [to |-> "alertmanager", signature |-> "right", wellformed |-> TRUE,
              event |-> "opened", severity |-> "unknown", alerts |-> <<x>>]
One == Firing("9F8E7D6C-1")

Requests == {a1, a2, r1, r2, r3, r4, r5, r6, r7, r8}
Bodies == [d \in Requests |->
    CASE d = a1 -> One
      [] d = a2 -> Firing("9F8E7D6C-2")
      [] d = r1 -> [One EXCEPT !.signature = "none"]
      [] d = r2 -> [One EXCEPT !.signature = "wrong"]
      [] d = r3 -> [One EXCEPT !.wellformed = FALSE]
      [] d = r4 -> [One EXCEPT !.event = "other"]
      [] d = r5 -> [One EXCEPT !.alerts = <<>>]
      [] d = r6 -> [One EXCEPT !.to = "pagerduty"]
      [] d = r7 -> [One EXCEPT !.to = "opsgenie", !.event = "other"]
      [] d = r8 -> [One EXCEPT !.to = "generic", !.alerts = <<"AM-9F8E7D6C">>]]

Writers == {w1} \union Requests
=============================================================================
