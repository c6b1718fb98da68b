------------------------------ MODULE MCStream ------------------------------
(* EventStream with every third of the confidence scale as a rating, and one     *)
(* rating beyond each of its ends.                                            *)
EXTENDS EventStream

Thirds == -1..4
=============================================================================
