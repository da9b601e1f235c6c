----------------------------- MODULE MCListMode -----------------------------
(* Instances of ListMode for TLC. *)
EXTENDS ListMode

MCWorkers == {"w1", "w2"}
MCCaller == "caller"
MCNoThread == "none"
=============================================================================
