---------------------------- MODULE MCEventStream ----------------------------
(* Two nodes of a parallel batch: one emits twice, so that its second event *)
(* may be the shielded one, the other once.                                *)
EXTENDS EventStream

CONSTANTS b1, b2

MCEvents == [b \in Branches |-> IF b = b1 THEN 2 ELSE 1]
=============================================================================
