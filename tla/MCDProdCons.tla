---------------------------- MODULE MCDProdCons -----------------------------
(* Instances of DProdCons for TLC. *)
EXTENDS DProdCons

MCNoOp == [op |-> "NONE"]
MCNone == -1
=============================================================================
