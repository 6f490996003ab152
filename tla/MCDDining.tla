----------------------------- MODULE MCDDining ------------------------------
(* An instance of DDining for TLC. *)
EXTENDS DDining, TLC

MCNoOp == [op |-> "NONE"]
MCNone == -1

\* Three of the five philosophers, around the footman as in the source.
MCPhilo == 0 :> 0 @@ 1 :> 1 @@ 2 :> 3
MCFork == 0 :> 4 @@ 1 :> 5 @@ 2 :> 6

(***************************************************************************)
(* What a process does between two calls changes nothing but its own       *)
(* state, is deterministic and keeps no other step from happening.  So it  *)
(* is enough to look at behaviours in which it is done before any message  *)
(* passes (Pass) or output ends (Finish), the steps that change `taken'.   *)
(***************************************************************************)
LocalFirst == taken' # taken => \A p \in Proc : running[p] => st[p] # NoOp
=============================================================================
