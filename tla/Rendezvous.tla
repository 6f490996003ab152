----------------------------- MODULE Rendezvous -----------------------------
(***************************************************************************)
(* What the network promises to every program: the communication of Csp    *)
(* between processes that may issue the communications of Prog in any      *)
(* order, and stop.                                                        *)
(***************************************************************************)
EXTENDS Csp

CONSTANT Prog

vars == cspVars
Init == CspInit

Start(p) == \E ins \in Prog[p] : ins.op \in {"IN", "OUT", "ALT"} /\ Issue(p, ins)

Next == \/ \E p \in Proc : Start(p) \/ Stop(p) \/ Finish(p) \/ Default(p)
        \/ \E s, r \in Proc : Pass(s, r)
        \/ Abort

Spec == Init /\ [][Next]_vars
=============================================================================
