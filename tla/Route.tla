------------------------------- MODULE Route --------------------------------
(***************************************************************************)
(* One message alone in the network: where guidance (called by output and  *)
(* fwd) and hop take it, for every pair of nodes of the grid.              *)
(***************************************************************************)
EXTENDS Routing

VARIABLES
    src, dst,  \* msg->from and msg->to, uint16_t: every id fits (GridAssumption)
    at,        \* node that holds the message
    hops,      \* msg->hops
    stuck      \* hop reported that the link leaves the network

routeVars == <<src, dst, at, hops, stuck>>

RouteInit == /\ src \in Node /\ dst \in Node
             /\ at = src
             /\ hops = 0
             /\ stuck = FALSE

\* output or fwd put the message on the link of guidance and hop takes it.
Hop == LET olink == guidance(at, dst) IN
       /\ olink # LINK_MBOX /\ ~stuck
       /\ IF Oob(at, olink)
          THEN stuck' = TRUE /\ UNCHANGED <<at, hops>>
          ELSE at' = Nxt(at, olink) /\ hops' = hops + 1 /\ UNCHANGED stuck
       /\ UNCHANGED <<src, dst>>

\* The message is in the mailbox, or stays on the link for ever.
Rest == (at = dst \/ stuck) /\ UNCHANGED routeVars

RouteNext == Hop \/ Rest

RouteSpec == RouteInit /\ [][RouteNext]_routeVars /\ WF_routeVars(Hop)

\* No detour: at every node guidance has used up hops of the distance and the
\* rest is what is left; hop's test for links leaving the network never fires.
Shortest == ~stuck /\ hops + Dist(at, dst) = Dist(src, dst)

\* Every message arrives.
Arrives == <>(at = dst)
=============================================================================
