------------------------------ MODULE DDining -------------------------------
(***************************************************************************)
(* d_dining-philosophers.c: philosophers, forks and a footman are          *)
(* processes.  Philosophers only output; the footman and the forks decide  *)
(* with alts whose messages they accept.  The communication is that of     *)
(* Csp; a step of a process is what it does between two calls of libcomm,  *)
(* with the call that follows.                                             *)
(***************************************************************************)
EXTENDS Csp, FiniteSets

CONSTANTS
    PHILOS,    \* number of philosophers, 5 in the source
    IDEAS,     \* how often each of them eats
    philo,     \* philo[k]: the process that is philosopher k
    fork,      \* fork[k]: the process that is fork k
    FOOTMAN    \* the process that is the footman

Index == 0 .. PHILOS - 1
Philos == {philo[k] : k \in Index}
Forks == {fork[k] : k \in Index}

ASSUME DDiningAssumption ==
    /\ PHILOS \in Nat /\ PHILOS > 1 /\ IDEAS \in Nat
    /\ Philos \cup Forks \cup {FOOTMAN} \subseteq Proc
    /\ \A j, k \in Index : philo[j] = philo[k] \/ fork[j] = fork[k] => j = k
    /\ Philos \cap Forks = {} /\ FOOTMAN \notin Philos \cup Forks
    /\ NoOp.op \notin {"IN", "OUT", "ALT"}

\* find(philo, 5, id) and find(fork, 5, id)
PhiloIndex(id) == CHOOSE k \in Index : philo[k] = id
ForkIndex(id) == CHOOSE k \in Index : fork[k] = id

VARIABLES
    said,          \* said[id]: messages philosopher id has begun to output
    np,            \* np[id]: philosophers that are not DONE, footman and forks
    seated, arr,   \* table
    pc             \* of footman and forks: what the last call was for

progVars == <<said, np, seated, arr, pc>>
vars == <<cspVars, progVars>>

Init == /\ CspInit
        /\ said = [id \in Philos |-> 0]
        /\ np = [id \in Forks \cup {FOOTMAN} |-> IF id = FOOTMAN THEN PHILOS ELSE 2]
        /\ seated = 0
        /\ arr = [k \in 0 .. PHILOS - 2 |-> 0]
        /\ pc = [id \in Forks \cup {FOOTMAN} |-> "start"]

Input(p) == [op |-> "IN", corr |-> p]
Output(p, d) == [op |-> "OUT", corr |-> p, data |-> d]
Alt(S) == [op |-> "ALT", cl |-> S, df |-> FALSE]

\* id can go on: its last call has returned.
Ready(id) == running[id] /\ st[id] = NoOp

-----------------------------------------------------------------------------
(* philosopher *)

own(id) == fork[PhiloIndex(id)]
nbr(id) == fork[(PhiloIndex(id) + 1) % PHILOS]

\* The outputs of one idea, and those at the end.
Turn(id) == << Output(FOOTMAN, "SITDOWN"), Output(own(id), "PICKUP"),
               Output(nbr(id), "PICKUP"), Output(nbr(id), "PUTDOWN"),
               Output(own(id), "PUTDOWN"), Output(FOOTMAN, "GETUP") >>
Leaves(id) == << Output(own(id), "DONE"), Output(nbr(id), "DONE"),
                 Output(FOOTMAN, "DONE") >>

End == 6 * IDEAS + 3
Says(id, m) == IF m < 6 * IDEAS THEN Turn(id)[(m % 6) + 1]
               ELSE Leaves(id)[m - 6 * IDEAS + 1]

philosopher(id) == /\ id \in Philos /\ Ready(id) /\ said[id] < End
                   /\ Issue(id, Says(id, said[id]))
                   /\ said' = [said EXCEPT ![id] = @ + 1]
                   /\ UNCHANGED <<np, seated, arr, pc>>

-----------------------------------------------------------------------------
(* footman *)

\* find(table.arr, PHILOS - 1, id): the whole array is searched, the entries of
\* philosophers that have got up included.
Entries(id) == {k \in DOMAIN arr : arr[k] = id}
find(id) == CHOOSE k \in Entries(id) : \A m \in Entries(id) : k <= m

sitdown(id) == arr' = [arr EXCEPT ![seated] = id] /\ seated' = seated + 1

\* Faulty: the entry of the philosopher that got up is not filled.
getupHole(id) == IF Entries(id) = {} THEN UNCHANGED <<arr, seated>>
                 ELSE UNCHANGED arr /\ seated' = seated - 1

getup(id) == IF Entries(id) = {} THEN UNCHANGED <<arr, seated>>
             ELSE /\ arr' = [arr EXCEPT ![find(id)] = arr[seated - 1]]
                  /\ seated' = seated - 1

\* Whom the footman listens to: when all chairs but one are taken, only those
\* who sit on them.
Heard(num, table) == IF num = PHILOS - 1 THEN {table[k] : k \in 0 .. num - 1}
                     ELSE Philos

\* The alt has returned.  A full table ignores everything but GETUP.
Obeys == LET action == data[FOOTMAN]
             ret == k1[FOOTMAN]
             last == seated = PHILOS - 1
         IN  /\ pc[FOOTMAN] = "alt"
             /\ IF last /\ action # "GETUP" THEN UNCHANGED <<np, arr, seated>>
                ELSE \/ action = "SITDOWN" /\ sitdown(ret) /\ UNCHANGED np
                     \/ action = "GETUP" /\ getup(ret) /\ UNCHANGED np
                     \/ /\ action = "DONE"
                        /\ np' = [np EXCEPT ![FOOTMAN] = @ - 1]
                        /\ UNCHANGED <<arr, seated>>

footman == /\ Ready(FOOTMAN)
           /\ \/ pc[FOOTMAN] = "start" /\ UNCHANGED <<np, arr, seated>>
              \/ Obeys
           /\ IF np'[FOOTMAN] = 0 THEN Stop(FOOTMAN)
              ELSE Issue(FOOTMAN, Alt(Heard(seated', arr')))
           /\ pc' = [pc EXCEPT ![FOOTMAN] = "alt"]
           /\ UNCHANGED said

-----------------------------------------------------------------------------
(* cutlery *)

\* allowed: the philosopher with the number of the fork, and the one before.
Allowed(f) == LET k == ForkIndex(f) IN
              {philo[k], philo[IF k = 0 THEN PHILOS - 1 ELSE k - 1]}

\* The test of the loop, and its alt or the end.
Lies(f) == /\ IF np'[f] = 0 THEN Stop(f) ELSE Issue(f, Alt(Allowed(f)))
           /\ pc' = [pc EXCEPT ![f] = "alt"]

\* Faulty: the fork goes back to its alt and listens to both philosophers.
HeldByBoth(f) == /\ pc[f] = "alt" /\ data[f] = "PICKUP"
                 /\ UNCHANGED np
                 /\ Issue(f, Alt(Allowed(f)))
                 /\ UNCHANGED pc

\* Picked up: the fork listens to nobody but its holder until PUTDOWN.
Held(f) == /\ \/ pc[f] = "alt" /\ data[f] = "PICKUP"
              \/ pc[f] = "held" /\ data[f] # "PUTDOWN"
           /\ UNCHANGED np
           /\ Issue(f, Input(k1[f]))
           /\ pc' = [pc EXCEPT ![f] = "held"]

\* Faulty: the fork leaves with the first DONE.
DoneEarly(f) == /\ pc[f] = "alt" /\ data[f] = "DONE"
                /\ np' = [np EXCEPT ![f] = 0] /\ Lies(f)

OneDone(f) == /\ pc[f] = "alt" /\ data[f] = "DONE"
              /\ np' = [np EXCEPT ![f] = @ - 1] /\ Lies(f)

\* At the start, when the holder has put it down, and after a message the switch
\* does not know.
PutBack(f) == /\ pc[f] = "alt" => data[f] \notin {"PICKUP", "DONE"}
              /\ pc[f] = "held" => data[f] = "PUTDOWN"
              /\ UNCHANGED np /\ Lies(f)

cutlery(f) == /\ Ready(f)
              /\ Held(f) \/ PutBack(f) \/ OneDone(f)
              /\ UNCHANGED <<said, seated, arr>>

-----------------------------------------------------------------------------
\* main of a philosopher returns; a process that is none of the above returns
\* at once.
Ends(p) == /\ p \in Philos => said[p] = End
           /\ p \notin Forks \cup {FOOTMAN}
           /\ Stop(p) /\ UNCHANGED progVars

Communicates == /\ \/ \E p \in Proc : Finish(p)
                   \/ \E s, r \in Proc : Pass(s, r)
                /\ UNCHANGED progVars

\* A processor whose communication has not ended only counts the cycle.
Waits(p) == st[p] # NoOp /\ UNCHANGED vars

Done == \A p \in Proc : ~running[p]
Returned == Done /\ UNCHANGED vars

Next == \/ footman
        \/ \E f \in Forks : cutlery(f)
        \/ \E p \in Proc : philosopher(p) \/ Ends(p) \/ Waits(p)
        \/ Communicates
        \/ Returned

\* Every processor runs in every cycle: while somebody can get on, somebody does.
Spec == Init /\ [][Next]_vars /\ WF_vars(Next)

-----------------------------------------------------------------------------
(* Properties. *)

\* The messages of a philosopher that were received.
Received(id) == said[id] - IF st[id].op = "OUT" /\ ~taken[id] THEN 1 ELSE 0

\* The part of the current turn others know of: 0 before SITDOWN is received, 1
\* after it, and so on.
Known(id) == IF Received(id) < 6 * IDEAS THEN Received(id) % 6 ELSE 0

AtTable == {id \in Philos : Known(id) > 0}
Holders(k) == {id \in Philos : \/ own(id) = fork[k] /\ Known(id) \in 2 .. 4
                               \/ nbr(id) = fork[k] /\ Known(id) = 3}

\* The footman never lets everybody sit down and no fork is in two hands.
Exclusive == /\ Cardinality(AtTable) < PHILOS
             /\ \A k \in Index : Cardinality(Holders(k)) <= 1

\* The footman's table is right whenever he listens: the first `seated' entries
\* of table.arr are the philosophers at the table, each once, although getup
\* searches the whole array, where those that got up have left their ids.
TableOK == st[FOOTMAN].op = "ALT" =>
    /\ {arr[k] : k \in 0 .. seated - 1} = AtTable
    /\ Cardinality(AtTable) = seated

\* Every process ends: nobody waits for a fork or a chair for ever, and footman
\* and forks learn of all who are DONE.
Terminates == <>Done
=============================================================================
