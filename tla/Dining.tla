------------------------------- MODULE Dining -------------------------------
(***************************************************************************)
(* dining-philosophers.c over semaphores that are what their name says:    *)
(* Sem_P waits until the count is positive and decrements it, Sem_V        *)
(* increments it, each in one step.  DiningMachine runs the same program   *)
(* on the simulated machine and is shown to implement this module.         *)
(***************************************************************************)
EXTENDS Integers, FiniteSets

CONSTANTS
    PHILOS,    \* number of philosophers, one per processor, at least 2
    IDEAS      \* how often each of them eats

Philo == 0 .. PHILOS - 1

\* The semaphores: footman is number 0, fork[f] is number f + 1.
Footman == 0
Fork(f) == f + 1
Sems == 0 .. PHILOS

fid(id) == (id + 1) % PHILOS

Op(f, s) == [op |-> f, sem |-> s]

\* Faulty: the own fork is put down before the neighbour's is picked up.
TurnOneFork(id) ==
    << Op("P", Footman), Op("P", Fork(id)), Op("V", Fork(id)),
       Op("P", Fork(fid(id))), Op("V", Fork(fid(id))), Op("V", Footman) >>

\* The calls of one turn of main's loop.
Turn(id) == << Op("P", Footman), Op("P", Fork(id)), Op("P", Fork(fid(id))),
               Op("V", Fork(fid(id))), Op("V", Fork(id)), Op("V", Footman) >>

\* What main does with shared memory, by position: fork[id] = 1, then IDEAS
\* turns; at position End it returns.
End == 6 * IDEAS + 1
Does(id, n) == IF n = 0 THEN Op("SET", Fork(id)) ELSE Turn(id)[((n - 1) % 6) + 1]

VARIABLES
    sem,       \* the counts
    pos        \* pos[id]: the next operation of philosopher id

vars == <<sem, pos>>

Init == /\ sem = [s \in Sems |-> IF s = Footman THEN PHILOS - 1 ELSE 0]
        /\ pos = [id \in Philo |-> 0]

\* Philosopher id is about to do f.
About(id, f) == pos[id] < End /\ Does(id, pos[id]).op = f
Passes(id) == pos' = [pos EXCEPT ![id] = @ + 1]

SetFork(id) == /\ About(id, "SET") /\ Passes(id)
               /\ sem' = [sem EXCEPT ![Does(id, pos[id]).sem] = 1]

Sem_P(id) == LET s == Does(id, pos[id]).sem IN
             /\ About(id, "P") /\ sem[s] > 0 /\ Passes(id)
             /\ sem' = [sem EXCEPT ![s] = @ - 1]

Sem_V(id) == LET s == Does(id, pos[id]).sem IN
             /\ About(id, "V") /\ Passes(id)
             /\ sem' = [sem EXCEPT ![s] = @ + 1]

Next == \E id \in Philo : SetFork(id) \/ Sem_P(id) \/ Sem_V(id)

Spec == Init /\ [][Next]_vars
-----------------------------------------------------------------------------
(* Properties. *)

\* Operations of the current turn that philosopher id has completed.
Progressed(id) == IF pos[id] = 0 THEN 0 ELSE (pos[id] - 1) % 6

Seated(id) == Progressed(id) > 0
Holds(id, f) == \/ f = id /\ Progressed(id) \in 2 .. 4
                \/ f = fid(id) /\ Progressed(id) = 3

\* The footman (Sem_P(&footman)) keeps one chair empty and no fork is in two
\* hands, from before main has set the forks to 1 until all have left.
Exclusive ==
    /\ Cardinality({id \in Philo : Seated(id)}) < PHILOS
    /\ \A f \in Philo : Cardinality({id \in Philo : Holds(id, f)}) <= 1
=============================================================================
