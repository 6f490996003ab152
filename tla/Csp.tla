-------------------------------- MODULE Csp ---------------------------------
(***************************************************************************)
(* Synchronous, directly named communication, as CSP had it in 1978 and    *)
(* the README of the simulator promises it: what a C2_input, C2_output or  *)
(* C2_alt means to the programs.  There is no network here.  An output is  *)
(* matched with an input or alt of the process it names; the message       *)
(* passes in one step, which ends the input; the output ends some time     *)
(* later.                                                                  *)
(*                                                                         *)
(* Rendezvous makes a specification of these actions, which Net is shown   *)
(* to implement; DProdCons and DDining are programs over them.             *)
(***************************************************************************)
EXTENDS Integers

CONSTANTS Proc, NoOp, None, Zero

VARIABLES
    running,   \* processes that have not stopped
    st,        \* the communication a process is engaged in, or NoOp
    taken,     \* the message of its output has been received
    data,      \* the last message a process received
    k1,        \* the clause its last alt took, None for the default
    dead       \* the system was stopped because of a deadlock

cspVars == <<running, st, taken, data, k1, dead>>

CspInit == /\ running = [p \in Proc |-> TRUE]
           /\ st = [p \in Proc |-> NoOp]
           /\ taken = [p \in Proc |-> FALSE]
           /\ data = [p \in Proc |-> Zero]
           /\ k1 = [p \in Proc |-> None]
           /\ dead = FALSE

\* p issues the communication ins.
Issue(p, ins) == /\ running[p] /\ st[p] = NoOp
                 /\ st' = [st EXCEPT ![p] = ins]
                 /\ UNCHANGED <<running, taken, data, k1, dead>>

Stop(p) == /\ running[p] /\ st[p] = NoOp
           /\ running' = [running EXCEPT ![p] = FALSE]
           /\ UNCHANGED <<st, taken, data, k1, dead>>

\* s offers a message to r that r has not received.
Offers(s, r) == st[s].op = "OUT" /\ st[s].corr = r /\ ~taken[s]

\* r is ready to receive from s.
Accepts(r, s) == \/ st[r].op = "IN" /\ st[r].corr = s
                 \/ st[r].op = "ALT" /\ s \in st[r].cl

Pass(s, r) == /\ Offers(s, r) /\ Accepts(r, s)
              /\ data' = [data EXCEPT ![r] = st[s].data]
              /\ k1' = IF st[r].op = "ALT" THEN [k1 EXCEPT ![r] = s] ELSE k1
              /\ st' = [st EXCEPT ![r] = NoOp]
              /\ taken' = [taken EXCEPT ![s] = TRUE]
              /\ UNCHANGED <<running, dead>>

Finish(s) == /\ st[s].op = "OUT" /\ taken[s]
             /\ st' = [st EXCEPT ![s] = NoOp]
             /\ taken' = [taken EXCEPT ![s] = FALSE]
             /\ UNCHANGED <<running, data, k1, dead>>

\* The default clause may be taken whatever the other clauses.
Default(p) == /\ st[p].op = "ALT" /\ st[p].df
              /\ st' = [st EXCEPT ![p] = NoOp]
              /\ k1' = [k1 EXCEPT ![p] = None]
              /\ UNCHANGED <<running, taken, data, dead>>

\* Two processes output to each other, or an alt has no clause: they will
\* wait for ever, and only then may the system be stopped.
Deadlocked(p) == \/ \E q \in Proc : Offers(p, q) /\ Offers(q, p)
                 \/ st[p].op = "ALT" /\ st[p].cl = {} /\ ~st[p].df

Abort == /\ \E p \in Proc : Deadlocked(p)
         /\ dead' = TRUE
         /\ UNCHANGED <<running, st, taken, data, k1>>
=============================================================================
