------------------------------ MODULE DProdCons ------------------------------
(***************************************************************************)
(* d_producer-consumer.c (version 1, one producer) and                     *)
(* d_producer-consumerv2.c (version 2, two producers): a process keeps the *)
(* buffer; producers output to it, a consumer outputs a request to it and  *)
(* inputs the answer.  -1 is the end of the values.                        *)
(*                                                                         *)
(* A step of a process is what it does between two calls of libcomm, with  *)
(* the call that follows; the communication is that of Csp.                *)
(***************************************************************************)
EXTENDS Csp, Sequences, FiniteSets

CONSTANTS
    MAXELEM,   \* slots of the buffer
    MAXVAL,    \* the values are 0 .. MAXVAL - 1
    Versions   \* the programs to run

BUFFER == 1

\* As in the shared memory programs, the guard of the sources against other
\* values of MAXELEM than powers of 2 does not work.  There is a consumer: node 2
\* in version 1, node 3 in version 2.
ASSUME DProdConsAssumption ==
    /\ MAXELEM \in Nat \ {0} /\ \E k \in 1 .. 16 : MAXELEM = 2 ^ k
    /\ MAXVAL \in Nat
    /\ Versions \subseteq {1, 2}
    /\ {0, BUFFER, 2} \subseteq Proc /\ (2 \in Versions => 3 \in Proc)
    /\ IsFiniteSet(Proc) /\ None \notin Proc
    /\ NoOp.op \notin {"IN", "OUT", "ALT"}

VARIABLES
    ver,               \* the program
    pc,                \* the call a process has to make, or has made, next
    ct, hd, tl, buf,   \* the buffer
    np, nc,            \* producers that go on, consumers to be told of the end
    val,               \* what a producer produces next
    got                \* history: the values a consumer has consumed

bufVars == <<ct, hd, tl, buf>>
vars == <<cspVars, ver, pc, bufVars, np, nc, val, got>>

Producers == IF ver = 1 THEN {0} ELSE {0, 2}
Consumers == Proc \ (Producers \cup {BUFFER})

Init == /\ CspInit
        /\ ver \in Versions
        /\ pc = [p \in Proc |-> IF p = BUFFER THEN "top"
                                ELSE IF p \in Producers THEN "produce" ELSE "ask"]
        /\ ct = 0 /\ hd = 0 /\ tl = 0
        /\ buf = [k \in 0 .. MAXELEM - 1 |-> 0]
        /\ np = ver /\ nc = Cardinality(Consumers)
        /\ val = [p \in Proc |-> IF ver = 2 /\ p = 2 THEN 1 ELSE 0]
        /\ got = [p \in Proc |-> <<>>]

Input(p) == [op |-> "IN", corr |-> p]
Output(p, d) == [op |-> "OUT", corr |-> p, data |-> d]
Alt(S, df) == [op |-> "ALT", cl |-> S, df |-> df]

\* p makes the call ins and will go on at l when it has returned.
Call(p, ins, l) == Issue(p, ins) /\ pc' = [pc EXCEPT ![p] = l]

\* p goes on at l without a call.
Jump(p, l) == /\ pc' = [pc EXCEPT ![p] = l]
              /\ UNCHANGED cspVars

\* p is at l and the call before l has returned.
At(p, l) == pc[p] = l /\ running[p] /\ st[p] = NoOp

-----------------------------------------------------------------------------
(* buffer *)

enqueue(item) == /\ buf' = [buf EXCEPT ![tl] = item]
                 /\ tl' = (tl + 1) % MAXELEM /\ ct' = ct + 1
                 /\ UNCHANGED hd

\* The caller has taken buf[hd].  Nothing looks at ct.
dequeue == /\ hd' = (hd + 1) % MAXELEM /\ ct' = ct - 1
           /\ UNCHANGED <<tl, buf>>

\* Faulty: one slot more than there is.
TopLate == /\ At(BUFFER, "top")
           /\ IF ver = 2 /\ np = 0 THEN Jump(BUFFER, "rem")
              ELSE IF ct <= MAXELEM
              THEN Call(BUFFER, IF ver = 1 THEN Input(0) ELSE Alt(Producers, FALSE),
                        "input")
              ELSE Call(BUFFER, Alt(Consumers, TRUE), "alt")
           /\ UNCHANGED <<ver, bufVars, np, nc, val, got>>

\* The head of the loop: a full buffer takes nothing from the producers.
Top == /\ At(BUFFER, "top")
       /\ IF ver = 2 /\ np = 0 THEN Jump(BUFFER, "rem")
          ELSE IF ct < MAXELEM
          THEN Call(BUFFER, IF ver = 1 THEN Input(0) ELSE Alt(Producers, FALSE),
                    "input")
          ELSE Call(BUFFER, Alt(Consumers, TRUE), "alt")
       /\ UNCHANGED <<ver, bufVars, np, nc, val, got>>

\* A value has arrived; now the consumers are asked, without waiting for them.
Stores == /\ At(BUFFER, "input") /\ data[BUFFER] >= 0
          /\ enqueue(data[BUFFER])
          /\ Call(BUFFER, Alt(Consumers, TRUE), "alt")
          /\ UNCHANGED <<ver, np, nc, val, got>>

\* A producer has ended: version 1 leaves the loop at once, version 2 goes on to
\* ask the consumers.
ProducerEnds == /\ At(BUFFER, "input") /\ data[BUFFER] < 0
                /\ \/ ver = 1 /\ Jump(BUFFER, "rem") /\ UNCHANGED np
                   \/ /\ ver = 2 /\ np' = np - 1
                      /\ Call(BUFFER, Alt(Consumers, TRUE), "alt")
                /\ UNCHANGED <<ver, bufVars, nc, val, got>>

\* A consumer has asked: it gets the head of the buffer.
Serves(l, next) == /\ At(BUFFER, l) /\ k1[BUFFER] # None
                   /\ Call(BUFFER, Output(k1[BUFFER], buf[hd]), next)
                   /\ dequeue
                   /\ UNCHANGED <<ver, np, nc, val, got>>

Nobody == /\ At(BUFFER, "alt") /\ k1[BUFFER] = None
          /\ Jump(BUFFER, "top")
          /\ UNCHANGED <<ver, bufVars, np, nc, val, got>>

\* Faulty: the rest of the buffer is thrown away.
RemThrown == /\ At(BUFFER, "rem")
             /\ Jump(BUFFER, "last")
             /\ UNCHANGED <<ver, bufVars, np, nc, val, got>>

\* After the last value: the consumers get the rest of the buffer ...
Rem == /\ At(BUFFER, "rem")
       /\ IF ct > 0 THEN Call(BUFFER, Alt(Consumers, FALSE), "remalt")
          ELSE Jump(BUFFER, "last")
       /\ UNCHANGED <<ver, bufVars, np, nc, val, got>>

\* Faulty: one consumer too few is told of the end.
LastOneLess == /\ At(BUFFER, "last")
               /\ IF nc > 1 THEN Call(BUFFER, Alt(Consumers, FALSE), "lastalt")
                  ELSE Stop(BUFFER) /\ UNCHANGED pc
               /\ UNCHANGED <<ver, bufVars, np, nc, val, got>>

\* ... and then each of them an end.
Last == /\ At(BUFFER, "last")
        /\ IF nc > 0 THEN Call(BUFFER, Alt(Consumers, FALSE), "lastalt")
           ELSE Stop(BUFFER) /\ UNCHANGED pc
        /\ UNCHANGED <<ver, bufVars, np, nc, val, got>>

LastAlt == /\ At(BUFFER, "lastalt")
           /\ Call(BUFFER, Output(k1[BUFFER], -1), "last")
           /\ nc' = nc - 1
           /\ UNCHANGED <<ver, bufVars, np, val, got>>

buffer == \/ Top \/ Stores \/ ProducerEnds \/ Serves("alt", "top") \/ Nobody
          \/ Rem \/ Serves("remalt", "rem") \/ Last \/ LastAlt

-----------------------------------------------------------------------------
(* producer and consumer *)

Produce(p) == /\ At(p, "produce") /\ val[p] < MAXVAL
              /\ Call(p, Output(BUFFER, val[p]), "produce")
              /\ val' = [val EXCEPT ![p] = @ + ver]
              /\ UNCHANGED <<ver, bufVars, np, nc, got>>

EndProducing(p) == /\ At(p, "produce") /\ val[p] >= MAXVAL
                   /\ Call(p, Output(BUFFER, -1), "end")
                   /\ UNCHANGED <<ver, bufVars, np, nc, val, got>>

Ask(p) == /\ At(p, "ask")
          /\ Call(p, Output(BUFFER, 0), "answer")
          /\ UNCHANGED <<ver, bufVars, np, nc, val, got>>

\* Faulty: the consumer outputs where it should input.
AnswerOut(p) == /\ At(p, "answer")
                /\ Call(p, Output(BUFFER, 0), "consume")
                /\ UNCHANGED <<ver, bufVars, np, nc, val, got>>

Answer(p) == /\ At(p, "answer")
             /\ Call(p, Input(BUFFER), "consume")
             /\ UNCHANGED <<ver, bufVars, np, nc, val, got>>

Consume(p) == /\ At(p, "consume") /\ data[p] >= 0
              /\ got' = [got EXCEPT ![p] = Append(@, data[p])]
              /\ Jump(p, "ask")
              /\ UNCHANGED <<ver, bufVars, np, nc, val>>

Ends(p) == /\ \/ At(p, "end")
              \/ At(p, "consume") /\ data[p] < 0
           /\ Stop(p)
           /\ UNCHANGED <<ver, pc, bufVars, np, nc, val, got>>

Runs(p) == \/ p = BUFFER /\ buffer
           \/ Produce(p) \/ EndProducing(p)
           \/ Ask(p) \/ Answer(p) \/ Consume(p) \/ Ends(p)

-----------------------------------------------------------------------------
progVars == <<ver, pc, bufVars, np, nc, val, got>>

Receives(r) == (\E s \in Proc : Pass(s, r)) /\ UNCHANGED progVars
Sent(s) == Finish(s) /\ UNCHANGED progVars
Polls(p) == Default(p) /\ UNCHANGED progVars

\* A processor whose communication has not ended only counts the cycle.
Waits(p) == st[p] # NoOp /\ UNCHANGED vars

Done == \A p \in Proc : ~running[p]
Returned == Done /\ UNCHANGED vars

Next == \/ \E p \in Proc : \/ Runs(p) \/ Receives(p) \/ Sent(p) \/ Polls(p)
                           \/ Waits(p)
        \/ Returned

(***************************************************************************)
(* Every processor runs in every cycle and every communication is looked   *)
(* at in every cycle.  A process that polls again and again takes a        *)
(* message in the end, for alt looks for messages before it takes the      *)
(* default: Net's property Answered.                                       *)
(***************************************************************************)
Fairness == \A p \in Proc : /\ WF_vars(Runs(p)) /\ WF_vars(Sent(p))
                            /\ WF_vars(Polls(p)) /\ SF_vars(Receives(p))

Spec == Init /\ [][Next]_vars /\ Fairness

-----------------------------------------------------------------------------
(* Properties. *)

\* How often value v was consumed.
Times(v) == Cardinality({c \in Proc \X (1 .. MAXVAL + 2) :
                           c[2] <= Len(got[c[1]]) /\ got[c[1]][c[2]] = v})

\* Version 1: whichever consumers ask and however late, no value is consumed twice,
\* each consumer sees them in order, and by the time everyone has ended all of
\* them have been consumed.
InOrder == ver = 1 =>
    /\ \A p \in Proc : \A k \in 2 .. Len(got[p]) : got[p][k - 1] < got[p][k]
    /\ \A v \in 0 .. MAXVAL - 1 : Times(v) <= 1 /\ (Done => Times(v) = 1)

\* The buffer never overflows; in version 1, whose dequeue never looks at ct, it
\* does not underflow: a consumer is answered only after a value was stored.
Bounded == ct <= MAXELEM /\ (ver = 1 => ct >= 0)

\* The network never stops the simulation (EDEADLK): the buffer and a consumer
\* never output to each other, and no alt is without a clause.
NoDeadlk == \A p \in Proc : ~Deadlocked(p)

\* Every process ends: each consumer gets its -1, and a buffer that polls the
\* consumers does not starve the producers or itself.
Terminates == <>Done

\* Every value that is produced is consumed once.
AllConsumed == Done => \A v \in 0 .. MAXVAL - 1 : Times(v) = 1
=============================================================================
