------------------------------ MODULE ProdCons ------------------------------
(***************************************************************************)
(* producer-consumer.c (version 1, one producer) and                       *)
(* producer-consumerv2.c (version 2, two producers): a ring buffer in      *)
(* shared memory, a lock, and two semaphores to sleep on, one for          *)
(* consumers that find the buffer empty and one for producers that find it *)
(* full.  The two programs differ in a few lines; `ver' says which one     *)
(* runs.                                                                   *)
(*                                                                         *)
(* A step is one semaphore operation or one critical section; Locked is    *)
(* what lets a section be one step.  The semaphores are those Dining has:  *)
(* DiningMachine shows that libsem implements them.                        *)
(***************************************************************************)
EXTENDS Integers, Sequences, FiniteSets

CONSTANTS
    NCPU,      \* processors; the program is loaded into all of them
    MAXELEM,   \* slots of the buffer
    MAXVAL,    \* the values are 0 .. MAXVAL - 1
    Versions   \* the programs to run

\* The mask MAXELEM - 1 is a modulo for powers of 2 only.  The guard of the
\* sources, MAXELEM & 2 != 0, means MAXELEM & 1: it rejects 1 and lets 6 pass.
ASSUME ProdConsAssumption ==
    /\ MAXELEM \in Nat \ {0} /\ \E k \in 1 .. 16 : MAXELEM = 2 ^ k
    /\ MAXVAL \in Nat
    /\ Versions \subseteq {1, 2} /\ NCPU \in Nat
    /\ NCPU > IF 2 \in Versions THEN 3 ELSE 1

Cpu == 0 .. NCPU - 1

VARIABLES
    ver,                \* the program
    ct, hd, tl, buf,    \* the buffer
    nempty, nfull,      \* consumers and producers that want to be woken
    producing,          \* producing[k]: the producer with id & 1 = k goes on
    lock, full, empty,  \* the semaphores
    pc, flag,           \* of each processor
    val,                \* what a producer produces next
    put, got            \* history: what was enqueued and dequeued

buffer == <<ct, hd, tl, buf, put, got>>
wakers == <<nempty, nfull, full, empty>>
vars == <<ver, buffer, wakers, producing, lock, pc, flag, val>>

Producer == IF ver = 1 THEN {0} ELSE {0, 3}
Consumer == Cpu \ Producer

Init == /\ ver \in Versions
        /\ ct = 0 /\ hd = 0 /\ tl = 0
        /\ buf = [k \in 0 .. MAXELEM - 1 |-> 0]
        /\ nempty = 0 /\ nfull = 0
        /\ producing = [k \in 0 .. 1 |-> k < ver]
        /\ lock = 1 /\ full = 0 /\ empty = 0
        /\ pc = [p \in Cpu |-> IF p \in Producer THEN "produce" ELSE "consume"]
        /\ flag = [p \in Cpu |-> "SUCCESS"]
        /\ val = [p \in Cpu |-> IF ver = 1 THEN 0 ELSE p % 2]
        /\ put = <<>> /\ got = <<>>

Goto(p, l) == pc' = [pc EXCEPT ![p] = l]
Flag(p, f) == flag' = [flag EXCEPT ![p] = f]

-----------------------------------------------------------------------------
(* enqueue and dequeue *)

enqueue(item) == /\ buf' = [buf EXCEPT ![tl] = item]
                 /\ tl' = (tl + 1) % MAXELEM
                 /\ ct' = ct + 1
                 /\ put' = Append(put, item)
                 /\ UNCHANGED <<hd, got>>

\* Faulty: the head is advanced before the item is read.
dequeueLate == /\ hd' = (hd + 1) % MAXELEM
               /\ ct' = ct - 1
               /\ got' = Append(got, buf[(hd + 1) % MAXELEM])
               /\ UNCHANGED <<tl, buf, put>>

dequeue == /\ hd' = (hd + 1) % MAXELEM
           /\ ct' = ct - 1
           /\ got' = Append(got, buf[hd])
           /\ UNCHANGED <<tl, buf, put>>

-----------------------------------------------------------------------------
(* producer *)

\* The loop test: another value, or the end.
More(p) == IF val[p] < MAXVAL THEN "put" ELSE "end"

\* Sem_P(&lock), at the top of the loop or after it.
ProducerLocks(p) == /\ pc[p] = "produce" /\ lock > 0
                    /\ lock' = lock - 1
                    /\ Goto(p, More(p))
                    /\ UNCHANGED <<ver, buffer, wakers, producing, flag, val>>

\* Faulty: a consumer is woken but stays counted as asleep.
WakeStillCounted == empty' = empty + 1 /\ UNCHANGED <<nempty, full, nfull>>

\* Sem_V(&empty); --nempty
Wake == /\ empty' = empty + 1 /\ nempty' = nempty - 1
        /\ UNCHANGED <<full, nfull>>

Put(p) == /\ pc[p] = "put" /\ ct < MAXELEM
          /\ enqueue(val[p])
          /\ IF nempty > 0 THEN Wake ELSE UNCHANGED wakers
          /\ Flag(p, "SUCCESS") /\ Goto(p, "unlock")
          /\ UNCHANGED <<ver, producing, lock, val>>

PutFull(p) == /\ pc[p] = "put" /\ ct >= MAXELEM
              /\ nfull' = IF ver = 1 THEN 1 ELSE nfull + 1
              /\ Flag(p, "FULL") /\ Goto(p, "unlock")
              /\ UNCHANGED <<ver, buffer, nempty, full, empty, producing, lock, val>>

\* The increment of the for loop.
NextVal(p) == val' = [val EXCEPT ![p] = @ + ver]

\* Sem_V(&lock) after the section at the top of the loop.
ProducerUnlocks(p) ==
    /\ p \in Producer /\ pc[p] = "unlock"
    /\ lock' = lock + 1
    /\ \/ flag[p] = "FULL" /\ Goto(p, "waitfull") /\ UNCHANGED val
       \/ flag[p] = "SUCCESS" /\ Goto(p, "produce") /\ NextVal(p)
    /\ UNCHANGED <<ver, buffer, wakers, producing, flag>>

\* Faulty: version 1 goes on to its next value, too.
WaitFullSkips(p) ==
    /\ pc[p] = "waitfull" /\ full > 0
    /\ full' = full - 1
    /\ Goto(p, "produce") /\ NextVal(p)
    /\ UNCHANGED <<ver, buffer, nempty, nfull, empty, producing, lock, flag>>

\* Sem_P(&full).  Version 2 then goes on to the next value.
WaitFull(p) ==
    /\ pc[p] = "waitfull" /\ full > 0
    /\ full' = full - 1
    /\ \/ ver = 1 /\ Goto(p, "relock") /\ UNCHANGED val
       \/ ver = 2 /\ Goto(p, "produce") /\ NextVal(p)
    /\ UNCHANGED <<ver, buffer, nempty, nfull, empty, producing, lock, flag>>

\* Faulty: the lock is not taken.
RelockForgotten(p) == /\ pc[p] = "relock"
                      /\ Goto(p, "store")
                      /\ UNCHANGED <<ver, buffer, wakers, producing, lock, flag, val>>

\* Sem_P(&lock), enqueue(i), Sem_V(&lock), without a look at ct or nempty.
Relock(p) == /\ pc[p] = "relock" /\ lock > 0
             /\ lock' = lock - 1
             /\ Goto(p, "store")
             /\ UNCHANGED <<ver, buffer, wakers, producing, flag, val>>

Store(p) == /\ pc[p] = "store"
            /\ enqueue(val[p])
            /\ Goto(p, "stored")
            /\ UNCHANGED <<ver, wakers, producing, lock, flag, val>>

StoreUnlocks(p) == /\ pc[p] = "stored"
                   /\ lock' = lock + 1
                   /\ Goto(p, "produce") /\ NextVal(p)
                   /\ UNCHANGED <<ver, buffer, wakers, producing, flag>>

\* After the loop: producing = 0, then everyone asleep is woken.
EndProducing(p) == /\ pc[p] = "end"
                   /\ producing' = [producing EXCEPT ![p % 2] = FALSE]
                   /\ Goto(p, "drain")
                   /\ UNCHANGED <<ver, buffer, wakers, lock, flag, val>>

\* Faulty: if instead of while.
DrainOne(p) == /\ pc[p] = "drain" /\ nempty > 0
               /\ Wake
               /\ lock' = lock + 1 /\ Goto(p, "done")
               /\ UNCHANGED <<ver, buffer, producing, flag, val>>

Drain(p) == /\ pc[p] = "drain" /\ nempty > 0
            /\ Wake
            /\ UNCHANGED <<ver, buffer, producing, lock, pc, flag, val>>

Drained(p) == /\ pc[p] = "drain" /\ nempty = 0
              /\ lock' = lock + 1
              /\ Goto(p, "done")
              /\ UNCHANGED <<ver, buffer, wakers, producing, flag, val>>

-----------------------------------------------------------------------------
(* consumer *)

ConsumerLocks(p) == /\ pc[p] = "consume" /\ lock > 0
                    /\ lock' = lock - 1
                    /\ Goto(p, "get")
                    /\ UNCHANGED <<ver, buffer, wakers, producing, flag, val>>

\* Sem_V(&full) and one producer less to wake (version 1 has only one).
WakeProducer == /\ full' = full + 1
                /\ nfull' = IF ver = 1 THEN 0 ELSE nfull - 1
                /\ UNCHANGED <<nempty, empty>>

Get(p) == /\ pc[p] = "get" /\ ct > 0
          /\ dequeue
          /\ IF nfull > 0 THEN WakeProducer ELSE UNCHANGED wakers
          /\ Flag(p, "SUCCESS") /\ Goto(p, "unlock")
          /\ UNCHANGED <<ver, producing, lock, val>>

GetEnd(p) == /\ pc[p] = "get" /\ ct <= 0 /\ \A k \in 0 .. 1 : ~producing[k]
             /\ Flag(p, "END") /\ Goto(p, "unlock")
             /\ UNCHANGED <<ver, buffer, wakers, producing, lock, val>>

GetEmpty(p) == /\ pc[p] = "get" /\ ct <= 0 /\ \E k \in 0 .. 1 : producing[k]
               /\ nempty' = nempty + 1
               /\ Flag(p, "EMPTY") /\ Goto(p, "unlock")
               /\ UNCHANGED <<ver, buffer, nfull, full, empty, producing, lock, val>>

ConsumerUnlocks(p) ==
    /\ p \in Consumer /\ pc[p] = "unlock"
    /\ lock' = lock + 1
    /\ Goto(p, CASE flag[p] = "SUCCESS" -> "consume"
                 [] flag[p] = "EMPTY" -> "waitempty"
                 [] flag[p] = "END" -> "done")
    /\ UNCHANGED <<ver, buffer, wakers, producing, flag, val>>

WaitEmpty(p) == /\ pc[p] = "waitempty" /\ empty > 0
                /\ empty' = empty - 1
                /\ Goto(p, "consume")
                /\ UNCHANGED <<ver, buffer, nempty, nfull, full, producing, lock,
                               flag, val>>

-----------------------------------------------------------------------------
\* A Sem_P on a semaphore that is 0 goes round its loop.
Spins(p) == /\ \/ pc[p] \in {"produce", "relock", "consume"} /\ lock = 0
               \/ pc[p] = "waitfull" /\ full = 0
               \/ pc[p] = "waitempty" /\ empty = 0
            /\ UNCHANGED vars

Done == \A p \in Cpu : pc[p] = "done"
Returned == Done /\ UNCHANGED vars

Next == \/ \E p \in Cpu :
             \/ ProducerLocks(p) \/ Put(p) \/ PutFull(p) \/ ProducerUnlocks(p)
             \/ WaitFull(p) \/ Relock(p) \/ Store(p) \/ StoreUnlocks(p)
             \/ EndProducing(p) \/ Drain(p) \/ Drained(p)
             \/ ConsumerLocks(p) \/ Get(p) \/ GetEnd(p) \/ GetEmpty(p)
             \/ ConsumerUnlocks(p) \/ WaitEmpty(p) \/ Spins(p)
        \/ Returned

\* The machine goes on as long as some processor can get on: nothing is assumed
\* about which of the processors that compete for a semaphore gets it.
Spec == Init /\ [][Next]_vars /\ WF_vars(Next)

-----------------------------------------------------------------------------
(* Properties. *)

InSection(p) == pc[p] \in {"put", "unlock", "store", "stored", "end", "drain", "get"}

\* Only one processor at a time is between Sem_P(&lock) and Sem_V(&lock), on
\* every path through producer and consumer, the second section of a producer
\* that found the buffer full and the one after the loop included.
Locked == lock + Cardinality({p \in Cpu : InSection(p)}) = 1

\* The buffer is a queue that never overflows or underflows: the ct slots from
\* the head on hold what was enqueued and not yet dequeued, in order.  The
\* enqueue of line 95 does not look at ct: there is still room when a producer
\* woken by Sem_V(&full) gets the lock at last.
Fifo == /\ ct \in 0 .. MAXELEM /\ Len(put) = Len(got) + ct
        /\ \A k \in 1 .. Len(put) :
             put[k] = IF k <= Len(got) THEN got[k]
                      ELSE buf[(hd + k - Len(got) - 1) % MAXELEM]

\* Processors that have asked to be woken and have not gone on since.
Asleep(f, l) == {p \in Cpu : flag[p] = f /\ pc[p] \in {"unlock", l}}

\* No wake-up is lost or given twice: every processor asleep on empty or full,
\* or on its way there, is either still counted or its Sem_V has been done.
WakeUps == /\ Cardinality(Asleep("EMPTY", "waitempty")) = nempty + empty
           /\ Cardinality(Asleep("FULL", "waitfull")) = nfull + full

\* Version 1: the values are consumed in order, each once, and all of them by
\* the time everyone has ended.
InOrder == ver = 1 => /\ \A k \in 1 .. Len(got) : got[k] = k - 1
                      /\ Done => Len(got) = MAXVAL

\* All processors come to the end of main: nobody sleeps for ever, although the
\* producer that found the buffer full enqueues without waking anyone.
Terminates == <>Done

\* Every value that is produced is consumed once.
AllConsumed == Done => \A v \in 0 .. MAXVAL - 1 :
                          Cardinality({k \in 1 .. Len(got) : got[k] = v}) = 1
=============================================================================
