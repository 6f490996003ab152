--------------------------- MODULE DiningMachine ----------------------------
(***************************************************************************)
(* dining-philosophers.c as the simulated machine runs it: the routines    *)
(* Sem_P and Sem_V of libsem instruction by instruction, on the processors *)
(* and the memory of ShrMem, with bus arbitration and LL/SC.  The machine  *)
(* has no delay slots: a branch that is taken goes to its target at once.  *)
(*                                                                         *)
(* The compiled code around the calls (arguments, loop, busywait, stack)   *)
(* is abstract: between one and LAG instructions, each one that needs no   *)
(* memory or a load.                                                       *)
(***************************************************************************)
EXTENDS ShrMem, Sequences

CONSTANTS
    IDEAS,     \* turns of main's loop
    LAG        \* bound on the instructions between two calls

\* One philosopher per processor; semaphore s is the word at address 4 * s.  The
\* source asks for PHILOS > 0 only, but with one philosopher the footman has no
\* chair to give, and main waits for ever.
ASSUME MachineAssumption == NSHR > 1 /\ IDEAS \in Nat /\ LAG \in Nat \ {0}
Addr(s) == 4 * s

VARIABLES
    pc,        \* where the pc of a processor is, see Target
    n,         \* the operation of main it has reached, as in Dining
    lag        \* instructions since the last call

mVars == <<pc, n, lag>>

\* An int in memory or in a register, in two's complement.
INT_MAX == 2147483647
Signed(w) == w[0] + 256 * w[1] + 65536 * w[2]
             + 16777216 * (IF w[3] >= 128 THEN w[3] - 256 ELSE w[3])
ToWord(v) == [k \in 0 .. 3 |-> (v \div <<1, 256, 65536, 16777216>>[k + 1]) % 256]

(***************************************************************************)
(* The program in memory: footman is PHILOS - 1, an int, and the forks are *)
(* 0, until main sets them; none of them is where the terminal is.         *)
(***************************************************************************)
ASSUME ProgramAssumption ==
    /\ NSHR <= INT_MAX /\ Addr(NSHR + 1) <= MemSize
    /\ \A s \in 0 .. NSHR : /\ Addr(s) # IO_ADDR
                             /\ Signed([k \in 0 .. 3 |-> Image[Addr(s) + k]])
                                  = IF s = 0 THEN NSHR - 1 ELSE 0

\* The counts of the semaphores, as in Dining.
sem == [s \in 0 .. NSHR |-> Signed(WordAt(Addr(s)))]

\* The SC of the call p is in has stored.
Stored(p) == \/ pc[p] = "beqz" /\ rt[p] = One
             \/ pc[p] \in {"nop2", "leave", "jr"}

D == INSTANCE Dining WITH PHILOS <- NSHR,
                          pos <- [p \in Prid |-> n[p] + IF Stored(p) THEN 1 ELSE 0]

Call(p) == D!Does(p, n[p])

-----------------------------------------------------------------------------
(* Sem_P.s and Sem_V.s *)

\* Register $t0 after the addiu: the word of the LL, decremented or incremented.
T0(p) == Signed(rt[p]) + IF Call(p).op = "P" THEN -1 ELSE 1

Ins(op, a, w) == [op |-> op, addr |-> a, val |-> w]
ALU == Ins("ALU", 0, Zero)
LoadStack == Ins("LW", 0, Zero)

\* The instructions p may find at its pc.
Code(p) == CASE pc[p] = "main" -> {ALU, LoadStack}
             [] pc[p] = "set" -> {Ins("SW", Addr(Call(p).sem), One)}
             [] pc[p] = "ll" -> {Ins("LL", Addr(Call(p).sem), Zero)}
             [] pc[p] = "sc" -> {Ins("SC", Addr(Call(p).sem), ToWord(T0(p)))}
             [] pc[p] = "wait" -> {Ins("WAIT", 0, Zero)}
             [] OTHER -> {ALU}

\* Where operation m of main starts.
Entry(p, m) == IF m = D!End THEN "wait"
               ELSE CASE D!Does(p, m).op = "SET" -> "set"
                      [] D!Does(p, m).op = "P" -> "enter"
                      [] D!Does(p, m).op = "V" -> "ll"

\* Faulty: the outcome of the SC is not looked at.
TargetNoRetry(p) ==
    CASE pc[p] = "enter" -> "ll"
      [] pc[p] = "ll" -> "addiu"
      [] pc[p] = "addiu" -> IF Call(p).op = "P" THEN "bltz" ELSE "sc"
      [] pc[p] = "bltz" -> IF T0(p) < 0 THEN "ll" ELSE "nop"
      [] pc[p] = "nop" -> "sc"
      [] pc[p] = "sc" -> "beqz"
      [] pc[p] = "beqz" -> "nop2"
      [] pc[p] = "nop2" -> IF Call(p).op = "P" THEN "leave" ELSE "jr"
      [] pc[p] = "leave" -> "jr"

\* Faulty: blez where it should be bltz.
TargetBlez(p) ==
    CASE pc[p] = "enter" -> "ll"
      [] pc[p] = "ll" -> "addiu"
      [] pc[p] = "addiu" -> IF Call(p).op = "P" THEN "bltz" ELSE "sc"
      [] pc[p] = "bltz" -> IF T0(p) <= 0 THEN "ll" ELSE "nop"
      [] pc[p] = "nop" -> "sc"
      [] pc[p] = "sc" -> "beqz"
      [] pc[p] = "beqz" -> IF rt[p] = Zero THEN "ll" ELSE "nop2"
      [] pc[p] = "nop2" -> IF Call(p).op = "P" THEN "leave" ELSE "jr"
      [] pc[p] = "leave" -> "jr"

\* The instruction after the one at pc in Sem_P (all) or Sem_V (those from ll
\* on, without bltz and its nop).  enter and leave switch the counter CT0.
Target(p) ==
    CASE pc[p] = "enter" -> "ll"
      [] pc[p] = "ll" -> "addiu"
      [] pc[p] = "addiu" -> IF Call(p).op = "P" THEN "bltz" ELSE "sc"
      [] pc[p] = "bltz" -> IF T0(p) < 0 THEN "ll" ELSE "nop"
      [] pc[p] = "nop" -> "sc"
      [] pc[p] = "sc" -> "beqz"
      [] pc[p] = "beqz" -> IF rt[p] = Zero THEN "ll" ELSE "nop2"
      [] pc[p] = "nop2" -> IF Call(p).op = "P" THEN "leave" ELSE "jr"
      [] pc[p] = "leave" -> "jr"

-----------------------------------------------------------------------------
\* The program counter after an instruction of p that was not put off.
InMain(p) == /\ pc[p] = "main"
             /\ \/ /\ lag[p] < LAG
                   /\ lag' = [lag EXCEPT ![p] = @ + 1] /\ UNCHANGED pc
                \/ /\ pc' = [pc EXCEPT ![p] = Entry(p, n[p])]
                   /\ lag' = [lag EXCEPT ![p] = 1]
             /\ UNCHANGED n

InCall(p) == /\ pc[p] \notin {"main", "set", "jr", "wait"}
             /\ pc' = [pc EXCEPT ![p] = Target(p)]
             /\ UNCHANGED <<n, lag>>

Returns(p) == /\ pc[p] \in {"set", "jr"}
              /\ n' = [n EXCEPT ![p] = @ + 1]
              /\ pc' = [pc EXCEPT ![p] = "main"]
              /\ UNCHANGED lag

Stops(p) == pc[p] = "wait" /\ UNCHANGED mVars

Cycle(p) ==
    \/ Idle(p) /\ UNCHANGED mVars
    \/ \E ins \in Code(p) :
         \/ Deferred(p, ins) /\ UNCHANGED mVars
         \/ /\ Alu(p, ins) \/ Access(p, ins) \/ Wait(p, ins)
            /\ InMain(p) \/ InCall(p) \/ Returns(p) \/ Stops(p)

\* Sem_P and Sem_V start with an LL, so what an uninitialised reservation holds
\* is never compared: no reservation stands for all of them.
MInit == /\ Init /\ resaddr = [p \in Prid |-> None]
         /\ pc = [p \in Prid |-> "main"]
         /\ n = [p \in Prid |-> 0]
         /\ lag = [p \in Prid |-> 1]

MNext == \/ BusClr /\ UNCHANGED mVars
         \/ \E p \in Prid : Cycle(p)
         \/ Returned /\ UNCHANGED mVars

MSpec == MInit /\ [][MNext]_<<vars, mVars>> /\ WF_<<vars, mVars>>(MNext)

-----------------------------------------------------------------------------
(* Properties. *)

\* libsem implements semaphores: whatever the bus does to the order of the LLs
\* and SCs of different processors, every run of the program on the machine is
\* one in which each Sem_P and Sem_V takes effect once and at once.
Implements == D!Spec

\* On the machine no fork is in two hands and one chair stays empty.
Exclusive == D!Exclusive

\* Every philosopher comes to the end of main: the footman keeps the forks from
\* being taken in a circle, and the retries of Sem_P and Sem_V cannot keep each
\* other from succeeding for ever.
Terminates == <>(nrun = 0)
=============================================================================
