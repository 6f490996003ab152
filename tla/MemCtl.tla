------------------------------- MODULE MemCtl -------------------------------
(***************************************************************************)
(* The memory module of the simulator (mem.c): one memory of MemSize bytes *)
(* and, when several processors share it, the controller `memctl'.  The    *)
(* controller grants the bus to one processor per cycle; the others wait   *)
(* in a ring of nshr slots.  It also keeps, per processor, the address     *)
(* reserved by the last LL.                                                *)
(*                                                                         *)
(* The module has no behaviour of its own: its operations are the actions  *)
(* ShrMem composes.  Mem_busacc runs under memctl.lock and the simulator   *)
(* has one thread, so each operation is one step.                          *)
(***************************************************************************)
EXTENDS Integers

CONSTANTS
    NSHR,      \* memctl.nshr, the number of processors sharing the memory
    MemSize,   \* mem->size, in bytes
    Image      \* the memory once Mem_progld has loaded the program

Prid == 0 .. NSHR - 1     \* processor ids (register K0)
Slots == 0 .. NSHR - 1    \* indices of memctl.queue.arr
None == -1                \* empty slot, no reservation

Byte == 0 .. 255
Word == [0 .. 3 -> Byte]  \* a little-endian uint32_t

ASSUME NAssumption == NSHR \in Nat \ {0}

(***************************************************************************)
(* Mem_create does not round the size: a size that is no multiple of four  *)
(* lets the last word access run past the end of the allocation.           *)
(***************************************************************************)
ASSUME MemAssumption ==
    /\ MemSize \in Nat /\ MemSize % 4 = 0
    /\ Image \in [0 .. MemSize - 1 -> Byte]

VARIABLES
    used,      \* memctl.used: the bus was granted in this cycle
    arr,       \* memctl.queue.arr: the waiting processors, None = free slot
    hd, tl,    \* memctl.queue.hd and tl
    resaddr,   \* memctl.resaddr: reserved address per processor
    data       \* mem->data.b

busVars == <<used, arr, hd, tl>>
memVars == <<used, arr, hd, tl, resaddr, data>>

Shared == NSHR > 1

(***************************************************************************)
(* Mem_create followed by Mem_progld.  The reservations are malloc'ed and  *)
(* never written, so they start with any value: none, or any address a     *)
(* program can use (the set `garbage').                                    *)
(***************************************************************************)
MemInit(garbage) ==
    /\ used = FALSE
    /\ arr = [k \in Slots |-> None]
    /\ hd = 0 /\ tl = 0
    /\ resaddr \in [Prid -> garbage \cup {None}]
    /\ data = Image

-----------------------------------------------------------------------------
(* The bus. *)

Queued(p) == \E k \in Slots : arr[k] = p

\* Faulty variants, named for what they get wrong: the checks must notice.
ArrTwice(p) == [arr EXCEPT ![tl] = p]
TlNoWrap(p) == IF Queued(p) THEN tl ELSE tl + 1

\* The ring after "enqueue if not present".
ArrWith(p) == IF Queued(p) THEN arr ELSE [arr EXCEPT ![tl] = p]
TlWith(p) == IF Queued(p) THEN tl ELSE (tl + 1) % NSHR

\* Faulty: grants a free bus to anyone, or only to those who waited before.
GrantAnyone(p) == ~Shared \/ ~used
GrantNextCycle(p) == ~Shared \/ (~used /\ Queued(p) /\ arr[hd] = p)

\* Mem_busacc returns 0: no arbitration, or an idle bus and p at the head.
Granted(p) == ~Shared \/ (~used /\ ArrWith(p)[hd] = p)

\* The ring after "dequeue if calling processor is in the queue's head".
Dequeue(p) == /\ arr' = [ArrWith(p) EXCEPT ![hd] = None]
              /\ hd' = (hd + 1) % NSHR
              /\ used' = TRUE

Mem_busacc(p) ==
    IF ~Shared THEN UNCHANGED busVars
    ELSE /\ tl' = TlWith(p)
         /\ \/ Granted(p) /\ Dequeue(p)
            \/ ~Granted(p) /\ arr' = ArrWith(p) /\ UNCHANGED <<hd, used>>

\* Faulty: the bus stays taken.
BusclrForgotten == UNCHANGED memVars

Mem_busclr == used' = FALSE /\ UNCHANGED <<arr, hd, tl, resaddr, data>>

-----------------------------------------------------------------------------
(* Loads and stores, executed by the processor that holds the bus. *)

ByteErr(a) == IF a >= MemSize THEN "EADDRNOTAVAIL" ELSE "ok"

WordErr(a) == IF a >= MemSize THEN "EADDRNOTAVAIL"
              ELSE IF a % 4 # 0 THEN "EFAULT" ELSE "ok"

WordAt(a) == [k \in 0 .. 3 |-> data[a + k]]

\* Writing word w at aligned address a.
Overwritten(a, w) == [b \in DOMAIN data |->
                        IF b \in a .. a + 3 THEN w[b - a] ELSE data[b]]

\* A byte as LB leaves it in a register: the sign bit is copied upwards.
SignExt(b) == [k \in 0 .. 3 |-> IF k = 0 THEN b
                                ELSE IF b >= 128 THEN 255 ELSE 0]

\* Faulty: a store leaves the reservations.
UnreservedForgotten(a) == resaddr

\* Every reservation of address a is dropped, the storing processor's too.
Unreserved(a) == [p \in Prid |-> IF resaddr[p] = a THEN None ELSE resaddr[p]]

\* Mem_sw drops the reservations before it looks at the address.
Mem_sw(a, w) ==
    /\ resaddr' = IF Shared THEN Unreserved(a) ELSE resaddr
    /\ data' = IF WordErr(a) = "ok" THEN Overwritten(a, w) ELSE data

\* Mem_sb leaves the reservations alone.
Mem_sb(a, w) ==
    /\ data' = IF ByteErr(a) = "ok" THEN [data EXCEPT ![a] = w[0]] ELSE data
    /\ UNCHANGED resaddr

\* Mem_ll reserves before it looks at the address.
Mem_ll(p, a) ==
    /\ resaddr' = IF Shared THEN [resaddr EXCEPT ![p] = a] ELSE resaddr
    /\ UNCHANGED data

\* Mem_lw and Mem_lb only read.
Mem_load == UNCHANGED <<resaddr, data>>

ScErr(p, a) == IF Shared /\ resaddr[p] # a THEN "EAGAIN" ELSE WordErr(a)

Mem_sc(p, a, w) ==
    IF ScErr(p, a) = "EAGAIN" THEN UNCHANGED <<resaddr, data>>
    ELSE Mem_sw(a, w)

=============================================================================
