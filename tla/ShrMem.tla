------------------------------- MODULE ShrMem -------------------------------
(***************************************************************************)
(* The shared memory simulation: `sim' of shrmem.c, the cycle of one       *)
(* processor (Datapath_execute and the memory, WAIT and communication      *)
(* instructions of `execute' in datapath.c) and the memory of MemCtl.      *)
(*                                                                         *)
(* One cycle of the machine is Mem_busclr followed by one call of          *)
(* Datapath_execute per processor, in the order of their ids.  A step of   *)
(* this specification is one of those calls.                               *)
(*                                                                         *)
(* The program is abstract: a processor whose pc has advanced may find any *)
(* instruction of Instrs there, one whose pc stayed (a deferred access, a  *)
(* failing instruction) finds the same one again.  So every program over   *)
(* Instrs is covered, programs that overwrite their own code excepted.     *)
(***************************************************************************)
EXTENDS MemCtl, FiniteSets

CONSTANTS
    Instrs,    \* instructions of the program, see Instr below
    IO_ADDR,   \* the address LB, SB and SW take for the terminal
    Stdin      \* what getchar() may return, as a register value

Loads == {"LB", "LW", "LL"}
Stores == {"SB", "SW", "SC"}

(***************************************************************************)
(* An instruction with its effective address and the register it stores.   *)
(*   ALU   register, branch and coprocessor-register instructions          *)
(*   WAIT  stop the processor                                              *)
(*   COMM  INPUT, OUTPUT or ALT                                            *)
(*   BAD   fetch, decode or execute fails whatever the operands            *)
(***************************************************************************)
Instr == [op : {"ALU", "WAIT", "COMM", "BAD"} \cup Loads \cup Stores,
          addr : Nat, val : Word]

ASSUME ShrMemAssumption ==
    Instrs \subseteq Instr /\ IO_ADDR \in Nat /\ Stdin \subseteq Word

VARIABLES
    i,         \* loop index of sim; NSHR = at the test of the while
    nrun,      \* sim's count of running processors
    running,   \* cpu[p].running
    comm,      \* cpu[p] has a communication operation pending (COP2_MSG_ST)
    ir,        \* instruction the pc of p is stuck at, Fresh if none
    rt,        \* last value p loaded, or the outcome of its last SC
    age,       \* cycles the pending memory access of p was deferred for
    ll,        \* address of the last LL of p, None before the first
    clean      \* no word was stored at ll[p] since that LL

\* age, ll and clean are history: no action's guard reads them.
cpuVars == <<i, nrun, running, comm, ir, rt>>
vars == <<memVars, cpuVars, age, ll, clean>>

Fresh == [op |-> "NONE", addr |-> 0, val |-> [k \in 0 .. 3 |-> 0]]
One == SignExt(1)
Zero == SignExt(0)

Addrs == {ins.addr : ins \in Instrs}

\* The garbage in an uninitialised reservation matters if some SC compares
\* with it; every other value behaves as None.
ScAddrs == {ins.addr : ins \in {x \in Instrs : x.op = "SC"}}

Init ==
    /\ MemInit(ScAddrs)
    /\ i = NSHR
    /\ nrun = NSHR
    /\ running = [p \in Prid |-> TRUE]
    /\ comm = [p \in Prid |-> FALSE]
    /\ ir = [p \in Prid |-> Fresh]
    /\ rt = [p \in Prid |-> Zero]
    /\ age = [p \in Prid |-> 0]
    /\ ll = [p \in Prid |-> None]
    /\ clean = [p \in Prid |-> FALSE]

-----------------------------------------------------------------------------
(* What one instruction means to the bus and to the memory. *)

\* LW, LL and SC at IO_ADDR go to the memory; LB, SB and SW do not.
UsesBus(ins) == \/ ins.op \in {"LW", "LL", "SC"}
                \/ ins.op \in {"LB", "SB", "SW"} /\ ins.addr # IO_ADDR

\* The error of the memory access of p; "EAGAIN" is no failure of SC.
AccessErr(p, ins) ==
    CASE ins.op \in {"LB", "SB"} -> ByteErr(ins.addr)
      [] ins.op \in {"LW", "SW", "LL"} -> WordErr(ins.addr)
      [] ins.op = "SC" -> ScErr(p, ins.addr)

Faults(p, ins) == AccessErr(p, ins) \notin {"ok", "EAGAIN"}

AccessMem(p, ins) ==
    \/ ins.op \in {"LB", "LW"} /\ Mem_load
    \/ ins.op = "SB" /\ Mem_sb(ins.addr, ins.val)
    \/ ins.op = "SW" /\ Mem_sw(ins.addr, ins.val)
    \/ ins.op = "LL" /\ Mem_ll(p, ins.addr)
    \/ ins.op = "SC" /\ Mem_sc(p, ins.addr, ins.val)

\* The destination register after an access that did not fail.
Result(p, ins) ==
    CASE ins.op = "LB" -> SignExt(data[ins.addr])
      [] ins.op \in {"LW", "LL"} -> WordAt(ins.addr)
      [] ins.op = "SC" -> IF ScErr(p, ins.addr) = "ok" THEN One ELSE Zero
      [] OTHER -> rt[p]

-----------------------------------------------------------------------------
(* History: the last LL of each processor and what happened to its word. *)

\* p stores a word at the address of ins, faults included: mem.c drops the
\* reservations of the address before it checks it.
StoresWord(p, ins) == \/ ins.op = "SW"
                      \/ ins.op = "SC" /\ ScErr(p, ins.addr) # "EAGAIN"

NoteAccess(p, ins) ==
    IF ins.op = "LL"
    THEN /\ ll' = [ll EXCEPT ![p] = ins.addr]
         /\ clean' = [clean EXCEPT ![p] = TRUE]
    ELSE /\ clean' = [q \in Prid |->
                        clean[q] /\ ~(StoresWord(p, ins) /\ ll[q] = ins.addr)]
         /\ UNCHANGED ll

-----------------------------------------------------------------------------
(* The calls of Datapath_execute(&cpu[p], mem) made by sim, with i = p. *)

Calls(p) == i = p /\ i' = i + 1

\* A processor that is not waiting for a communication runs the instruction
\* at its pc.
Runs(p, ins) == /\ Calls(p) /\ running[p] /\ ~comm[p]
                /\ IF ir[p] = Fresh THEN ins \in Instrs ELSE ins = ir[p]

Advance(p) == ir' = [ir EXCEPT ![p] = Fresh]
Retry(p, ins) == ir' = [ir EXCEPT ![p] = ins]

\* Faulty: a stopped processor, whose calls fail, is counted in every cycle.
CountedAgain(p, ok) == nrun' = IF ~running'[p] THEN nrun - 1 ELSE nrun

\* sim after the call: if it has returned 0, sim looks whether it stopped p.
Counted(p, ok) == nrun' = IF ok /\ ~running'[p] THEN nrun - 1 ELSE nrun

\* Datapath_execute returns -1 at once, or only counts the cycle.
Idle(p) == /\ Calls(p)
           /\ ~running[p] \/ comm[p]
           /\ UNCHANGED <<memVars, running, comm, ir, rt, age, ll, clean>>
           /\ Counted(p, running[p])

Alu(p, ins) == /\ Runs(p, ins) /\ ins.op = "ALU"
               /\ Advance(p)
               /\ UNCHANGED <<memVars, running, comm, rt, age, ll, clean>>
               /\ Counted(p, TRUE)

Wait(p, ins) == /\ Runs(p, ins) /\ ins.op = "WAIT"
                /\ running' = [running EXCEPT ![p] = FALSE]
                /\ Advance(p)
                /\ UNCHANGED <<memVars, comm, rt, age, ll, clean>>
                /\ Counted(p, TRUE)

\* Nothing in this mode completes a communication.
Comm(p, ins) == /\ Runs(p, ins) /\ ins.op = "COMM"
                /\ comm' = [comm EXCEPT ![p] = TRUE]
                /\ Advance(p)
                /\ UNCHANGED <<memVars, running, rt, age, ll, clean>>
                /\ Counted(p, TRUE)

Bad(p, ins) == /\ Runs(p, ins) /\ ins.op = "BAD"
               /\ Retry(p, ins)
               /\ UNCHANGED <<memVars, running, comm, rt, age, ll, clean>>
               /\ Counted(p, FALSE)

\* LB reads a character, SB and SW write to the terminal, without the bus.
Terminal(p, ins) ==
    /\ Runs(p, ins) /\ ins.op \in Loads \cup Stores /\ ~UsesBus(ins)
    /\ \/ ins.op = "LB" /\ \E c \in Stdin : rt' = [rt EXCEPT ![p] = c]
       \/ ins.op # "LB" /\ UNCHANGED rt
    /\ Advance(p)
    /\ UNCHANGED <<memVars, running, comm, age, ll, clean>>
    /\ Counted(p, TRUE)

\* Mem_busacc failed: EBUSY, the pc stays.  age saturates at NSHR.
Deferred(p, ins) ==
    /\ Runs(p, ins) /\ UsesBus(ins) /\ ~Granted(p)
    /\ Mem_busacc(p)
    /\ Retry(p, ins)
    /\ age' = [age EXCEPT ![p] = IF @ < NSHR THEN @ + 1 ELSE @]
    /\ UNCHANGED <<resaddr, data, running, comm, rt, ll, clean>>
    /\ Counted(p, TRUE)

\* The bus is granted and the memory is accessed.  If the address is bad the
\* instruction fails, the pc stays, and the access is made again next cycle.
Access(p, ins) ==
    /\ Runs(p, ins) /\ UsesBus(ins) /\ Granted(p)
    /\ Mem_busacc(p)
    /\ AccessMem(p, ins)
    /\ NoteAccess(p, ins)
    /\ age' = [age EXCEPT ![p] = 0]
    /\ \/ Faults(p, ins) /\ Retry(p, ins) /\ UNCHANGED rt
       \/ /\ ~Faults(p, ins) /\ Advance(p)
          /\ rt' = [rt EXCEPT ![p] = Result(p, ins)]
    /\ UNCHANGED <<running, comm>>
    /\ Counted(p, ~Faults(p, ins))

Execute(p, ins) == \/ Alu(p, ins) \/ Wait(p, ins) \/ Comm(p, ins) \/ Bad(p, ins)
                   \/ Terminal(p, ins) \/ Deferred(p, ins) \/ Access(p, ins)

\* The head of the while loop: a new cycle starts.
BusClr == /\ i = NSHR /\ nrun > 0
          /\ i' = 0
          /\ Mem_busclr
          /\ UNCHANGED <<nrun, running, comm, ir, rt, age, ll, clean>>

\* sim has returned.
Returned == i = NSHR /\ nrun = 0 /\ UNCHANGED vars

Next == \/ BusClr
        \/ \E p \in Prid : \/ Idle(p)
                           \/ \E ins \in Instrs : Execute(p, ins)
        \/ Returned

\* The simulator is one thread that loops until nrun is 0.
Spec == Init /\ [][Next]_vars /\ WF_vars(Next)

-----------------------------------------------------------------------------
(* Properties. *)

\* Type invariant of the controller, the memory and the processors.
TypeOK ==
    /\ used \in BOOLEAN
    /\ arr \in [Slots -> Prid \cup {None}]
    /\ hd \in Slots /\ tl \in Slots
    /\ resaddr \in [Prid -> Addrs \cup {None}]
    /\ data \in [0 .. MemSize - 1 -> Byte]
    /\ i \in 0 .. NSHR /\ nrun \in 0 .. NSHR
    /\ running \in [Prid -> BOOLEAN] /\ comm \in [Prid -> BOOLEAN]
    /\ ir \in [Prid -> Instrs \cup {Fresh}]
    /\ rt \in [Prid -> Word]
    /\ age \in [Prid -> 0 .. NSHR]
    /\ ll \in [Prid -> Addrs \cup {None}] /\ clean \in [Prid -> BOOLEAN]

\* Position of slot k counted from slot h, the head of a ring.
Pos(h, k) == IF k >= h THEN k - h ELSE k + NSHR - h

\* The number of processors in ring a; t = h means empty or full.
RingLen(a, h, t) == IF t # h THEN Pos(h, t) ELSE IF a[h] = None THEN 0 ELSE NSHR

\* Nobody is in the ring twice, and the occupied slots are the RingLen ones from
\* the head on.
Ring(a, h, t) ==
    /\ \A k, m \in Slots : a[k] # None /\ a[k] = a[m] => k = m
    /\ \A k \in Slots : a[k] # None <=> Pos(h, k) < RingLen(a, h, t)

\* A processor is in the ring exactly while an access of it is deferred, and
\* it will ask for the bus again in its next call.
Waiting(p) == /\ Queued(p) <=> age[p] > 0
              /\ Queued(p) => running[p] /\ ~comm[p] /\ UsesBus(ir[p])

\* The ring of waiting processors (Mem_busacc) is sound: no processor is in it
\* twice, it has no holes and never overflows its nshr slots, and no stopped,
\* stuck or served processor stays in it and blocks the ones behind.
QueueOK == Ring(arr, hd, tl) /\ \A p \in Prid : Waiting(p)

\* README: "a memory access can cost between 1 up to N cycles": an access is
\* deferred for fewer than N cycles before Mem_busacc grants the bus.
AccessCost == \A p \in Prid : age[p] < NSHR

\* The bus does not idle: a cycle that leaves a processor waiting in the ring
\* has granted the bus to another one.
NoIdleCycle == i = NSHR /\ (\E p \in Prid : Queued(p)) => used

\* Whole cycles p has waited for before the current one.
Waited(p) == IF p < i THEN age[p] - 1 ELSE age[p]

\* Bus grants are first come, first served: when Mem_busacc grants the bus to p,
\* nobody left in the ring has waited longer, nor as long with a lower id.
FirstCome == [][\A p, q \in Prid :
    /\ Shared /\ i = p /\ used' /\ ~used
    /\ q # p /\ Queued(q)
    => Waited(q) < Waited(p) \/ (Waited(q) = Waited(p) /\ q > p)]_vars

\* sim returns exactly when every processor has executed WAIT: nrun is the number
\* of running processors, decremented once for each however long it stays halted.
RunCount == nrun = Cardinality({p \in Prid : running[p]})

\* LL/SC is atomic and fails only for a reason: once p has executed an LL, its
\* SC stores the word and returns 1 exactly when its address is the one of that
\* LL and nobody, p included, has stored a word there since (an SC at a bad
\* address faults instead); otherwise it returns 0 and leaves the memory alone.
ScAtomic == [][\A p \in Prid : \A ins \in Instrs :
    Access(p, ins) /\ Shared /\ ins.op = "SC" /\ ll[p] # None =>
        IF ll[p] = ins.addr /\ clean[p]
        THEN WordErr(ins.addr) = "ok" => /\ rt'[p] = One
                                         /\ data' = Overwritten(ins.addr, ins.val)
        ELSE rt'[p] = Zero /\ data' = data]_vars

=============================================================================
