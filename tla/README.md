# A TLA+ verification of psim

psim simulates a multiprocessor of MIPS processors, either around one shared
memory or as a network of processors with private memories that communicate in
the style of CSP. This directory specifies the parts of the simulator that
decide *when* things happen: who gets the bus, whether a store-conditional
succeeds, where a message is, when a communication ends. It then specifies the
example programs that run on it, over what the simulated machine was shown to
promise them. The modules are
written from the C code; `PROJECT.json` maps each definition to its lines.

## 1. Inventory

| Component | State | Operations | Interacts through |
|---|---|---|---|
| Memory controller (`mem.c`) | `used`, ring `arr`/`hd`/`tl`, `resaddr`, memory bytes | `Mem_busacc`, `Mem_busclr`, `Mem_lw/lb/sw/sb/ll/sc` | called by the datapath with the processor id in K0 |
| Datapath (`datapath.c`) | none of its own; changes the `CPU` | `fetch`, `decode`, `execute`, `Datapath_execute` | one call per processor and cycle |
| Processor, coprocessor 2 (`cpu.c`, `cpu.h`) | registers, pc, `running`, message registers CORR/DATA/ST/NMSG/HOPS/NCL, counters | `CPU_create`, `CPU_mfc2`, `CPU_mtc2` | ST is written by the datapath, then polled and cleared by the network |
| Shared memory loop (`shrmem.c`) | `i`, `nrun` | `sim` | `Mem_busclr`, then every processor in order of its id |
| Network (`net.c`) | links of `LINK_BUFSZ` messages, mailboxes, `mbox_start` | `fwd`, `operate` (`input`, `output`, `alt`), `hop`, `guidance` | reads the coprocessor; moves messages between nodes |
| Network loop (`dstbmem.c`) | `nrun`, `cycle` | `create`, `sim` | all processors, then `Net_execute` |
| Loader, options, reports (`Mem_progld`, `main.c`, `perfct`) | -- | run once before or after the simulation | -- |
| Libraries (`libsem`, `libcomm`) | none of their own | `Sem_P`, `Sem_V`; `C2_input`, `C2_output`, `C2_alt` and their variants | LL/SC; coprocessor operations |
| Shared memory programs (`examples/src`) | semaphores, a ring buffer, counts of sleepers | producers, consumers, philosophers | `Sem_P`, `Sem_V` |
| Network programs (`examples/src/d_*`) | the buffer of the buffer process, the footman's table | producers, consumers, buffer; philosophers, forks, footman | `C2_*` |

The simulator has one thread, so the concurrency is in what it simulates: the
processors of a cycle act one after the other on shared state, and every
access, acknowledgement or alternative may be put off to a later cycle, in
which it is tried again against a state that has changed. What makes each
component correct:

* *bus*: the ring of waiting processors never overflows or keeps a processor
  that will not come back; grants are first come, first served; an access costs
  at most N cycles, as the repository's README says; no cycle is wasted;
* *LL/SC*: an SC succeeds exactly if the word was not stored to since the LL;
* *loops*: the simulation ends exactly when all processors have stopped;
* *network*: messages take shortest paths and are delivered exactly once;
  mailboxes and links are never overrun; acknowledgements and messages are
  never mixed up; what programs see is the rendezvous of CSP; matching
  communications complete;
* *semaphores*: `Sem_P` and `Sem_V`, loops of several instructions that compete
  for the bus and for reservations, behave as single steps;
* *programs*: critical sections exclude each other; no wake-up is lost; every
  value is consumed once and in order; no fork is in two hands; nobody waits for
  ever, in particular at the end, when the partners of a waiting process stop.

`PROJECT.json` lists, under "hazards", where in the code each of these could go
wrong and what covers it.

## 2. Modules

| Module | Models |
|---|---|
| `MemCtl` | `mem.c`: the controller, the memory and their operations, as actions without a specification of their own |
| `ShrMem` | `shrmem.c` and `datapath.c` over `MemCtl`: the shared memory mode |
| `Routing` | `guidance` and the geometry of `hop`, in 32-bit arithmetic |
| `Route` | one message alone on the grid |
| `Csp` | the communication the programs are promised: its state and steps |
| `Rendezvous` | `Csp` with arbitrary programs: the abstract specification of `Net` |
| `Net` | `dstbmem.c`, `net.c` and the communication part of `datapath.c`, `cpu.c`; shown to implement `Rendezvous` |
| `Dining` | `dining-philosophers.c` over abstract counting semaphores |
| `DiningMachine` | the same program and `libsem`, instruction by instruction, over `ShrMem`; shown to implement `Dining` |
| `ProdCons` | `producer-consumer.c` and `producer-consumerv2.c` over counting semaphores |
| `DProdCons` | `d_producer-consumer.c` and `d_producer-consumerv2.c` over `Csp` |
| `DDining` | `d_dining-philosophers.c` over `Csp` |
| `MCShrMem`, `MCNet`, `MCDining`, `MCDProdCons`, `MCDDining` | instances for TLC |
| `ShrMemProof`, `RoutingProof`, `NetProof`, `DiningProof`, `MachineProof`, `ProdConsProof`, `DProdConsProof`, `DDiningProof` | theorems about the module of that name (`MachineProof`: `DiningMachine`; `RoutingProof`: `Routing` and `Route`); section 4 |

Each layer is checked against the one below it: `Net` implements `Rendezvous`,
and the network programs are modelled over the same communication steps;
`DiningMachine` implements `Dining`, and `ProdCons` uses the semaphores of
`Dining`.

### ShrMem and MemCtl

A step is one call of `Datapath_execute` (or `Mem_busclr` at the head of the
loop) and what `sim` does after it (`Counted`: unless the call failed, `sim`
looks whether the processor has stopped); `i` is the loop index of `sim`. The
program is abstract: after an
instruction that moved the pc, the processor may find any instruction of
`Instrs`; after one that did not (a deferred access, a failure) it finds the
same again (`ir`). The behaviours include those of every program over `Instrs`
that does not overwrite its own code, and more. Instructions that touch
neither memory nor network are `ALU`, the ones that fail whatever the operands
(fetch, decode, unsupported) are `BAD`. `Terminal` is the memory-mapped
terminal, which LB, SB and SW know and LW, LL and SC do not.

Memory is an array of bytes; words are four of them, little endian. The
reservations start with any value, because `Mem_create` leaves them
uninitialised. `Mem_sw`, `Mem_ll` and `Mem_sc` update the reservations before
they check the address, and so does the model. Registers are reduced to the
last value loaded (`rt`). A program is taken not to write K0, the processor's
id. `age`, `ll` and `clean` are history variables: no guard reads them.

`MemAssumption` asks for a memory size that is a multiple of four: `Mem_create`
does not check, and with another size the last word access leaves the
allocation.

### Net, Routing and Rendezvous

A step is one iteration of one of the four loops of a cycle: the processors,
`fwd`, `operate`, `hop`. `operate` has one action per return of `input`,
`output` and `alt`; EDEADLK ends the simulation (`dead`). A link is a sequence
of at most `LINK_BUFSZ` messages; the linked lists of `link_insmsg` and
`link_remmsg` are not modelled pointer by pointer. `st[n]` is the pending
operation together with the registers a program set for it, so a `C2_*` call of
the library is one instruction. `Prog[n]` is the set of instructions node n
may choose from at any time, so each instance covers every program over it.
`over` and `lost` are history variables.

`Rendezvous` has no network: a message passes in one step between an output and
an input or alt that name each other. The refinement mapping calls a message
`taken` once its acknowledgement exists. Left out of `Net`: the counters
(`NMSG`, `HOPS`, `mbox_new`, `linkutil`, `cycle`), failing `malloc`, outputs of
a node to itself and correspondents outside the network (both index past an
array in `net.c`; `ProgAssumption` excludes them). Mailboxes start empty, which
`create` relies on without clearing them.

### Dining and DiningMachine

A philosopher is a position in the list of its semaphore operations (`Does`).
In `Dining` an operation is one step. In `DiningMachine` it is the code of
`Sem_P.s` or `Sem_V.s`: `pc` is a label, `Code` the instruction there, `Target`
the next label, and the instructions are executed by the actions of `ShrMem`,
with arbitration, reservations and retries. Counts are 32-bit words in two's
complement in the simulated memory. The machine has no delay slots, so a taken
branch goes to its target at once. The compiled C around the calls, `busywait`
included, is between one and `LAG` instructions, each of which may use the bus.

The refinement mapping reads the counts out of memory and takes an operation as
done once its SC has stored. The reservations start with no address here, not
with any: both routines execute an LL before their SC.

`main` compiles for one philosopher (`PHILOS > 0`), but then the footman
semaphore is 0 and it waits for ever; `MachineAssumption` asks for two.

### ProdCons

A step is one semaphore operation or one critical section. Treating a section
as a step is justified by `Locked`, which counts the processors between
`Sem_P(&lock)` and `Sem_V(&lock)`. The two programs differ in a few lines, so
they are one module; `ver` says which runs. `put` and `got` are history
variables. A processor in the loop of `Sem_P` on a zero count is the stuttering
step `Spins`.

The programs mask with `MAXELEM - 1`, which is a modulo for powers of two. Their
guard `MAXELEM & 2 != 0` means `MAXELEM & 1`, since `!=` binds tighter: it
rejects odd sizes, 1 among them, and lets 6 pass. `ProdConsAssumption` asks for a power of two
from 2 on.

### Csp, DProdCons and DDining

`Csp` has the pending operation of each process and what it received. `Issue`
and `Stop` are what a program does; `Pass`, `Finish`, `Default` and `Abort` are
what the network does for it. A program is divided at its calls of `libcomm`:
one step computes everything between the end of a call and the next.
In `DProdCons` the buffer process, the producers and the consumers have their C
variables as state; `Waits` is the stuttering of a process whose partner is not
ready. `Abort`, the deadlock report, is not part of the programs' next-state
relation: `NoDeadlk` shows that it never becomes possible.

## 3. What the runs check

| Run | Instance | Properties |
|---|---|---|
| `shrmem_bus` | 4 processors | `TypeOK`, `QueueOK`, `AccessCost`, `NoIdleCycle`, `RunCount`, `FirstCome` |
| `shrmem_llsc` | 2 processors, 2 words | `ScAtomic` |
| `route` | 3x4 grid, all pairs | `Shortest`, `Arrives` |
| `net_line` | 1x4, a server with three clients, crossing outputs | `TypeOK`, `MailboxFree`, `RoundRobin`, `NoAckTaken`, `Refines`, `Progress` |
| `net_merge` | 3x2, messages of three senders and acknowledgements merge on one link | `OneToken`, `HopsExact`, `Answered` |
| `net_turn_lost` | 6x3, links of four, a server whose link other messages fill | `StrictRoundRobin` (violated) |
| `dining` | 3 philosophers on the machine, 2 meals | `Exclusive`, `Implements`, `Terminates` |
| `prodcons` | both versions, 5 processors, buffer of 2 | `Locked`, `Fifo`, `WakeUps`, `InOrder`, `Terminates` |
| `prodcons_v2` | version 2, 4 processors | `AllConsumed` (violated) |
| `d_prodcons` | both versions, 4 nodes, buffer of 2 | `InOrder`, `Bounded`, `NoDeadlk`, `Terminates` |
| `d_prodcons_v2` | version 2 | `AllConsumed` (violated) |
| `d_dining` | 3 philosophers, 3 forks, footman, 2 meals | `Exclusive`, `TableOK`, `Terminates` |

All but the two `_v2` runs and `net_turn_lost` pass. For each property `PROJECT.json` names a mutant, a plausible mistake
in the code, that makes TLC find it violated.

*Bounds.* Four processors are the first number with a waiting processor that is
neither at the head nor at the tail of the ring, and the ring wraps around
several times; the theorems below lift the number. LL/SC needs two processors
(the second stands for all others, since stores treat all reservations alike)
and two words plus a misaligned address. Its terminal is at address 4 instead
of 0xFFFC so that it collides with a word LL and SC use. Links hold one message
instead of four, which makes them full as often as possible; the protocol keeps
at most one token per sender. `U16` and `U32` are scaled down from 2^16
and 2^32, keeping every id below `U16` and a wrapped id larger than any node. On the line, the messages between 0 and 3 pass through the
server's node and take the links its acknowledgements need; there `alt` finds them
full, and a sender loses its turn. `hop` always empties a link of a line before `fwd`
needs it again; the 3x2 grid of `net_merge` is the smallest in which two input links
lead to one output link, so that `fwd` finds it full. `net_turn_lost` has the links of
four messages of `net.h`, so that what it shows can happen in the program as it
is built: nine senders, whose messages leave the server's node on the link its
acknowledgement needs, fill it. Only the server chooses what it does; the other nodes
have one instruction each, which keeps the instance small.

Three philosophers are the first number in which a fork's two users are not each
other's only neighbours; with two meals a philosopher competes for its second
with others at their first. `LAG = 2` lets processors drift against each other
between calls. A buffer of two is the smallest the programs allow. Five
processors give version 1 four consumers and version 2 two producers and three
consumers, more than the buffer has slots, so that several wait at once for
`empty` and for the end; `MAXVAL = 6` fills and wraps the buffer more than once.
The network version 1 has two consumers to see values shared out, version 2 one,
as in `config.mk`.

*Reduction.* `d_dining` explores local steps of a process before communications
(`LocalFirst`). A local step changes only the state of its own process and
enables or disables no other step but that process's communication, and the
properties are written so that no local step changes their truth while the
footman listens; `MCDDining` has the argument.

*`RoundRobin`* holds for nodes all of whose alts have the same clauses:
`mbox_start` is shared by all alts of a node, so one alt can take away the turn
of another. It bounds the messages taken until a sender's turn comes. When the
turn comes the link may be full; the turn is then lost (`lost`), and nothing
bounds how often that happens. `StrictRoundRobin`, without that proviso, is
violated: see the findings.

*`ScAtomic`* is about word stores (`Mem_sb` leaves reservations alone) and about
processors that have executed an LL; an SC before the first LL compares with
uninitialised memory.

*`Answered`* is about a server that does nothing but serve, by waiting alts or by
polling with a default clause. It and `Progress` are statements about these
instances, not about every network: `fwd` runs before `operate`, so messages that
pass through a node come before its own. If all nodes in the first three columns
of a 4x4 grid with one-message links output to node 3 again and again, the link
from 2 to 3 is full whenever node 2 comes to use it, and its output waits for ever.

*`InOrder`* is about version 1, where each value must be consumed once and in
order. Version 2 loses values (below), so its buffer is checked to be a queue
(`Fifo`) and its wake-ups and termination to be right.

*`WakeUps`* relates the counts `nempty` and `nfull` to the processors on their
way to sleep and to the semaphores: every sleeper is either still counted or
has its `Sem_V`, never both.

*`TableOK`* is about the footman's table: `getup` searches entries past the
philosophers that sit, which hold stale ids.

*The bus bound* is a safety property (`AccessCost`, proved); it implies that
every access is eventually served.

*Costs.* `src/README` gives the cost of an output as twice the number of hops plus
waiting. In the loops of a cycle an output occupies 2 * hops + 1 cycles if both
the first and the last are counted. The text does not say which it counts, so
no property is made of it.

*`Refines`* shows that a reported deadlock is one. It does not say that every
deadlock is reported: a cycle of three outputs runs for ever.

*Fairness.* Both specifications assume `WF_vars(Next)`: the simulator is a
thread that goes on until its loop ends. Nothing is assumed about the simulated
processors beyond the order in which the loop calls them. `Route` assumes that
`hop` is called again and again. No run disables the deadlock check: a
simulation that has returned stutters (`Returned`). `DiningMachine`, `ProdCons`
and `DDining` end in every behaviour under `WF_vars(Next)`: no choice of who goes
first keeps the others from the end. `DProdCons` needs more, since its buffer
process polls: weak fairness for each process that can run, send or poll,
and strong fairness for a receive. The latter is what `Answered`
shows of the network: a client that offers again and again, or keeps offering to
a server that polls again and again, is served.

### Findings

* `net.c:333`: `mbox_start` is "for round-robin" (`net.h:66`), but `alt` moves it past
  the chosen sender before it knows whether the acknowledgement finds room. If it
  does not, the message stays and its sender has to wait until all the others
  have had their turn again. In `net_turn_lost` one client is served twice while the
  message of the other waits. Moving `mbox_start` only once the message is taken
  would make `StrictRoundRobin` hold, at the price of serving nobody while the
  link is full.

`src/README:118-120` calls the example programs "semantically right". Both second
versions are not:

* `producer-consumerv2.c:94`: a producer that finds the buffer full counts itself
  in `nfull`, sleeps, and on waking goes on to its next value. The value it
  carried is never stored. Version 1 stores it after waking.
* `d_producer-consumerv2.c:92`: after the -1 of one producer the buffer process goes on
  to its alt over the consumers and answers with `dequeue()` although the
  buffer may be empty. It takes a consumer's request to be waiting when the -1
  is taken with `ct = 0`; the consumer then gets a stale value, `ct` becomes -1,
  and a value stored later is never delivered.

## 4. What is proved

Every theorem holds for every value of the constants that satisfies the named
assumptions of the modules, so for every number of processors or nodes, every
grid, buffer and program. Each property below is also checked by a run.

| Theorem | Property | Says |
|---|---|---|
| `ShrMemProof!TypeCorrect` | `TypeOK` | types; the indices of the ring stay in range |
| `ShrMemProof!RunCountExact` | `RunCount` | the loop ends exactly when all processors have halted |
| `ShrMemProof!QueueSound` | `QueueOK` | the ring holds exactly the deferred processors, each once |
| `ShrMemProof!AccessBounded` | `AccessCost` | an access costs at most N cycles |
| `ShrMemProof!BusNeverIdle` | `NoIdleCycle` | no cycle in which somebody waits is wasted |
| `ShrMemProof!FirstComeFirstServed` | `FirstCome` | grants are made in the order of the requests |
| `ShrMemProof!ScIsAtomic` | `ScAtomic` | an SC succeeds exactly if no store came between |
| `RoutingProof!PathsShortest` | `Shortest` | paths are shortest and stay on the grid |
| `NetProof!TypeCorrect` | `TypeOK` | types; no link is overfull |
| `NetProof!ExactlyOnce` | `OneToken` | one message or acknowledgement per waiting output, no others |
| `NetProof!MailboxesSuffice` | `MailboxFree` | an arriving message finds its mailbox empty |
| `NetProof!AcksAreNotTaken` | `NoAckTaken` | input and alt never take an acknowledgement |
| `NetProof!NoDetour` | `HopsExact` | shortest paths in traffic, and exact hop counts |
| `NetProof!ServedInTurn` | `RoundRobin` | alts serve their clauses in turn, up to turns lost to full links |
| `NetProof!ImplementsRendezvous` | `Refines` | `Net` implements `Rendezvous` |
| `DiningProof!NeverTwice` | | exclusion over abstract semaphores |
| `MachineProof!LibsemImplements` | `Implements` | `Sem_P`, `Sem_V` on the machine implement semaphores |
| `MachineProof!MachineExclusive` | `Exclusive` | no fork in two hands, on the machine |
| `ProdConsProof!SectionsExclude` | `Locked` | one processor at most in a section |
| `ProdConsProof!NoLostWakeUp` | `WakeUps` | every sleeper is counted or has its `Sem_V` |
| `ProdConsProof!BufferIsQueue` | `Fifo` | the ring buffer is a queue, never overrun |
| `ProdConsProof!ConsumedInOrder` | `InOrder` | version 1 hands each value over once, in order |
| `DProdConsProof!NeverDeadlk` | `NoDeadlk` | no two processes output to each other |
| `DProdConsProof!NeverOverrun` | `Bounded` | the buffer process never overruns its ring |
| `DProdConsProof!DeliveredInOrder` | `InOrder` | version 1 hands each value over once, in order, over the network |
| `DDiningProof!DExclusive` | `Exclusive` | no fork in two hands, one chair empty, over the network |
| `DDiningProof!TableRight` | `TableOK` | the footman's table is right whenever he listens |

Assumptions: `NAssumption`, `MemAssumption`, `ShrMemAssumption` (at least one
processor, a memory of whole words); `GridAssumption` (the ids of the grid
fit the `uint16_t` in which a message keeps them, and those of one row more a
`uint32_t`: "every grid" means up to 65536 nodes, a limit nothing in the program
checks); `BufAssumption`, `ProgAssumption` (links hold a
message, correspondents are other nodes of the grid); `MachineAssumption`,
`ProgramAssumption` (two philosophers at least; the instructions of the program
are among those of the machine); `ProdConsAssumption` (the buffer's size is a
power of two); `DProdConsAssumption` (the same for the buffer process; there is at
least one consumer, which takes nodes 0 to 2 for version 1, the 1x3 network of
`run_exp.sh` included, and 0 to 3 for version 2; there are finitely many nodes); `DDiningAssumption` (at least two philosophers; philosophers, forks
and the footman are different nodes). Section 2 gives the reasons.

### The bus and LL/SC

`TypeOK /\ RunCount` is inductive. The properties of the bus are not, and rest
on `BusInv`, which adds to the shape of the ring:

* `HeadIsLater`: while the bus is free and someone waits, the head of the ring
  is a processor the loop has not reached yet in this cycle. A request of any
  other processor therefore does not waste the cycle, and the head takes the
  bus before the cycle ends;
* `SomeoneServed`: once the bus is taken in a cycle, some processor the loop has
  passed is not in the ring; so there is room for the others;
* `Slack`: the deferrals of a processor plus its position in the ring, corrected
  for the part of the cycle that is over, stay within N - 1. This is the potential
  that makes the bound N: each cycle moves every waiting processor one place;
* `Unshared`: with one processor there is no arbitration at all.

`Enqueued` and `RingEnqueue`, `RingDequeue` show that a request keeps the ring
contiguous; `RingRoom` counts: a processor outside the ring leaves a free slot.
`FirstCome` needs `Sorted`: the ring is in the order of the requests, where in
one cycle the loop decides. `ScAtomic` needs `Reserved`: a reservation is what
the history since the LL says it is.

### The grid and the network

`RoutingProof` has the geometry: `GuidedHop` (each hop stays on the grid and
takes one off the distance), and the way of a message as a set of nodes
(`OnWay`) on which a node is determined by its distance from the end
(`WayUnique`). `OnPath` is inductive for `Route`.

`NetProof` sees input links, output links and mailboxes as one function from
places to queues. `fwd` and `hop` are then the same kind of step, a `Shift`:
messages leave the head of some queues and join the end of others, one step
further on their way. `NetInv` is inductive; besides types it says

* `Routed`: every message is where its way leads, with the hops of that way;
* `Alone`: an output has at most one message or acknowledgement in the network;
* `Ordered`: an acknowledgement is ahead of the message its sender outputs
  afterwards to the same node, by its place or, in one queue, by its position.
  Both use the same mailbox, so this is what `MailboxFree` rests on. `Shift`
  preserves it because two messages on the same way with the same number of
  steps before them are in the same queue (`OnePlace`);
* `Owned`, `Carried`: each message belongs to an output that waits for it, and
  each output that waits has one;
* `AckSeen`: an acknowledgement leaves the mailbox in the cycle in which it
  arrives. Hence no `input`, `output` or `alt` of the node can meet an old one.

`ImplementsRendezvous` maps `taken` to the existence of an acknowledgement. With
`NetInv` each step of `Net` is a step of `Rendezvous` or changes nothing of it:
`input` and `alt` take a message of an output that names them (`Pass`),
`outputAcked` is `Finish`, and `outputDead` finds a message in the mailbox whose
sender outputs to the node while the node outputs to it, neither having been
taken, which is where `Ordered` is needed once more.

`ServedInTurn` needs to know by whom a message has been passed over. `InTurn` says
that the count is at most the number of clauses whose turn is now after that of
the message's sender (`After`): taking the message of an earlier clause moves that
clause behind (`AfterGrows`) and no other one in front. `Passed` says that only
messages that wait are counted; it rests on `BoxesKept` (fwd fills empty mailboxes
only) and on `NoAckFor`. The attempt to prove the property without `lost` failed at
`altNobufs`, which is how the finding was made.

### The programs

`DiningProof`: each semaphore counts what nobody has (`Free`): count and holders
add up to one for a fork that was set, to `PHILOS - 1` for the footman.

`MachineProof`: an operation takes effect at the SC that stores. `Where` ties the
program counter to the operation of `main`; `Linked` says that from LL to SC, as
long as the reservation stands, the register has what is in memory, and that a
`Sem_P` at its SC has seen a positive count. That counts fit into a word is
`DiningProof`'s invariant, used at the abstract state.

`ProdConsProof`: the invariant is built in layers, each proved from those before:
`Types` and `Places` (where each kind of processor can be, with which flag);
`Locked` by counting processors in a section together with `lock`; `WakeUps`;
`TailAt` and `Fifo`; `Room` (a producer of version 1 that was woken finds a free
slot); `Values` (what the producer has put so far and who has been told of
the end).

`DProdConsProof`: `Talks` lists where each process can be and which call it has
made; its point is `Waiting`: the buffer process outputs only to a consumer whose
request it has taken and that has no answer yet. `NoDeadlk` follows. `Counts` ties
`ct` to the label of the buffer process. For version 1, `Received`, `Stored` and
`Served` count values, and value v is in slot v mod `MAXELEM` (`Ring`). A consumer's
`Line` is what it has consumed followed by the value that is on its way to it; the
lines together hold the values 0 to `Served` - 1, each once and each line in order
(`Lines`). A message that passes moves a value but changes no line; only `Serves`
does, by the next value (`LinesAppend`). At the end `Served` is `MAXVAL` and nothing
is on its way (`AllServed`).

`DDiningProof`: nobody shares anything, so the invariant says what the servers
know. `Talks` lists where each process can be and which call it has made;
`ForkKnows` says that a fork waits for a message from its holder exactly while
there is one, `FootmanKnows` that the table lists those who sit, both up to the
message that has been received and not been acted on yet. `GetsUp` is about the
search of `getup`: the entries past the last one are stale and may hold the
philosopher that leaves, which changes nothing because the search meets the valid
entry first.

### Only model-checked

* Liveness (`Arrives`, `Progress`, `Answered`, `Terminates`): the proof system does
  not handle fairness.

## 5. Not modelled

* What arithmetic instructions compute, except those of `libsem`; instruction
  encodings (`instr.h` is tables of bit fields).
* ELF loading: it runs once before the simulation; `Image` is its result.
* Options, performance counters and reports: no control depends on them.
* The programs `hello` and `null`, the terminal and arithmetic routines: sequential
  code without shared state.
* The scripts and plots.
* A cycle of full links (`net.c:408`): the routes turn in all four directions,
  so one is conceivable. It takes four links filled by messages that all have
  further to go, thus a grid and a number of senders beyond TLC's reach with the
  whole of `Net`.
* Outputs to the sending node itself or outside the network, which leave the
  arrays of `net.c`.
* Networks of more than 65536 nodes, in which the `uint16_t` fields `to` and `from` of
  a message (`net.h:44`) truncate ids.

## 6. Plan

The modules of section 2 are done, and every invariant and action property that a
passing run checks is proved.
