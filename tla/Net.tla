-------------------------------- MODULE Net ---------------------------------
(***************************************************************************)
(* The network mode of the simulator: `sim' of dstbmem.c, the network of   *)
(* net.c and the communication operations of the processors (datapath.c,   *)
(* coprocessor 2 of cpu.c).                                                *)
(*                                                                         *)
(* Processors communicate by naming each other.  An output sends one       *)
(* message and waits for the acknowledgement that the input or alt taking  *)
(* the message sends back.  Messages and acknowledgements travel on the    *)
(* same links.  A cycle of sim runs four loops over the nodes: a call of   *)
(* Datapath_execute each, then fwd, operate and hop.  A step of this       *)
(* specification is one iteration of one of the loops.                     *)
(***************************************************************************)
EXTENDS Routing, Sequences, FiniteSets

CONSTANTS
    LINK_BUFSZ,   \* messages a link can hold, 4 in net.h
    Data,         \* payloads
    Zero,         \* the payload 0, which CPU_create leaves in the registers
    Prog          \* Prog[n]: the instructions node n may execute, see Instr

ASSUME BufAssumption == LINK_BUFSZ \in Nat \ {0} /\ Zero \in Data

None == -1        \* K1 after the default clause of an alt
NoMsg == [ack |-> None]

(***************************************************************************)
(* What a node executes: ALU stands for every instruction that is no       *)
(* communication, WAIT stops the processor.  A communication comes with    *)
(* the coprocessor registers the program has set for it: the correspondent *)
(* and the data, or the clauses of an alt and whether the last of them is  *)
(* the default.  No program outputs to its own node: the message would go  *)
(* to link LINK_MBOX of the node, which does not exist.                    *)
(***************************************************************************)
Instr(n) == [op : {"ALU", "WAIT"}]
       \cup [op : {"IN"}, corr : Node]
       \cup [op : {"OUT"}, corr : Node \ {n}, data : Data]
       \cup [op : {"ALT"}, cl : SUBSET Node, df : BOOLEAN]

ASSUME ProgAssumption == \A n \in Node : Prog[n] \subseteq Instr(n)

NoOp == [op |-> "NONE"]

\* struct Msg; the data of an acknowledgement is never set.  to and from are
\* uint16_t, which every id fits (GridAssumption).
Garbage == "uninitialised"
Msg == [to : Node, from : Node, data : Data, ack : {0}, hops : Nat]
  \cup [to : Node, from : Node, data : {Garbage}, ack : {1}, hops : Nat]

VARIABLES
    ph,        \* the loop sim is in: "cpu", "fwd", "operate", "hop"
    i,         \* its index
    nrun,      \* net->nrun
    running,   \* cpu->running
    st,        \* COP2_MSG: the pending operation with its registers, or NoOp
    sent,      \* bit 2 of COP2_MSG_ST: the output waits for its ack
    data,      \* COP2_MSG_DATA after the last input or alt
    k1,        \* register K1 after the last alt
    inl, outl, \* link[LINK_IN] and link[LINK_OUT]
    mbox,      \* mbox[n][m]: what n has received from m
    start,     \* mbox_start
    dead,      \* operate has returned EDEADLK and sim has returned -1
    over,      \* over[n][m]: alts of n with a clause for m that took another
               \* message while that of m was in the mailbox (history)
    lost       \* lost[n][m]: an alt of n came to the message of m and could not
               \* acknowledge it (history)

cpuVars == <<nrun, running, st, sent, data, k1>>
netVars == <<inl, outl, mbox, start>>
vars == <<ph, i, cpuVars, netVars, dead, over, lost>>

\* create and CPU_create.  The mailboxes are malloc'ed and never cleared; the
\* program relies on fresh memory being zero.
Init ==
    /\ ph = "cpu" /\ i = 0
    /\ nrun = Size /\ running = [n \in Node |-> TRUE]
    /\ st = [n \in Node |-> NoOp]
    /\ sent = [n \in Node |-> FALSE]
    /\ data = [n \in Node |-> Zero]
    /\ k1 = [n \in Node |-> None]
    /\ inl = [n \in Node |-> [l \in Links |-> <<>>]]
    /\ outl = [n \in Node |-> [l \in Links |-> <<>>]]
    /\ mbox = [n \in Node |-> [m \in Node |-> NoMsg]]
    /\ start = [n \in Node |-> 0]
    /\ dead = FALSE
    /\ over = [n \in Node |-> [m \in Node |-> 0]]
    /\ lost = [n \in Node |-> [m \in Node |-> FALSE]]

-----------------------------------------------------------------------------
(* The loops of sim and Net_execute. *)

NextLoop == [cpu |-> "fwd", fwd |-> "operate", operate |-> "hop", hop |-> "cpu"]

\* Iteration id of loop p, and the step to the next iteration or loop; the
\* test of the while is before the loop over the processors.
In(p, id) == ph = p /\ i = id /\ ~dead /\ ~(ph = "cpu" /\ i = 0 /\ nrun = 0)
Goes(p, id) == IF id + 1 < Size THEN i' = id + 1 /\ ph' = p
               ELSE i' = 0 /\ ph' = NextLoop[p]
At(p, id) == In(p, id) /\ Goes(p, id)

-----------------------------------------------------------------------------
(* Datapath_execute(cpu) *)

\* Stopped, or waiting for its communication.
Idle(id) == /\ At("cpu", id) /\ (~running[id] \/ st[id] # NoOp)
            /\ UNCHANGED <<cpuVars, netVars, dead, over, lost>>

Alu(id) == /\ At("cpu", id) /\ running[id] /\ st[id] = NoOp
           /\ [op |-> "ALU"] \in Prog[id]
           /\ UNCHANGED <<cpuVars, netVars, dead, over, lost>>

Wait(id) == /\ At("cpu", id) /\ running[id] /\ st[id] = NoOp
            /\ [op |-> "WAIT"] \in Prog[id]
            /\ running' = [running EXCEPT ![id] = FALSE]
            /\ nrun' = nrun - 1
            /\ UNCHANGED <<st, sent, data, k1, netVars, dead, over, lost>>

Comm(id) == /\ At("cpu", id) /\ running[id] /\ st[id] = NoOp
            /\ \E ins \in Prog[id] : /\ ins.op \in {"IN", "OUT", "ALT"}
                                     /\ st' = [st EXCEPT ![id] = ins]
            /\ UNCHANGED <<nrun, running, sent, data, k1, netVars, dead, over, lost>>

-----------------------------------------------------------------------------
(* fwd(net, id) *)

Full(link) == Len(link) = LINK_BUFSZ

\* The head of input link ilink goes to an output link or to its mailbox.
ToLink(nd, ilink, olink) ==
    [nd EXCEPT !.inl[ilink] = Tail(@), !.outl[olink] = Append(@, Head(nd.inl[ilink]))]
ToMbox(nd, ilink) ==
    [nd EXCEPT !.inl[ilink] = Tail(@),
               !.mbox[Head(nd.inl[ilink]).from] = Head(nd.inl[ilink])]

\* Faulty: a message that finds its output link full is dropped.
FwdDropped(id, nd, ilink) ==
    LET msg == Head(nd.inl[ilink])
        olink == guidance(id, msg.to)
    IN  IF nd.inl[ilink] = <<>> THEN nd
        ELSE IF olink # LINK_MBOX
        THEN IF Full(nd.outl[olink]) THEN [nd EXCEPT !.inl[ilink] = Tail(@)]
             ELSE ToLink(nd, ilink, olink)
        ELSE IF nd.mbox[msg.from] # NoMsg THEN nd ELSE ToMbox(nd, ilink)

\* One iteration of fwd on the links and mailboxes nd of node id.
FwdLink(id, nd, ilink) ==
    LET msg == Head(nd.inl[ilink])
        olink == guidance(id, msg.to)
    IN  IF nd.inl[ilink] = <<>> THEN nd
        ELSE IF olink # LINK_MBOX
        THEN IF Full(nd.outl[olink]) THEN nd ELSE ToLink(nd, ilink, olink)
        ELSE IF nd.mbox[msg.from] # NoMsg THEN nd ELSE ToMbox(nd, ilink)

fwd(id) ==
    LET nd0 == [inl |-> inl[id], outl |-> outl[id], mbox |-> mbox[id]]
        nd1 == FwdLink(id, nd0, LINK_NORTH)
        nd2 == FwdLink(id, nd1, LINK_EAST)
        nd3 == FwdLink(id, nd2, LINK_SOUTH)
        nd4 == FwdLink(id, nd3, LINK_WEST)
    IN  /\ At("fwd", id)
        /\ inl' = [inl EXCEPT ![id] = nd4.inl]
        /\ outl' = [outl EXCEPT ![id] = nd4.outl]
        /\ mbox' = [mbox EXCEPT ![id] = nd4.mbox]
        /\ UNCHANGED <<cpuVars, start, dead, over, lost>>

-----------------------------------------------------------------------------
(* operate(net, id): one action per return of input, output and alt. *)

Operates(id, op) == At("operate", id) /\ st[id].op = op

Send(id, msg) == LET olink == guidance(id, msg.to) IN
                 outl' = [outl EXCEPT ![id][olink] = Append(@, msg)]

\* Faulty: one message too many.
BlockedLate(id, to) == Len(outl[id][guidance(id, to)]) > LINK_BUFSZ

Blocked(id, to) == Len(outl[id][guidance(id, to)]) >= LINK_BUFSZ

\* Faulty: the acknowledgement starts to count its hops anew.
TakeHopsLost(id, from) ==
    LET msg == mbox[id][from] IN
    /\ ~Blocked(id, msg.from)
    /\ Send(id, [to |-> msg.from, from |-> id, data |-> Garbage, ack |-> 1,
                 hops |-> 0])
    /\ data' = [data EXCEPT ![id] = msg.data]
    /\ st' = [st EXCEPT ![id] = NoOp]
    /\ mbox' = [mbox EXCEPT ![id][from] = NoMsg]

\* input and alt take the message of from and acknowledge it.
Take(id, from) ==
    LET msg == mbox[id][from] IN
    /\ ~Blocked(id, msg.from)
    /\ Send(id, [to |-> msg.from, from |-> id, data |-> Garbage, ack |-> 1,
                 hops |-> msg.hops])
    /\ data' = [data EXCEPT ![id] = msg.data]
    /\ st' = [st EXCEPT ![id] = NoOp]
    /\ mbox' = [mbox EXCEPT ![id][from] = NoMsg]

NoOperation(id) == /\ Operates(id, "NONE")
                   /\ UNCHANGED <<cpuVars, netVars, dead, over, lost>>

input(id) ==
    /\ Operates(id, "IN")
    /\ mbox[id][st[id].corr] # NoMsg
    /\ Take(id, st[id].corr)
    /\ over' = [over EXCEPT ![id][st[id].corr] = 0]
    /\ lost' = [lost EXCEPT ![id][st[id].corr] = FALSE]
    /\ UNCHANGED <<nrun, running, sent, k1, inl, start, dead>>

\* EAGAIN: nothing there; ENOBUFS: no room for the acknowledgement.
inputAgain(id) ==
    /\ Operates(id, "IN")
    /\ \/ mbox[id][st[id].corr] = NoMsg
       \/ /\ mbox[id][st[id].corr] # NoMsg
          /\ Blocked(id, mbox[id][st[id].corr].from)
    /\ UNCHANGED <<cpuVars, netVars, dead, over, lost>>

\* Faulty: the output does not wait for the acknowledgement.
outputNoWait(id) ==
    /\ Operates(id, "OUT") /\ ~sent[id] /\ ~Blocked(id, st[id].corr)
    /\ Send(id, [to |-> st[id].corr, from |-> id, data |-> st[id].data,
                 ack |-> 0, hops |-> 0])
    /\ st' = [st EXCEPT ![id] = NoOp]
    /\ UNCHANGED <<nrun, running, sent, data, k1, inl, mbox, start, dead, over, lost>>

outputSend(id) ==
    /\ Operates(id, "OUT") /\ ~sent[id] /\ ~Blocked(id, st[id].corr)
    /\ Send(id, [to |-> st[id].corr, from |-> id, data |-> st[id].data,
                 ack |-> 0, hops |-> 0])
    /\ sent' = [sent EXCEPT ![id] = TRUE]
    /\ UNCHANGED <<nrun, running, st, data, k1, inl, mbox, start, dead, over, lost>>

\* Faulty: the acknowledgement stays in the mailbox.
outputAckKept(id) ==
    /\ Operates(id, "OUT") /\ sent[id]
    /\ mbox[id][st[id].corr] # NoMsg /\ mbox[id][st[id].corr].ack = 1
    /\ st' = [st EXCEPT ![id] = NoOp]
    /\ sent' = [sent EXCEPT ![id] = FALSE]
    /\ UNCHANGED <<nrun, running, data, k1, inl, outl, mbox, start, dead, over, lost>>

\* Faulty: any message passes for the acknowledgement.
outputAnyAck(id) ==
    /\ Operates(id, "OUT") /\ sent[id]
    /\ mbox[id][st[id].corr] # NoMsg
    /\ st' = [st EXCEPT ![id] = NoOp]
    /\ sent' = [sent EXCEPT ![id] = FALSE]
    /\ mbox' = [mbox EXCEPT ![id][st[id].corr] = NoMsg]
    /\ UNCHANGED <<nrun, running, data, k1, inl, outl, start, dead, over, lost>>

outputAcked(id) ==
    /\ Operates(id, "OUT") /\ sent[id]
    /\ mbox[id][st[id].corr] # NoMsg /\ mbox[id][st[id].corr].ack = 1
    /\ st' = [st EXCEPT ![id] = NoOp]
    /\ sent' = [sent EXCEPT ![id] = FALSE]
    /\ mbox' = [mbox EXCEPT ![id][st[id].corr] = NoMsg]
    /\ UNCHANGED <<nrun, running, data, k1, inl, outl, start, dead, over, lost>>

\* EAGAIN: no acknowledgement yet; ENOBUFS: no room for the message.
outputAgain(id) ==
    /\ Operates(id, "OUT")
    /\ \/ sent[id] /\ mbox[id][st[id].corr] = NoMsg
       \/ ~sent[id] /\ Blocked(id, st[id].corr)
    /\ UNCHANGED <<cpuVars, netVars, dead, over, lost>>

\* EDEADLK: a message where the acknowledgement is expected; Net_execute
\* returns at once and sim with it.
outputDead(id) ==
    /\ In("operate", id) /\ st[id].op = "OUT" /\ sent[id]
    /\ mbox[id][st[id].corr] # NoMsg /\ mbox[id][st[id].corr].ack # 1
    /\ dead' = TRUE
    /\ UNCHANGED <<ph, i, cpuVars, netVars, over, lost>>

\* The clauses of the alt of id for which there is a message.
Ready(id) == {m \in st[id].cl : mbox[id][m] # NoMsg}

\* The search of alt: the first such clause from mbox_start on, cyclically.
Turn(id, m) == (m - start[id]) % Size
Chosen(id) == CHOOSE m \in Ready(id) :
                \A q \in Ready(id) : Turn(id, m) <= Turn(id, q)

\* Faulty: the turn stays with the sender that was served.
altTurnKept(id) ==
    /\ Operates(id, "ALT") /\ Ready(id) # {}
    /\ Take(id, Chosen(id))
    /\ start' = [start EXCEPT ![id] = Chosen(id)]
    /\ k1' = [k1 EXCEPT ![id] = Chosen(id)]
    /\ over' = [over EXCEPT ![id] =
                  [m \in Node |-> IF m = Chosen(id) THEN 0
                                  ELSE IF m \in Ready(id) /\ @[m] < Size
                                  THEN @[m] + 1 ELSE @[m]]]
    /\ lost' = [lost EXCEPT ![id][Chosen(id)] = FALSE]
    /\ UNCHANGED <<nrun, running, sent, inl, dead>>

altTake(id) ==
    /\ Operates(id, "ALT") /\ Ready(id) # {}
    /\ Take(id, Chosen(id))
    /\ start' = [start EXCEPT ![id] = (Chosen(id) + 1) % Size]
    /\ k1' = [k1 EXCEPT ![id] = Chosen(id)]
    /\ over' = [over EXCEPT ![id] =
                  [m \in Node |-> IF m = Chosen(id) THEN 0
                                  ELSE IF m \in Ready(id) /\ @[m] < Size
                                  THEN @[m] + 1 ELSE @[m]]]
    /\ lost' = [lost EXCEPT ![id][Chosen(id)] = FALSE]
    /\ UNCHANGED <<nrun, running, sent, inl, dead>>

\* ENOBUFS.  The turn of the chosen sender is lost, and with a default clause
\* the alt has ended, as if the default had been taken.
altNobufs(id) ==
    /\ Operates(id, "ALT") /\ Ready(id) # {}
    /\ Blocked(id, mbox[id][Chosen(id)].from)
    /\ start' = [start EXCEPT ![id] = (Chosen(id) + 1) % Size]
    /\ lost' = [lost EXCEPT ![id][Chosen(id)] = TRUE]
    /\ IF st[id].df
       THEN k1' = [k1 EXCEPT ![id] = None] /\ st' = [st EXCEPT ![id] = NoOp]
       ELSE UNCHANGED <<k1, st>>
    /\ UNCHANGED <<nrun, running, sent, data, inl, outl, mbox, dead, over>>

\* No message: the default if there is one, else EAGAIN.  The search came back
\* to mbox_start, which moves on.
altNone(id) ==
    /\ Operates(id, "ALT") /\ Ready(id) = {} /\ (st[id].cl # {} \/ st[id].df)
    /\ start' = [start EXCEPT ![id] = (start[id] + 1) % Size]
    /\ IF st[id].df
       THEN k1' = [k1 EXCEPT ![id] = None] /\ st' = [st EXCEPT ![id] = NoOp]
       ELSE UNCHANGED <<k1, st>>
    /\ UNCHANGED <<nrun, running, sent, data, inl, outl, mbox, dead, over, lost>>

\* EDEADLK: an alt without clauses.
altDead(id) ==
    /\ In("operate", id) /\ st[id].op = "ALT" /\ st[id].cl = {} /\ ~st[id].df
    /\ dead' = TRUE
    /\ UNCHANGED <<ph, i, cpuVars, netVars, over, lost>>

operate(id) == \/ NoOperation(id) \/ input(id) \/ inputAgain(id)
               \/ outputSend(id) \/ outputAcked(id) \/ outputAgain(id)
               \/ outputDead(id) \/ altTake(id) \/ altNobufs(id)
               \/ altNone(id) \/ altDead(id)

-----------------------------------------------------------------------------
(* hop(net, id): the output links of a node lead to different input links, *)
(* so the four iterations are independent.                                 *)

Moves(id) == {l \in Links : /\ outl[id][l] # <<>> /\ ~Oob(id, l)
                            /\ ~Full(inl[Nxt(id, l)][Ilink(l)])}

hop(id) ==
    /\ At("hop", id)
    /\ outl' = [outl EXCEPT ![id] =
                  [l \in Links |-> IF l \in Moves(id) THEN Tail(@[l]) ELSE @[l]]]
    /\ inl' = [n \in Node |-> [k \in Links |->
                 IF \E l \in Moves(id) : Nxt(id, l) = n /\ Ilink(l) = k
                 THEN LET l == CHOOSE l \in Moves(id) :
                                 Nxt(id, l) = n /\ Ilink(l) = k
                      IN  Append(inl[n][k],
                                 [Head(outl[id][l]) EXCEPT !.hops = @ + 1])
                 ELSE inl[n][k]]]
    /\ UNCHANGED <<cpuVars, mbox, start, dead, over, lost>>

-----------------------------------------------------------------------------
\* sim has returned.
Returned == /\ dead \/ (ph = "cpu" /\ i = 0 /\ nrun = 0)
            /\ UNCHANGED vars

Next == \/ \E id \in Node : \/ Idle(id) \/ Alu(id) \/ Wait(id) \/ Comm(id)
                            \/ fwd(id) \/ operate(id) \/ hop(id)
        \/ Returned

\* The simulator is one thread that loops until nrun is 0 or a deadlock.
Spec == Init /\ [][Next]_vars /\ WF_vars(Next)
-----------------------------------------------------------------------------
(* Properties. *)

\* Type invariant of sim, the processors and the network; no link holds more
\* than LINK_BUFSZ messages (link_insmsg's result is ignored by its callers).
TypeOK ==
    /\ ph \in DOMAIN NextLoop /\ i \in Node /\ nrun \in 0 .. Size
    /\ running \in [Node -> BOOLEAN] /\ sent \in [Node -> BOOLEAN]
    /\ \A n \in Node : st[n] \in Prog[n] \cup {NoOp}
    /\ data \in [Node -> Data] /\ k1 \in [Node -> Node \cup {None}]
    /\ \A n \in Node, l \in Links : \A link \in {inl[n][l], outl[n][l]} :
         /\ Len(link) <= LINK_BUFSZ
         /\ \A k \in 1 .. Len(link) : link[k] \in Msg
    /\ \A n, m \in Node : mbox[n][m] \in Msg \cup {NoMsg}
    /\ start \in [Node -> Node] /\ dead \in BOOLEAN
    /\ over \in [Node -> [Node -> 0 .. Size]]
    /\ lost \in [Node -> [Node -> BOOLEAN]]

\* Where messages are: in slot k of a link, or in a mailbox.
OnLinks == {pl \in Node \X {"in", "out"} \X Links \X (1 .. LINK_BUFSZ) :
               pl[4] <= Len(IF pl[2] = "in" THEN inl[pl[1]][pl[3]]
                            ELSE outl[pl[1]][pl[3]])}
InBoxes == {pl \in Node \X Node : mbox[pl[1]][pl[2]] # NoMsg}

MsgAt(pl) == IF Len(pl) = 2 THEN mbox[pl[1]][pl[2]]
             ELSE IF pl[2] = "in" THEN inl[pl[1]][pl[3]][pl[4]]
             ELSE outl[pl[1]][pl[3]][pl[4]]

\* The message of s's output, and the acknowledgement for it.
Tokens(s) == {pl \in OnLinks \cup InBoxes :
                IF MsgAt(pl).ack = 0 THEN MsgAt(pl).from = s ELSE MsgAt(pl).to = s}

\* Exactly-once delivery: a sender that waits for its acknowledgement has
\* exactly one message or acknowledgement in the whole network, between it and
\* its correspondent; a sender that does not wait has none.  Nothing is lost,
\* duplicated, misdelivered or left behind in a link or mailbox.
OneToken == \A s \in Node :
    /\ Cardinality(Tokens(s)) = IF sent[s] THEN 1 ELSE 0
    /\ sent[s] => st[s].op = "OUT"
    /\ \A pl \in Tokens(s) :
         {MsgAt(pl).from, MsgAt(pl).to} = {s, st[s].corr}

\* input and alt do not look at msg->ack: they never find an acknowledgement
\* in the mailbox they take from, whatever the node did before.
NoAckTaken == [][\A n, m \in Node :
    st[n].op \in {"IN", "ALT"} /\ mbox[n][m] # NoMsg /\ mbox'[n][m] = NoMsg
        => mbox[n][m].ack = 0]_vars

\* A mailbox holds one message per sender and that is enough: fwd never finds
\* the mailbox of an arriving message occupied ("mailbox is full").
MailboxFree == ph = "fwd" => \A n \in Node, l \in Links :
    n >= i /\ inl[n][l] # <<>> /\ Head(inl[n][l]).to = n
        => mbox[n][Head(inl[n][l]).from] = NoMsg

\* A message has made as many hops as the grid puts between the places it has
\* been to: guidance makes no detour and hop counts each link once.
HopsExact == \A pl \in OnLinks \cup InBoxes :
    MsgAt(pl).hops = Dist(MsgAt(pl).from, pl[1])
        + (IF MsgAt(pl).ack = 1 THEN Dist(MsgAt(pl).to, MsgAt(pl).from) ELSE 0)

\* The alts of n have the same clauses.
SameClauses(n) == \A a, b \in {x \in Prog[n] : x.op = "ALT"} : a.cl = b.cl

\* While the message of m waits in the mailbox of n, the alts of n that could
\* take it have taken no more messages of others than there are others.
Served(n, m) == \A ins \in Prog[n] :
    ins.op = "ALT" /\ m \in ins.cl => over[n][m] <= Cardinality(ins.cl) - 1

\* Round robin (mbox_start): if all the alts of n have the same clauses, they
\* serve no more messages than there are other senders before m's turn comes.
\* When it comes the link may have no room for the acknowledgement (ENOBUFS),
\* and the turn is lost.
RoundRobin == \A n, m \in Node : SameClauses(n) /\ ~lost[n][m] => Served(n, m)

\* mbox_start is "for round-robin" (net.h): so, too, if the acknowledgement of m
\* found no room once.  That does not hold: altNobufs moves the turn past m.
StrictRoundRobin == \A n, m \in Node : SameClauses(n) => Served(n, m)

\* The acknowledgement of an output is under way.
Acked(s) == \E pl \in Tokens(s) : MsgAt(pl).ack = 1

\* The network implements the rendezvous of CSP: messages pass only between an
\* output and an input or alt that name each other, once, with the data of that
\* output, an output ends only after that, and a deadlock is reported
\* (EDEADLK) only if two processes output to each other or an alt is empty.
R == INSTANCE Rendezvous WITH Proc <- Node, taken <- [s \in Node |-> Acked(s)]
Refines == R!Spec

\* The pairs of nodes such that s may output to r.
Speaks(s, r) == \E ins \in Prog[s] : ins.op = "OUT" /\ ins.corr = r

\* An output and the input that names it are not kept waiting by the network:
\* if both are executing, the output ends, unless a deadlock stops the system.
Matched(s, r) == /\ st[s].op = "OUT" /\ st[s].corr = r
                 /\ st[r].op = "IN" /\ st[r].corr = s
Hears(r, s) == \E ins \in Prog[r] : ins.op = "IN" /\ ins.corr = s
Peers == {c \in Node \X Node : Speaks(c[1], c[2]) /\ Hears(c[2], c[1])}
Progress == \A c \in Peers : Matched(c[1], c[2]) ~> (dead \/ st[c[1]] = NoOp)

\* Every output to a server is answered: if r executes nothing but alts with a
\* clause for s, neither the other clients of r nor the messages that meet that
\* of s on the way (fwd prefers some links to others) keep it waiting for ever.
\* That holds for alts with a default clause too, so polling works: alt looks for
\* messages before it takes the default.
Serves(r, s) == \A ins \in Prog[r] : ins.op = "ALT" /\ s \in ins.cl
Clients == {c \in Node \X Node : Speaks(c[1], c[2]) /\ Serves(c[2], c[1])}
Answered == \A c \in Clients :
    st[c[1]].op = "OUT" /\ st[c[1]].corr = c[2] ~> (dead \/ st[c[1]] = NoOp)

=============================================================================
