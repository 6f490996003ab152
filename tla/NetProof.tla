------------------------------ MODULE NetProof ------------------------------
(***************************************************************************)
(* The network carries every message once, on the shortest way and in the  *)
(* order of sending, and so implements the rendezvous of Csp, for every    *)
(* grid, buffer size and program.                                          *)
(*                                                                         *)
(* The links and mailboxes are seen as one function from places to queues, *)
(* of which fwd and hop are the same kind of step: messages leave the head *)
(* of some queues and join the end of others.                              *)
(***************************************************************************)
EXTENDS Net, RoutingProof, FiniteSetTheorems, WellFoundedInduction

\* Where messages wait: input and output links, and mailboxes.
Place == (Node \X {"in", "out"} \X Links) \cup (Node \X {"box"} \X Node)
QueueOf(I, O, B) ==
    [a \in Place |-> IF a[2] = "in" THEN I[a[1]][a[3]]
                     ELSE IF a[2] = "out" THEN O[a[1]][a[3]]
                     ELSE IF B[a[1]][a[3]] = NoMsg THEN <<>> ELSE <<B[a[1]][a[3]]>>]
Queue == QueueOf(inl, outl, mbox)
Room(a) == IF a[2] = "box" THEN 1 ELSE LINK_BUFSZ
Slot(q, a, j) == a \in Place /\ j \in 1 .. Len(q[a])

\* The node whose output a message, or the acknowledgement of one, belongs to;
\* and its correspondent.
Owner(m) == IF m.ack = 0 THEN m.from ELSE m.to
Other(m) == IF m.ack = 0 THEN m.to ELSE m.from

\* m may be at place a: on its way, in the link its way goes through.
Fits(a, m) ==
    /\ m.from # m.to /\ OnWay(m.from, m.to, a[1])
    /\ m.hops = Dist(m.from, a[1]) + (IF m.ack = 1 THEN Dist(m.to, m.from) ELSE 0)
    /\ a[2] = "out" => a[3] = guidance(a[1], m.to)
    /\ a[2] = "in" => \E v \in Node :
          /\ v # m.to /\ OnWay(m.from, m.to, v)
          /\ a[1] = Nxt(v, guidance(v, m.to)) /\ a[3] = Ilink(guidance(v, m.to))
    /\ a[2] = "box" => a[1] = m.to /\ a[3] = m.from

\* Steps m has before it at place a: from link to link and into the mailbox.
Left(a, m) == IF a[2] = "box" THEN 0
              ELSE 2 * Dist(a[1], m.to) + (IF a[2] = "in" THEN 1 ELSE 0)

QueueType(q) == /\ q \in [Place -> Seq(Msg)]
                /\ \A a \in Place : Len(q[a]) <= Room(a)
Routed(q) == \A a, j : Slot(q, a, j) => Fits(a, q[a][j])

\* No two messages belong to the same output.
Alone(q) == \A a, j, b, k :
    Slot(q, a, j) /\ Slot(q, b, k) /\ Owner(q[a][j]) = Owner(q[b][k])
        => a = b /\ j = k

\* m acknowledges an output of the node that the output of m2 goes to.
Crosses(m, m2) == /\ m.ack = 1 /\ m2.ack = 0
                  /\ m.from = m2.from /\ m.to = m2.to

\* An acknowledgement is ahead of the message its sender output afterwards.
Ahead(a, j, b, k, m, m2) == Left(a, m) < Left(b, m2) \/ (a = b /\ j < k)
Ordered(q) == \A a, j, b, k :
    Slot(q, a, j) /\ Slot(q, b, k) /\ Crosses(q[a][j], q[b][k])
        => Ahead(a, j, b, k, q[a][j], q[b][k])

Sound(q) == QueueType(q) /\ Routed(q) /\ Alone(q) /\ Ordered(q)

\* Messages in the network belong to outputs that wait for them ...
Owned == \A a, j : Slot(Queue, a, j) =>
    LET m == Queue[a][j]
        s == Owner(m)
    IN  /\ sent[s] /\ st[s].op = "OUT" /\ st[s].corr = Other(m)
        /\ m.ack = 0 => m.data = st[s].data

\* ... and these have one.
Carried == \A s \in Node : sent[s] =>
    st[s].op = "OUT" /\ \E a, j : Slot(Queue, a, j) /\ Owner(Queue[a][j]) = s

\* An acknowledgement stays in the mailbox from fwd to operate of one cycle.
AckSeen == \A n, m \in Node :
    mbox[n][m] # NoMsg /\ mbox[n][m].ack = 1 =>
        (ph = "fwd" /\ n < i) \/ (ph = "operate" /\ n >= i)

\* The types of the network and of the processors.
LinkType == [Links -> Seq(Msg)]
BoxType == [Node -> Msg \cup {NoMsg}]
NetTypes == /\ inl \in [Node -> LinkType] /\ outl \in [Node -> LinkType]
            /\ mbox \in [Node -> BoxType]
CpuTypes ==
    /\ running \in [Node -> BOOLEAN] /\ sent \in [Node -> BOOLEAN]
    /\ st = [n \in Node |-> st[n]]
    /\ \A n \in Node : st[n] \in (Prog[n] \cap Instr(n)) \cup {NoOp}
    /\ data \in [Node -> Data] /\ k1 \in [Node -> Node \cup {None}]
    /\ start \in [Node -> Node] /\ over \in [Node -> [Node -> 0 .. Size]]
LoopTypes == ph \in DOMAIN NextLoop /\ i \in Node /\ dead \in BOOLEAN
Types == LoopTypes /\ CpuTypes /\ NetTypes

\* nrun counts the running processors.
Count == nrun = Cardinality({n \in Node : running[n]})

NetInv == Types /\ Sound(Queue) /\ Owned /\ Carried /\ AckSeen

-----------------------------------------------------------------------------
(* Messages that move on. *)

\* The same message, whatever its hops.
Same(m, m2) == /\ m.to = m2.to /\ m.from = m2.from
               /\ m.data = m2.data /\ m.ack = m2.ack

\* The head of queue a joins the end of queue b, one step further.
Joins(q, q2, a, b) == \E m \in Msg :
    /\ Same(m, Head(q[a])) /\ Fits(b, m) /\ Left(b, m) = Left(a, m) - 1
    /\ Len(q[b]) < Room(b) /\ q2[b] = Append(q[b], m)

\* q becomes q2: for every a in S the head of queue a goes to queue D[a].
Shift(q, q2, S, D) ==
    /\ S \subseteq Place /\ D \in [S -> Place \ S]
    /\ \A a, b \in S : D[a] = D[b] => a = b
    /\ \A a \in S : q[a] # <<>> /\ q2[a] = Tail(q[a]) /\ Joins(q, q2, a, D[a])
    /\ \A b \in Place \ S : (\A a \in S : D[a] # b) => q2[b] = q[b]

\* What is in slot k of queue b of q2 was in slot j of queue a of q.
Came(q, q2, S, D, a, j, b, k) ==
    /\ Slot(q, a, j) /\ Slot(q2, b, k) /\ Same(q2[b][k], q[a][j])
    /\ \/ a \in S /\ b = a /\ j = k + 1 /\ q2[b][k] = q[a][j]
       \/ /\ a \in S /\ b = D[a] /\ j = 1 /\ k = Len(q[b]) + 1
          /\ Fits(b, q2[b][k]) /\ Left(b, q2[b][k]) = Left(a, q[a][j]) - 1
       \/ a \notin S /\ b = a /\ j = k /\ q2[b][k] = q[a][j]

\* Removing the head, slot by slot.
LEMMA TailSlots ==
    ASSUME NEW T, NEW s \in Seq(T), s # <<>>
    PROVE  /\ Tail(s) \in Seq(T) /\ Len(Tail(s)) = Len(s) - 1 /\ Len(s) \in Nat \ {0}
           /\ \A k \in 1 .. Len(s) - 1 : Tail(s)[k] = s[k + 1]
           /\ Head(s) = s[1] /\ Head(s) \in T
  OBVIOUS

\* Appending, slot by slot.
LEMMA AppendSlots ==
    ASSUME NEW T, NEW s \in Seq(T), NEW e \in T
    PROVE  /\ Append(s, e) \in Seq(T) /\ Len(Append(s, e)) = Len(s) + 1
           /\ Len(s) \in Nat
           /\ \A k \in 1 .. Len(s) : Append(s, e)[k] = s[k]
           /\ Append(s, e)[Len(s) + 1] = e
  OBVIOUS

\* The three kinds of queues after a shift.
Shortened(q, q2, S, D) == \A a \in S :
    /\ a \in Place /\ D[a] \in Place /\ D[a] \notin S
    /\ Len(q[a]) \in Nat \ {0} /\ Len(q2[a]) = Len(q[a]) - 1
    /\ \A k \in 1 .. Len(q[a]) - 1 : q2[a][k] = q[a][k + 1]

Lengthened(q, q2, S, D) == \A a \in S :
    LET b == D[a] IN
    /\ Len(q2[b]) = Len(q[b]) + 1 /\ Len(q2[b]) <= Room(b)
    /\ \A k \in 1 .. Len(q[b]) : q2[b][k] = q[b][k]
    /\ Same(q2[b][Len(q[b]) + 1], q[a][1])
    /\ Fits(b, q2[b][Len(q[b]) + 1])
    /\ Left(b, q2[b][Len(q[b]) + 1]) = Left(a, q[a][1]) - 1

Kept(q, q2, S, D) ==
    /\ \A b \in Place : b \notin S /\ (\A a \in S : D[a] # b) => q2[b] = q[b]
    /\ \A b \in Place : Len(q[b]) \in Nat /\ Len(q2[b]) \in Nat

\* A shift is that.
LEMMA ShiftQueues ==
    ASSUME NEW q \in [Place -> Seq(Msg)], NEW q2 \in [Place -> Seq(Msg)],
           NEW S, NEW D, Shift(q, q2, S, D)
    PROVE  Shortened(q, q2, S, D) /\ Lengthened(q, q2, S, D) /\ Kept(q, q2, S, D)
  <1>1. ASSUME NEW a \in S
        PROVE  /\ a \in Place /\ D[a] \in Place /\ D[a] \notin S
               /\ Len(q[a]) \in Nat \ {0} /\ Len(q2[a]) = Len(q[a]) - 1
               /\ \A k \in 1 .. Len(q[a]) - 1 : q2[a][k] = q[a][k + 1]
               /\ Head(q[a]) = q[a][1]
    <2>1. a \in Place /\ D[a] \in Place /\ D[a] \notin S
      BY DEF Shift
    <2>2. q[a] \in Seq(Msg) /\ q[a] # <<>> /\ q2[a] = Tail(q[a])
      BY <2>1 DEF Shift
    <2> QED BY <2>1, <2>2, TailSlots
  <1>2. ASSUME NEW a \in S
        PROVE  LET b == D[a] IN
                /\ Len(q2[b]) = Len(q[b]) + 1 /\ Len(q2[b]) <= Room(b)
                /\ \A k \in 1 .. Len(q[b]) : q2[b][k] = q[b][k]
                /\ Same(q2[b][Len(q[b]) + 1], q[a][1])
                /\ Fits(b, q2[b][Len(q[b]) + 1])
                /\ Left(b, q2[b][Len(q[b]) + 1]) = Left(a, q[a][1]) - 1
    <2> DEFINE b == D[a]
    <2>1. Joins(q, q2, a, b)
      BY DEF Shift
    <2>2. PICK m \in Msg :
            /\ Same(m, Head(q[a])) /\ Fits(b, m) /\ Left(b, m) = Left(a, m) - 1
            /\ Len(q[b]) < Room(b) /\ q2[b] = Append(q[b], m)
      BY <2>1 DEF Joins
    <2>3. q[b] \in Seq(Msg) /\ Room(b) \in Nat
      BY <1>1, BufAssumption DEF Room
    <2>4. /\ Len(q2[b]) = Len(q[b]) + 1 /\ q2[b][Len(q[b]) + 1] = m
          /\ \A k \in 1 .. Len(q[b]) : q2[b][k] = q[b][k]
          /\ Len(q[b]) \in Nat
      BY <2>2, <2>3, AppendSlots
    <2>5. Left(a, m) = Left(a, q[a][1])
      BY <1>1, <2>2 DEF Left, Same
    <2>6. Len(q2[b]) <= Room(b)
      BY <2>2, <2>3, <2>4
    <2> HIDE DEF b
    <2> QED BY <1>1, <2>2, <2>4, <2>5, <2>6 DEF b
  <1>3. Kept(q, q2, S, D)
    BY DEF Shift, Kept
  <1>4. Shortened(q, q2, S, D)
    BY <1>1 DEF Shortened
  <1>5. Lengthened(q, q2, S, D)
    BY <1>2 DEF Lengthened
  <1> QED BY <1>3, <1>4, <1>5

\* Everything in q2 came from somewhere ...
LEMMA HasCome ==
    ASSUME NEW q \in [Place -> Seq(Msg)], NEW q2 \in [Place -> Seq(Msg)],
           NEW S, NEW D, Shift(q, q2, S, D),
           NEW b, NEW k, Slot(q2, b, k)
    PROVE  \E a, j : Came(q, q2, S, D, a, j, b, k)
  <1>0. Shortened(q, q2, S, D) /\ Lengthened(q, q2, S, D) /\ Kept(q, q2, S, D)
    BY ShiftQueues
  <1>1. b \in Place /\ k \in 1 .. Len(q2[b]) /\ Len(q2[b]) \in Nat
    BY <1>0 DEF Slot, Kept
  <1>2. CASE b \in S
    <2>1. Came(q, q2, S, D, b, k + 1, b, k)
      BY <1>1, <1>2, <1>0 DEF Came, Slot, Same, Shortened, Lengthened, Kept
    <2> QED BY <2>1
  <1>3. CASE b \notin S /\ \E a \in S : D[a] = b
    <2>1. PICK a \in S : D[a] = b
      BY <1>3
    <2>2. /\ Len(q2[b]) = Len(q[b]) + 1 /\ Len(q[b]) \in Nat
          /\ \A x \in 1 .. Len(q[b]) : q2[b][x] = q[b][x]
      BY <2>1, <1>1, <1>0 DEF Shortened, Lengthened, Kept
    <2>3. CASE k = Len(q[b]) + 1
      <3>1. Slot(q, a, 1)
        BY <2>1, <1>0 DEF Slot, Shortened, Lengthened, Kept
      <3>2. Came(q, q2, S, D, a, 1, b, k)
        BY <1>1, <2>1, <2>3, <3>1, <1>0 DEF Came, Slot, Shortened, Lengthened, Kept
      <3> QED BY <3>2
    <2>4. CASE k # Len(q[b]) + 1
      <3>1. Came(q, q2, S, D, b, k, b, k)
        BY <1>1, <1>3, <2>2, <2>4 DEF Came, Slot, Same
      <3> QED BY <3>1
    <2> QED BY <2>3, <2>4
  <1>4. CASE b \notin S /\ ~(\E a \in S : D[a] = b)
    <2>1. Came(q, q2, S, D, b, k, b, k)
      BY <1>1, <1>4, <1>0 DEF Came, Slot, Same, Shortened, Lengthened, Kept
    <2> QED BY <2>1
  <1> QED BY <1>2, <1>3, <1>4

\* ... nothing in q gets lost ...
LEMMA NotLost ==
    ASSUME NEW q \in [Place -> Seq(Msg)], NEW q2 \in [Place -> Seq(Msg)],
           NEW S, NEW D, Shift(q, q2, S, D),
           NEW a, NEW j, Slot(q, a, j)
    PROVE  \E b, k : Came(q, q2, S, D, a, j, b, k)
  <1>0. Shortened(q, q2, S, D) /\ Lengthened(q, q2, S, D) /\ Kept(q, q2, S, D)
    BY ShiftQueues
  <1>1. a \in Place /\ j \in 1 .. Len(q[a]) /\ Len(q[a]) \in Nat
    BY <1>0 DEF Slot, Kept
  <1>2. CASE a \in S /\ j = 1
    <2> DEFINE b == D[a]
    <2>1. Slot(q2, b, Len(q[b]) + 1)
      BY <1>2, <1>0 DEF Slot, Shortened, Lengthened, Kept
    <2>2. Came(q, q2, S, D, a, j, b, Len(q[b]) + 1)
      BY <1>1, <1>2, <2>1, <1>0 DEF Came, Slot, Shortened, Lengthened, Kept
    <2> QED BY <2>2
  <1>3. CASE a \in S /\ j # 1
    <2>1. j - 1 \in 1 .. Len(q[a]) - 1 /\ j = (j - 1) + 1
      BY <1>1, <1>3
    <2>2. q2[a][j - 1] = q[a][j] /\ Len(q2[a]) = Len(q[a]) - 1
      BY <1>3, <2>1, <1>0 DEF Shortened, Lengthened, Kept
    <2>3. Came(q, q2, S, D, a, j, a, j - 1)
      BY <1>1, <1>3, <2>1, <2>2 DEF Came, Slot, Same
    <2> QED BY <2>3
  <1>4. CASE a \notin S
    <2>1. j \in 1 .. Len(q2[a]) /\ q2[a][j] = q[a][j]
      <3>1. CASE \E c \in S : D[c] = a
        <4>1. PICK c \in S : D[c] = a
          BY <3>1
        <4>2. Len(q2[a]) = Len(q[a]) + 1 /\ q2[a][j] = q[a][j]
          BY <1>0, <1>1, <4>1 DEF Lengthened
        <4> QED BY <1>1, <4>2
      <3>2. CASE ~(\E c \in S : D[c] = a)
        BY <1>0, <1>1, <1>4, <3>2 DEF Kept
      <3> QED BY <3>1, <3>2
    <2>2. Came(q, q2, S, D, a, j, a, j)
      BY <1>1, <1>4, <2>1 DEF Came, Slot, Same
    <2> QED BY <2>2
  <1> QED BY <1>2, <1>3, <1>4

\* ... and nothing is in two slots afterwards.
LEMMA CameOnce ==
    ASSUME NEW q, NEW q2, NEW S, NEW D, Shift(q, q2, S, D),
           NEW a, NEW j, NEW b, NEW k, NEW b2, NEW k2,
           Came(q, q2, S, D, a, j, b, k), Came(q, q2, S, D, a, j, b2, k2)
    PROVE  b = b2 /\ k = k2
  <1>1. k \in Int /\ k2 \in Int /\ k >= 1 /\ k2 >= 1
    BY DEF Came, Slot
  <1> QED BY <1>1 DEF Came

\* What a message is made of.
LEMMA MsgFields ==
    ASSUME NEW m \in Msg
    PROVE  /\ m.to \in Node /\ m.from \in Node /\ m.hops \in Nat /\ m.ack \in {0, 1}
           /\ m.ack = 0 => m.data \in Data
           /\ m # NoMsg
  BY DEF Msg, NoMsg, None

\* A message with a given way and number of steps left can be in one place only.
LEMMA OnePlace ==
    ASSUME NEW a \in Place, NEW b \in Place, NEW m \in Msg, NEW m2 \in Msg,
           Fits(a, m), Fits(b, m2), m.from = m2.from, m.to = m2.to,
           Left(a, m) = Left(b, m2)
    PROVE  a = b
  <1>1. m.to \in Node /\ m.from \in Node
    BY MsgFields
  <1>2. /\ a[1] \in Node /\ b[1] \in Node
        /\ a[2] \in {"in", "out", "box"} /\ b[2] \in {"in", "out", "box"}
        /\ a = <<a[1], a[2], a[3]>> /\ b = <<b[1], b[2], b[3]>>
    BY DEF Place
  <1>3. Dist(a[1], m.to) \in Nat /\ Dist(b[1], m.to) \in Nat
    BY <1>1, <1>2, Coordinates
  <1>4. \A x \in {a, b} : x[2] = "out" => Dist(x[1], m.to) # 0
    <2> SUFFICES ASSUME NEW x \in {a, b}, x[2] = "out", Dist(x[1], m.to) = 0
                 PROVE  FALSE
      OBVIOUS
    <2>1. x[1] = m.to
      <3>1. x[1] \in Node /\ Dist(x[1], m.to) = 0
        BY <1>2
      <3>2. /\ Row(x[1]) \in Nat /\ Col(x[1]) \in Nat
            /\ Row(m.to) \in Nat /\ Col(m.to) \in Nat
            /\ Abs(Col(x[1]) - Col(m.to)) + Abs(Row(x[1]) - Row(m.to)) = 0
        BY <1>1, <3>1, Coordinates
      <3>3. Row(x[1]) = Row(m.to) /\ Col(x[1]) = Col(m.to)
        BY <3>2 DEF Abs
      <3> QED BY <1>1, <3>1, <3>3, Coordinates
    <2>2. guidance(x[1], m.to) = LINK_MBOX
      BY <2>1, <1>1, GridAssumption DEF guidance, Node, Size
    <2>3. x[3] \in Links /\ x[3] = guidance(x[1], m.to)
      BY <1>2 DEF Place, Fits
    <2> QED BY <2>2, <2>3
           DEF Links, LINK_MBOX, LINK_NORTH, LINK_EAST, LINK_SOUTH, LINK_WEST
  <1>5. a[2] = b[2]
    BY <1>2, <1>3, <1>4 DEF Left
  <1>6. CASE a[2] = "box"
    BY <1>2, <1>5, <1>6 DEF Fits
  <1>7. CASE a[2] # "box"
    <2>1. Dist(a[1], m.to) = Dist(b[1], m.to)
      BY <1>2, <1>3, <1>5, <1>7 DEF Left
    <2>2. OnWay(m.from, m.to, a[1]) /\ OnWay(m.from, m.to, b[1])
      BY DEF Fits
    <2>3. a[1] = b[1]
      BY <1>1, <1>2, <2>1, <2>2, WayUnique
    <2>4. CASE a[2] = "out"
      BY <1>2, <1>5, <2>3, <2>4 DEF Fits
    <2>5. CASE a[2] = "in"
      <3>1. PICK v \in Node :
              /\ v # m.to /\ OnWay(m.from, m.to, v)
              /\ a[1] = Nxt(v, guidance(v, m.to)) /\ a[3] = Ilink(guidance(v, m.to))
        BY <2>5 DEF Fits
      <3>2. PICK w \in Node :
              /\ w # m.to /\ OnWay(m.from, m.to, w)
              /\ b[1] = Nxt(w, guidance(w, m.to)) /\ b[3] = Ilink(guidance(w, m.to))
        BY <1>5, <2>5 DEF Fits
      <3>3. /\ Dist(a[1], m.to) = Dist(v, m.to) - 1
            /\ Dist(b[1], m.to) = Dist(w, m.to) - 1
            /\ Dist(v, m.to) \in Nat /\ Dist(w, m.to) \in Nat
        BY <1>1, <3>1, <3>2, GuidedHop, Coordinates
      <3>4. v = w
        BY <1>1, <2>1, <3>1, <3>2, <3>3, WayUnique
      <3> QED BY <1>2, <1>5, <2>3, <3>1, <3>2, <3>4
    <2> QED BY <1>2, <1>7, <2>4, <2>5
  <1> QED BY <1>6, <1>7

\* The same messages, wherever they are.
Alike(q, q2) ==
    /\ \A a, j : Slot(q, a, j) => \E b, k : Slot(q2, b, k) /\ Same(q[a][j], q2[b][k])
    /\ \A b, k : Slot(q2, b, k) => \E a, j : Slot(q, a, j) /\ Same(q2[b][k], q[a][j])

\* Alike is an equivalence.
LEMMA AlikeTrans ==
    ASSUME NEW q, NEW q2, NEW q3, Alike(q, q2), Alike(q2, q3)
    PROVE  Alike(q, q3)
  <1>1. ASSUME NEW a, NEW j, Slot(q, a, j)
        PROVE  \E c, l : Slot(q3, c, l) /\ Same(q[a][j], q3[c][l])
    <2>1. PICK b, k : Slot(q2, b, k) /\ Same(q[a][j], q2[b][k])
      BY <1>1 DEF Alike
    <2>2. PICK c, l : Slot(q3, c, l) /\ Same(q2[b][k], q3[c][l])
      BY <2>1 DEF Alike
    <2> QED BY <2>1, <2>2 DEF Same
  <1>2. ASSUME NEW a, NEW j, Slot(q3, a, j)
        PROVE  \E c, l : Slot(q, c, l) /\ Same(q3[a][j], q[c][l])
    <2>1. PICK b, k : Slot(q2, b, k) /\ Same(q3[a][j], q2[b][k])
      BY <1>2 DEF Alike
    <2>2. PICK c, l : Slot(q, c, l) /\ Same(q2[b][k], q[c][l])
      BY <2>1 DEF Alike
    <2> QED BY <2>1, <2>2 DEF Same
  <1> QED BY <1>1, <1>2 DEF Alike

\* Messages that move on stay on their ways, alone and in order.
LEMMA ShiftSound ==
    ASSUME NEW q, NEW q2 \in [Place -> Seq(Msg)], NEW S, NEW D,
           Sound(q), Shift(q, q2, S, D)
    PROVE  Sound(q2) /\ Alike(q, q2)
  <1>0. q \in [Place -> Seq(Msg)] /\ \A a \in Place : Len(q[a]) <= Room(a)
    BY DEF Sound, QueueType
  <1>1. Shortened(q, q2, S, D) /\ Lengthened(q, q2, S, D) /\ Kept(q, q2, S, D)
    BY <1>0, ShiftQueues
  <1>2. QueueType(q2)
    <2> SUFFICES ASSUME NEW b \in Place PROVE Len(q2[b]) <= Room(b)
      BY DEF QueueType
    <2>0. Len(q[b]) \in Nat /\ Len(q[b]) <= Room(b) /\ Room(b) \in Nat
      BY <1>0, <1>1, BufAssumption DEF Room, Kept
    <2>1. CASE b \in S
      BY <1>1, <2>0, <2>1 DEF Shortened
    <2>2. CASE \E a \in S : D[a] = b
      BY <1>1, <2>2 DEF Lengthened
    <2>3. CASE b \notin S /\ \A a \in S : D[a] # b
      BY <1>1, <2>0, <2>3 DEF Kept
    <2> QED BY <2>1, <2>2, <2>3
  <1>3. ASSUME NEW b, NEW k, Slot(q2, b, k)
        PROVE  \E a, j : Came(q, q2, S, D, a, j, b, k)
    BY <1>0, <1>3, HasCome
  <1>4. Routed(q2)
    <2> SUFFICES ASSUME NEW b, NEW k, Slot(q2, b, k) PROVE Fits(b, q2[b][k])
      BY DEF Routed
    <2>1. PICK a, j : Came(q, q2, S, D, a, j, b, k)
      BY <1>3
    <2>2. Fits(a, q[a][j])
      BY <2>1 DEF Came, Sound, Routed
    <2> QED BY <2>1, <2>2 DEF Came
  <1>5. Alone(q2)
    <2> SUFFICES ASSUME NEW b, NEW k, NEW b2, NEW k2, Slot(q2, b, k), Slot(q2, b2, k2),
                        Owner(q2[b][k]) = Owner(q2[b2][k2])
                 PROVE  b = b2 /\ k = k2
      BY DEF Alone
    <2>1. PICK a, j : Came(q, q2, S, D, a, j, b, k)
      BY <1>3
    <2>2. PICK a2, j2 : Came(q, q2, S, D, a2, j2, b2, k2)
      BY <1>3
    <2>3. Owner(q[a][j]) = Owner(q[a2][j2])
      BY <2>1, <2>2 DEF Came, Same, Owner
    <2>4. a = a2 /\ j = j2
      BY <2>1, <2>2, <2>3 DEF Came, Sound, Alone
    <2> QED BY <2>1, <2>2, <2>4, CameOnce
  <1>6. Alike(q, q2)
    <2>1. ASSUME NEW a, NEW j, Slot(q, a, j)
          PROVE  \E b, k : Slot(q2, b, k) /\ Same(q[a][j], q2[b][k])
      <3>1. PICK b, k : Came(q, q2, S, D, a, j, b, k)
        BY <1>0, <2>1, NotLost
      <3> QED BY <3>1 DEF Came, Same
    <2>2. ASSUME NEW b, NEW k, Slot(q2, b, k)
          PROVE  \E a, j : Slot(q, a, j) /\ Same(q2[b][k], q[a][j])
      <3>1. PICK a, j : Came(q, q2, S, D, a, j, b, k)
        BY <1>3, <2>2
      <3> QED BY <3>1 DEF Came
    <2> QED BY <2>1, <2>2 DEF Alike
  <1>7. ASSUME NEW a, NEW j, Slot(q, a, j)
        PROVE  /\ a \in Place /\ j \in Nat /\ j >= 1 /\ j <= Len(q[a])
               /\ Len(q[a]) \in Nat /\ q[a][j] \in Msg /\ Left(a, q[a][j]) \in Nat
    <2>1. a \in Place /\ j \in 1 .. Len(q[a]) /\ q[a] \in Seq(Msg)
      BY <1>0, <1>7 DEF Slot
    <2>2. q[a][j] \in Msg /\ Len(q[a]) \in Nat
      BY <2>1
    <2>3. a[1] \in Node
      BY <2>1 DEF Place
    <2>4. Dist(a[1], q[a][j].to) \in Nat
      BY <2>2, <2>3, MsgFields, Coordinates
    <2> QED BY <2>1, <2>2, <2>4 DEF Left
  <1>8. Ordered(q2)
    <2> SUFFICES ASSUME NEW b, NEW k, NEW b2, NEW k2, Slot(q2, b, k), Slot(q2, b2, k2),
                        Crosses(q2[b][k], q2[b2][k2])
                 PROVE  Ahead(b, k, b2, k2, q2[b][k], q2[b2][k2])
      BY DEF Ordered
    <2> DEFINE m == q2[b][k]
               n == q2[b2][k2]
    <2>1. PICK a, j : Came(q, q2, S, D, a, j, b, k)
      BY <1>3
    <2>2. PICK a2, j2 : Came(q, q2, S, D, a2, j2, b2, k2)
      BY <1>3
    <2>3. Slot(q, a, j) /\ Slot(q, a2, j2) /\ Crosses(q[a][j], q[a2][j2])
      BY <2>1, <2>2 DEF Came, Same, Crosses
    <2>4. Ahead(a, j, a2, j2, q[a][j], q[a2][j2])
      BY <2>3 DEF Sound, Ordered
    <2>5. /\ Fits(b, m) /\ Fits(b2, n) /\ m.from = n.from /\ m.to = n.to
          /\ b \in Place /\ b2 \in Place /\ m \in Msg /\ n \in Msg
          /\ k \in 1 .. Len(q2[b]) /\ k2 \in 1 .. Len(q2[b2])
      <3>1. b \in Place /\ b2 \in Place /\ k \in 1 .. Len(q2[b]) /\ k2 \in 1 .. Len(q2[b2])
        BY DEF Slot
      <3>2. q2[b] \in Seq(Msg) /\ q2[b2] \in Seq(Msg)
        BY <3>1
      <3>3. m \in Msg /\ n \in Msg
        BY <3>1, <3>2
      <3> QED BY <1>4, <3>1, <3>3 DEF Crosses, Routed
    <2> DEFINE lm == Left(b, m)
               ln == Left(b2, n)
               l == Left(a, q[a][j])
               l2 == Left(a2, q[a2][j2])
    <2>6. lm = ln => b = b2
      BY <2>5, OnePlace
    <2>7. (a \in S /\ b = D[a] /\ j = 1 /\ lm = l - 1 /\ k = Len(q[b]) + 1) \/ lm = l
      BY <2>1 DEF Came
    <2>8. (a2 \in S /\ b2 = D[a2] /\ j2 = 1 /\ ln = l2 - 1 /\ k2 = Len(q[b2]) + 1) \/ ln = l2
      BY <2>2 DEF Came
    <2>9. l \in Nat /\ l2 \in Nat
      BY <2>3, <1>7
    <2>10. CASE l < l2
      <3>1. CASE lm < ln
        BY <3>1 DEF Ahead
      <3>2. CASE ~(lm < ln)
        <4>1. lm = l /\ lm = ln /\ ln = l2 - 1
          <5>1. /\ lm = l - 1 \/ lm = l
                /\ ln = l2 - 1 \/ ln = l2
                /\ ~(lm < ln) /\ l \in Nat /\ l2 \in Nat /\ l < l2
            BY <3>2, <2>7, <2>8, <2>9, <2>10
          <5> HIDE DEF lm, ln, l, l2
          <5>2. lm \in Int /\ ln \in Int
            BY <5>1
          <5> QED BY <5>1, <5>2
        <4>2. b = b2 /\ a2 \in S /\ b2 = D[a2] /\ k2 = Len(q[b2]) + 1
          BY <4>1, <2>6, <2>8, <2>9
        <4>3. b \notin S /\ b \in Place
          BY <4>2, <1>1 DEF Shortened
        <4>4. a = b /\ j = k
          BY <2>1, <4>1, <4>3, <2>9 DEF Came
        <4>5. k < k2
          BY <4>2, <4>4, <2>3, <1>7
        <4> QED BY <4>2, <4>5 DEF Ahead
      <3> QED BY <3>1, <3>2
    <2>11. CASE a = a2 /\ j < j2
      <3>0. l = l2
        BY <2>3, <2>11 DEF Left, Crosses
      <3>1. CASE a \in S
        <4>1. j2 # 1 /\ j \in Nat /\ j2 \in Nat /\ j >= 1
          BY <2>3, <2>11, <1>7
        <4>2. b2 = a2 /\ j2 = k2 + 1 /\ ln = l2
          BY <2>2, <2>11, <3>1, <4>1 DEF Came
        <4>3. \/ b = a /\ j = k + 1
              \/ lm = l - 1
          BY <2>1, <3>1 DEF Came
        <4>4. CASE b = a /\ j = k + 1
          BY <4>4, <4>1, <4>2, <2>11, <2>5 DEF Ahead
        <4>5. CASE lm = l - 1
          BY <4>5, <4>2, <3>0, <2>9 DEF Ahead
        <4> QED BY <4>3, <4>4, <4>5
      <3>2. CASE a \notin S
        <4>1. b = a /\ j = k /\ b2 = a2 /\ j2 = k2
          BY <2>1, <2>2, <2>11, <3>2 DEF Came
        <4> QED BY <4>1, <2>11 DEF Ahead
      <3> QED BY <3>1, <3>2
    <2> QED BY <2>4, <2>10, <2>11 DEF Ahead
  <1> QED BY <1>2, <1>4, <1>5, <1>6, <1>8 DEF Sound

-----------------------------------------------------------------------------
(* fwd *)

NodeType == [inl : LinkType, outl : LinkType, mbox : BoxType]

\* The places by their names ...
LEMMA Places ==
    /\ \A n \in Node, l \in Links :
          <<n, "in", l>> \in Place /\ <<n, "out", l>> \in Place
    /\ \A n, m \in Node : <<n, "box", m>> \in Place
    /\ \A a \in Place :
          \/ \E n \in Node, l \in Links :
                a = <<n, "in", l>> \/ a = <<n, "out", l>>
          \/ \E n, m \in Node : a = <<n, "box", m>>
  BY DEF Place

\* ... and the queues there.
LEMMA QueueAt ==
    ASSUME NEW I, NEW O, NEW B
    PROVE  /\ \A n \in Node, l \in Links :
                /\ QueueOf(I, O, B)[<<n, "in", l>>] = I[n][l]
                /\ QueueOf(I, O, B)[<<n, "out", l>>] = O[n][l]
           /\ \A n, m \in Node :
                QueueOf(I, O, B)[<<n, "box", m>>] =
                     IF B[n][m] = NoMsg THEN <<>> ELSE <<B[n][m]>>
  BY DEF QueueOf, Place

\* q shows the links I and O and the mailboxes B.
Reads(q, I, O, B) ==
    /\ \A n \in Node, l \in Links : q[<<n, "in", l>>] = I[n][l] /\ q[<<n, "out", l>>] = O[n][l]
    /\ \A n, m \in Node : q[<<n, "box", m>>] = IF B[n][m] = NoMsg THEN <<>> ELSE <<B[n][m]>>

\* QueueOf puts the links and mailboxes in their places.
LEMMA QueueReads ==
    ASSUME NEW I, NEW O, NEW B
    PROVE  Reads(QueueOf(I, O, B), I, O, B)
  BY QueueAt DEF Reads

\* They are sequences of messages.
LEMMA QueueOfType ==
    ASSUME NEW I \in [Node -> LinkType], NEW O \in [Node -> LinkType],
           NEW B \in [Node -> BoxType]
    PROVE  QueueOf(I, O, B) \in [Place -> Seq(Msg)]
  <1> DEFINE q == QueueOf(I, O, B)
  <1>1. q = [a \in Place |-> q[a]]
    BY DEF QueueOf
  <1>2. ASSUME NEW a \in Place PROVE q[a] \in Seq(Msg)
    <2>1. CASE \E n \in Node, l \in Links : a = <<n, "in", l>> \/ a = <<n, "out", l>>
      <3>1. PICK n \in Node, l \in Links : a = <<n, "in", l>> \/ a = <<n, "out", l>>
        BY <2>1
      <3>2. I[n][l] \in Seq(Msg) /\ O[n][l] \in Seq(Msg)
        BY DEF LinkType
      <3>3. /\ q[<<n, "in", l>>] = I[n][l]
            /\ q[<<n, "out", l>>] = O[n][l]
        BY QueueAt
      <3> QED BY <3>1, <3>2, <3>3
    <2>2. CASE \E n, m \in Node : a = <<n, "box", m>>
      <3>1. PICK n \in Node, m \in Node : a = <<n, "box", m>>
        BY <2>2
      <3>2. B[n][m] \in Msg \cup {NoMsg}
        BY DEF BoxType
      <3>3. q[a] = IF B[n][m] = NoMsg THEN <<>> ELSE <<B[n][m]>>
        BY <3>1, QueueAt
      <3> QED BY <3>2, <3>3
    <2> QED BY <2>1, <2>2, Places
  <1> HIDE DEF q
  <1>3. q \in [Place -> Seq(Msg)]
    BY <1>1, <1>2
  <1> QED BY <1>3 DEF q

\* One message moves, from a to b.
MovesOne(q, q2, a, b) ==
    /\ a \in Place /\ b \in Place /\ a # b
    /\ q[a] # <<>> /\ q2[a] = Tail(q[a]) /\ Joins(q, q2, a, b)
    /\ \A c \in Place : c # a /\ c # b => q2[c] = q[c]

\* That is a shift.
LEMMA MoveOne ==
    ASSUME NEW q, NEW q2, NEW a, NEW b, MovesOne(q, q2, a, b)
    PROVE  \E S, D : Shift(q, q2, S, D)
  <1>1. Shift(q, q2, {a}, [x \in {a} |-> b])
    BY DEF Shift, MovesOne
  <1> QED BY <1>1

\* Nothing moves.
LEMMA AlikeSelf ==
    ASSUME NEW q
    PROVE  Alike(q, q)
  BY DEF Alike, Same

\* guidance knows the mailbox from the links.
LEMMA Guidance ==
    ASSUME NEW m \in Node, NEW n \in Node
    PROVE  IF m = n THEN guidance(m, n) = LINK_MBOX
           ELSE guidance(m, n) \in Links /\ guidance(m, n) # LINK_MBOX
  <1>1. LINK_MBOX \notin Links
    BY DEF Links, LINK_MBOX, LINK_NORTH, LINK_EAST, LINK_SOUTH, LINK_WEST
  <1>2. CASE m = n
    BY <1>2, GridAssumption DEF guidance, Node, Size
  <1>3. CASE m # n
    BY <1>1, <1>3, GuidedHop
  <1> QED BY <1>2, <1>3

\* No distance from a node to itself.
LEMMA DistSelf ==
    ASSUME NEW n \in Node
    PROVE  Dist(n, n) = 0
  BY Coordinates DEF Abs

\* Node id's links and mailboxes are nd, the others those of I, O and B.
With(I, O, B, id, nd) == QueueOf([I EXCEPT ![id] = nd.inl], [O EXCEPT ![id] = nd.outl],
                                 [B EXCEPT ![id] = nd.mbox])
Shows(q, id, nd) ==
    /\ q \in [Place -> Seq(Msg)]
    /\ \A l \in Links : q[<<id, "in", l>>] = nd.inl[l] /\ q[<<id, "out", l>>] = nd.outl[l]
    /\ \A m \in Node : q[<<id, "box", m>>] =
                        IF nd.mbox[m] = NoMsg THEN <<>> ELSE <<nd.mbox[m]>>
Beside(q, q2, id) == \A a \in Place : a[1] # id => q[a] = q2[a]

\* With is what it says.
LEMMA WithAt ==
    ASSUME NEW I \in [Node -> LinkType], NEW O \in [Node -> LinkType],
           NEW B \in [Node -> BoxType], NEW id \in Node, NEW nd \in NodeType
    PROVE  /\ Shows(With(I, O, B, id, nd), id, nd)
           /\ Beside(With(I, O, B, id, nd), QueueOf(I, O, B), id)
  <1> DEFINE I2 == [I EXCEPT ![id] = nd.inl]
             O2 == [O EXCEPT ![id] = nd.outl]
             B2 == [B EXCEPT ![id] = nd.mbox]
  <1>1. I2 \in [Node -> LinkType] /\ O2 \in [Node -> LinkType] /\ B2 \in [Node -> BoxType]
    BY DEF NodeType
  <1>2. I2[id] = nd.inl /\ O2[id] = nd.outl /\ B2[id] = nd.mbox
    OBVIOUS
  <1>3. \A n \in Node : n # id => I2[n] = I[n] /\ O2[n] = O[n] /\ B2[n] = B[n]
    OBVIOUS
  <1>4. ASSUME NEW a \in Place, a[1] # id
        PROVE  QueueOf(I2, O2, B2)[a] = QueueOf(I, O, B)[a]
    <2>1. a[1] \in Node
      BY DEF Place
    <2> QED BY <1>3, <1>4, <2>1 DEF QueueOf
  <1> HIDE DEF I2, O2, B2
  <1>5. QueueOf(I2, O2, B2) \in [Place -> Seq(Msg)]
    BY <1>1, QueueOfType
  <1>6. /\ \A l \in Links : /\ QueueOf(I2, O2, B2)[<<id, "in", l>>] = nd.inl[l]
                            /\ QueueOf(I2, O2, B2)[<<id, "out", l>>] = nd.outl[l]
        /\ \A m \in Node : QueueOf(I2, O2, B2)[<<id, "box", m>>] =
                  IF nd.mbox[m] = NoMsg THEN <<>> ELSE <<nd.mbox[m]>>
    BY <1>2, QueueAt
  <1>7. /\ Shows(QueueOf(I2, O2, B2), id, nd)
        /\ Beside(QueueOf(I2, O2, B2), QueueOf(I, O, B), id)
    BY <1>4, <1>5, <1>6 DEF Shows, Beside, I2, O2, B2
  <1> QED BY <1>7 DEF With, I2, O2, B2

\* The returns of an iteration of fwd.
LEMMA FwdCases ==
    ASSUME NEW id, NEW nd, NEW l
    PROVE  LET msg == Head(nd.inl[l])
               olink == guidance(id, msg.to)
           IN  \/ FwdLink(id, nd, l) = nd
               \/ /\ nd.inl[l] # <<>> /\ olink # LINK_MBOX /\ ~Full(nd.outl[olink])
                  /\ FwdLink(id, nd, l) = ToLink(nd, l, olink)
               \/ /\ nd.inl[l] # <<>> /\ olink = LINK_MBOX /\ nd.mbox[msg.from] = NoMsg
                  /\ FwdLink(id, nd, l) = ToMbox(nd, l)
  BY Zenon DEF FwdLink

\* What ToLink does to the parts of a node.
LinkParts(nd, nd2, l, olink) ==
    /\ nd2 \in NodeType
    /\ nd2.inl[l] = Tail(nd.inl[l])
    /\ nd2.outl[olink] = Append(nd.outl[olink], Head(nd.inl[l]))
    /\ \A k \in Links : k # l => nd2.inl[k] = nd.inl[k]
    /\ \A k \in Links : k # olink => nd2.outl[k] = nd.outl[k]
    /\ nd2.mbox = nd.mbox

\* ToLink moves the head of link l to output link olink and leaves the rest.
LEMMA ToLinkParts ==
    ASSUME NEW nd \in NodeType, NEW l \in Links, NEW olink \in Links, nd.inl[l] # <<>>
    PROVE  LinkParts(nd, ToLink(nd, l, olink), l, olink)
  <1> DEFINE msg == Head(nd.inl[l])
             s == Tail(nd.inl[l])
             t == Append(nd.outl[olink], msg)
             nd2 == ToLink(nd, l, olink)
  <1>1. /\ nd.inl \in LinkType /\ nd.outl \in LinkType /\ nd.mbox \in BoxType
        /\ nd = [inl |-> nd.inl, outl |-> nd.outl, mbox |-> nd.mbox]
    BY DEF NodeType
  <1>2. s \in Seq(Msg) /\ t \in Seq(Msg)
    <2>1. nd.inl[l] \in Seq(Msg) /\ nd.outl[olink] \in Seq(Msg)
      BY <1>1 DEF LinkType
    <2> QED BY <2>1, TailSlots, AppendSlots
  <1>3. nd2 = [nd EXCEPT !.inl[l] = s, !.outl[olink] = t]
    BY DEF ToLink
  <1> HIDE DEF s, t, nd2
  <1>4. /\ nd2.inl = [nd.inl EXCEPT ![l] = s]
        /\ nd2.outl = [nd.outl EXCEPT ![olink] = t]
        /\ nd2.mbox = nd.mbox
        /\ nd2 = [inl |-> nd2.inl, outl |-> nd2.outl, mbox |-> nd2.mbox]
    BY <1>1, <1>3
  <1>5. nd2.inl \in LinkType /\ nd2.outl \in LinkType
    BY <1>1, <1>2, <1>4 DEF LinkType
  <1>6. nd2 \in NodeType
    BY <1>1, <1>4, <1>5 DEF NodeType
  <1>7. /\ nd2.inl[l] = s /\ nd2.outl[olink] = t
        /\ \A k \in Links : /\ k # l => nd2.inl[k] = nd.inl[k]
                            /\ k # olink => nd2.outl[k] = nd.outl[k]
    BY <1>1, <1>4 DEF LinkType
  <1> QED BY <1>4, <1>6, <1>7 DEF s, t, nd2, LinkParts

\* What ToMbox does to them.
MboxParts(nd, nd2, l, from) ==
    /\ nd2 \in NodeType
    /\ nd2.inl[l] = Tail(nd.inl[l])
    /\ nd2.mbox[from] = Head(nd.inl[l])
    /\ \A k \in Links : k # l => nd2.inl[k] = nd.inl[k]
    /\ \A n \in Node : n # from => nd2.mbox[n] = nd.mbox[n]
    /\ nd2.outl = nd.outl

\* ToMbox moves the head of link l to the mailbox of its sender and leaves the rest.
LEMMA ToMboxParts ==
    ASSUME NEW nd \in NodeType, NEW l \in Links, nd.inl[l] # <<>>
    PROVE  MboxParts(nd, ToMbox(nd, l), l, Head(nd.inl[l]).from)
  <1> DEFINE msg == Head(nd.inl[l])
             s == Tail(nd.inl[l])
             nd2 == ToMbox(nd, l)
  <1>1. /\ nd.inl \in LinkType /\ nd.outl \in LinkType /\ nd.mbox \in BoxType
        /\ nd = [inl |-> nd.inl, outl |-> nd.outl, mbox |-> nd.mbox]
    BY DEF NodeType
  <1>2. s \in Seq(Msg) /\ msg \in Msg
    <2>1. nd.inl[l] \in Seq(Msg)
      BY <1>1 DEF LinkType
    <2> QED BY <2>1, TailSlots
  <1>3. nd2 = [nd EXCEPT !.inl[l] = s, !.mbox[msg.from] = msg]
    BY DEF ToMbox
  <1>4. msg.from \in Node
    BY <1>2, MsgFields
  <1> HIDE DEF s, msg, nd2
  <1>5. /\ nd2.inl = [nd.inl EXCEPT ![l] = s]
        /\ nd2.mbox = [nd.mbox EXCEPT ![msg.from] = msg]
        /\ nd2.outl = nd.outl
        /\ nd2 = [inl |-> nd2.inl, outl |-> nd2.outl, mbox |-> nd2.mbox]
    BY <1>1, <1>3
  <1>6. nd2.inl \in LinkType
    BY <1>1, <1>2, <1>5 DEF LinkType
  <1>7. nd2.mbox \in BoxType
    BY <1>1, <1>2, <1>4, <1>5 DEF BoxType
  <1>8. nd2 \in NodeType
    BY <1>1, <1>5, <1>6, <1>7 DEF NodeType
  <1>9. /\ nd2.inl[l] = s /\ nd2.mbox[msg.from] = msg
        /\ \A k \in Links : k # l => nd2.inl[k] = nd.inl[k]
        /\ \A n \in Node : n # msg.from => nd2.mbox[n] = nd.mbox[n]
    BY <1>1, <1>4, <1>5 DEF LinkType, BoxType
  <1> QED BY <1>5, <1>8, <1>9 DEF s, msg, nd2, MboxParts

\* One iteration of fwd moves at most one message, from an input link to an output
\* link or a mailbox of the node, one step further on its way.
LEMMA FwdLinkSound ==
    ASSUME NEW I \in [Node -> LinkType], NEW O \in [Node -> LinkType],
           NEW B \in [Node -> BoxType], NEW id \in Node, NEW nd \in NodeType,
           NEW l \in Links, Sound(With(I, O, B, id, nd))
    PROVE  LET nd2 == FwdLink(id, nd, l) IN
           /\ nd2 \in NodeType
           /\ Sound(With(I, O, B, id, nd2))
           /\ Alike(With(I, O, B, id, nd), With(I, O, B, id, nd2))
  <1> DEFINE q == With(I, O, B, id, nd)
             nd2 == FwdLink(id, nd, l)
             q2 == With(I, O, B, id, nd2)
             msg == Head(nd.inl[l])
             olink == guidance(id, msg.to)
             a == <<id, "in", l>>
  <1>1. CASE nd2 = nd
    BY <1>1, AlikeSelf
  <1>2. CASE nd2 # nd
    <2>1. nd.inl[l] # <<>> /\ nd.inl[l] \in Seq(Msg)
      <3>1. nd.inl[l] # <<>>
        BY <1>2, FwdCases
      <3> QED BY <3>1 DEF NodeType, LinkType
    <2>2. /\ msg \in Msg /\ Tail(nd.inl[l]) \in Seq(Msg)
          /\ msg = nd.inl[l][1] /\ Len(nd.inl[l]) \in Nat \ {0}
      BY <2>1, TailSlots
    <2>0. Shows(q, id, nd) /\ Sound(q)
      BY WithAt
    <2> HIDE DEF q
    <2>3. a \in Place /\ q[a] = nd.inl[l]
      BY <2>0, Places DEF Shows
    <2>4. Fits(a, msg)
      <3>1. Slot(q, a, 1)
        BY <2>2, <2>3 DEF Slot
      <3> QED BY <2>0, <2>2, <2>3, <3>1 DEF Sound, Routed
    <2>5. msg.to \in Node /\ msg.from \in Node /\ msg # NoMsg
      BY <2>2, MsgFields
    <2>6. /\ msg.from # msg.to /\ OnWay(msg.from, msg.to, id)
          /\ msg.hops = Dist(msg.from, id) + (IF msg.ack = 1 THEN Dist(msg.to, msg.from) ELSE 0)
      BY <2>4 DEF Fits
    <2>7. Left(a, msg) = 2 * Dist(id, msg.to) + 1 /\ Dist(id, msg.to) \in Nat
      BY <2>5, Coordinates DEF Left
    <2>8. ASSUME nd2 \in NodeType
          PROVE  Shows(q2, id, nd2) /\ \A c \in Place : c[1] # id => q2[c] = q[c]
      BY <2>8, WithAt DEF Beside, q
    <2>9. ASSUME NEW b \in Place, a # b, nd2 \in NodeType, q2[a] = Tail(q[a]),
                 q2[b] = Append(q[b], msg), Len(q[b]) < Room(b), Fits(b, msg),
                 Left(b, msg) = Left(a, msg) - 1,
                 \A c \in Place : c # a /\ c # b => q2[c] = q[c]
          PROVE  Sound(q2) /\ Alike(q, q2)
      <3>1. q2 \in [Place -> Seq(Msg)]
        BY <2>8, <2>9 DEF Shows
      <3> HIDE DEF a, q2
      <3>2. Joins(q, q2, a, b)
        BY <2>2, <2>3, <2>9 DEF Joins, Same
      <3>3. PICK S, D : Shift(q, q2, S, D)
        <4>1. MovesOne(q, q2, a, b)
          BY <2>1, <2>3, <2>9, <3>2 DEF MovesOne
        <4> QED BY <4>1, MoveOne
      <3> QED BY <2>0, <3>1, <3>3, ShiftSound
    <2>10. CASE olink # LINK_MBOX
      <3> DEFINE b == <<id, "out", olink>>
      <3>1. olink \in Links /\ id # msg.to
        BY <2>5, <2>10, Guidance
      <3>2. nd2 = ToLink(nd, l, olink) /\ ~Full(nd.outl[olink])
        BY <1>2, <2>10, FwdCases
      <3>3. /\ nd2 \in NodeType
            /\ nd2.inl[l] = Tail(nd.inl[l])
            /\ nd2.outl[olink] = Append(nd.outl[olink], msg)
            /\ \A k \in Links : k # l => nd2.inl[k] = nd.inl[k]
            /\ \A k \in Links : k # olink => nd2.outl[k] = nd.outl[k]
            /\ nd2.mbox = nd.mbox
        <4>1. LinkParts(nd, ToLink(nd, l, olink), l, olink)
          BY <2>1, <3>1, ToLinkParts
        <4> HIDE DEF nd2, olink
        <4> QED BY <3>2, <4>1 DEF LinkParts
      <3> HIDE DEF nd2
      <3>4. Shows(q2, id, nd2) /\ \A c \in Place : c[1] # id => q2[c] = q[c]
        BY <2>8, <3>3
      <3> HIDE DEF q2
      <3>5. /\ b \in Place /\ q[b] = nd.outl[olink]
            /\ q2[a] = Tail(q[a]) /\ q2[b] = Append(q[b], msg)
        BY <2>0, <2>3, <3>1, <3>3, <3>4, Places DEF Shows
      <3>6. ASSUME NEW c \in Place, c # a, c # b PROVE q2[c] = q[c]
        <4>1. CASE c[1] # id
          BY <3>4, <4>1
        <4>2. CASE \E k \in Links : c = <<id, "in", k>>
          <5>1. PICK k \in Links : c = <<id, "in", k>>
            BY <4>2
          <5>2. nd2.inl[k] = nd.inl[k]
            BY <3>3, <3>6, <5>1
          <5> QED BY <2>0, <3>4, <5>1, <5>2 DEF Shows
        <4>3. CASE \E k \in Links : c = <<id, "out", k>>
          <5>1. PICK k \in Links : c = <<id, "out", k>>
            BY <4>3
          <5>2. nd2.outl[k] = nd.outl[k]
            BY <3>3, <3>6, <5>1
          <5> QED BY <2>0, <3>4, <5>1, <5>2 DEF Shows
        <4>4. CASE \E m \in Node : c = <<id, "box", m>>
          <5>1. PICK m \in Node : c = <<id, "box", m>>
            BY <4>4
          <5>2. nd2.mbox[m] = nd.mbox[m]
            BY <3>3, <3>6, <5>1
          <5> QED BY <2>0, <3>4, <5>1, <5>2, ZenonT(60) DEF Shows
        <4> QED BY <4>1, <4>2, <4>3, <4>4, Places
      <3>7. Fits(b, msg)
        BY <2>6 DEF Fits
      <3>8. Left(b, msg) = Left(a, msg) - 1
        BY <2>7 DEF Left
      <3>9. Len(q[b]) < Room(b)
        <4>1. Len(q[b]) <= Room(b) /\ Room(b) = LINK_BUFSZ /\ q[b] \in Seq(Msg)
          BY <2>0, <3>5 DEF Sound, QueueType, Room
        <4> HIDE DEF b, olink
        <4>2. Len(q[b]) # LINK_BUFSZ /\ Len(q[b]) \in Nat
          BY <3>2, <3>5, <4>1 DEF Full
        <4> QED BY <4>1, <4>2, BufAssumption
      <3>10. a # b
        OBVIOUS
      <3>11. Sound(q2) /\ Alike(q, q2)
        <4> HIDE DEF a, b, msg, olink
        <4> QED BY <2>9, <3>3, <3>5, <3>6, <3>7, <3>8, <3>9, <3>10
      <3> QED BY <3>3, <3>11 DEF q, q2, nd2
    <2>11. CASE olink = LINK_MBOX
      <3> DEFINE b == <<id, "box", msg.from>>
      <3>1. id = msg.to
        BY <2>5, <2>11, Guidance
      <3>2. nd2 = ToMbox(nd, l) /\ nd.mbox[msg.from] = NoMsg
        BY <1>2, <2>11, FwdCases
      <3>3. /\ nd2 \in NodeType
            /\ nd2.inl[l] = Tail(nd.inl[l])
            /\ nd2.mbox[msg.from] = msg
            /\ \A k \in Links : k # l => nd2.inl[k] = nd.inl[k]
            /\ \A n \in Node : n # msg.from => nd2.mbox[n] = nd.mbox[n]
            /\ nd2.outl = nd.outl
        <4>1. MboxParts(nd, ToMbox(nd, l), l, msg.from)
          BY <2>1, ToMboxParts
        <4> HIDE DEF nd2
        <4> QED BY <3>2, <4>1 DEF MboxParts
      <3> HIDE DEF nd2
      <3>4. Shows(q2, id, nd2) /\ \A c \in Place : c[1] # id => q2[c] = q[c]
        BY <2>8, <3>3
      <3> HIDE DEF q2
      <3>5. /\ b \in Place /\ q[b] = <<>>
            /\ q2[a] = Tail(q[a]) /\ q2[b] = <<msg>>
        BY <2>0, <2>3, <2>5, <3>2, <3>3, <3>4, Places DEF Shows
      <3>12. q2[b] = Append(q[b], msg)
        BY <3>5, <2>2
      <3>6. ASSUME NEW c \in Place, c # a, c # b PROVE q2[c] = q[c]
        <4>1. CASE c[1] # id
          BY <3>4, <4>1
        <4>2. CASE \E k \in Links : c = <<id, "in", k>>
          <5>1. PICK k \in Links : c = <<id, "in", k>>
            BY <4>2
          <5>2. nd2.inl[k] = nd.inl[k]
            BY <3>3, <3>6, <5>1
          <5> QED BY <2>0, <3>4, <5>1, <5>2 DEF Shows
        <4>3. CASE \E k \in Links : c = <<id, "out", k>>
          <5>1. PICK k \in Links : c = <<id, "out", k>>
            BY <4>3
          <5>2. nd2.outl[k] = nd.outl[k]
            BY <3>3, <3>6, <5>1
          <5> QED BY <2>0, <3>4, <5>1, <5>2 DEF Shows
        <4>4. CASE \E m \in Node : c = <<id, "box", m>>
          <5>1. PICK m \in Node : c = <<id, "box", m>>
            BY <4>4
          <5>2. nd2.mbox[m] = nd.mbox[m]
            BY <3>3, <3>6, <5>1
          <5> QED BY <2>0, <3>4, <5>1, <5>2, ZenonT(60) DEF Shows
        <4> QED BY <4>1, <4>2, <4>3, <4>4, Places
      <3>7. Fits(b, msg)
        BY <2>6, <3>1 DEF Fits
      <3>8. Left(b, msg) = Left(a, msg) - 1
        BY <2>7, <3>1, DistSelf DEF Left
      <3>9. Len(q[b]) < Room(b)
        BY <3>5 DEF Room
      <3>10. a # b
        OBVIOUS
      <3>11. Sound(q2) /\ Alike(q, q2)
        <4> HIDE DEF a, b, msg, olink
        <4> QED BY <2>9, <3>3, <3>5, <3>12, <3>6, <3>7, <3>8, <3>9, <3>10
      <3> QED BY <3>3, <3>11 DEF q, q2, nd2
    <2> QED BY <2>10, <2>11
  <1> QED BY <1>1, <1>2

\* fwd keeps the messages of the network, on their ways, alone and in order.
LEMMA FwdSound ==
    ASSUME NetTypes, Sound(Queue), NEW id \in Node, fwd(id)
    PROVE  /\ NetTypes' /\ Sound(Queue') /\ Alike(Queue, Queue')
           /\ \A n \in Node : n # id => mbox'[n] = mbox[n]
  <1> DEFINE W(nd) == With(inl, outl, mbox, id, nd)
             nd0 == [inl |-> inl[id], outl |-> outl[id], mbox |-> mbox[id]]
             nd1 == FwdLink(id, nd0, LINK_NORTH)
             nd2 == FwdLink(id, nd1, LINK_EAST)
             nd3 == FwdLink(id, nd2, LINK_SOUTH)
             nd4 == FwdLink(id, nd3, LINK_WEST)
  <1>0. \A l \in {LINK_NORTH, LINK_EAST, LINK_SOUTH, LINK_WEST} : l \in Links
    BY DEF Links
  <1>1. nd0 \in NodeType
    BY DEF NetTypes, NodeType
  <1>2. W(nd0) = Queue
    <2>1. /\ [inl EXCEPT ![id] = inl[id]] = inl /\ [outl EXCEPT ![id] = outl[id]] = outl
          /\ [mbox EXCEPT ![id] = mbox[id]] = mbox
      BY DEF NetTypes
    <2>2. nd0.inl = inl[id] /\ nd0.outl = outl[id] /\ nd0.mbox = mbox[id]
      OBVIOUS
    <2> HIDE DEF nd0
    <2> QED BY <2>1, <2>2 DEF With, Queue
  <1>3. /\ inl' = [inl EXCEPT ![id] = nd4.inl]
        /\ outl' = [outl EXCEPT ![id] = nd4.outl]
        /\ mbox' = [mbox EXCEPT ![id] = nd4.mbox]
    BY DEF fwd
  <1> HIDE DEF nd4
  <1>4. W(nd4) = Queue'
    BY <1>3 DEF With, Queue
  <1> HIDE DEF nd0, W
  <1>5. ASSUME NEW nd \in NodeType, Sound(W(nd)), NEW l \in Links
        PROVE  /\ FwdLink(id, nd, l) \in NodeType /\ Sound(W(FwdLink(id, nd, l)))
               /\ Alike(W(nd), W(FwdLink(id, nd, l)))
    BY <1>5, FwdLinkSound DEF NetTypes, W
  <1>6. nd1 \in NodeType /\ Sound(W(nd1)) /\ Alike(W(nd0), W(nd1))
    BY <1>0, <1>1, <1>2, <1>5
  <1> HIDE DEF nd1
  <1>7. nd2 \in NodeType /\ Sound(W(nd2)) /\ Alike(W(nd1), W(nd2))
    BY <1>0, <1>6, <1>5
  <1> HIDE DEF nd2
  <1>8. nd3 \in NodeType /\ Sound(W(nd3)) /\ Alike(W(nd2), W(nd3))
    BY <1>0, <1>7, <1>5
  <1> HIDE DEF nd3
  <1>9. nd4 \in NodeType /\ Sound(W(nd4)) /\ Alike(W(nd3), W(nd4))
    BY <1>0, <1>8, <1>5 DEF nd4
  <1>10. Alike(W(nd0), W(nd4))
    <2>1. Alike(W(nd0), W(nd2))
      BY <1>6, <1>7, AlikeTrans
    <2>2. Alike(W(nd0), W(nd3))
      BY <2>1, <1>8, AlikeTrans
    <2> QED BY <2>2, <1>9, AlikeTrans
  <1>11. NetTypes'
    BY <1>3, <1>9 DEF NetTypes, NodeType
  <1>12. \A n \in Node : n # id => mbox'[n] = mbox[n]
    BY <1>3 DEF NetTypes
  <1> QED BY <1>2, <1>4, <1>9, <1>10, <1>11, <1>12

-----------------------------------------------------------------------------
(* hop *)

\* The output links of a node end in different input links.
LEMMA IlinkInjective ==
    ASSUME NEW l \in Links, NEW k \in Links
    PROVE  Ilink(l) \in Links /\ (Ilink(l) = Ilink(k) => l = k)
  BY DEF Links, Ilink, LINK_NORTH, LINK_EAST, LINK_SOUTH, LINK_WEST

\* A message after a hop.
Hopped(m) == [m EXCEPT !.hops = @ + 1]

\* It is the same but for its hops.
LEMMA HoppedMsg ==
    ASSUME NEW m \in Msg
    PROVE  Hopped(m) \in Msg /\ Same(Hopped(m), m) /\ Hopped(m).hops = m.hops + 1
  BY DEF Hopped, Msg, Same

\* A message at the end of an output link moves to the other end, one step further.
LEMMA HopFits ==
    ASSUME NEW id \in Node, NEW l \in Links, NEW m \in Msg, Fits(<<id, "out", l>>, m)
    PROVE  LET b == <<Nxt(id, l), "in", Ilink(l)>> IN
           /\ Nxt(id, l) \in Node /\ b \in Place
           /\ Fits(b, Hopped(m))
           /\ Left(b, Hopped(m)) = Left(<<id, "out", l>>, Hopped(m)) - 1
  <1> DEFINE b == <<Nxt(id, l), "in", Ilink(l)>>
             h == Hopped(m)
             v == Nxt(id, l)
  <1>1. /\ h \in Msg /\ h.to = m.to /\ h.from = m.from /\ h.ack = m.ack
        /\ h.hops = m.hops + 1
    BY HoppedMsg DEF Same
  <1>2. m.to \in Node /\ m.from \in Node /\ m.hops \in Nat
    BY MsgFields
  <1>3. /\ m.from # m.to /\ OnWay(m.from, m.to, id) /\ l = guidance(id, m.to)
        /\ m.hops = Dist(m.from, id) + (IF m.ack = 1 THEN Dist(m.to, m.from) ELSE 0)
    BY DEF Fits
  <1>4. id # m.to
    BY <1>2, <1>3, Guidance DEF Links, LINK_MBOX, LINK_NORTH, LINK_EAST, LINK_SOUTH, LINK_WEST
  <1>5. /\ v \in Node /\ OnWay(m.from, m.to, v)
        /\ Dist(v, m.to) = Dist(id, m.to) - 1 /\ Dist(m.from, v) = Dist(m.from, id) + 1
    BY <1>2, <1>3, <1>4, WayStep
  <1>6. /\ Dist(m.from, id) \in Nat /\ Dist(m.to, m.from) \in Nat
        /\ Dist(id, m.to) \in Nat
    BY <1>2, Coordinates
  <1>7. b \in Place
    BY <1>5, IlinkInjective, Places
  <1>8. Left(b, h) = Left(<<id, "out", l>>, h) - 1
    <2>1. Left(b, h) = 2 * Dist(v, m.to) + 1
      BY <1>1 DEF Left
    <2>2. Left(<<id, "out", l>>, h) = 2 * Dist(id, m.to)
      BY <1>1, <1>6 DEF Left
    <2> QED BY <1>5, <1>6, <2>1, <2>2
  <1>9. h.hops = Dist(h.from, v) + (IF h.ack = 1 THEN Dist(h.to, h.from) ELSE 0)
    BY <1>1, <1>3, <1>5, <1>6
  <1>10. \E u \in Node : /\ u # h.to /\ OnWay(h.from, h.to, u)
                         /\ v = Nxt(u, guidance(u, h.to))
                         /\ Ilink(l) = Ilink(guidance(u, h.to))
    BY <1>1, <1>3, <1>4
  <1>11. Fits(b, h)
    <2> HIDE DEF h, v
    <2>1. b[1] = v /\ b[2] = "in" /\ b[3] = Ilink(l)
      BY DEF v
    <2> HIDE DEF b
    <2> QED BY <1>1, <1>3, <1>5, <1>9, <1>10, <2>1 DEF Fits
  <1> QED BY <1>5, <1>7, <1>8, <1>11

\* hop keeps the messages of the network, too.
LEMMA HopSound ==
    ASSUME NetTypes, Sound(Queue), NEW id \in Node, hop(id)
    PROVE  NetTypes' /\ Sound(Queue') /\ Alike(Queue, Queue')
  <1> DEFINE q == Queue
             q2 == Queue'
             M == Moves(id)
             A(l) == <<id, "out", l>>
             E(l) == <<Nxt(id, l), "in", Ilink(l)>>
             S == {A(l) : l \in M}
             D == [a \in S |-> E(a[3])]
  <1>1. /\ inl \in [Node -> LinkType] /\ outl \in [Node -> LinkType]
        /\ mbox \in [Node -> BoxType]
    BY DEF NetTypes
  <1>2. \A n \in Node, l \in Links : inl[n][l] \in Seq(Msg) /\ outl[n][l] \in Seq(Msg)
    BY <1>1 DEF LinkType
  <1>3. /\ \A n \in Node, l \in Links : /\ q[<<n, "in", l>>] = inl[n][l]
                                        /\ q[<<n, "out", l>>] = outl[n][l]
        /\ \A n, m \in Node : q[<<n, "box", m>>] =
                     IF mbox[n][m] = NoMsg THEN <<>> ELSE <<mbox[n][m]>>
    BY QueueAt DEF Queue
  <1>4. ASSUME NEW l \in M
        PROVE  /\ l \in Links /\ outl[id][l] # <<>>
               /\ Head(outl[id][l]) \in Msg
               /\ Nxt(id, l) \in Node /\ Ilink(l) \in Links
               /\ ~Full(inl[Nxt(id, l)][Ilink(l)])
               /\ E(l) \in Place /\ A(l) \in Place
               /\ Fits(E(l), Hopped(Head(outl[id][l])))
               /\ Left(E(l), Hopped(Head(outl[id][l]))) = Left(A(l), Hopped(Head(outl[id][l]))) - 1
    <2>1. l \in Links /\ outl[id][l] # <<>> /\ ~Full(inl[Nxt(id, l)][Ilink(l)])
      BY DEF Moves
    <2>2. /\ outl[id][l] \in Seq(Msg) /\ Len(outl[id][l]) \in Nat \ {0}
          /\ Head(outl[id][l]) = outl[id][l][1] /\ Head(outl[id][l]) \in Msg
      BY <1>2, <2>1, TailSlots
    <2>3. A(l) \in Place /\ q[A(l)] = outl[id][l]
      BY <1>3, <2>1, Places
    <2>4. Slot(q, A(l), 1)
      BY <2>2, <2>3 DEF Slot
    <2>5. Fits(A(l), Head(outl[id][l]))
      BY <2>2, <2>3, <2>4 DEF Sound, Routed
    <2> QED BY <2>1, <2>2, <2>3, <2>5, HopFits, IlinkInjective
  <1>5. \A l, k \in M : Ilink(l) = Ilink(k) => l = k
    BY <1>4, IlinkInjective
  <1>6. outl' = [outl EXCEPT ![id] =
                  [l \in Links |-> IF l \in M THEN Tail(outl[id][l]) ELSE outl[id][l]]]
    BY DEF hop
  <1>7. inl' = [n \in Node |-> [k \in Links |->
                 IF \E l \in M : Nxt(id, l) = n /\ Ilink(l) = k
                 THEN LET l == CHOOSE l \in M : Nxt(id, l) = n /\ Ilink(l) = k
                      IN  Append(inl[n][k], Hopped(Head(outl[id][l])))
                 ELSE inl[n][k]]]
    BY DEF hop, Hopped
  <1>8. mbox' = mbox
    BY DEF hop
  <1> HIDE DEF M
  <1>9. /\ outl' \in [Node -> LinkType]
        /\ \A l \in Links : outl'[id][l] = IF l \in M THEN Tail(outl[id][l]) ELSE outl[id][l]
        /\ \A n \in Node : n # id => outl'[n] = outl[n]
    <2> DEFINE f == [l \in Links |-> IF l \in M THEN Tail(outl[id][l]) ELSE outl[id][l]]
    <2>1. f \in LinkType
      <3>1. \A l \in M : Tail(outl[id][l]) \in Seq(Msg)
        BY <1>2, <1>4, TailSlots
      <3> QED BY <1>2, <3>1 DEF LinkType
    <2>2. \A l \in Links : f[l] = IF l \in M THEN Tail(outl[id][l]) ELSE outl[id][l]
      OBVIOUS
    <2> HIDE DEF f
    <2>3. outl' = [outl EXCEPT ![id] = f]
      BY <1>6 DEF f
    <2> QED BY <1>1, <2>1, <2>2, <2>3
  <1>10. ASSUME NEW l \in M
         PROVE  inl'[Nxt(id, l)][Ilink(l)] =
                  Append(inl[Nxt(id, l)][Ilink(l)], Hopped(Head(outl[id][l])))
    <2> DEFINE c == CHOOSE x \in M : Nxt(id, x) = Nxt(id, l) /\ Ilink(x) = Ilink(l)
    <2>1. c \in M /\ Ilink(c) = Ilink(l)
      OBVIOUS
    <2>2. c = l
      BY <1>5, <2>1
    <2> HIDE DEF c
    <2>3. inl'[Nxt(id, l)][Ilink(l)] =
            Append(inl[Nxt(id, l)][Ilink(l)], Hopped(Head(outl[id][c])))
      BY <1>4, <1>7 DEF c
    <2> QED BY <2>2, <2>3
  <1>11. ASSUME NEW n \in Node, NEW k \in Links,
                ~\E l \in M : Nxt(id, l) = n /\ Ilink(l) = k
         PROVE  inl'[n][k] = inl[n][k]
    BY <1>7, <1>11
  <1>12. inl' \in [Node -> LinkType]
    <2>1. ASSUME NEW n \in Node, NEW k \in Links PROVE inl'[n][k] \in Seq(Msg)
      <3>1. CASE \E l \in M : Nxt(id, l) = n /\ Ilink(l) = k
        <4>1. PICK l \in M : Nxt(id, l) = n /\ Ilink(l) = k
          BY <3>1
        <4>2. Hopped(Head(outl[id][l])) \in Msg
          BY <1>4, HoppedMsg
        <4> QED BY <1>2, <1>10, <4>1, <4>2, AppendSlots, ZenonT(60)
      <3>2. CASE ~\E l \in M : Nxt(id, l) = n /\ Ilink(l) = k
        BY <1>2, <1>11, <3>2
      <3> QED BY <3>1, <3>2
    <2>2. inl' = [n \in Node |-> [k \in Links |-> inl'[n][k]]]
      BY <1>7
    <2> QED BY <2>1, <2>2 DEF LinkType
  <1>13. NetTypes'
    BY <1>1, <1>8, <1>9, <1>12 DEF NetTypes
  <1>14. q2 \in [Place -> Seq(Msg)]
    BY <1>13, QueueOfType DEF NetTypes, Queue
  <1>15. /\ \A n \in Node, l \in Links : /\ q2[<<n, "in", l>>] = inl'[n][l]
                                         /\ q2[<<n, "out", l>>] = outl'[n][l]
         /\ \A n, m \in Node : q2[<<n, "box", m>>] =
                     IF mbox'[n][m] = NoMsg THEN <<>> ELSE <<mbox'[n][m]>>
    BY QueueAt DEF Queue
  <1>16. Sound(q)
    OBVIOUS
  <1> HIDE DEF q, q2
  <1>17. ASSUME NEW l \in M
         PROVE  /\ q[A(l)] # <<>> /\ q2[A(l)] = Tail(q[A(l)])
                /\ Joins(q, q2, A(l), E(l))
    <2> DEFINE h == Hopped(Head(outl[id][l]))
    <2>1. q[A(l)] = outl[id][l] /\ q2[A(l)] = Tail(outl[id][l])
      BY <1>3, <1>4, <1>9, <1>15
    <2>2. /\ q[E(l)] = inl[Nxt(id, l)][Ilink(l)]
          /\ q2[E(l)] = Append(inl[Nxt(id, l)][Ilink(l)], h)
      BY <1>3, <1>4, <1>10, <1>15
    <2>3. h \in Msg /\ Same(h, Head(q[A(l)]))
      BY <1>4, <2>1, HoppedMsg
    <2>4. Len(q[E(l)]) < Room(E(l))
      <3>1. Len(q[E(l)]) <= Room(E(l)) /\ Room(E(l)) = LINK_BUFSZ
        BY <1>4, <1>16 DEF Sound, QueueType, Room
      <3>2. Len(q[E(l)]) # LINK_BUFSZ /\ Len(q[E(l)]) \in Nat
        <4>1. inl[Nxt(id, l)][Ilink(l)] \in Seq(Msg)
          BY <1>2, <1>4
        <4>2. ~Full(inl[Nxt(id, l)][Ilink(l)])
          BY <1>4
        <4> HIDE DEF A, E
        <4> QED BY <2>2, <4>1, <4>2 DEF Full
      <3> QED BY <3>1, <3>2, BufAssumption
    <2>5. q[A(l)] # <<>> /\ Fits(E(l), h) /\ Left(E(l), h) = Left(A(l), h) - 1
      BY <1>4, <2>1
    <2> HIDE DEF h, A, E
    <2> QED BY <2>1, <2>2, <2>3, <2>4, <2>5 DEF Joins
  <1>18. Shift(q, q2, S, D)
    <2>1. ASSUME NEW a \in S
          PROVE  \E l \in M : a = A(l) /\ D[a] = E(l)
      BY DEF A
    <2>2. D \in [S -> Place \ S] /\ S \subseteq Place
      <3>1. ASSUME NEW l \in M PROVE E(l) \in Place \ S /\ A(l) \in Place
        BY <1>4 DEF A, E
      <3>2. D = [a \in S |-> D[a]]
        OBVIOUS
      <3> HIDE DEF D, E
      <3> QED BY <2>1, <3>1, <3>2
    <2>3. \A a, b \in S : D[a] = D[b] => a = b
      <3> SUFFICES ASSUME NEW a \in S, NEW b \in S, D[a] = D[b] PROVE a = b
        OBVIOUS
      <3>1. PICK l \in M : a = A(l) /\ D[a] = E(l)
        BY <2>1
      <3>2. PICK k \in M : b = A(k) /\ D[b] = E(k)
        BY <2>1
      <3>3. Ilink(l) = Ilink(k)
        BY <3>1, <3>2
      <3> QED BY <1>5, <3>1, <3>2, <3>3
    <2>4. \A a \in S : q[a] # <<>> /\ q2[a] = Tail(q[a]) /\ Joins(q, q2, a, D[a])
      <3> SUFFICES ASSUME NEW a \in S
                   PROVE  q[a] # <<>> /\ q2[a] = Tail(q[a]) /\ Joins(q, q2, a, D[a])
        OBVIOUS
      <3>1. PICK l \in M : a = A(l) /\ D[a] = E(l)
        BY <2>1
      <3> HIDE DEF D, S, A, E
      <3> QED BY <1>17, <3>1
    <2>5. ASSUME NEW b \in Place \ S, \A a \in S : D[a] # b
          PROVE  q2[b] = q[b]
      <3>1. CASE \E n \in Node, l \in Links : b = <<n, "in", l>>
        <4>1. PICK n \in Node, k \in Links : b = <<n, "in", k>>
          BY <3>1
        <4>2. ~\E l \in M : Nxt(id, l) = n /\ Ilink(l) = k
          <5> SUFFICES ASSUME NEW l \in M, Nxt(id, l) = n, Ilink(l) = k PROVE FALSE
            OBVIOUS
          <5>1. A(l) \in S /\ D[A(l)] = E(l)
            BY DEF A
          <5>2. E(l) = b
            BY <4>1
          <5> QED BY <2>5, <5>1, <5>2
        <4>3. inl'[n][k] = inl[n][k]
          BY <1>11, <4>2
        <4>4. q[b] = inl[n][k] /\ q2[b] = inl'[n][k]
          BY <1>3, <1>15, <4>1
        <4> QED BY <4>3, <4>4
      <3>2. CASE \E n \in Node, l \in Links : b = <<n, "out", l>>
        <4>1. PICK n \in Node, k \in Links : b = <<n, "out", k>>
          BY <3>2
        <4>2. n = id => k \notin M
          BY <4>1 DEF A
        <4>3. outl'[n][k] = outl[n][k]
          BY <1>9, <4>2
        <4> QED BY <1>3, <1>15, <4>1, <4>3
      <3>3. CASE \E n, m \in Node : b = <<n, "box", m>>
        <4>1. PICK n \in Node, m \in Node : b = <<n, "box", m>>
          BY <3>3
        <4>2. /\ q[b] = IF mbox[n][m] = NoMsg THEN <<>> ELSE <<mbox[n][m]>>
              /\ q2[b] = IF mbox'[n][m] = NoMsg THEN <<>> ELSE <<mbox'[n][m]>>
          BY <1>3, <1>15, <4>1
        <4> QED BY <1>8, <4>2
      <3> QED BY <3>1, <3>2, <3>3, Places
    <2> HIDE DEF D, S
    <2> QED BY <2>2, <2>3, <2>4, <2>5 DEF Shift
  <1>19. Sound(q2) /\ Alike(q, q2)
    <2> HIDE DEF S, D
    <2> QED BY <1>14, <1>16, <1>18, ShiftSound
  <1> QED BY <1>13, <1>19 DEF q, q2

-----------------------------------------------------------------------------
(* operate: messages that enter and leave the network. *)

\* q2 holds what q does and one message more, m, of an output that had none in q.
Gains(q, q2, m) ==
    /\ \A a, j : Slot(q, a, j) => /\ Slot(q2, a, j) /\ q2[a][j] = q[a][j]
                                  /\ Owner(q[a][j]) # Owner(m)
    /\ \A a, j : Slot(q2, a, j) => \/ Slot(q, a, j) /\ q2[a][j] = q[a][j]
                                   \/ q2[a][j] = m
    /\ \E a, j : Slot(q2, a, j) /\ q2[a][j] = m

\* The place where a message enters the network.
Exit(m) == <<m.from, "out", guidance(m.from, m.to)>>
Enters(q, q2, m) ==
    /\ Exit(m) \in Place
    /\ q2[Exit(m)] = Append(q[Exit(m)], m) /\ Len(q[Exit(m)]) < LINK_BUFSZ
    /\ \A c \in Place : c # Exit(m) => q2[c] = q[c]

\* m may enter: q holds nothing else of the same output and no message that an
\* acknowledgement m would have to be ahead of.
Fresh(q, m) == \A a, j : Slot(q, a, j) => /\ Owner(q[a][j]) # Owner(m)
                                          /\ ~Crosses(m, q[a][j])

\* The mailbox of a message is emptied.
Empties(q, q2, b, m) ==
    /\ b \in Place /\ b[2] = "box" /\ q[b] = <<m>> /\ q2[b] = <<>>
    /\ \A c \in Place : c # b => q2[c] = q[c]

\* No message is further from its target than one that starts on the same way.
LEMMA StartsLast ==
    ASSUME NEW a \in Place, NEW m \in Msg, NEW m2 \in Msg, Fits(a, m),
           m.from = m2.from, m.to = m2.to, Exit(m2) \in Place, Fits(Exit(m2), m2)
    PROVE  Left(a, m) < Left(Exit(m2), m2) \/ a = Exit(m2)
  <1> DEFINE f == m2.from
             t == m2.to
             b == Exit(m2)
  <1>1. /\ f \in Node /\ t \in Node /\ f # t /\ a[1] \in Node
        /\ a[2] \in {"in", "out", "box"} /\ OnWay(f, t, a[1])
    BY MsgFields DEF Place, Fits
  <1>2. Dist(a[1], t) <= Dist(f, t) /\ Dist(a[1], t) \in Nat /\ Dist(f, t) \in Nat
    BY <1>1, WayLength, Coordinates
  <1>3. Left(b, m2) = 2 * Dist(f, t)
    BY <1>2 DEF Left, Exit
  <1>4. CASE a[2] = "box"
    <2>1. Dist(Nxt(f, guidance(f, t)), t) = Dist(f, t) - 1 /\ Nxt(f, guidance(f, t)) \in Node
      BY <1>1, GuidedHop
    <2>2. Dist(Nxt(f, guidance(f, t)), t) \in Nat
      BY <1>1, <2>1, Coordinates
    <2>3. Left(a, m) = 0
      BY <1>4 DEF Left
    <2> QED BY <1>2, <1>3, <2>1, <2>2, <2>3
  <1>5. CASE a[2] = "in"
    <2>1. PICK v \in Node : /\ v # t /\ OnWay(f, t, v)
                            /\ a[1] = Nxt(v, guidance(v, t))
      BY <1>5 DEF Fits
    <2>2. Dist(a[1], t) = Dist(v, t) - 1 /\ Dist(v, t) \in Nat /\ Dist(v, t) <= Dist(f, t)
      BY <1>1, <2>1, GuidedHop, WayLength, Coordinates
    <2>3. Left(a, m) = 2 * Dist(a[1], t) + 1
      BY <1>5 DEF Left
    <2> QED BY <1>2, <1>3, <2>2, <2>3
  <1>6. CASE a[2] = "out"
    <2>1. Left(a, m) = 2 * Dist(a[1], t)
      BY <1>2, <1>6 DEF Left
    <2>2. Left(a, m) = Left(b, m2) => a = b
      BY OnePlace
    <2> QED BY <1>2, <1>3, <2>1, <2>2
  <1> QED BY <1>1, <1>4, <1>5, <1>6

\* What is in a slot is a message.
LEMMA SlotMsg ==
    ASSUME NEW q, QueueType(q), NEW a, NEW j, Slot(q, a, j)
    PROVE  /\ a \in Place /\ q[a] \in Seq(Msg) /\ Len(q[a]) \in Nat
           /\ j \in 1 .. Len(q[a]) /\ q[a][j] \in Msg
  <1>1. a \in Place /\ j \in 1 .. Len(q[a]) /\ q[a] \in Seq(Msg)
    BY DEF Slot, QueueType
  <1> QED BY <1>1

\* A message that enters comes last on its way, so the order is kept, and so is the
\* rest, if no other message belongs to the same output and none that has been sent
\* before crosses an acknowledgement that enters.
LEMMA EnterSound ==
    ASSUME NEW q, NEW q2 \in [Place -> Seq(Msg)], NEW m \in Msg, Sound(q),
           Enters(q, q2, m), Fits(Exit(m), m), Fresh(q, m)
    PROVE  Sound(q2) /\ Gains(q, q2, m)
  <1> DEFINE b == Exit(m)
             e == Len(q[b]) + 1
  <1>0. \A a, j : Slot(q, a, j) => Owner(q[a][j]) # Owner(m) /\ ~Crosses(m, q[a][j])
    BY DEF Fresh
  <1>1. b \in Place /\ q[b] \in Seq(Msg) /\ QueueType(q)
    BY DEF Enters, Sound, QueueType
  <1>2. /\ Len(q2[b]) = e /\ Len(q[b]) \in Nat /\ q2[b][e] = m
        /\ \A k \in 1 .. Len(q[b]) : q2[b][k] = q[b][k]
    <2>1. q2[b] = Append(q[b], m)
      BY DEF Enters
    <2> QED BY <1>1, <2>1, AppendSlots
  <1>3. \A c \in Place : c # b => q2[c] = q[c]
    BY DEF Enters
  <1>4. Len(q[b]) < LINK_BUFSZ /\ Room(b) = LINK_BUFSZ
    BY DEF Enters, Exit, Room
  <1> HIDE DEF b
  <1>5. ASSUME NEW a, NEW j, Slot(q, a, j)
        PROVE  Slot(q2, a, j) /\ q2[a][j] = q[a][j]
    BY <1>1, <1>2, <1>3, <1>5 DEF Slot
  <1>6. ASSUME NEW a, NEW j, Slot(q2, a, j)
        PROVE  \/ Slot(q, a, j) /\ q2[a][j] = q[a][j]
               \/ a = b /\ j = e /\ q2[a][j] = m
    BY <1>1, <1>2, <1>3, <1>6 DEF Slot
  <1>7. Slot(q2, b, e)
    BY <1>1, <1>2 DEF Slot
  <1>8. Gains(q, q2, m)
    BY <1>0, <1>2, <1>5, <1>6, <1>7 DEF Gains
  <1>9. QueueType(q2)
    <2> SUFFICES ASSUME NEW c \in Place PROVE Len(q2[c]) <= Room(c)
      BY DEF QueueType
    <2>1. Len(q[c]) <= Room(c)
      BY <1>1 DEF QueueType
    <2> QED BY <1>2, <1>3, <1>4, <2>1, BufAssumption
  <1>10. Routed(q2)
    <2> SUFFICES ASSUME NEW a, NEW j, Slot(q2, a, j) PROVE Fits(a, q2[a][j])
      BY DEF Routed
    <2> QED BY <1>6 DEF Sound, Routed, b
  <1>11. Alone(q2)
    <2> SUFFICES ASSUME NEW a, NEW j, NEW c, NEW k, Slot(q2, a, j), Slot(q2, c, k),
                        Owner(q2[a][j]) = Owner(q2[c][k])
                 PROVE  a = c /\ j = k
      BY DEF Alone
    <2>1. \/ Slot(q, a, j) /\ q2[a][j] = q[a][j]
          \/ a = b /\ j = e /\ q2[a][j] = m
      BY <1>6
    <2>2. \/ Slot(q, c, k) /\ q2[c][k] = q[c][k]
          \/ c = b /\ k = e /\ q2[c][k] = m
      BY <1>6
    <2> QED BY <1>0, <2>1, <2>2 DEF Sound, Alone
  <1>12. Ordered(q2)
    <2> SUFFICES ASSUME NEW a, NEW j, NEW c, NEW k, Slot(q2, a, j), Slot(q2, c, k),
                        Crosses(q2[a][j], q2[c][k])
                 PROVE  Ahead(a, j, c, k, q2[a][j], q2[c][k])
      BY DEF Ordered
    <2>1. \/ Slot(q, a, j) /\ q2[a][j] = q[a][j]
          \/ a = b /\ j = e /\ q2[a][j] = m
      BY <1>6
    <2>2. \/ Slot(q, c, k) /\ q2[c][k] = q[c][k]
          \/ c = b /\ k = e /\ q2[c][k] = m
      BY <1>6
    <2>3. ~Crosses(m, m)
      BY DEF Crosses
    <2>4. Slot(q, a, j) /\ q2[a][j] = q[a][j]
      BY <1>0, <2>1, <2>2, <2>3
    <2>5. CASE Slot(q, c, k) /\ q2[c][k] = q[c][k]
      BY <2>4, <2>5 DEF Sound, Ordered
    <2>6. CASE c = b /\ k = e /\ q2[c][k] = m
      <3>1. a \in Place /\ q[a][j] \in Msg /\ j \in 1 .. Len(q[a])
        BY <1>1, <2>4, SlotMsg
      <3>2. Fits(a, q[a][j])
        BY <2>4 DEF Sound, Routed
      <3>3. Left(a, q[a][j]) < Left(b, m) \/ a = b
        BY <1>1, <2>4, <2>6, <3>1, <3>2, StartsLast DEF b, Crosses
      <3>4. a = b => j < k
        BY <1>2, <2>6, <3>1
      <3> QED BY <2>4, <2>6, <3>3, <3>4 DEF Ahead
    <2> QED BY <2>2, <2>5, <2>6
  <1> QED BY <1>8, <1>9, <1>10, <1>11, <1>12 DEF Sound

\* A message leaves with nothing else.
LEMMA EmptySound ==
    ASSUME NEW q, NEW q2 \in [Place -> Seq(Msg)], NEW b, NEW m, Sound(q),
           Empties(q, q2, b, m)
    PROVE  Sound(q2) /\ Gains(q2, q, m)
  <1>1. b \in Place /\ q[b] = <<m>> /\ q2[b] = <<>> /\ Len(q[b]) = 1 /\ Len(q2[b]) = 0
    BY DEF Empties
  <1>2. \A c \in Place : c # b => q2[c] = q[c]
    BY DEF Empties
  <1>3. ASSUME NEW a, NEW j, Slot(q2, a, j)
        PROVE  a # b /\ Slot(q, a, j) /\ q[a][j] = q2[a][j]
    BY <1>1, <1>2, <1>3 DEF Slot
  <1>4. Slot(q, b, 1) /\ q[b][1] = m
    BY <1>1 DEF Slot
  <1>5. ASSUME NEW a, NEW j, Slot(q, a, j)
        PROVE  (Slot(q2, a, j) /\ q2[a][j] = q[a][j]) \/ q[a][j] = m
    <2>1. CASE a = b
      <3>1. j = 1
        <4>1. j \in 1 .. Len(q[b])
          BY <1>5, <2>1 DEF Slot
        <4>2. j \in 1 .. 1
          BY <1>1, <4>1
        <4> QED BY <4>2
      <3> QED BY <1>4, <2>1, <3>1
    <2>2. CASE a # b
      BY <1>2, <1>5, <2>2 DEF Slot
    <2> QED BY <2>1, <2>2
  <1>6. ASSUME NEW a, NEW j, Slot(q2, a, j)
        PROVE  Owner(q2[a][j]) # Owner(m)
    BY <1>3, <1>4, <1>6 DEF Sound, Alone
  <1>7. Gains(q2, q, m)
    BY <1>3, <1>4, <1>5, <1>6 DEF Gains
  <1>8. QueueType(q2)
    <2> SUFFICES ASSUME NEW c \in Place PROVE Len(q2[c]) <= Room(c)
      BY DEF QueueType
    <2>1. Len(q[c]) <= Room(c) /\ Room(c) >= 0
      BY BufAssumption DEF Sound, QueueType, Room
    <2> QED BY <1>1, <1>2, <2>1
  <1>9. Routed(q2) /\ Alone(q2) /\ Ordered(q2)
    BY <1>3 DEF Sound, Routed, Alone, Ordered
  <1> QED BY <1>7, <1>8, <1>9 DEF Sound

\* The invariant without the position of the loops.
CoreInv == Types /\ Sound(Queue) /\ Owned /\ Carried

\* The links and mailboxes of the invariant.
LEMMA TypesNet ==
    ASSUME Types
    PROVE  NetTypes /\ Queue \in [Place -> Seq(Msg)]
  <1>1. NetTypes
    BY DEF Types
  <1> QED BY <1>1, QueueOfType DEF NetTypes, Queue

\* A message in the network belongs to a pending output.
LEMMA SlotOwned ==
    ASSUME CoreInv, NEW a, NEW j, Slot(Queue, a, j)
    PROVE  LET m == Queue[a][j] IN
           /\ a \in Place /\ m \in Msg /\ Fits(a, m) /\ Owner(m) \in Node
           /\ sent[Owner(m)] /\ st[Owner(m)].op = "OUT" /\ st[Owner(m)].corr = Other(m)
           /\ m.ack = 0 => m.data = st[Owner(m)].data
  <1> DEFINE m == Queue[a][j]
  <1>1. a \in Place /\ m \in Msg
    BY SlotMsg DEF CoreInv, Sound
  <1>2. Fits(a, m)
    BY DEF CoreInv, Sound, Routed
  <1>3. m.from \in Node /\ m.to \in Node
    BY <1>1, MsgFields
  <1>4. Owner(m) \in Node
    BY <1>3 DEF Owner
  <1>5. /\ sent[Owner(m)] /\ st[Owner(m)].op = "OUT" /\ st[Owner(m)].corr = Other(m)
        /\ m.ack = 0 => m.data = st[Owner(m)].data
    BY DEF CoreInv, Owned
  <1> QED BY <1>1, <1>2, <1>4, <1>5

\* What mailbox m of n holds: the acknowledgement n waits for or a message of m.
Held(n, m) ==
    LET x == mbox[n][m] IN
    IF x.ack = 1 THEN sent[n] /\ st[n].op = "OUT" /\ st[n].corr = m
    ELSE /\ x.ack = 0 /\ sent[m] /\ st[m].op = "OUT" /\ st[m].corr = n
         /\ x.data = st[m].data

\* There is nothing else in a mailbox.
LEMMA BoxMsg ==
    ASSUME CoreInv, NEW n \in Node, NEW m \in Node, mbox[n][m] # NoMsg
    PROVE  LET x == mbox[n][m]
               b == <<n, "box", m>>
           IN  /\ x \in Msg /\ x.from = m /\ x.to = n /\ m # n
               /\ Fits(b, x) /\ b \in Place /\ Queue[b] = <<x>>
               /\ Slot(Queue, b, 1) /\ Queue[b][1] = x
               /\ Held(n, m)
  <1> DEFINE x == mbox[n][m]
             b == <<n, "box", m>>
  <1>1. x \in Msg
    BY DEF CoreInv, Types, NetTypes, BoxType
  <1>2. b \in Place /\ Queue[b] = <<x>>
    <2>1. Reads(Queue, inl, outl, mbox)
      BY QueueReads DEF Queue
    <2>2. b \in Place
      BY Places
    <2> QED BY <2>1, <2>2 DEF Reads
  <1>3. Slot(Queue, b, 1) /\ Queue[b][1] = x
    BY <1>2 DEF Slot
  <1>4. /\ Fits(b, x) /\ sent[Owner(x)] /\ st[Owner(x)].op = "OUT"
        /\ st[Owner(x)].corr = Other(x) /\ (x.ack = 0 => x.data = st[Owner(x)].data)
    BY <1>3, SlotOwned
  <1>5. x.to = n /\ x.from = m /\ m # n
    BY <1>4 DEF Fits
  <1>6. x.ack \in {0, 1}
    BY <1>1, MsgFields
  <1>7. Held(n, m)
    BY <1>4, <1>5, <1>6 DEF Owner, Other, Held
  <1> QED BY <1>1, <1>2, <1>3, <1>4, <1>5, <1>7

\* Taking a message and sending its acknowledgement.
Answer(m) == [to |-> m.from, from |-> m.to, data |-> Garbage, ack |-> 1, hops |-> m.hops]

\* The acknowledgement starts with the hops of the message, where that ended.
LEMMA AnswerFits ==
    ASSUME NEW n \in Node, NEW m \in Msg, Fits(<<n, "box", m.from>>, m), m.ack = 0
    PROVE  /\ Answer(m) \in Msg /\ Exit(Answer(m)) \in Place
           /\ Exit(Answer(m)) = <<n, "out", guidance(n, m.from)>>
           /\ guidance(n, m.from) \in Links
           /\ Fits(Exit(Answer(m)), Answer(m))
           /\ Owner(Answer(m)) = m.from /\ Owner(m) = m.from /\ Other(Answer(m)) = n
  <1> DEFINE y == Answer(m)
             f == m.from
             l == guidance(n, f)
  <1>1. m.to = n /\ f # n /\ f \in Node /\ m.hops = Dist(f, n) /\ m.hops \in Nat
    <2>1. m.to = n /\ f # n /\ m.hops = Dist(f, n) + 0
      BY DEF Fits
    <2>2. f \in Node /\ m.hops \in Nat
      BY MsgFields
    <2>3. Dist(f, n) \in Nat
      BY <2>2, Coordinates
    <2> QED BY <2>1, <2>2, <2>3
  <1>2. y \in Msg /\ y.to = f /\ y.from = n /\ y.ack = 1 /\ y.hops = m.hops
    BY <1>1 DEF Answer, Msg
  <1> HIDE DEF y
  <1>3. l \in Links
    BY <1>1, Guidance
  <1>4. Exit(y) = <<n, "out", l>> /\ Exit(y) \in Place
    BY <1>2, <1>3, Places DEF Exit
  <1>5. Fits(Exit(y), y)
    <2>1. OnWay(n, f, n) /\ Dist(n, n) = 0 /\ Dist(f, n) \in Nat
      BY <1>1, WayStart, DistSelf, Coordinates
    <2> DEFINE b == <<n, "out", l>>
    <2>2. b[1] = n /\ b[2] = "out" /\ b[3] = l
      OBVIOUS
    <2> HIDE DEF b
    <2>3. Fits(b, y)
      BY <1>1, <1>2, <2>1, <2>2 DEF Fits
    <2> QED BY <1>4, <2>3 DEF b
  <1>6. Owner(y) = f /\ Owner(m) = f /\ Other(y) = n
    BY <1>1, <1>2 DEF Owner, Other
  <1> QED BY <1>2, <1>3, <1>4, <1>5, <1>6 DEF y

\* The queues of the places other than the one that changes.
LEMMA BoxEmptied ==
    ASSUME NetTypes, NEW n \in Node, NEW m \in Node, mbox[n][m] # NoMsg,
           NEW B, B = [mbox EXCEPT ![n][m] = NoMsg]
    PROVE  /\ B \in [Node -> BoxType]
           /\ QueueOf(inl, outl, B) \in [Place -> Seq(Msg)]
           /\ Empties(Queue, QueueOf(inl, outl, B), <<n, "box", m>>, mbox[n][m])
  <1> DEFINE b == <<n, "box", m>>
             q == Queue
             q2 == QueueOf(inl, outl, B)
  <1>1. /\ B[n][m] = NoMsg /\ B \in [Node -> BoxType]
        /\ \A k, l \in Node : ~(k = n /\ l = m) => B[k][l] = mbox[k][l]
    BY DEF NetTypes, BoxType
  <1>2. Reads(q, inl, outl, mbox)
    BY QueueReads DEF Queue
  <1>3. Reads(q2, inl, outl, B)
    BY QueueReads
  <1>4. q2 \in [Place -> Seq(Msg)]
    BY <1>1, QueueOfType DEF NetTypes
  <1> HIDE DEF q, q2
  <1>5. b \in Place /\ b[2] = "box" /\ q[b] = <<mbox[n][m]>> /\ q2[b] = <<>>
    <2>1. b \in Place /\ b[2] = "box"
      BY Places
    <2>2. q[b] = IF mbox[n][m] = NoMsg THEN <<>> ELSE <<mbox[n][m]>>
      BY <1>2 DEF Reads
    <2>3. q2[b] = IF B[n][m] = NoMsg THEN <<>> ELSE <<B[n][m]>>
      BY <1>3 DEF Reads
    <2>4. q[b] = <<mbox[n][m]>>
      BY <2>2
    <2>5. q2[b] = <<>>
      BY <1>1, <2>3
    <2> QED BY <2>1, <2>4, <2>5
  <1>6. ASSUME NEW c \in Place, c # b PROVE q2[c] = q[c]
    <2>1. CASE \E k \in Node, l \in Links : c = <<k, "in", l>> \/ c = <<k, "out", l>>
      <3>1. PICK k \in Node, l \in Links : c = <<k, "in", l>> \/ c = <<k, "out", l>>
        BY <2>1
      <3>2. /\ q[<<k, "in", l>>] = q2[<<k, "in", l>>]
            /\ q[<<k, "out", l>>] = q2[<<k, "out", l>>]
        BY <1>2, <1>3 DEF Reads
      <3> QED BY <3>1, <3>2
    <2>2. CASE \E k, l \in Node : c = <<k, "box", l>>
      <3>1. PICK k \in Node, l \in Node : c = <<k, "box", l>>
        BY <2>2
      <3>2. B[k][l] = mbox[k][l]
        BY <1>1, <1>6, <3>1
      <3>3. /\ q[c] = IF mbox[k][l] = NoMsg THEN <<>> ELSE <<mbox[k][l]>>
            /\ q2[c] = IF B[k][l] = NoMsg THEN <<>> ELSE <<B[k][l]>>
        BY <1>2, <1>3, <3>1 DEF Reads
      <3> QED BY <3>2, <3>3
    <2> QED BY <2>1, <2>2, Places
  <1>7. Empties(q, q2, b, mbox[n][m])
    <2> HIDE DEF b
    <2> QED BY <1>5, <1>6 DEF Empties
  <1> QED BY <1>1, <1>4, <1>7 DEF q, q2

\* Send puts the message at the end of its output link.
LEMMA SendEnters ==
    ASSUME NetTypes, NEW id \in Node, NEW m \in Msg, NEW B \in [Node -> BoxType],
           m.from = id, Exit(m) \in Place, ~Blocked(id, m.to), Send(id, m)
    PROVE  /\ outl' \in [Node -> LinkType]
           /\ QueueOf(inl, outl', B) \in [Place -> Seq(Msg)]
           /\ Enters(QueueOf(inl, outl, B), QueueOf(inl, outl', B), m)
  <1> DEFINE g == guidance(id, m.to)
             b == <<id, "out", g>>
             q == QueueOf(inl, outl, B)
             q2 == QueueOf(inl, outl', B)
  <1>1. g \in Links /\ Exit(m) = b
    BY DEF Exit, Place
  <1>2. outl' = [outl EXCEPT ![id][g] = Append(outl[id][g], m)]
    BY DEF Send
  <1>3. outl[id][g] \in Seq(Msg) /\ Len(outl[id][g]) \in Nat
    BY <1>1 DEF NetTypes, LinkType
  <1>4. Append(outl[id][g], m) \in Seq(Msg)
    BY <1>3, AppendSlots
  <1>5. Len(outl[id][g]) < LINK_BUFSZ
    BY <1>3, BufAssumption DEF Blocked
  <1> HIDE DEF g
  <1>6. /\ outl'[id][g] = Append(outl[id][g], m) /\ outl' \in [Node -> LinkType]
        /\ \A k \in Node, l \in Links : ~(k = id /\ l = g) => outl'[k][l] = outl[k][l]
    BY <1>1, <1>2, <1>4 DEF NetTypes, LinkType
  <1>7. Reads(q, inl, outl, B)
    BY QueueReads
  <1>8. Reads(q2, inl, outl', B)
    BY QueueReads
  <1>9. q2 \in [Place -> Seq(Msg)]
    BY <1>6, QueueOfType DEF NetTypes
  <1> HIDE DEF q, q2
  <1>10. q[b] = outl[id][g] /\ q2[b] = outl'[id][g]
    BY <1>1, <1>7, <1>8 DEF Reads
  <1>11. ASSUME NEW c \in Place, c # b PROVE q2[c] = q[c]
    <2>1. CASE \E k \in Node, l \in Links : c = <<k, "in", l>>
      <3>1. PICK k \in Node, l \in Links : c = <<k, "in", l>>
        BY <2>1
      <3>2. q[<<k, "in", l>>] = inl[k][l]
        BY <1>7 DEF Reads
      <3>3. q2[<<k, "in", l>>] = inl[k][l]
        BY <1>8 DEF Reads
      <3> QED BY <3>1, <3>2, <3>3
    <2>2. CASE \E k \in Node, l \in Links : c = <<k, "out", l>>
      <3>1. PICK k \in Node, l \in Links : c = <<k, "out", l>>
        BY <2>2
      <3>2. outl'[k][l] = outl[k][l]
        BY <1>6, <1>11, <3>1
      <3> QED BY <1>7, <1>8, <3>1, <3>2 DEF Reads
    <2>3. CASE \E k, l \in Node : c = <<k, "box", l>>
      <3>1. PICK k \in Node, l \in Node : c = <<k, "box", l>>
        BY <2>3
      <3>2. /\ q[c] = IF B[k][l] = NoMsg THEN <<>> ELSE <<B[k][l]>>
            /\ q2[c] = IF B[k][l] = NoMsg THEN <<>> ELSE <<B[k][l]>>
        BY <1>7, <1>8, <3>1 DEF Reads
      <3> QED BY <3>2
    <2> QED BY <2>1, <2>2, <2>3, Places
  <1>12. Enters(q, q2, m)
    <2> HIDE DEF b
    <2> QED BY <1>1, <1>5, <1>6, <1>10, <1>11 DEF Enters
  <1> QED BY <1>6, <1>9, <1>12 DEF q, q2

\* input and alt take a message and acknowledge it: what was the message of the
\* sender's output is now its acknowledgement.
LEMMA TakeSound ==
    ASSUME CoreInv, NEW id \in Node, NEW from \in Node,
           st[id].op \in {"IN", "ALT"}, mbox[id][from] # NoMsg, Take(id, from),
           inl' = inl, sent' = sent
    PROVE  /\ NetTypes' /\ Sound(Queue') /\ Owned' /\ Carried'
           /\ data' \in [Node -> Data] /\ data' = [data EXCEPT ![id] = st[from].data]
           /\ st' = [st EXCEPT ![id] = NoOp] /\ mbox' = [mbox EXCEPT ![id][from] = NoMsg]
           /\ sent[from] /\ st[from].op = "OUT" /\ st[from].corr = id /\ from # id
           /\ \E q1 : Gains(q1, Queue, mbox[id][from])
                      /\ Gains(q1, Queue', Answer(mbox[id][from]))
  <1> DEFINE x == mbox[id][from]
             y == Answer(x)
             b == <<id, "box", from>>
             q1 == QueueOf(inl, outl, mbox')
  <1>1. /\ x \in Msg /\ x.from = from /\ x.to = id /\ from # id
        /\ Fits(b, x) /\ Held(id, from)
    BY BoxMsg
  <1>2. x.ack = 0 /\ sent[from] /\ st[from].op = "OUT" /\ st[from].corr = id
        /\ x.data = st[from].data
    BY <1>1 DEF Held
  <1>3. /\ ~Blocked(id, from) /\ Send(id, y)
        /\ data' = [data EXCEPT ![id] = x.data]
        /\ st' = [st EXCEPT ![id] = NoOp]
        /\ mbox' = [mbox EXCEPT ![id][from] = NoMsg]
    BY <1>1 DEF Take, Answer
  <1>4. /\ y \in Msg /\ Exit(y) \in Place /\ Fits(Exit(y), y)
        /\ Owner(y) = from /\ Owner(x) = from /\ Other(y) = id
        /\ y.from = id /\ y.to = from /\ y.ack = 1
    <2>1. y.from = id /\ y.to = from /\ y.ack = 1
      BY <1>1 DEF Answer
    <2> QED BY <1>1, <1>2, <2>1, AnswerFits
  <1> HIDE DEF x, y
  <1>5. NetTypes /\ Sound(Queue)
    BY TypesNet DEF CoreInv
  <1>6. /\ mbox' \in [Node -> BoxType] /\ q1 \in [Place -> Seq(Msg)]
        /\ Empties(Queue, q1, b, x)
    BY <1>3, <1>5, BoxEmptied DEF x
  <1>7. Sound(q1) /\ Gains(q1, Queue, x)
    BY <1>5, <1>6, EmptySound
  <1>8. /\ outl' \in [Node -> LinkType] /\ Queue' \in [Place -> Seq(Msg)]
        /\ Enters(q1, Queue', y)
    BY <1>3, <1>4, <1>5, <1>6, SendEnters DEF Queue
  <1>9. ASSUME NEW a, NEW j, Slot(q1, a, j)
        PROVE  /\ Slot(Queue, a, j) /\ Queue[a][j] = q1[a][j]
               /\ Owner(q1[a][j]) # Owner(y) /\ ~Crosses(y, q1[a][j])
               /\ Owner(q1[a][j]) # id
    <2>1. /\ Slot(Queue, a, j) /\ Queue[a][j] = q1[a][j]
          /\ Owner(q1[a][j]) # Owner(x)
      BY <1>7, <1>9 DEF Gains
    <2>2. Owner(q1[a][j]) # id
      BY <2>1, SlotOwned
    <2>3. ~Crosses(y, q1[a][j])
      BY <2>2, <1>4 DEF Crosses, Owner
    <2> QED BY <1>4, <2>1, <2>2, <2>3
  <1>10. Sound(Queue') /\ Gains(q1, Queue', y)
    <2> HIDE DEF q1
    <2>1. Fresh(q1, y)
      BY <1>9 DEF Fresh
    <2> QED BY <1>4, <1>7, <1>8, <2>1, EnterSound
  <1>11. NetTypes'
    BY <1>5, <1>6, <1>8 DEF NetTypes
  <1>12. x.data \in Data
    BY <1>1, <1>2, MsgFields DEF x
  <1>13. data' \in [Node -> Data] /\ data' = [data EXCEPT ![id] = st[from].data]
    BY <1>2, <1>3, <1>12 DEF CoreInv, Types, CpuTypes
  <1>14. \A s \in Node : s # id => st'[s] = st[s]
    BY <1>3 DEF CoreInv, Types, CpuTypes
  <1>15. Owned'
    <2> SUFFICES ASSUME NEW a, NEW j, Slot(Queue', a, j)
                 PROVE  LET m == Queue'[a][j]
                            s == Owner(m)
                        IN  /\ sent'[s] /\ st'[s].op = "OUT" /\ st'[s].corr = Other(m)
                            /\ m.ack = 0 => m.data = st'[s].data
      BY DEF Owned, Slot, Owner, Other
    <2>1. CASE Slot(q1, a, j) /\ Queue'[a][j] = q1[a][j]
      <3>1. Slot(Queue, a, j) /\ Queue[a][j] = Queue'[a][j] /\ Owner(Queue'[a][j]) # id
        BY <1>9, <2>1
      <3> DEFINE m == Queue'[a][j]
      <3>2. /\ Owner(m) \in Node /\ sent[Owner(m)] /\ st[Owner(m)].op = "OUT"
            /\ st[Owner(m)].corr = Other(m) /\ (m.ack = 0 => m.data = st[Owner(m)].data)
        BY <3>1, SlotOwned
      <3> QED BY <1>14, <3>1, <3>2
    <2>2. CASE Queue'[a][j] = y
      <3>1. st'[from] = st[from]
        BY <1>1, <1>14
      <3> QED BY <1>2, <1>4, <2>2, <3>1
    <2> QED BY <1>10, <2>1, <2>2 DEF Gains
  <1>16. Carried'
    <2> SUFFICES ASSUME NEW s \in Node, sent[s]
                 PROVE  /\ st'[s].op = "OUT"
                        /\ \E a, j : Slot(Queue', a, j) /\ Owner(Queue'[a][j]) = s
      BY DEF Carried, Slot, Owner
    <2>1. st[s].op = "OUT" /\ \E a, j : Slot(Queue, a, j) /\ Owner(Queue[a][j]) = s
      BY DEF CoreInv, Carried
    <2>2. st'[s].op = "OUT"
      BY <1>14, <2>1
    <2>3. CASE s = from
      BY <1>4, <1>10, <2>2, <2>3 DEF Gains
    <2>4. CASE s # from
      <3>1. PICK a, j : Slot(Queue, a, j) /\ Owner(Queue[a][j]) = s
        BY <2>1
      <3>2. Slot(q1, a, j) /\ Queue[a][j] = q1[a][j]
        BY <1>4, <1>7, <2>4, <3>1 DEF Gains
      <3>3. Slot(Queue', a, j) /\ Queue'[a][j] = q1[a][j]
        BY <1>10, <3>2 DEF Gains
      <3> QED BY <2>2, <3>1, <3>2, <3>3
    <2> QED BY <2>3, <2>4
  <1>17. /\ NetTypes' /\ Sound(Queue') /\ Owned' /\ Carried'
         /\ data' \in [Node -> Data] /\ data' = [data EXCEPT ![id] = st[from].data]
         /\ st' = [st EXCEPT ![id] = NoOp] /\ mbox' = [mbox EXCEPT ![id][from] = NoMsg]
         /\ sent[from] /\ st[from].op = "OUT" /\ st[from].corr = id /\ from # id
    BY <1>1, <1>2, <1>3, <1>10, <1>11, <1>13, <1>15, <1>16
  <1> QED BY <1>7, <1>10, <1>17 DEF x, y

\* The registers of a pending communication.
LEMMA Registers ==
    ASSUME Types, NEW n \in Node
    PROVE  /\ st[n].op = "OUT" => st[n].corr \in Node /\ st[n].corr # n /\ st[n].data \in Data
           /\ st[n].op = "IN" => st[n].corr \in Node
           /\ st[n].op = "ALT" => st[n].cl \subseteq Node /\ st[n].df \in BOOLEAN
           /\ st[n] \in Prog[n] \cup {NoOp}
  <1>1. st[n] \in (Prog[n] \cap Instr(n)) \cup {NoOp}
    BY DEF Types, CpuTypes
  <1>2. CASE st[n] = NoOp
    BY <1>2 DEF NoOp
  <1>3. CASE st[n] \in Instr(n)
    BY <1>1, <1>3 DEF Instr
  <1> QED BY <1>1, <1>2, <1>3

\* The message of the output of id.
Sends(id) == [to |-> st[id].corr, from |-> id, data |-> st[id].data, ack |-> 0, hops |-> 0]

\* It starts on its way.
LEMMA SendFits ==
    ASSUME Types, NEW id \in Node, st[id].op = "OUT"
    PROVE  /\ Sends(id) \in Msg /\ Exit(Sends(id)) \in Place
           /\ Fits(Exit(Sends(id)), Sends(id))
           /\ Owner(Sends(id)) = id /\ Other(Sends(id)) = st[id].corr
           /\ Sends(id).ack = 0 /\ Sends(id).data = st[id].data
           /\ Sends(id).from = id /\ Sends(id).to = st[id].corr
  <1> DEFINE m == Sends(id)
             c == st[id].corr
             l == guidance(id, c)
  <1>1. c \in Node /\ c # id /\ st[id].data \in Data
    BY Registers
  <1>2. m \in Msg /\ m.to = c /\ m.from = id /\ m.ack = 0 /\ m.hops = 0 /\ m.data = st[id].data
    BY <1>1 DEF Sends, Msg
  <1> HIDE DEF m, c
  <1>3. l \in Links
    BY <1>1, Guidance
  <1>4. Exit(m) = <<id, "out", l>> /\ Exit(m) \in Place
    BY <1>2, <1>3, Places DEF Exit
  <1>5. Fits(Exit(m), m)
    <2>1. OnWay(id, c, id) /\ Dist(id, id) = 0
      BY <1>1, WayStart, DistSelf
    <2> DEFINE b == <<id, "out", l>>
    <2>2. b[1] = id /\ b[2] = "out" /\ b[3] = l
      OBVIOUS
    <2> HIDE DEF b
    <2>3. Fits(b, m)
      BY <1>1, <1>2, <2>1, <2>2 DEF Fits
    <2> QED BY <1>4, <2>3 DEF b
  <1>6. Owner(m) = id /\ Other(m) = c
    BY <1>2 DEF Owner, Other
  <1> QED BY <1>2, <1>4, <1>5, <1>6 DEF m, c

\* output sends its message.
LEMMA SendSound ==
    ASSUME CoreInv, NEW id \in Node, outputSend(id)
    PROVE  /\ NetTypes' /\ Sound(Queue') /\ Owned' /\ Carried'
           /\ Gains(Queue, Queue', Sends(id))
  <1> DEFINE m == Sends(id)
  <1>1. /\ st[id].op = "OUT" /\ ~sent[id] /\ ~Blocked(id, st[id].corr)
        /\ Send(id, m) /\ sent' = [sent EXCEPT ![id] = TRUE]
        /\ st' = st /\ inl' = inl /\ mbox' = mbox
    BY DEF outputSend, Operates, Sends
  <1>2. NetTypes /\ Sound(Queue) /\ Types /\ sent \in [Node -> BOOLEAN]
    BY TypesNet DEF CoreInv, Types, CpuTypes
  <1>3. /\ m \in Msg /\ Exit(m) \in Place /\ Fits(Exit(m), m)
        /\ Owner(m) = id /\ Other(m) = st[id].corr /\ m.ack = 0 /\ m.data = st[id].data
        /\ m.from = id /\ m.to = st[id].corr
    BY <1>1, <1>2, SendFits
  <1> HIDE DEF m
  <1>4. /\ outl' \in [Node -> LinkType] /\ Queue' \in [Place -> Seq(Msg)]
        /\ Enters(Queue, Queue', m)
    BY <1>1, <1>2, <1>3, SendEnters DEF Queue, NetTypes
  <1>5. Fresh(Queue, m)
    <2> SUFFICES ASSUME NEW a, NEW j, Slot(Queue, a, j)
                 PROVE  Owner(Queue[a][j]) # Owner(m) /\ ~Crosses(m, Queue[a][j])
      BY DEF Fresh
    <2>1. sent[Owner(Queue[a][j])]
      BY SlotOwned
    <2> QED BY <1>1, <1>3, <2>1 DEF Crosses
  <1>6. Sound(Queue') /\ Gains(Queue, Queue', m)
    BY <1>2, <1>3, <1>4, <1>5, EnterSound
  <1>7. NetTypes'
    BY <1>1, <1>2, <1>4 DEF NetTypes
  <1>8. \A s \in Node : sent'[s] <=> (sent[s] \/ s = id)
    BY <1>1, <1>2
  <1>9. Owned'
    <2> SUFFICES ASSUME NEW a, NEW j, Slot(Queue', a, j)
                 PROVE  LET x == Queue'[a][j]
                            s == Owner(x)
                        IN  /\ sent'[s] /\ st[s].op = "OUT" /\ st[s].corr = Other(x)
                            /\ x.ack = 0 => x.data = st[s].data
      BY <1>1 DEF Owned, Slot, Owner, Other
    <2>1. CASE Slot(Queue, a, j) /\ Queue'[a][j] = Queue[a][j]
      <3> DEFINE x == Queue'[a][j]
      <3>1. /\ Owner(x) \in Node /\ sent[Owner(x)] /\ st[Owner(x)].op = "OUT"
            /\ st[Owner(x)].corr = Other(x) /\ (x.ack = 0 => x.data = st[Owner(x)].data)
        BY <2>1, SlotOwned
      <3> QED BY <1>8, <3>1
    <2>2. CASE Queue'[a][j] = m
      BY <1>1, <1>3, <1>8, <2>2
    <2> QED BY <1>6, <2>1, <2>2 DEF Gains
  <1>10. Carried'
    <2> SUFFICES ASSUME NEW s \in Node, sent'[s]
                 PROVE  /\ st[s].op = "OUT"
                        /\ \E a, j : Slot(Queue', a, j) /\ Owner(Queue'[a][j]) = s
      BY <1>1 DEF Carried, Slot, Owner
    <2>1. CASE s = id
      BY <1>1, <1>3, <1>6, <2>1 DEF Gains
    <2>2. CASE s # id
      <3>1. sent[s]
        BY <1>8, <2>2
      <3>2. st[s].op = "OUT" /\ \E a, j : Slot(Queue, a, j) /\ Owner(Queue[a][j]) = s
        BY <3>1 DEF CoreInv, Carried
      <3>3. PICK a, j : Slot(Queue, a, j) /\ Owner(Queue[a][j]) = s
        BY <3>2
      <3>4. Slot(Queue', a, j) /\ Queue'[a][j] = Queue[a][j]
        BY <1>6, <3>3 DEF Gains
      <3> QED BY <3>2, <3>3, <3>4
    <2> QED BY <2>1, <2>2
  <1> QED BY <1>6, <1>7, <1>9, <1>10 DEF m

\* output receives its acknowledgement.
LEMMA AckedSound ==
    ASSUME CoreInv, NEW id \in Node, outputAcked(id)
    PROVE  /\ NetTypes' /\ Sound(Queue') /\ Owned' /\ Carried'
           /\ Gains(Queue', Queue, mbox[id][st[id].corr])
           /\ mbox[id][st[id].corr].to = id
           /\ mbox' = [mbox EXCEPT ![id][st[id].corr] = NoMsg]
  <1> DEFINE c == st[id].corr
             x == mbox[id][c]
  <1>1. /\ st[id].op = "OUT" /\ sent[id] /\ x # NoMsg /\ x.ack = 1
        /\ st' = [st EXCEPT ![id] = NoOp] /\ sent' = [sent EXCEPT ![id] = FALSE]
        /\ mbox' = [mbox EXCEPT ![id][c] = NoMsg]
        /\ inl' = inl /\ outl' = outl
    BY DEF outputAcked, Operates
  <1>2. NetTypes /\ Sound(Queue) /\ Types /\ sent \in [Node -> BOOLEAN]
    BY TypesNet DEF CoreInv, Types, CpuTypes
  <1>3. c \in Node
    BY <1>1, <1>2, Registers
  <1>4. x \in Msg /\ x.to = id
    <2> HIDE DEF c
    <2>1. mbox[id][c] # NoMsg
      BY <1>1
    <2> QED BY <1>3, <2>1, BoxMsg
  <1>5. Owner(x) = id
    BY <1>1, <1>4 DEF Owner
  <1>6. /\ mbox' \in [Node -> BoxType] /\ Queue' \in [Place -> Seq(Msg)]
        /\ Empties(Queue, Queue', <<id, "box", c>>, x)
    BY <1>1, <1>2, <1>3, BoxEmptied DEF Queue
  <1> HIDE DEF x
  <1>7. Sound(Queue') /\ Gains(Queue', Queue, x)
    BY <1>2, <1>6, EmptySound
  <1>8. NetTypes'
    BY <1>1, <1>2, <1>6 DEF NetTypes
  <1>9. \A s \in Node : s # id => sent'[s] = sent[s] /\ st'[s] = st[s]
    BY <1>1, <1>2 DEF Types, CpuTypes
  <1>10. ~sent'[id]
    BY <1>1, <1>2
  <1>11. Owned'
    <2> SUFFICES ASSUME NEW a, NEW j, Slot(Queue', a, j)
                 PROVE  LET m == Queue'[a][j]
                            s == Owner(m)
                        IN  /\ sent'[s] /\ st'[s].op = "OUT" /\ st'[s].corr = Other(m)
                            /\ m.ack = 0 => m.data = st'[s].data
      BY DEF Owned, Slot, Owner, Other
    <2> DEFINE m == Queue'[a][j]
    <2>1. Slot(Queue, a, j) /\ Queue[a][j] = m /\ Owner(m) # id
      BY <1>5, <1>7 DEF Gains
    <2>2. /\ Owner(m) \in Node /\ sent[Owner(m)] /\ st[Owner(m)].op = "OUT"
          /\ st[Owner(m)].corr = Other(m) /\ (m.ack = 0 => m.data = st[Owner(m)].data)
      BY <2>1, SlotOwned
    <2> QED BY <1>9, <2>1, <2>2
  <1>12. Carried'
    <2> SUFFICES ASSUME NEW s \in Node, sent'[s]
                 PROVE  /\ st'[s].op = "OUT"
                        /\ \E a, j : Slot(Queue', a, j) /\ Owner(Queue'[a][j]) = s
      BY DEF Carried, Slot, Owner
    <2>1. s # id /\ sent[s] /\ st'[s] = st[s]
      BY <1>9, <1>10
    <2>2. st[s].op = "OUT" /\ \E a, j : Slot(Queue, a, j) /\ Owner(Queue[a][j]) = s
      BY <2>1 DEF CoreInv, Carried
    <2>3. PICK a, j : Slot(Queue, a, j) /\ Owner(Queue[a][j]) = s
      BY <2>2
    <2>4. Slot(Queue', a, j) /\ Queue'[a][j] = Queue[a][j]
      BY <1>5, <1>7, <2>1, <2>3 DEF Gains
    <2> QED BY <2>1, <2>2, <2>3, <2>4
  <1> QED BY <1>1, <1>4, <1>7, <1>8, <1>11, <1>12 DEF x

\* Some clause with a message is the first in turn, and the search of alt ends there.
LEMMA ChosenReady ==
    ASSUME Types, NEW id \in Node, st[id].op = "ALT", Ready(id) # {}
    PROVE  /\ Chosen(id) \in Ready(id) /\ Chosen(id) \in Node /\ mbox[id][Chosen(id)] # NoMsg
           /\ \A q \in Ready(id) : Turn(id, Chosen(id)) <= Turn(id, q)
  <1> DEFINE T == {Turn(id, m) : m \in Ready(id)}
             Less == OpToRel(<, Nat)
  <1>1. Ready(id) \subseteq Node
    BY Registers DEF Ready
  <1>2. \A m \in Node : Turn(id, m) \in Nat
    <2>1. Size \in Nat \ {0} /\ start[id] \in Node
      BY GridAssumption DEF Types, CpuTypes, Node, Size
    <2> HIDE DEF Size
    <2> QED BY <2>1 DEF Turn, Node
  <1>3. T \subseteq Nat /\ T # {}
    BY <1>1, <1>2
  <1>4. IsWellFoundedOn(Less, Nat)
    BY NatLessThanWellFounded
  <1>5. PICK t \in T : \A u \in T : ~(<<u, t>> \in Less)
    <2> HIDE DEF Less, T
    <2> QED BY <1>3, <1>4, WFMin
  <1>6. \A u \in T : t <= u
    <2> SUFFICES ASSUME NEW u \in T PROVE ~(u < t)
      BY <1>3
    <2>1. u \in Nat /\ t \in Nat /\ <<u, t>> \notin Less
      BY <1>3, <1>5
    <2> QED BY <2>1 DEF OpToRel
  <1>7. \E m \in Ready(id) : \A q \in Ready(id) : Turn(id, m) <= Turn(id, q)
    BY <1>6
  <1>8. /\ Chosen(id) \in Ready(id)
        /\ \A q \in Ready(id) : Turn(id, Chosen(id)) <= Turn(id, q)
    BY <1>7 DEF Chosen
  <1> QED BY <1>1, <1>8 DEF Ready

\* mbox_start stays the id of a node.
LEMMA NextStart ==
    ASSUME NEW n \in Node
    PROVE  (n + 1) % Size \in Node
  <1>1. Size \in Nat \ {0}
    BY GridAssumption DEF Size, Node
  <1> HIDE DEF Size
  <1> QED BY <1>1 DEF Node

\* The step to the next iteration.
LEMMA Loops ==
    ASSUME NEW p \in DOMAIN NextLoop, NEW id \in Node, At(p, id)
    PROVE  /\ i' \in Node /\ ph' \in DOMAIN NextLoop /\ ph = p /\ i = id
           /\ \/ i' = id + 1 /\ ph' = p
              \/ i' = 0 /\ ph' = NextLoop[p] /\ id = Size - 1
  <1>1. Size \in Nat \ {0}
    BY GridAssumption DEF Size, Node
  <1>2. NextLoop[p] \in DOMAIN NextLoop
    BY DEF NextLoop
  <1>3. id \in Nat /\ id < Size
    BY <1>1 DEF Node
  <1>4. ph = p /\ i = id /\ (IF id + 1 < Size THEN i' = id + 1 /\ ph' = p
                            ELSE i' = 0 /\ ph' = NextLoop[p])
    BY DEF At, In, Goes
  <1> HIDE DEF Size
  <1>5. CASE id + 1 < Size
    BY <1>1, <1>3, <1>4, <1>5 DEF Node
  <1>6. CASE ~(id + 1 < Size)
    BY <1>1, <1>2, <1>3, <1>4, <1>6 DEF Node
  <1> QED BY <1>5, <1>6

\* The loops have four names and an order.
LEMMA LoopNames ==
    /\ DOMAIN NextLoop = {"cpu", "fwd", "operate", "hop"}
    /\ NextLoop["cpu"] = "fwd" /\ NextLoop["fwd"] = "operate"
    /\ NextLoop["operate"] = "hop" /\ NextLoop["hop"] = "cpu"
  BY DEF NextLoop

\* Nodes whose outputs are pending and the messages of the network stay as they are.
LEMMA QuietSound ==
    ASSUME CoreInv, inl' = inl, outl' = outl, mbox' = mbox, sent' = sent,
           \A s \in Node : sent[s] => st'[s] = st[s]
    PROVE  Sound(Queue') /\ Owned' /\ Carried' /\ NetTypes' /\ Queue' = Queue
  <1>1. Queue' = Queue
    BY DEF Queue
  <1>2. Owned'
    <2> SUFFICES ASSUME NEW a, NEW j, Slot(Queue, a, j)
                 PROVE  LET m == Queue[a][j]
                            s == Owner(m)
                        IN  /\ sent[s] /\ st'[s].op = "OUT" /\ st'[s].corr = Other(m)
                            /\ m.ack = 0 => m.data = st'[s].data
      BY <1>1 DEF Owned, Slot, Owner, Other
    <2> QED BY SlotOwned
  <1>3. Carried'
    BY <1>1 DEF Carried, CoreInv, Slot, Owner
  <1>4. NetTypes'
    BY TypesNet DEF CoreInv, NetTypes
  <1> QED BY <1>1, <1>2, <1>3, <1>4 DEF CoreInv

\* So do messages that only move.
LEMMA AlikeSound ==
    ASSUME CoreInv, Alike(Queue, Queue'), sent' = sent, st' = st
    PROVE  Owned' /\ Carried'
  <1>1. Owned'
    <2> SUFFICES ASSUME NEW a, NEW j, Slot(Queue', a, j)
                 PROVE  LET m == Queue'[a][j]
                            s == Owner(m)
                        IN  /\ sent[s] /\ st[s].op = "OUT" /\ st[s].corr = Other(m)
                            /\ m.ack = 0 => m.data = st[s].data
      BY DEF Owned, Slot, Owner, Other
    <2> DEFINE m == Queue'[a][j]
    <2>1. PICK b, k : Slot(Queue, b, k) /\ Same(m, Queue[b][k])
      BY DEF Alike
    <2> DEFINE x == Queue[b][k]
    <2>2. /\ sent[Owner(x)] /\ st[Owner(x)].op = "OUT" /\ st[Owner(x)].corr = Other(x)
          /\ x.ack = 0 => x.data = st[Owner(x)].data
      BY <2>1, SlotOwned
    <2>3. Owner(m) = Owner(x) /\ Other(m) = Other(x) /\ m.ack = x.ack /\ m.data = x.data
      BY <2>1 DEF Same, Owner, Other
    <2> QED BY <2>2, <2>3
  <1>2. Carried'
    <2> SUFFICES ASSUME NEW s \in Node, sent[s]
                 PROVE  /\ st[s].op = "OUT"
                        /\ \E a, j : Slot(Queue', a, j) /\ Owner(Queue'[a][j]) = s
      BY DEF Carried, Slot, Owner
    <2>1. st[s].op = "OUT" /\ \E a, j : Slot(Queue, a, j) /\ Owner(Queue[a][j]) = s
      BY DEF CoreInv, Carried
    <2>2. PICK a, j : Slot(Queue, a, j) /\ Owner(Queue[a][j]) = s
      BY <2>1
    <2>3. PICK b, k : Slot(Queue', b, k) /\ Same(Queue[a][j], Queue'[b][k])
      BY <2>2 DEF Alike
    <2>4. Owner(Queue'[b][k]) = s
      BY <2>2, <2>3 DEF Same, Owner
    <2> QED BY <2>1, <2>3, <2>4
  <1> QED BY <1>1, <1>2

-----------------------------------------------------------------------------
(* Every step keeps the invariant. *)

\* The loop over the processors and hop find no acknowledgement in a mailbox.
LEMMA NoAckBetween ==
    ASSUME AckSeen, ph \in {"cpu", "hop"}, mbox' = mbox
    PROVE  AckSeen'
  BY DEF AckSeen

\* fwd(id) changes the mailboxes of node id only.
LEMMA AckForwarded ==
    ASSUME Types, AckSeen, NEW id \in Node, At("fwd", id),
           \A n \in Node : n # id => mbox'[n] = mbox[n]
    PROVE  AckSeen'
  <1> SUFFICES ASSUME NEW n \in Node, NEW m \in Node,
                      mbox'[n][m] # NoMsg, mbox'[n][m].ack = 1
               PROVE  (ph' = "fwd" /\ n < i') \/ (ph' = "operate" /\ n >= i')
    BY DEF AckSeen
  <1>1. /\ ph = "fwd" /\ i = id
        /\ \/ i' = id + 1 /\ ph' = "fwd"
           \/ i' = 0 /\ ph' = "operate"
    BY Loops, LoopNames
  <1>2. n \in Nat /\ id \in Nat
    BY DEF Node
  <1>3. n = id \/ n < id
    <2>1. CASE n # id
      <3>1. mbox[n][m] # NoMsg /\ mbox[n][m].ack = 1
        BY <2>1
      <3> QED BY <1>1, <3>1 DEF AckSeen
    <2> QED BY <2>1
  <1> QED BY <1>1, <1>2, <1>3

\* operate(id) takes the acknowledgement that id waits for, and there is no other.
LEMMA AckOperated ==
    ASSUME Types, AckSeen, NEW id \in Node, At("operate", id),
           \A n, m \in Node : mbox'[n][m] = mbox[n][m] \/ mbox'[n][m] = NoMsg,
           \A m \in Node : mbox'[id][m] # NoMsg => mbox'[id][m].ack # 1
    PROVE  AckSeen'
  <1> SUFFICES ASSUME NEW n \in Node, NEW m \in Node,
                      mbox'[n][m] # NoMsg, mbox'[n][m].ack = 1
               PROVE  (ph' = "fwd" /\ n < i') \/ (ph' = "operate" /\ n >= i')
    BY DEF AckSeen
  <1>1. /\ ph = "operate" /\ i = id
        /\ \/ i' = id + 1 /\ ph' = "operate"
           \/ i' = 0 /\ ph' = "hop" /\ id = Size - 1
    BY Loops, LoopNames
  <1>2. n \in Nat /\ id \in Nat /\ n <= Size - 1 /\ Size \in Nat
    BY GridAssumption DEF Node, Size
  <1>3. n # id
    OBVIOUS
  <1>4. mbox[n][m] # NoMsg /\ mbox[n][m].ack = 1
    OBVIOUS
  <1>5. n >= id
    BY <1>1, <1>4 DEF AckSeen
  <1> HIDE DEF Size
  <1> QED BY <1>1, <1>2, <1>3, <1>5

\* A node that waits for no acknowledgement has none in its mailboxes.
LEMMA NoAckFor ==
    ASSUME CoreInv, NEW id \in Node, ~(sent[id] /\ st[id].op = "OUT")
    PROVE  \A m \in Node : mbox[id][m] # NoMsg => mbox[id][m].ack # 1
  <1> SUFFICES ASSUME NEW m \in Node, mbox[id][m] # NoMsg PROVE mbox[id][m].ack # 1
    OBVIOUS
  <1>1. Held(id, m)
    BY BoxMsg
  <1> QED BY <1>1 DEF Held

\* An output that waits is pending.
LEMMA SentOut ==
    ASSUME CoreInv, NEW n \in Node, sent[n]
    PROVE  st[n].op = "OUT" /\ st[n] # NoOp
  <1>1. st[n].op = "OUT"
    BY DEF CoreInv, Carried
  <1> QED BY <1>1 DEF NoOp

\* The parts of the invariant.
LEMMA InvParts ==
    NetInv <=> CoreInv /\ AckSeen
  BY DEF NetInv, CoreInv

\* Datapath_execute.
LEMMA CpuStep ==
    ASSUME NetInv, NEW id \in Node, Idle(id) \/ Alu(id) \/ Wait(id) \/ Comm(id)
    PROVE  NetInv'
  <1>1. CoreInv /\ AckSeen /\ CpuTypes /\ LoopTypes
    BY InvParts DEF CoreInv, Types
  <1>2. /\ At("cpu", id) /\ UNCHANGED <<sent, data, k1, netVars, dead, over>>
    BY DEF Idle, Alu, Wait, Comm, cpuVars
  <1>3. inl' = inl /\ outl' = outl /\ mbox' = mbox /\ start' = start
    BY <1>2 DEF netVars
  <1>4. i' \in Node /\ ph' \in DOMAIN NextLoop /\ ph = "cpu"
    BY <1>2, Loops, LoopNames
  <1>5. running' \in [Node -> BOOLEAN]
    BY <1>1 DEF Idle, Alu, Wait, Comm, cpuVars, CpuTypes
  <1>6. \/ st' = st
        \/ st[id] = NoOp /\ \E ins \in Prog[id] : st' = [st EXCEPT ![id] = ins]
    BY DEF Idle, Alu, Wait, Comm, cpuVars
  <1>7. /\ st' = [n \in Node |-> st'[n]]
        /\ \A n \in Node : st'[n] \in (Prog[n] \cap Instr(n)) \cup {NoOp}
        /\ \A n \in Node : sent[n] => st'[n] = st[n]
    <2>1. CASE st' = st
      BY <1>1, <2>1 DEF CpuTypes
    <2>2. CASE st' # st
      <3>1. PICK ins \in Prog[id] : st' = [st EXCEPT ![id] = ins]
        BY <1>6, <2>2
      <3>2. ins \in Instr(id)
        BY ProgAssumption
      <3>3. ~sent[id]
        BY <1>1, <1>6, <2>2, SentOut
      <3> QED BY <1>1, <3>1, <3>2, <3>3 DEF CpuTypes
    <2> QED BY <2>1, <2>2
  <1>8. Sound(Queue') /\ Owned' /\ Carried' /\ NetTypes'
    BY <1>1, <1>2, <1>3, <1>7, QuietSound
  <1>9. AckSeen'
    BY <1>1, <1>3, <1>4, NoAckBetween
  <1>10. CpuTypes' /\ LoopTypes'
    BY <1>1, <1>2, <1>3, <1>4, <1>5, <1>7 DEF CpuTypes, LoopTypes
  <1> QED BY <1>8, <1>9, <1>10 DEF NetInv, Types

\* fwd and hop.
LEMMA MoveStep ==
    ASSUME NetInv, NEW id \in Node, fwd(id) \/ hop(id)
    PROVE  NetInv'
  <1>1. CoreInv /\ AckSeen /\ Types /\ CpuTypes /\ LoopTypes /\ NetTypes /\ Sound(Queue)
    BY InvParts DEF CoreInv, Types
  <1>2. UNCHANGED <<cpuVars, start, dead, over>>
    BY DEF fwd, hop
  <1>3. sent' = sent /\ st' = st
    BY <1>2 DEF cpuVars
  <1>4. CpuTypes'
    BY <1>1, <1>2 DEF CpuTypes, cpuVars
  <1>5. NetTypes' /\ Sound(Queue') /\ Alike(Queue, Queue')
    BY <1>1, FwdSound, HopSound
  <1>6. Owned' /\ Carried'
    BY <1>1, <1>3, <1>5, AlikeSound
  <1>7. CASE fwd(id)
    <2>1. At("fwd", id)
      BY <1>7 DEF fwd
    <2>2. \A n \in Node : n # id => mbox'[n] = mbox[n]
      BY <1>1, <1>7, FwdSound
    <2>3. AckSeen'
      BY <1>1, <2>1, <2>2, AckForwarded
    <2>4. LoopTypes'
      BY <1>1, <1>2, <2>1, Loops, LoopNames DEF LoopTypes
    <2> QED BY <1>4, <1>5, <1>6, <2>3, <2>4 DEF NetInv, Types
  <1>8. CASE hop(id)
    <2>1. At("hop", id) /\ mbox' = mbox
      BY <1>8 DEF hop
    <2>2. ph = "hop"
      BY <2>1 DEF At, In
    <2>3. AckSeen'
      BY <1>1, <2>1, <2>2, NoAckBetween
    <2>4. LoopTypes'
      BY <1>1, <1>2, <2>1, Loops, LoopNames DEF LoopTypes
    <2> QED BY <1>4, <1>5, <1>6, <2>3, <2>4 DEF NetInv, Types
  <1> QED BY <1>7, <1>8

\* A communication ends.
LEMMA EndsTyped ==
    ASSUME CpuTypes, NEW id \in Node, st' = st \/ st' = [st EXCEPT ![id] = NoOp]
    PROVE  /\ st' = [n \in Node |-> st'[n]]
           /\ \A n \in Node : st'[n] \in (Prog[n] \cap Instr(n)) \cup {NoOp}
           /\ \A n \in Node : n # id => st'[n] = st[n]
  BY DEF CpuTypes

\* The returns of operate that leave the network as it is.
LEMMA AgainStep ==
    ASSUME NetInv, NEW id \in Node,
           \/ NoOperation(id) \/ inputAgain(id) \/ outputAgain(id)
           \/ altNobufs(id) \/ altNone(id)
    PROVE  NetInv'
  <1>1. CoreInv /\ AckSeen /\ Types /\ CpuTypes /\ LoopTypes
    BY InvParts DEF CoreInv, Types
  <1>2. /\ At("operate", id)
        /\ UNCHANGED <<nrun, running, sent, data, inl, outl, mbox, dead, over>>
    BY DEF NoOperation, inputAgain, outputAgain, altNobufs, altNone, Operates,
           cpuVars, netVars
  <1>3. \A m \in Node : mbox[id][m] # NoMsg => mbox[id][m].ack # 1
    <2>1. CASE outputAgain(id) /\ sent[id]
      <3>1. mbox[id][st[id].corr] = NoMsg
        BY <2>1 DEF outputAgain
      <3> SUFFICES ASSUME NEW m \in Node, mbox[id][m] # NoMsg PROVE mbox[id][m].ack # 1
        OBVIOUS
      <3>2. Held(id, m)
        BY <1>1, BoxMsg
      <3> QED BY <3>1, <3>2 DEF Held
    <2>2. CASE outputAgain(id) /\ ~sent[id]
      BY <1>1, <2>2, NoAckFor
    <2>3. CASE ~outputAgain(id)
      <3>1. st[id].op # "OUT"
        BY <2>3 DEF NoOperation, inputAgain, altNobufs, altNone, Operates
      <3> QED BY <1>1, <3>1, NoAckFor
    <2> QED BY <2>1, <2>2, <2>3
  <1>4. AckSeen'
    BY <1>1, <1>2, <1>3, AckOperated
  <1>5. LoopTypes'
    BY <1>1, <1>2, Loops, LoopNames DEF LoopTypes
  <1>6. /\ st' = st \/ (st[id].op = "ALT" /\ st' = [st EXCEPT ![id] = NoOp])
        /\ k1' = k1 \/ k1' = [k1 EXCEPT ![id] = None]
    BY DEF NoOperation, inputAgain, outputAgain, altNobufs, altNone, Operates, cpuVars
  <1>7. start' \in [Node -> Node]
    <2>1. CASE altNobufs(id)
      <3>1. start' = [start EXCEPT ![id] = (Chosen(id) + 1) % Size]
        BY <2>1 DEF altNobufs
      <3>2. Chosen(id) \in Node
        BY <1>1, <2>1, ChosenReady DEF altNobufs, Operates
      <3> QED BY <1>1, <3>1, <3>2, NextStart DEF CpuTypes
    <2>2. CASE altNone(id)
      <3>1. start' = [start EXCEPT ![id] = (start[id] + 1) % Size]
        BY <2>2 DEF altNone
      <3>2. start[id] \in Node
        BY <1>1 DEF CpuTypes
      <3> QED BY <1>1, <3>1, <3>2, NextStart DEF CpuTypes
    <2>3. CASE ~altNobufs(id) /\ ~altNone(id)
      BY <1>1, <2>3 DEF NoOperation, inputAgain, outputAgain, netVars, CpuTypes
    <2> QED BY <2>1, <2>2, <2>3
  <1>8. \A n \in Node : sent[n] => st'[n] = st[n]
    <2> SUFFICES ASSUME NEW n \in Node, sent[n] PROVE st'[n] = st[n]
      OBVIOUS
    <2>1. st[n].op = "OUT"
      BY <1>1, SentOut
    <2> QED BY <1>1, <1>6, <2>1, EndsTyped
  <1>9. Sound(Queue') /\ Owned' /\ Carried' /\ NetTypes'
    BY <1>1, <1>2, <1>8, QuietSound
  <1>10. /\ st' = [n \in Node |-> st'[n]]
         /\ \A n \in Node : st'[n] \in (Prog[n] \cap Instr(n)) \cup {NoOp}
    BY <1>1, <1>6, EndsTyped
  <1>11. k1' \in [Node -> Node \cup {None}]
    BY <1>1, <1>6 DEF CpuTypes
  <1>12. CpuTypes'
    BY <1>1, <1>2, <1>7, <1>10, <1>11 DEF CpuTypes
  <1> QED BY <1>4, <1>5, <1>9, <1>12 DEF NetInv, Types

\* The returns of operate that stop sim, and sim stopped.
LEMMA StopStep ==
    ASSUME NetInv, UNCHANGED <<ph, i, cpuVars, netVars, over>>, dead' \in BOOLEAN
    PROVE  NetInv'
  <1>1. CoreInv /\ AckSeen /\ CpuTypes /\ LoopTypes
    BY InvParts DEF CoreInv, Types
  <1>2. Sound(Queue') /\ Owned' /\ Carried' /\ NetTypes'
    BY <1>1, QuietSound DEF cpuVars, netVars
  <1>3. CpuTypes' /\ LoopTypes' /\ AckSeen'
    BY <1>1 DEF CpuTypes, LoopTypes, AckSeen, cpuVars, netVars
  <1> QED BY <1>2, <1>3 DEF NetInv, Types

\* The returns of input and alt with a message.
LEMMA TakeStep ==
    ASSUME NetInv, NEW id \in Node, input(id) \/ altTake(id)
    PROVE  NetInv'
  <1>1. CoreInv /\ AckSeen /\ Types /\ CpuTypes /\ LoopTypes
    BY InvParts DEF CoreInv, Types
  <1>2. /\ At("operate", id) /\ UNCHANGED <<nrun, running, sent, inl, dead>>
        /\ st[id].op \in {"IN", "ALT"}
    BY DEF input, altTake, Operates
  <1>3. \E from \in Node : mbox[id][from] # NoMsg /\ Take(id, from)
    <2>1. CASE input(id)
      <3>1. st[id].corr \in Node
        BY <1>1, <2>1, Registers DEF input, Operates
      <3> QED BY <2>1, <3>1 DEF input
    <2>2. CASE altTake(id)
      <3>1. Chosen(id) \in Node /\ mbox[id][Chosen(id)] # NoMsg
        BY <1>1, <2>2, ChosenReady DEF altTake, Operates
      <3> QED BY <2>2, <3>1 DEF altTake
    <2> QED BY <2>1, <2>2
  <1>4. PICK from \in Node : mbox[id][from] # NoMsg /\ Take(id, from)
    BY <1>3
  <1>5. /\ NetTypes' /\ Sound(Queue') /\ Owned' /\ Carried'
        /\ data' \in [Node -> Data]
        /\ st' = [st EXCEPT ![id] = NoOp] /\ mbox' = [mbox EXCEPT ![id][from] = NoMsg]
    BY <1>1, <1>2, <1>4, TakeSound
  <1>6. \A n, m \in Node : mbox'[n][m] = mbox[n][m] \/ mbox'[n][m] = NoMsg
    BY <1>1, <1>5 DEF Types, NetTypes, BoxType
  <1>7. \A m \in Node : mbox[id][m] # NoMsg => mbox[id][m].ack # 1
    BY <1>1, <1>2, NoAckFor
  <1>8. AckSeen'
    <2>1. \A m \in Node : mbox'[id][m] # NoMsg => mbox'[id][m].ack # 1
      BY <1>6, <1>7
    <2> QED BY <1>1, <1>2, <1>6, <2>1, AckOperated
  <1>9. LoopTypes'
    BY <1>1, <1>2, Loops, LoopNames DEF LoopTypes
  <1>10. /\ start' \in [Node -> Node] /\ k1' \in [Node -> Node \cup {None}]
         /\ over' \in [Node -> [Node -> 0 .. Size]]
    <2>0. Size \in Nat
      BY GridAssumption DEF Size
    <2>1. CASE input(id)
      <3>1. /\ start' = start /\ k1' = k1
            /\ over' = [over EXCEPT ![id][st[id].corr] = 0]
        BY <2>1 DEF input
      <3> HIDE DEF Size
      <3>2. over[id] \in [Node -> 0 .. Size] /\ over \in [Node -> [Node -> 0 .. Size]]
        BY <1>1 DEF CpuTypes
      <3>3. [over[id] EXCEPT ![st[id].corr] = 0] \in [Node -> 0 .. Size]
        <4> DEFINE T == 0 .. Size
        <4>1. 0 \in T /\ over[id] \in [Node -> T]
          BY <2>0, <3>2
        <4> HIDE DEF T
        <4>2. [over[id] EXCEPT ![st[id].corr] = 0] \in [Node -> T]
          BY <4>1
        <4> QED BY <4>2 DEF T
      <3> QED BY <1>1, <3>1, <3>2, <3>3 DEF CpuTypes
    <2>2. CASE altTake(id)
      <3>1. Chosen(id) \in Node
        BY <1>1, <2>2, ChosenReady DEF altTake, Operates
      <3> DEFINE c == Chosen(id)
                 f == [m \in Node |-> IF m = c THEN 0
                                      ELSE IF m \in Ready(id) /\ over[id][m] < Size
                                      THEN over[id][m] + 1 ELSE over[id][m]]
      <3>2. /\ start' = [start EXCEPT ![id] = (c + 1) % Size]
            /\ k1' = [k1 EXCEPT ![id] = c] /\ over' = [over EXCEPT ![id] = f]
        BY <2>2 DEF altTake
      <3>3. f \in [Node -> 0 .. Size]
        <4>1. \A m \in Node : over[id][m] \in 0 .. Size
          BY <1>1 DEF CpuTypes
        <4> HIDE DEF Size, c
        <4> QED BY <2>0, <4>1
      <3> HIDE DEF f, c
      <3>4. (c + 1) % Size \in Node /\ c \in Node
        BY <3>1, NextStart DEF c
      <3> QED BY <1>1, <3>2, <3>3, <3>4 DEF CpuTypes
    <2> QED BY <2>1, <2>2
  <1>11. /\ st' = [n \in Node |-> st'[n]]
         /\ \A n \in Node : st'[n] \in (Prog[n] \cap Instr(n)) \cup {NoOp}
    BY <1>1, <1>5, EndsTyped
  <1>12. CpuTypes'
    BY <1>1, <1>2, <1>5, <1>10, <1>11 DEF CpuTypes
  <1> QED BY <1>5, <1>8, <1>9, <1>12 DEF NetInv, Types

\* The two halves of output.
LEMMA OutputStep ==
    ASSUME NetInv, NEW id \in Node, outputSend(id) \/ outputAcked(id)
    PROVE  NetInv'
  <1>1. CoreInv /\ AckSeen /\ Types /\ CpuTypes /\ LoopTypes
    BY InvParts DEF CoreInv, Types
  <1>2. /\ At("operate", id) /\ st[id].op = "OUT"
        /\ UNCHANGED <<nrun, running, data, k1, start, dead, over>>
    BY DEF outputSend, outputAcked, Operates
  <1>3. NetTypes' /\ Sound(Queue') /\ Owned' /\ Carried'
    BY <1>1, SendSound, AckedSound
  <1>4. LoopTypes'
    BY <1>1, <1>2, Loops, LoopNames DEF LoopTypes
  <1>5. st' = st \/ st' = [st EXCEPT ![id] = NoOp]
    BY DEF outputSend, outputAcked
  <1>6. /\ st' = [n \in Node |-> st'[n]]
        /\ \A n \in Node : st'[n] \in (Prog[n] \cap Instr(n)) \cup {NoOp}
    BY <1>1, <1>5, EndsTyped
  <1>7. sent' \in [Node -> BOOLEAN]
    BY <1>1 DEF outputSend, outputAcked, CpuTypes
  <1>8. CpuTypes'
    BY <1>1, <1>2, <1>6, <1>7 DEF CpuTypes
  <1>9. AckSeen'
    <2>1. CASE outputSend(id)
      <3>1. ~sent[id] /\ mbox' = mbox
        BY <2>1 DEF outputSend
      <3>2. \A m \in Node : mbox[id][m] # NoMsg => mbox[id][m].ack # 1
        BY <1>1, <3>1, NoAckFor
      <3> QED BY <1>1, <1>2, <3>1, <3>2, AckOperated
    <2>2. CASE outputAcked(id)
      <3> DEFINE c == st[id].corr
      <3>1. mbox' = [mbox EXCEPT ![id][c] = NoMsg] /\ c \in Node
        BY <1>1, <1>2, <2>2, Registers DEF outputAcked
      <3> HIDE DEF c
      <3>2. /\ mbox'[id][c] = NoMsg
            /\ \A n, m \in Node : ~(n = id /\ m = c) => mbox'[n][m] = mbox[n][m]
        BY <1>1, <3>1 DEF Types, NetTypes, BoxType
      <3>3. ASSUME NEW m \in Node, mbox'[id][m] # NoMsg PROVE mbox'[id][m].ack # 1
        <4>1. m # c /\ mbox'[id][m] = mbox[id][m] /\ mbox[id][m] # NoMsg
          BY <3>2, <3>3
        <4>2. Held(id, m)
          BY <1>1, <4>1, BoxMsg
        <4> QED BY <4>1, <4>2 DEF Held, c
      <3>4. \A n, m \in Node : mbox'[n][m] = mbox[n][m] \/ mbox'[n][m] = NoMsg
        BY <3>2
      <3> QED BY <1>1, <1>2, <3>3, <3>4, AckOperated
    <2> QED BY <2>1, <2>2
  <1> QED BY <1>3, <1>4, <1>8, <1>9 DEF NetInv, Types

\* The invariant of the network.
LEMMA InvStep ==
    ASSUME NetInv, [Next]_vars
    PROVE  NetInv'
  <1>1. CASE UNCHANGED vars
    <2>1. dead' \in BOOLEAN
      BY <1>1 DEF NetInv, Types, LoopTypes, vars
    <2> QED BY <1>1, <2>1, StopStep DEF vars
  <1>2. CASE Returned
    <2>1. UNCHANGED vars
      BY <1>2 DEF Returned
    <2> QED BY <1>1, <2>1
  <1>3. ASSUME NEW id \in Node,
               Idle(id) \/ Alu(id) \/ Wait(id) \/ Comm(id) \/ fwd(id) \/ operate(id) \/ hop(id)
        PROVE  NetInv'
    <2>1. CASE Idle(id) \/ Alu(id) \/ Wait(id) \/ Comm(id)
      BY <2>1, CpuStep
    <2>2. CASE fwd(id) \/ hop(id)
      BY <2>2, MoveStep
    <2>3. CASE \/ NoOperation(id) \/ inputAgain(id) \/ outputAgain(id)
               \/ altNobufs(id) \/ altNone(id)
      BY <2>3, AgainStep
    <2>4. CASE input(id) \/ altTake(id)
      BY <2>4, TakeStep
    <2>5. CASE outputSend(id) \/ outputAcked(id)
      BY <2>5, OutputStep
    <2>6. CASE outputDead(id) \/ altDead(id)
      <3>1. UNCHANGED <<ph, i, cpuVars, netVars, over>> /\ dead' \in BOOLEAN
        BY <2>6 DEF outputDead, altDead
      <3> QED BY <3>1, StopStep
    <2> QED BY <1>3, <2>1, <2>2, <2>3, <2>4, <2>5, <2>6 DEF operate
  <1> QED BY <1>1, <1>2, <1>3 DEF Next

\* It holds of the empty network.
LEMMA InvInit ==
    ASSUME Init
    PROVE  NetInv
  <1>0. Size \in Nat \ {0} /\ 0 \in Node /\ 0 \in 0 .. Size
    BY GridAssumption DEF Size, Node
  <1> HIDE DEF Size
  <1>1. LoopTypes
    BY <1>0, LoopNames DEF Init, LoopTypes
  <1>2. \A n \in Node : st[n] = NoOp
    BY DEF Init
  <1>3. CpuTypes
    <2>1. /\ running \in [Node -> BOOLEAN] /\ sent \in [Node -> BOOLEAN]
          /\ st = [n \in Node |-> st[n]]
          /\ data \in [Node -> Data] /\ k1 \in [Node -> Node \cup {None}]
          /\ start \in [Node -> Node]
      BY <1>0, BufAssumption DEF Init
    <2> DEFINE T == 0 .. Size
    <2>2. 0 \in T
      BY <1>0
    <2> HIDE DEF T
    <2>3. over \in [Node -> [Node -> T]]
      BY <2>2 DEF Init
    <2> QED BY <1>2, <2>1, <2>3 DEF CpuTypes, T
  <1>4. NetTypes
    <2>1. <<>> \in Seq(Msg)
      OBVIOUS
    <2> QED BY <2>1 DEF Init, NetTypes, LinkType, BoxType
  <1>5. \A a \in Place : Queue[a] = <<>>
    <2> SUFFICES ASSUME NEW a \in Place PROVE Queue[a] = <<>>
      OBVIOUS
    <2>1. Reads(Queue, inl, outl, mbox)
      BY QueueReads DEF Queue
    <2>2. CASE \E n \in Node, l \in Links : a = <<n, "in", l>> \/ a = <<n, "out", l>>
      <3>1. PICK n \in Node, l \in Links : a = <<n, "in", l>> \/ a = <<n, "out", l>>
        BY <2>2
      <3>2. inl[n][l] = <<>> /\ outl[n][l] = <<>>
        BY DEF Init
      <3> QED BY <2>1, <3>1, <3>2 DEF Reads
    <2>3. CASE \E n, m \in Node : a = <<n, "box", m>>
      <3>1. PICK n \in Node, m \in Node : a = <<n, "box", m>>
        BY <2>3
      <3>2. mbox[n][m] = NoMsg
        BY DEF Init
      <3> QED BY <2>1, <3>1, <3>2 DEF Reads
    <2> QED BY <2>2, <2>3, Places
  <1>6. \A a, j : ~Slot(Queue, a, j)
    <2> SUFFICES ASSUME NEW a, NEW j, Slot(Queue, a, j) PROVE FALSE
      OBVIOUS
    <2>1. Queue[a] = <<>> /\ j \in 1 .. Len(Queue[a])
      BY <1>5 DEF Slot
    <2> QED BY <2>1
  <1>7. QueueType(Queue)
    <2>1. Queue \in [Place -> Seq(Msg)]
      BY <1>4, QueueOfType DEF NetTypes, Queue
    <2>2. \A a \in Place : Len(Queue[a]) = 0 /\ Room(a) >= 0
      BY <1>5, BufAssumption DEF Room
    <2> QED BY <2>1, <2>2, BufAssumption DEF QueueType, Room
  <1>8. Sound(Queue) /\ Owned
    BY <1>6, <1>7 DEF Sound, Routed, Alone, Ordered, Owned
  <1>9. Carried /\ AckSeen
    BY DEF Init, Carried, AckSeen
  <1> QED BY <1>1, <1>3, <1>4, <1>8, <1>9 DEF NetInv, Types

\* The invariant of the network holds in every state of sim: every message or
\* acknowledgement in a link or mailbox is on its way, belongs to one pending output
\* and is in the order of sending, and every output that waits has one.
THEOREM Invariant == Spec => []NetInv
  <1>1. NetInv /\ [Next]_vars => NetInv'
    BY InvStep
  <1> QED BY <1>1, InvInit, PTL DEF Spec

-----------------------------------------------------------------------------
(* What follows. *)

\* input and alt do not look at the ack of a message: an acknowledgement in a
\* mailbox is one that the node's own output waits for, so there is none to take.
THEOREM AcksAreNotTaken == Spec => NoAckTaken
  <1> DEFINE A == \A n, m \in Node :
                    st[n].op \in {"IN", "ALT"} /\ mbox[n][m] # NoMsg /\ mbox'[n][m] = NoMsg
                        => mbox[n][m].ack = 0
  <1>1. ASSUME NetInv PROVE A
    <2> SUFFICES ASSUME NEW n \in Node, NEW m \in Node, st[n].op \in {"IN", "ALT"},
                        mbox[n][m] # NoMsg
                 PROVE  mbox[n][m].ack = 0
      OBVIOUS
    <2>1. Held(n, m)
      BY <1>1, InvParts, BoxMsg
    <2> QED BY <2>1 DEF Held
  <1>2. NetInv => [A]_vars
    BY <1>1
  <1>3. [][A]_vars <=> NoAckTaken
    BY DEF NoAckTaken
  <1> QED BY <1>2, <1>3, Invariant, PTL

\* A head of an input link that has arrived finds its mailbox free: a message there
\* would be of the same output, an acknowledgement taken in the cycle it came, or
\* the message would have overtaken the acknowledgement its sender sent before it.
LEMMA ArrivalsFindRoom ==
    ASSUME NetInv
    PROVE  MailboxFree
  <1> SUFFICES ASSUME ph = "fwd", NEW n \in Node, NEW l \in Links, n >= i,
                      inl[n][l] # <<>>, Head(inl[n][l]).to = n,
                      mbox[n][Head(inl[n][l]).from] # NoMsg
               PROVE  FALSE
    BY DEF MailboxFree
  <1> DEFINE m == Head(inl[n][l])
             f == m.from
             x == mbox[n][f]
             a == <<n, "in", l>>
             b == <<n, "box", f>>
  <1>1. CoreInv /\ AckSeen /\ Sound(Queue) /\ NetTypes
    BY InvParts DEF CoreInv, Types
  <1>2. /\ inl[n][l] \in Seq(Msg) /\ m \in Msg /\ Len(inl[n][l]) \in Nat \ {0}
        /\ m = inl[n][l][1]
    <2>1. inl[n][l] \in Seq(Msg)
      BY <1>1 DEF NetTypes, LinkType
    <2> QED BY <2>1, TailSlots
  <1>3. f \in Node /\ m.ack \in {0, 1} /\ m.to = n
    BY <1>2, MsgFields
  <1>4. a \in Place /\ Queue[a] = inl[n][l]
    <2>1. Reads(Queue, inl, outl, mbox)
      BY QueueReads DEF Queue
    <2> QED BY <2>1, Places DEF Reads
  <1>5. Slot(Queue, a, 1) /\ Queue[a][1] = m
    BY <1>2, <1>4 DEF Slot
  <1> HIDE DEF m, f
  <1>6. /\ x \in Msg /\ x.from = f /\ x.to = n
        /\ Slot(Queue, b, 1) /\ Queue[b][1] = x
    BY <1>1, <1>3, BoxMsg DEF f, m
  <1>7. x.ack \in {0, 1}
    BY <1>6, MsgFields
  <1>8. x.ack # 1
    <2>1. i \in Nat /\ n \in Nat
      BY DEF NetInv, Types, LoopTypes, Node
    <2>2. x.ack = 1 => (ph = "fwd" /\ n < i) \/ (ph = "operate" /\ n >= i)
      BY <1>1, <1>3 DEF AckSeen, f, m
    <2> QED BY <2>1, <2>2
  <1>9. a # b
    OBVIOUS
  <1>10. CASE m.ack = 0
    <2>1. Owner(m) = Owner(x)
      BY <1>6, <1>7, <1>8, <1>10 DEF Owner, f
    <2> QED BY <1>1, <1>5, <1>6, <1>9, <2>1 DEF Sound, Alone
  <1>11. CASE m.ack = 1
    <2>1. Crosses(m, x)
      BY <1>3, <1>6, <1>7, <1>8, <1>11 DEF Crosses, f
    <2>2. Ahead(a, 1, b, 1, m, x)
      BY <1>1, <1>5, <1>6, <2>1 DEF Sound, Ordered
    <2>3. Left(b, x) = 0
      BY DEF Left
    <2>4. Dist(n, n) = 0
      BY DistSelf
    <2>5. Left(a, m) = 1
      BY <1>3, <2>4 DEF Left
    <2> QED BY <1>9, <2>2, <2>3, <2>5 DEF Ahead
  <1> QED BY <1>3, <1>10, <1>11

\* fwd never finds the mailbox of an arriving message occupied.
THEOREM MailboxesSuffice == Spec => []MailboxFree
  BY Invariant, ArrivalsFindRoom, PTL

\* Slot j of place a in the terms of OnLinks and InBoxes.
Where(a, j) == IF a[2] = "box" THEN <<a[1], a[3]>> ELSE <<a[1], a[2], a[3], j>>

\* Every slot is one of these ...
LEMMA SlotWhere ==
    ASSUME NetInv, NEW a, NEW j, Slot(Queue, a, j)
    PROVE  /\ Where(a, j) \in OnLinks \cup InBoxes
           /\ MsgAt(Where(a, j)) = Queue[a][j] /\ Where(a, j)[1] = a[1]
  <1>1. a \in Place /\ j \in 1 .. Len(Queue[a]) /\ Len(Queue[a]) \in Nat /\ QueueType(Queue)
    BY SlotMsg DEF NetInv, Sound
  <1>2. Reads(Queue, inl, outl, mbox)
    BY QueueReads DEF Queue
  <1>3. Len(Queue[a]) <= Room(a) /\ LINK_BUFSZ \in Nat
    BY <1>1, BufAssumption DEF QueueType
  <1>4. CASE \E n \in Node, l \in Links : a = <<n, "in", l>>
    <2>1. PICK n \in Node, l \in Links : a = <<n, "in", l>>
      BY <1>4
    <2>2. Queue[a] = inl[n][l] /\ Room(a) = LINK_BUFSZ
      BY <1>2, <2>1 DEF Reads, Room
    <2>3. Where(a, j) = <<n, "in", l, j>> /\ j \in 1 .. LINK_BUFSZ /\ j <= Len(inl[n][l])
      BY <1>1, <1>3, <2>1, <2>2 DEF Where
    <2>4. Where(a, j) \in OnLinks
      BY <2>3 DEF OnLinks
    <2>5. MsgAt(Where(a, j)) = inl[n][l][j]
      BY <2>3 DEF MsgAt
    <2> QED BY <2>1, <2>2, <2>3, <2>4, <2>5
  <1>5. CASE \E n \in Node, l \in Links : a = <<n, "out", l>>
    <2>1. PICK n \in Node, l \in Links : a = <<n, "out", l>>
      BY <1>5
    <2>2. Queue[a] = outl[n][l] /\ Room(a) = LINK_BUFSZ
      BY <1>2, <2>1 DEF Reads, Room
    <2>3. Where(a, j) = <<n, "out", l, j>> /\ j \in 1 .. LINK_BUFSZ /\ j <= Len(outl[n][l])
      BY <1>1, <1>3, <2>1, <2>2 DEF Where
    <2>4. Where(a, j) \in OnLinks
      BY <2>3 DEF OnLinks
    <2>5. MsgAt(Where(a, j)) = outl[n][l][j]
      BY <2>3 DEF MsgAt
    <2> QED BY <2>1, <2>2, <2>3, <2>4, <2>5
  <1>6. CASE \E n, m \in Node : a = <<n, "box", m>>
    <2>1. PICK n \in Node, m \in Node : a = <<n, "box", m>>
      BY <1>6
    <2>2. Queue[a] = IF mbox[n][m] = NoMsg THEN <<>> ELSE <<mbox[n][m]>>
      BY <1>2, <2>1 DEF Reads
    <2>3. mbox[n][m] # NoMsg /\ Queue[a] = <<mbox[n][m]>> /\ j = 1
      <3>1. mbox[n][m] # NoMsg
        BY <1>1, <2>2
      <3>2. Queue[a] = <<mbox[n][m]>> /\ Len(Queue[a]) = 1
        BY <2>2, <3>1
      <3>3. j \in 1 .. 1
        BY <1>1, <3>2
      <3> QED BY <3>1, <3>2, <3>3
    <2>4. Where(a, j) = <<n, m>>
      BY <2>1 DEF Where
    <2>5. Where(a, j) \in InBoxes
      BY <2>3, <2>4 DEF InBoxes
    <2>6. MsgAt(Where(a, j)) = mbox[n][m]
      BY <2>4 DEF MsgAt
    <2> QED BY <2>1, <2>3, <2>4, <2>5, <2>6
  <1> QED BY <1>1, <1>4, <1>5, <1>6, Places

\* ... and every one of these is a slot.
LEMMA WhereSlot ==
    ASSUME NetInv, NEW pl \in OnLinks \cup InBoxes
    PROVE  \E a, j : Slot(Queue, a, j) /\ pl = Where(a, j)
  <1>1. Reads(Queue, inl, outl, mbox)
    BY QueueReads DEF Queue
  <1>2. \A n \in Node, l \in Links : Len(inl[n][l]) \in Nat /\ Len(outl[n][l]) \in Nat
    BY DEF NetInv, Types, NetTypes, LinkType
  <1>3. CASE pl \in OnLinks
    <2>1. PICK n \in Node, d \in {"in", "out"}, l \in Links, j \in 1 .. LINK_BUFSZ :
            pl = <<n, d, l, j>>
      BY <1>3 DEF OnLinks
    <2>2. j <= Len(IF d = "in" THEN inl[n][l] ELSE outl[n][l])
      BY <1>3, <2>1 DEF OnLinks
    <2> DEFINE a == <<n, d, l>>
    <2>3. a \in Place /\ Queue[a] = IF d = "in" THEN inl[n][l] ELSE outl[n][l]
      BY <1>1, Places, ZenonT(60) DEF Reads
    <2>4. j \in 1 .. Len(Queue[a])
      BY <1>2, <2>2, <2>3, BufAssumption
    <2>5. pl = Where(a, j)
      BY <2>1 DEF Where
    <2> QED BY <2>3, <2>4, <2>5 DEF Slot
  <1>4. CASE pl \in InBoxes
    <2>1. PICK n \in Node, m \in Node : pl = <<n, m>>
      BY <1>4 DEF InBoxes
    <2>2. mbox[n][m] # NoMsg
      BY <1>4, <2>1 DEF InBoxes
    <2> DEFINE a == <<n, "box", m>>
    <2>3. Slot(Queue, a, 1)
      BY <2>2, InvParts, BoxMsg
    <2>4. pl = Where(a, 1)
      BY <2>1 DEF Where
    <2> QED BY <2>3, <2>4
  <1> QED BY <1>3, <1>4

\* The tokens of s are the slots of its messages.
LEMMA TokenSlots ==
    ASSUME NetInv, NEW s \in Node
    PROVE  /\ \A a, j : Slot(Queue, a, j) /\ Owner(Queue[a][j]) = s
                          => Where(a, j) \in Tokens(s) /\ MsgAt(Where(a, j)) = Queue[a][j]
           /\ \A pl \in Tokens(s) : \E a, j : /\ Slot(Queue, a, j)
                                             /\ Owner(Queue[a][j]) = s
                                             /\ pl = Where(a, j)
                                             /\ MsgAt(pl) = Queue[a][j]
  <1>1. ASSUME NEW a, NEW j, Slot(Queue, a, j), Owner(Queue[a][j]) = s
        PROVE  Where(a, j) \in Tokens(s) /\ MsgAt(Where(a, j)) = Queue[a][j]
    <2>1. /\ Where(a, j) \in OnLinks \cup InBoxes
          /\ MsgAt(Where(a, j)) = Queue[a][j]
      BY <1>1, SlotWhere
    <2> QED BY <1>1, <2>1 DEF Tokens, Owner
  <1>2. ASSUME NEW pl \in Tokens(s)
        PROVE  \E a, j : /\ Slot(Queue, a, j) /\ Owner(Queue[a][j]) = s
                         /\ pl = Where(a, j) /\ MsgAt(pl) = Queue[a][j]
    <2>1. pl \in OnLinks \cup InBoxes
      BY DEF Tokens
    <2>2. PICK a, j : Slot(Queue, a, j) /\ pl = Where(a, j)
      BY <2>1, WhereSlot
    <2>3. MsgAt(pl) = Queue[a][j]
      BY <2>2, SlotWhere
    <2>4. Owner(MsgAt(pl)) = s
      BY DEF Tokens, Owner
    <2> QED BY <2>2, <2>3, <2>4
  <1> QED BY <1>1, <1>2

\* Every message has made the hops its way has.
LEMMA HopsCounted ==
    ASSUME NetInv
    PROVE  HopsExact
  <1> SUFFICES ASSUME NEW pl \in OnLinks \cup InBoxes
               PROVE  MsgAt(pl).hops = Dist(MsgAt(pl).from, pl[1])
                        + (IF MsgAt(pl).ack = 1 THEN Dist(MsgAt(pl).to, MsgAt(pl).from) ELSE 0)
    BY DEF HopsExact
  <1>1. PICK a, j : Slot(Queue, a, j) /\ pl = Where(a, j)
    BY WhereSlot
  <1>2. MsgAt(pl) = Queue[a][j] /\ pl[1] = a[1]
    BY <1>1, SlotWhere
  <1>3. Fits(a, Queue[a][j])
    BY <1>1 DEF NetInv, Sound, Routed
  <1> QED BY <1>2, <1>3 DEF Fits

\* A sender that waits has one message or acknowledgement in the network, others none.
LEMMA OneOrNone ==
    ASSUME NetInv
    PROVE  OneToken
  <1>0. CoreInv
    BY InvParts
  <1> SUFFICES ASSUME NEW s \in Node
               PROVE  /\ Cardinality(Tokens(s)) = IF sent[s] THEN 1 ELSE 0
                      /\ sent[s] => st[s].op = "OUT"
                      /\ \A pl \in Tokens(s) :
                           {MsgAt(pl).from, MsgAt(pl).to} = {s, st[s].corr}
    BY DEF OneToken
  <1>1. ASSUME NEW pl \in Tokens(s)
        PROVE  sent[s] /\ {MsgAt(pl).from, MsgAt(pl).to} = {s, st[s].corr}
    <2>1. PICK a, j : /\ Slot(Queue, a, j) /\ Owner(Queue[a][j]) = s
                      /\ pl = Where(a, j) /\ MsgAt(pl) = Queue[a][j]
      BY TokenSlots
    <2>2. /\ sent[Owner(Queue[a][j])]
          /\ st[Owner(Queue[a][j])].corr = Other(Queue[a][j])
      BY <1>0, <2>1, SlotOwned
    <2> QED BY <2>1, <2>2 DEF Owner, Other
  <1>2. sent[s] => st[s].op = "OUT"
    BY <1>0, SentOut
  <1>3. Cardinality(Tokens(s)) = IF sent[s] THEN 1 ELSE 0
    <2>1. CASE ~sent[s]
      <3>1. Tokens(s) = {}
        BY <1>1, <2>1
      <3> QED BY <2>1, <3>1, FS_EmptySet
    <2>2. CASE sent[s]
      <3>1. PICK a, j : Slot(Queue, a, j) /\ Owner(Queue[a][j]) = s
        BY <1>0, <2>2 DEF CoreInv, Carried
      <3>2. Where(a, j) \in Tokens(s)
        BY <3>1, TokenSlots
      <3>3. ASSUME NEW pl \in Tokens(s) PROVE pl = Where(a, j)
        <4>1. PICK b, k : Slot(Queue, b, k) /\ Owner(Queue[b][k]) = s /\ pl = Where(b, k)
          BY TokenSlots
        <4> QED BY <3>1, <4>1 DEF NetInv, Sound, Alone
      <3>4. Tokens(s) = {Where(a, j)}
        BY <3>2, <3>3
      <3> QED BY <2>2, <3>4, FS_Singleton
    <2> QED BY <2>1, <2>2
  <1> QED BY <1>1, <1>2, <1>3

\* Exactly-once delivery.
THEOREM ExactlyOnce == Spec => []OneToken
  BY Invariant, OneOrNone, PTL

\* No detours: the hops of every message and acknowledgement are the distances it
\* has come.
THEOREM NoDetour == Spec => []HopsExact
  BY Invariant, HopsCounted, PTL

-----------------------------------------------------------------------------
(* alt serves its clauses in turn. *)

\* Turn of alt, for any value s of mbox_start, and the clauses after m in turn.
TurnFrom(s, m) == (m - s) % Size
After(s, cl, m) == {q \in cl : TurnFrom(s, m) < TurnFrom(s, q)}

\* The message of m has been passed over o times, by messages of senders that are
\* now after it.
Fair(n, m, s, o) == SameClauses(n) => \A ins \in Prog[n] :
    ins.op = "ALT" /\ m \in ins.cl => o <= Cardinality(After(s, ins.cl, m))

\* Only a message that waits is passed over, and fairly so while its sender has not
\* lost its turn.
Passed == \A n, m \in Node : mbox[n][m] = NoMsg \/ mbox[n][m].ack = 1 => over[n][m] = 0
InTurn == \A n, m \in Node : lost[n][m] \/ Fair(n, m, start[n], over[n][m])
LostType == lost \in [Node -> [Node -> BOOLEAN]]
TurnInv == LostType /\ Passed /\ InTurn

\* Places on a circle of S, without %.
LEMMA Circle ==
    ASSUME NEW S \in Nat \ {0}, NEW a \in 0 .. S - 1, NEW b \in 0 .. S - 1
    PROVE  /\ (a - b) % S = IF b <= a THEN a - b ELSE a - b + S
           /\ (a + 1) % S = IF a + 1 = S THEN 0 ELSE a + 1
  OBVIOUS

\* When the turn moves from s past c, those after m stay after m, and c comes after m,
\* provided c came before m.
LEMMA TurnMoves ==
    ASSUME NEW S \in Nat \ {0}, NEW s \in 0 .. S - 1, NEW c \in 0 .. S - 1,
           NEW m \in 0 .. S - 1, (c - s) % S <= (m - s) % S, c # m
    PROVE  LET s2 == (c + 1) % S
           IN  /\ s2 \in 0 .. S - 1 /\ (m - s) % S \in Nat
               /\ ~((m - s) % S < (c - s) % S)
               /\ (m - s2) % S < (c - s2) % S
               /\ \A q \in 0 .. S - 1 :
                    (m - s) % S < (q - s) % S => (m - s2) % S < (q - s2) % S
  <1> DEFINE s2 == (c + 1) % S
  <1>1. s2 \in 0 .. S - 1 /\ s2 = IF c + 1 = S THEN 0 ELSE c + 1
    BY Circle
  <1>2. /\ (c - s) % S = IF s <= c THEN c - s ELSE c - s + S
        /\ (m - s) % S = IF s <= m THEN m - s ELSE m - s + S
    BY Circle
  <1> HIDE DEF s2
  <1>3. /\ (c - s2) % S = IF s2 <= c THEN c - s2 ELSE c - s2 + S
        /\ (m - s2) % S = IF s2 <= m THEN m - s2 ELSE m - s2 + S
    BY <1>1, Circle
  <1>4. ASSUME NEW q \in 0 .. S - 1, (m - s) % S < (q - s) % S
        PROVE  (m - s2) % S < (q - s2) % S
    <2>1. (q - s) % S = IF s <= q THEN q - s ELSE q - s + S
      BY Circle
    <2>2. (q - s2) % S = IF s2 <= q THEN q - s2 ELSE q - s2 + S
      BY <1>1, Circle
    <2> QED BY <1>1, <1>2, <1>3, <1>4, <2>1, <2>2
  <1> QED BY <1>1, <1>2, <1>3, <1>4 DEF s2

\* fwd puts messages into empty mailboxes only.
LEMMA BoxesKept ==
    ASSUME NetTypes, Sound(Queue), NEW id \in Node, fwd(id)
    PROVE  \A n, m \in Node : mbox[n][m] # NoMsg => mbox'[n][m] = mbox[n][m]
  <1> DEFINE nd0 == [inl |-> inl[id], outl |-> outl[id], mbox |-> mbox[id]]
             nd1 == FwdLink(id, nd0, LINK_NORTH)
             nd2 == FwdLink(id, nd1, LINK_EAST)
             nd3 == FwdLink(id, nd2, LINK_SOUTH)
             nd4 == FwdLink(id, nd3, LINK_WEST)
             Keeps(nd, ne) == /\ ne \in NodeType
                              /\ \A m \in Node : nd.mbox[m] # NoMsg => ne.mbox[m] = nd.mbox[m]
  <1>1. \A l \in {LINK_NORTH, LINK_EAST, LINK_SOUTH, LINK_WEST} : l \in Links
    BY DEF Links
  <1>2. nd0 \in NodeType /\ nd0.mbox = mbox[id]
    BY DEF NetTypes, NodeType
  <1>3. mbox' = [mbox EXCEPT ![id] = nd4.mbox]
    BY DEF fwd
  <1>4. ASSUME NEW nd \in NodeType, NEW l \in Links
        PROVE  Keeps(nd, FwdLink(id, nd, l))
    <2> DEFINE msg == Head(nd.inl[l])
               olink == guidance(id, msg.to)
    <2>1. nd.inl[l] # <<>> => msg \in Msg
      BY TailSlots DEF NodeType, LinkType
    <2>2. CASE FwdLink(id, nd, l) = nd
      BY <2>2
    <2>3. CASE /\ nd.inl[l] # <<>> /\ olink # LINK_MBOX /\ ~Full(nd.outl[olink])
               /\ FwdLink(id, nd, l) = ToLink(nd, l, olink)
      <3>1. olink \in Links
        BY <2>1, <2>3, MsgFields, Guidance
      <3>2. LinkParts(nd, ToLink(nd, l, olink), l, olink)
        BY <2>3, <3>1, ToLinkParts
      <3> QED BY <2>3, <3>2 DEF LinkParts
    <2>4. CASE /\ nd.inl[l] # <<>> /\ olink = LINK_MBOX /\ nd.mbox[msg.from] = NoMsg
               /\ FwdLink(id, nd, l) = ToMbox(nd, l)
      <3>1. MboxParts(nd, ToMbox(nd, l), l, msg.from)
        BY <2>4, ToMboxParts
      <3> QED BY <2>4, <3>1 DEF MboxParts
    <2> HIDE DEF Keeps
    <2> QED BY <2>2, <2>3, <2>4, FwdCases
  <1> HIDE DEF nd4, nd3, nd2, nd1, nd0
  <1>5. Keeps(nd0, nd1) /\ Keeps(nd1, nd2) /\ Keeps(nd2, nd3) /\ Keeps(nd3, nd4)
    <2>1. Keeps(nd0, nd1)
      BY <1>1, <1>2, <1>4 DEF nd1
    <2>2. Keeps(nd1, nd2)
      BY <1>1, <1>4, <2>1 DEF nd2
    <2>3. Keeps(nd2, nd3)
      BY <1>1, <1>4, <2>2 DEF nd3
    <2>4. Keeps(nd3, nd4)
      BY <1>1, <1>4, <2>3 DEF nd4
    <2> QED BY <2>1, <2>2, <2>3, <2>4
  <1>6. \A m \in Node : mbox[id][m] # NoMsg => nd4.mbox[m] = mbox[id][m]
    BY <1>2, <1>5
  <1> QED BY <1>3, <1>6 DEF NetTypes

\* The clauses of alts are finite sets of nodes.
LEMMA ClausesFinite ==
    ASSUME NEW n \in Node, NEW ins \in Prog[n], ins.op = "ALT"
    PROVE  ins.cl \subseteq Node /\ IsFiniteSet(ins.cl)
  <1>1. ins.cl \subseteq Node
    <2>1. ins \in Instr(n)
      BY ProgAssumption
    <2> QED BY <2>1 DEF Instr
  <1>2. IsFiniteSet(Node)
    BY FS_Interval, GridAssumption DEF Node, Size
  <1> QED BY <1>1, <1>2, FS_Subset

\* So are those after m, and there is one clause more than these.
LEMMA AfterFinite ==
    ASSUME NEW s \in Node, NEW cl \in SUBSET Node, IsFiniteSet(cl), NEW m \in cl
    PROVE  /\ IsFiniteSet(After(s, cl, m)) /\ Cardinality(After(s, cl, m)) \in Nat
           /\ Cardinality(After(s, cl, m)) <= Cardinality(cl) - 1
  <1>1. TurnFrom(s, m) \in Int
    <2>1. Size \in Nat \ {0}
      BY GridAssumption DEF Size, Node
    <2> HIDE DEF Size
    <2> QED BY <2>1 DEF TurnFrom, Node
  <1>2. After(s, cl, m) \subseteq cl \ {m}
    BY <1>1 DEF After
  <1>3. IsFiniteSet(cl \ {m}) /\ Cardinality(cl \ {m}) = Cardinality(cl) - 1
    BY FS_RemoveElement
  <1> QED BY <1>2, <1>3, FS_Subset, FS_CardinalityType

\* The turn moves past c, which came before m: one more clause is after m.
LEMMA AfterGrows ==
    ASSUME NEW s \in Node, NEW cl \in SUBSET Node, IsFiniteSet(cl), NEW c \in cl, NEW m \in cl,
           TurnFrom(s, c) <= TurnFrom(s, m), c # m
    PROVE  Cardinality(After(s, cl, m)) + 1 <= Cardinality(After((c + 1) % Size, cl, m))
  <1> DEFINE s2 == (c + 1) % Size
             A == After(s, cl, m)
             A2 == After(s2, cl, m)
  <1>1. Size \in Nat \ {0} /\ Node = 0 .. Size - 1
    BY GridAssumption DEF Size, Node
  <1> HIDE DEF Size
  <1>2. /\ ~(TurnFrom(s, m) < TurnFrom(s, c))
        /\ TurnFrom(s2, m) < TurnFrom(s2, c)
        /\ \A q \in Node : TurnFrom(s, m) < TurnFrom(s, q) => TurnFrom(s2, m) < TurnFrom(s2, q)
    BY <1>1, TurnMoves DEF TurnFrom
  <1> HIDE DEF s2
  <1>3. A \cup {c} \subseteq A2 /\ c \notin A /\ A2 \subseteq cl /\ A \subseteq cl
    BY <1>2 DEF After
  <1> HIDE DEF A, A2
  <1>4. IsFiniteSet(A) /\ IsFiniteSet(A2)
    BY <1>3, FS_Subset
  <1>5. Cardinality(A \cup {c}) = Cardinality(A) + 1
    BY <1>3, <1>4, FS_AddElement
  <1>6. Cardinality(A \cup {c}) <= Cardinality(A2)
    BY <1>3, <1>4, FS_Subset
  <1> QED BY <1>5, <1>6 DEF A, A2, s2

\* A message that has not been passed over has been treated fairly.
LEMMA FairAtZero ==
    ASSUME NEW n \in Node, NEW m \in Node, NEW s \in Node
    PROVE  Fair(n, m, s, 0)
  <1> SUFFICES ASSUME NEW ins \in Prog[n], ins.op = "ALT", m \in ins.cl
               PROVE  0 <= Cardinality(After(s, ins.cl, m))
    BY DEF Fair
  <1>1. ins.cl \subseteq Node /\ IsFiniteSet(ins.cl)
    BY ClausesFinite
  <1> QED BY <1>1, AfterFinite

\* So has one that an alt with instruction alt passes over for an earlier one.
LEMMA FairMoves ==
    ASSUME NEW n \in Node, NEW s \in Node, NEW o \in Nat, NEW alt \in Prog[n], alt.op = "ALT",
           NEW c \in alt.cl, NEW m \in alt.cl, c # m, TurnFrom(s, c) <= TurnFrom(s, m),
           Fair(n, m, s, o)
    PROVE  Fair(n, m, (c + 1) % Size, o) /\ Fair(n, m, (c + 1) % Size, o + 1)
  <1> DEFINE s2 == (c + 1) % Size
  <1> SUFFICES ASSUME SameClauses(n), NEW ins \in Prog[n], ins.op = "ALT", m \in ins.cl
               PROVE  o + 1 <= Cardinality(After(s2, ins.cl, m)) /\ o <= Cardinality(After(s2, ins.cl, m))
    BY DEF Fair
  <1>1. alt.cl = ins.cl
    BY DEF SameClauses
  <1>2. ins.cl \in SUBSET Node /\ IsFiniteSet(ins.cl)
    BY ClausesFinite
  <1>3. s2 \in Node
    BY <1>1, <1>2, NextStart
  <1> HIDE DEF s2
  <1>4. o <= Cardinality(After(s, ins.cl, m))
    BY DEF Fair
  <1>5. Cardinality(After(s, ins.cl, m)) \in Nat /\ Cardinality(After(s2, ins.cl, m)) \in Nat
    BY <1>2, <1>3, AfterFinite
  <1>6. Cardinality(After(s, ins.cl, m)) + 1 <= Cardinality(After(s2, ins.cl, m))
    BY <1>1, <1>2, AfterGrows DEF s2
  <1> QED BY <1>4, <1>5, <1>6

\* Every step keeps the type of lost.
LEMMA LostTyped ==
    ASSUME LostType, [Next]_vars
    PROVE  LostType'
  <1>1. CASE lost' = lost
    BY <1>1 DEF LostType
  <1>2. CASE \E n, m, b : b \in BOOLEAN /\ lost' = [lost EXCEPT ![n][m] = b]
    <2>1. PICK n, m, b : b \in BOOLEAN /\ lost' = [lost EXCEPT ![n][m] = b]
      BY <1>2
    <2>2. ASSUME NEW f \in [Node -> BOOLEAN] PROVE [f EXCEPT ![m] = b] \in [Node -> BOOLEAN]
      BY <2>1
    <2> QED BY <2>1, <2>2 DEF LostType
  <1>3. CASE \E id \in Node : input(id) \/ altTake(id)
    <2>1. \E n, m : lost' = [lost EXCEPT ![n][m] = FALSE]
      BY <1>3 DEF input, altTake
    <2> QED BY <1>2, <2>1
  <1>4. CASE \E id \in Node : altNobufs(id)
    <2>1. \E n, m : lost' = [lost EXCEPT ![n][m] = TRUE]
      BY <1>4 DEF altNobufs
    <2> QED BY <1>2, <2>1
  <1>5. CASE \E id \in Node : \/ Idle(id) \/ Alu(id) \/ Wait(id) \/ Comm(id) \/ fwd(id) \/ hop(id)
    BY <1>1, <1>5 DEF Idle, Alu, Wait, Comm, fwd, hop
  <1>6. CASE \E id \in Node : \/ NoOperation(id) \/ inputAgain(id) \/ outputSend(id)
                              \/ outputAcked(id) \/ outputAgain(id) \/ outputDead(id)
                              \/ altNone(id) \/ altDead(id)
    BY <1>1, <1>6 DEF NoOperation, inputAgain, outputSend, outputAcked, outputAgain,
                      outputDead, altNone, altDead
  <1>7. CASE Returned \/ UNCHANGED vars
    BY <1>1, <1>7 DEF Returned, vars
  <1> QED BY <1>3, <1>4, <1>5, <1>6, <1>7 DEF Next, operate

\* A message that is taken has been passed over no more.
LEMMA PassedStep ==
    ASSUME NetInv, Passed, [Next]_vars
    PROVE  Passed'
  <1>1. CoreInv /\ Types /\ CpuTypes /\ NetTypes /\ Sound(Queue)
    BY InvParts DEF CoreInv, Types
  <1>2. CASE mbox' = mbox /\ over' = over
    BY <1>2 DEF Passed
  <1>3. ASSUME NEW id \in Node, fwd(id) PROVE Passed'
    <2>1. over' = over /\ \A n, m \in Node : mbox[n][m] # NoMsg => mbox'[n][m] = mbox[n][m]
      BY <1>1, <1>3, BoxesKept DEF fwd
    <2> QED BY <2>1 DEF Passed
  <1>4. ASSUME NEW id \in Node, input(id) PROVE Passed'
    <2> DEFINE c == st[id].corr
    <2>1. c \in Node
      BY <1>1, <1>4, Registers DEF input, Operates
    <2>2. mbox' = [mbox EXCEPT ![id][c] = NoMsg] /\ over' = [over EXCEPT ![id][c] = 0]
      BY <1>4 DEF input, Take
    <2> HIDE DEF c
    <2>3. \A n, m \in Node : IF n = id /\ m = c THEN over'[n][m] = 0
                             ELSE over'[n][m] = over[n][m] /\ mbox'[n][m] = mbox[n][m]
      BY <1>1, <2>1, <2>2 DEF CpuTypes, NetTypes, BoxType
    <2> QED BY <2>3 DEF Passed
  <1>5. ASSUME NEW id \in Node, altTake(id) PROVE Passed'
    <2> DEFINE c == Chosen(id)
    <2>1. c \in Node /\ st[id].op = "ALT"
      BY <1>1, <1>5, ChosenReady DEF altTake, Operates
    <2>2. /\ mbox' = [mbox EXCEPT ![id][c] = NoMsg]
          /\ over' = [over EXCEPT ![id] =
               [m \in Node |-> IF m = c THEN 0 ELSE IF m \in Ready(id) /\ over[id][m] < Size
                               THEN over[id][m] + 1 ELSE over[id][m]]]
      BY <1>5 DEF altTake, Take
    <2> HIDE DEF c
    <2>3. \A n, m \in Node :
            CASE n = id /\ m = c -> over'[n][m] = 0
              [] n = id /\ m # c /\ m \in Ready(id) -> mbox'[n][m] = mbox[n][m]
              [] OTHER -> over'[n][m] = over[n][m] /\ mbox'[n][m] = mbox[n][m]
      <3> HIDE DEF Size
      <3> QED BY <1>1, <2>1, <2>2 DEF CpuTypes, NetTypes, BoxType
    <2>4. \A m \in Ready(id) : mbox[id][m] # NoMsg /\ m \in Node
      BY <1>1, <2>1, Registers DEF Ready
    <2>5. \A m \in Ready(id) : mbox[id][m].ack # 1
      BY <1>1, <2>1, <2>4, NoAckFor
    <2> QED BY <2>3, <2>4, <2>5 DEF Passed
  <1>6. ASSUME NEW id \in Node, outputAcked(id) PROVE Passed'
    <2> DEFINE c == st[id].corr
    <2>1. c \in Node
      BY <1>1, <1>6, Registers DEF outputAcked, Operates
    <2>2. mbox' = [mbox EXCEPT ![id][c] = NoMsg] /\ over' = over /\ mbox[id][c].ack = 1
      BY <1>6 DEF outputAcked
    <2> HIDE DEF c
    <2>3. \A n, m \in Node : (n = id /\ m = c) \/ mbox'[n][m] = mbox[n][m]
      BY <1>1, <2>1, <2>2 DEF NetTypes, BoxType
    <2> QED BY <2>1, <2>2, <2>3 DEF Passed
  <1>7. CASE \E id \in Node : \/ Idle(id) \/ Alu(id) \/ Wait(id) \/ Comm(id) \/ hop(id)
    BY <1>2, <1>7 DEF Idle, Alu, Wait, Comm, hop, netVars
  <1>8. CASE \E id \in Node : \/ NoOperation(id) \/ inputAgain(id) \/ outputSend(id)
                              \/ outputAgain(id) \/ outputDead(id) \/ altNobufs(id)
                              \/ altNone(id) \/ altDead(id)
    BY <1>2, <1>8 DEF NoOperation, inputAgain, outputSend, outputAgain, outputDead,
                      altNobufs, altNone, altDead, netVars
  <1>9. CASE Returned \/ UNCHANGED vars
    BY <1>2, <1>9 DEF Returned, vars, netVars
  <1> QED BY <1>3, <1>4, <1>5, <1>6, <1>7, <1>8, <1>9 DEF Next, operate

\* The turns move on fairly.
LEMMA InTurnStep ==
    ASSUME NetInv, TurnInv, [Next]_vars
    PROVE  InTurn'
  <1>1. /\ Types /\ CpuTypes /\ LostType /\ Passed /\ InTurn
        /\ start \in [Node -> Node] /\ over \in [Node -> [Node -> 0 .. Size]]
    BY DEF NetInv, TurnInv, Types, CpuTypes
  <1>2. \A n, m \in Node : over[n][m] \in Nat
    <2>1. Size \in Nat
      BY GridAssumption DEF Size
    <2> HIDE DEF Size
    <2> QED BY <1>1, <2>1
  <1>3. CASE start' = start /\ over' = over /\ lost' = lost
    BY <1>1, <1>3 DEF InTurn, Fair, SameClauses
  <1>4. ASSUME NEW id \in Node, input(id) PROVE InTurn'
    <2> DEFINE c == st[id].corr
    <2>1. c \in Node
      BY <1>1, <1>4, Registers DEF input, Operates
    <2>2. /\ start' = start /\ over' = [over EXCEPT ![id][c] = 0]
          /\ lost' = [lost EXCEPT ![id][c] = FALSE]
      BY <1>4 DEF input
    <2> HIDE DEF c
    <2> SUFFICES ASSUME NEW n \in Node, NEW m \in Node
                 PROVE  lost'[n][m] \/ Fair(n, m, start'[n], over'[n][m])
      BY DEF InTurn, Fair, SameClauses
    <2>3. CASE n = id /\ m = c
      BY <1>1, <2>2, <2>3, FairAtZero
    <2>4. CASE ~(n = id /\ m = c)
      BY <1>1, <2>1, <2>2, <2>4 DEF InTurn, LostType
    <2> QED BY <2>3, <2>4
  <1>5. ASSUME NEW id \in Node, altTake(id) \/ altNobufs(id) PROVE InTurn'
    <2>1. /\ st[id].op = "ALT" /\ Ready(id) # {}
          /\ start' = [start EXCEPT ![id] = (Chosen(id) + 1) % Size]
      BY <1>5 DEF altTake, altNobufs, Operates
    <2>2. PICK c \in Node : c = Chosen(id)
      BY <1>1, <2>1, ChosenReady
    <2>3. PICK alt \in Prog[id] : alt = st[id]
      BY <1>1, <2>1, Registers DEF NoOp
    <2>4. PICK s \in Node : s = start[id]
      BY <1>1
    <2>5. /\ c \in Ready(id) /\ \A q \in Ready(id) : TurnFrom(s, c) <= TurnFrom(s, q)
      BY <1>1, <2>1, <2>2, <2>4, ChosenReady DEF Turn, TurnFrom
    <2>6. PICK s2 \in Node : s2 = (c + 1) % Size
      BY NextStart
    <2>7. start'[id] = s2 /\ \A n \in Node : n # id => start'[n] = start[n]
      BY <1>1, <2>1, <2>2, <2>6
    <2>8. \A n, m \in Node : n # id => over'[n][m] = over[n][m] /\ lost'[n][m] = lost[n][m]
      BY <1>1, <1>5 DEF altTake, altNobufs, LostType
    <2>9. \A m \in Node : m # c => lost'[id][m] = lost[id][m]
      BY <1>1, <1>5, <2>2 DEF altTake, altNobufs, LostType
    <2>10. lost'[id][c] \/ over'[id][c] = 0
      BY <1>1, <1>5, <2>2 DEF altTake, altNobufs, LostType
    <2>11. \A m \in Node : m # c =>
             over'[id][m] = over[id][m] \/ (m \in Ready(id) /\ over'[id][m] = over[id][m] + 1)
      BY <1>1, <1>5, <2>2 DEF altTake, altNobufs
    <2> SUFFICES ASSUME NEW n \in Node, NEW m \in Node
                 PROVE  lost'[n][m] \/ Fair(n, m, start'[n], over'[n][m])
      BY DEF InTurn, Fair, SameClauses
    <2>12. CASE n # id
      BY <1>1, <2>7, <2>8, <2>12 DEF InTurn
    <2>13. CASE n = id /\ m = c
      BY <2>7, <2>10, <2>13, FairAtZero
    <2>14. CASE n = id /\ m # c /\ m \in Ready(id)
      <3>1. PICK o \in Nat : o = over[id][m]
        BY <1>2
      <3>2. c \in alt.cl /\ m \in alt.cl /\ alt.op = "ALT"
        BY <2>1, <2>3, <2>5, <2>14 DEF Ready
      <3>3. lost[id][m] \/ Fair(id, m, s, o)
        BY <1>1, <2>4, <3>1 DEF InTurn
      <3>4. Fair(id, m, s, o) => Fair(id, m, s2, o) /\ Fair(id, m, s2, o + 1)
        BY <2>5, <2>6, <2>14, <3>2, FairMoves
      <3> QED BY <2>7, <2>9, <2>11, <2>14, <3>1, <3>3, <3>4
    <2>15. CASE n = id /\ m # c /\ m \notin Ready(id)
      <3>1. over'[id][m] = over[id][m]
        BY <2>11, <2>15
      <3>2. CASE m \in alt.cl
        <4>1. over[id][m] = 0
          BY <1>1, <2>3, <2>15, <3>2 DEF Ready, Passed
        <4> QED BY <2>7, <2>15, <3>1, <4>1, FairAtZero
      <3>3. CASE m \notin alt.cl
        <4>1. ASSUME SameClauses(id), NEW ins \in Prog[id], ins.op = "ALT" PROVE m \notin ins.cl
          BY <2>1, <2>3, <3>3, <4>1 DEF SameClauses
        <4> QED BY <2>15, <4>1 DEF Fair
      <3> QED BY <3>2, <3>3
    <2> QED BY <2>12, <2>13, <2>14, <2>15
  <1>6. ASSUME NEW id \in Node, altNone(id) PROVE InTurn'
    <2>1. /\ st[id].op = "ALT" /\ Ready(id) = {} /\ over' = over /\ lost' = lost
          /\ start' = [start EXCEPT ![id] = (start[id] + 1) % Size]
      BY <1>6 DEF altNone, Operates
    <2>2. PICK alt \in Prog[id] : alt = st[id]
      BY <1>1, <2>1, Registers DEF NoOp
    <2>3. PICK s2 \in Node : s2 = (start[id] + 1) % Size
      BY <1>1, NextStart
    <2>4. start'[id] = s2 /\ \A n \in Node : n # id => start'[n] = start[n]
      BY <1>1, <2>1, <2>3
    <2> SUFFICES ASSUME NEW n \in Node, NEW m \in Node
                 PROVE  lost'[n][m] \/ Fair(n, m, start'[n], over'[n][m])
      BY DEF InTurn, Fair, SameClauses
    <2>5. CASE n # id
      BY <1>1, <2>1, <2>4, <2>5 DEF InTurn
    <2>6. CASE n = id /\ m \in alt.cl
      <3>1. over[id][m] = 0
        BY <1>1, <2>1, <2>2, <2>6 DEF Ready, Passed
      <3> QED BY <2>1, <2>4, <2>6, <3>1, FairAtZero
    <2>7. CASE n = id /\ m \notin alt.cl
      <3>1. ASSUME SameClauses(id), NEW ins \in Prog[id], ins.op = "ALT" PROVE m \notin ins.cl
        BY <2>1, <2>2, <2>7, <3>1 DEF SameClauses
      <3> QED BY <2>7, <3>1 DEF Fair
    <2> QED BY <2>5, <2>6, <2>7
  <1>7. CASE \E id \in Node : \/ Idle(id) \/ Alu(id) \/ Wait(id) \/ Comm(id) \/ fwd(id) \/ hop(id)
    BY <1>3, <1>7 DEF Idle, Alu, Wait, Comm, fwd, hop, netVars
  <1>8. CASE \E id \in Node : \/ NoOperation(id) \/ inputAgain(id) \/ outputSend(id)
                              \/ outputAcked(id) \/ outputAgain(id) \/ outputDead(id)
                              \/ altDead(id)
    BY <1>3, <1>8 DEF NoOperation, inputAgain, outputSend, outputAcked, outputAgain,
                      outputDead, altDead, netVars
  <1>9. CASE Returned \/ UNCHANGED vars
    BY <1>3, <1>9 DEF Returned, vars, netVars
  <1> QED BY <1>4, <1>5, <1>6, <1>7, <1>8, <1>9 DEF Next, operate

\* At the start nobody has been passed over.
LEMMA TurnInit ==
    ASSUME Init
    PROVE  TurnInv
  <1>1. 0 \in Node
    BY GridAssumption DEF Node, Size
  <1>2. /\ start = [n \in Node |-> 0] /\ over = [n \in Node |-> [m \in Node |-> 0]]
        /\ lost = [n \in Node |-> [m \in Node |-> FALSE]]
    BY DEF Init
  <1>3. InTurn
    BY <1>1, <1>2, FairAtZero DEF InTurn
  <1> QED BY <1>2, <1>3 DEF TurnInv, LostType, Passed

\* The invariant of the turns.
LEMMA Turns == Spec => []TurnInv
  <1>1. Init => TurnInv
    BY TurnInit
  <1>2. NetInv /\ TurnInv /\ [Next]_vars => TurnInv'
    BY LostTyped, PassedStep, InTurnStep DEF TurnInv
  <1> QED BY <1>1, <1>2, Invariant, PTL DEF Spec

\* Round robin: before m's turn comes or is lost to a full link, the alts of a node
\* whose alts have the same clauses take at most as many messages as there are other
\* clauses, for every grid, every program and every history of mbox_start.
THEOREM ServedInTurn == Spec => []RoundRobin
  <1>1. NetInv /\ TurnInv => RoundRobin
    <2> SUFFICES ASSUME NetInv, TurnInv, NEW n \in Node, NEW m \in Node, SameClauses(n),
                        ~lost[n][m], NEW ins \in Prog[n], ins.op = "ALT", m \in ins.cl
                 PROVE  over[n][m] <= Cardinality(ins.cl) - 1
      BY DEF RoundRobin, Served
    <2>1. start[n] \in Node /\ over[n][m] \in Int
      BY GridAssumption DEF NetInv, Types, CpuTypes, Size
    <2>2. ins.cl \in SUBSET Node /\ IsFiniteSet(ins.cl)
      BY ClausesFinite
    <2>3. over[n][m] <= Cardinality(After(start[n], ins.cl, m))
      BY DEF TurnInv, InTurn, Fair
    <2>4. /\ Cardinality(After(start[n], ins.cl, m)) \in Nat /\ Cardinality(ins.cl) \in Nat
          /\ Cardinality(After(start[n], ins.cl, m)) <= Cardinality(ins.cl) - 1
      BY <2>1, <2>2, AfterFinite, FS_CardinalityType
    <2> QED BY <2>1, <2>3, <2>4
  <1> QED BY <1>1, Invariant, Turns, PTL

\* nrun counts the processors that have not executed WAIT.
LEMMA CountStep ==
    ASSUME Types, Count, [Next]_vars
    PROVE  Count'
  <1> DEFINE U == {n \in Node : running[n]}
             U2 == {n \in Node : running'[n]}
  <1>1. CASE nrun' = nrun /\ running' = running
    BY <1>1 DEF Count
  <1>2. CASE \E id \in Node : Wait(id)
    <2>1. PICK id \in Node : Wait(id)
      BY <1>2
    <2>2. running[id] /\ running' = [running EXCEPT ![id] = FALSE] /\ nrun' = nrun - 1
      BY <2>1 DEF Wait
    <2>3. U2 = U \ {id} /\ id \in U
      BY <2>2 DEF Types, CpuTypes
    <2>4. IsFiniteSet(U)
      <3>1. IsFiniteSet(Node)
        BY FS_Interval, GridAssumption DEF Node, Size
      <3> QED BY <3>1, FS_Subset
    <2>5. Cardinality(U2) = Cardinality(U) - 1
      BY <2>3, <2>4, FS_RemoveElement
    <2> QED BY <2>2, <2>5 DEF Count
  <1>3. CASE /\ ~\E id \in Node : Wait(id)
             /\ \E id \in Node : Idle(id) \/ Alu(id) \/ Comm(id) \/ fwd(id) \/ hop(id)
    BY <1>1, <1>3 DEF Idle, Alu, Comm, fwd, hop, cpuVars
  <1>4. CASE \E id \in Node : operate(id)
    BY <1>1, <1>4 DEF operate, NoOperation, input, inputAgain, outputSend, outputAcked,
                      outputAgain, outputDead, altTake, altNobufs, altNone, altDead, cpuVars
  <1>5. CASE Returned \/ UNCHANGED vars
    BY <1>1, <1>5 DEF Returned, vars, cpuVars
  <1> QED BY <1>2, <1>3, <1>4, <1>5 DEF Next

\* The type invariant; in particular no link is overfull and nrun never wraps.
THEOREM TypeCorrect == Spec => []TypeOK
  <1>1. Init => Count
    <2> SUFFICES ASSUME Init PROVE Count
      OBVIOUS
    <2>1. {n \in Node : running[n]} = 0 .. Size - 1 /\ nrun = Size
      BY DEF Init, Node
    <2>2. Size \in Nat \ {0}
      BY GridAssumption DEF Size, Node
    <2> HIDE DEF Size
    <2>3. Cardinality(0 .. Size - 1) = Size
      BY <2>2, FS_Interval
    <2> QED BY <2>1, <2>3 DEF Count
  <1>2. NetInv /\ Count /\ [Next]_vars => Count'
    BY CountStep DEF NetInv
  <1>3. NetInv /\ Count /\ LostType => TypeOK
    <2> SUFFICES ASSUME NetInv, Count, LostType PROVE TypeOK
      OBVIOUS
    <2>1. LoopTypes /\ CpuTypes /\ NetTypes /\ QueueType(Queue)
      BY DEF NetInv, Types, Sound
    <2>2. nrun \in 0 .. Size
      <3>1. Size \in Nat
        BY GridAssumption DEF Size
      <3> DEFINE U == {n \in Node : running[n]}
      <3> HIDE DEF Size
      <3>2. IsFiniteSet(Node) /\ Cardinality(Node) = Size
        BY <3>1, FS_Interval DEF Node
      <3>3. Cardinality(U) \in Nat /\ Cardinality(U) <= Size
        BY <3>2, FS_Subset, FS_CardinalityType
      <3> QED BY <3>1, <3>3 DEF Count
    <2>3. ASSUME NEW n \in Node, NEW l \in Links, NEW link \in {inl[n][l], outl[n][l]}
          PROVE  /\ Len(link) <= LINK_BUFSZ
                 /\ \A k \in 1 .. Len(link) : link[k] \in Msg
      <3>1. Reads(Queue, inl, outl, mbox)
        BY QueueReads DEF Queue
      <3>2. \E a \in Place : Queue[a] = link /\ Room(a) = LINK_BUFSZ
        <4>1. /\ Queue[<<n, "in", l>>] = inl[n][l] /\ Queue[<<n, "out", l>>] = outl[n][l]
          BY <3>1 DEF Reads
        <4>2. <<n, "in", l>> \in Place /\ <<n, "out", l>> \in Place
          BY Places
        <4>3. Room(<<n, "in", l>>) = LINK_BUFSZ /\ Room(<<n, "out", l>>) = LINK_BUFSZ
          BY DEF Room
        <4> QED BY <4>1, <4>2, <4>3
      <3>3. link \in Seq(Msg)
        BY <2>1, <3>2 DEF QueueType
      <3> QED BY <2>1, <3>2, <3>3 DEF QueueType
    <2>4. \A n \in Node : st[n] \in Prog[n] \cup {NoOp}
      BY <2>1 DEF CpuTypes
    <2>5. \A n, m \in Node : mbox[n][m] \in Msg \cup {NoMsg}
      BY <2>1 DEF NetTypes, BoxType
    <2> QED BY <2>1, <2>2, <2>3, <2>4, <2>5 DEF TypeOK, LoopTypes, CpuTypes, LostType
  <1>4. TurnInv => LostType
    BY DEF TurnInv
  <1> QED BY <1>1, <1>2, <1>3, <1>4, Invariant, Turns, PTL DEF Spec

-----------------------------------------------------------------------------
(* The network implements the rendezvous of Csp. *)

\* q holds an acknowledgement for the output of s.
HasAck(q, s) == \E a, j : Slot(q, a, j) /\ Owner(q[a][j]) = s /\ q[a][j].ack = 1
AckedInQueue == \A s \in Node : Acked(s) <=> HasAck(Queue, s)

\* That is what Acked says.
LEMMA AckedSlot ==
    NetInv => AckedInQueue
  <1> SUFFICES ASSUME NetInv, NEW s \in Node PROVE Acked(s) <=> HasAck(Queue, s)
    BY DEF AckedInQueue
  <1>1. ASSUME Acked(s) PROVE HasAck(Queue, s)
    <2>1. PICK pl \in Tokens(s) : MsgAt(pl).ack = 1
      BY <1>1 DEF Acked
    <2>2. PICK a, j : /\ Slot(Queue, a, j) /\ Owner(Queue[a][j]) = s
                      /\ MsgAt(pl) = Queue[a][j]
      BY TokenSlots
    <2> QED BY <2>1, <2>2 DEF HasAck
  <1>2. ASSUME HasAck(Queue, s) PROVE Acked(s)
    <2>1. PICK a, j : Slot(Queue, a, j) /\ Owner(Queue[a][j]) = s /\ Queue[a][j].ack = 1
      BY <1>2 DEF HasAck
    <2>2. Where(a, j) \in Tokens(s) /\ MsgAt(Where(a, j)) = Queue[a][j]
      BY <2>1, TokenSlots
    <2> QED BY <2>1, <2>2 DEF Acked
  <1> QED BY <1>1, <1>2

\* The variable taken of Csp.
Taken == [s \in Node |-> Acked(s)]

\* It follows the acknowledgements in the queues.
LEMMA TakenAt ==
    ASSUME NetInv, NetInv', NEW s \in Node
    PROVE  (Taken[s] <=> HasAck(Queue, s)) /\ (Taken'[s] <=> HasAck(Queue', s))
  <1>1. Taken[s] <=> HasAck(Queue, s)
    BY AckedSlot DEF Taken, AckedInQueue
  <1>2. (NetInv => AckedInQueue)'
    BY AckedSlot, PTL
  <1>3. Acked(s)' <=> HasAck(Queue', s)
    BY <1>2 DEF AckedInQueue, HasAck, Slot, Owner
  <1> QED BY <1>1, <1>3 DEF Taken

\* How taken changes with the acknowledgements in the queues.
LEMMA TakenChanges ==
    ASSUME NetInv, NetInv', NEW f \in Node, NEW v \in BOOLEAN,
           HasAck(Queue', f) <=> v,
           \A s \in Node : s # f => (HasAck(Queue', s) <=> HasAck(Queue, s))
    PROVE  Taken' = [Taken EXCEPT ![f] = v]
  <1>1. \A s \in Node : Taken[s] \in BOOLEAN /\ Taken'[s] \in BOOLEAN
    BY DEF Taken, Acked
  <1>2. \A s \in Node : (Taken[s] <=> HasAck(Queue, s)) /\ (Taken'[s] <=> HasAck(Queue', s))
    BY TakenAt
  <1>3. \A s \in Node : Taken'[s] = IF s = f THEN v ELSE Taken[s]
    BY <1>1, <1>2
  <1>4. Taken = [s \in Node |-> Taken[s]] /\ Taken' = [s \in Node |-> Taken'[s]]
    BY DEF Taken
  <1> HIDE DEF Taken
  <1> QED BY <1>3, <1>4

\* It stays.
LEMMA TakenStays ==
    ASSUME NetInv, NetInv', \A s \in Node : HasAck(Queue', s) <=> HasAck(Queue, s)
    PROVE  Taken' = Taken
  <1>1. \A s \in Node : Taken[s] \in BOOLEAN /\ Taken'[s] \in BOOLEAN
    BY DEF Taken, Acked
  <1>2. \A s \in Node : (Taken[s] <=> HasAck(Queue, s)) /\ (Taken'[s] <=> HasAck(Queue', s))
    BY TakenAt
  <1>3. \A s \in Node : Taken'[s] = Taken[s]
    BY <1>1, <1>2
  <1>4. Taken = [s \in Node |-> Taken[s]] /\ Taken' = [s \in Node |-> Taken'[s]]
    BY DEF Taken
  <1> HIDE DEF Taken
  <1> QED BY <1>3, <1>4

\* Messages that move acknowledge nothing.
LEMMA AlikeAck ==
    ASSUME NEW q, NEW q2, Alike(q, q2), NEW s
    PROVE  HasAck(q, s) <=> HasAck(q2, s)
  <1>1. ASSUME HasAck(q, s) PROVE HasAck(q2, s)
    <2>1. PICK a, j : Slot(q, a, j) /\ Owner(q[a][j]) = s /\ q[a][j].ack = 1
      BY <1>1 DEF HasAck
    <2>2. PICK b, k : Slot(q2, b, k) /\ Same(q[a][j], q2[b][k])
      BY <2>1 DEF Alike
    <2>3. Owner(q2[b][k]) = s /\ q2[b][k].ack = 1
      BY <2>1, <2>2 DEF Same, Owner
    <2> QED BY <2>2, <2>3 DEF HasAck
  <1>2. ASSUME HasAck(q2, s) PROVE HasAck(q, s)
    <2>1. PICK a, j : Slot(q2, a, j) /\ Owner(q2[a][j]) = s /\ q2[a][j].ack = 1
      BY <1>2 DEF HasAck
    <2>2. PICK b, k : Slot(q, b, k) /\ Same(q2[a][j], q[b][k])
      BY <2>1 DEF Alike
    <2>3. Owner(q[b][k]) = s /\ q[b][k].ack = 1
      BY <2>1, <2>2 DEF Same, Owner
    <2> QED BY <2>2, <2>3 DEF HasAck
  <1> QED BY <1>1, <1>2

\* A message more.
LEMMA GainAck ==
    ASSUME NEW q, NEW q2, NEW m, Gains(q, q2, m), NEW s
    PROVE  /\ s # Owner(m) => (HasAck(q2, s) <=> HasAck(q, s))
           /\ s = Owner(m) => ~HasAck(q, s) /\ (HasAck(q2, s) <=> m.ack = 1)
  <1>1. HasAck(q, s) => HasAck(q2, s) /\ s # Owner(m)
    BY DEF HasAck, Gains
  <1>2. ASSUME HasAck(q2, s) PROVE HasAck(q, s) \/ (s = Owner(m) /\ m.ack = 1)
    <2>1. PICK a, j : Slot(q2, a, j) /\ Owner(q2[a][j]) = s /\ q2[a][j].ack = 1
      BY <1>2 DEF HasAck
    <2>2. \/ Slot(q, a, j) /\ q2[a][j] = q[a][j]
          \/ q2[a][j] = m
      BY <2>1 DEF Gains
    <2>3. CASE Slot(q, a, j) /\ q2[a][j] = q[a][j]
      BY <2>1, <2>3 DEF HasAck
    <2>4. CASE q2[a][j] = m
      BY <2>1, <2>4
    <2> QED BY <2>2, <2>3, <2>4
  <1>3. ASSUME s = Owner(m), m.ack = 1 PROVE HasAck(q2, s)
    BY <1>3 DEF HasAck, Gains
  <1> QED BY <1>1, <1>2, <1>3

\* A message in a mailbox that is no acknowledgement: neither its sender's output is
\* acknowledged, nor that of the node if it goes to the sender.
LEMMA MsgBeforeAck ==
    ASSUME NetInv, NEW n \in Node, NEW m \in Node, mbox[n][m] # NoMsg,
           mbox[n][m].ack # 1
    PROVE  /\ ~HasAck(Queue, m)
           /\ st[n].op = "OUT" /\ st[n].corr = m => ~HasAck(Queue, n)
  <1> DEFINE x == mbox[n][m]
             b == <<n, "box", m>>
  <1>1. CoreInv /\ Sound(Queue)
    BY InvParts DEF CoreInv
  <1>2. /\ x \in Msg /\ x.from = m /\ x.to = n /\ Slot(Queue, b, 1) /\ Queue[b][1] = x
        /\ Held(n, m)
    BY <1>1, BoxMsg
  <1>3. x.ack = 0
    BY <1>2 DEF Held
  <1>4. Owner(x) = m
    BY <1>2, <1>3 DEF Owner
  <1>5. ~HasAck(Queue, m)
    <2> SUFFICES ASSUME NEW a, NEW j, Slot(Queue, a, j), Owner(Queue[a][j]) = m,
                        Queue[a][j].ack = 1
                 PROVE  FALSE
      BY DEF HasAck
    <2>1. a = b /\ j = 1
      BY <1>1, <1>2, <1>4 DEF Sound, Alone
    <2> QED BY <1>2, <1>3, <2>1
  <1>6. ASSUME st[n].op = "OUT", st[n].corr = m, HasAck(Queue, n) PROVE FALSE
    <2>1. PICK a, j : Slot(Queue, a, j) /\ Owner(Queue[a][j]) = n /\ Queue[a][j].ack = 1
      BY <1>6 DEF HasAck
    <2> DEFINE z == Queue[a][j]
    <2>2. st[Owner(z)].corr = Other(z) /\ a \in Place /\ z \in Msg
      BY <1>1, <2>1, SlotOwned
    <2>3. z.to = n /\ z.from = m
      BY <1>6, <2>1, <2>2 DEF Owner, Other
    <2>4. Crosses(z, x)
      BY <1>2, <1>3, <2>1, <2>3 DEF Crosses
    <2>5. Ahead(a, j, b, 1, z, x)
      BY <1>1, <1>2, <2>1, <2>4 DEF Sound, Ordered
    <2>6. Left(b, x) = 0
      BY DEF Left
    <2>7. Left(a, z) \in Nat
      <3>1. a[1] \in Node
        BY <2>2 DEF Place
      <3>2. Dist(a[1], z.to) \in Nat
        BY <2>3, <3>1, Coordinates
      <3> QED BY <3>2 DEF Left
    <2>8. j >= 1 /\ j \in Int
      BY <2>1 DEF Slot
    <2> HIDE DEF b, z, x
    <2> QED BY <2>5, <2>6, <2>7, <2>8 DEF Ahead
  <1> QED BY <1>5, <1>6

\* The steps that Csp does not see.
Unseen == UNCHANGED <<running, st, Taken, data, k1, dead>>

\* The loops over the processors.
LEMMA CpuRefines ==
    ASSUME NetInv, NetInv', NEW id \in Node, Idle(id) \/ Alu(id) \/ Wait(id) \/ Comm(id)
    PROVE  Unseen \/ R!Stop(id) \/ R!Start(id)
  <1>1. Queue' = Queue
    BY DEF Idle, Alu, Wait, Comm, netVars, Queue
  <1>2. Taken' = Taken
    BY <1>1, TakenStays
  <1>3. CASE Idle(id) \/ Alu(id)
    BY <1>2, <1>3 DEF Idle, Alu, cpuVars, Unseen
  <1>4. CASE Wait(id)
    <2>1. R!Stop(id)
      BY <1>2, <1>4 DEF Wait, R!Stop, Taken
    <2> QED BY <2>1
  <1>5. CASE Comm(id)
    <2>1. PICK ins \in Prog[id] : /\ ins.op \in {"IN", "OUT", "ALT"}
                                  /\ st' = [st EXCEPT ![id] = ins]
      BY <1>5 DEF Comm
    <2>2. R!Issue(id, ins)
      BY <1>2, <1>5, <2>1 DEF Comm, R!Issue, Taken
    <2> QED BY <2>1, <2>2 DEF R!Start
  <1> QED BY <1>3, <1>4, <1>5

\* The message passes when input or alt takes it, not when it is sent or arrives.
LEMMA TakeRefines ==
    ASSUME NetInv, NetInv', NEW id \in Node, input(id) \/ altTake(id)
    PROVE  \E from \in Node : R!Pass(from, id)
  <1>1. CoreInv /\ Types
    BY InvParts DEF CoreInv
  <1>2. /\ UNCHANGED <<running, sent, inl, dead>> /\ st[id].op \in {"IN", "ALT"}
    BY DEF input, altTake, Operates
  <1>3. \E from \in Node :
           /\ mbox[id][from] # NoMsg /\ Take(id, from)
           /\ \/ st[id].op = "IN" /\ st[id].corr = from /\ k1' = k1
              \/ st[id].op = "ALT" /\ from \in st[id].cl /\ k1' = [k1 EXCEPT ![id] = from]
    <2>1. CASE input(id)
      <3>1. st[id].corr \in Node
        BY <1>1, <2>1, Registers DEF input, Operates
      <3> QED BY <2>1, <3>1 DEF input, Operates
    <2>2. CASE altTake(id)
      <3> DEFINE c == Chosen(id)
      <3>1. c \in Node /\ mbox[id][c] # NoMsg /\ c \in Ready(id)
        BY <1>1, <2>2, ChosenReady DEF altTake, Operates
      <3>2. c \in st[id].cl
        BY <3>1 DEF Ready
      <3>3. Take(id, c) /\ k1' = [k1 EXCEPT ![id] = c] /\ st[id].op = "ALT"
        BY <2>2 DEF altTake, Operates
      <3> QED BY <3>1, <3>2, <3>3
    <2> QED BY <2>1, <2>2
  <1>4. PICK from \in Node :
           /\ mbox[id][from] # NoMsg /\ Take(id, from)
           /\ \/ st[id].op = "IN" /\ st[id].corr = from /\ k1' = k1
              \/ st[id].op = "ALT" /\ from \in st[id].cl /\ k1' = [k1 EXCEPT ![id] = from]
    BY <1>3
  <1> DEFINE x == mbox[id][from]
             y == Answer(x)
  <1>5. /\ data' = [data EXCEPT ![id] = st[from].data]
        /\ st' = [st EXCEPT ![id] = NoOp]
        /\ sent[from] /\ st[from].op = "OUT" /\ st[from].corr = id /\ from # id
        /\ \E q1 : Gains(q1, Queue, x) /\ Gains(q1, Queue', y)
    BY <1>1, <1>2, <1>4, TakeSound
  <1>6. x.from = from /\ x.to = id /\ x.ack = 0
    <2>0. CoreInv /\ mbox[id][from] # NoMsg
      BY <1>1, <1>4
    <2>1. x.from = from /\ x.to = id /\ Held(id, from)
      BY <2>0, BoxMsg, ZenonT(60)
    <2> QED BY <1>2, <2>1 DEF Held
  <1>7. Owner(x) = from /\ Owner(y) = from /\ y.ack = 1
    BY <1>6 DEF Owner, Answer
  <1> HIDE DEF x, y
  <1>8. PICK q1 : Gains(q1, Queue, x) /\ Gains(q1, Queue', y)
    BY <1>5
  <1>9. HasAck(Queue', from) <=> TRUE
    BY <1>7, <1>8, GainAck
  <1>10. ~HasAck(Queue, from)
    BY <1>6, <1>7, <1>8, GainAck
  <1>11. ASSUME NEW s \in Node, s # from
         PROVE  HasAck(Queue', s) <=> HasAck(Queue, s)
    <2>1. HasAck(Queue, s) <=> HasAck(q1, s)
      BY <1>7, <1>8, <1>11, GainAck
    <2>2. HasAck(Queue', s) <=> HasAck(q1, s)
      BY <1>7, <1>8, <1>11, GainAck
    <2> QED BY <2>1, <2>2
  <1>12. Taken' = [Taken EXCEPT ![from] = TRUE]
    BY <1>9, <1>11, TakenChanges
  <1>13. ~Taken[from]
    BY <1>10, TakenAt
  <1>14. R!Offers(from, id)
    BY <1>5, <1>13 DEF R!Offers, Taken
  <1>15. R!Accepts(id, from)
    BY <1>4 DEF R!Accepts
  <1>16. k1' = IF st[id].op = "ALT" THEN [k1 EXCEPT ![id] = from] ELSE k1
    BY <1>4
  <1>17. R!Pass(from, id)
    BY <1>2, <1>5, <1>12, <1>14, <1>15, <1>16 DEF R!Pass, Taken
  <1> QED BY <1>17

\* The other returns of operate.
LEMMA OperateRefines ==
    ASSUME NetInv, NetInv', NEW id \in Node,
           \/ NoOperation(id) \/ inputAgain(id) \/ outputSend(id) \/ outputAcked(id)
           \/ outputAgain(id) \/ outputDead(id) \/ altNobufs(id) \/ altNone(id) \/ altDead(id)
    PROVE  Unseen \/ R!Finish(id) \/ R!Default(id) \/ R!Abort
  <1>1. CoreInv /\ Types
    BY InvParts DEF CoreInv
  <1>2. ASSUME inl' = inl, outl' = outl, mbox' = mbox PROVE Taken' = Taken
    <2>1. Queue' = Queue
      BY <1>2 DEF Queue
    <2> QED BY <2>1, TakenStays
  <1>3. CASE NoOperation(id) \/ inputAgain(id) \/ outputAgain(id)
    BY <1>2, <1>3 DEF NoOperation, inputAgain, outputAgain, cpuVars, netVars, Unseen
  <1>4. CASE outputSend(id)
    <2>1. Gains(Queue, Queue', Sends(id))
      BY <1>1, <1>4, SendSound
    <2>2. Owner(Sends(id)) = id /\ Sends(id).ack = 0
      BY DEF Owner, Sends
    <2>3. \A s \in Node : HasAck(Queue', s) <=> HasAck(Queue, s)
      <3> SUFFICES ASSUME NEW s \in Node PROVE HasAck(Queue', s) <=> HasAck(Queue, s)
        OBVIOUS
      <3> QED BY <2>1, <2>2, GainAck
    <2>4. Taken' = Taken
      BY <2>3, TakenStays
    <2> QED BY <1>4, <2>4 DEF outputSend, Unseen
  <1>5. CASE outputAcked(id)
    <2> DEFINE x == mbox[id][st[id].corr]
    <2>1. Gains(Queue', Queue, x) /\ x.to = id
      BY <1>1, <1>5, AckedSound
    <2>2. x.ack = 1
      BY <1>5 DEF outputAcked
    <2>3. Owner(x) = id
      BY <2>1, <2>2 DEF Owner
    <2> HIDE DEF x
    <2>4. HasAck(Queue', id) <=> FALSE
      BY <2>1, <2>3, GainAck
    <2>5. HasAck(Queue, id)
      BY <2>1, <2>2, <2>3, GainAck
    <2>6. ASSUME NEW s \in Node, s # id PROVE HasAck(Queue', s) <=> HasAck(Queue, s)
      BY <2>1, <2>3, <2>6, GainAck
    <2>7. Taken' = [Taken EXCEPT ![id] = FALSE]
      BY <2>4, <2>6, TakenChanges
    <2>8. Taken[id]
      BY <2>5, TakenAt
    <2>9. R!Finish(id)
      BY <1>5, <2>7, <2>8 DEF outputAcked, Operates, R!Finish, Taken
    <2> QED BY <2>9
  <1>6. CASE outputDead(id)
    <2> DEFINE c == st[id].corr
    <2>1. /\ st[id].op = "OUT" /\ mbox[id][c] # NoMsg /\ mbox[id][c].ack # 1 /\ c \in Node
      BY <1>1, <1>6, Registers DEF outputDead
    <2> HIDE DEF c
    <2>2. Held(id, c)
      BY <1>1, <2>1, BoxMsg
    <2>3. st[c].op = "OUT" /\ st[c].corr = id
      BY <2>1, <2>2 DEF Held
    <2>4. ~HasAck(Queue, c) /\ ~HasAck(Queue, id)
      BY <2>1, MsgBeforeAck DEF c
    <2>5. ~Taken[c] /\ ~Taken[id]
      BY <2>1, <2>4, TakenAt
    <2>6. R!Offers(id, c) /\ R!Offers(c, id)
      BY <2>1, <2>3, <2>5 DEF R!Offers, Taken, c
    <2>7. R!Deadlocked(id)
      BY <2>1, <2>6 DEF R!Deadlocked
    <2>8. Taken' = Taken
      BY <1>2, <1>6 DEF outputDead, netVars
    <2>9. R!Abort
      BY <1>6, <2>7, <2>8 DEF outputDead, cpuVars, R!Abort, Taken
    <2> QED BY <2>9
  <1>7. CASE altNobufs(id) \/ altNone(id)
    <2>1. /\ st[id].op = "ALT" /\ inl' = inl /\ outl' = outl /\ mbox' = mbox
          /\ UNCHANGED <<running, data, dead>>
          /\ IF st[id].df
             THEN k1' = [k1 EXCEPT ![id] = None] /\ st' = [st EXCEPT ![id] = NoOp]
             ELSE UNCHANGED <<k1, st>>
      BY <1>7 DEF altNobufs, altNone, Operates
    <2>2. Taken' = Taken
      BY <1>2, <2>1
    <2>3. CASE st[id].df
      <3>1. R!Default(id)
        BY <2>1, <2>2, <2>3 DEF R!Default, Taken
      <3> QED BY <3>1
    <2>4. CASE ~st[id].df
      BY <2>1, <2>2, <2>4 DEF Unseen
    <2> QED BY <2>3, <2>4
  <1>8. CASE altDead(id)
    <2>1. R!Deadlocked(id)
      BY <1>8 DEF altDead, R!Deadlocked
    <2>2. Taken' = Taken
      BY <1>2, <1>8 DEF altDead, netVars
    <2>3. R!Abort
      BY <1>8, <2>1, <2>2 DEF altDead, cpuVars, R!Abort, Taken
    <2> QED BY <2>3
  <1> QED BY <1>3, <1>4, <1>5, <1>6, <1>7, <1>8

\* The network implements the rendezvous: a message passes in one step between an
\* output and an input or alt that name each other, an output ends only after that,
\* and the system is stopped only if two outputs name each other or an alt is empty.
THEOREM ImplementsRendezvous == Spec => Refines
  <1>1. Init => R!Init
    <2> SUFFICES ASSUME Init PROVE R!Init
      OBVIOUS
    <2>1. NetInv
      BY InvInit
    <2>2. ASSUME NEW s \in Node PROVE Acked(s) = FALSE
      <3>1. ~sent[s]
        BY DEF Init
      <3>2. ~HasAck(Queue, s)
        <4> SUFFICES ASSUME NEW a, NEW j, Slot(Queue, a, j), Owner(Queue[a][j]) = s
                     PROVE  FALSE
          BY DEF HasAck
        <4>1. sent[Owner(Queue[a][j])]
          BY <2>1, InvParts, SlotOwned
        <4> QED BY <3>1, <4>1
      <3>3. Acked(s) <=> HasAck(Queue, s)
        BY <2>1, AckedSlot DEF AckedInQueue
      <3>4. Acked(s) \in BOOLEAN
        BY DEF Acked
      <3> QED BY <3>2, <3>3, <3>4
    <2>3. [s \in Node |-> Acked(s)] = [s \in Node |-> FALSE]
      BY <2>2
    <2> QED BY <2>3 DEF Init, R!Init, R!CspInit
  <1>2. NetInv /\ NetInv' /\ [Next]_vars => [R!Next]_(R!vars)
    <2> SUFFICES ASSUME NetInv, NetInv', [Next]_vars PROVE R!Next \/ Unseen
      BY DEF Unseen, Taken, R!vars, R!cspVars
    <2>1. ASSUME UNCHANGED vars PROVE Unseen
      <3>1. Queue' = Queue
        BY <2>1 DEF vars, netVars, Queue
      <3>2. Taken' = Taken
        BY <3>1, TakenStays
      <3> QED BY <2>1, <3>2 DEF vars, cpuVars, Unseen
    <2>2. CASE Returned
      BY <2>1, <2>2 DEF Returned
    <2>3. ASSUME NEW id \in Node, Idle(id) \/ Alu(id) \/ Wait(id) \/ Comm(id)
          PROVE  R!Next \/ Unseen
      BY <2>3, CpuRefines DEF R!Next
    <2>4. ASSUME NEW id \in Node, fwd(id) \/ hop(id)
          PROVE  Unseen
      <3>1. NetTypes /\ Sound(Queue)
        BY DEF NetInv, Types
      <3>2. Alike(Queue, Queue')
        BY <2>4, <3>1, FwdSound, HopSound
      <3>3. Taken' = Taken
        <4>1. \A s \in Node : HasAck(Queue, s) <=> HasAck(Queue', s)
          BY <3>2, AlikeAck
        <4> QED BY <4>1, TakenStays
      <3> QED BY <2>4, <3>3 DEF fwd, hop, cpuVars, Unseen
    <2>5. ASSUME NEW id \in Node, operate(id) PROVE R!Next \/ Unseen
      <3>1. CASE input(id) \/ altTake(id)
        <4>1. \E from \in Node : R!Pass(from, id)
          BY <3>1, TakeRefines
        <4> QED BY <4>1 DEF R!Next
      <3>2. CASE ~(input(id) \/ altTake(id))
        <4>1. Unseen \/ R!Finish(id) \/ R!Default(id) \/ R!Abort
          BY <2>5, <3>2, OperateRefines DEF operate
        <4> QED BY <4>1 DEF R!Next
      <3> QED BY <3>1, <3>2
    <2> QED BY <2>1, <2>2, <2>3, <2>4, <2>5 DEF Next
  <1> QED BY <1>1, <1>2, Invariant, PTL DEF Spec, Refines, R!Spec

=============================================================================
