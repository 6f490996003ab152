--------------------------- MODULE DProdConsProof ---------------------------
(***************************************************************************)
(* Proofs about d_producer-consumer.c and its second version, for every    *)
(* number of consumers, every size of the buffer and every number of       *)
(* values: the buffer process and a consumer never output to each other,   *)
(* the buffer is neither overrun nor, in version 1, read when it is empty, *)
(* and version 1 hands over every value once and in order.                 *)
(***************************************************************************)
EXTENDS DProdCons, FiniteSetTheorems, TLAPS

BufferLabels == {"top", "input", "alt", "rem", "remalt", "last", "lastalt"}
ProducerLabels == {"produce", "end"}
ConsumerLabels == {"ask", "answer", "consume"}
Slots == 0 .. MAXELEM - 1

Types ==
    /\ ver \in Versions
    /\ running \in [Proc -> BOOLEAN] /\ taken \in [Proc -> BOOLEAN]
    /\ st = [p \in Proc |-> st[p]] /\ data = [p \in Proc |-> data[p]]
    /\ k1 = [p \in Proc |-> k1[p]]
    /\ pc = [p \in Proc |-> pc[p]]
    /\ ct \in Int /\ hd \in Slots /\ tl \in Slots /\ buf \in [Slots -> Int]
    /\ np \in Int /\ nc \in Int
    /\ val \in [Proc -> Nat] /\ got \in [Proc -> Seq(Int)]

\* The request of c has been taken and c has no answer yet.
Waiting(c) ==
    \/ pc[c] = "answer" /\ (st[c] = NoOp \/ (st[c] = Output(BUFFER, 0) /\ taken[c]))
    \/ pc[c] = "consume" /\ st[c] = Input(BUFFER)

\* Where a producer can be, and what it is engaged in.
ProducerTalks(p) ==
    /\ pc[p] \in ProducerLabels
    /\ \/ st[p] = NoOp /\ ~taken[p]
       \/ pc[p] = "produce" /\ val[p] >= ver /\ st[p] = Output(BUFFER, val[p] - ver)
       \/ pc[p] = "end" /\ st[p] = Output(BUFFER, -1)
    /\ pc[p] = "end" => val[p] >= MAXVAL

ConsumerTalks(c) ==
    \/ pc[c] = "ask" /\ st[c] = NoOp /\ ~taken[c]
    \/ pc[c] = "answer" /\ (st[c] = Output(BUFFER, 0) \/ (st[c] = NoOp /\ ~taken[c]))
    \/ pc[c] = "consume" /\ st[c] = Input(BUFFER) /\ ~taken[c]
    \/ pc[c] = "consume" /\ st[c] = NoOp /\ ~taken[c] /\ data[c] \in Int

\* The call of the buffer process that is to return at label l.
AltFor(l) == IF l = "input" THEN IF ver = 1 THEN Input(0) ELSE Alt(Producers, FALSE)
             ELSE Alt(Consumers, l = "alt")

\* The buffer process answers only consumers that wait for it.
BufferTalks ==
    /\ pc[BUFFER] \in BufferLabels
    /\ \/ /\ st[BUFFER] = NoOp /\ ~taken[BUFFER]
          /\ pc[BUFFER] = "input" => data[BUFFER] \in Int
          /\ pc[BUFFER] \in {"alt", "remalt", "lastalt"} =>
                \/ k1[BUFFER] \in Consumers /\ Waiting(k1[BUFFER])
                \/ k1[BUFFER] = None /\ pc[BUFFER] = "alt"
       \/ /\ pc[BUFFER] \in {"input", "alt", "remalt", "lastalt"}
          /\ st[BUFFER] = AltFor(pc[BUFFER]) /\ ~taken[BUFFER]
       \/ /\ pc[BUFFER] \in {"top", "rem", "last"}
          /\ \E c \in Consumers :
                /\ st[BUFFER] = Output(c, st[BUFFER].data) /\ st[BUFFER].data \in Int
                /\ ~taken[BUFFER] => Waiting(c)

Talks == /\ \A p \in Producers : ProducerTalks(p)
         /\ \A c \in Consumers : ConsumerTalks(c)
         /\ BufferTalks

\* How full the buffer is, by what its process is about to do.
Counts == /\ ct <= MAXELEM /\ (ver = 1 => ct >= 0)
          /\ pc[BUFFER] = "input" => ct < MAXELEM
          /\ ver = 1 /\ pc[BUFFER] = "alt" => ct > 0
          /\ pc[BUFFER] = "remalt" => ct > 0
          /\ ver = 1 /\ pc[BUFFER] \in {"last", "lastalt"} => ct = 0

-----------------------------------------------------------------------------
(* Version 1: where the values are. *)

\* The values the buffer process has received, and those it has stored.
Received == val[0] - IF pc[0] = "produce" /\ st[0].op = "OUT" /\ ~taken[0] THEN 1 ELSE 0
Stored == Received - IF pc[BUFFER] = "input" /\ st[BUFFER] = NoOp /\ data[BUFFER] >= 0
                     THEN 1 ELSE 0
Served == Stored - ct

\* The last value has been received: pc[0] = "end" and the -1 with it.
Ended == pc[0] = "end" /\ (st[0] = NoOp \/ taken[0])

Produced ==
    /\ val[0] <= MAXVAL /\ Served >= 0
    /\ pc[BUFFER] = "input" /\ st[BUFFER] = NoOp =>
          IF data[BUFFER] >= 0 THEN data[BUFFER] = Stored ELSE Ended
    /\ pc[BUFFER] \in {"rem", "remalt", "last", "lastalt"} => Ended
    /\ ~running[BUFFER] => pc[BUFFER] = "last" /\ st[BUFFER] = NoOp

\* Value v is kept in slot v % MAXELEM.
Ring == /\ hd = Served % MAXELEM /\ tl = Stored % MAXELEM
        /\ \A v \in Served .. Stored - 1 : buf[v % MAXELEM] = v

\* What consumer c has consumed, and the value that is on its way to it.
InHand(c) == pc[c] = "consume" /\ st[c] = NoOp /\ data[c] >= 0
OnItsWay(c) == /\ st[BUFFER].op = "OUT" /\ st[BUFFER].corr = c /\ ~taken[BUFFER]
               /\ st[BUFFER].data >= 0
Line(c) == IF OnItsWay(c) THEN Append(got[c], st[BUFFER].data)
           ELSE IF InHand(c) THEN Append(got[c], data[c]) ELSE got[c]

\* The values served are in the lines of the consumers: in order, each once.
Lines(L, n) ==
    /\ \A p \in Proc : L[p] \in Seq(Int) /\ Len(L[p]) <= n
    /\ \A p \in Proc : \A k \in 1 .. Len(L[p]) : L[p][k] \in 0 .. n - 1
    /\ \A p \in Proc : \A k \in 2 .. Len(L[p]) : L[p][k - 1] < L[p][k]
    /\ \A p, q \in Proc : \A j \in 1 .. Len(L[p]), k \in 1 .. Len(L[q]) :
          L[p][j] = L[q][k] => p = q /\ j = k
    /\ \A v \in 0 .. n - 1 : \E p \in Proc : \E k \in 1 .. Len(L[p]) : L[p][k] = v
Line1 == [p \in Proc |-> Line(p)]

Stops == \A c \in Consumers : ~running[c] => pc[c] = "consume" /\ st[c] = NoOp /\ data[c] < 0

Delivered == ver = 1 => Produced /\ Ring /\ Lines(Line1, Served) /\ Stops

Inv == Types /\ Talks /\ Counts /\ Delivered

-----------------------------------------------------------------------------
(* Processes and their calls. *)

\* Who is who.
LEMMA Roles ==
    ASSUME ver \in Versions
    PROVE  /\ ver \in {1, 2} /\ (ver = 1 => Producers = {0})
           /\ Producers \subseteq Proc /\ Consumers \subseteq Proc /\ BUFFER \in Proc
           /\ Proc = Producers \cup Consumers \cup {BUFFER} /\ 0 \in Producers
           /\ BUFFER \notin Producers /\ BUFFER \notin Consumers
           /\ Producers \cap Consumers = {} /\ Consumers # {} /\ None \notin Proc
           /\ NoOp.op \notin {"IN", "OUT", "ALT"}
  <1>1. /\ ver \in {1, 2} /\ {0, BUFFER, 2} \subseteq Proc /\ BUFFER = 1
        /\ ver = 2 => 3 \in Proc
    BY DProdConsAssumption DEF BUFFER
  <1>2. (ver = 1 => 2 \in Consumers) /\ (ver = 2 => 3 \in Consumers)
    BY <1>1 DEF Producers, Consumers
  <1> QED BY <1>1, <1>2, DProdConsAssumption DEF Producers, Consumers

\* The calls of the programs are told apart by what they are.
LEMMA Calls ==
    ASSUME ver \in Versions
    PROVE  /\ \A p, d : Output(p, d).op = "OUT" /\ Output(p, d).corr = p
                        /\ Output(p, d).data = d /\ Output(p, d) # NoOp
           /\ \A p : Input(p).op = "IN" /\ Input(p).corr = p /\ Input(p) # NoOp
           /\ \A S, df : Alt(S, df).op = "ALT" /\ Alt(S, df).cl = S
                         /\ Alt(S, df).df = df /\ Alt(S, df) # NoOp
           /\ \A l : AltFor(l).op \in {"IN", "ALT"} /\ AltFor(l) # NoOp
  BY Roles DEF Output, Input, Alt, AltFor

\* Nothing of p has changed.
Same(p) == /\ st'[p] = st[p] /\ taken'[p] = taken[p] /\ running'[p] = running[p]
           /\ pc'[p] = pc[p] /\ data'[p] = data[p] /\ k1'[p] = k1[p]
           /\ val'[p] = val[p]

\* A step of one producer or consumer, seen by the others.
LEMMA TalksOthers ==
    ASSUME Types, Talks, ver' = ver, NEW p \in Proc, p # BUFFER,
           \A q \in Proc : q # p => Same(q),
           p \in Producers => ProducerTalks(p)',
           p \in Consumers => ConsumerTalks(p)' /\ (Waiting(p) => Waiting(p)')
    PROVE  Talks'
  <1>0. Producers' = Producers /\ Consumers' = Consumers /\ ver \in Versions
    BY DEF Producers, Consumers, Types
  <1>1. ASSUME NEW q \in Producers PROVE ProducerTalks(q)'
    <2>1. q \in Proc /\ ProducerTalks(q)
      BY <1>0, Roles DEF Talks
    <2>2. CASE q # p
      BY <2>1, <2>2 DEF Same, ProducerTalks, Output
    <2> QED BY <2>2
  <1>2. ASSUME NEW q \in Consumers PROVE ConsumerTalks(q)'
    <2>1. q \in Proc /\ ConsumerTalks(q)
      BY <1>0, Roles DEF Talks
    <2>2. CASE q # p
      BY <2>1, <2>2 DEF Same, ConsumerTalks, Output, Input
    <2> QED BY <2>2
  <1>3. \A c \in Consumers : Waiting(c) => Waiting(c)'
    <2> SUFFICES ASSUME NEW c \in Consumers, Waiting(c) PROVE Waiting(c)'
      OBVIOUS
    <2>1. c \in Proc
      BY <1>0, Roles
    <2>2. CASE c # p
      BY <2>1, <2>2 DEF Same, Waiting, Output, Input
    <2> QED BY <2>2
  <1>4. BufferTalks'
    <2>1. Same(BUFFER) /\ BufferTalks
      BY <1>0, Roles DEF Talks
    <2>2. AltFor(pc[BUFFER])' = AltFor(pc[BUFFER])
      BY <1>0, <2>1 DEF AltFor, Same, Input, Alt
    <2> QED BY <1>0, <1>3, <2>1, <2>2 DEF BufferTalks, Same, Output
  <1> QED BY <1>0, <1>1, <1>2, <1>4 DEF Talks

\* A step of the buffer process, seen by the others.
LEMMA TalksBuffer ==
    ASSUME Types, Talks, ver' = ver, \A q \in Proc : q # BUFFER => Same(q), BufferTalks'
    PROVE  Talks'
  <1>0. Producers' = Producers /\ Consumers' = Consumers /\ ver \in Versions
    BY DEF Producers, Consumers, Types
  <1>1. ASSUME NEW q \in Producers PROVE ProducerTalks(q)'
    <2>1. Same(q) /\ ProducerTalks(q)
      BY <1>0, Roles DEF Talks
    <2> QED BY <2>1 DEF Same, ProducerTalks, Output
  <1>2. ASSUME NEW q \in Consumers PROVE ConsumerTalks(q)'
    <2>1. Same(q) /\ ConsumerTalks(q)
      BY <1>0, Roles DEF Talks
    <2> QED BY <2>1 DEF Same, ConsumerTalks, Output, Input
  <1> QED BY <1>0, <1>1, <1>2 DEF Talks

\* Where p is decides what it is.
LEMMA Labels ==
    ASSUME Types, Talks, NEW p \in Proc
    PROVE  /\ pc[p] \in ProducerLabels => p \in Producers
           /\ pc[p] \in ConsumerLabels => p \in Consumers
           /\ pc[p] \in BufferLabels => p = BUFFER
  <1>1. ver \in Versions
    BY DEF Types
  <1>2. p \in Producers => pc[p] \in ProducerLabels
    BY DEF Talks, ProducerTalks
  <1>3. p \in Consumers => pc[p] \in ConsumerLabels
    BY DEF Talks, ConsumerTalks, ConsumerLabels
  <1>4. p = BUFFER => pc[p] \in BufferLabels
    BY DEF Talks, BufferTalks
  <1> QED BY <1>1, <1>2, <1>3, <1>4, Roles DEF ProducerLabels, ConsumerLabels, BufferLabels

\* The customer of the buffer process, once it has offered the answer.
LEMMA Customer ==
    ASSUME Types, Talks, st[BUFFER].op = "OUT"
    PROVE  /\ pc[BUFFER] \in {"top", "rem", "last"} /\ st[BUFFER].corr \in Consumers
           /\ st[BUFFER].data \in Int /\ (~taken[BUFFER] => Waiting(st[BUFFER].corr))
  <1>1. ver \in Versions
    BY DEF Types
  <1>2. st[BUFFER] # NoOp /\ \A l : st[BUFFER] # AltFor(l)
    BY <1>1, Calls, Roles
  <1>3. /\ pc[BUFFER] \in {"top", "rem", "last"}
        /\ \E c \in Consumers : /\ st[BUFFER] = Output(c, st[BUFFER].data)
                                /\ st[BUFFER].data \in Int
                                /\ ~taken[BUFFER] => Waiting(c)
    BY <1>2 DEF Talks, BufferTalks
  <1> QED BY <1>1, <1>3, Calls

-----------------------------------------------------------------------------
(* Steps of producers and consumers. *)

\* What p receives does not change with what others do.
LEMMA LineKept ==
    ASSUME NEW p \in Proc, Same(BUFFER), Same(p), got'[p] = got[p]
    PROVE  Line(p)' = Line(p)
  BY DEF Line, OnItsWay, InHand, Same

\* Where the values are has not changed.
LEMMA Unmoved ==
    ASSUME Delivered, ver' = ver, UNCHANGED bufVars,
           ver = 1 => /\ Stored' = Stored
                      /\ \A q \in Proc : Line(q)' = Line(q)
                      /\ Produced' /\ Stops'
    PROVE  Delivered'
  <1> SUFFICES ASSUME ver = 1 PROVE Delivered'
    BY DEF Delivered
  <1>1. Served' = Served
    BY DEF Served, bufVars
  <1>2. Line1' = Line1
    BY DEF Line1
  <1>3. Ring'
    BY <1>1 DEF Delivered, Ring, bufVars
  <1>4. Lines(Line1, Served)'
    <2>1. Lines(Line1, Served)
      BY DEF Delivered
    <2>2. Lines(Line1', Served')
      BY <1>1, <1>2, <2>1
    <2> QED BY <2>2 DEF Lines
  <1> QED BY <1>3, <1>4 DEF Delivered

\* A step of a producer or consumer, seen from the buffer.
LEMMA OthersDeliver ==
    ASSUME Inv, ver' = ver, UNCHANGED bufVars, NEW p \in Proc, p # BUFFER,
           \A q \in Proc : q # p => Same(q) /\ got'[q] = got[q],
           ver = 1 => /\ Received' = Received /\ Line(p)' = Line(p)
                      /\ val'[0] <= MAXVAL /\ (Ended => Ended')
                      /\ p \in Consumers /\ ~running'[p] =>
                            pc'[p] = "consume" /\ st'[p] = NoOp /\ data'[p] < 0
    PROVE  Counts' /\ Delivered'
  <1>1. Same(BUFFER) /\ ver \in Versions
    BY Roles DEF Inv, Types
  <1>2. Counts'
    BY <1>1 DEF Inv, Counts, Same, bufVars
  <1>3. ASSUME ver = 1
        PROVE  /\ Received' = Received /\ Stored' = Stored
               /\ \A q \in Proc : Line(q)' = Line(q)
               /\ Produced' /\ Stops'
    <2>1. Stored' = Stored /\ Served' = Served
      BY <1>1, <1>3 DEF Stored, Served, Same, bufVars
    <2>2. \A q \in Proc : Line(q)' = Line(q)
      BY <1>1, <1>3, LineKept
    <2>3. Produced'
      BY <1>1, <1>3, <2>1 DEF Inv, Delivered, Produced, Same
    <2>4. Stops'
      <3>1. Consumers' = Consumers /\ Consumers \subseteq Proc
        BY <1>1, Roles DEF Consumers, Producers
      <3> QED BY <1>3, <3>1 DEF Inv, Delivered, Stops, Same
    <2> QED BY <1>3, <2>1, <2>2, <2>3, <2>4
  <1>4. Delivered'
    BY <1>3, Unmoved DEF Inv
  <1> QED BY <1>2, <1>4

\* A producer offers its next value, or the -1.
LEMMA ProducerStep ==
    ASSUME Inv, NEW p \in Proc, Produce(p) \/ EndProducing(p)
    PROVE  Inv'
  <1>0. p \in Producers /\ p # BUFFER /\ ver \in Versions /\ ver \in {1, 2}
    <2>1. pc[p] \in ProducerLabels
      BY DEF Produce, EndProducing, At, ProducerLabels
    <2> QED BY <2>1, Labels, Roles DEF Inv, Types
  <1>1. /\ st[p] = NoOp /\ pc[p] = "produce" /\ running[p]
        /\ UNCHANGED <<running, taken, data, k1, dead, ver, ct, hd, tl, buf, np, nc, got>>
    BY DEF Produce, EndProducing, At, Call, Issue, bufVars
  <1>2. ~taken[p] /\ val[p] \in Nat
    <2>1. ProducerTalks(p) /\ \A d : Output(BUFFER, d) # NoOp
      BY <1>0, Calls DEF Inv, Talks
    <2> QED BY <1>1, <2>1 DEF ProducerTalks, Inv, Types
  <1>3. \/ /\ val[p] < MAXVAL /\ st' = [st EXCEPT ![p] = Output(BUFFER, val[p])]
           /\ pc' = [pc EXCEPT ![p] = "produce"] /\ val' = [val EXCEPT ![p] = @ + ver]
        \/ /\ val[p] >= MAXVAL /\ st' = [st EXCEPT ![p] = Output(BUFFER, -1)]
           /\ pc' = [pc EXCEPT ![p] = "end"] /\ val' = val
    BY DEF Produce, EndProducing, Call, Issue
  <1>4. Types'
    <2>1. val' \in [Proc -> Nat]
      <3>1. val[p] + ver \in Nat
        BY <1>0, <1>2
      <3> QED BY <1>3, <3>1 DEF Inv, Types
    <2>2. st' = [q \in Proc |-> st'[q]] /\ pc' = [q \in Proc |-> pc'[q]]
      BY <1>3 DEF Inv, Types
    <2> QED BY <1>1, <2>1, <2>2 DEF Inv, Types
  <1>5. \A q \in Proc : q # p => Same(q) /\ got'[q] = got[q]
    BY <1>1, <1>3 DEF Inv, Types, Same
  <1>6. \/ /\ val[p] < MAXVAL /\ st'[p] = Output(BUFFER, val[p])
           /\ pc'[p] = "produce" /\ val'[p] = val[p] + ver
        \/ /\ val[p] >= MAXVAL /\ st'[p] = Output(BUFFER, -1)
           /\ pc'[p] = "end" /\ val'[p] = val[p]
    BY <1>3 DEF Inv, Types
  <1>7. ProducerTalks(p)'
    <2>1. CASE /\ val[p] < MAXVAL /\ st'[p] = Output(BUFFER, val[p])
               /\ pc'[p] = "produce" /\ val'[p] = val[p] + ver
      <3>1. val'[p] - ver' = val[p] /\ val'[p] >= ver'
        BY <1>0, <1>1, <1>2, <2>1
      <3> QED BY <2>1, <3>1 DEF ProducerTalks, ProducerLabels, Output
    <2>2. CASE /\ val[p] >= MAXVAL /\ st'[p] = Output(BUFFER, -1)
               /\ pc'[p] = "end" /\ val'[p] = val[p]
      BY <2>2 DEF ProducerTalks, ProducerLabels, Output
    <2> QED BY <1>6, <2>1, <2>2
  <1>8. Talks'
    <2>1. p \notin Consumers
      BY <1>0, Roles
    <2>2. Types /\ Talks /\ ver' = ver
      BY <1>1 DEF Inv
    <2> QED BY <1>0, <1>5, <1>7, <2>1, <2>2, TalksOthers
  <1>9. ASSUME ver = 1
        PROVE  /\ Received' = Received /\ Line(p)' = Line(p)
               /\ val'[0] <= MAXVAL /\ (Ended => Ended')
    <2>1. p = 0
      BY <1>0, <1>9, Roles
    <2>2. Received = val[0]
      BY <1>0, <1>1, <1>2, <2>1, Roles DEF Received
    <2>3. Received' = val[0]
      BY <1>0, <1>1, <1>2, <1>6, <1>9, <2>1, Calls DEF Received
    <2>4. val'[0] <= MAXVAL
      BY <1>2, <1>6, <1>9, <2>1, DProdConsAssumption DEF Inv, Delivered, Produced
    <2>5. ~InHand(p) /\ ~InHand(p)' /\ (OnItsWay(p)' <=> OnItsWay(p))
      <3>1. Same(BUFFER)
        BY <1>0, <1>5, Roles
      <3> QED BY <1>1, <1>6, <3>1 DEF InHand, OnItsWay, Same
    <2>6. Line(p)' = Line(p)
      <3>1. Same(BUFFER)
        BY <1>0, <1>5, Roles
      <3> QED BY <1>1, <2>5, <3>1 DEF Line, Same
    <2> QED BY <1>1, <2>1, <2>2, <2>3, <2>4, <2>6 DEF Ended
  <1>10. Counts' /\ Delivered'
    <2>1. p \notin Consumers
      BY <1>0, Roles
    <2>2. UNCHANGED bufVars /\ ver' = ver
      BY <1>1 DEF bufVars
    <2> QED BY <1>0, <1>5, <1>9, <2>1, <2>2, OthersDeliver
  <1> QED BY <1>4, <1>8, <1>10 DEF Inv

\* A consumer asks, waits for the answer or takes it.
LEMMA ConsumerStep ==
    ASSUME Inv, NEW p \in Proc, Ask(p) \/ Answer(p) \/ Consume(p)
    PROVE  Inv'
  <1>0. /\ p \in Consumers /\ p # BUFFER /\ p \notin Producers /\ p # 0 /\ ver \in Versions
        /\ ConsumerTalks(p)
    <2>1. pc[p] \in ConsumerLabels
      BY DEF Ask, Answer, Consume, At, ConsumerLabels
    <2> QED BY <2>1, Labels, Roles DEF Inv, Types, Talks
  <1>1. /\ st[p] = NoOp /\ running[p]
        /\ UNCHANGED <<running, taken, data, k1, dead, ver, ct, hd, tl, buf, np, nc, val>>
    BY DEF Ask, Answer, Consume, At, Call, Issue, Jump, cspVars, bufVars
  <1>2. /\ \A d : Output(BUFFER, d) # NoOp /\ Output(BUFFER, d).op = "OUT"
        /\ Input(BUFFER) # NoOp /\ Input(BUFFER).op = "IN"
    BY <1>0, Calls
  <1>3. ~taken[p]
    BY <1>0, <1>1, <1>2 DEF ConsumerTalks
  <1>4. \/ /\ pc[p] = "ask" /\ st' = [st EXCEPT ![p] = Output(BUFFER, 0)]
           /\ pc' = [pc EXCEPT ![p] = "answer"] /\ got' = got
        \/ /\ pc[p] = "answer" /\ st' = [st EXCEPT ![p] = Input(BUFFER)]
           /\ pc' = [pc EXCEPT ![p] = "consume"] /\ got' = got
        \/ /\ pc[p] = "consume" /\ data[p] >= 0 /\ st' = st
           /\ pc' = [pc EXCEPT ![p] = "ask"] /\ got' = [got EXCEPT ![p] = Append(@, data[p])]
    BY DEF Ask, Answer, Consume, At, Call, Issue, Jump, cspVars
  <1>5. pc[p] = "consume" => data[p] \in Int
    BY <1>0, <1>1, <1>2 DEF ConsumerTalks
  <1>6. Types'
    <2>1. got' \in [Proc -> Seq(Int)]
      <3>1. CASE got' = got
        BY <3>1 DEF Inv, Types
      <3>2. CASE got' = [got EXCEPT ![p] = Append(@, data[p])] /\ data[p] \in Int
        <4>1. Append(got[p], data[p]) \in Seq(Int)
          BY <3>2 DEF Inv, Types
        <4> QED BY <3>2, <4>1 DEF Inv, Types
      <3> QED BY <1>4, <1>5, <3>1, <3>2
    <2>2. st' = [q \in Proc |-> st'[q]] /\ pc' = [q \in Proc |-> pc'[q]]
      BY <1>4 DEF Inv, Types
    <2> QED BY <1>1, <2>1, <2>2 DEF Inv, Types
  <1>7. \A q \in Proc : q # p => Same(q) /\ got'[q] = got[q]
    BY <1>1, <1>4 DEF Inv, Types, Same
  <1>8. \/ /\ pc[p] = "ask" /\ st'[p] = Output(BUFFER, 0) /\ pc'[p] = "answer"
           /\ got'[p] = got[p]
        \/ /\ pc[p] = "answer" /\ st'[p] = Input(BUFFER) /\ pc'[p] = "consume"
           /\ got'[p] = got[p]
        \/ /\ pc[p] = "consume" /\ data[p] >= 0 /\ st'[p] = NoOp /\ pc'[p] = "ask"
           /\ got'[p] = Append(got[p], data[p])
    BY <1>1, <1>4 DEF Inv, Types
  <1>9. ConsumerTalks(p)'
    BY <1>1, <1>3, <1>8 DEF ConsumerTalks, Output, Input
  <1>10. Waiting(p) => Waiting(p)' /\ pc[p] # "consume"
    BY <1>1, <1>2, <1>8 DEF Waiting, Output, Input
  <1>11. Talks'
    <2>1. Types /\ Talks /\ ver' = ver
      BY <1>1 DEF Inv
    <2> QED BY <1>0, <1>7, <1>9, <1>10, <2>1, TalksOthers
  <1>12. Same(BUFFER) /\ Same(0)
    BY <1>0, <1>7, Roles
  <1>13. Line(p)' = Line(p)
    <2>1. OnItsWay(p)' <=> OnItsWay(p)
      BY <1>12 DEF OnItsWay, Same
    <2>2. OnItsWay(p) => Waiting(p)
      BY Customer DEF Inv, OnItsWay
    <2>3. ~InHand(p)'
      BY <1>2, <1>8 DEF InHand
    <2>4. CASE pc[p] = "consume"
      <3>1. ~OnItsWay(p) /\ InHand(p)
        BY <1>1, <1>8, <1>10, <2>2, <2>4 DEF InHand
      <3> QED BY <1>8, <2>1, <2>3, <2>4, <3>1 DEF Line
    <2>5. CASE pc[p] # "consume"
      <3>1. ~InHand(p)
        BY <2>5 DEF InHand
      <3> QED BY <1>8, <1>12, <2>1, <2>3, <2>5, <3>1 DEF Line, Same
    <2> QED BY <2>4, <2>5
  <1>14. ASSUME ver = 1
         PROVE  Received' = Received /\ val'[0] <= MAXVAL /\ (Ended => Ended')
    BY <1>1, <1>12, <1>14 DEF Received, Ended, Same, Inv, Delivered, Produced
  <1>15. Counts' /\ Delivered'
    <2>1. UNCHANGED bufVars /\ ver' = ver /\ running'[p]
      BY <1>1 DEF bufVars
    <2> QED BY <1>0, <1>7, <1>13, <1>14, <2>1, OthersDeliver
  <1> QED BY <1>6, <1>11, <1>15 DEF Inv

\* A producer that has told of its end, or a consumer that was told, returns.
LEMMA EndStep ==
    ASSUME Inv, NEW p \in Proc, Ends(p)
    PROVE  Inv'
  <1>0. p \in Producers \cup Consumers /\ p # BUFFER /\ ver \in Versions
    <2>1. pc[p] \in ProducerLabels \cup ConsumerLabels
      BY DEF Ends, At, ProducerLabels, ConsumerLabels
    <2> QED BY <2>1, Labels, Roles DEF Inv, Types
  <1>1. /\ st[p] = NoOp /\ running' = [running EXCEPT ![p] = FALSE]
        /\ UNCHANGED <<st, taken, data, k1, dead, ver, pc, ct, hd, tl, buf, np, nc, val, got>>
        /\ pc[p] = "end" \/ (pc[p] = "consume" /\ data[p] < 0)
    BY DEF Ends, At, Stop, bufVars
  <1>2. Types'
    BY <1>1 DEF Inv, Types
  <1>3. \A q \in Proc : q # p => Same(q) /\ got'[q] = got[q]
    BY <1>1 DEF Inv, Types, Same
  <1>4. /\ p \in Producers => ProducerTalks(p)'
        /\ p \in Consumers => ConsumerTalks(p)' /\ (Waiting(p) => Waiting(p)')
    BY <1>1 DEF Inv, Talks, ProducerTalks, ConsumerTalks, Waiting, Output, Input
  <1>5. Talks'
    <2>1. Types /\ Talks /\ ver' = ver
      BY <1>1 DEF Inv
    <2> QED BY <1>0, <1>3, <1>4, <2>1, TalksOthers
  <1>6. Line(p)' = Line(p) /\ Received' = Received /\ (Ended => Ended')
    BY <1>1 DEF Line, OnItsWay, InHand, Received, Ended
  <1>7. p \in Consumers => pc[p] = "consume" /\ data[p] < 0
    <2>1. p \in Consumers => ConsumerTalks(p)
      BY DEF Inv, Talks
    <2> QED BY <1>1, <2>1 DEF ConsumerTalks
  <1>8. Counts' /\ Delivered'
    <2>1. UNCHANGED bufVars /\ ver' = ver
      BY <1>1 DEF bufVars
    <2>2. ver = 1 => val'[0] <= MAXVAL
      BY <1>1 DEF Inv, Delivered, Produced
    <2> QED BY <1>0, <1>1, <1>3, <1>6, <1>7, <2>1, <2>2, OthersDeliver
  <1> QED BY <1>2, <1>5, <1>8 DEF Inv

-----------------------------------------------------------------------------
(* Communication. *)

\* The output of a producer or consumer ends.
LEMMA OthersSent ==
    ASSUME Inv, NEW p \in Proc, p # BUFFER, Sent(p)
    PROVE  Inv'
  <1>0. (p \in Producers \/ p \in Consumers) /\ ver \in Versions /\ 0 \in Producers
        /\ Producers \cap Consumers = {} /\ BUFFER \in Proc /\ 0 \in Proc
    BY Roles DEF Inv, Types
  <1>1. /\ st[p].op = "OUT" /\ taken[p] /\ st' = [st EXCEPT ![p] = NoOp]
        /\ taken' = [taken EXCEPT ![p] = FALSE]
        /\ UNCHANGED <<running, data, k1, dead, ver, pc, ct, hd, tl, buf, np, nc, val, got>>
    BY DEF Sent, Finish, progVars, bufVars
  <1>2. Types'
    BY <1>1 DEF Inv, Types
  <1>3. \A q \in Proc : q # p => Same(q) /\ got'[q] = got[q]
    BY <1>1 DEF Inv, Types, Same
  <1>4. st'[p] = NoOp /\ ~taken'[p] /\ pc'[p] = pc[p]
    BY <1>1 DEF Inv, Types
  <1>5. NoOp.op # "OUT" /\ Input(BUFFER).op # "OUT"
    BY <1>0, Roles, Calls
  <1>6. p \in Producers => ProducerTalks(p)'
    BY <1>1, <1>4 DEF Inv, Talks, ProducerTalks
  <1>7. p \in Consumers => ConsumerTalks(p) /\ pc[p] = "answer"
    BY <1>1, <1>5 DEF Inv, Talks, ConsumerTalks
  <1>8. p \in Consumers => ConsumerTalks(p)' /\ Waiting(p)'
    BY <1>4, <1>7 DEF ConsumerTalks, Waiting
  <1>9. Talks'
    <2>1. Types /\ Talks /\ ver' = ver
      BY <1>1 DEF Inv
    <2> QED BY <1>3, <1>6, <1>8, <2>1, TalksOthers
  <1>10. Same(BUFFER)
    BY <1>0, <1>3
  <1>11. Line(p)' = Line(p)
    <2>1. pc[p] # "consume"
      BY <1>0, <1>7 DEF Inv, Talks, ProducerTalks, ProducerLabels
    <2>2. ~InHand(p) /\ ~InHand(p)' /\ (OnItsWay(p)' <=> OnItsWay(p))
      BY <1>4, <1>10, <2>1 DEF InHand, OnItsWay, Same
    <2> QED BY <1>1, <1>10, <2>2 DEF Line, Same
  <1>12. Received' = Received /\ (Ended => Ended')
    <2>1. CASE p = 0
      BY <1>1, <1>4, <1>5, <2>1 DEF Received, Ended
    <2>2. CASE p # 0
      BY <1>0, <1>1, <1>3, <2>2 DEF Received, Ended, Same
    <2> QED BY <2>1, <2>2
  <1>13. Counts' /\ Delivered'
    <2>1. UNCHANGED bufVars /\ ver' = ver
      BY <1>1 DEF bufVars
    <2>2. ver = 1 => val'[0] <= MAXVAL
      BY <1>1 DEF Inv, Delivered, Produced
    <2>3. ver = 1 /\ p \in Consumers => running'[p]
      BY <1>1, <1>7 DEF Inv, Delivered, Stops, Types
    <2> QED BY <1>3, <1>11, <1>12, <2>1, <2>2, <2>3, OthersDeliver
  <1> QED BY <1>2, <1>9, <1>13 DEF Inv

\* A step of the buffer process that leaves the buffer and the producer alone.
LEMMA BufferUnmoved ==
    ASSUME Inv, ver' = ver, UNCHANGED <<bufVars, val, got>>,
           \A q \in Proc : q # BUFFER => Same(q), pc'[BUFFER] \in BufferLabels,
           ver = 1 => /\ Stored' = Stored
                      /\ \A q \in Proc : ~OnItsWay(q) /\ ~OnItsWay(q)'
                      /\ Produced'
    PROVE  Delivered'
  <1>0. ver \in Versions /\ 0 \in Proc /\ 0 # BUFFER
    BY Roles DEF Inv, Types
  <1>1. Received' = Received
    BY <1>0 DEF Received, Same
  <1>2. ASSUME ver = 1, NEW q \in Proc PROVE Line(q)' = Line(q)
    <2>1. ~OnItsWay(q) /\ ~OnItsWay(q)' /\ got'[q] = got[q]
      BY <1>2
    <2>2. CASE q = BUFFER
      <3>1. ~InHand(q)
        BY <2>2 DEF Inv, Talks, BufferTalks, BufferLabels, InHand
      <3>2. ~InHand(q)'
        BY <2>2 DEF InHand, BufferLabels
      <3> QED BY <2>1, <2>2, <3>1, <3>2 DEF Line
    <2>3. CASE q # BUFFER
      <3>1. InHand(q)' <=> InHand(q)
        BY <2>3 DEF InHand, Same
      <3> QED BY <2>1, <2>3, <3>1 DEF Line, Same
    <2> QED BY <2>2, <2>3
  <1>3. ver = 1 => Stops'
    <2>1. Consumers' = Consumers /\ Consumers \subseteq Proc /\ BUFFER \notin Consumers
      BY <1>0, Roles DEF Consumers, Producers
    <2> QED BY <2>1 DEF Inv, Delivered, Stops, Same
  <1> QED BY <1>1, <1>2, <1>3, Unmoved DEF Inv

\* The answer of the buffer process has been received.
LEMMA BufferSent ==
    ASSUME Inv, Sent(BUFFER)
    PROVE  Inv'
  <1>0. ver \in Versions /\ BUFFER \in Proc /\ NoOp.op # "OUT"
    BY Roles DEF Inv, Types
  <1>1. /\ st[BUFFER].op = "OUT" /\ taken[BUFFER] /\ st' = [st EXCEPT ![BUFFER] = NoOp]
        /\ taken' = [taken EXCEPT ![BUFFER] = FALSE]
        /\ UNCHANGED <<running, data, k1, dead, ver, pc, ct, hd, tl, buf, np, nc, val, got>>
    BY DEF Sent, Finish, progVars, bufVars
  <1>2. Types'
    BY <1>1 DEF Inv, Types
  <1>3. (\A q \in Proc : q # BUFFER => Same(q)) /\ st'[BUFFER] = NoOp /\ ~taken'[BUFFER]
    BY <1>0, <1>1 DEF Inv, Types, Same
  <1>4. pc[BUFFER] \in {"top", "rem", "last"}
    BY <1>1, Customer DEF Inv
  <1>5. BufferTalks'
    BY <1>1, <1>3, <1>4 DEF BufferTalks, BufferLabels
  <1>6. Talks'
    BY <1>1, <1>3, <1>5, TalksBuffer DEF Inv
  <1>7. Counts'
    BY <1>1 DEF Inv, Counts
  <1>8. Stored' = Stored /\ Served' = Served
    <2>1. Received' = Received
      <3>1. 0 \in Proc /\ 0 # BUFFER
        BY <1>0, Roles
      <3> QED BY <1>1, <1>3, <3>1 DEF Received, Same
    <2> QED BY <1>1, <1>4, <2>1 DEF Stored, Served
  <1>9. \A q : ~OnItsWay(q) /\ ~OnItsWay(q)'
    BY <1>0, <1>1, <1>3 DEF OnItsWay
  <1>10. ver = 1 => Produced'
    <2>1. 0 \in Proc /\ 0 # BUFFER
      BY <1>0, Roles
    <2>2. Ended => Ended'
      BY <1>3, <2>1 DEF Ended, Same
    <2> QED BY <1>1, <1>3, <1>4, <1>8, <2>2 DEF Inv, Delivered, Produced
  <1>11. Delivered'
    <2>1. UNCHANGED <<bufVars, val, got>> /\ ver' = ver /\ pc'[BUFFER] \in BufferLabels
      BY <1>1, <1>4 DEF bufVars, BufferLabels
    <2> QED BY <1>3, <1>8, <1>9, <1>10, <2>1, BufferUnmoved
  <1> QED BY <1>2, <1>6, <1>7, <1>11 DEF Inv

\* Only the poll of the buffer process has a default clause.
LEMMA PollStep ==
    ASSUME Inv, NEW p \in Proc, Polls(p)
    PROVE  Inv'
  <1>0. ver \in Versions /\ BUFFER \in Proc /\ NoOp.op \notin {"OUT", "ALT"}
    BY Roles DEF Inv, Types
  <1>1. /\ st[p].op = "ALT" /\ st[p].df /\ st' = [st EXCEPT ![p] = NoOp]
        /\ k1' = [k1 EXCEPT ![p] = None]
        /\ UNCHANGED <<running, data, taken, dead, ver, pc, ct, hd, tl, buf, np, nc, val, got>>
    BY DEF Polls, Default, progVars, bufVars
  <1>2. p = BUFFER
    <2>1. p \notin Producers
      BY <1>0, <1>1, Calls DEF Inv, Talks, ProducerTalks
    <2>2. p \notin Consumers
      BY <1>0, <1>1, Calls DEF Inv, Talks, ConsumerTalks
    <2> QED BY <1>0, <2>1, <2>2, Roles
  <1>3. pc[BUFFER] = "alt" /\ ~taken[BUFFER] /\ st[BUFFER] # NoOp
    <2>1. st[BUFFER].op = "ALT" /\ st[BUFFER] # NoOp /\ st[BUFFER].df
      BY <1>0, <1>1, <1>2
    <2>2. st[BUFFER] = AltFor(pc[BUFFER]) /\ pc[BUFFER] \in {"input", "alt", "remalt", "lastalt"}
          /\ ~taken[BUFFER]
      BY <1>0, <2>1, Calls DEF Inv, Talks, BufferTalks
    <2>3. pc[BUFFER] # "alt" => AltFor(pc[BUFFER]).op = "IN" \/ ~AltFor(pc[BUFFER]).df
      BY <2>2 DEF AltFor, Input, Alt
    <2> QED BY <2>1, <2>2, <2>3
  <1>4. Types'
    BY <1>1 DEF Inv, Types
  <1>5. (\A q \in Proc : q # BUFFER => Same(q)) /\ st'[BUFFER] = NoOp /\ k1'[BUFFER] = None
    BY <1>0, <1>1, <1>2 DEF Inv, Types, Same
  <1>6. BufferTalks'
    BY <1>1, <1>3, <1>5 DEF BufferTalks, BufferLabels
  <1>7. Talks'
    BY <1>1, <1>5, <1>6, TalksBuffer DEF Inv
  <1>8. Counts'
    BY <1>1 DEF Inv, Counts
  <1>9. Stored' = Stored /\ Served' = Served
    <2>1. Received' = Received
      <3>1. 0 \in Proc /\ 0 # BUFFER
        BY <1>0, Roles
      <3> QED BY <1>1, <1>5, <3>1 DEF Received, Same
    <2> QED BY <1>1, <1>3, <2>1 DEF Stored, Served
  <1>10. \A q : ~OnItsWay(q) /\ ~OnItsWay(q)'
    BY <1>0, <1>1, <1>2, <1>5 DEF OnItsWay
  <1>11. ver = 1 => Produced'
    BY <1>1, <1>3, <1>9 DEF Inv, Delivered, Produced
  <1>12. Delivered'
    <2>1. UNCHANGED <<bufVars, val, got>> /\ ver' = ver /\ pc'[BUFFER] \in BufferLabels
      BY <1>1, <1>3 DEF bufVars, BufferLabels
    <2> QED BY <1>5, <1>9, <1>10, <1>11, <2>1, BufferUnmoved
  <1> QED BY <1>4, <1>7, <1>8, <1>12 DEF Inv

-----------------------------------------------------------------------------
(* The buffer process between its communications. *)

\* The buffer process does not touch the buffer, goes on at l and makes the call x,
\* if any.
LEMMA QuietStep ==
    ASSUME Inv, NEW l0, NEW x, NEW l, At(BUFFER, l0),
           st' = [st EXCEPT ![BUFFER] = x], pc' = [pc EXCEPT ![BUFFER] = l],
           UNCHANGED <<taken, data, k1, ver, bufVars, val, got>>,
           running' = running \/ (running' = [running EXCEPT ![BUFFER] = FALSE]
                                  /\ l = "last" /\ x = NoOp),
           np' \in Int, nc' \in Int,
           \/ x = NoOp /\ l \in {"top", "rem", "last"}
           \/ x = AltFor(l) /\ l \in {"input", "alt", "remalt", "lastalt"}
           \/ l = "last" /\ \E c \in Consumers : x = Output(c, -1) /\ Waiting(c),
           l = "input" => ct < MAXELEM,
           l = "remalt" \/ (ver = 1 /\ l = "alt") => ct > 0,
           ver = 1 /\ l \in {"last", "lastalt"} => ct = 0,
           ver = 1 /\ l \in {"rem", "remalt", "last", "lastalt"} => Ended,
           ver = 1 /\ l0 = "input" => data[BUFFER] < 0
    PROVE  Inv'
  <1>0. /\ ver \in Versions /\ BUFFER \in Proc /\ 0 \in Proc /\ 0 # BUFFER
        /\ NoOp.op # "OUT" /\ Consumers \subseteq Proc /\ BUFFER \notin Consumers
    BY Roles DEF Inv, Types
  <1>1. /\ pc[BUFFER] = l0 /\ running[BUFFER] /\ st[BUFFER] = NoOp /\ ~taken[BUFFER]
        /\ l0 \in BufferLabels
    <2>1. pc[BUFFER] = l0 /\ running[BUFFER] /\ st[BUFFER] = NoOp
      BY DEF At
    <2>2. (\A c, d : Output(c, d) # NoOp) /\ AltFor(l0) # NoOp
      BY <1>0, Calls
    <2> QED BY <2>1, <2>2 DEF Inv, Talks, BufferTalks
  <1>2. st'[BUFFER] = x /\ pc'[BUFFER] = l /\ \A q \in Proc : q # BUFFER => Same(q)
    BY <1>0 DEF Inv, Types, Same
  <1>3. Types'
    <2>1. st' = [q \in Proc |-> st'[q]] /\ pc' = [q \in Proc |-> pc'[q]]
          /\ running' \in [Proc -> BOOLEAN]
      BY DEF Inv, Types
    <2> QED BY <2>1 DEF Inv, Types, bufVars
  <1>4. AltFor(l)' = AltFor(l) /\ Consumers' = Consumers
    BY DEF AltFor, Input, Alt, Producers, Consumers
  <1>5. BufferTalks'
    <2>1. CASE x = NoOp /\ l \in {"top", "rem", "last"}
      BY <1>1, <1>2, <2>1 DEF BufferTalks, BufferLabels
    <2>2. CASE x = AltFor(l) /\ l \in {"input", "alt", "remalt", "lastalt"}
      BY <1>1, <1>2, <1>4, <2>2 DEF BufferTalks, BufferLabels
    <2>3. ASSUME l = "last", NEW c \in Consumers, x = Output(c, -1), Waiting(c)
          PROVE  BufferTalks'
      <3>1. Waiting(c)'
        BY <1>0, <1>2, <2>3 DEF Waiting, Same, Output, Input
      <3>2. x.data = -1
        BY <2>3 DEF Output
      <3> QED BY <1>1, <1>2, <1>4, <2>3, <3>1, <3>2 DEF BufferTalks, BufferLabels, Output
    <2> QED BY <2>1, <2>2, <2>3
  <1>6. Talks'
    BY <1>2, <1>5, TalksBuffer DEF Inv
  <1>7. Counts'
    BY <1>2 DEF Inv, Counts, bufVars
  <1>8. \A q : ~OnItsWay(q) /\ ~OnItsWay(q)'
    <2>1. x.op = "OUT" => x.data = -1
      BY <1>0, Calls
    <2> QED BY <1>0, <1>1, <1>2, <2>1 DEF OnItsWay
  <1>9. ver = 1 => Stored' = Stored /\ Served' = Served
    <2> SUFFICES ASSUME ver = 1 PROVE Stored' = Stored /\ Served' = Served
      OBVIOUS
    <2>1. Received' = Received
      BY <1>0, <1>2 DEF Received, Same
    <2>2. Stored = Received
      <3>1. data[BUFFER] >= 0 => l0 # "input"
        <4>1. l0 = "input" => data[BUFFER] \in Int
          BY <1>0, <1>1, Calls DEF Inv, Talks, BufferTalks
        <4> QED BY <4>1
      <3>2. Received \in Int
        BY <1>0 DEF Received, Inv, Types
      <3> QED BY <1>1, <3>1, <3>2 DEF Stored
    <2>3. Stored' = Received'
      <3>1. ~(l = "input" /\ x = NoOp)
        BY <1>0, Calls
      <3>2. Received' \in Int
        BY <1>0, <1>3 DEF Received, Types
      <3>3. ~(pc[BUFFER] = "input" /\ st[BUFFER] = NoOp /\ data[BUFFER] >= 0)'
        BY <1>2, <3>1
      <3>4. Stored' = Received' - 0
        BY <3>3 DEF Stored
      <3>5. \A r \in Int : r - 0 = r
        OBVIOUS
      <3> QED BY <3>2, <3>4, <3>5, Zenon
    <2> QED BY <2>1, <2>2, <2>3 DEF Served, bufVars
  <1>10. ver = 1 => Produced'
    <2> SUFFICES ASSUME ver = 1 PROVE Produced'
      OBVIOUS
    <2>1. Ended => Ended'
      BY <1>0, <1>2 DEF Ended, Same
    <2>2. ~(l = "input" /\ x = NoOp)
      BY <1>0, Calls
    <2>3. val'[0] <= MAXVAL /\ Served' >= 0
      BY <1>9 DEF Inv, Delivered, Produced
    <2>4. ~running'[BUFFER] => l = "last" /\ x = NoOp
      BY <1>1
    <2> QED BY <1>2, <2>1, <2>2, <2>3, <2>4 DEF Produced
  <1>11. Delivered'
    <2>1. pc'[BUFFER] \in BufferLabels
      BY <1>2 DEF BufferLabels
    <2>2. UNCHANGED <<bufVars, val, got>> /\ ver' = ver
      OBVIOUS
    <2> QED BY <1>2, <1>8, <1>9, <1>10, <2>1, <2>2, BufferUnmoved
  <1> QED BY <1>3, <1>6, <1>7, <1>11 DEF Inv

\* The head of the loop, an empty poll, the end of a producer and the two loops
\* after it.
LEMMA QuietActions ==
    ASSUME Inv, Top \/ ProducerEnds \/ Nobody \/ Rem \/ Last \/ LastAlt
    PROVE  Inv'
  <1>0. /\ ver \in {1, 2} /\ BUFFER \in Proc /\ ver \in Versions
        /\ st = [q \in Proc |-> st[q]] /\ np \in Int /\ nc \in Int /\ ct \in Int
        /\ MAXELEM \in Nat \ {0} /\ ct <= MAXELEM /\ (ver = 1 => ct >= 0)
    BY Roles, DProdConsAssumption DEF Inv, Types, Counts
  <1>1. st[BUFFER] = NoOp => st = [st EXCEPT ![BUFFER] = NoOp]
    BY <1>0
  <1>2. /\ AltFor("input") = IF ver = 1 THEN Input(0) ELSE Alt(Producers, FALSE)
        /\ AltFor("alt") = Alt(Consumers, TRUE)
        /\ AltFor("remalt") = Alt(Consumers, FALSE)
        /\ AltFor("lastalt") = Alt(Consumers, FALSE)
    BY DEF AltFor
  <1>3. pc[BUFFER] \in {"rem", "last", "lastalt"} /\ ver = 1 => Ended
    BY DEF Inv, Delivered, Produced
  <1>4. CASE Top
    <2>1. /\ At(BUFFER, "top") /\ UNCHANGED <<taken, data, k1, ver, bufVars, val, got>>
          /\ running' = running /\ np' = np /\ nc' = nc
      BY <1>4 DEF Top, Jump, Call, Issue, cspVars, bufVars
    <2>2. CASE ver = 2 /\ np = 0
      <3>1. st' = [st EXCEPT ![BUFFER] = NoOp] /\ pc' = [pc EXCEPT ![BUFFER] = "rem"]
        BY <1>1, <1>4, <2>1, <2>2 DEF Top, Jump, cspVars, At
      <3>2. ver # 1 /\ np' \in Int /\ nc' \in Int
        BY <1>0, <2>1, <2>2
      <3> QED BY <2>1, <3>1, <3>2, QuietStep
    <2>3. CASE ~(ver = 2 /\ np = 0) /\ ct < MAXELEM
      <3>1. /\ st' = [st EXCEPT ![BUFFER] = AltFor("input")]
            /\ pc' = [pc EXCEPT ![BUFFER] = "input"]
        BY <1>2, <1>4, <2>1, <2>3 DEF Top, Call, Issue
      <3> QED BY <1>0, <2>1, <2>3, <3>1, QuietStep
    <2>4. CASE ~(ver = 2 /\ np = 0) /\ ~(ct < MAXELEM)
      <3>1. /\ st' = [st EXCEPT ![BUFFER] = AltFor("alt")]
            /\ pc' = [pc EXCEPT ![BUFFER] = "alt"]
        BY <1>2, <1>4, <2>1, <2>4 DEF Top, Call, Issue
      <3>2. ct > 0
        BY <1>0, <2>4
      <3> QED BY <1>0, <2>1, <3>1, <3>2, QuietStep
    <2> QED BY <2>2, <2>3, <2>4
  <1>5. CASE ProducerEnds
    <2>1. /\ At(BUFFER, "input") /\ UNCHANGED <<taken, data, k1, ver, bufVars, val, got>>
          /\ running' = running /\ nc' = nc /\ data[BUFFER] < 0
      BY <1>5 DEF ProducerEnds, Jump, Call, Issue, cspVars, bufVars
    <2>2. CASE ver = 1
      <3>1. /\ st' = [st EXCEPT ![BUFFER] = NoOp] /\ pc' = [pc EXCEPT ![BUFFER] = "rem"]
            /\ np' = np
        BY <1>1, <1>5, <2>1, <2>2 DEF ProducerEnds, Jump, cspVars, At
      <3>2. Ended
        <4>1. pc[BUFFER] = "input" /\ st[BUFFER] = NoOp
          BY <2>1 DEF At
        <4>2. data[BUFFER] \in Int
          BY <1>0, <4>1, Calls DEF Inv, Talks, BufferTalks
        <4> QED BY <2>1, <2>2, <4>1, <4>2 DEF Inv, Delivered, Produced
      <3> QED BY <1>0, <2>1, <3>1, <3>2, QuietStep
    <2>3. CASE ver = 2
      <3>1. /\ st' = [st EXCEPT ![BUFFER] = AltFor("alt")]
            /\ pc' = [pc EXCEPT ![BUFFER] = "alt"] /\ np' = np - 1
        <4>1. ver # 1
          BY <2>3
        <4>2. Call(BUFFER, Alt(Consumers, TRUE), "alt") /\ np' = np - 1
          BY <1>5, <4>1, Zenon DEF ProducerEnds
        <4> QED BY <1>2, <4>2 DEF Call, Issue
      <3>2. ver # 1 /\ np' \in Int /\ nc' \in Int
        BY <1>0, <2>1, <2>3, <3>1
      <3> QED BY <2>1, <3>1, <3>2, QuietStep
    <2> QED BY <1>0, <2>2, <2>3
  <1>6. CASE Nobody
    <2>1. /\ At(BUFFER, "alt") /\ UNCHANGED <<taken, data, k1, ver, bufVars, val, got>>
          /\ running' = running /\ np' = np /\ nc' = nc
          /\ st' = [st EXCEPT ![BUFFER] = NoOp] /\ pc' = [pc EXCEPT ![BUFFER] = "top"]
      BY <1>1, <1>6 DEF Nobody, Jump, cspVars, bufVars, At
    <2> QED BY <1>0, <2>1, QuietStep
  <1>7. CASE Rem
    <2>1. /\ At(BUFFER, "rem") /\ UNCHANGED <<taken, data, k1, ver, bufVars, val, got>>
          /\ running' = running /\ np' = np /\ nc' = nc /\ (ver = 1 => Ended)
      BY <1>3, <1>7 DEF Rem, Jump, Call, Issue, cspVars, bufVars, At
    <2>2. CASE ct > 0
      <3>1. /\ st' = [st EXCEPT ![BUFFER] = AltFor("remalt")]
            /\ pc' = [pc EXCEPT ![BUFFER] = "remalt"]
        BY <1>2, <1>7, <2>2 DEF Rem, Call, Issue
      <3> QED BY <1>0, <2>1, <2>2, <3>1, QuietStep
    <2>3. CASE ~(ct > 0)
      <3>1. st' = [st EXCEPT ![BUFFER] = NoOp] /\ pc' = [pc EXCEPT ![BUFFER] = "last"]
        BY <1>1, <1>7, <2>1, <2>3 DEF Rem, Jump, cspVars, At
      <3>2. ver = 1 => ct = 0
        BY <1>0, <2>3
      <3> QED BY <1>0, <2>1, <3>1, <3>2, QuietStep
    <2> QED BY <2>2, <2>3
  <1>8. CASE Last
    <2>1. /\ At(BUFFER, "last") /\ UNCHANGED <<taken, data, k1, ver, bufVars, val, got>>
          /\ np' = np /\ nc' = nc /\ (ver = 1 => Ended)
      BY <1>3, <1>8 DEF Last, Stop, Call, Issue, bufVars, At
    <2>2. ver = 1 => ct = 0
      BY <2>1 DEF Inv, Counts, At
    <2>3. CASE nc > 0
      <3>1. /\ st' = [st EXCEPT ![BUFFER] = AltFor("lastalt")]
            /\ pc' = [pc EXCEPT ![BUFFER] = "lastalt"] /\ running' = running
        BY <1>2, <1>8, <2>3 DEF Last, Call, Issue
      <3> QED BY <1>0, <2>1, <2>2, <3>1, QuietStep
    <2>4. CASE ~(nc > 0)
      <3>1. /\ st' = [st EXCEPT ![BUFFER] = NoOp] /\ pc' = [pc EXCEPT ![BUFFER] = "last"]
            /\ running' = [running EXCEPT ![BUFFER] = FALSE]
        <4>1. st[BUFFER] = NoOp /\ st' = st /\ pc' = pc /\ pc[BUFFER] = "last"
              /\ running' = [running EXCEPT ![BUFFER] = FALSE]
          BY <1>8, <2>4 DEF Last, Stop, At
        <4>2. pc = [pc EXCEPT ![BUFFER] = "last"]
          BY <4>1 DEF Inv, Types
        <4> QED BY <1>1, <4>1, <4>2
      <3> QED BY <1>0, <2>1, <2>2, <3>1, QuietStep
    <2> QED BY <2>3, <2>4
  <1>9. CASE LastAlt
    <2>1. /\ At(BUFFER, "lastalt") /\ UNCHANGED <<taken, data, k1, ver, bufVars, val, got>>
          /\ np' = np /\ nc' = nc - 1 /\ (ver = 1 => Ended) /\ running' = running
          /\ st' = [st EXCEPT ![BUFFER] = Output(k1[BUFFER], -1)]
          /\ pc' = [pc EXCEPT ![BUFFER] = "last"]
      BY <1>3, <1>9 DEF LastAlt, Call, Issue, bufVars, At
    <2>2. ver = 1 => ct = 0
      BY <2>1 DEF Inv, Counts, At
    <2>3. k1[BUFFER] \in Consumers /\ Waiting(k1[BUFFER])
      <3>1. pc[BUFFER] = "lastalt" /\ st[BUFFER] = NoOp /\ AltFor("lastalt") # NoOp
        BY <1>0, <2>1, Calls DEF At
      <3> QED BY <3>1 DEF Inv, Talks, BufferTalks
    <2>4. np' \in Int /\ nc' \in Int
      BY <1>0, <2>1
    <2>5. \E c \in Consumers : Output(k1[BUFFER], -1) = Output(c, -1) /\ Waiting(c)
      BY <2>3
    <2> QED BY <2>1, <2>2, <2>4, <2>5, QuietStep
  <1> QED BY <1>4, <1>5, <1>6, <1>7, <1>8, <1>9

-----------------------------------------------------------------------------
(* Slots of the ring and lines of consumers. *)

\* Quotient and remainder are what their definition says ...
LEMMA DivMod ==
    ASSUME NEW M \in Nat \ {0}, NEW n \in Nat
    PROVE  n \div M \in Nat /\ n % M \in 0 .. M - 1 /\ n = (n \div M) * M + (n % M)
  OBVIOUS

\* Products with the size of the ring are monotonic.
LEMMA MulMono ==
    ASSUME NEW M \in Nat, NEW a \in Int, NEW b \in Int, a < b
    PROVE  a * M + M <= b * M /\ a * M \in Int /\ b * M \in Int
  OBVIOUS

\* ... and nothing else is.
LEMMA ModUnique ==
    ASSUME NEW M \in Nat \ {0}, NEW n \in Nat, NEW q \in Nat, NEW c \in 0 .. M - 1,
           n = q * M + c
    PROVE  n % M = c
  <1> DEFINE r == n \div M
             d == n % M
  <1>1. r \in Nat /\ d \in 0 .. M - 1 /\ n = r * M + d
    BY DivMod
  <1> HIDE DEF r, d
  <1>2. ~(r < q)
    <2> SUFFICES ASSUME r < q PROVE FALSE
      OBVIOUS
    <2>1. r * M + M <= q * M
      BY <1>1, MulMono
    <2> QED BY <1>1, <2>1
  <1>3. ~(q < r)
    <2> SUFFICES ASSUME q < r PROVE FALSE
      OBVIOUS
    <2>1. q * M + M <= r * M
      BY <1>1, MulMono
    <2> QED BY <1>1, <2>1
  <1>4. r = q
    BY <1>1, <1>2, <1>3
  <1>5. d = c
    BY <1>1, <1>4
  <1> QED BY <1>5 DEF d

\* The next slot is the slot of the next value.
LEMMA ModSucc ==
    ASSUME NEW M \in Nat \ {0}, NEW n \in Nat
    PROVE  ((n % M) + 1) % M = (n + 1) % M
  <1> DEFINE q == n \div M
             c == n % M
  <1>1. q \in Nat /\ c \in 0 .. M - 1 /\ n = q * M + c
    BY DivMod
  <1> HIDE DEF q, c
  <1>2. CASE c + 1 < M
    <2>1. c + 1 \in 0 .. M - 1 /\ n + 1 \in Nat /\ c + 1 \in Nat
      BY <1>1, <1>2
    <2>2. n + 1 = q * M + (c + 1) /\ c + 1 = 0 * M + (c + 1)
      BY <1>1
    <2>3. (n + 1) % M = c + 1
      BY <1>1, <2>1, <2>2, ModUnique
    <2>4. (c + 1) % M = c + 1
      BY <2>1, <2>2, ModUnique
    <2> QED BY <2>3, <2>4 DEF c
  <1>3. CASE c + 1 = M
    <2>1. 0 \in 0 .. M - 1 /\ n + 1 \in Nat /\ q + 1 \in Nat /\ M \in Nat /\ 1 \in Nat
      BY <1>1
    <2>2. n + 1 = (q + 1) * M + 0 /\ M = 1 * M + 0
      BY <1>1, <1>3
    <2>3. (n + 1) % M = 0
      BY <2>1, <2>2, ModUnique
    <2>4. M % M = 0
      BY <2>1, <2>2, ModUnique
    <2> QED BY <1>3, <2>3, <2>4 DEF c
  <1> QED BY <1>1, <1>2, <1>3

\* Values that are in the buffer together have slots of their own.
LEMMA ModApart ==
    ASSUME NEW M \in Nat \ {0}, NEW a \in Nat, NEW b \in Nat, a < b, b < a + M
    PROVE  a % M # b % M
  <1> SUFFICES ASSUME a % M = b % M PROVE FALSE
    OBVIOUS
  <1> DEFINE q == a \div M
             p == b \div M
             c == a % M
  <1>1. /\ q \in Nat /\ p \in Nat /\ c \in 0 .. M - 1
        /\ a = q * M + c /\ b = p * M + c
    BY DivMod
  <1> HIDE DEF q, p, c
  <1>2. CASE q < p
    <2>1. q * M + M <= p * M /\ q * M \in Int /\ p * M \in Int
      BY <1>1, <1>2, MulMono
    <2> QED BY <1>1, <2>1
  <1>3. CASE p < q
    <2>1. p * M + M <= q * M /\ q * M \in Int /\ p * M \in Int
      BY <1>1, <1>3, MulMono
    <2> QED BY <1>1, <2>1
  <1>4. CASE p = q
    BY <1>1, <1>4
  <1> QED BY <1>1, <1>2, <1>3, <1>4

\* The next value joins the line of some consumer.
LEMMA LinesAppend ==
    ASSUME NEW L, NEW K, NEW n \in Nat, Lines(L, n), NEW c \in Proc,
           K[c] = Append(L[c], n), \A p \in Proc : p # c => K[p] = L[p]
    PROVE  Lines(K, n + 1)
  <1>0. /\ \A p \in Proc : L[p] \in Seq(Int) /\ Len(L[p]) <= n
        /\ \A p, q \in Proc : \A j \in 1 .. Len(L[p]), k \in 1 .. Len(L[q]) :
              L[p][j] = L[q][k] => p = q /\ j = k
    BY Zenon DEF Lines
  <1>1. \A p \in Proc : L[p] \in Seq(Int) /\ Len(L[p]) \in Nat /\ Len(L[p]) <= n
    <2>1. \A s \in Seq(Int) : Len(s) \in Nat
      OBVIOUS
    <2> QED BY <1>0, <2>1, Zenon
  <1>2. /\ K[c] \in Seq(Int) /\ Len(K[c]) = Len(L[c]) + 1
        /\ \A k \in 1 .. Len(L[c]) : K[c][k] = L[c][k]
        /\ K[c][Len(L[c]) + 1] = n
    BY <1>1
  <1>3. ASSUME NEW p \in Proc PROVE K[p] \in Seq(Int) /\ Len(K[p]) <= n + 1
    <2>1. CASE p = c
      <3>1. Len(L[c]) \in Nat /\ Len(L[c]) <= n /\ Len(K[c]) = Len(L[c]) + 1
        BY <1>1, <1>2
      <3>2. Len(K[c]) <= n + 1
        BY <3>1
      <3> QED BY <1>2, <2>1, <3>2
    <2>2. CASE p # c
      <3>1. K[p] = L[p] /\ Len(L[p]) \in Nat /\ L[p] \in Seq(Int) /\ Len(L[p]) <= n
        BY <1>1, <2>2
      <3> QED BY <3>1
    <2> QED BY <2>1, <2>2
  <1>4. ASSUME NEW p \in Proc, NEW k \in 1 .. Len(K[p])
        PROVE  \/ p = c /\ k = Len(L[c]) + 1 /\ K[p][k] = n
               \/ k \in 1 .. Len(L[p]) /\ K[p][k] = L[p][k] /\ K[p][k] \in 0 .. n - 1
    <2>1. CASE p = c /\ k = Len(L[c]) + 1
      BY <1>2, <2>1
    <2>2. CASE ~(p = c /\ k = Len(L[c]) + 1)
      <3>1. k \in 1 .. Len(L[p]) /\ K[p][k] = L[p][k]
        <4>1. CASE p # c
          <5>1. K[p] = L[p]
            BY <4>1
          <5> QED BY <5>1
        <4>2. CASE p = c
          <5>1. Len(L[c]) \in Nat /\ k \in 1 .. Len(L[c]) + 1 /\ k # Len(L[c]) + 1
            BY <1>1, <1>2, <2>2, <4>2
          <5>2. k \in 1 .. Len(L[c])
            BY <5>1
          <5> QED BY <1>2, <4>2, <5>2
        <4> QED BY <4>1, <4>2
      <3>2. L[p][k] \in 0 .. n - 1
        BY <3>1 DEF Lines
      <3> QED BY <3>1, <3>2
    <2> QED BY <2>1, <2>2
  <1>5. \A p \in Proc : \A k \in 1 .. Len(K[p]) : K[p][k] \in 0 .. n
    BY <1>4
  <1>6. ASSUME NEW p \in Proc, NEW k \in 2 .. Len(K[p]) PROVE K[p][k - 1] < K[p][k]
    <2>1. k \in 1 .. Len(K[p]) /\ k - 1 \in 1 .. Len(K[p]) /\ Len(K[p]) \in Nat
      BY <1>3
    <2>2. k - 1 \in 1 .. Len(L[p]) /\ K[p][k - 1] = L[p][k - 1] /\ K[p][k - 1] \in 0 .. n - 1
      <3>1. ~(p = c /\ k - 1 = Len(L[c]) + 1)
        <4>1. p = c => k <= Len(L[c]) + 1 /\ Len(L[c]) \in Nat
          BY <1>1, <1>2, <2>1
        <4> QED BY <4>1
      <3> QED BY <1>4, <2>1, <3>1
    <2>3. CASE K[p][k] = n
      BY <2>2, <2>3
    <2>4. CASE k \in 1 .. Len(L[p]) /\ K[p][k] = L[p][k]
      <3>1. k \in 2 .. Len(L[p])
        BY <2>4
      <3>2. L[p][k - 1] < L[p][k]
        BY <3>1 DEF Lines
      <3> QED BY <2>2, <2>4, <3>2
    <2> QED BY <1>4, <2>1, <2>3, <2>4
  <1>7. ASSUME NEW p \in Proc, NEW q \in Proc, NEW j \in 1 .. Len(K[p]),
               NEW k \in 1 .. Len(K[q]), K[p][j] = K[q][k]
        PROVE  p = q /\ j = k
    <2>1. CASE K[p][j] = n
      <3>1. ~(K[p][j] \in 0 .. n - 1) /\ ~(K[q][k] \in 0 .. n - 1)
        BY <1>7, <2>1
      <3> QED BY <1>4, <3>1
    <2>2. CASE K[p][j] # n
      <3>1. /\ j \in 1 .. Len(L[p]) /\ K[p][j] = L[p][j]
            /\ k \in 1 .. Len(L[q]) /\ K[q][k] = L[q][k]
        BY <1>4, <1>7, <2>2
      <3>2. L[p][j] = L[q][k]
        BY <1>7, <3>1
      <3> QED BY <1>0, <3>1, <3>2
    <2> QED BY <2>1, <2>2
  <1>8. ASSUME NEW v \in 0 .. n PROVE \E p \in Proc : \E k \in 1 .. Len(K[p]) : K[p][k] = v
    <2>1. CASE v = n
      <3>1. Len(L[c]) + 1 \in 1 .. Len(K[c])
        BY <1>1, <1>2
      <3> QED BY <1>2, <2>1, <3>1
    <2>2. CASE v # n
      <3>0. v \in 0 .. n - 1
        BY <2>2
      <3>1. PICK p \in Proc : \E k \in 1 .. Len(L[p]) : L[p][k] = v
        BY <3>0 DEF Lines
      <3>2. PICK k \in 1 .. Len(L[p]) : L[p][k] = v
        BY <3>1
      <3>3. k \in 1 .. Len(K[p]) /\ K[p][k] = v
        <4>1. CASE p # c
          <5>1. K[p] = L[p]
            BY <4>1
          <5> QED BY <3>2, <5>1
        <4>2. CASE p = c
          <5>1. Len(L[c]) \in Nat /\ k \in 1 .. Len(L[c]) /\ k \in 1 .. Len(L[c]) + 1
            BY <1>1, <3>2, <4>2
          <5> QED BY <1>2, <3>2, <4>2, <5>1
        <4> QED BY <4>1, <4>2
      <3> QED BY <3>3
    <2> QED BY <2>1, <2>2
  <1>9. 0 .. (n + 1) - 1 = 0 .. n
    OBVIOUS
  <1>10. /\ \A p \in Proc : \A k \in 1 .. Len(K[p]) : K[p][k] \in 0 .. (n + 1) - 1
         /\ \A v \in 0 .. (n + 1) - 1 : \E p \in Proc : \E k \in 1 .. Len(K[p]) : K[p][k] = v
    BY <1>5, <1>8, <1>9, Zenon
  <1>11. \A p, q \in Proc : \A j \in 1 .. Len(K[p]), k \in 1 .. Len(K[q]) :
            K[p][j] = K[q][k] => p = q /\ j = k
    BY <1>7
  <1> QED BY <1>3, <1>6, <1>10, <1>11, Zenon DEF Lines

-----------------------------------------------------------------------------
(* The buffer process stores and serves. *)

\* What has been stored and not been served is in the buffer.
LEMMA Numbers ==
    ASSUME Inv, ver = 1
    PROVE  /\ Received \in Int /\ Stored \in Nat /\ Served \in Nat /\ ct \in 0 .. MAXELEM
           /\ Served = Stored - ct /\ Stored = Served + ct /\ MAXELEM \in Nat \ {0}
  <1>1. /\ 0 \in Proc /\ ct \in Int /\ Served >= 0 /\ ct <= MAXELEM /\ ct >= 0
        /\ val[0] \in Nat /\ MAXELEM \in Nat \ {0}
    BY Roles, DProdConsAssumption DEF Inv, Types, Counts, Delivered, Produced
  <1>2. Received \in Int
    BY <1>1 DEF Received
  <1>3. Stored \in Int
    BY <1>2 DEF Stored
  <1>4. Served = Stored - ct
    BY DEF Served
  <1> QED BY <1>1, <1>2, <1>3, <1>4

\* A value is stored in its slot.
LEMMA StoreStep == ASSUME Inv, Stores PROVE Inv'
  <1>0. /\ ver \in {1, 2} /\ ver \in Versions /\ BUFFER \in Proc /\ NoOp.op # "OUT"
        /\ 0 \in Proc /\ 0 # BUFFER /\ MAXELEM \in Nat \ {0}
        /\ Consumers \subseteq Proc /\ BUFFER \notin Consumers
    BY Roles, DProdConsAssumption DEF Inv, Types
  <1>1. /\ pc[BUFFER] = "input" /\ running[BUFFER] /\ st[BUFFER] = NoOp /\ data[BUFFER] >= 0
        /\ st' = [st EXCEPT ![BUFFER] = Alt(Consumers, TRUE)]
        /\ pc' = [pc EXCEPT ![BUFFER] = "alt"]
        /\ buf' = [buf EXCEPT ![tl] = data[BUFFER]]
        /\ tl' = (tl + 1) % MAXELEM /\ ct' = ct + 1 /\ hd' = hd
        /\ UNCHANGED <<running, taken, data, k1, ver, np, nc, val, got>>
    BY DEF Stores, At, enqueue, Call, Issue
  <1>2. data[BUFFER] \in Int /\ ~taken[BUFFER]
    <2>1. (\A c, d : Output(c, d) # NoOp) /\ AltFor("input") # NoOp
      BY <1>0, Calls
    <2> QED BY <1>1, <2>1 DEF Inv, Talks, BufferTalks
  <1>3. Alt(Consumers, TRUE) = AltFor("alt") /\ Alt(Consumers, TRUE) # NoOp
        /\ Alt(Consumers, TRUE).op = "ALT"
    BY <1>0, Calls DEF AltFor
  <1>4. /\ st'[BUFFER] = AltFor("alt") /\ pc'[BUFFER] = "alt"
        /\ \A q \in Proc : q # BUFFER => Same(q)
    BY <1>0, <1>1, <1>3 DEF Inv, Types, Same
  <1>5. Types'
    <2>1. tl' \in Slots
      BY <1>0, <1>1 DEF Inv, Types, Slots
    <2>2. buf' \in [Slots -> Int]
      BY <1>1, <1>2 DEF Inv, Types
    <2>3. st' = [q \in Proc |-> st'[q]] /\ pc' = [q \in Proc |-> pc'[q]]
      <3>1. st = [q \in Proc |-> st[q]] /\ pc = [q \in Proc |-> pc[q]]
        BY DEF Inv, Types
      <3> QED BY <1>1, <3>1
    <2>4. ct' \in Int
      BY <1>1 DEF Inv, Types
    <2> QED BY <1>1, <2>1, <2>2, <2>3, <2>4 DEF Inv, Types
  <1>6. Talks'
    <2>1. AltFor("alt")' = AltFor("alt")
      BY <1>1 DEF AltFor, Input, Alt, Producers, Consumers
    <2>2. BufferTalks'
      BY <1>1, <1>2, <1>4, <2>1 DEF BufferTalks, BufferLabels
    <2> QED BY <1>1, <1>4, <2>2, TalksBuffer DEF Inv
  <1>7. Counts'
    <2>1. ct \in Int /\ ct < MAXELEM /\ (ver = 1 => ct >= 0)
      BY <1>1 DEF Inv, Types, Counts
    <2> QED BY <1>0, <1>1, <1>4, <2>1 DEF Counts
  <1>8. Delivered'
    <2> SUFFICES ASSUME ver = 1 PROVE Delivered'
      BY <1>1 DEF Delivered
    <2>1. /\ Received \in Int /\ Stored \in Nat /\ Served \in Nat /\ ct \in 0 .. MAXELEM
          /\ Served = Stored - ct /\ Stored = Served + ct
      BY Numbers
    <2>2. ct < MAXELEM /\ data[BUFFER] = Stored
      BY <1>1 DEF Inv, Counts, Delivered, Produced
    <2>3. Received' = Received /\ Stored = Received - 1
      BY <1>0, <1>1, <1>4 DEF Received, Stored, Same
    <2>4. Stored' = Received' - 0
      BY <1>4 DEF Stored
    <2>5. Stored' = Stored + 1 /\ Served' = Served
      <3>1. Served' = Stored' - ct'
        BY DEF Served
      <3> QED BY <1>1, <2>1, <2>3, <2>4, <3>1
    <2>6. Ring'
      <3> DEFINE S == Stored
                 V == Served
      <3>1. S \in Nat /\ V \in Nat /\ S = V + ct /\ ct \in Nat /\ ct < MAXELEM
        BY <2>1, <2>2
      <3>2. /\ hd = V % MAXELEM /\ tl = S % MAXELEM
            /\ \A v \in V .. S - 1 : buf[v % MAXELEM] = v
        BY DEF Inv, Delivered, Ring
      <3> HIDE DEF S, V
      <3>3. tl' = (S + 1) % MAXELEM
        BY <1>0, <1>1, <3>1, <3>2, ModSucc
      <3>4. ASSUME NEW v \in V .. S PROVE buf'[v % MAXELEM] = v
        <4>1. v \in Nat /\ v % MAXELEM \in Slots /\ tl \in Slots /\ buf \in [Slots -> Int]
          <5>1. v \in Nat
            BY <3>1
          <5>2. v % MAXELEM \in Slots
            BY <1>0, <5>1, DivMod DEF Slots
          <5> QED BY <5>1, <5>2 DEF Inv, Types
        <4>2. CASE v = S
          <5>1. data[BUFFER] = S
            BY <2>2 DEF S
          <5> QED BY <1>1, <3>2, <4>1, <4>2, <5>1
        <4>3. CASE v # S
          <5>1. v < S /\ S < v + MAXELEM /\ v \in V .. S - 1
            BY <1>0, <3>1, <4>3
          <5>2. v % MAXELEM # tl
            BY <1>0, <3>1, <3>2, <4>1, <5>1, ModApart
          <5> QED BY <1>1, <3>2, <4>1, <5>1, <5>2
        <4> QED BY <4>2, <4>3
      <3>5. Stored' = S + 1 /\ Served' = V
        BY <2>5 DEF S, V
      <3>7. hd' = Served' % MAXELEM /\ tl' = Stored' % MAXELEM
        BY <1>1, <3>2, <3>3, <3>5
      <3>8. \A v \in Served' .. Stored' - 1 : buf'[v % MAXELEM] = v
        <4>1. Served' .. Stored' - 1 = V .. S
          <5>1. \A x, y \in Int : x = S + 1 /\ y = V => y .. x - 1 = V .. S
            BY <3>1
          <5>2. Stored' \in Int /\ Served' \in Int
            BY <3>1, <3>5
          <5> QED BY <3>5, <5>1, <5>2, Zenon
        <4>2. \A v \in V .. S : buf'[v % MAXELEM] = v
          BY <3>4
        <4> QED BY <4>1, <4>2, Zenon
      <3> QED BY <3>7, <3>8 DEF Ring
    <2>7. Produced'
      <3>1. val'[0] <= MAXVAL
        BY <1>1 DEF Inv, Delivered, Produced
      <3>2. Served' >= 0
        BY <2>1, <2>5
      <3> QED BY <1>1, <1>4, <3>1, <3>2 DEF Produced
    <2>8. Lines(Line1, Served)'
      <3>1. \A q : ~OnItsWay(q) /\ ~OnItsWay(q)'
        BY <1>0, <1>1, <1>3, <1>4 DEF OnItsWay
      <3>2. \A q \in Proc : Line(q)' = Line(q)
        <4> SUFFICES ASSUME NEW q \in Proc PROVE Line(q)' = Line(q)
          OBVIOUS
        <4>1. InHand(q)' <=> InHand(q)
          <5>1. CASE q = BUFFER
            BY <1>1, <1>4, <5>1 DEF InHand
          <5>2. CASE q # BUFFER
            BY <1>4, <5>2 DEF InHand, Same
          <5> QED BY <5>1, <5>2
        <4> QED BY <1>1, <3>1, <4>1 DEF Line
      <3>3. Line1' = Line1
        BY <3>2 DEF Line1
      <3>4. Lines(Line1', Served')
        BY <2>5, <3>3 DEF Inv, Delivered
      <3> QED BY <3>4 DEF Lines
    <2>9. Stops'
      <3>1. Consumers' = Consumers
        BY <1>1 DEF Consumers, Producers
      <3> QED BY <1>0, <1>4, <3>1 DEF Inv, Delivered, Stops, Same
    <2> QED BY <2>6, <2>7, <2>8, <2>9 DEF Delivered
  <1> QED BY <1>5, <1>6, <1>7, <1>8 DEF Inv

\* A consumer that waits is given the value at the head.
LEMMA ServeStep ==
    ASSUME Inv, NEW l, NEW next, Serves(l, next),
           (l = "alt" /\ next = "top") \/ (l = "remalt" /\ next = "rem")
    PROVE  Inv'
  <1>p. PICK c, w : c = k1[BUFFER] /\ w = buf[hd]
    OBVIOUS
  <1>0. /\ ver \in {1, 2} /\ ver \in Versions /\ BUFFER \in Proc /\ NoOp.op # "OUT"
        /\ 0 \in Proc /\ 0 # BUFFER /\ MAXELEM \in Nat \ {0}
        /\ Consumers \subseteq Proc /\ BUFFER \notin Consumers
    BY Roles, DProdConsAssumption DEF Inv, Types
  <1>1. /\ pc[BUFFER] = l /\ running[BUFFER] /\ st[BUFFER] = NoOp /\ c # None
        /\ st' = [st EXCEPT ![BUFFER] = Output(c, w)]
        /\ pc' = [pc EXCEPT ![BUFFER] = next]
        /\ hd' = (hd + 1) % MAXELEM /\ ct' = ct - 1 /\ tl' = tl /\ buf' = buf
        /\ UNCHANGED <<running, taken, data, k1, ver, np, nc, val, got>>
    BY <1>p DEF Serves, At, dequeue, Call, Issue
  <1>2. c \in Consumers /\ Waiting(c) /\ ~taken[BUFFER]
    <2>1. (\A x, d : Output(x, d) # NoOp) /\ AltFor(l) # NoOp
      BY <1>0, Calls
    <2> QED BY <1>p, <1>1, <2>1 DEF Inv, Talks, BufferTalks
  <1>3. w \in Int
    BY <1>p DEF Inv, Types
  <1>4. /\ Output(c, w).op = "OUT" /\ Output(c, w).corr = c /\ Output(c, w).data = w
        /\ Output(c, w) # NoOp
    BY <1>0, Calls
  <1>5. /\ st'[BUFFER] = Output(c, w) /\ pc'[BUFFER] = next
        /\ \A q \in Proc : q # BUFFER => Same(q)
    BY <1>0, <1>1 DEF Inv, Types, Same
  <1>6. Types'
    <2>1. hd' \in Slots
      BY <1>0, <1>1 DEF Inv, Types, Slots
    <2>2. st' = [q \in Proc |-> st'[q]] /\ pc' = [q \in Proc |-> pc'[q]]
      <3>1. st = [q \in Proc |-> st[q]] /\ pc = [q \in Proc |-> pc[q]]
        BY DEF Inv, Types
      <3> QED BY <1>1, <3>1
    <2>3. ct' \in Int
      BY <1>1 DEF Inv, Types
    <2> QED BY <1>1, <2>1, <2>2, <2>3 DEF Inv, Types
  <1>7. Talks'
    <2>1. Waiting(c)'
      BY <1>0, <1>2, <1>5 DEF Waiting, Same, Output, Input
    <2>2. Consumers' = Consumers
      BY <1>1 DEF Producers, Consumers
    <2>3. BufferTalks'
      BY <1>1, <1>2, <1>3, <1>4, <1>5, <2>1, <2>2 DEF BufferTalks, BufferLabels, Output
    <2> QED BY <1>1, <1>5, <2>3, TalksBuffer DEF Inv
  <1>8. Counts'
    <2>1. ct \in Int /\ ct <= MAXELEM /\ (ver = 1 => ct > 0)
      BY <1>0, <1>1 DEF Inv, Types, Counts
    <2> QED BY <1>0, <1>1, <1>5, <2>1 DEF Counts
  <1>9. Delivered'
    <2> SUFFICES ASSUME ver = 1 PROVE Delivered'
      BY <1>1 DEF Delivered
    <2>1. /\ Received \in Int /\ Stored \in Nat /\ Served \in Nat /\ ct \in 0 .. MAXELEM
          /\ Served = Stored - ct /\ Stored = Served + ct
      BY Numbers
    <2>2. ct > 0
      BY <1>1 DEF Inv, Counts
    <2>3. Received' = Received /\ Stored = Received - 0 /\ Stored' = Received' - 0
      <3>1. Received' = Received
        BY <1>0, <1>1, <1>5 DEF Received, Same
      <3>2. Stored = Received - 0
        BY <1>1 DEF Stored
      <3>3. Stored' = Received' - 0
        BY <1>5 DEF Stored
      <3> QED BY <3>1, <3>2, <3>3
    <2>4. Stored' = Stored /\ Served' = Served + 1
      <3>1. Served' = Stored' - ct'
        BY DEF Served
      <3> QED BY <1>1, <2>1, <2>3, <3>1
    <2> DEFINE S == Stored
               V == Served
    <2>5. /\ hd = V % MAXELEM /\ tl = S % MAXELEM
          /\ \A v \in V .. S - 1 : buf[v % MAXELEM] = v
      BY DEF Inv, Delivered, Ring
    <2>6. S \in Nat /\ V \in Nat /\ S = V + ct /\ ct \in Nat
      BY <2>1
    <2>7. Stored' = S /\ Served' = V + 1
      BY <2>4
    <2>8. w = V
      <3>1. V \in V .. S - 1
        BY <2>2, <2>6
      <3> QED BY <1>p, <2>5, <3>1
    <2>9. Lines(Line1, V)
      BY DEF Inv, Delivered
    <2> HIDE DEF S, V
    <2>10. Ring'
      <3>1. hd' = (V + 1) % MAXELEM
        BY <1>0, <1>1, <2>5, <2>6, ModSucc
      <3>2. \A x, y \in Int : x = S /\ y = V + 1 => y .. x - 1 \subseteq V .. S - 1
        BY <2>6
      <3>3. Stored' \in Int /\ Served' \in Int
        BY <2>6, <2>7
      <3>4. Served' .. Stored' - 1 \subseteq V .. S - 1
        BY <2>7, <3>2, <3>3, Zenon
      <3>5. \A v \in Served' .. Stored' - 1 : buf'[v % MAXELEM] = v
        BY <1>1, <2>5, <3>4
      <3>6. hd' = Served' % MAXELEM /\ tl' = Stored' % MAXELEM
        BY <1>1, <2>5, <2>7, <3>1
      <3> QED BY <3>5, <3>6 DEF Ring
    <2>11. Produced'
      <3>1. val'[0] <= MAXVAL
        BY <1>1 DEF Inv, Delivered, Produced
      <3>2. Served' >= 0
        BY <2>6, <2>7
      <3>3. l = "remalt" => Ended'
        <4>1. l = "remalt" => Ended
          BY <1>1 DEF Inv, Delivered, Produced
        <4> QED BY <1>0, <1>5, <4>1 DEF Ended, Same
      <3> QED BY <1>1, <1>5, <3>1, <3>2, <3>3 DEF Produced
    <2>12. Lines(Line1, Served)'
      <3>1. \A q : ~OnItsWay(q)
        BY <1>0, <1>1 DEF OnItsWay
      <3>2. \A q : OnItsWay(q)' <=> q = c
        <4>1. w >= 0 /\ ~taken'[BUFFER]
          BY <1>1, <1>2, <2>6, <2>8
        <4> QED BY <1>4, <1>5, <4>1 DEF OnItsWay
      <3>3. c \in Proc /\ ~InHand(c) /\ got'[c] = got[c]
        <4>1. Input(BUFFER) # NoOp
          BY <1>0, Calls
        <4> QED BY <1>0, <1>1, <1>2, <4>1 DEF InHand, Waiting
      <3>4. Line(c) = got[c] /\ Line(c)' = Append(got[c], V)
        <4>1. Line(c) = got[c]
          BY <3>1, <3>3 DEF Line
        <4>2. st'[BUFFER].data = V
          BY <1>4, <1>5, <2>8
        <4>3. OnItsWay(c)'
          BY <3>2
        <4>4. Line(c)' = Append(got'[c], st'[BUFFER].data)
          BY <4>3 DEF Line
        <4> QED BY <3>3, <4>1, <4>2, <4>4
      <3>5. ASSUME NEW q \in Proc, q # c PROVE Line(q)' = Line(q)
        <4>1. InHand(q)' <=> InHand(q)
          <5>1. CASE q = BUFFER
            BY <1>1, <1>5, <5>1 DEF InHand
          <5>2. CASE q # BUFFER
            BY <1>5, <5>2 DEF InHand, Same
          <5> QED BY <5>1, <5>2
        <4> QED BY <1>1, <3>1, <3>2, <3>5, <4>1 DEF Line
      <3>6. /\ Line1'[c] = Append(Line1[c], V)
            /\ \A q \in Proc : q # c => Line1'[q] = Line1[q]
        BY <3>3, <3>4, <3>5 DEF Line1
      <3>7. Lines(Line1', V + 1)
        BY <2>6, <2>9, <3>3, <3>6, LinesAppend
      <3>8. Lines(Line1', Served')
        BY <2>7, <3>7
      <3> QED BY <3>8 DEF Lines
    <2>13. Stops'
      <3>1. Consumers' = Consumers
        BY <1>1 DEF Consumers, Producers
      <3> QED BY <1>0, <1>5, <3>1 DEF Inv, Delivered, Stops, Same
    <2> QED BY <2>10, <2>11, <2>12, <2>13 DEF Delivered
  <1> QED BY <1>6, <1>7, <1>8, <1>9 DEF Inv

-----------------------------------------------------------------------------
(* A message passes. *)

\* What a message changes: the output of s has been taken, the call of r ends.
Passed(s, r) ==
    /\ s # r /\ st'[r] = NoOp /\ data'[r] = st[s].data /\ taken'[s] /\ taken'[r] = taken[r]
    /\ st'[s] = st[s] /\ data'[s] = data[s] /\ k1'[s] = k1[s]
    /\ (st[r].op = "ALT" => k1'[r] = s) /\ (st[r].op # "ALT" => k1'[r] = k1[r])
    /\ \A q \in Proc : q # s /\ q # r => Same(q)
    /\ UNCHANGED <<running, pc, ver, bufVars, np, nc, val, got>>

\* Who can talk to whom.
LEMMA PassFacts ==
    ASSUME Inv, NEW s \in Proc, NEW r \in Proc, Pass(s, r), UNCHANGED progVars
    PROVE  /\ Types' /\ Passed(s, r) /\ st[s].op = "OUT" /\ st[s].corr = r /\ ~taken[s]
           /\ \/ /\ s \in Producers /\ r = BUFFER /\ pc[BUFFER] = "input"
                 /\ st[BUFFER] = AltFor("input")
              \/ /\ s \in Consumers /\ r = BUFFER /\ st[r].op = "ALT"
                 /\ pc[BUFFER] \in {"alt", "remalt", "lastalt"}
                 /\ st[BUFFER] = AltFor(pc[BUFFER])
              \/ /\ s = BUFFER /\ r \in Consumers /\ pc[r] = "consume"
                 /\ st[r] = Input(BUFFER) /\ ~taken[r]
                 /\ pc[BUFFER] \in {"top", "rem", "last"} /\ st[BUFFER].data \in Int
  <1>0. /\ ver \in Versions /\ ver \in {1, 2} /\ BUFFER \in Proc
        /\ NoOp.op \notin {"IN", "OUT", "ALT"}
        /\ Proc = Producers \cup Consumers \cup {BUFFER} /\ 0 \in Producers
        /\ BUFFER \notin Producers /\ BUFFER \notin Consumers
        /\ Producers \cap Consumers = {}
    BY Roles DEF Inv, Types
  <1>1. /\ st[s].op = "OUT" /\ st[s].corr = r /\ ~taken[s]
        /\ (st[r].op = "IN" /\ st[r].corr = s) \/ (st[r].op = "ALT" /\ s \in st[r].cl)
        /\ data' = [data EXCEPT ![r] = st[s].data]
        /\ k1' = IF st[r].op = "ALT" THEN [k1 EXCEPT ![r] = s] ELSE k1
        /\ st' = [st EXCEPT ![r] = NoOp] /\ taken' = [taken EXCEPT ![s] = TRUE]
        /\ UNCHANGED <<running, pc, ver, bufVars, np, nc, val, got>>
    BY DEF Pass, Offers, Accepts, progVars
  <1>2. /\ \A p, d : Output(p, d).op = "OUT" /\ Output(p, d).corr = p
        /\ \A p : Input(p).op = "IN" /\ Input(p).corr = p
        /\ \A S, df : Alt(S, df).op = "ALT" /\ Alt(S, df).cl = S
    BY <1>0, Calls
  <1>3. s # r
    BY <1>1
  <1>4. k1' = [q \in Proc |-> k1'[q]] /\ data' = [q \in Proc |-> data'[q]]
        /\ st' = [q \in Proc |-> st'[q]]
    BY <1>1 DEF Inv, Types
  <1>5. Types'
    BY <1>1, <1>4 DEF Inv, Types, bufVars
  <1>6. Passed(s, r)
    <2>1. /\ st'[r] = NoOp /\ data'[r] = st[s].data /\ taken'[s] /\ taken'[r] = taken[r]
          /\ st'[s] = st[s] /\ data'[s] = data[s]
      BY <1>1, <1>3 DEF Inv, Types
    <2>2. /\ k1'[s] = k1[s] /\ (st[r].op = "ALT" => k1'[r] = s)
          /\ (st[r].op # "ALT" => k1'[r] = k1[r])
      BY <1>1, <1>3 DEF Inv, Types
    <2>3. \A q \in Proc : q # s /\ q # r => Same(q)
      BY <1>1 DEF Inv, Types, Same
    <2> QED BY <1>1, <1>3, <2>1, <2>2, <2>3 DEF Passed
  <1>7. CASE s = BUFFER
    <2>1. /\ pc[BUFFER] \in {"top", "rem", "last"} /\ r \in Consumers
          /\ st[BUFFER].data \in Int /\ Waiting(r)
      BY <1>1, <1>7, Customer DEF Inv
    <2>2. ConsumerTalks(r)
      BY <2>1 DEF Inv, Talks
    <2>3. st[r].op \in {"IN", "ALT"}
      BY <1>1
    <2>4. pc[r] = "consume" /\ st[r] = Input(BUFFER) /\ ~taken[r]
      BY <1>0, <1>2, <2>2, <2>3 DEF ConsumerTalks
    <2> QED BY <1>1, <1>5, <1>6, <1>7, <2>1, <2>4
  <1>8. CASE s # BUFFER
    <2>1. r = BUFFER
      <3>1. CASE s \in Producers
        <4>1. ProducerTalks(s)
          BY <3>1 DEF Inv, Talks
        <4> QED BY <1>0, <1>1, <1>2, <4>1 DEF ProducerTalks
      <3>2. CASE s \in Consumers
        <4>1. ConsumerTalks(s)
          BY <3>2 DEF Inv, Talks
        <4> QED BY <1>0, <1>1, <1>2, <4>1 DEF ConsumerTalks
      <3> QED BY <1>0, <1>8, <3>1, <3>2
    <2>2. st[BUFFER].op \in {"IN", "ALT"}
      BY <1>1, <2>1
    <2>3. /\ pc[BUFFER] \in {"input", "alt", "remalt", "lastalt"}
          /\ st[BUFFER] = AltFor(pc[BUFFER])
      BY <1>0, <1>2, <2>2 DEF Inv, Talks, BufferTalks
    <2>4. CASE pc[BUFFER] = "input"
      <3>1. st[BUFFER] = IF ver = 1 THEN Input(0) ELSE Alt(Producers, FALSE)
        BY <2>3, <2>4 DEF AltFor
      <3>2. s \in Producers
        <4>0. \/ st[BUFFER].op = "IN" /\ st[BUFFER].corr = s
              \/ st[BUFFER].op = "ALT" /\ s \in st[BUFFER].cl
          BY <1>1, <2>1
        <4>1. CASE st[BUFFER] = Input(0)
          BY <1>0, <1>2, <4>0, <4>1
        <4>2. CASE st[BUFFER] = Alt(Producers, FALSE)
          <5>1. st[BUFFER].op = "ALT" /\ st[BUFFER].cl = Producers
            BY <4>2 DEF Alt
          <5> QED BY <4>0, <5>1
        <4> QED BY <3>1, <4>1, <4>2
      <3> QED BY <1>1, <1>5, <1>6, <2>1, <2>3, <2>4, <3>2
    <2>5. CASE pc[BUFFER] # "input"
      <3>1. st[BUFFER] = Alt(Consumers, pc[BUFFER] = "alt")
        BY <2>3, <2>5 DEF AltFor
      <3>2. s \in Consumers /\ st[BUFFER].op = "ALT"
        BY <1>0, <1>1, <1>2, <2>1, <3>1
      <3> QED BY <1>1, <1>5, <1>6, <2>1, <2>3, <2>5, <3>2
    <2> QED BY <2>4, <2>5
  <1> QED BY <1>7, <1>8

\* The buffer process receives a value, or the -1.
LEMMA ReceiveStep ==
    ASSUME Inv, Types', NEW s \in Producers, Passed(s, BUFFER), ~taken[s],
           st[s].op = "OUT", pc[BUFFER] = "input", st[BUFFER] = AltFor("input")
    PROVE  Inv'
  <1>0. /\ ver \in Versions /\ ver \in {1, 2} /\ (ver = 1 => Producers = {0}) /\ BUFFER \in Proc
        /\ NoOp.op # "OUT" /\ Producers \subseteq Proc /\ Consumers \subseteq Proc
        /\ Producers \cap Consumers = {} /\ BUFFER \notin Producers /\ BUFFER \notin Consumers
    BY Roles DEF Inv, Types
  <1>1. /\ st'[BUFFER] = NoOp /\ data'[BUFFER] = st[s].data /\ taken'[BUFFER] = taken[BUFFER]
        /\ st'[s] = st[s] /\ taken'[s] /\ (\A q \in Proc : q # s /\ q # BUFFER => Same(q))
        /\ UNCHANGED <<running, pc, ver, bufVars, np, nc, val, got>>
    BY DEF Passed
  <1>2. st[BUFFER] # NoOp /\ st[BUFFER].op # "OUT" /\ \A c, d : Output(c, d).op = "OUT"
    BY <1>0, Calls
  <1>3. ~taken[BUFFER]
    BY <1>2 DEF Inv, Talks, BufferTalks
  <1>4. ProducerTalks(s)
    BY DEF Inv, Talks
  <1>5. \/ /\ pc[s] = "produce" /\ val[s] >= ver /\ st[s] = Output(BUFFER, val[s] - ver)
           /\ st[s].data = val[s] - ver
        \/ pc[s] = "end" /\ st[s] = Output(BUFFER, -1) /\ st[s].data = -1
    BY <1>0, <1>4, Calls DEF ProducerTalks
  <1>6. data'[BUFFER] \in Int /\ val[s] \in Nat /\ s \in Proc
    <2>1. s \in Proc /\ val[s] \in Nat
      BY <1>0 DEF Inv, Types
    <2>2. val[s] - ver \in Int
      BY <1>0, <2>1
    <2> QED BY <1>1, <1>5, <2>1, <2>2
  <1>7. Producers' = Producers /\ Consumers' = Consumers
    BY <1>1 DEF Producers, Consumers
  <1>8. Talks'
    <2>1. ASSUME NEW p \in Producers PROVE ProducerTalks(p)'
      <3>1. CASE p = s
        BY <1>0, <1>1, <1>4, <1>5, <3>1 DEF ProducerTalks, Output
      <3>2. CASE p # s
        <4>1. Same(p) /\ ProducerTalks(p)
          BY <1>0, <1>1, <3>2 DEF Inv, Talks
        <4> QED BY <1>1, <4>1 DEF Same, ProducerTalks, Output
      <3> QED BY <3>1, <3>2
    <2>2. ASSUME NEW p \in Consumers PROVE ConsumerTalks(p)'
      <3>1. Same(p) /\ ConsumerTalks(p)
        BY <1>0, <1>1 DEF Inv, Talks
      <3> QED BY <3>1 DEF Same, ConsumerTalks, Output, Input
    <2>3. BufferTalks'
      BY <1>1, <1>3, <1>6 DEF BufferTalks, BufferLabels
    <2> QED BY <1>7, <2>1, <2>2, <2>3 DEF Talks
  <1>9. Counts'
    BY <1>1 DEF Inv, Counts, bufVars
  <1>10. Delivered'
    <2>1. ASSUME ver = 1
          PROVE  /\ Stored' = Stored /\ (\A q \in Proc : Line(q)' = Line(q))
                 /\ Produced' /\ Stops'
      <3>0. s = 0 /\ val[0] \in Nat /\ val[0] <= MAXVAL /\ Served >= 0 /\ running[BUFFER]
        BY <1>0, <1>2, <1>6, <2>1 DEF Inv, Delivered, Produced
      <3>1. Stored = Received - 0
        BY <1>2 DEF Stored
      <3>2. ASSUME pc[0] = "produce", val[0] >= 1, st[0].data = val[0] - 1
            PROVE  Stored' = Stored /\ Produced'
        <4>1. Received = val[0] - 1
          BY <3>0, <3>2 DEF Received
        <4>2. Received' = val[0] - 0
          BY <1>1, <3>0, <3>2 DEF Received
        <4>3. data'[BUFFER] = val[0] - 1 /\ data'[BUFFER] >= 0
          BY <1>1, <3>0, <3>2
        <4>4. Stored' = Received' - 1
          BY <1>1, <4>3 DEF Stored
        <4>5. Stored' = Stored /\ data'[BUFFER] = Stored'
          BY <3>0, <3>1, <4>1, <4>2, <4>3, <4>4
        <4>6. Served' = Served
          BY <1>1, <4>5 DEF Served, bufVars
        <4>7. Produced'
          BY <1>1, <3>0, <4>3, <4>5, <4>6 DEF Produced
        <4> QED BY <4>5, <4>7
      <3>3. ASSUME pc[0] = "end", st[0].data = -1
            PROVE  Stored' = Stored /\ Produced'
        <4>1. Received = val[0] - 0
          BY <3>0, <3>3 DEF Received
        <4>2. Received' = val[0] - 0
          BY <1>1, <3>0, <3>3 DEF Received
        <4>3. data'[BUFFER] = -1 /\ ~(data'[BUFFER] >= 0)
          BY <1>1, <3>0, <3>3
        <4>4. Stored' = Received' - 0
          BY <4>3 DEF Stored
        <4>5. Stored' = Stored
          BY <3>0, <3>1, <4>1, <4>2, <4>4
        <4>6. Served' = Served /\ Ended'
          BY <1>1, <3>0, <3>3, <4>5 DEF Served, bufVars, Ended
        <4>7. Produced'
          BY <1>1, <3>0, <4>3, <4>6 DEF Produced
        <4> QED BY <4>5, <4>7
      <3>4. Stored' = Stored /\ Produced'
        BY <1>5, <2>1, <3>0, <3>2, <3>3
      <3>5. ASSUME NEW q \in Proc PROVE Line(q)' = Line(q)
        <4>1. ~OnItsWay(q) /\ ~OnItsWay(q)'
          BY <1>0, <1>1, <1>2 DEF OnItsWay
        <4>2. InHand(q)' <=> InHand(q)
          <5>1. CASE q = BUFFER \/ q = s
            <6>1. pc[q] # "consume" /\ pc'[q] # "consume"
              BY <1>1, <1>5, <5>1
            <6> QED BY <6>1 DEF InHand
          <5>2. CASE q # BUFFER /\ q # s
            BY <1>1, <5>2 DEF InHand, Same
          <5> QED BY <5>1, <5>2
        <4>3. InHand(q) => data'[q] = data[q]
          <5>1. pc[BUFFER] # "consume" /\ pc[s] # "consume"
            BY <1>5
          <5> QED BY <1>1, <5>1 DEF InHand, Same
        <4> QED BY <1>1, <4>1, <4>2, <4>3 DEF Line
      <3>6. Stops'
        BY <1>0, <1>1, <1>7, <2>1 DEF Inv, Delivered, Stops, Same
      <3> QED BY <3>4, <3>5, <3>6
    <2>2. UNCHANGED bufVars /\ ver' = ver /\ Delivered
      BY <1>1 DEF Inv
    <2> QED BY <2>1, <2>2, Unmoved
  <1> QED BY <1>8, <1>9, <1>10 DEF Inv

\* The buffer process learns that a consumer waits.
LEMMA RequestStep ==
    ASSUME Inv, Types', NEW s \in Consumers, Passed(s, BUFFER), ~taken[s],
           st[s].op = "OUT", st[BUFFER].op = "ALT", st[BUFFER] = AltFor(pc[BUFFER]),
           pc[BUFFER] \in {"alt", "remalt", "lastalt"}
    PROVE  Inv'
  <1>0. /\ ver \in Versions /\ BUFFER \in Proc /\ 0 \in Producers
        /\ NoOp.op # "OUT" /\ Producers \subseteq Proc /\ Consumers \subseteq Proc
        /\ Producers \cap Consumers = {} /\ BUFFER \notin Producers /\ BUFFER \notin Consumers
    BY Roles DEF Inv, Types
  <1>1. /\ st'[BUFFER] = NoOp /\ k1'[BUFFER] = s /\ taken'[BUFFER] = taken[BUFFER]
        /\ st'[s] = st[s] /\ taken'[s] /\ (\A q \in Proc : q # s /\ q # BUFFER => Same(q))
        /\ UNCHANGED <<running, pc, ver, bufVars, np, nc, val, got>>
    BY DEF Passed
  <1>2. st[BUFFER] # NoOp /\ st[BUFFER].op # "OUT" /\ \A c, d : Output(c, d).op = "OUT"
    BY <1>0, Calls
  <1>3. ~taken[BUFFER]
    BY <1>2 DEF Inv, Talks, BufferTalks
  <1>4. pc[s] = "answer" /\ st[s] = Output(BUFFER, 0)
    <2>1. ConsumerTalks(s) /\ Input(BUFFER).op # "OUT"
      BY <1>0, Calls DEF Inv, Talks
    <2> QED BY <1>0, <2>1 DEF ConsumerTalks
  <1>5. Producers' = Producers /\ Consumers' = Consumers
    BY <1>1 DEF Producers, Consumers
  <1>6. Talks'
    <2>1. ASSUME NEW p \in Producers PROVE ProducerTalks(p)'
      <3>1. Same(p) /\ ProducerTalks(p)
        BY <1>0, <1>1 DEF Inv, Talks
      <3> QED BY <1>1, <3>1 DEF Same, ProducerTalks, Output
    <2>2. ASSUME NEW p \in Consumers PROVE ConsumerTalks(p)'
      <3>1. CASE p = s
        BY <1>1, <1>4, <3>1 DEF ConsumerTalks, Output
      <3>2. CASE p # s
        <4>1. Same(p) /\ ConsumerTalks(p)
          BY <1>0, <1>1, <3>2 DEF Inv, Talks
        <4> QED BY <4>1 DEF Same, ConsumerTalks, Output, Input
      <3> QED BY <3>1, <3>2
    <2>3. Waiting(s)'
      BY <1>1, <1>4 DEF Waiting, Output
    <2>4. BufferTalks'
      BY <1>1, <1>3, <1>5, <2>3 DEF BufferTalks, BufferLabels
    <2> QED BY <1>5, <2>1, <2>2, <2>4 DEF Talks
  <1>7. Counts'
    BY <1>1 DEF Inv, Counts, bufVars
  <1>8. Delivered'
    <2>1. ASSUME ver = 1
          PROVE  /\ Stored' = Stored /\ (\A q \in Proc : Line(q)' = Line(q))
                 /\ Produced' /\ Stops'
      <3>0. Same(0)
        BY <1>0, <1>1
      <3>1. Received' = Received /\ (Ended => Ended')
        BY <1>1, <3>0 DEF Received, Ended, Same
      <3>2. Stored' = Stored /\ Served' = Served
        <4>1. Stored = Received - 0 /\ Stored' = Received' - 0
          BY <1>1 DEF Stored
        <4>2. Stored' = Stored
          BY <3>1, <4>1
        <4> QED BY <1>1, <4>2 DEF Served, bufVars
      <3>3. Produced'
        <4>1. /\ val[0] <= MAXVAL /\ Served >= 0 /\ running[BUFFER]
              /\ pc[BUFFER] \in {"rem", "remalt", "last", "lastalt"} => Ended
          BY <1>2, <2>1 DEF Inv, Delivered, Produced
        <4> QED BY <1>1, <3>1, <3>2, <4>1 DEF Produced
      <3>4. ASSUME NEW q \in Proc PROVE Line(q)' = Line(q)
        <4>1. ~OnItsWay(q) /\ ~OnItsWay(q)'
          BY <1>0, <1>1, <1>2 DEF OnItsWay
        <4>2. (InHand(q)' <=> InHand(q)) /\ (InHand(q) => data'[q] = data[q])
          <5>1. CASE q = BUFFER \/ q = s
            <6>1. pc[q] # "consume" /\ pc'[q] # "consume"
              BY <1>1, <1>4, <5>1
            <6> QED BY <6>1 DEF InHand
          <5>2. CASE q # BUFFER /\ q # s
            BY <1>1, <5>2 DEF InHand, Same
          <5> QED BY <5>1, <5>2
        <4> QED BY <1>1, <4>1, <4>2 DEF Line
      <3>5. Stops'
        <4>1. running[s]
          BY <1>4, <2>1 DEF Inv, Delivered, Stops
        <4> QED BY <1>0, <1>1, <1>5, <2>1, <4>1 DEF Inv, Delivered, Stops, Same
      <3> QED BY <3>2, <3>3, <3>4, <3>5
    <2>2. UNCHANGED bufVars /\ ver' = ver /\ Delivered
      BY <1>1 DEF Inv
    <2> QED BY <2>1, <2>2, Unmoved
  <1> QED BY <1>6, <1>7, <1>8 DEF Inv

\* A consumer receives its value, or the -1.
LEMMA AnswerStep ==
    ASSUME Inv, Types', NEW r \in Consumers, Passed(BUFFER, r), ~taken[BUFFER],
           st[BUFFER].op = "OUT", st[BUFFER].corr = r, st[BUFFER].data \in Int,
           pc[BUFFER] \in {"top", "rem", "last"},
           pc[r] = "consume", st[r] = Input(BUFFER), ~taken[r]
    PROVE  Inv'
  <1>0. /\ ver \in Versions /\ BUFFER \in Proc /\ 0 \in Producers /\ Input(BUFFER) # NoOp
        /\ NoOp.op # "OUT" /\ Producers \subseteq Proc /\ Consumers \subseteq Proc
        /\ Producers \cap Consumers = {} /\ BUFFER \notin Producers /\ BUFFER \notin Consumers
    BY Roles, Calls DEF Inv, Types
  <1>1. /\ st'[r] = NoOp /\ data'[r] = st[BUFFER].data /\ taken'[r] = taken[r]
        /\ st'[BUFFER] = st[BUFFER] /\ taken'[BUFFER]
        /\ (\A q \in Proc : q # r /\ q # BUFFER => Same(q))
        /\ UNCHANGED <<running, pc, ver, bufVars, np, nc, val, got>>
    BY DEF Passed
  <1>2. Producers' = Producers /\ Consumers' = Consumers
    BY <1>1 DEF Producers, Consumers
  <1>3. Talks'
    <2>1. ASSUME NEW p \in Producers PROVE ProducerTalks(p)'
      <3>1. Same(p) /\ ProducerTalks(p)
        BY <1>0, <1>1 DEF Inv, Talks
      <3> QED BY <1>1, <3>1 DEF Same, ProducerTalks, Output
    <2>2. ASSUME NEW p \in Consumers PROVE ConsumerTalks(p)'
      <3>1. CASE p = r
        BY <1>1, <3>1 DEF ConsumerTalks
      <3>2. CASE p # r
        <4>1. Same(p) /\ ConsumerTalks(p)
          BY <1>0, <1>1, <3>2 DEF Inv, Talks
        <4> QED BY <4>1 DEF Same, ConsumerTalks, Output, Input
      <3> QED BY <3>1, <3>2
    <2>3. BufferTalks'
      <3>1. st[BUFFER] = Output(r, st[BUFFER].data)
        <4>1. \A l : AltFor(l).op # "OUT"
          BY <1>0, Calls
        <4>2. PICK c \in Consumers : st[BUFFER] = Output(c, st[BUFFER].data)
          BY <1>0, <4>1 DEF Inv, Talks, BufferTalks
        <4>3. c = r
          BY <1>0, <4>2, Calls
        <4> QED BY <4>2, <4>3
      <3> QED BY <1>1, <1>2, <3>1 DEF BufferTalks, BufferLabels, Output
    <2> QED BY <1>2, <2>1, <2>2, <2>3 DEF Talks
  <1>4. Counts'
    BY <1>1 DEF Inv, Counts, bufVars
  <1>5. Delivered'
    <2>1. ASSUME ver = 1
          PROVE  /\ Stored' = Stored /\ (\A q \in Proc : Line(q)' = Line(q))
                 /\ Produced' /\ Stops'
      <3>0. Same(0)
        BY <1>0, <1>1
      <3>1. Received' = Received /\ (Ended => Ended')
        BY <1>1, <3>0 DEF Received, Ended, Same
      <3>2. Stored' = Stored /\ Served' = Served
        <4>1. Stored = Received - 0 /\ Stored' = Received' - 0
          BY <1>1 DEF Stored
        <4>2. Stored' = Stored
          BY <3>1, <4>1
        <4> QED BY <1>1, <4>2 DEF Served, bufVars
      <3>3. Produced'
        <4>1. /\ val[0] <= MAXVAL /\ Served >= 0 /\ running[BUFFER]
              /\ pc[BUFFER] \in {"rem", "remalt", "last", "lastalt"} => Ended
          BY <1>0, <2>1 DEF Inv, Delivered, Produced
        <4> QED BY <1>1, <3>1, <3>2, <4>1 DEF Produced
      <3>4. ASSUME NEW q \in Proc PROVE Line(q)' = Line(q)
        <4>1. ~OnItsWay(q)'
          BY <1>1 DEF OnItsWay
        <4>2. CASE q = r
          <5>1. OnItsWay(q) <=> st[BUFFER].data >= 0
            BY <4>2 DEF OnItsWay
          <5>2. InHand(q)' <=> st[BUFFER].data >= 0
            BY <1>1, <4>2 DEF InHand
          <5>3. ~InHand(q)
            BY <1>0, <4>2 DEF InHand
          <5> QED BY <1>1, <4>1, <4>2, <5>1, <5>2, <5>3 DEF Line
        <4>3. CASE q # r
          <5>1. ~OnItsWay(q)
            BY <4>3 DEF OnItsWay
          <5>2. (InHand(q)' <=> InHand(q)) /\ (InHand(q) => data'[q] = data[q])
            <6>1. CASE q = BUFFER
              BY <1>1, <6>1 DEF InHand
            <6>2. CASE q # BUFFER
              BY <1>1, <4>3, <6>2 DEF InHand, Same
            <6> QED BY <6>1, <6>2
          <5> QED BY <1>1, <4>1, <5>1, <5>2 DEF Line
        <4> QED BY <4>2, <4>3
      <3>5. Stops'
        <4>1. running[r]
          BY <1>0, <2>1 DEF Inv, Delivered, Stops
        <4> QED BY <1>0, <1>1, <1>2, <2>1, <4>1 DEF Inv, Delivered, Stops, Same
      <3> QED BY <3>2, <3>3, <3>4, <3>5
    <2>2. UNCHANGED bufVars /\ ver' = ver /\ Delivered
      BY <1>1 DEF Inv
    <2> QED BY <2>1, <2>2, Unmoved
  <1> QED BY <1>3, <1>4, <1>5 DEF Inv

\* A message passes between any two processes.
LEMMA PassStep ==
    ASSUME Inv, NEW r \in Proc, Receives(r)
    PROVE  Inv'
  <1>1. PICK s \in Proc : Pass(s, r)
    BY DEF Receives
  <1>2. UNCHANGED progVars
    BY DEF Receives
  <1>3. /\ Types' /\ Passed(s, r) /\ st[s].op = "OUT" /\ st[s].corr = r /\ ~taken[s]
        /\ \/ /\ s \in Producers /\ r = BUFFER /\ pc[BUFFER] = "input"
              /\ st[BUFFER] = AltFor("input")
           \/ /\ s \in Consumers /\ r = BUFFER /\ st[r].op = "ALT"
              /\ pc[BUFFER] \in {"alt", "remalt", "lastalt"}
              /\ st[BUFFER] = AltFor(pc[BUFFER])
           \/ /\ s = BUFFER /\ r \in Consumers /\ pc[r] = "consume"
              /\ st[r] = Input(BUFFER) /\ ~taken[r]
              /\ pc[BUFFER] \in {"top", "rem", "last"} /\ st[BUFFER].data \in Int
    BY <1>1, <1>2, PassFacts
  <1> QED BY <1>3, ReceiveStep, RequestStep, AnswerStep

-----------------------------------------------------------------------------
(* The theorems. *)

\* Nothing is produced, nobody has asked.
LEMMA InvInit == Init => Inv
  <1> SUFFICES ASSUME Init PROVE Inv
    OBVIOUS
  <1>0. /\ ver \in Versions /\ ver \in {1, 2} /\ BUFFER \in Proc /\ 0 \in Producers
        /\ NoOp.op # "OUT" /\ Producers \subseteq Proc /\ Consumers \subseteq Proc
        /\ Producers \cap Consumers = {} /\ BUFFER \notin Producers /\ BUFFER \notin Consumers
        /\ MAXELEM \in Nat \ {0} /\ MAXVAL \in Nat
    BY Roles, DProdConsAssumption DEF Init
  <1>1. /\ \A p \in Proc : st[p] = NoOp /\ ~taken[p] /\ running[p] /\ got[p] = <<>>
        /\ pc[BUFFER] = "top" /\ (\A p \in Producers : pc[p] = "produce")
        /\ \A p \in Consumers : pc[p] = "ask"
    BY <1>0 DEF Init, CspInit
  <1>2. Types
    <2>1. nc \in Int
      <3>1. IsFiniteSet(Consumers)
        BY <1>0, DProdConsAssumption, FS_Subset
      <3> QED BY <3>1, FS_CardinalityType DEF Init
    <2>2. hd \in Slots /\ tl \in Slots /\ ct \in Int /\ buf \in [Slots -> Int]
      BY <1>0 DEF Init, Slots
    <2>3. val \in [Proc -> Nat]
      BY DEF Init
    <2>4. got \in [Proc -> Seq(Int)]
      BY DEF Init
    <2>5. np \in Int
      BY <1>0 DEF Init
    <2>6. /\ running \in [Proc -> BOOLEAN] /\ taken \in [Proc -> BOOLEAN]
          /\ st = [p \in Proc |-> st[p]] /\ data = [p \in Proc |-> data[p]]
          /\ k1 = [p \in Proc |-> k1[p]] /\ pc = [p \in Proc |-> pc[p]]
      BY DEF Init, CspInit
    <2> QED BY <1>0, <2>1, <2>2, <2>3, <2>4, <2>5, <2>6 DEF Types
  <1>3. Talks
    BY <1>0, <1>1 DEF Talks, ProducerTalks, ConsumerTalks, BufferTalks, ProducerLabels,
                      BufferLabels
  <1>4. Counts
    <2>1. ct = 0
      BY DEF Init
    <2> QED BY <1>0, <1>1, <2>1 DEF Counts
  <1>5. Delivered
    <2> SUFFICES ASSUME ver = 1 PROVE Produced /\ Ring /\ Lines(Line1, Served) /\ Stops
      BY DEF Delivered
    <2>1. val[0] = 0
      BY <1>0 DEF Init
    <2>2. Received = 0 - 0
      BY <1>0, <1>1, <2>1 DEF Received
    <2>3. Stored = 0 - 0 - 0
      BY <1>1, <2>2 DEF Stored
    <2>4. ct = 0 /\ hd = 0 /\ tl = 0
      BY DEF Init
    <2>5. Stored = 0 /\ Served = 0
      BY <2>3, <2>4 DEF Served
    <2>6. Produced
      BY <1>0, <1>1, <2>1, <2>5 DEF Produced
    <2>7. Ring
      <3>1. 0 % MAXELEM = 0 /\ 0 .. 0 - 1 = {}
        BY <1>0
      <3> QED BY <2>4, <2>5, <3>1 DEF Ring
    <2>8. \A p \in Proc : Line1[p] = <<>>
      <3> SUFFICES ASSUME NEW p \in Proc PROVE Line(p) = <<>>
        BY DEF Line1
      <3>1. ~OnItsWay(p)
        BY <1>0, <1>1 DEF OnItsWay
      <3>2. ~InHand(p)
        <4>1. p \in Producers \cup Consumers \cup {BUFFER}
          BY <1>0, Roles
        <4> QED BY <1>1, <4>1 DEF InHand
      <3> QED BY <1>1, <3>1, <3>2 DEF Line
    <2>9. Lines(Line1, 0)
      <3>1. <<>> \in Seq(Int) /\ Len(<<>>) = 0 /\ 1 .. 0 = {} /\ 2 .. 0 = {} /\ 0 .. 0 - 1 = {}
        OBVIOUS
      <3>2. \A p \in Proc : /\ Line1[p] \in Seq(Int) /\ Len(Line1[p]) = 0
                            /\ 1 .. Len(Line1[p]) = {} /\ 2 .. Len(Line1[p]) = {}
        BY <2>8, <3>1
      <3> QED BY <3>1, <3>2 DEF Lines
    <2>10. Stops
      BY <1>0, <1>1 DEF Stops
    <2> QED BY <2>5, <2>6, <2>7, <2>9, <2>10
  <1> QED BY <1>2, <1>3, <1>4, <1>5 DEF Inv

\* Every step of a process and every communication keeps the invariant.
LEMMA InvStep == Inv /\ [Next]_vars => Inv'
  <1> SUFFICES ASSUME Inv, [Next]_vars PROVE Inv'
    OBVIOUS
  <1>1. CASE UNCHANGED vars
    <2>1. UNCHANGED <<running, st, taken, data, k1, ver, pc, ct, hd, tl, buf, np, nc, val, got>>
      BY <1>1 DEF vars, cspVars, bufVars
    <2>2. Types'
      BY <2>1 DEF Inv, Types
    <2>3. Talks'
      <3>1. \A q \in Proc : Same(q)
        BY <2>1 DEF Same
      <3>2. BufferTalks'
        BY <2>1 DEF Inv, Talks, BufferTalks, Waiting, AltFor, Producers, Consumers, Input,
                    Output, Alt
      <3> QED BY <2>1, <3>1, <3>2, TalksBuffer DEF Inv
    <2>4. Counts'
      BY <2>1 DEF Inv, Counts
    <2>5. Delivered'
      <3>1. /\ Received' = Received /\ Stored' = Stored /\ (Ended <=> Ended')
            /\ \A q \in Proc : Line(q)' = Line(q)
        BY <2>1 DEF Received, Stored, Ended, Line, OnItsWay, InHand
      <3>2. Served' = Served
        BY <2>1, <3>1 DEF Served
      <3>3. ver = 1 => Produced'
        BY <2>1, <3>1, <3>2 DEF Inv, Delivered, Produced
      <3>4. ver = 1 => Stops'
        BY <2>1 DEF Inv, Delivered, Stops, Consumers, Producers
      <3> QED BY <2>1, <3>1, <3>3, <3>4, Unmoved DEF Inv, bufVars
    <2> QED BY <2>2, <2>3, <2>4, <2>5 DEF Inv
  <1>2. ASSUME NEW p \in Proc, Runs(p) PROVE Inv'
    <2>1. CASE p = BUFFER /\ buffer
      BY <2>1, QuietActions, StoreStep, ServeStep DEF buffer
    <2>2. CASE Produce(p) \/ EndProducing(p)
      BY <2>2, ProducerStep
    <2>3. CASE Ask(p) \/ Answer(p) \/ Consume(p)
      BY <2>3, ConsumerStep
    <2>4. CASE Ends(p)
      BY <2>4, EndStep
    <2> QED BY <1>2, <2>1, <2>2, <2>3, <2>4 DEF Runs
  <1>3. ASSUME NEW p \in Proc, Receives(p) PROVE Inv'
    BY <1>3, PassStep
  <1>4. ASSUME NEW p \in Proc, Sent(p) PROVE Inv'
    BY <1>4, OthersSent, BufferSent
  <1>5. ASSUME NEW p \in Proc, Polls(p) PROVE Inv'
    BY <1>5, PollStep
  <1> QED BY <1>1, <1>2, <1>3, <1>4, <1>5 DEF Next, Waits, Returned

\* Where each process is, what the buffer holds and, in version 1, which value is
\* where.
THEOREM Invariant == Spec => []Inv
  BY InvInit, InvStep, PTL DEF Spec

\* The buffer is never overrun and, in version 1, never read when it is empty, for
\* every buffer and every number of consumers.
THEOREM NeverOverrun == Spec => []Bounded
  <1>1. Inv => Bounded
    BY DEF Inv, Counts, Bounded
  <1> QED BY <1>1, Invariant, PTL

\* In both versions the buffer answers only consumers that wait for the answer, so
\* the network never finds two processes that output to each other.
THEOREM NeverDeadlk == Spec => []NoDeadlk
  <1>1. ASSUME Inv PROVE NoDeadlk
    <2>0. /\ ver \in Versions /\ NoOp.op \notin {"OUT", "ALT"}
          /\ Proc = Producers \cup Consumers \cup {BUFFER}
          /\ Producers # {} /\ Consumers # {}
      BY <1>1, Roles DEF Inv, Types
    <2>1. /\ \A p, d : Output(p, d).op = "OUT" /\ Output(p, d).corr = p
          /\ \A p : Input(p).op = "IN"
          /\ \A S, df : Alt(S, df).op = "ALT" /\ Alt(S, df).cl = S
      BY <2>0, Calls
    <2>2. ASSUME NEW p \in Proc, p # BUFFER
          PROVE  st[p].op # "ALT" /\ (st[p].op = "OUT" => st[p].corr = BUFFER)
      <3>1. CASE p \in Producers
        BY <1>1, <2>0, <2>1, <3>1 DEF Inv, Talks, ProducerTalks
      <3>2. CASE p \in Consumers
        BY <1>1, <2>0, <2>1, <3>2 DEF Inv, Talks, ConsumerTalks
      <3> QED BY <2>0, <2>2, <3>1, <3>2
    <2>3. ASSUME NEW q, Offers(BUFFER, q) PROVE ~Offers(q, BUFFER)
      <3>1. Waiting(q)
        BY <1>1, <2>3, Customer DEF Inv, Offers
      <3> QED BY <2>0, <2>1, <3>1 DEF Waiting, Offers
    <2>4. ASSUME NEW p \in Proc, NEW q \in Proc, Offers(p, q), Offers(q, p) PROVE FALSE
      <3>1. CASE p = BUFFER
        BY <2>3, <2>4, <3>1
      <3>2. CASE p # BUFFER
        <4>1. q = BUFFER
          BY <2>2, <2>4, <3>2 DEF Offers
        <4> QED BY <2>3, <2>4, <4>1
      <3> QED BY <3>1, <3>2
    <2>5. ASSUME NEW p \in Proc, st[p].op = "ALT" PROVE st[p].cl # {}
      <3>1. p = BUFFER
        BY <2>2, <2>5
      <3>2. st[BUFFER] = AltFor(pc[BUFFER])
        BY <1>1, <2>0, <2>1, <2>5, <3>1 DEF Inv, Talks, BufferTalks
      <3>3. \E b : st[BUFFER] = Alt(Producers, b) \/ st[BUFFER] = Alt(Consumers, b)
        BY <2>1, <2>5, <3>1, <3>2 DEF AltFor
      <3> QED BY <2>0, <2>1, <3>1, <3>3
    <2> QED BY <2>4, <2>5 DEF NoDeadlk, Deadlocked
  <1> QED BY <1>1, Invariant, PTL

\* What consumers have consumed is the front of their lines.
LEMMA Front ==
    ASSUME Inv, ver = 1, NEW p \in Proc
    PROVE  /\ Len(got[p]) \in Nat /\ Len(Line1[p]) \in Nat /\ Len(got[p]) <= Len(Line1[p])
           /\ \A k \in 1 .. Len(got[p]) : Line1[p][k] = got[p][k]
  <1>1. got[p] \in Seq(Int) /\ Line1[p] = Line(p)
    BY DEF Inv, Types, Line1
  <1>2. \E x \in Int : Line(p) = Append(got[p], x) \/ Line(p) = got[p]
    <2>1. OnItsWay(p) => st[BUFFER].data \in Int
      BY Customer DEF Inv, OnItsWay
    <2>2. InHand(p) => data[p] \in Int
      <3>1. pc[p] = "consume" => p \in Consumers
        BY Labels DEF Inv, ConsumerLabels
      <3>2. p \in Consumers => ConsumerTalks(p) /\ Input(BUFFER) # NoOp
        BY Calls DEF Inv, Talks, Types
      <3> QED BY <3>1, <3>2 DEF InHand, ConsumerTalks
    <2>3. 0 \in Int
      OBVIOUS
    <2> QED BY <2>1, <2>2, <2>3 DEF Line
  <1>3. PICK x \in Int : Line(p) = Append(got[p], x) \/ Line(p) = got[p]
    BY <1>2
  <1>4. CASE Line(p) = got[p]
    BY <1>1, <1>4
  <1>5. CASE Line(p) = Append(got[p], x)
    BY <1>1, <1>5
  <1> QED BY <1>3, <1>4, <1>5

\* Once all have ended, every value has been served and nothing is on its way.
LEMMA AllServed ==
    ASSUME Inv, ver = 1, Done
    PROVE  Served = MAXVAL /\ \A p \in Proc : Line1[p] = got[p]
  <1>0. /\ ver \in Versions /\ BUFFER \in Proc /\ 0 \in Proc /\ 0 \in Producers
        /\ NoOp.op # "OUT" /\ MAXVAL \in Nat
    BY Roles, DProdConsAssumption DEF Inv, Types
  <1>1. pc[BUFFER] = "last" /\ st[BUFFER] = NoOp
    BY <1>0 DEF Done, Inv, Delivered, Produced
  <1>2. ct = 0 /\ Ended
    BY <1>1 DEF Inv, Counts, Delivered, Produced
  <1>3. val[0] \in Nat /\ val[0] <= MAXVAL /\ val[0] >= MAXVAL
    BY <1>0, <1>2 DEF Ended, Inv, Types, Talks, ProducerTalks, Delivered, Produced
  <1>4. val[0] = MAXVAL
    BY <1>0, <1>3
  <1>5. Received = MAXVAL - 0
    BY <1>2, <1>4 DEF Ended, Received
  <1>6. Stored = Received - 0
    BY <1>1 DEF Stored
  <1>7. Served = MAXVAL
    BY <1>0, <1>2, <1>5, <1>6 DEF Served
  <1>8. ASSUME NEW p \in Proc PROVE Line1[p] = got[p]
    <2>1. ~OnItsWay(p)
      BY <1>0, <1>1 DEF OnItsWay
    <2>2. ~InHand(p)
      <3>1. pc[p] = "consume" => p \in Consumers
        BY Labels DEF Inv, ConsumerLabels
      <3>2. p \in Consumers => ConsumerTalks(p) /\ Input(BUFFER) # NoOp
        BY <1>0, Calls DEF Inv, Talks
      <3>3. p \in Consumers => pc[p] = "consume" /\ st[p] = NoOp /\ data[p] < 0
        BY DEF Done, Inv, Delivered, Stops
      <3>4. p \in Consumers => data[p] \in Int
        BY <3>2, <3>3 DEF ConsumerTalks
      <3> QED BY <3>1, <3>3, <3>4 DEF InHand
    <2> QED BY <2>1, <2>2 DEF Line1, Line
  <1> QED BY <1>7, <1>8

\* Version 1, for every number of consumers and values and every buffer: each
\* consumer sees its values in order, no value is consumed twice, and none is
\* missing when all processes have ended.
THEOREM DeliveredInOrder == Spec => []InOrder
  <1>1. ASSUME Inv PROVE InOrder
    <2> SUFFICES ASSUME ver = 1
                 PROVE  /\ \A p \in Proc : \A k \in 2 .. Len(got[p]) : got[p][k - 1] < got[p][k]
                        /\ \A v \in 0 .. MAXVAL - 1 : Times(v) <= 1 /\ (Done => Times(v) = 1)
      BY DEF InOrder
    <2>0. PICK L, n : L = Line1 /\ n = Served
      OBVIOUS
    <2>1. /\ \A p \in Proc : L[p] \in Seq(Int) /\ Len(L[p]) <= n
          /\ \A p \in Proc : \A k \in 2 .. Len(L[p]) : L[p][k - 1] < L[p][k]
          /\ \A p, q \in Proc : \A j \in 1 .. Len(L[p]), k \in 1 .. Len(L[q]) :
                L[p][j] = L[q][k] => p = q /\ j = k
          /\ \A v \in 0 .. n - 1 : \E p \in Proc : \E k \in 1 .. Len(L[p]) : L[p][k] = v
      <3>1. Lines(L, n)
        BY <1>1, <2>0 DEF Inv, Delivered
      <3> QED BY <3>1, Zenon DEF Lines
    <2>2. \A p \in Proc :
             /\ Len(got[p]) \in Nat /\ Len(L[p]) \in Nat /\ Len(got[p]) <= Len(L[p])
             /\ \A k \in 1 .. Len(got[p]) : L[p][k] = got[p][k]
      BY <1>1, <2>0, Front
    <2>3. ASSUME NEW p \in Proc, NEW k \in 2 .. Len(got[p]) PROVE got[p][k - 1] < got[p][k]
      <3>1. /\ k \in 2 .. Len(L[p]) /\ k \in 1 .. Len(got[p]) /\ k - 1 \in 1 .. Len(got[p])
        BY <2>2
      <3>2. L[p][k - 1] = got[p][k - 1] /\ L[p][k] = got[p][k] /\ L[p][k - 1] < L[p][k]
        BY <2>1, <2>2, <3>1
      <3> QED BY <3>2
    <2>4. ASSUME NEW v \in 0 .. MAXVAL - 1
          PROVE  Times(v) <= 1 /\ (Done => Times(v) = 1)
      <3> DEFINE T == {c \in Proc \X (1 .. MAXVAL + 2) :
                         c[2] <= Len(got[c[1]]) /\ got[c[1]][c[2]] = v}
      <3>1. ASSUME NEW a \in T, NEW b \in T PROVE a = b
        <4>1. PICK p \in Proc, j \in 1 .. MAXVAL + 2 : a = <<p, j>>
          OBVIOUS
        <4>2. PICK q \in Proc, k \in 1 .. MAXVAL + 2 : b = <<q, k>>
          OBVIOUS
        <4>3. j <= Len(got[p]) /\ got[p][j] = v /\ k <= Len(got[q]) /\ got[q][k] = v
          BY <4>1, <4>2
        <4>4. /\ Len(got[p]) \in Nat /\ Len(L[p]) \in Nat /\ Len(got[p]) <= Len(L[p])
              /\ Len(got[q]) \in Nat /\ Len(L[q]) \in Nat /\ Len(got[q]) <= Len(L[q])
          BY <2>2
        <4>5. /\ j \in 1 .. Len(got[p]) /\ j \in 1 .. Len(L[p])
              /\ k \in 1 .. Len(got[q]) /\ k \in 1 .. Len(L[q])
          <5>1. \A x, y \in Nat : x <= y => \A i \in 1 .. MAXVAL + 2 :
                   i <= x => i \in 1 .. x /\ i \in 1 .. y
            OBVIOUS
          <5> QED BY <4>3, <4>4, <5>1, Zenon
        <4>6. L[p][j] = L[q][k]
          BY <2>2, <4>3, <4>5
        <4>7. p = q /\ j = k
          BY <2>1, <4>5, <4>6
        <4> QED BY <4>1, <4>2, <4>7
      <3>2. Times(v) = Cardinality(T)
        BY DEF Times
      <3>3. Done => T # {}
        <4> SUFFICES ASSUME Done PROVE T # {}
          OBVIOUS
        <4>1. n = MAXVAL /\ \A p \in Proc : L[p] = got[p]
          BY <1>1, <2>0, AllServed
        <4>2. PICK p \in Proc : \E k \in 1 .. Len(L[p]) : L[p][k] = v
          BY <2>1, <4>1
        <4>3. PICK k \in 1 .. Len(L[p]) : L[p][k] = v
          BY <4>2
        <4>4. Len(L[p]) \in Nat /\ Len(L[p]) <= MAXVAL /\ MAXVAL \in Nat
          BY <2>1, <2>2, <4>1, DProdConsAssumption
        <4>5. k \in 1 .. MAXVAL + 2 /\ k <= Len(got[p]) /\ got[p][k] = v
          BY <4>1, <4>3, <4>4
        <4>6. <<p, k>> \in T
          BY <4>5
        <4> QED BY <4>6
      <3> HIDE DEF T
      <3>4. CASE T = {}
        <4>1. Cardinality(T) = 0
          BY <3>4, FS_EmptySet
        <4> QED BY <3>2, <3>3, <3>4, <4>1
      <3>5. CASE T # {}
        <4>1. PICK a : a \in T
          BY <3>5
        <4>2. T = {a}
          BY <3>1, <4>1
        <4>3. Cardinality(T) = 1
          BY <4>2, FS_Singleton
        <4> QED BY <3>2, <4>3
      <3> QED BY <3>4, <3>5
    <2> QED BY <2>3, <2>4
  <1> QED BY <1>1, Invariant, PTL

=============================================================================
