---------------------------- MODULE ShrMemProof -----------------------------
(***************************************************************************)
(* Proofs about ShrMem, for every number of processors, every memory and   *)
(* every program: the types, the waiting ring and its order, the bound N   *)
(* on the cost of a memory access, and the atomicity of LL and SC.         *)
(***************************************************************************)
EXTENDS ShrMem, FiniteSetTheorems, TLAPS

(***************************************************************************)
(* The strengthening.  HeadIsLater: while the bus is free, the processor   *)
(* at the head of the ring has not been called yet in this cycle, so it    *)
(* will be.  SomeoneServed: when the bus is taken, one of the processors   *)
(* already called in this cycle is out of the ring, which leaves room for  *)
(* at most N - 2 others before a newcomer.  Slack: the deferrals of p plus *)
(* the ones still ahead of it are at most N - 1.                           *)
(***************************************************************************)
HeadIsLater == ~used /\ arr[hd] # None => arr[hd] >= i

SomeoneServed == used => \E x \in Prid : x < i /\ ~Queued(x)

Ahead(p, k) == age[p] + Pos(hd, k) + (IF p < i THEN 0 ELSE 1)
                                   + (IF used THEN 1 ELSE 0)

Slack == \A k \in Slots : arr[k] # None => Ahead(arr[k], k) <= NSHR

Unshared == ~Shared => \A k \in Slots : arr[k] = None

BusInv == /\ Ring(arr, hd, tl)
          /\ \A p \in Prid : Waiting(p)
          /\ HeadIsLater /\ SomeoneServed /\ Slack /\ Unshared

-----------------------------------------------------------------------------
(* The ring as a data structure. *)

\* The head and tail indices of Mem_busacc wrap around at nshr.
LEMMA ModInc ==
    ASSUME NEW x \in Slots
    PROVE  (x + 1) % NSHR = IF x + 1 = NSHR THEN 0 ELSE x + 1
  BY NAssumption, SMT DEF Slots

\* Positions counted from a slot are a permutation of the slots.
LEMMA PosFacts ==
    ASSUME NEW h \in Slots
    PROVE  /\ \A k \in Slots : Pos(h, k) \in 0 .. NSHR - 1
           /\ \A k, m \in Slots : Pos(h, k) = Pos(h, m) => k = m
           /\ Pos(h, h) = 0
           /\ \A j \in 0 .. NSHR - 1 : \E k \in Slots : Pos(h, k) = j
  <1>1. \A k \in Slots : Pos(h, k) \in 0 .. NSHR - 1
    BY NAssumption DEF Slots, Pos
  <1>2. \A k, m \in Slots : Pos(h, k) = Pos(h, m) => k = m
    BY NAssumption DEF Slots, Pos
  <1>3. Pos(h, h) = 0
    BY NAssumption DEF Slots, Pos
  <1>4. ASSUME NEW j \in 0 .. NSHR - 1
        PROVE  \E k \in Slots : Pos(h, k) = j
    <2>1. CASE h + j < NSHR
      <3>1. h + j \in Slots /\ Pos(h, h + j) = j
        BY <2>1, NAssumption DEF Slots, Pos
      <3> QED BY <3>1
    <2>2. CASE h + j >= NSHR
      <3>1. h + j - NSHR \in Slots /\ Pos(h, h + j - NSHR) = j
        BY <2>2, NAssumption DEF Slots, Pos
      <3> QED BY <3>1
    <2> QED BY <2>1, <2>2, NAssumption DEF Slots
  <1> QED BY <1>1, <1>2, <1>3, <1>4

\* A ring that p is not in has a free slot, and two if x is not in it either.
LEMMA RingRoom ==
    ASSUME NEW a \in [Slots -> Prid \cup {None}], NEW h \in Slots, NEW t \in Slots,
           Ring(a, h, t),
           NEW p \in Prid, \A k \in Slots : a[k] # p
    PROVE  /\ RingLen(a, h, t) <= NSHR - 1
           /\ \A x \in Prid : x # p /\ (\A k \in Slots : a[k] # x)
                => RingLen(a, h, t) <= NSHR - 2
  <1> DEFINE n == RingLen(a, h, t)
             J == 0 .. n - 1
  <1>1. n \in 0 .. NSHR
    BY NAssumption, PosFacts DEF RingLen
  <1>2. \A j \in J : \E k \in Slots : Pos(h, k) = j
    <2> TAKE j \in J
    <2>1. j \in 0 .. NSHR - 1
      BY <1>1, NAssumption
    <2> QED BY <2>1, PosFacts
  <1>3. PICK slot \in [J -> Slots] : \A j \in J : Pos(h, slot[j]) = j
    <2> DEFINE s == [j \in J |-> CHOOSE k \in Slots : Pos(h, k) = j]
    <2>1. \A j \in J : s[j] \in Slots /\ Pos(h, s[j]) = j
      BY <1>2
    <2> QED BY <2>1
  <1> DEFINE f == [j \in J |-> a[slot[j]]]
  <1>4. \A j \in J : f[j] \in Prid
    <2> TAKE j \in J
    <2>1. Pos(h, slot[j]) < n
      BY <1>1, <1>3
    <2> QED BY <2>1 DEF Ring
  <1>5. \A j, l \in J : f[j] = f[l] => j = l
    <2> TAKE j, l \in J
    <2>1. f[j] # None
      BY <1>4, NAssumption DEF Prid, None
    <2> QED BY <2>1, <1>3 DEF Ring
  <1>6. IsFiniteSet(J) /\ Cardinality(J) = n
    BY <1>1, FS_Interval, NAssumption
  <1>7. IsFiniteSet(Prid) /\ Cardinality(Prid) = NSHR
    BY FS_Interval, NAssumption DEF Prid
  <1>8. ASSUME NEW S \in SUBSET Prid, \A j \in J : f[j] \in S
        PROVE  n <= Cardinality(S)
    <2>1. IsFiniteSet(S) /\ Cardinality(S) \in Nat
      BY <1>7, FS_Subset, FS_CardinalityType
    <2>2. f \in [J -> S]
      BY <1>8
    <2>3. SUFFICES ASSUME Cardinality(S) < n PROVE FALSE
      BY <2>1, <1>1
    <2>4. \E j, l \in J : j # l /\ f[j] = f[l]
      <3>1. Cardinality(S) < Cardinality(J)
        BY <2>3, <1>6
      <3> HIDE DEF f, J, n
      <3> QED BY <2>1, <2>2, <3>1, <1>6, FS_PigeonHole
    <2> QED BY <2>4, <1>5
  <1>9. IsFiniteSet(Prid \ {p}) /\ Cardinality(Prid \ {p}) = NSHR - 1
    BY <1>7, FS_RemoveElement
  <1>10. n <= NSHR - 1
    <2>1. \A j \in J : f[j] \in Prid \ {p}
      BY <1>3, <1>4
    <2>2. n <= Cardinality(Prid \ {p})
      BY <2>1, <1>8
    <2> QED BY <2>2, <1>9
  <1>11. ASSUME NEW x \in Prid, x # p, \A k \in Slots : a[k] # x
         PROVE  n <= NSHR - 2
    <2>1. \A j \in J : f[j] \in (Prid \ {p}) \ {x}
      BY <1>3, <1>4, <1>11
    <2>2. n <= Cardinality((Prid \ {p}) \ {x})
      BY <2>1, <1>8
    <2>3. Cardinality((Prid \ {p}) \ {x}) = NSHR - 1 - 1
      BY <1>9, <1>11, FS_RemoveElement
    <2> QED BY <2>2, <2>3, NAssumption
  <1> QED BY <1>10, <1>11

\* "enqueue if not present" puts p in the first free slot and keeps the ring.
LEMMA RingEnqueue ==
    ASSUME NEW a \in [Slots -> Prid \cup {None}], NEW h \in Slots, NEW t \in Slots,
           Ring(a, h, t),
           NEW p \in Prid, \A k \in Slots : a[k] # p
    PROVE  /\ Ring([a EXCEPT ![t] = p], h, (t + 1) % NSHR)
           /\ a[t] = None
           /\ Pos(h, t) = RingLen(a, h, t)
           /\ (t + 1) % NSHR \in Slots
  <1>1. RingLen(a, h, t) <= NSHR - 1
    BY RingRoom
  <1>2. Pos(h, t) = RingLen(a, h, t)
    BY <1>1, PosFacts, NAssumption DEF RingLen
  <1>3. a[t] = None
    BY <1>2, PosFacts, NAssumption DEF Ring
  <1> DEFINE b == [a EXCEPT ![t] = p]
             u == (t + 1) % NSHR
  <1>4. u = (IF t + 1 = NSHR THEN 0 ELSE t + 1) /\ u \in Slots
    BY ModInc, NAssumption DEF Slots
  <1>5. b[t] = p /\ p # None /\ \A k \in Slots : k # t => b[k] = a[k]
    BY NAssumption DEF Prid, None
  <1>6. RingLen(b, h, u) = RingLen(a, h, t) + 1
    <2>1. CASE u = h
      <3>1. b[h] # None
        <4>1. CASE t = h
          BY <4>1, <1>5
        <4>2. CASE t # h
          <5>1. a[h] # None
            BY <4>2, PosFacts, <1>2, NAssumption DEF Ring
          <5> QED BY <5>1, <4>2, <1>5
        <4> QED BY <4>1, <4>2
      <3>2. RingLen(b, h, u) = NSHR
        BY <2>1, <3>1 DEF RingLen
      <3>3. Pos(h, t) = NSHR - 1
        BY <2>1, <1>4, NAssumption DEF Pos, Slots
      <3> QED BY <3>2, <3>3, <1>2, NAssumption
    <2>2. CASE u # h
      <3>1. RingLen(b, h, u) = Pos(h, u)
        BY <2>2 DEF RingLen
      <3>2. Pos(h, u) = Pos(h, t) + 1
        BY <2>2, <1>4, NAssumption DEF Pos, Slots
      <3> QED BY <3>1, <3>2, <1>2
    <2> QED BY <2>1, <2>2
  <1>7. ASSUME NEW k \in Slots, NEW m \in Slots, b[k] # None, b[k] = b[m]
        PROVE  k = m
    BY <1>5, <1>7 DEF Ring
  <1>8. ASSUME NEW k \in Slots
        PROVE  b[k] # None <=> Pos(h, k) < RingLen(b, h, u)
    <2>1. CASE k = t
      BY <2>1, <1>5, <1>6, <1>2, PosFacts, NAssumption
    <2>2. CASE k # t
      <3>1. Pos(h, k) # Pos(h, t) /\ Pos(h, k) \in Int /\ Pos(h, t) \in Int
        BY <2>2, PosFacts
      <3>2. a[k] # None <=> Pos(h, k) < RingLen(a, h, t)
        BY DEF Ring
      <3>3. b[k] = a[k]
        BY <2>2, <1>5
      <3> QED BY <3>1, <3>2, <3>3, <1>2, <1>6
    <2> QED BY <2>1, <2>2
  <1>9. Ring(b, h, u)
    BY <1>7, <1>8, Zenon DEF Ring
  <1> QED BY <1>2, <1>3, <1>4, <1>9

\* "dequeue" frees the head slot, keeps the ring, and moves everybody else one
\* position forward.
LEMMA RingDequeue ==
    ASSUME NEW a \in [Slots -> Prid \cup {None}], NEW h \in Slots, NEW t \in Slots,
           Ring(a, h, t), a[h] # None
    PROVE  /\ Ring([a EXCEPT ![h] = None], (h + 1) % NSHR, t)
           /\ (h + 1) % NSHR \in Slots
           /\ \A k \in Slots : k # h =>
                 Pos((h + 1) % NSHR, k) = Pos(h, k) - 1
  <1> DEFINE b == [a EXCEPT ![h] = None]
             g == (h + 1) % NSHR
  <1>1. g = (IF h + 1 = NSHR THEN 0 ELSE h + 1) /\ g \in Slots
    BY ModInc, NAssumption DEF Slots
  <1>2. \A k \in Slots : k # h => Pos(g, k) = Pos(h, k) - 1
    BY <1>1, NAssumption DEF Pos, Slots
  <1>3. Pos(g, h) = NSHR - 1
    BY <1>1, NAssumption DEF Pos, Slots
  <1>4. b[h] = None /\ \A k \in Slots : k # h => b[k] = a[k]
    OBVIOUS
  <1>5. RingLen(a, h, t) \in 1 .. NSHR
    <2>1. RingLen(a, h, t) \in 0 .. NSHR
      BY PosFacts, NAssumption DEF RingLen
    <2>2. 0 < RingLen(a, h, t)
      BY PosFacts DEF Ring
    <2> QED BY <2>1, <2>2
  <1>6. RingLen(b, g, t) = RingLen(a, h, t) - 1
    <2>1. CASE t = h
      <3>1. RingLen(a, h, t) = NSHR
        BY <2>1 DEF RingLen
      <3>2. CASE g = h
        BY <3>1, <3>2, <2>1, <1>1, <1>4, NAssumption DEF RingLen, Slots
      <3>3. CASE g # h
        BY <3>1, <3>3, <2>1, <1>3, NAssumption DEF RingLen
      <3> QED BY <3>2, <3>3
    <2>2. CASE t # h
      <3>1. RingLen(a, h, t) = Pos(h, t)
        BY <2>2 DEF RingLen
      <3>2. Pos(g, t) = Pos(h, t) - 1
        BY <2>2, <1>2
      <3>3. CASE t # g
        BY <3>1, <3>2, <3>3 DEF RingLen
      <3>4. CASE t = g
        <4>1. Pos(h, t) = 1
          BY <3>2, <3>4, <1>1, PosFacts, NAssumption
        <4>2. a[g] = None
          BY <3>1, <3>4, <4>1 DEF Ring
        <4> QED BY <4>1, <4>2, <3>1, <3>4, <2>2, <1>4 DEF RingLen
      <3> QED BY <3>3, <3>4
    <2> QED BY <2>1, <2>2
  <1>7. ASSUME NEW k \in Slots, NEW m \in Slots, b[k] # None, b[k] = b[m]
        PROVE  k = m
    BY <1>4, <1>7 DEF Ring
  <1>8. ASSUME NEW k \in Slots
        PROVE  b[k] # None <=> Pos(g, k) < RingLen(b, g, t)
    <2>1. CASE k = h
      BY <2>1, <1>3, <1>4, <1>5, <1>6, NAssumption
    <2>2. CASE k # h
      <3>1. a[k] # None <=> Pos(h, k) < RingLen(a, h, t)
        BY DEF Ring
      <3>2. Pos(h, k) \in Int
        BY PosFacts
      <3> QED BY <2>2, <3>1, <3>2, <1>2, <1>4, <1>5, <1>6
    <2> QED BY <2>1, <2>2
  <1>9. Ring(b, g, t)
    BY <1>7, <1>8, Zenon DEF Ring
  <1> QED BY <1>1, <1>2, <1>9

-----------------------------------------------------------------------------
(* Typing. *)

\* Mem_busacc keeps the controller well typed.
LEMMA BusType ==
    ASSUME TypeOK, NEW p \in Prid, Mem_busacc(p)
    PROVE  /\ used' \in BOOLEAN
           /\ arr' \in [Slots -> Prid \cup {None}]
           /\ hd' \in Slots /\ tl' \in Slots
  <1>1. ArrWith(p) \in [Slots -> Prid \cup {None}]
    BY DEF TypeOK, ArrWith
  <1>2. (hd + 1) % NSHR \in Slots /\ (tl + 1) % NSHR \in Slots
    BY ModInc, NAssumption DEF TypeOK, Slots
  <1>3. TlWith(p) \in Slots
    BY <1>2 DEF TypeOK, TlWith
  <1> QED BY <1>1, <1>2, <1>3 DEF TypeOK, Mem_busacc, Dequeue, busVars

\* A byte, extended or not, and the constants built from one, are words.
LEMMA SignExtType == \A b \in Byte : SignExt(b) \in Word
  BY DEF SignExt, Word, Byte

\* The two results of an SC are words.
LEMMA ConstType == One \in Word /\ Zero \in Word
  BY SignExtType DEF One, Zero, Byte

\* The word read at an address that passed the checks of Mem_lw is in bounds.
LEMMA WordAtType ==
    ASSUME data \in [0 .. MemSize - 1 -> Byte], NEW a \in Nat, WordErr(a) = "ok"
    PROVE  WordAt(a) \in Word
  <1>1. a < MemSize /\ a % 4 = 0
    BY MemAssumption DEF WordErr
  <1>2. a + 3 < MemSize
    BY <1>1, MemAssumption
  <1>3. \A k \in 0 .. 3 : a + k \in 0 .. MemSize - 1
    BY <1>2, MemAssumption
  <1> QED BY <1>3 DEF WordAt, Word

\* The stores keep the memory and the reservations well typed.
LEMMA StoreType ==
    ASSUME TypeOK, NEW p \in Prid, NEW ins \in Instrs, AccessMem(p, ins)
    PROVE  /\ resaddr' \in [Prid -> Addrs \cup {None}]
           /\ data' \in [0 .. MemSize - 1 -> Byte]
  <1>1. ins.addr \in Nat /\ ins.addr \in Addrs /\ ins.val \in Word
    BY ShrMemAssumption DEF Instr, Addrs
  <1>2. Unreserved(ins.addr) \in [Prid -> Addrs \cup {None}]
    BY DEF TypeOK, Unreserved
  <1>3. Overwritten(ins.addr, ins.val) \in [0 .. MemSize - 1 -> Byte]
    <2> SUFFICES ASSUME NEW b \in 0 .. MemSize - 1
                 PROVE  (IF b \in ins.addr .. ins.addr + 3
                         THEN ins.val[b - ins.addr] ELSE data[b]) \in Byte
      BY DEF TypeOK, Overwritten
    <2>1. CASE b \in ins.addr .. ins.addr + 3
      <3>1. b - ins.addr \in 0 .. 3
        BY <2>1, <1>1
      <3> QED BY <3>1, <2>1, <1>1 DEF Word
    <2>2. CASE b \notin ins.addr .. ins.addr + 3
      BY <2>2 DEF TypeOK
    <2> QED BY <2>1, <2>2
  <1>4. ins.val[0] \in Byte
    BY <1>1 DEF Word
  <1>5. CASE Mem_load
    BY <1>5 DEF Mem_load, TypeOK
  <1>6. CASE Mem_sb(ins.addr, ins.val)
    BY <1>6, <1>4 DEF Mem_sb, TypeOK
  <1>7. CASE Mem_sw(ins.addr, ins.val)
    BY <1>7, <1>2, <1>3 DEF Mem_sw, TypeOK
  <1>8. CASE Mem_ll(p, ins.addr)
    BY <1>8, <1>1 DEF Mem_ll, TypeOK
  <1>9. CASE Mem_sc(p, ins.addr, ins.val)
    BY <1>9, <1>7 DEF Mem_sc, TypeOK
  <1> QED BY <1>5, <1>6, <1>7, <1>8, <1>9 DEF AccessMem

\* What a granted access leaves in a register is a word.
LEMMA ResultType ==
    ASSUME TypeOK, NEW p \in Prid, NEW ins \in Instrs,
           UsesBus(ins), ~Faults(p, ins)
    PROVE  Result(p, ins) \in Word
  <1>1. ins.addr \in Nat /\ ins.val \in Word
    BY ShrMemAssumption DEF Instr
  <1>2. CASE ins.op = "LB"
    <2>1. ins.addr \in 0 .. MemSize - 1
      BY <1>1, <1>2, MemAssumption DEF Faults, AccessErr, ByteErr
    <2>2. data[ins.addr] \in Byte
      BY <2>1 DEF TypeOK
    <2> QED BY <2>2, <1>2, SignExtType DEF Result
  <1>3. CASE ins.op \in {"LW", "LL"}
    <2>1. WordErr(ins.addr) = "ok"
      BY <1>3 DEF Faults, AccessErr, WordErr
    <2> QED BY <2>1, <1>1, <1>3, WordAtType DEF Result, TypeOK
  <1>4. CASE ins.op = "SC"
    BY <1>4, ConstType DEF Result
  <1>5. CASE ins.op \notin {"LB", "LW", "LL", "SC"}
    BY <1>5 DEF Result, TypeOK
  <1> QED BY <1>2, <1>3, <1>4, <1>5

\* The initial state: everything is empty and every processor runs.
LEMMA InitType == Init => TypeOK /\ RunCount
  <1> SUFFICES ASSUME Init PROVE TypeOK /\ RunCount
    OBVIOUS
  <1>1. 0 \in Slots /\ ScAddrs \subseteq Addrs
    BY NAssumption DEF Slots, ScAddrs, Addrs
  <1>2. TypeOK
    <2>1. /\ used \in BOOLEAN
          /\ arr \in [Slots -> Prid \cup {None}]
          /\ hd \in Slots /\ tl \in Slots
      BY <1>1 DEF Init, MemInit
    <2>2. resaddr \in [Prid -> Addrs \cup {None}]
      BY <1>1 DEF Init, MemInit
    <2>3. data \in [0 .. MemSize - 1 -> Byte]
      BY MemAssumption DEF Init, MemInit
    <2>4. i \in 0 .. NSHR /\ nrun \in 0 .. NSHR /\ age \in [Prid -> 0 .. NSHR]
      BY NAssumption DEF Init
    <2>5. running \in [Prid -> BOOLEAN] /\ comm \in [Prid -> BOOLEAN]
      BY DEF Init
    <2>6. ir \in [Prid -> Instrs \cup {Fresh}] /\ rt \in [Prid -> Word]
      BY ConstType DEF Init
    <2>7. ll \in [Prid -> Addrs \cup {None}] /\ clean \in [Prid -> BOOLEAN]
      BY DEF Init
    <2> QED BY <2>1, <2>2, <2>3, <2>4, <2>5, <2>6, <2>7 DEF TypeOK
  <1>3. {p \in Prid : running[p]} = Prid
    BY DEF Init
  <1>4. Cardinality(Prid) = NSHR
    BY FS_Interval, NAssumption DEF Prid
  <1> QED BY <1>2, <1>3, <1>4 DEF Init, RunCount

\* A processor that stops is one that nrun counted, so nrun stays exact.
LEMMA WaitCount ==
    ASSUME TypeOK, RunCount, NEW p \in Prid, running[p],
           running' = [running EXCEPT ![p] = FALSE], nrun' = nrun - 1
    PROVE  RunCount' /\ nrun' \in 0 .. NSHR
  <1> DEFINE R == {q \in Prid : running[q]}
  <1>1. {q \in Prid : running'[q]} = R \ {p}
    BY DEF TypeOK
  <1>2. IsFiniteSet(R) /\ p \in R
    <2>1. IsFiniteSet(Prid)
      BY FS_Interval, NAssumption DEF Prid
    <2> QED BY <2>1, FS_Subset
  <1>3. Cardinality(R \ {p}) = Cardinality(R) - 1 /\ Cardinality(R \ {p}) \in Nat
    BY <1>2, FS_RemoveElement, FS_CardinalityType
  <1>4. nrun' = Cardinality(R \ {p})
    BY <1>3 DEF RunCount
  <1>5. nrun' \in 0 .. NSHR
    BY <1>3, <1>4, NAssumption DEF TypeOK
  <1> QED BY <1>1, <1>4, <1>5 DEF RunCount

\* Every step keeps the types and the count of running processors.
LEMMA NextType == TypeOK /\ RunCount /\ [Next]_vars => TypeOK' /\ RunCount'
  <1> SUFFICES ASSUME TypeOK, RunCount, [Next]_vars
               PROVE  TypeOK' /\ RunCount'
    OBVIOUS
  <1>1. CASE UNCHANGED vars
    BY <1>1 DEF vars, memVars, cpuVars, TypeOK, RunCount
  <1>2. CASE BusClr
    <2>1. i' \in 0 .. NSHR
      BY <1>2, NAssumption DEF BusClr
    <2>2. used' \in BOOLEAN
      BY <1>2, Zenon DEF BusClr, Mem_busclr
    <2> QED BY <1>2, <2>1, <2>2 DEF BusClr, Mem_busclr, TypeOK, RunCount
  <1>3. CASE Returned
    BY <1>3, <1>1 DEF Returned
  <1>4. ASSUME NEW p \in Prid, Calls(p)
        PROVE  i' \in 0 .. NSHR
    BY <1>4, NAssumption DEF Calls, Prid
  <1>5. ASSUME NEW p \in Prid, Idle(p)
        PROVE  TypeOK' /\ RunCount'
    <2>1. nrun' = nrun
      BY <1>5 DEF Idle, Counted
    <2> QED BY <1>5, <1>4, <2>1 DEF Idle, memVars, TypeOK, RunCount
  <1>6. ASSUME NEW p \in Prid, NEW ins \in Instrs, Execute(p, ins)
        PROVE  TypeOK' /\ RunCount'
    <2>0. i' \in 0 .. NSHR
      BY <1>6, <1>4 DEF Execute, Alu, Wait, Comm, Bad, Terminal, Deferred,
                        Access, Runs
    <2>1. Advance(p) => ir' \in [Prid -> Instrs \cup {Fresh}]
      BY DEF Advance, TypeOK
    <2>2. Retry(p, ins) => ir' \in [Prid -> Instrs \cup {Fresh}]
      BY DEF Retry, TypeOK
    <2>k. \/ Alu(p, ins) \/ Comm(p, ins) \/ Bad(p, ins)
          \/ Terminal(p, ins) \/ Deferred(p, ins) \/ Access(p, ins)
          => nrun' = nrun
      BY DEF Alu, Comm, Bad, Terminal, Deferred, Access, Runs, Counted
    <2>3. CASE Alu(p, ins)
      BY <2>0, <2>1, <2>3, <2>k DEF Alu, memVars, TypeOK, RunCount
    <2>4. CASE Wait(p, ins)
      <3>1. running[p] /\ running' = [running EXCEPT ![p] = FALSE]
        BY <2>4 DEF Wait, Runs
      <3>2. nrun' = nrun - 1
        BY <2>4, <3>1 DEF Wait, Counted, TypeOK
      <3>3. RunCount' /\ nrun' \in 0 .. NSHR
        BY <3>1, <3>2, WaitCount
      <3> QED BY <2>0, <2>1, <2>4, <3>3 DEF Wait, memVars, TypeOK
    <2>5. CASE Comm(p, ins)
      BY <2>0, <2>1, <2>5, <2>k DEF Comm, memVars, TypeOK, RunCount
    <2>6. CASE Bad(p, ins)
      BY <2>0, <2>2, <2>6, <2>k DEF Bad, memVars, TypeOK, RunCount
    <2>7. CASE Terminal(p, ins)
      <3>1. rt' \in [Prid -> Word]
        BY <2>7, ShrMemAssumption DEF Terminal, TypeOK
      <3> QED BY <2>0, <2>1, <2>7, <2>k, <3>1 DEF Terminal, memVars, TypeOK, RunCount
    <2>8. CASE Deferred(p, ins)
      <3>1. /\ used' \in BOOLEAN
            /\ arr' \in [Slots -> Prid \cup {None}]
            /\ hd' \in Slots /\ tl' \in Slots
        BY <2>8, BusType DEF Deferred
      <3>2. age' \in [Prid -> 0 .. NSHR]
        BY <2>8, NAssumption DEF Deferred, TypeOK
      <3> QED BY <2>0, <2>2, <2>8, <2>k, <3>1, <3>2 DEF Deferred, TypeOK, RunCount
    <2>9. CASE Access(p, ins)
      <3>1. /\ used' \in BOOLEAN
            /\ arr' \in [Slots -> Prid \cup {None}]
            /\ hd' \in Slots /\ tl' \in Slots
        BY <2>9, BusType DEF Access
      <3>2. /\ resaddr' \in [Prid -> Addrs \cup {None}]
            /\ data' \in [0 .. MemSize - 1 -> Byte]
        BY <2>9, StoreType DEF Access
      <3>3. age' \in [Prid -> 0 .. NSHR]
        BY <2>9, NAssumption DEF Access, TypeOK
      <3>4. ins.addr \in Addrs
        BY DEF Addrs
      <3>5. ll' \in [Prid -> Addrs \cup {None}] /\ clean' \in [Prid -> BOOLEAN]
        <4>1. NoteAccess(p, ins)
          BY <2>9 DEF Access
        <4>2. CASE ins.op = "LL"
          BY <3>4, <4>1, <4>2 DEF NoteAccess, TypeOK
        <4>3. CASE ins.op # "LL"
          BY <4>1, <4>3, Zenon DEF NoteAccess, TypeOK
        <4> QED BY <4>2, <4>3
      <3>6. rt' \in [Prid -> Word] /\ ir' \in [Prid -> Instrs \cup {Fresh}]
        <4>1. CASE Faults(p, ins)
          BY <2>2, <2>9, <4>1 DEF Access, TypeOK
        <4>2. CASE ~Faults(p, ins)
          <5>1. Result(p, ins) \in Word
            BY <2>9, <4>2, ResultType DEF Access
          <5>2. rt' = [rt EXCEPT ![p] = Result(p, ins)] /\ Advance(p)
            BY <2>9, <4>2 DEF Access
          <5> QED BY <2>1, <5>1, <5>2 DEF TypeOK
        <4> QED BY <4>1, <4>2
      <3> QED BY <2>0, <2>9, <2>k, <3>1, <3>2, <3>3, <3>5, <3>6
              DEF Access, TypeOK, RunCount
    <2> QED BY <1>6, <2>3, <2>4, <2>5, <2>6, <2>7, <2>8, <2>9 DEF Execute
  <1> QED BY <1>1, <1>2, <1>3, <1>5, <1>6 DEF Next

\* The two together are inductive.
LEMMA TypeInvariant == Spec => [](TypeOK /\ RunCount)
  BY InitType, NextType, PTL DEF Spec

\* The variables of the controller (mem.c), of the loop of sim and of the
\* processors keep their types.
THEOREM TypeCorrect == Spec => []TypeOK
  BY TypeInvariant, PTL

\* nrun of sim is the number of running processors: the loop ends when all have
\* executed WAIT, and only then.
THEOREM RunCountExact == Spec => []RunCount
  BY TypeInvariant, PTL

-----------------------------------------------------------------------------
(* The bus invariant.  Each lemma is about one kind of step. *)

\* BusInv bounds every wait by N - 1.
LEMMA BusInvCost == TypeOK /\ BusInv => AccessCost
  <1> SUFFICES ASSUME TypeOK, BusInv, NEW p \in Prid PROVE age[p] < NSHR
    BY DEF AccessCost
  <1>1. age[p] \in 0 .. NSHR
    BY DEF TypeOK
  <1>2. CASE ~Queued(p)
    BY <1>1, <1>2, NAssumption DEF BusInv, Waiting
  <1>3. CASE Queued(p)
    <2>1. PICK k \in Slots : arr[k] = p
      BY <1>3 DEF Queued
    <2>2. p # None
      BY NAssumption DEF Prid, None
    <2>3. Ahead(p, k) <= NSHR
      BY <2>1, <2>2 DEF BusInv, Slack
    <2>4. Pos(hd, k) \in 0 .. NSHR - 1 /\ (Pos(hd, k) = 0 => k = hd)
      BY PosFacts DEF TypeOK
    <2>5. p < i /\ ~used => k # hd
      BY <2>1, <2>2, NAssumption DEF BusInv, HeadIsLater, TypeOK, Prid
    <2> QED BY <1>1, <2>3, <2>4, <2>5, NAssumption DEF Ahead, TypeOK, Prid
  <1> QED BY <1>2, <1>3

\* A call of a processor that neither asks for the bus nor is in the ring.
LEMMA NoRequest ==
    ASSUME TypeOK, BusInv, NEW p \in Prid, i = p, i' = i + 1, ~Queued(p),
           UNCHANGED busVars, UNCHANGED age,
           \A q \in Prid : q # p => /\ running'[q] = running[q]
                                    /\ comm'[q] = comm[q]
                                    /\ ir'[q] = ir[q]
    PROVE  BusInv'
  <1>1. \A q \in Prid : Queued(q)' <=> Queued(q)
    BY DEF Queued, busVars
  <1>2. Ring(arr, hd, tl)'
    BY DEF BusInv, Ring, RingLen, Pos, busVars
  <1>3. \A q \in Prid : Waiting(q)'
    <2> TAKE q \in Prid
    <2>1. CASE q = p
      BY <1>1, <2>1 DEF BusInv, Waiting
    <2>2. CASE q # p
      BY <1>1, <2>2 DEF BusInv, Waiting
    <2> QED BY <2>1, <2>2
  <1>4. \A k \in Slots : arr[k] # p
    BY DEF Queued
  <1>5. HeadIsLater'
    <2> SUFFICES ASSUME ~used', arr'[hd'] # None PROVE arr'[hd'] >= i'
      BY DEF HeadIsLater
    <2>1. arr[hd] >= i /\ arr[hd] # p /\ arr[hd] \in Prid
      BY <1>4 DEF BusInv, HeadIsLater, busVars, TypeOK
    <2> QED BY <2>1, NAssumption DEF busVars, Prid
  <1>6. SomeoneServed'
    <2> SUFFICES ASSUME used' PROVE \E x \in Prid : x < i' /\ ~Queued(x)'
      BY DEF SomeoneServed
    <2>1. PICK x \in Prid : x < i /\ ~Queued(x)
      BY DEF BusInv, SomeoneServed, busVars
    <2> QED BY <1>1, <2>1, NAssumption DEF Prid
  <1>7. Slack'
    <2> SUFFICES ASSUME NEW k \in Slots, arr'[k] # None
                 PROVE  Ahead(arr[k], k)' <= NSHR
      BY DEF Slack, busVars
    <2>1. arr[k] \in Prid /\ arr[k] # p /\ Ahead(arr[k], k) <= NSHR
      BY <1>4 DEF TypeOK, BusInv, Slack, busVars
    <2>2. arr[k] < i' <=> arr[k] < i
      BY <2>1, NAssumption DEF Prid
    <2> QED BY <2>1, <2>2 DEF Ahead, Pos, busVars
  <1>8. Unshared'
    BY DEF BusInv, Unshared, Shared, busVars
  <1> QED BY <1>2, <1>3, <1>5, <1>6, <1>7, <1>8 DEF BusInv

\* The start of a cycle: a waiting processor at the head means that the last
\* cycle granted the bus, and that grant is the slack of the new cycle.
LEMMA BusClrStep == TypeOK /\ BusInv /\ BusClr => BusInv'
  <1> SUFFICES ASSUME TypeOK, BusInv, BusClr PROVE BusInv'
    OBVIOUS
  <1> USE DEF BusClr, Mem_busclr
  <1>1. \A q \in Prid : Queued(q)' <=> Queued(q)
    BY DEF Queued
  <1>2. Ring(arr, hd, tl)'
    BY DEF BusInv, Ring, RingLen, Pos
  <1>3. \A q \in Prid : Waiting(q)'
    BY <1>1 DEF BusInv, Waiting
  <1>4. HeadIsLater' /\ SomeoneServed' /\ Unshared'
    <2>1. ~used'
      BY Zenon
    <2>2. arr[hd] # None => arr[hd] >= 0
      BY NAssumption DEF TypeOK, Prid
    <2>3. Unshared'
      BY DEF BusInv, Unshared, Shared
    <2> QED BY <2>1, <2>2, <2>3 DEF HeadIsLater, SomeoneServed
  <1>5. Slack'
    <2> SUFFICES ASSUME NEW k \in Slots, arr[k] # None
                 PROVE  Ahead(arr[k], k)' <= NSHR
      BY DEF Slack
    <2>1. arr[k] \in Prid /\ Ahead(arr[k], k) <= NSHR
      BY DEF TypeOK, BusInv, Slack
    <2>2. arr[hd] # None
      <3> DEFINE n == RingLen(arr, hd, tl)
      <3>1. hd \in Slots /\ \A m \in Slots : arr[m] # None <=> Pos(hd, m) < n
        BY DEF BusInv, Ring, TypeOK
      <3>2. n \in Int
        BY PosFacts, NAssumption DEF TypeOK, RingLen
      <3>3. Pos(hd, hd) = 0 /\ Pos(hd, k) \in 0 .. NSHR - 1
        BY <3>1, PosFacts
      <3> HIDE DEF n
      <3> QED BY <3>1, <3>2, <3>3, NAssumption
    <2>3. used
      BY <2>2, NAssumption DEF BusInv, HeadIsLater, TypeOK, Prid
    <2>4. age[arr[k]] \in Nat /\ Pos(hd, k) \in Int
      BY <2>1, PosFacts DEF TypeOK
    <2>5. Ahead(arr[k], k) = age[arr[k]] + Pos(hd, k) + 1
      BY <2>1, <2>3, <2>4, NAssumption DEF Ahead, Prid
    <2>6. Ahead(arr[k], k)' = age[arr[k]] + Pos(hd, k) + 1
      <3>1. ~used' /\ i' = 0
        BY Zenon
      <3> QED BY <2>1, <2>4, <3>1, NAssumption DEF Ahead, Prid, Pos
    <2> QED BY <2>1, <2>5, <2>6
  <1> QED BY <1>2, <1>3, <1>4, <1>5 DEF BusInv

\* Mem_busacc up to its test: the ring with p in it, p's slot, and the room
\* that the newcomer finds.
LEMMA Enqueued ==
    ASSUME TypeOK, BusInv, NEW p \in Prid
    PROVE  /\ ArrWith(p) \in [Slots -> Prid \cup {None}]
           /\ TlWith(p) \in Slots
           /\ Ring(ArrWith(p), hd, TlWith(p))
           /\ \A k \in Slots : ArrWith(p)[k] # p => ArrWith(p)[k] = arr[k]
           /\ \A k \in Slots : arr[k] # None => ArrWith(p)[k] = arr[k]
           /\ \E k \in Slots : /\ ArrWith(p)[k] = p
                               /\ ~Queued(p) => Pos(hd, k) <= NSHR - 1
                               /\ \A x \in Prid :
                                    ~Queued(p) /\ x # p /\ ~Queued(x)
                                        => Pos(hd, k) <= NSHR - 2
  <1>1. arr \in [Slots -> Prid \cup {None}] /\ hd \in Slots /\ tl \in Slots
    BY DEF TypeOK
  <1>2. Ring(arr, hd, tl)
    BY DEF BusInv
  <1>3. CASE Queued(p)
    <2>1. ArrWith(p) = arr /\ TlWith(p) = tl
      BY <1>3 DEF ArrWith, TlWith
    <2> QED BY <1>1, <1>2, <1>3, <2>1 DEF Queued
  <1>4. CASE ~Queued(p)
    <2>1. ArrWith(p) = [arr EXCEPT ![tl] = p] /\ TlWith(p) = (tl + 1) % NSHR
      BY <1>4 DEF ArrWith, TlWith
    <2>2. \A k \in Slots : arr[k] # p
      BY <1>4 DEF Queued
    <2>3. /\ Ring(ArrWith(p), hd, TlWith(p))
          /\ arr[tl] = None
          /\ Pos(hd, tl) = RingLen(arr, hd, tl)
          /\ TlWith(p) \in Slots
      <3>1. /\ Ring([arr EXCEPT ![tl] = p], hd, (tl + 1) % NSHR)
            /\ arr[tl] = None
            /\ Pos(hd, tl) = RingLen(arr, hd, tl)
            /\ (tl + 1) % NSHR \in Slots
        BY <1>1, <1>2, <2>2, RingEnqueue
      <3> QED BY <2>1, <3>1
    <2>4. /\ Pos(hd, tl) <= NSHR - 1
          /\ \A x \in Prid : x # p /\ ~Queued(x) => Pos(hd, tl) <= NSHR - 2
      BY <1>1, <1>2, <2>2, <2>3, RingRoom DEF Queued
    <2>5. ArrWith(p)[tl] = p
      BY <1>1, <2>1
    <2>6. \A k \in Slots : k # tl => ArrWith(p)[k] = arr[k]
      BY <1>1, <2>1
    <2> QED BY <1>1, <2>1, <2>3, <2>4, <2>5, <2>6
  <1> QED BY <1>3, <1>4

\* A deferred access: p stays or gets in the ring, one deferral older.
LEMMA DeferredStep ==
    ASSUME TypeOK, BusInv, NEW p \in Prid, NEW ins \in Instrs, Deferred(p, ins)
    PROVE  BusInv'
  <1> DEFINE A == ArrWith(p)
  <1>1. /\ Shared /\ ~Granted(p) /\ i = p /\ i' = i + 1
        /\ arr' = A /\ tl' = TlWith(p) /\ hd' = hd /\ used' = used
    BY DEF Deferred, Granted, Mem_busacc, Runs, Calls
  <1>2. /\ UsesBus(ins) /\ running[p] /\ ~comm[p]
        /\ ir' = [ir EXCEPT ![p] = ins]
        /\ UNCHANGED <<running, comm>>
    BY DEF Deferred, Retry, Runs
  <1>3. age[p] < NSHR
    BY BusInvCost DEF AccessCost
  <1>4. age' = [age EXCEPT ![p] = age[p] + 1]
    BY <1>3 DEF Deferred
  <1>5. /\ A \in [Slots -> Prid \cup {None}]
        /\ Ring(A, hd, TlWith(p))
        /\ \A k \in Slots : A[k] # p => A[k] = arr[k]
        /\ \A k \in Slots : arr[k] # None => A[k] = arr[k]
    BY Enqueued
  <1>6. PICK s \in Slots : /\ A[s] = p
                           /\ ~Queued(p) => Pos(hd, s) <= NSHR - 1
                           /\ \A x \in Prid : ~Queued(p) /\ x # p /\ ~Queued(x)
                                    => Pos(hd, s) <= NSHR - 2
    BY Enqueued
  <1>7. p # None /\ p \in Nat
    BY NAssumption DEF Prid, None
  <1>8. Ring(arr, hd, tl)'
    BY <1>1, <1>5 DEF Ring, RingLen, Pos
  <1>9. \A q \in Prid : q # p => (Queued(q)' <=> Queued(q))
    <2> TAKE q \in Prid
    <2>1. q # None
      BY NAssumption DEF Prid, None
    <2> QED BY <1>1, <1>5, <2>1 DEF Queued
  <1>10. \A q \in Prid : Waiting(q)'
    <2> TAKE q \in Prid
    <2>1. CASE q = p
      <3>1. Queued(p)'
        BY <1>1, <1>6 DEF Queued
      <3>2. age'[p] > 0
        BY <1>4 DEF TypeOK
      <3>3. UsesBus(ir'[p])
        BY <1>2 DEF TypeOK
      <3>4. UsesBus(ir[p])'
        BY <3>3 DEF UsesBus
      <3> QED BY <2>1, <1>2, <3>1, <3>2, <3>4 DEF Waiting
    <2>2. CASE q # p
      <3>1. age'[q] = age[q] /\ ir'[q] = ir[q]
        BY <1>2, <1>4, <2>2 DEF TypeOK
      <3> QED BY <1>2, <1>9, <2>2, <3>1 DEF BusInv, Waiting, UsesBus
    <2> QED BY <2>1, <2>2
  <1>11. HeadIsLater'
    <2> SUFFICES ASSUME ~used', A[hd] # None PROVE A[hd] >= i'
      BY <1>1 DEF HeadIsLater
    <2>1. A[hd] # p
      BY <1>1 DEF Granted
    <2>2. A[hd] = arr[hd] /\ A[hd] \in Prid
      BY <1>5, <2>1 DEF TypeOK
    <2>3. arr[hd] >= i
      BY <1>1, <2>2 DEF BusInv, HeadIsLater
    <2> QED BY <1>1, <2>1, <2>2, <2>3, NAssumption DEF Prid
  <1>12. SomeoneServed'
    <2> SUFFICES ASSUME used PROVE \E x \in Prid : x < i' /\ ~Queued(x)'
      BY <1>1 DEF SomeoneServed
    <2>1. PICK x \in Prid : x < i /\ ~Queued(x)
      BY DEF BusInv, SomeoneServed
    <2>2. x # p /\ x < i'
      BY <1>1, <2>1, NAssumption DEF Prid
    <2> QED BY <1>9, <2>1, <2>2
  <1>13. Slack'
    <2> DEFINE After(q, k) == age'[q] + Pos(hd, k) + (IF q < i' THEN 0 ELSE 1)
                                                   + (IF used THEN 1 ELSE 0)
    <2>0. SUFFICES ASSUME NEW k \in Slots, A[k] # None
                   PROVE  After(A[k], k) <= NSHR
      BY <1>1 DEF Slack, Ahead, Pos
    <2>1. A[k] \in Prid
      BY <1>5, <2>0
    <2>2. Pos(hd, k) \in Int
      BY PosFacts DEF TypeOK
    <2>3. CASE A[k] # p
      <3>1. A[k] = arr[k] /\ Ahead(A[k], k) <= NSHR
        BY <1>5, <2>0, <2>3 DEF BusInv, Slack
      <3>2. age'[A[k]] = age[A[k]]
        BY <1>4, <2>1, <2>3 DEF TypeOK
      <3>3. A[k] < i' <=> A[k] < i
        BY <1>1, <2>1, <2>3, NAssumption DEF Prid
      <3> QED BY <3>1, <3>2, <3>3 DEF Ahead
    <2>4. CASE A[k] = p
      <3>1. k = s
        BY <1>5, <1>6, <1>7, <2>4 DEF Ring
      <3>2. After(A[k], k) = age[p] + 1 + Pos(hd, k) + (IF used THEN 1 ELSE 0)
        <4>1. age'[p] = age[p] + 1 /\ age[p] \in Nat /\ p < i'
          BY <1>1, <1>4, <1>7 DEF TypeOK
        <4> QED BY <2>2, <2>4, <4>1
      <3>3. CASE Queued(p)
        <4>1. arr[k] = p
          BY <2>4, <3>3 DEF ArrWith
        <4>2. Ahead(p, k) <= NSHR
          BY <1>7, <4>1 DEF BusInv, Slack
        <4>3. Ahead(p, k) = age[p] + Pos(hd, k) + 1 + (IF used THEN 1 ELSE 0)
          BY <1>1, <1>7 DEF Ahead
        <4>4. age[p] \in Nat
          BY DEF TypeOK
        <4> QED BY <2>2, <3>2, <4>2, <4>3, <4>4
      <3>4. CASE ~Queued(p)
        <4>1. age[p] = 0
          BY <3>4 DEF BusInv, Waiting, TypeOK
        <4>2. CASE ~used
          BY <1>6, <2>2, <3>1, <3>2, <3>4, <4>1, <4>2, NAssumption
        <4>3. CASE used
          <5>1. PICK x \in Prid : x < i /\ ~Queued(x)
            BY <4>3 DEF BusInv, SomeoneServed
          <5>2. x # p
            BY <1>1, <5>1, NAssumption DEF Prid
          <5>3. Pos(hd, k) <= NSHR - 2
            BY <1>6, <3>1, <3>4, <5>1, <5>2
          <5> QED BY <2>2, <3>2, <4>1, <4>3, <5>3, NAssumption
        <4> QED BY <4>2, <4>3
      <3> QED BY <3>3, <3>4
    <2> QED BY <2>3, <2>4
  <1>14. Unshared'
    BY <1>1 DEF Unshared, Shared
  <1> QED BY <1>8, <1>10, <1>11, <1>12, <1>13, <1>14 DEF BusInv

\* A granted access: p, the head of the ring, leaves it.  The others move one
\* position forward, which pays for the bus being taken.
LEMMA AccessStep ==
    ASSUME TypeOK, BusInv, NEW p \in Prid, NEW ins \in Instrs, Access(p, ins)
    PROVE  BusInv'
  <1> DEFINE A == ArrWith(p)
             g == (hd + 1) % NSHR
  <1>1. /\ Granted(p) /\ i = p /\ i' = i + 1
        /\ age' = [age EXCEPT ![p] = 0]
        /\ UNCHANGED <<running, comm>>
    BY DEF Access, Runs, Calls
  <1>2. \A q \in Prid : q # p => ir'[q] = ir[q] /\ age'[q] = age[q]
    BY <1>1 DEF Access, Advance, Retry, TypeOK
  <1>3. age'[p] = 0
    BY <1>1 DEF TypeOK
  <1>4. p # None /\ p \in Nat
    BY NAssumption DEF Prid, None
  <1>5. CASE ~Shared
    <2>1. UNCHANGED busVars
      BY <1>5 DEF Access, Mem_busacc
    <2>2. \A k \in Slots : arr[k] = None
      BY <1>5 DEF BusInv, Unshared
    <2>3. \A q \in Prid : ~Queued(q)
      BY <2>2, NAssumption DEF Queued, Prid, None
    <2>4. age[p] = 0
      BY <2>3 DEF BusInv, Waiting, TypeOK
    <2>5. age' = age
      BY <1>1, <2>4 DEF TypeOK
    <2> QED BY <1>1, <1>2, <2>1, <2>3, <2>5, NoRequest
  <1>6. CASE Shared
    <2>1. /\ ~used /\ A[hd] = p
          /\ arr' = [A EXCEPT ![hd] = None] /\ tl' = TlWith(p)
          /\ hd' = g /\ used' = TRUE
      BY <1>1, <1>6 DEF Access, Mem_busacc, Granted, Dequeue
    <2>2. /\ A \in [Slots -> Prid \cup {None}]
          /\ Ring(A, hd, TlWith(p)) /\ TlWith(p) \in Slots
          /\ \A k \in Slots : A[k] # p => A[k] = arr[k]
          /\ \A k \in Slots : arr[k] # None => A[k] = arr[k]
      BY Enqueued
    <2>3. hd \in Slots
      BY DEF TypeOK
    <2>4. /\ Ring([A EXCEPT ![hd] = None], g, TlWith(p))
          /\ \A k \in Slots : k # hd => Pos(g, k) = Pos(hd, k) - 1
      <3>1. A[hd] # None
        BY <1>4, <2>1
      <3> HIDE DEF A
      <3> QED BY <2>2, <2>3, <3>1, RingDequeue
    <2>5. Ring(arr, hd, tl)'
      BY <2>1, <2>4 DEF Ring, RingLen, Pos
    <2>6. \A k \in Slots : k # hd => arr'[k] = A[k] /\ A[k] # p
      <3>1. \A k \in Slots : k # hd => A[k] # p
        BY <1>4, <2>1, <2>2, <2>3 DEF Ring
      <3>2. \A k \in Slots : k # hd => arr'[k] = A[k]
        BY <2>1, <2>2
      <3> QED BY <3>1, <3>2
    <2>7. arr'[hd] = None
      BY <2>1, <2>2, <2>3
    <2>8. ~Queued(p)'
      BY <1>4, <2>6, <2>7 DEF Queued
    <2>9. \A q \in Prid : q # p => (Queued(q)' <=> Queued(q))
      <3> SUFFICES ASSUME NEW q \in Prid, q # p PROVE Queued(q)' <=> Queued(q)
        OBVIOUS
      <3>1. q # None
        BY NAssumption DEF Prid, None
      <3>2. ASSUME NEW k \in Slots, arr'[k] = q PROVE Queued(q)
        BY <2>2, <2>6, <2>7, <3>1, <3>2 DEF Queued
      <3>3. ASSUME NEW k \in Slots, arr[k] = q PROVE Queued(q)'
        <4>1. A[k] = q /\ k # hd
          BY <2>1, <2>2, <3>1, <3>3
        <4>2. arr'[k] = q
          BY <2>6, <4>1
        <4> QED BY <4>2 DEF Queued
      <3> QED BY <3>2, <3>3 DEF Queued
    <2>10. \A q \in Prid : Waiting(q)'
      <3> TAKE q \in Prid
      <3>1. CASE q = p
        BY <1>3, <2>8, <3>1 DEF Waiting
      <3>2. CASE q # p
        BY <1>1, <1>2, <2>9, <3>2 DEF BusInv, Waiting, UsesBus
      <3> QED BY <3>1, <3>2
    <2>11. HeadIsLater' /\ Unshared'
      BY <1>6, <2>1, Zenon DEF HeadIsLater, Unshared, Shared
    <2>12. SomeoneServed'
      BY <1>1, <1>4, <2>8 DEF SomeoneServed
    <2>13. Slack'
      <3> DEFINE After(q, k) == age'[q] + Pos(g, k) + (IF q < i' THEN 0 ELSE 1) + 1
      <3>0. SUFFICES ASSUME NEW k \in Slots, arr'[k] # None
                     PROVE  After(arr'[k], k) <= NSHR
        BY <2>1 DEF Slack, Ahead, Pos
      <3>1. k # hd /\ arr'[k] = arr[k] /\ arr[k] # p /\ arr[k] # None
        BY <2>2, <2>6, <2>7, <3>0
      <3>2. arr[k] \in Prid /\ Ahead(arr[k], k) <= NSHR
        BY <3>1 DEF TypeOK, BusInv, Slack
      <3>3. age'[arr[k]] = age[arr[k]] /\ age[arr[k]] \in Nat
        BY <1>2, <3>1, <3>2 DEF TypeOK
      <3>4. arr[k] < i' <=> arr[k] < i
        BY <1>1, <3>1, <3>2, NAssumption DEF Prid
      <3>5. Pos(g, k) = Pos(hd, k) - 1 /\ Pos(hd, k) \in Int
        BY <2>3, <2>4, <3>1, PosFacts
      <3>6. Ahead(arr[k], k) =
              age[arr[k]] + Pos(hd, k) + (IF arr[k] < i THEN 0 ELSE 1)
        BY <2>1, <3>3, <3>5 DEF Ahead
      <3> HIDE DEF g
      <3> QED BY <3>1, <3>2, <3>3, <3>4, <3>5, <3>6
    <2> QED BY <2>5, <2>10, <2>11, <2>12, <2>13 DEF BusInv
  <1> QED BY <1>5, <1>6

\* The initial ring is empty.
LEMMA BusInit == Init => BusInv
  <1> SUFFICES ASSUME Init PROVE BusInv
    OBVIOUS
  <1>1. /\ \A k \in Slots : arr[k] = None
        /\ hd = 0 /\ tl = 0 /\ ~used
        /\ \A q \in Prid : age[q] = 0
    BY DEF Init, MemInit
  <1>2. hd \in Slots
    BY <1>1, NAssumption DEF Slots
  <1>3. RingLen(arr, hd, tl) = 0
    BY <1>1, <1>2 DEF RingLen
  <1>4. Ring(arr, hd, tl)
    <2>1. \A k \in Slots : ~(Pos(hd, k) < 0)
      BY <1>2, PosFacts, NAssumption
    <2> QED BY <1>1, <1>3, <2>1 DEF Ring
  <1>5. \A q \in Prid : ~Queued(q)
    BY <1>1, NAssumption DEF Queued, Prid, None
  <1>6. \A q \in Prid : Waiting(q)
    BY <1>1, <1>5 DEF Waiting
  <1> QED BY <1>1, <1>2, <1>4, <1>6
          DEF BusInv, HeadIsLater, SomeoneServed, Slack, Unshared

\* Every step keeps the bus invariant.
LEMMA BusNext == TypeOK /\ BusInv /\ [Next]_vars => BusInv'
  <1> SUFFICES ASSUME TypeOK, BusInv, [Next]_vars PROVE BusInv'
    OBVIOUS
  <1>1. CASE UNCHANGED vars
    BY <1>1 DEF vars, memVars, cpuVars, BusInv, Ring, RingLen, Pos, Queued,
                Waiting, UsesBus, HeadIsLater, SomeoneServed, Slack, Ahead,
                Unshared, Shared
  <1>2. CASE BusClr
    BY <1>2, BusClrStep
  <1>3. CASE Returned
    BY <1>1, <1>3 DEF Returned
  <1>4. ASSUME NEW p \in Prid, Idle(p) PROVE BusInv'
    <2>1. ~Queued(p)
      BY <1>4 DEF Idle, BusInv, Waiting
    <2> QED BY <1>4, <2>1, NoRequest DEF Idle, Calls, memVars, busVars
  <1>5. ASSUME NEW p \in Prid, NEW ins \in Instrs, Execute(p, ins) PROVE BusInv'
    <2>1. CASE Deferred(p, ins)
      BY <2>1, DeferredStep
    <2>2. CASE Access(p, ins)
      BY <2>2, AccessStep
    <2>3. ASSUME Runs(p, ins), ~UsesBus(ins) PROVE ~Queued(p)
      <3>1. Queued(p) => UsesBus(ir[p])
        BY DEF BusInv, Waiting
      <3>2. ~UsesBus(Fresh)
        BY DEF UsesBus, Fresh
      <3> QED BY <2>3, <3>1, <3>2 DEF Runs
    <2>4. CASE Alu(p, ins) \/ Wait(p, ins) \/ Comm(p, ins) \/ Bad(p, ins)
      <3>1. Runs(p, ins) /\ ~UsesBus(ins)
        BY <2>4 DEF Alu, Wait, Comm, Bad, UsesBus
      <3>2. ~Queued(p)
        BY <2>3, <3>1
      <3>3. /\ UNCHANGED <<busVars, age>>
            /\ \A q \in Prid : q # p => /\ running'[q] = running[q]
                                        /\ comm'[q] = comm[q]
                                        /\ ir'[q] = ir[q]
        BY <2>4 DEF Alu, Wait, Comm, Bad, Advance, Retry, memVars, busVars, TypeOK
      <3> QED BY <3>1, <3>2, <3>3, NoRequest DEF Runs, Calls
    <2>5. CASE Terminal(p, ins)
      <3>1. Runs(p, ins) /\ ~Queued(p)
        BY <2>3, <2>5 DEF Terminal
      <3>2. /\ UNCHANGED <<busVars, age>>
            /\ \A q \in Prid : q # p => /\ running'[q] = running[q]
                                        /\ comm'[q] = comm[q]
                                        /\ ir'[q] = ir[q]
        BY <2>5 DEF Terminal, Advance, memVars, busVars, TypeOK
      <3> QED BY <3>1, <3>2, NoRequest DEF Runs, Calls
    <2> QED BY <1>5, <2>1, <2>2, <2>4, <2>5 DEF Execute
  <1> QED BY <1>1, <1>2, <1>3, <1>4, <1>5 DEF Next

\* The invariant of the arbitration.
LEMMA BusInvariant == Spec => [](TypeOK /\ BusInv)
  <1>1. Init => TypeOK /\ RunCount /\ BusInv
    BY InitType, BusInit
  <1>2. TypeOK /\ RunCount /\ BusInv /\ [Next]_vars
            => (TypeOK /\ RunCount /\ BusInv)'
    BY NextType, BusNext
  <1> QED BY <1>1, <1>2, PTL DEF Spec

\* The ring of Mem_busacc is sound for any number of processors: it never holds
\* a processor twice, never overflows and never has a hole, and it holds exactly
\* the processors whose access is deferred.
THEOREM QueueSound == Spec => []QueueOK
  <1>1. BusInv => QueueOK
    BY DEF BusInv, QueueOK
  <1> QED BY <1>1, BusInvariant, PTL

\* README: "a memory access can cost between 1 up to N cycles", proved for any N
\* and any program: no access is deferred for N cycles.
THEOREM AccessBounded == Spec => []AccessCost
  BY BusInvCost, BusInvariant, PTL

\* No cycle of sim that leaves a processor waiting wastes the bus.
THEOREM BusNeverIdle == Spec => []NoIdleCycle
  <1>1. TypeOK /\ BusInv => NoIdleCycle
    <2> SUFFICES ASSUME TypeOK, BusInv, i = NSHR, ~used, NEW p \in Prid, Queued(p)
                 PROVE  FALSE
      BY DEF NoIdleCycle
    <2>1. PICK k \in Slots : arr[k] = p /\ arr[k] # None
      BY NAssumption DEF Queued, Prid, None
    <2> DEFINE n == RingLen(arr, hd, tl)
    <2>2. hd \in Slots /\ \A m \in Slots : arr[m] # None <=> Pos(hd, m) < n
      BY DEF BusInv, Ring, TypeOK
    <2>3. n \in Int
      BY PosFacts, NAssumption DEF TypeOK, RingLen
    <2>4. Pos(hd, hd) = 0 /\ Pos(hd, k) \in 0 .. NSHR - 1
      BY <2>2, PosFacts
    <2> HIDE DEF n
    <2>5. arr[hd] # None
      BY <2>1, <2>2, <2>3, <2>4, NAssumption
    <2> QED BY <2>5, NAssumption DEF BusInv, HeadIsLater, TypeOK, Prid
  <1> QED BY <1>1, BusInvariant, PTL

-----------------------------------------------------------------------------
(* The order of the ring. *)

\* a goes before b: it has waited for more cycles, or as many with a lower id.
Before(a, b) == Waited(b) < Waited(a) \/ (Waited(b) = Waited(a) /\ b > a)

\* The ring is in the order of arrival.
Sorted == \A k, m \in Slots :
    arr[k] # None /\ arr[m] # None /\ Pos(hd, k) < Pos(hd, m)
        => Before(arr[k], arr[m])

\* A call of Datapath_execute changes nothing for the other processors.
LEMMA WaitedOthers ==
    ASSUME TypeOK, NEW p \in Prid, i = p, i' = i + 1,
           \A q \in Prid : q # p => age'[q] = age[q]
    PROVE  \A q \in Prid : q # p => Waited(q)' = Waited(q)
  BY NAssumption DEF Waited, Prid, TypeOK

\* A deferred processor has waited since an earlier cycle, or was called in
\* this one.
LEMMA WaitedRange ==
    ASSUME TypeOK, BusInv, NEW q \in Prid, Queued(q)
    PROVE  Waited(q) \in Nat /\ (q >= i => Waited(q) > 0)
  BY NAssumption DEF BusInv, Waiting, Waited, Prid, TypeOK

\* A call of p that puts nobody else into the ring keeps its order.
LEMMA SortedOthers ==
    ASSUME TypeOK, Sorted, NEW p \in Prid, i = p, i' = i + 1,
           \A q \in Prid : q # p => age'[q] = age[q],
           NEW k \in Slots, NEW m \in Slots, Pos(hd, k) < Pos(hd, m),
           arr'[k] = arr[k], arr'[m] = arr[m], arr[k] # None, arr[m] # None,
           arr[k] # p, arr[m] # p
    PROVE  Before(arr[k], arr[m])'
  <1>1. arr[k] \in Prid /\ arr[m] \in Prid /\ Before(arr[k], arr[m])
    BY DEF Sorted, TypeOK
  <1>2. Waited(arr[k])' = Waited(arr[k]) /\ Waited(arr[m])' = Waited(arr[m])
    <2>1. \A q \in Prid : q # p => Waited(q)' = Waited(q)
      BY WaitedOthers
    <2> QED BY <1>1, <2>1 DEF Waited
  <1> QED BY <1>1, <1>2 DEF Before

\* A deferred access: a newcomer goes to the end of the ring.
LEMMA SortedDeferred ==
    ASSUME TypeOK, BusInv, Sorted, NEW p \in Prid, NEW ins \in Instrs,
           Deferred(p, ins)
    PROVE  Sorted'
  <1> DEFINE A == ArrWith(p)
  <1>1. /\ Shared /\ ~Granted(p) /\ i = p /\ i' = i + 1
        /\ arr' = A /\ tl' = TlWith(p) /\ hd' = hd /\ used' = used
    BY DEF Deferred, Granted, Mem_busacc, Runs, Calls
  <1>2. age' = [age EXCEPT ![p] = age[p] + 1]
    BY BusInvCost DEF AccessCost, Deferred
  <1>3. \A q \in Prid : q # p => age'[q] = age[q]
    BY <1>2 DEF TypeOK
  <1>4. age'[p] = age[p] + 1 /\ p \in Nat /\ p # None
    BY <1>2, NAssumption DEF TypeOK, Prid, None
  <1>5. arr \in [Slots -> Prid \cup {None}] /\ hd \in Slots /\ tl \in Slots
    BY DEF TypeOK
  <1> SUFFICES ASSUME NEW k \in Slots, NEW m \in Slots, A[k] # None, A[m] # None,
                      Pos(hd, k) < Pos(hd, m)
               PROVE  Before(arr[k], arr[m])'
    BY <1>1 DEF Sorted, Pos
  <1>6. k # m
    BY <1>5, PosFacts
  <1>7. CASE Queued(p)
    <2>1. A = arr
      BY <1>7 DEF ArrWith
    <2>2. Waited(p)' = Waited(p)
      BY <1>1, <1>4 DEF Waited, TypeOK
    <2>3. \A q \in Prid : Waited(q)' = Waited(q)
      BY <1>1, <1>3, <2>2, WaitedOthers
    <2>4. arr[k] \in Prid /\ arr[m] \in Prid /\ Before(arr[k], arr[m])
      BY <1>5, <2>1 DEF Sorted
    <2> QED BY <1>1, <2>1, <2>3, <2>4 DEF Before
  <1>8. CASE ~Queued(p)
    <2>1. A = [arr EXCEPT ![tl] = p] /\ \A j \in Slots : arr[j] # p
      BY <1>8 DEF ArrWith, Queued
    <2>2. arr[tl] = None /\ Pos(hd, tl) = RingLen(arr, hd, tl)
      BY <1>5, <2>1, RingEnqueue DEF BusInv
    <2>3. k # tl
      <3> SUFFICES ASSUME k = tl PROVE FALSE
        OBVIOUS
      <3>1. arr[m] # None
        BY <1>5, <1>6, <2>1
      <3>2. Pos(hd, m) < Pos(hd, tl)
        BY <2>2, <3>1 DEF BusInv, Ring
      <3> QED BY <3>2, <1>5, PosFacts
    <2>4. A[k] = arr[k] /\ arr[k] \in Prid /\ arr[k] # p
      BY <1>5, <2>1, <2>3
    <2>5. CASE m # tl
      <3>1. A[m] = arr[m] /\ arr[m] # p
        BY <1>5, <2>1, <2>5
      <3> QED BY <1>1, <1>3, <2>4, <3>1, SortedOthers
    <2>6. CASE m = tl
      <3>1. A[m] = p
        BY <1>5, <2>1, <2>6
      <3>2. Waited(p)' = 0
        <4>1. age[p] = 0
          BY <1>8 DEF BusInv, Waiting, TypeOK
        <4> QED BY <1>1, <1>4, <4>1 DEF Waited
      <3>3. Waited(arr[k]) \in Nat /\ (arr[k] >= i => Waited(arr[k]) > 0)
        BY <2>4, WaitedRange DEF Queued
      <3>4. \A q \in Prid : q # p => Waited(q)' = Waited(q)
        BY <1>1, <1>3, WaitedOthers
      <3>5. arr[k] < p \/ Waited(arr[k]) > 0
        BY <1>1, <2>4, <3>3, NAssumption DEF Prid
      <3> QED BY <1>1, <2>4, <3>1, <3>2, <3>3, <3>4, <3>5 DEF Before
    <2> QED BY <2>5, <2>6
  <1> QED BY <1>7, <1>8

\* A granted access: the head of the ring leaves it.
LEMMA SortedAccess ==
    ASSUME TypeOK, BusInv, Sorted, NEW p \in Prid, NEW ins \in Instrs,
           Access(p, ins)
    PROVE  Sorted'
  <1> DEFINE A == ArrWith(p)
             g == (hd + 1) % NSHR
  <1>1. Granted(p) /\ i = p /\ i' = i + 1 /\ age' = [age EXCEPT ![p] = 0]
    BY DEF Access, Runs, Calls
  <1>2. \A q \in Prid : q # p => age'[q] = age[q]
    BY <1>1 DEF TypeOK
  <1>3. p # None /\ hd \in Slots
    BY NAssumption DEF Prid, None, TypeOK
  <1>4. CASE ~Shared
    <2>1. arr' = arr /\ \A k \in Slots : arr[k] = None
      BY <1>4 DEF Access, Mem_busacc, busVars, BusInv, Unshared
    <2> QED BY <2>1 DEF Sorted
  <1>5. CASE Shared
    <2>1. A[hd] = p /\ arr' = [A EXCEPT ![hd] = None] /\ hd' = g
      BY <1>1, <1>5 DEF Access, Mem_busacc, Granted, Dequeue
    <2>2. /\ A \in [Slots -> Prid \cup {None}]
          /\ Ring(A, hd, TlWith(p)) /\ TlWith(p) \in Slots
          /\ \A k \in Slots : A[k] # p => A[k] = arr[k]
      BY Enqueued
    <2>3. \A k \in Slots : k # hd => Pos(g, k) = Pos(hd, k) - 1
      <3>1. A[hd] # None
        BY <1>3, <2>1
      <3> HIDE DEF A
      <3> QED BY <1>3, <2>2, <3>1, RingDequeue
    <2> SUFFICES ASSUME NEW k \in Slots, NEW m \in Slots, arr'[k] # None,
                        arr'[m] # None, Pos(g, k) < Pos(g, m)
                 PROVE  Before(arr[k], arr[m])'
      BY <2>1 DEF Sorted, Pos
    <2>4. \A j \in {k, m} : /\ j # hd /\ arr'[j] = A[j] /\ A[j] # None
                            /\ A[j] # p /\ A[j] = arr[j]
      <3> TAKE j \in {k, m}
      <3>1. j # hd /\ arr'[j] = A[j] /\ A[j] # None
        BY <1>3, <2>1, <2>2
      <3>2. A[j] # p
        BY <1>3, <2>1, <2>2, <3>1 DEF Ring
      <3> QED BY <2>2, <3>1, <3>2
    <2>5. Pos(hd, k) < Pos(hd, m)
      <3>1. Pos(hd, k) \in Int /\ Pos(hd, m) \in Int
        BY <1>3, PosFacts
      <3> HIDE DEF g
      <3> QED BY <2>3, <2>4, <3>1
    <2> HIDE DEF A, g
    <2> QED BY <1>1, <1>2, <2>4, <2>5, SortedOthers
  <1> QED BY <1>4, <1>5

\* Every step keeps the order of arrival.
LEMMA SortedNext == TypeOK /\ BusInv /\ Sorted /\ [Next]_vars => Sorted'
  <1> SUFFICES ASSUME TypeOK, BusInv, Sorted, [Next]_vars PROVE Sorted'
    OBVIOUS
  <1>1. CASE UNCHANGED vars
    BY <1>1 DEF vars, memVars, cpuVars, Sorted, Before, Waited, Pos
  <1>2. CASE BusClr
    <2>1. arr' = arr /\ hd' = hd /\ age' = age /\ i = NSHR /\ i' = 0
      BY <1>2 DEF BusClr, Mem_busclr
    <2> SUFFICES ASSUME NEW k \in Slots, NEW m \in Slots, arr[k] # None,
                        arr[m] # None, Pos(hd, k) < Pos(hd, m)
                 PROVE  Before(arr[k], arr[m])'
      BY <2>1 DEF Sorted, Pos
    <2>2. arr[k] \in Prid /\ arr[m] \in Prid /\ Before(arr[k], arr[m])
      BY DEF Sorted, TypeOK
    <2>3. \A q \in Prid : Waited(q)' = Waited(q) + 1 /\ Waited(q) \in Int
      BY <2>1, NAssumption DEF Waited, Prid, TypeOK
    <2> QED BY <2>1, <2>2, <2>3, NAssumption DEF Before, Prid
  <1>3. CASE Returned
    BY <1>1, <1>3 DEF Returned
  <1>4. ASSUME NEW p \in Prid, ~Queued(p), i = p, i' = i + 1,
               arr' = arr, hd' = hd, age' = age
        PROVE  Sorted'
    <2> SUFFICES ASSUME NEW k \in Slots, NEW m \in Slots, arr[k] # None,
                        arr[m] # None, Pos(hd, k) < Pos(hd, m)
                 PROVE  Before(arr[k], arr[m])'
      BY <1>4 DEF Sorted, Pos
    <2>1. arr[k] # p /\ arr[m] # p
      BY <1>4 DEF Queued
    <2> QED BY <1>4, <2>1, SortedOthers
  <1>5. ASSUME NEW p \in Prid, Idle(p) PROVE Sorted'
    <2>1. ~Queued(p)
      BY <1>5 DEF Idle, BusInv, Waiting
    <2> QED BY <1>4, <1>5, <2>1 DEF Idle, Calls, memVars
  <1>6. ASSUME NEW p \in Prid, NEW ins \in Instrs, Execute(p, ins) PROVE Sorted'
    <2>1. CASE Deferred(p, ins)
      BY <2>1, SortedDeferred
    <2>2. CASE Access(p, ins)
      BY <2>2, SortedAccess
    <2>3. CASE \/ Alu(p, ins) \/ Wait(p, ins) \/ Comm(p, ins) \/ Bad(p, ins)
               \/ Terminal(p, ins)
      <3>1. Runs(p, ins) /\ ~UsesBus(ins)
        BY <2>3 DEF Alu, Wait, Comm, Bad, Terminal, UsesBus
      <3>2. ~UsesBus(Fresh) /\ (Queued(p) => UsesBus(ir[p]))
        BY DEF UsesBus, Fresh, BusInv, Waiting
      <3>3. ~Queued(p)
        BY <3>1, <3>2 DEF Runs
      <3>4. UNCHANGED <<memVars, age>>
        BY <2>3 DEF Alu, Wait, Comm, Bad, Terminal
      <3> QED BY <1>4, <3>1, <3>3, <3>4 DEF Runs, Calls, memVars
    <2> QED BY <1>6, <2>1, <2>2, <2>3 DEF Execute
  <1> QED BY <1>1, <1>2, <1>3, <1>5, <1>6 DEF Next

\* The processor the bus is granted to comes before all that stay in the ring.
LEMMA GrantInOrder ==
    ASSUME TypeOK, BusInv, Sorted, NEW p \in Prid, NEW q \in Prid,
           Shared, Granted(p), q # p, Queued(q)
    PROVE  Before(p, q)
  <1>1. /\ arr \in [Slots -> Prid \cup {None}] /\ hd \in Slots /\ tl \in Slots
        /\ ArrWith(p)[hd] = p /\ p # None /\ q # None
    BY NAssumption DEF TypeOK, Granted, Prid, None
  <1>2. PICK k \in Slots : arr[k] = q
    BY DEF Queued
  <1>3. CASE Queued(p)
    <2>1. arr[hd] = p /\ k # hd
      BY <1>1, <1>2, <1>3 DEF ArrWith
    <2>2. Pos(hd, hd) < Pos(hd, k)
      BY <1>1, <2>1, PosFacts
    <2> QED BY <1>1, <1>2, <2>1, <2>2 DEF Sorted
  <1>4. CASE ~Queued(p)
    <2>1. \A j \in Slots : arr[j] # p
      BY <1>4 DEF Queued
    <2>2. arr[tl] = None /\ Pos(hd, tl) = RingLen(arr, hd, tl)
      BY <1>1, <2>1, RingEnqueue DEF BusInv
    <2>3. tl = hd
      BY <1>1, <1>4, <2>1 DEF ArrWith
    <2>4. ~(Pos(hd, k) < 0)
      BY <1>1, PosFacts
    <2> QED BY <1>1, <1>2, <2>2, <2>3, <2>4, PosFacts DEF BusInv, Ring
  <1> QED BY <1>3, <1>4

\* Mem_busacc serves the processors in the order in which they asked, for any
\* number of them.
THEOREM FirstComeFirstServed == Spec => FirstCome
  <1> DEFINE Inv == TypeOK /\ RunCount /\ BusInv /\ Sorted
             Served == \A p, q \in Prid :
                /\ Shared /\ i = p /\ used' /\ ~used
                /\ q # p /\ Queued(q)
                => Waited(q) < Waited(p) \/ (Waited(q) = Waited(p) /\ q > p)
  <1>1. Init => Inv
    <2>1. Init => Sorted
      BY DEF Init, MemInit, Sorted
    <2> QED BY <2>1, InitType, BusInit
  <1>2. Inv /\ [Next]_vars => Inv'
    BY NextType, BusNext, SortedNext
  <1>3. Inv /\ [Next]_vars => [Served]_vars
    <2> SUFFICES ASSUME Inv, Next, NEW p \in Prid, NEW q \in Prid,
                        Shared, i = p, used', ~used, q # p, Queued(q)
                 PROVE  Before(p, q)
      BY DEF Before
    <2>1. Granted(p)
      <3>1. CASE BusClr
        BY <3>1, Zenon DEF BusClr, Mem_busclr
      <3>2. CASE Returned
        BY <3>2 DEF Returned, vars, memVars
      <3>3. ASSUME NEW x \in Prid, Idle(x) PROVE Granted(p)
        BY <3>3 DEF Idle, memVars
      <3>4. ASSUME NEW x \in Prid, NEW ins \in Instrs, Execute(x, ins)
            PROVE  Granted(p)
        <4>1. CASE Access(x, ins)
          BY <4>1 DEF Access, Runs, Calls
        <4>2. CASE Deferred(x, ins)
          BY <4>2 DEF Deferred, Mem_busacc
        <4>3. CASE ~Access(x, ins) /\ ~Deferred(x, ins)
          BY <3>4, <4>3 DEF Execute, Alu, Wait, Comm, Bad, Terminal, memVars
        <4> QED BY <4>1, <4>2, <4>3
      <3> QED BY <3>1, <3>2, <3>3, <3>4 DEF Next
    <2> QED BY <2>1, GrantInOrder
  <1>4. Spec => [][Served]_vars
    BY <1>1, <1>2, <1>3, PTL DEF Spec
  <1> QED BY <1>4 DEF FirstCome

-----------------------------------------------------------------------------
(* LL and SC. *)

\* After an LL the reservation is the address of the LL or gone, and it is gone
\* exactly if a word was stored there since.
Reserved == Shared => \A q \in Prid : ll[q] # None =>
                /\ resaddr[q] \in {ll[q], None}
                /\ clean[q] <=> resaddr[q] = ll[q]

\* A granted access keeps the reservations true to the history.
LEMMA ReservedAccess ==
    ASSUME TypeOK, Reserved, NEW p \in Prid, NEW ins \in Instrs, Access(p, ins)
    PROVE  Reserved'
  <1> SUFFICES ASSUME Shared, NEW q \in Prid, ll'[q] # None
               PROVE  /\ resaddr'[q] \in {ll'[q], None}
                      /\ clean'[q] <=> resaddr'[q] = ll'[q]
    BY DEF Reserved, Shared
  <1> DEFINE a == ins.addr
  <1>1. AccessMem(p, ins) /\ NoteAccess(p, ins)
    BY DEF Access
  <1>2. a \in Nat /\ a # None
    BY ShrMemAssumption DEF Instr, None
  <1>3. /\ ll \in [Prid -> Addrs \cup {None}] /\ clean \in [Prid -> BOOLEAN]
        /\ resaddr \in [Prid -> Addrs \cup {None}]
    BY DEF TypeOK
  <1>4. CASE ins.op = "LL"
    <2>1. /\ resaddr' = [resaddr EXCEPT ![p] = a]
          /\ ll' = [ll EXCEPT ![p] = a]
          /\ clean' = [clean EXCEPT ![p] = TRUE]
      BY <1>1, <1>4 DEF AccessMem, NoteAccess, Mem_ll
    <2> HIDE DEF a
    <2>2. CASE q = p
      <3>1. resaddr'[q] = a /\ ll'[q] = a /\ clean'[q]
        BY <1>3, <2>1, <2>2, Zenon
      <3> QED BY <3>1
    <2>3. CASE q # p
      <3>1. resaddr'[q] = resaddr[q] /\ ll'[q] = ll[q] /\ clean'[q] = clean[q]
        BY <1>3, <2>1, <2>3, Zenon
      <3> QED BY <3>1 DEF Reserved
    <2> QED BY <2>2, <2>3
  <1>5. CASE StoresWord(p, ins)
    <2>1. /\ resaddr' = Unreserved(a)
          /\ clean' = [r \in Prid |-> clean[r] /\ ~(ll[r] = a)]
          /\ ll' = ll
      BY <1>1, <1>5 DEF AccessMem, NoteAccess, StoresWord, Mem_sw, Mem_sc
    <2>2. clean'[q] <=> clean[q] /\ ll[q] # a
      BY <2>1, Zenon
    <2>3. resaddr'[q] = IF resaddr[q] = a THEN None ELSE resaddr[q]
      BY <2>1 DEF Unreserved
    <2> HIDE DEF a
    <2> QED BY <1>2, <2>1, <2>2, <2>3 DEF Reserved
  <1>6. CASE ins.op # "LL" /\ ~StoresWord(p, ins)
    <2>1. resaddr' = resaddr /\ ll' = ll
      BY <1>1, <1>6 DEF AccessMem, NoteAccess, StoresWord, Mem_sb, Mem_load, Mem_sc
    <2>2. clean'[q] <=> clean[q]
      BY <1>1, <1>6, Zenon DEF NoteAccess
    <2> QED BY <2>1, <2>2 DEF Reserved
  <1> QED BY <1>4, <1>5, <1>6

\* Every step keeps them true.
LEMMA ReservedNext == TypeOK /\ Reserved /\ [Next]_vars => Reserved'
  <1> SUFFICES ASSUME TypeOK, Reserved, [Next]_vars PROVE Reserved'
    OBVIOUS
  <1>1. CASE UNCHANGED <<resaddr, ll, clean>>
    BY <1>1 DEF Reserved, Shared
  <1>2. CASE UNCHANGED vars
    BY <1>1, <1>2 DEF vars, memVars
  <1>3. CASE BusClr
    BY <1>1, <1>3 DEF BusClr, Mem_busclr
  <1>4. CASE Returned
    BY <1>2, <1>4 DEF Returned
  <1>5. ASSUME NEW p \in Prid, Idle(p) PROVE Reserved'
    BY <1>1, <1>5 DEF Idle, memVars
  <1>6. ASSUME NEW p \in Prid, NEW ins \in Instrs, Execute(p, ins) PROVE Reserved'
    <2>1. CASE Access(p, ins)
      BY <2>1, ReservedAccess
    <2>2. CASE ~Access(p, ins)
      BY <1>1, <1>6, <2>2 DEF Execute, Alu, Wait, Comm, Bad, Terminal, Deferred,
                              memVars
    <2> QED BY <2>1, <2>2
  <1> QED BY <1>2, <1>3, <1>4, <1>5, <1>6 DEF Next

\* LL and SC of mem.c are atomic, for any number of processors and any program:
\* an SC stores its word and returns 1 exactly if no word was stored at its
\* address since the LL there.
THEOREM ScIsAtomic == Spec => ScAtomic
  <1> DEFINE Inv == TypeOK /\ RunCount /\ Reserved
             Atomic == \A p \in Prid : \A ins \in Instrs :
                Access(p, ins) /\ Shared /\ ins.op = "SC" /\ ll[p] # None =>
                    IF ll[p] = ins.addr /\ clean[p]
                    THEN WordErr(ins.addr) = "ok" =>
                            /\ rt'[p] = One
                            /\ data' = Overwritten(ins.addr, ins.val)
                    ELSE rt'[p] = Zero /\ data' = data
  <1>1. Init => Inv
    <2>1. Init => Reserved
      BY DEF Init, Reserved
    <2> QED BY <2>1, InitType
  <1>2. Inv /\ [Next]_vars => Inv'
    BY NextType, ReservedNext
  <1>3. Inv => Atomic
    <2> SUFFICES ASSUME Inv, NEW p \in Prid, NEW ins \in Instrs,
                        Access(p, ins), Shared, ins.op = "SC", ll[p] # None
                 PROVE  IF ll[p] = ins.addr /\ clean[p]
                        THEN WordErr(ins.addr) = "ok" =>
                                /\ rt'[p] = One
                                /\ data' = Overwritten(ins.addr, ins.val)
                        ELSE rt'[p] = Zero /\ data' = data
      OBVIOUS
    <2>1. resaddr[p] \in {ll[p], None} /\ (clean[p] <=> resaddr[p] = ll[p])
      BY DEF Reserved
    <2>2. Mem_sc(p, ins.addr, ins.val)
      BY DEF Access, AccessMem
    <2>3. rt \in [Prid -> Word] /\ ins.addr \in Nat /\ ins.addr # None
      BY ShrMemAssumption DEF TypeOK, Instr, None
    <2>4. CASE ll[p] = ins.addr /\ clean[p]
      <3> SUFFICES ASSUME WordErr(ins.addr) = "ok"
                   PROVE  rt'[p] = One /\ data' = Overwritten(ins.addr, ins.val)
        BY <2>4
      <3>1. ScErr(p, ins.addr) = "ok"
        BY <2>1, <2>4 DEF ScErr
      <3>2. data' = Overwritten(ins.addr, ins.val)
        BY <2>2, <3>1 DEF Mem_sc, Mem_sw
      <3>3. rt' = [rt EXCEPT ![p] = Result(p, ins)] /\ Result(p, ins) = One
        BY <3>1 DEF Access, Faults, AccessErr, Result
      <3> QED BY <2>3, <3>2, <3>3
    <2>5. CASE ~(ll[p] = ins.addr /\ clean[p])
      <3>1. resaddr[p] # ins.addr
        BY <2>1, <2>3, <2>5
      <3>2. ScErr(p, ins.addr) = "EAGAIN"
        BY <3>1 DEF ScErr
      <3>3. data' = data
        BY <2>2, <3>2 DEF Mem_sc
      <3>4. rt' = [rt EXCEPT ![p] = Result(p, ins)] /\ Result(p, ins) = Zero
        BY <3>2 DEF Access, Faults, AccessErr, Result
      <3> QED BY <2>3, <2>5, <3>3, <3>4
    <2> QED BY <2>4, <2>5
  <1>4. Inv /\ [Next]_vars => [Atomic]_vars
    BY <1>3
  <1>5. Spec => [][Atomic]_vars
    BY <1>1, <1>2, <1>4, PTL DEF Spec
  <1> QED BY <1>5 DEF ScAtomic

=============================================================================
