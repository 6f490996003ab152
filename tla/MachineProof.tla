---------------------------- MODULE MachineProof ----------------------------
(***************************************************************************)
(* libsem implements semaphores: the machine of DiningMachine, with its    *)
(* bus, its LL and SC and any number of processors, implements Dining.     *)
(*                                                                         *)
(* A Sem_P or Sem_V takes effect at the SC that stores.  That it then      *)
(* counts down from what the word still is, rests on Linked: while the     *)
(* reservation of the LL stands, the register has the word that is in      *)
(* memory.  That the count fits into the word rests on the invariant of    *)
(* DiningProof.                                                            *)
(***************************************************************************)
EXTENDS DiningMachine, ShrMemProof

Labels == {"main", "set", "enter", "ll", "addiu", "bltz", "nop", "sc", "beqz", "nop2",
           "leave", "jr", "wait"}

\* Label l is in the routine that operation m of main calls.
PlaceOK(p, l, m) ==
    /\ l \in Labels /\ m \in 0 .. D!End
    /\ l = "wait" => m = D!End
    /\ l \notin {"main", "wait"} => m < D!End
    /\ l = "set" => D!Does(p, m).op = "SET"
    /\ l \in {"enter", "bltz", "nop", "leave"} => D!Does(p, m).op = "P"
    /\ l \in {"ll", "addiu", "sc", "beqz", "nop2", "jr"} => D!Does(p, m).op \in {"P", "V"}

Where == /\ pc \in [Prid -> Labels] /\ n \in [Prid -> Nat]
         /\ \A p \in Prid : PlaceOK(p, pc[p], n[p])

\* Between LL and SC: as long as the reservation stands, the register holds the
\* word; a Sem_P that goes on to its SC has seen a positive count.
LinkedAt(p) ==
    /\ pc[p] \in {"addiu", "bltz", "nop", "sc"} /\ resaddr[p] = Addr(Call(p).sem)
         => rt[p] = WordAt(Addr(Call(p).sem))
    /\ pc[p] \in {"nop", "sc"} /\ Call(p).op = "P" => Signed(rt[p]) >= 1
    /\ pc[p] = "beqz" => rt[p] \in {One, Zero}

Linked == \A p \in Prid : LinkedAt(p)

\* The proofs about Dining, for the semaphores and positions of the machine.
Count(p) == n[p] + IF Stored(p) THEN 1 ELSE 0
Counts == [p \in Prid |-> n[p] + IF Stored(p) THEN 1 ELSE 0]
DP == INSTANCE DiningProof WITH PHILOS <- NSHR, pos <- Counts

-----------------------------------------------------------------------------
(* The two instances of Dining. *)

\* D, which the properties use, and DP, which the proofs come from, are the same.
LEMMA Same == /\ D!Init <=> DP!Init
              /\ D!Next <=> DP!Next
              /\ D!vars = DP!vars
              /\ D!Exclusive <=> DP!Exclusive
  <1>1. (D!Init <=> DP!Init) /\ D!vars = DP!vars
    BY DEF D!Init, DP!Init, D!vars, DP!vars, D!Footman, DP!Footman, D!Sems, DP!Sems,
           D!Philo, DP!Philo, Counts
  <1>2. D!Next <=> DP!Next
    BY DEF D!Next, DP!Next, D!SetFork, DP!SetFork, D!Sem_P, DP!Sem_P, D!Sem_V, DP!Sem_V,
           D!About, DP!About, D!Passes, DP!Passes, D!Does, DP!Does, D!Turn, DP!Turn,
           D!Op, DP!Op, D!fid, DP!fid, D!Fork, DP!Fork, D!Footman, DP!Footman,
           D!Philo, DP!Philo, D!End, DP!End, Counts
  <1>3. D!Exclusive <=> DP!Exclusive
    <2>1. ASSUME NEW S PROVE D!Cardinality(S) = DP!Cardinality(S)
      BY DEF D!Cardinality, DP!Cardinality
    <2>2. /\ D!Philo = DP!Philo
          /\ \A id : D!Progressed(id) = DP!Progressed(id)
          /\ \A id : D!fid(id) = DP!fid(id)
      BY DEF D!Progressed, DP!Progressed, D!Philo, DP!Philo, D!fid, DP!fid, Counts
    <2>3. {id \in D!Philo : D!Seated(id)} = {id \in DP!Philo : DP!Seated(id)}
      BY <2>2 DEF D!Seated, DP!Seated
    <2>4. \A f : {id \in D!Philo : D!Holds(id, f)} = {id \in DP!Philo : DP!Holds(id, f)}
      BY <2>2 DEF D!Holds, DP!Holds
    <2> QED BY <2>1, <2>2, <2>3, <2>4 DEF D!Exclusive, DP!Exclusive
  <1> QED BY <1>1, <1>2, <1>3

\* There are at least two philosophers.
LEMMA Table == DP!TableOK /\ D!Philo = Prid /\ D!Sems = 0 .. NSHR /\ D!End \in Nat
  BY NAssumption, MachineAssumption DEF DP!TableOK, D!Philo, Prid, D!Sems, D!End

\* What main can be about to do.
LEMMA DoesType ==
    ASSUME NEW p \in Prid, NEW m \in Nat
    PROVE  /\ D!Does(p, m).op \in {"SET", "P", "V"} /\ D!Does(p, m).sem \in 0 .. NSHR
           /\ D!Does(p, m).op = "SET" <=> m = 0
  <1>1. D!Does(p, m) = DP!Does(p, m) /\ DP!Philo = Prid
    BY DEF D!Does, DP!Does, D!Turn, DP!Turn, D!Op, DP!Op, D!fid, DP!fid, D!Fork, DP!Fork,
           D!Footman, DP!Footman, Prid, DP!Philo
  <1>2. DP!fid(p) \in 0 .. NSHR - 1 /\ p \in 0 .. NSHR - 1 /\ NSHR \in Nat
    BY <1>1, Table, DP!Neighbour, NAssumption DEF Prid
  <1>3. DP!Fork(p) \in 0 .. NSHR /\ DP!Fork(DP!fid(p)) \in 0 .. NSHR /\ DP!Footman \in 0 .. NSHR
    BY <1>2 DEF DP!Fork, DP!Footman
  <1>4. CASE m = 0
    BY <1>1, <1>3, <1>4 DEF DP!Does, DP!Op
  <1>5. CASE m # 0
    BY <1>1, <1>3, <1>5, DP!DoesWhat DEF DP!Op
  <1> QED BY <1>4, <1>5

-----------------------------------------------------------------------------
(* Words. *)

\* Counts up to the largest int survive the way through memory.
LEMMA ToWordInt ==
    ASSUME NEW v \in Nat, v <= INT_MAX
    PROVE  ToWord(v) \in Word /\ Signed(ToWord(v)) = v
  <1> DEFINE a == v % 256
             b == (v \div 256) % 256
             c == (v \div 65536) % 256
             d == (v \div 16777216) % 256
  <1>1. /\ a \in 0 .. 255 /\ b \in 0 .. 255 /\ c \in 0 .. 255 /\ d \in 0 .. 127
        /\ v = a + 256 * b + 65536 * c + 16777216 * d
    <2> DEFINE x == v \div 256
               y == v \div 65536
               z == v \div 16777216
    <2>1. /\ x \in Nat /\ v = 256 * x + a /\ a \in 0 .. 255
          /\ y \in Nat /\ 65536 * y <= v /\ v < 65536 * y + 65536
          /\ z \in Nat /\ 16777216 * z <= v /\ v < 16777216 * z + 16777216
      BY SMT
    <2>2. b = x % 256 /\ c = y % 256 /\ d = z % 256
      BY SMT
    <2> HIDE DEF a, b, c, d, x, y, z
    <2>3. /\ b \in 0 .. 255 /\ x = 256 * (x \div 256) + b /\ x \div 256 \in Nat
          /\ c \in 0 .. 255 /\ y = 256 * (y \div 256) + c /\ y \div 256 \in Nat
      BY <2>1, <2>2, SMT
    <2>4. x \div 256 = y /\ y \div 256 = z
      BY <2>1, <2>3, SMT
    <2>5. z < 128 /\ z % 256 = z
      BY <2>1, SMT DEF INT_MAX
    <2> QED BY <2>1, <2>2, <2>3, <2>4, <2>5, SMT
  <1>2. v \div 1 = v
    BY SMT
  <1>3. /\ ToWord(v)[0] = a /\ ToWord(v)[1] = b /\ ToWord(v)[2] = c /\ ToWord(v)[3] = d
        /\ ToWord(v) = [k \in 0 .. 3 |-> ToWord(v)[k]]
    BY <1>2, SMT DEF ToWord
  <1> HIDE DEF a, b, c, d
  <1>4. ToWord(v) \in Word
    BY <1>1, <1>3, SMT DEF Word, Byte
  <1>5. Signed(ToWord(v)) = v
    BY <1>1, <1>3, SMT DEF Signed
  <1> QED BY <1>4, <1>5

\* The words of main and of the SC.
LEMMA OneZero == /\ One \in Word /\ Zero \in Word /\ One # Zero
                 /\ Signed(One) = 1 /\ Signed(Zero) = 0
  <1>1. /\ One[0] = 1 /\ One[1] = 0 /\ One[2] = 0 /\ One[3] = 0
        /\ Zero[0] = 0 /\ Zero[1] = 0 /\ Zero[2] = 0 /\ Zero[3] = 0
    BY DEF One, Zero, SignExt
  <1> QED BY <1>1, ConstType, SMT DEF Signed

\* The semaphores are words of the memory.
LEMMA SemWord ==
    ASSUME NEW s \in 0 .. NSHR
    PROVE  /\ Addr(s) \in Nat /\ Addr(s) + 3 < MemSize /\ WordErr(Addr(s)) = "ok"
           /\ Addr(s) # IO_ADDR /\ Addr(s) # None
  <1>1. /\ NSHR \in Nat /\ MemSize \in Nat /\ 4 * (NSHR + 1) <= MemSize
    BY NAssumption, MemAssumption, ProgramAssumption DEF Addr
  <1>0. Addr(s) # IO_ADDR
    BY ProgramAssumption
  <1>2. Addr(s) = 4 * s /\ 4 * s \in Nat /\ 4 * s + 3 < MemSize
    BY <1>1 DEF Addr
  <1>3. (4 * s) % 4 = 0
    OBVIOUS
  <1> QED BY <1>0, <1>1, <1>2, <1>3 DEF WordErr, None

\* A store at one semaphore leaves the others.
LEMMA WordsApart ==
    ASSUME TypeOK, NEW s \in 0 .. NSHR, NEW w \in Word,
           data' = Overwritten(Addr(s), w), NEW t \in 0 .. NSHR
    PROVE  WordAt(Addr(t))' = IF t = s THEN w ELSE WordAt(Addr(t))
  <1> DEFINE a == Addr(s)
             b == Addr(t)
  <1>1. a \in Nat /\ b \in Nat /\ a + 3 < MemSize /\ b + 3 < MemSize /\ MemSize \in Nat
    BY SemWord, MemAssumption
  <1>2. DOMAIN data = 0 .. MemSize - 1
    BY DEF TypeOK
  <1>3. \A x \in 0 .. MemSize - 1 : data'[x] = IF x \in a .. a + 3 THEN w[x - a] ELSE data[x]
    BY <1>2 DEF Overwritten
  <1>4. ASSUME NEW k \in 0 .. 3 PROVE data'[b + k] = IF t = s THEN w[k] ELSE data[b + k]
    <2> DEFINE y == b + k
    <2>1. y \in 0 .. MemSize - 1 /\ (t = s => y \in a .. a + 3 /\ y - a = k)
      BY <1>1
    <2>2. t # s => y \notin a .. a + 3
      BY DEF Addr
    <2> HIDE DEF y
    <2>3. data'[y] = IF t = s THEN w[k] ELSE data[y]
      BY <1>3, <2>1, <2>2
    <2> QED BY <2>3 DEF y
  <1>5. w = [k \in 0 .. 3 |-> w[k]]
    BY DEF Word
  <1>6. WordAt(b)' = [k \in 0 .. 3 |-> data'[b + k]]
    BY DEF WordAt
  <1>7. CASE t = s
    BY <1>4, <1>5, <1>6, <1>7
  <1>8. CASE t # s
    BY <1>4, <1>6, <1>8 DEF WordAt
  <1> QED BY <1>7, <1>8

\* The count of a semaphore after a store.
LEMMA SemStored ==
    ASSUME TypeOK, NEW s \in 0 .. NSHR, NEW w \in Word, data' = Overwritten(Addr(s), w)
    PROVE  sem' = [sem EXCEPT ![s] = Signed(w)]
  <1>1. \A t \in 0 .. NSHR :
          WordAt(Addr(t))' = IF t = s THEN w ELSE WordAt(Addr(t))
    BY WordsApart
  <1>2. sem' = [t \in 0 .. NSHR |-> Signed(WordAt(Addr(t))')]
    BY DEF sem
  <1>3. \A t \in 0 .. NSHR : Signed(WordAt(Addr(t))')
                               = IF t = s THEN Signed(w) ELSE Signed(WordAt(Addr(t)))
    BY <1>1
  <1> QED BY <1>2, <1>3 DEF sem

-----------------------------------------------------------------------------
(* Steps of one processor. *)

\* A step in which no operation takes effect.
LEMMA Quiet ==
    ASSUME data' = data, \A q \in Prid : Count(q)' = Count(q)
    PROVE  UNCHANGED D!vars
  <1>1. sem' = sem
    BY DEF sem, WordAt
  <1> QED BY <1>1 DEF D!vars, Count

\* A step in which the operation p has called takes effect.
LEMMA Effect ==
    ASSUME NEW p \in Prid, n[p] < D!End, Count(p) = n[p], Count(p)' = n[p] + 1,
           \A q \in Prid \ {p} : Count(q)' = Count(q),
           NEW o, o = Call(p), NEW v, sem' = [sem EXCEPT ![o.sem] = v],
           \/ o.op = "SET" /\ v = 1
           \/ o.op = "P" /\ sem[o.sem] > 0 /\ v = sem[o.sem] - 1
           \/ o.op = "V" /\ v = sem[o.sem] + 1
    PROVE  D!Next
  <1> DEFINE c == [q \in Prid |-> n[q] + IF Stored(q) THEN 1 ELSE 0]
  <1>1. c[p] = n[p] /\ c' = [c EXCEPT ![p] = @ + 1]
    BY DEF Count
  <1>2. D!Does(p, c[p]) = o
    BY <1>1 DEF Call
  <1>3. p \in D!Philo
    BY Table
  <1> HIDE DEF c
  <1>4. D!SetFork(p) \/ D!Sem_P(p) \/ D!Sem_V(p)
    <2>1. CASE o.op = "SET" /\ v = 1
      BY <1>1, <1>2, <2>1 DEF D!SetFork, D!About, D!Passes, c
    <2>2. CASE o.op = "P" /\ sem[o.sem] > 0 /\ v = sem[o.sem] - 1
      BY <1>1, <1>2, <2>2 DEF D!Sem_P, D!About, D!Passes, c
    <2>3. CASE o.op = "V" /\ v = sem[o.sem] + 1
      BY <1>1, <1>2, <2>3 DEF D!Sem_V, D!About, D!Passes, c
    <2> QED BY <2>1, <2>2, <2>3
  <1> QED BY <1>3, <1>4 DEF D!Next

\* p goes to label l and operation m.
Goes(p, l, m) == pc' = [pc EXCEPT ![p] = l] /\ n' = [n EXCEPT ![p] = m]

\* A step that moves only p, to a place allowed to it, keeps everyone in place.
LEMMA WhereStep ==
    ASSUME Where, NEW p \in Prid, NEW l, NEW m, Goes(p, l, m), PlaceOK(p, l, m)
    PROVE  Where'
  <1>1. l \in Labels /\ m \in Nat
    BY Table DEF PlaceOK
  <1>2. pc' \in [Prid -> Labels] /\ n' \in [Prid -> Nat]
    BY <1>1 DEF Where, Goes
  <1>3. \A q \in Prid : PlaceOK(q, pc'[q], n'[q])
    BY DEF Where, Goes
  <1> QED BY <1>2, <1>3 DEF Where, PlaceOK

\* What the others have linked stays linked.
LEMMA LinkedStep ==
    ASSUME Where, Linked, NEW p \in Prid, NEW l, NEW m, Goes(p, l, m),
           \A q \in Prid \ {p} : rt'[q] = rt[q],
           \A q \in Prid \ {p}, s \in 0 .. NSHR :
              resaddr'[q] = Addr(s) => /\ resaddr[q] = Addr(s)
                                       /\ WordAt(Addr(s))' = WordAt(Addr(s)),
           LinkedAt(p)'
    PROVE  Linked'
  <1> SUFFICES ASSUME NEW q \in Prid, q # p PROVE LinkedAt(q)'
    BY DEF Linked
  <1>1. pc'[q] = pc[q] /\ n'[q] = n[q] /\ rt'[q] = rt[q]
    BY DEF Goes, Where
  <1>2. PICK o : o = Call(q)
    OBVIOUS
  <1>3. Call(q)' = o /\ o.sem \in 0 .. NSHR
    BY <1>1, <1>2, DoesType DEF Call, Where
  <1>4. resaddr'[q] = Addr(o.sem) => /\ resaddr[q] = Addr(o.sem)
                                     /\ WordAt(Addr(o.sem))' = WordAt(Addr(o.sem))
    BY <1>3
  <1>5. WordAt(Addr(Call(q).sem))' = WordAt(Addr(o.sem))'
    BY <1>3 DEF WordAt
  <1> HIDE DEF Linked
  <1>6. LinkedAt(q)
    BY DEF Linked
  <1> QED BY <1>1, <1>2, <1>3, <1>4, <1>5, <1>6 DEF LinkedAt

\* The positions of the others do not move.
LEMMA CountStep ==
    ASSUME Where, NEW p \in Prid, NEW l, NEW m, Goes(p, l, m),
           \A q \in Prid \ {p} : rt'[q] = rt[q]
    PROVE  /\ \A q \in Prid \ {p} : Count(q)' = Count(q)
           /\ Count(p)' = m + IF \/ l = "beqz" /\ rt'[p] = One
                                 \/ l \in {"nop2", "leave", "jr"} THEN 1 ELSE 0
  <1>1. \A q \in Prid \ {p} : pc'[q] = pc[q] /\ n'[q] = n[q]
    BY DEF Goes, Where
  <1>2. pc'[p] = l /\ n'[p] = m
    BY DEF Goes, Where
  <1> QED BY <1>1, <1>2 DEF Count, Stored


\* What is read as an int is one.
LEMMA SignedType == \A w \in Word : Signed(w) \in Int
  <1> SUFFICES ASSUME NEW w \in Word PROVE Signed(w) \in Int
    OBVIOUS
  <1>1. w[0] \in Int /\ w[1] \in Int /\ w[2] \in Int /\ w[3] \in Int
    BY DEF Word, Byte
  <1> QED BY <1>1, SMT DEF Signed

\* Instructions that write no memory: those of main, loads included, and those
\* of the calls between LL and SC and after.
LEMMA AluStep ==
    ASSUME TypeOK, Where, Linked, NEW p \in Prid,
           pc[p] \notin {"set", "ll", "sc", "wait"},
           UNCHANGED <<data, resaddr>>, InMain(p) \/ InCall(p) \/ Returns(p),
           \A q \in Prid : rt'[q] = rt[q] \/ (q = p /\ pc[p] = "main")
    PROVE  Where' /\ Linked' /\ UNCHANGED D!vars
  <1>1. PICK k : k = n[p]
    OBVIOUS
  <1>2. PICK o : o = D!Does(p, k)
    OBVIOUS
  <1>3. /\ k \in Nat /\ PlaceOK(p, pc[p], k) /\ o = Call(p) /\ LinkedAt(p)
        /\ n = [n EXCEPT ![p] = k] /\ pc = [pc EXCEPT ![p] = pc[p]]
    BY <1>1, <1>2 DEF Where, Linked, Call
  <1>4. o.op \in {"SET", "P", "V"} /\ o.sem \in 0 .. NSHR /\ (o.op = "SET" <=> k = 0)
    BY <1>2, <1>3, DoesType
  <1>5. Signed(rt[p]) \in Int
    BY SignedType DEF TypeOK
  <1> DEFINE Lands(l, m) ==
               /\ Goes(p, l, m) /\ PlaceOK(p, l, m)
               /\ l \in {"bltz", "nop", "sc"} => m = k
               /\ l \in {"bltz", "nop", "sc"} => pc[p] \in {"addiu", "bltz", "nop"}
               /\ l \in {"nop", "sc"} /\ o.op = "P" => Signed(rt[p]) >= 1
               /\ l \notin {"beqz", "addiu"}
               /\ Count(p) = m + IF l \in {"nop2", "leave", "jr"} THEN 1 ELSE 0
  <1>6. \E l, m : Lands(l, m)
    <2>1. CASE InMain(p)
      <3>1. Count(p) = k
        BY <1>1, <1>3, <2>1 DEF InMain, Count, Stored
      <3>2. CASE UNCHANGED pc
        <4>1. Lands("main", k)
          BY <1>1, <1>3, <2>1, <3>1, <3>2 DEF InMain, Goes, PlaceOK, Labels
        <4> QED BY <4>1
      <3>3. CASE pc' = [pc EXCEPT ![p] = Entry(p, n[p])]
        <4>1. PICK l : l = Entry(p, k)
          OBVIOUS
        <4>2. /\ k = D!End => l = "wait"
              /\ k # D!End /\ o.op = "SET" => l = "set"
              /\ k # D!End /\ o.op = "P" => l = "enter"
              /\ k # D!End /\ o.op = "V" => l = "ll"
          BY <1>2, <4>1 DEF Entry
        <4>3. PlaceOK(p, l, k) /\ l \in {"wait", "set", "enter", "ll"}
          BY <1>2, <1>3, <1>4, <4>2, Table DEF PlaceOK, Labels
        <4>4. Lands(l, k)
          BY <1>1, <1>3, <2>1, <3>1, <3>3, <4>1, <4>3 DEF InMain, Goes
        <4> QED BY <4>4
      <3> QED BY <2>1, <3>2, <3>3 DEF InMain
    <2>2. CASE InCall(p)
      <3>1. PICK l : l = Target(p)
        OBVIOUS
      <3>2. pc[p] \in {"enter", "addiu", "bltz", "nop", "beqz", "nop2", "leave"}
        BY <1>3, <2>2 DEF InCall, PlaceOK, Labels
      <3>3. Goes(p, l, k)
        BY <1>3, <2>2, <3>1 DEF InCall, Goes
      <3>4. /\ pc[p] = "enter" => l = "ll"
            /\ pc[p] = "addiu" => l = IF o.op = "P" THEN "bltz" ELSE "sc"
            /\ pc[p] = "bltz" => l = IF T0(p) < 0 THEN "ll" ELSE "nop"
            /\ pc[p] = "nop" => l = "sc"
            /\ pc[p] = "beqz" => l = IF rt[p] = Zero THEN "ll" ELSE "nop2"
            /\ pc[p] = "nop2" => l = IF o.op = "P" THEN "leave" ELSE "jr"
            /\ pc[p] = "leave" => l = "jr"
        BY <1>3, <3>1 DEF Target
      <3>5. PlaceOK(p, l, k)
        BY <1>2, <1>3, <3>2, <3>4 DEF PlaceOK, Labels
      <3>6. Count(p) = k + IF l \in {"nop2", "leave", "jr"} THEN 1 ELSE 0
        <4>1. pc[p] = "beqz" => rt[p] = One \/ rt[p] = Zero
          BY <1>3 DEF LinkedAt
        <4>2. Stored(p) <=> l \in {"nop2", "leave", "jr"}
          BY <3>2, <3>4, <4>1, OneZero DEF Stored
        <4> QED BY <1>1, <4>2 DEF Count
      <3>7. l \in {"nop", "sc"} /\ o.op = "P" => Signed(rt[p]) >= 1
        <4>1. CASE pc[p] = "bltz"
          <5>1. o.op = "P"
            BY <1>2, <1>3, <4>1 DEF PlaceOK
          <5>2. l = "nop" => ~(Signed(rt[p]) + (-1) < 0)
            BY <1>3, <3>4, <4>1, <5>1 DEF T0
          <5> QED BY <1>5, <3>4, <4>1, <5>2
        <4>2. CASE pc[p] = "nop"
          BY <1>3, <4>2 DEF LinkedAt
        <4> QED BY <3>2, <3>4, <4>1, <4>2
      <3>8. /\ l \in {"bltz", "nop", "sc"} => pc[p] \in {"addiu", "bltz", "nop"}
            /\ l \notin {"beqz", "addiu"}
        BY <3>2, <3>4
      <3> QED BY <3>3, <3>5, <3>6, <3>7, <3>8
    <2>3. CASE Returns(p)
      <3>1. pc[p] = "jr" /\ Goes(p, "main", k + 1)
        BY <1>1, <2>3 DEF Returns, Goes
      <3>2. Count(p) = k + 1
        BY <1>1, <3>1 DEF Count, Stored
      <3>3. PlaceOK(p, "main", k + 1)
        BY <1>3, <3>1, Table DEF PlaceOK, Labels
      <3>4. Lands("main", k + 1)
        BY <1>3, <3>1, <3>2, <3>3
      <3> QED BY <3>4
    <2> QED BY <2>1, <2>2, <2>3
  <1>7. PICK l, m : Lands(l, m)
    BY <1>6
  <1>8. Where'
    BY <1>7, WhereStep
  <1>9. LinkedAt(p)'
    <2>1. pc'[p] = l /\ n'[p] = m /\ resaddr'[p] = resaddr[p]
      BY <1>7 DEF Goes, Where
    <2>0. l \in {"bltz", "nop", "sc"} => rt'[p] = rt[p]
      BY <1>7
    <2>2. l \in {"bltz", "nop", "sc"} => Call(p)' = o
      BY <1>2, <1>7, <2>1 DEF Call
    <2>3. WordAt(Addr(o.sem))' = WordAt(Addr(o.sem))
      BY DEF WordAt
    <2>4. l \in {"bltz", "nop", "sc"} =>
            WordAt(Addr(Call(p).sem))' = WordAt(Addr(o.sem))
      BY <2>2, <2>3 DEF WordAt
    <2> QED BY <1>3, <1>7, <2>0, <2>1, <2>2, <2>4 DEF LinkedAt
  <1>10. Linked'
    <2>1. \A s \in 0 .. NSHR : WordAt(Addr(s))' = WordAt(Addr(s))
      BY DEF WordAt
    <2> QED BY <1>7, <1>9, <2>1, LinkedStep
  <1>11. UNCHANGED D!vars
    <2>1. /\ \A q \in Prid \ {p} : Count(q)' = Count(q)
          /\ Count(p)' = m + IF \/ l = "beqz" /\ rt'[p] = One
                                \/ l \in {"nop2", "leave", "jr"} THEN 1 ELSE 0
      BY <1>7, CountStep
    <2>2. Count(p)' = Count(p)
      BY <1>7, <2>1
    <2> QED BY <2>1, <2>2, Quiet
  <1> QED BY <1>8, <1>10, <1>11


\* What a granted access to a semaphore does; it cannot fault.
LEMMA SemAccess ==
    ASSUME TypeOK, NEW p \in Prid, NEW s \in 0 .. NSHR, NEW ins,
           ins.addr = Addr(s), ins.op \in {"LW", "SW", "LL", "SC"}, Access(p, ins)
    PROVE  /\ rt' = [rt EXCEPT ![p] = Result(p, ins)]
           /\ ins.op = "LW" => UNCHANGED <<resaddr, data>>
           /\ ins.op = "LL" => /\ resaddr' = [resaddr EXCEPT ![p] = Addr(s)]
                               /\ data' = data /\ Result(p, ins) = WordAt(Addr(s))
           /\ ins.op = "SW" => /\ resaddr' = Unreserved(Addr(s)) /\ Result(p, ins) = rt[p]
                               /\ data' = Overwritten(Addr(s), ins.val)
           /\ ins.op = "SC" =>
                IF resaddr[p] = Addr(s)
                THEN /\ resaddr' = Unreserved(Addr(s)) /\ Result(p, ins) = One
                     /\ data' = Overwritten(Addr(s), ins.val)
                ELSE UNCHANGED <<resaddr, data>> /\ Result(p, ins) = Zero
  <1>1. Shared
    BY MachineAssumption DEF Shared
  <1>2. WordErr(ins.addr) = "ok"
    BY SemWord
  <1>3. AccessErr(p, ins) \in {"ok", "EAGAIN"}
    BY <1>2 DEF AccessErr, ScErr
  <1>4. rt' = [rt EXCEPT ![p] = Result(p, ins)] /\ AccessMem(p, ins)
    BY <1>3 DEF Access, Faults
  <1>5. CASE ins.op = "LW"
    BY <1>4, <1>5 DEF AccessMem, Mem_load
  <1>6. CASE ins.op = "LL"
    BY <1>1, <1>4, <1>6 DEF AccessMem, Mem_ll, Result
  <1>7. CASE ins.op = "SW"
    BY <1>1, <1>2, <1>4, <1>7 DEF AccessMem, Mem_sw, Result
  <1>8. CASE ins.op = "SC"
    <2>1. Mem_sc(p, ins.addr, ins.val)
      BY <1>4, <1>8 DEF AccessMem
    <2>2. ScErr(p, ins.addr) = IF resaddr[p] = Addr(s) THEN "ok" ELSE "EAGAIN"
      BY <1>1, <1>2 DEF ScErr
    <2>3. Result(p, ins) = IF resaddr[p] = Addr(s) THEN One ELSE Zero
      BY <1>8, <2>2 DEF Result
    <2> QED BY <1>1, <1>2, <1>4, <1>8, <2>1, <2>2, <2>3 DEF Mem_sc, Mem_sw
  <1> QED BY <1>4, <1>5, <1>6, <1>7, <1>8

\* A store at a semaphore breaks the links to it and to no other.
LEMMA LinksApart ==
    ASSUME TypeOK, NEW s \in 0 .. NSHR, NEW w \in Word,
           data' = Overwritten(Addr(s), w), resaddr' = Unreserved(Addr(s)),
           NEW q \in Prid, NEW t \in 0 .. NSHR, resaddr'[q] = Addr(t)
    PROVE  resaddr[q] = Addr(t) /\ WordAt(Addr(t))' = WordAt(Addr(t))
  <1>1. resaddr'[q] = IF resaddr[q] = Addr(s) THEN None ELSE resaddr[q]
    BY DEF Unreserved
  <1>2. Addr(t) # None
    BY SemWord
  <1>3. resaddr[q] = Addr(t) /\ t # s
    BY <1>1, <1>2
  <1> QED BY <1>3, WordsApart

\* fork[id] = 1.
LEMMA SetStep ==
    ASSUME TypeOK, Where, Linked, NEW p \in Prid, pc[p] = "set", Returns(p),
           Access(p, Ins("SW", Addr(Call(p).sem), One))
    PROVE  Where' /\ Linked' /\ D!Next
  <1>1. PICK k, o : k = n[p] /\ o = D!Does(p, k)
    OBVIOUS
  <1>2. /\ k \in Nat /\ PlaceOK(p, "set", k) /\ o = Call(p) /\ o.sem \in 0 .. NSHR
        /\ o.op = "SET" /\ k < D!End
    BY <1>1, DoesType DEF Where, Call, PlaceOK
  <1> DEFINE ins == Ins("SW", Addr(o.sem), One)
  <1>3. ins.op = "SW" /\ ins.addr = Addr(o.sem) /\ ins.val = One /\ Access(p, ins)
    BY <1>2 DEF Ins
  <1> HIDE DEF ins
  <1>4. /\ rt' = [rt EXCEPT ![p] = rt[p]] /\ resaddr' = Unreserved(Addr(o.sem))
        /\ data' = Overwritten(Addr(o.sem), One)
    BY <1>2, <1>3, SemAccess
  <1>5. Goes(p, "main", k + 1) /\ PlaceOK(p, "main", k + 1)
    BY <1>1, <1>2, Table DEF Returns, Goes, PlaceOK, Labels
  <1>6. Where'
    BY <1>5, WhereStep
  <1>7. LinkedAt(p)'
    <2>1. pc'[p] = "main"
      BY <1>5 DEF Goes, Where
    <2> QED BY <2>1 DEF LinkedAt
  <1>8. \A q \in Prid : rt'[q] = rt[q]
    BY <1>4 DEF TypeOK
  <1>9. Linked'
    BY <1>2, <1>4, <1>5, <1>7, <1>8, LinksApart, LinkedStep, OneZero
  <1>10. Count(p) = k /\ Count(p)' = k + 1 /\ \A q \in Prid \ {p} : Count(q)' = Count(q)
    <2>1. Count(p) = k
      BY <1>1, <1>2 DEF Count, Stored
    <2> QED BY <1>2, <1>5, <1>8, <2>1, CountStep
  <1>11. sem' = [sem EXCEPT ![o.sem] = 1]
    BY <1>2, <1>4, SemStored, OneZero
  <1>12. D!Next
    BY <1>1, <1>2, <1>10, <1>11, Effect
  <1> QED BY <1>6, <1>9, <1>12

\* LL: the word is in the register and the reservation stands.
LEMMA LlStep ==
    ASSUME TypeOK, Where, Linked, NEW p \in Prid, pc[p] = "ll", InCall(p),
           Access(p, Ins("LL", Addr(Call(p).sem), Zero))
    PROVE  Where' /\ Linked' /\ UNCHANGED D!vars
  <1>1. PICK k, o : k = n[p] /\ o = D!Does(p, k)
    OBVIOUS
  <1>2. /\ k \in Nat /\ PlaceOK(p, "ll", k) /\ o = Call(p) /\ o.sem \in 0 .. NSHR
    BY <1>1, DoesType DEF Where, Call, PlaceOK
  <1> DEFINE ins == Ins("LL", Addr(o.sem), Zero)
  <1>3. ins.op = "LL" /\ ins.addr = Addr(o.sem) /\ Access(p, ins)
    BY <1>2 DEF Ins
  <1> HIDE DEF ins
  <1>4. /\ rt' = [rt EXCEPT ![p] = WordAt(Addr(o.sem))] /\ data' = data
        /\ resaddr' = [resaddr EXCEPT ![p] = Addr(o.sem)]
    BY <1>2, <1>3, SemAccess
  <1>5. Goes(p, "addiu", k) /\ PlaceOK(p, "addiu", k)
    BY <1>1, <1>2 DEF InCall, Target, Goes, PlaceOK, Labels, Where
  <1>6. Where'
    BY <1>5, WhereStep
  <1>7. \A s \in 0 .. NSHR : WordAt(Addr(s))' = WordAt(Addr(s))
    BY <1>4 DEF WordAt
  <1>8. LinkedAt(p)'
    <2>1. pc'[p] = "addiu" /\ n'[p] = k
      BY <1>5 DEF Goes, Where
    <2>2. Call(p)' = o
      BY <1>1, <2>1 DEF Call
    <2>3. WordAt(Addr(Call(p).sem))' = WordAt(Addr(o.sem))
      BY <1>2, <1>4, <2>2 DEF WordAt
    <2>4. rt'[p] = WordAt(Addr(o.sem))
      BY <1>4 DEF TypeOK
    <2> QED BY <2>1, <2>3, <2>4 DEF LinkedAt
  <1>9. \A q \in Prid \ {p} : rt'[q] = rt[q] /\ resaddr'[q] = resaddr[q]
    BY <1>4 DEF TypeOK
  <1>10. Linked'
    BY <1>5, <1>7, <1>8, <1>9, LinkedStep
  <1>11. Count(p)' = k /\ \A q \in Prid \ {p} : Count(q)' = Count(q)
    BY <1>2, <1>5, <1>9, CountStep
  <1>12. Count(p) = k
    BY <1>1, <1>2 DEF Count, Stored
  <1>13. UNCHANGED D!vars
    BY <1>4, <1>11, <1>12, Quiet
  <1> QED BY <1>6, <1>10, <1>13


\* SC: if the reservation still stands, the count is what the LL read and the
\* operation takes effect; if not, nothing is stored and the call goes back to LL.
LEMMA ScStep ==
    ASSUME TypeOK, Where, Linked, DP!Inv, NEW p \in Prid, pc[p] = "sc", InCall(p),
           Access(p, Ins("SC", Addr(Call(p).sem), ToWord(T0(p))))
    PROVE  Where' /\ Linked' /\ (D!Next \/ UNCHANGED D!vars)
  <1>1. PICK k, o, v : k = n[p] /\ o = D!Does(p, k) /\ v = T0(p)
    OBVIOUS
  <1>2. /\ k \in Nat /\ PlaceOK(p, "sc", k) /\ o = Call(p) /\ o.sem \in 0 .. NSHR
        /\ o.op \in {"P", "V"} /\ k < D!End
    BY <1>1, DoesType DEF Where, Call, PlaceOK
  <1> DEFINE ins == Ins("SC", Addr(o.sem), ToWord(v))
  <1>3. ins.op = "SC" /\ ins.addr = Addr(o.sem) /\ ins.val = ToWord(v) /\ Access(p, ins)
    BY <1>1, <1>2 DEF Ins
  <1> HIDE DEF ins
  <1>4. /\ rt' = [rt EXCEPT ![p] = IF resaddr[p] = Addr(o.sem) THEN One ELSE Zero]
        /\ IF resaddr[p] = Addr(o.sem)
           THEN /\ resaddr' = Unreserved(Addr(o.sem))
                /\ data' = Overwritten(Addr(o.sem), ToWord(v))
           ELSE UNCHANGED <<resaddr, data>>
    BY <1>2, <1>3, SemAccess
  <1>5. Goes(p, "beqz", k) /\ PlaceOK(p, "beqz", k)
    BY <1>1, <1>2 DEF InCall, Target, Goes, PlaceOK, Labels, Where
  <1>6. Where'
    BY <1>5, WhereStep
  <1>7. /\ rt'[p] = IF resaddr[p] = Addr(o.sem) THEN One ELSE Zero
        /\ \A q \in Prid \ {p} : rt'[q] = rt[q]
    BY <1>4 DEF TypeOK
  <1>8. LinkedAt(p)'
    <2>1. pc'[p] = "beqz"
      BY <1>5 DEF Goes, Where
    <2> QED BY <1>7, <2>1 DEF LinkedAt
  <1>9. Count(p) = k
    BY <1>1, <1>2 DEF Count, Stored
  <1>10. /\ Count(p)' = k + IF rt'[p] = One THEN 1 ELSE 0
         /\ \A q \in Prid \ {p} : Count(q)' = Count(q)
    BY <1>5, <1>7, CountStep
  <1>11. CASE resaddr[p] # Addr(o.sem)
    <2>1. \A s \in 0 .. NSHR : WordAt(Addr(s))' = WordAt(Addr(s))
      BY <1>4, <1>11 DEF WordAt
    <2>2. Linked'
      BY <1>4, <1>5, <1>7, <1>8, <1>11, <2>1, LinkedStep
    <2>3. Count(p)' = Count(p)
      BY <1>2, <1>7, <1>9, <1>10, <1>11, OneZero
    <2> QED BY <1>4, <1>6, <1>10, <1>11, <2>2, <2>3, Quiet
  <1>12. CASE resaddr[p] = Addr(o.sem)
    <2> DEFINE s == o.sem
               d == IF o.op = "P" THEN -1 ELSE 1
    <2>1. sem[s] = Signed(rt[p]) /\ (o.op = "P" => Signed(rt[p]) >= 1)
      <3>1. LinkedAt(p)
        BY DEF Linked
      <3>2. rt[p] = WordAt(Addr(s)) /\ (o.op = "P" => Signed(rt[p]) >= 1)
        BY <1>2, <1>12, <3>1 DEF LinkedAt
      <3> QED BY <1>2, <3>2 DEF sem
    <2>2. v = sem[s] + d
      BY <1>1, <1>2, <2>1 DEF T0
    <2>3. sem[s] \in 0 .. NSHR - 1 /\ NSHR \in Nat /\ NSHR <= INT_MAX
      <3>1. DP!Sems = 0 .. NSHR
        BY DEF DP!Sems
      <3> QED BY <1>2, <3>1, Table, DP!CountsBounded, NAssumption, ProgramAssumption
    <2>4. v \in Nat /\ v <= INT_MAX /\ (o.op = "P" => sem[s] > 0 /\ v = sem[s] - 1)
          /\ (o.op = "V" => v = sem[s] + 1)
      <3>1. INT_MAX \in Nat
        BY SMT DEF INT_MAX
      <3>2. sem[s] \in Nat /\ (o.op = "P" => sem[s] >= 1)
        BY <2>1, <2>3
      <3> HIDE DEF s
      <3> QED BY <1>2, <2>2, <2>3, <3>1, <3>2
    <2>5. ToWord(v) \in Word /\ Signed(ToWord(v)) = v
      BY <2>4, ToWordInt
    <2>6. sem' = [sem EXCEPT ![s] = v]
      BY <1>2, <1>4, <1>12, <2>5, SemStored
    <2>7. Linked'
      BY <1>2, <1>4, <1>5, <1>7, <1>8, <1>12, <2>5, LinksApart, LinkedStep
    <2>8. Count(p)' = k + 1
      BY <1>7, <1>10, <1>12
    <2>9. D!Next
      BY <1>1, <1>2, <1>9, <1>10, <2>4, <2>6, <2>8, Effect
    <2> QED BY <1>6, <2>7, <2>9
  <1> QED BY <1>11, <1>12

\* A step of the machine that no processor takes part in, and one that is put off
\* by the bus.
LEMMA IdleStep ==
    ASSUME Where, Linked, UNCHANGED <<data, resaddr, rt, pc, n>>
    PROVE  Where' /\ Linked' /\ UNCHANGED D!vars
  <1>1. Where'
    BY DEF Where, PlaceOK
  <1>2. Linked'
    BY DEF Linked, LinkedAt, Call, WordAt
  <1>3. \A q \in Prid : Count(q)' = Count(q)
    BY DEF Count, Stored
  <1> QED BY <1>1, <1>2, <1>3, Quiet

\* Every step of the machine is one of ShrMem.
LEMMA MachineRuns == ASSUME TypeOK, MNext PROVE Next
  <1>1. ASSUME NEW p \in Prid, NEW ins, Runs(p, ins) PROVE ins \in Instrs
    BY <1>1 DEF Runs, TypeOK
  <1>2. ASSUME NEW p \in Prid, Cycle(p) PROVE Next
    <2>1. CASE Idle(p)
      BY <2>1 DEF Next
    <2>2. ASSUME NEW ins, Deferred(p, ins) \/ Alu(p, ins) \/ Access(p, ins) \/ Wait(p, ins)
          PROVE  Next
      <3>1. Runs(p, ins) /\ Execute(p, ins)
        BY <2>2 DEF Deferred, Alu, Access, Wait, Execute
      <3> QED BY <1>1, <3>1 DEF Next
    <2> QED BY <1>2, <2>1, <2>2 DEF Cycle
  <1> QED BY <1>2 DEF MNext, Next


-----------------------------------------------------------------------------
(* The machine. *)

MInv == TypeOK /\ RunCount /\ Where /\ Linked /\ DP!Inv

\* One call of Datapath_execute.
LEMMA CycleStep ==
    ASSUME MInv, NEW p \in Prid, Cycle(p)
    PROVE  Where' /\ Linked' /\ (D!Next \/ UNCHANGED D!vars)
  <1> USE DEF MInv
  <1>0. pc[p] \in Labels
    BY DEF Where
  <1>1. CASE Idle(p) /\ UNCHANGED mVars
    BY <1>1, IdleStep DEF Idle, memVars, mVars
  <1>2. ASSUME NEW ins, Deferred(p, ins), UNCHANGED mVars
        PROVE  Where' /\ Linked' /\ UNCHANGED D!vars
    BY <1>2, IdleStep DEF Deferred, mVars
  <1>3. ASSUME NEW ins \in Code(p), Alu(p, ins) \/ Access(p, ins) \/ Wait(p, ins),
               InMain(p) \/ InCall(p) \/ Returns(p) \/ Stops(p)
        PROVE  Where' /\ Linked' /\ (D!Next \/ UNCHANGED D!vars)
    <2> USE DEF Code
    <2>1. CASE pc[p] = "main"
      <3>1. InMain(p)
        BY <1>3, <2>1 DEF InCall, Returns, Stops
      <3>2. ins = ALU \/ ins = LoadStack
        BY <2>1
      <3>3. CASE Alu(p, ins)
        BY <2>1, <3>1, <3>3, AluStep DEF Alu, memVars
      <3>4. CASE Access(p, ins)
        <4>1. ins.op = "LW" /\ ins.addr = Addr(0) /\ 0 \in 0 .. NSHR
          BY <3>2, <3>4, NAssumption DEF ALU, LoadStack, Ins, Access, UsesBus, Addr
        <4>2. UNCHANGED <<resaddr, data>> /\ rt' = [rt EXCEPT ![p] = Result(p, ins)]
          BY <3>4, <4>1, SemAccess
        <4>3. \A q \in Prid : rt'[q] = rt[q] \/ (q = p /\ pc[p] = "main")
          BY <2>1, <4>2 DEF TypeOK
        <4> QED BY <2>1, <3>1, <4>2, <4>3, AluStep
      <3>5. ~Wait(p, ins)
        <4>1. ins.op # "WAIT"
          BY <3>2 DEF ALU, LoadStack, Ins
        <4> QED BY <4>1 DEF Wait
      <3> QED BY <1>3, <3>3, <3>4, <3>5
    <2>2. CASE pc[p] = "set"
      <3>1. Returns(p) /\ ins = Ins("SW", Addr(Call(p).sem), One)
        BY <1>3, <2>2 DEF InMain, InCall, Stops
      <3>2. Access(p, ins)
        BY <1>3, <3>1 DEF Ins, Alu, Wait
      <3> QED BY <2>2, <3>1, <3>2, SetStep
    <2>3. CASE pc[p] = "ll"
      <3>1. InCall(p) /\ ins = Ins("LL", Addr(Call(p).sem), Zero)
        BY <1>3, <2>3 DEF InMain, Returns, Stops
      <3>2. Access(p, ins)
        BY <1>3, <3>1 DEF Ins, Alu, Wait
      <3> QED BY <2>3, <3>1, <3>2, LlStep
    <2>4. CASE pc[p] = "sc"
      <3>1. InCall(p) /\ ins = Ins("SC", Addr(Call(p).sem), ToWord(T0(p)))
        BY <1>3, <2>4 DEF InMain, Returns, Stops
      <3>2. Access(p, ins)
        BY <1>3, <3>1 DEF Ins, Alu, Wait
      <3> QED BY <2>4, <3>1, <3>2, ScStep
    <2>5. CASE pc[p] = "wait"
      <3>1. Stops(p) /\ ins = Ins("WAIT", 0, Zero)
        BY <1>3, <2>5 DEF InMain, InCall, Returns
      <3>2. Wait(p, ins)
        BY <1>3, <3>1 DEF Ins, Alu, Access, UsesBus
      <3> QED BY <3>1, <3>2, IdleStep DEF Stops, Wait, mVars, memVars
    <2>6. CASE pc[p] \notin {"main", "set", "ll", "sc", "wait"}
      <3>1. ins = ALU /\ (InCall(p) \/ Returns(p))
        BY <1>3, <2>6 DEF InMain, Stops
      <3>2. Alu(p, ins)
        BY <1>3, <3>1 DEF ALU, Ins, Access, UsesBus, Wait
      <3> QED BY <2>6, <3>1, <3>2, AluStep DEF Alu, memVars
    <2> QED BY <2>1, <2>2, <2>3, <2>4, <2>5, <2>6
  <1> QED BY <1>1, <1>2, <1>3 DEF Cycle

\* Every step of the machine is a step of Dining or none, and keeps the invariant.
LEMMA MachineStep ==
    ASSUME MInv, [MNext]_<<vars, mVars>>
    PROVE  MInv' /\ [D!Next]_(D!vars)
  <1>1. Where' /\ Linked' /\ (D!Next \/ UNCHANGED D!vars)
    <2>1. CASE BusClr /\ UNCHANGED mVars
      BY <2>1, IdleStep DEF MInv, BusClr, Mem_busclr, mVars
    <2>2. ASSUME NEW p \in Prid, Cycle(p)
          PROVE  Where' /\ Linked' /\ (D!Next \/ UNCHANGED D!vars)
      BY <2>2, CycleStep
    <2>3. CASE UNCHANGED <<vars, mVars>>
      BY <2>3, IdleStep DEF MInv, vars, memVars, cpuVars, mVars
    <2> QED BY <2>1, <2>2, <2>3 DEF MNext, Returned
  <1>2. TypeOK' /\ RunCount'
    <2>1. [Next]_vars
      BY MachineRuns DEF MInv
    <2> QED BY <2>1, NextType DEF MInv
  <1>3. DP!Inv'
    <2>1. DP!Next \/ UNCHANGED DP!vars
      BY <1>1, Same DEF D!vars, DP!vars, Counts
    <2> QED BY <2>1, Table, DP!FreeNext DEF MInv
  <1> QED BY <1>1, <1>2, <1>3 DEF MInv

\* The program has been loaded and nobody has started.
LEMMA MachineInit == MInit => MInv /\ D!Init
  <1> SUFFICES ASSUME MInit PROVE MInv /\ D!Init
    OBVIOUS
  <1>1. TypeOK /\ RunCount
    BY InitType DEF MInit
  <1>2. /\ pc = [p \in Prid |-> "main"] /\ n = [p \in Prid |-> 0] /\ data = Image
    BY DEF MInit, Init, MemInit
  <1>3. Where
    BY <1>2, Table DEF Where, PlaceOK, Labels
  <1>4. Linked
    BY <1>2 DEF Linked, LinkedAt
  <1>5. D!Init
    <2>1. \A s \in 0 .. NSHR : Signed(WordAt(Addr(s))) = IF s = 0 THEN NSHR - 1 ELSE 0
      BY <1>2, ProgramAssumption DEF WordAt
    <2>2. sem = [s \in 0 .. NSHR |-> IF s = 0 THEN NSHR - 1 ELSE 0]
      BY <2>1 DEF sem
    <2>3. \A p \in Prid : n[p] + (IF Stored(p) THEN 1 ELSE 0) = 0
      BY <1>2 DEF Stored
    <2> QED BY <2>2, <2>3 DEF D!Init, D!Sems, D!Footman, D!Philo, Prid
  <1>6. DP!Inv
    BY <1>5, Same, Table, DP!FreeInit
  <1> QED BY <1>1, <1>3, <1>4, <1>5, <1>6 DEF MInv

\* libsem implements semaphores, on any number of processors: every run of
\* dining-philosophers.c on the machine, with its bus and its LL and SC, is one in
\* which each Sem_P and Sem_V takes effect once and at once.
THEOREM LibsemImplements == MSpec => Implements
  <1>1. MInit => MInv /\ D!Init
    BY MachineInit
  <1>2. MInv /\ [MNext]_<<vars, mVars>> => MInv' /\ [D!Next]_(D!vars)
    BY MachineStep
  <1> QED BY <1>1, <1>2, PTL DEF MSpec, Implements, D!Spec

\* On the machine no fork is in two hands and the footman keeps a chair empty.
THEOREM MachineExclusive == MSpec => []Exclusive
  <1>1. MInit => MInv
    BY MachineInit
  <1>2. MInv /\ [MNext]_<<vars, mVars>> => MInv'
    BY MachineStep
  <1>3. MInv => Exclusive
    BY Same, Table, DP!InvExclusive DEF MInv, Exclusive
  <1> QED BY <1>1, <1>2, <1>3, PTL DEF MSpec

=============================================================================
