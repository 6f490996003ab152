--------------------------- MODULE ProdConsProof ----------------------------
(***************************************************************************)
(* Proofs about the shared memory producer-consumer programs, for every    *)
(* number of processors, every size of the buffer and every number of      *)
(* values: the sections exclude each other, no wake-up is lost, the buffer *)
(* is a queue, and version 1 delivers every value once and in order.       *)
(***************************************************************************)
EXTENDS ProdCons, FiniteSetTheorems, TLAPS

(***************************************************************************)
(* Where each kind of processor can be and with which flag.  A processor   *)
(* that waits for a semaphore has the flag that made it wait; a consumer   *)
(* is done only if its flag is END.                                        *)
(***************************************************************************)
SectionLabels == {"put", "unlock", "store", "stored", "end", "drain", "get"}
ProducerLabels == {"produce", "put", "unlock", "waitfull", "relock", "store",
                   "stored", "end", "drain", "done"}
ConsumerLabels == {"consume", "get", "unlock", "waitempty", "done"}

Slots == 0 .. MAXELEM - 1

Types ==
    /\ ver \in Versions
    /\ ct \in Int /\ hd \in Slots /\ tl \in Slots /\ buf \in [Slots -> Nat]
    /\ nempty \in Nat /\ nfull \in Nat /\ full \in Nat /\ empty \in Nat
    /\ lock \in Nat
    /\ producing \in [0 .. 1 -> BOOLEAN]
    /\ pc \in [Cpu -> ProducerLabels \cup ConsumerLabels]
    /\ flag \in [Cpu -> {"SUCCESS", "FULL", "EMPTY", "END"}]
    /\ val \in [Cpu -> Nat]
    /\ put \in Seq(Nat) /\ got \in Seq(Nat)

ProducerAt(l, g) == /\ l \in ProducerLabels
                    /\ g \in {"SUCCESS", "FULL"}
                    /\ l = "waitfull" => g = "FULL"
                    /\ l \in {"relock", "store", "stored"} => ver = 1

ConsumerAt(l, g) == /\ l \in ConsumerLabels
                    /\ g \in {"SUCCESS", "EMPTY", "END"}
                    /\ l = "waitempty" => g = "EMPTY"
                    /\ l = "done" => g = "END"

Places == /\ \A p \in Producer : ProducerAt(pc[p], flag[p])
          /\ \A p \in Consumer : ConsumerAt(pc[p], flag[p])

-----------------------------------------------------------------------------
(* Counting. *)

\* The versions there are, and their processors.
LEMMA Roles ==
    ASSUME ver \in Versions
    PROVE  /\ ver \in {1, 2} /\ Producer \subseteq Cpu /\ Consumer \subseteq Cpu
           /\ Cpu = Producer \cup Consumer /\ 1 \in Consumer
           /\ ver = 1 => Producer = {0}
  BY ProdConsAssumption DEF Producer, Consumer, Cpu

\* Sets of processors are finite.
LEMMA CpuFinite == \A S \in SUBSET Cpu : IsFiniteSet(S) /\ Cardinality(S) \in Nat
  <1>1. IsFiniteSet(Cpu)
    BY FS_Interval, ProdConsAssumption DEF Cpu
  <1> QED BY <1>1, FS_Subset, FS_CardinalityType

One(b) == IF b THEN 1 ELSE 0

\* A set that changes in one element.
LEMMA OneChanges ==
    ASSUME NEW S \in SUBSET Cpu, NEW T \in SUBSET Cpu, NEW p, S \ {p} = T \ {p}
    PROVE  Cardinality(T) = Cardinality(S) - One(p \in S) + One(p \in T)
  <1>1. /\ IsFiniteSet(S) /\ Cardinality(S) \in Nat
        /\ IsFiniteSet(T) /\ Cardinality(T) \in Nat
    BY CpuFinite
  <1>2. Cardinality(S \ {p}) = IF p \in S THEN Cardinality(S) - 1 ELSE Cardinality(S)
    BY <1>1, FS_RemoveElement
  <1>3. Cardinality(T \ {p}) = IF p \in T THEN Cardinality(T) - 1 ELSE Cardinality(T)
    BY <1>1, FS_RemoveElement
  <1> QED BY <1>1, <1>2, <1>3 DEF One

\* How many are in the section after p has gone to l.
LEMMA SectionStep ==
    ASSUME Types, NEW p \in Cpu, NEW l, Goto(p, l)
    PROVE  Cardinality({q \in Cpu : InSection(q)'})
             = Cardinality({q \in Cpu : InSection(q)})
               - One(pc[p] \in SectionLabels) + One(l \in SectionLabels)
  <1> DEFINE S == {q \in Cpu : InSection(q)}
             T == {q \in Cpu : InSection(q)'}
  <1>1. S \ {p} = T \ {p}
    BY DEF Goto, Types, InSection
  <1>2. (p \in S <=> pc[p] \in SectionLabels) /\ (p \in T <=> l \in SectionLabels)
    BY DEF Goto, Types, InSection, SectionLabels
  <1>3. Cardinality(T) = Cardinality(S) - One(p \in S) + One(p \in T)
    <2> HIDE DEF S, T
    <2>1. S \in SUBSET Cpu /\ T \in SUBSET Cpu
      BY DEF S, T
    <2> QED BY <1>1, <2>1, OneChanges
  <1> QED BY <1>2, <1>3 DEF One

\* How many are asleep after p has gone to l with flag g.
LEMMA SleepStep ==
    ASSUME Types, NEW p \in Cpu, NEW l, NEW g, Goto(p, l), Flag(p, g),
           NEW f, NEW w
    PROVE  Cardinality(Asleep(f, w)')
             = Cardinality(Asleep(f, w))
               - One(flag[p] = f /\ pc[p] \in {"unlock", w})
               + One(g = f /\ l \in {"unlock", w})
  <1> DEFINE S == Asleep(f, w)
             T == {q \in Cpu : flag'[q] = f /\ pc'[q] \in {"unlock", w}}
  <1>1. S \ {p} = T \ {p}
    BY DEF Goto, Flag, Types, Asleep
  <1>2. /\ p \in S <=> flag[p] = f /\ pc[p] \in {"unlock", w}
        /\ p \in T <=> g = f /\ l \in {"unlock", w}
    BY DEF Goto, Flag, Types, Asleep
  <1>3. Cardinality(T) = Cardinality(S) - One(p \in S) + One(p \in T)
    <2>1. S \in SUBSET Cpu /\ T \in SUBSET Cpu
      BY DEF Asleep
    <2> HIDE DEF S, T
    <2> QED BY <1>1, <2>1, OneChanges
  <1> QED BY <1>2, <1>3 DEF One, Asleep


\* A processor that keeps its flag.
LEMMA KeepsFlag ==
    ASSUME Types, NEW p \in Cpu, UNCHANGED flag
    PROVE  Flag(p, flag[p])
  BY DEF Types, Flag

-----------------------------------------------------------------------------
(* Types and places. *)

\* The mask of enqueue and dequeue stays in the buffer; one turn is enough.
LEMMA Mask ==
    /\ \A x \in Nat : x % MAXELEM \in Slots
    /\ \A x \in 0 .. 2 * MAXELEM - 1 :
         x % MAXELEM = IF x < MAXELEM THEN x ELSE x - MAXELEM
  <1> MAXELEM \in Nat \ {0}
    BY ProdConsAssumption
  <1> QED BY SMT DEF Slots

\* enqueue and dequeue keep the types of the buffer.
LEMMA BufferTypes ==
    ASSUME Types, NEW item \in Nat, enqueue(item) \/ dequeue
    PROVE  /\ ct' \in Int /\ hd' \in Slots /\ tl' \in Slots
           /\ buf' \in [Slots -> Nat] /\ put' \in Seq(Nat) /\ got' \in Seq(Nat)
  <1> MAXELEM \in Nat \ {0}
    BY ProdConsAssumption
  <1>1. hd \in Nat /\ tl \in Nat /\ hd + 1 \in Nat /\ tl + 1 \in Nat
    BY DEF Types, Slots
  <1>2. (hd + 1) % MAXELEM \in Slots /\ (tl + 1) % MAXELEM \in Slots
    BY <1>1, Mask
  <1>3. CASE enqueue(item)
    BY <1>2, <1>3 DEF Types, enqueue
  <1>4. CASE dequeue
    <2>1. buf[hd] \in Nat
      BY DEF Types
    <2> QED BY <1>2, <1>4, <2>1 DEF Types, dequeue
  <1> QED BY <1>3, <1>4

\* Every step keeps the types.
LEMMA TypesNext == ASSUME Types, Places, [Next]_vars PROVE Types'
  <1> USE DEF Types, Goto, Flag, NextVal, ProducerLabels, ConsumerLabels
  <1>0. ver \in {1, 2}
    BY ProdConsAssumption
  <1>1. CASE UNCHANGED vars
    BY <1>1 DEF vars, buffer, wakers
  <1>2. ASSUME NEW p \in Cpu, ProducerLocks(p) PROVE Types'
    BY <1>2 DEF ProducerLocks, More, buffer, wakers
  <1>3. ASSUME NEW p \in Cpu, Put(p) PROVE Types'
    <2>1. val[p] \in Nat
      OBVIOUS
    <2>2. enqueue(val[p])
      BY <1>3 DEF Put
    <2>3. /\ ct' \in Int /\ hd' \in Slots /\ tl' \in Slots
          /\ buf' \in [Slots -> Nat] /\ put' \in Seq(Nat) /\ got' \in Seq(Nat)
      <3> HIDE DEF Types
      <3> QED BY <2>1, <2>2, BufferTypes
    <2>4. /\ nempty' \in Nat /\ nfull' \in Nat /\ full' \in Nat /\ empty' \in Nat
      BY <1>3 DEF Put, Wake, wakers
    <2> QED BY <1>3, <2>3, <2>4 DEF Put
  <1>4. ASSUME NEW p \in Cpu, PutFull(p) PROVE Types'
    BY <1>4 DEF PutFull, buffer
  <1>5. ASSUME NEW p \in Cpu, ProducerUnlocks(p) PROVE Types'
    <2>0. val[p] + ver \in Nat
      BY <1>0
    <2>1. val' \in [Cpu -> Nat]
      <3>1. CASE UNCHANGED val
        BY <3>1
      <3>2. CASE NextVal(p)
        BY <2>0, <3>2
      <3> HIDE DEF NextVal
      <3> QED BY <1>5, <3>1, <3>2 DEF ProducerUnlocks
    <2>2. pc' \in [Cpu -> ProducerLabels \cup ConsumerLabels]
      BY <1>5 DEF ProducerUnlocks
    <2> QED BY <1>5, <2>1, <2>2 DEF ProducerUnlocks, buffer, wakers
  <1>6. ASSUME NEW p \in Cpu, WaitFull(p) PROVE Types'
    <2>1. val' \in [Cpu -> Nat]
      BY <1>0, <1>6, SMTT(20) DEF WaitFull
    <2>2. pc' \in [Cpu -> ProducerLabels \cup ConsumerLabels]
      BY <1>6 DEF WaitFull
    <2> QED BY <1>6, <2>1, <2>2 DEF WaitFull, buffer
  <1>7. ASSUME NEW p \in Cpu, Relock(p) PROVE Types'
    BY <1>7 DEF Relock, buffer, wakers
  <1>8. ASSUME NEW p \in Cpu, Store(p) PROVE Types'
    <2>1. val[p] \in Nat
      OBVIOUS
    <2>2. enqueue(val[p])
      BY <1>8 DEF Store
    <2>3. /\ ct' \in Int /\ hd' \in Slots /\ tl' \in Slots
          /\ buf' \in [Slots -> Nat] /\ put' \in Seq(Nat) /\ got' \in Seq(Nat)
      <3> HIDE DEF Types
      <3> QED BY <2>1, <2>2, BufferTypes
    <2> QED BY <1>8, <2>3 DEF Store, wakers
  <1>9. ASSUME NEW p \in Cpu, StoreUnlocks(p) PROVE Types'
    BY <1>0, <1>9 DEF StoreUnlocks, buffer, wakers
  <1>10. ASSUME NEW p \in Cpu, EndProducing(p) PROVE Types'
    BY <1>10 DEF EndProducing, buffer, wakers
  <1>11. ASSUME NEW p \in Cpu, Drain(p) \/ Drained(p) PROVE Types'
    <2>1. CASE Drain(p)
      BY <2>1 DEF Drain, Wake, buffer
    <2>2. CASE Drained(p)
      BY <2>2 DEF Drained, buffer, wakers
    <2> QED BY <1>11, <2>1, <2>2
  <1>12. ASSUME NEW p \in Cpu, ConsumerLocks(p) PROVE Types'
    BY <1>12 DEF ConsumerLocks, buffer, wakers
  <1>13. ASSUME NEW p \in Cpu, Get(p) PROVE Types'
    <2>1. dequeue
      BY <1>13 DEF Get
    <2>2. /\ ct' \in Int /\ hd' \in Slots /\ tl' \in Slots
          /\ buf' \in [Slots -> Nat] /\ put' \in Seq(Nat) /\ got' \in Seq(Nat)
      <3> HIDE DEF Types
      <3> QED BY <2>1, BufferTypes, 0 \in Nat
    <2>3. /\ nempty' \in Nat /\ nfull' \in Nat /\ full' \in Nat /\ empty' \in Nat
      BY <1>13 DEF Get, WakeProducer, wakers
    <2> QED BY <1>13, <2>2, <2>3 DEF Get
  <1>14. ASSUME NEW p \in Cpu, GetEnd(p) \/ GetEmpty(p) PROVE Types'
    <2>1. CASE GetEnd(p)
      BY <2>1 DEF GetEnd, buffer, wakers
    <2>2. CASE GetEmpty(p)
      BY <2>2 DEF GetEmpty, buffer
    <2> QED BY <1>14, <2>1, <2>2
  <1>15. ASSUME NEW p \in Cpu, ConsumerUnlocks(p) PROVE Types'
    <2>1. flag[p] \in {"SUCCESS", "EMPTY", "END"}
      BY <1>15 DEF ConsumerUnlocks, Places, ConsumerAt
    <2>2. pc' \in [Cpu -> ProducerLabels \cup ConsumerLabels]
      BY <1>15, <2>1 DEF ConsumerUnlocks
    <2>3. lock' = lock + 1 /\ UNCHANGED <<ver, buffer, wakers, producing, flag, val>>
      BY <1>15 DEF ConsumerUnlocks
    <2> QED BY <2>2, <2>3 DEF buffer, wakers
  <1>16. ASSUME NEW p \in Cpu, WaitEmpty(p) PROVE Types'
    BY <1>16 DEF WaitEmpty, buffer
  <1> QED BY <1>1, <1>2, <1>3, <1>4, <1>5, <1>6, <1>7, <1>8, <1>9, <1>10, <1>11,
             <1>12, <1>13, <1>14, <1>15, <1>16 DEF Next, Spins, Returned

-----------------------------------------------------------------------------
(* The lock and the wake-ups. *)

\* What the step of one processor p, that goes to l with flag g, must do to the
\* semaphores and to the counts of sleepers.
LEMMA Move ==
    ASSUME Types, Places, Locked, WakeUps, ver' = ver,
           NEW p \in Cpu, NEW l, NEW g, Goto(p, l), Flag(p, g), Types',
           p \in Producer => ProducerAt(l, g), p \in Consumer => ConsumerAt(l, g),
           lock' = lock + One(pc[p] \in SectionLabels) - One(l \in SectionLabels),
           nempty' + empty' = nempty + empty
                                - One(flag[p] = "EMPTY" /\ pc[p] \in {"unlock", "waitempty"})
                                + One(g = "EMPTY" /\ l \in {"unlock", "waitempty"}),
           nfull' + full' = nfull + full
                              - One(flag[p] = "FULL" /\ pc[p] \in {"unlock", "waitfull"})
                              + One(g = "FULL" /\ l \in {"unlock", "waitfull"})
    PROVE  Places' /\ Locked' /\ WakeUps'
  <1>1. Places'
    <2>1. Producer' = Producer /\ Consumer' = Consumer
      BY DEF Producer, Consumer
    <2>2. Producer \subseteq Cpu /\ Consumer \subseteq Cpu
      BY Roles DEF Types
    <2>3. \A q \in Cpu : /\ pc'[q] = IF q = p THEN l ELSE pc[q]
                         /\ flag'[q] = IF q = p THEN g ELSE flag[q]
      BY DEF Types, Goto, Flag
    <2> QED BY <2>1, <2>2, <2>3 DEF Places, ProducerAt, ConsumerAt
  <1>2. Locked'
    <2> DEFINE N == Cardinality({q \in Cpu : InSection(q)})
               M == Cardinality({q \in Cpu : InSection(q)'})
    <2>1. N \in Nat /\ M \in Nat
      <3> HIDE DEF InSection
      <3> QED BY CpuFinite
    <2>2. M = N - One(pc[p] \in SectionLabels) + One(l \in SectionLabels)
      BY SectionStep
    <2>3. lock \in Nat /\ lock' \in Nat /\ lock + N = 1
      BY DEF Types, Locked
    <2>4. lock' + M = 1
      <3> HIDE DEF M, N
      <3> QED BY <2>1, <2>2, <2>3 DEF One
    <2> QED BY <2>4 DEF Locked
  <1>3. WakeUps'
    <2> DEFINE NE == Cardinality(Asleep("EMPTY", "waitempty"))
               NF == Cardinality(Asleep("FULL", "waitfull"))
    <2>1. /\ NE' = NE - One(flag[p] = "EMPTY" /\ pc[p] \in {"unlock", "waitempty"})
                      + One(g = "EMPTY" /\ l \in {"unlock", "waitempty"})
          /\ NF' = NF - One(flag[p] = "FULL" /\ pc[p] \in {"unlock", "waitfull"})
                      + One(g = "FULL" /\ l \in {"unlock", "waitfull"})
      BY SleepStep
    <2>2. NE = nempty + empty /\ NF = nfull + full
      BY DEF WakeUps
    <2>3. NE' = nempty' + empty' /\ NF' = nfull' + full'
      <3>1. nempty \in Nat /\ empty \in Nat /\ nfull \in Nat /\ full \in Nat
        BY DEF Types
      <3> HIDE DEF NE, NF
      <3> QED BY <2>1, <2>2, <3>1 DEF One
    <2> QED BY <2>3 DEF WakeUps
  <1> QED BY <1>1, <1>2, <1>3

\* Version 1 has one producer, so at most one processor asks for Sem_V(&full).
LEMMA OneSleeper ==
    ASSUME Types, Places, WakeUps, ver = 1
    PROVE  /\ nfull + full <= 1
           /\ pc[0] \notin {"unlock", "waitfull"} => nfull = 0 /\ full = 0
           /\ flag[0] # "FULL" => nfull = 0 /\ full = 0
  <1> DEFINE S == Asleep("FULL", "waitfull")
  <1>1. S \subseteq {0}
    BY Roles DEF Types, Places, ConsumerAt, Asleep
  <1>2. pc[0] \notin {"unlock", "waitfull"} \/ flag[0] # "FULL" => S = {}
    BY <1>1 DEF Asleep
  <1>3. Cardinality(S) = nfull + full /\ nfull \in Nat /\ full \in Nat
    BY DEF WakeUps, Types
  <1>4. S = {} \/ S = {0}
    BY <1>1
  <1>5. S = {} => Cardinality(S) = 0
    BY FS_EmptySet
  <1>6. S = {0} => Cardinality(S) = 1
    BY FS_Singleton
  <1> HIDE DEF S
  <1> QED BY <1>2, <1>3, <1>4, <1>5, <1>6


\* Every step keeps the places, the lock and the wake-ups.
LEMMA SleepNext ==
    ASSUME Types, Places, Locked, WakeUps, [Next]_vars
    PROVE  Places' /\ Locked' /\ WakeUps'
  <1> USE DEF One, SectionLabels, ProducerLabels, ConsumerLabels
  <1> DEFINE Good == Places' /\ Locked' /\ WakeUps'
  <1>0. Types'
    BY TypesNext
  <1>1. /\ lock \in Nat /\ nempty \in Nat /\ empty \in Nat /\ nfull \in Nat /\ full \in Nat
        /\ ver \in {1, 2} /\ Cpu = Producer \cup Consumer
        /\ Producer \cap Consumer = {} /\ (ver = 1 => Producer = {0})
    BY Roles DEF Types, Consumer
  <1>2. \A p \in Cpu : UNCHANGED flag => Flag(p, flag[p])
    BY KeepsFlag
  <1>3. CASE UNCHANGED vars
    <2>1. /\ pc' = pc /\ flag' = flag /\ ver' = ver /\ lock' = lock /\ nempty' = nempty
          /\ nfull' = nfull /\ full' = full /\ empty' = empty
      BY <1>3 DEF vars, wakers
    <2> QED BY <2>1 DEF Places, Locked, WakeUps, ProducerAt, ConsumerAt, InSection,
                        Asleep, Producer, Consumer
  <1>4. ASSUME NEW p \in Cpu, ProducerLocks(p) PROVE Good
    <2>1. pc[p] = "produce" /\ Goto(p, More(p)) /\ Flag(p, flag[p]) /\ ver' = ver
      BY <1>2, <1>4 DEF ProducerLocks
    <2>2. p \in Producer /\ flag[p] \in {"SUCCESS", "FULL"}
      BY <1>1, <2>1 DEF Places, ProducerAt, ConsumerAt
    <2>3. /\ lock' = lock - 1 /\ nempty' + empty' = nempty + empty
          /\ nfull' + full' = nfull + full
      BY <1>1, <1>4 DEF ProducerLocks, wakers
    <2>4. More(p) \in {"put", "end"}
      BY DEF More
    <2>5. ProducerAt(More(p), flag[p])
      BY <1>0, <1>1, <2>1, <2>2, <2>3, <2>4 DEF ProducerAt
    <2> QED BY <1>0, <1>1, <2>1, <2>2, <2>3, <2>4, <2>5, Move
  <1>5. ASSUME NEW p \in Cpu, Put(p) PROVE Good
    <2>1. pc[p] = "put" /\ Goto(p, "unlock") /\ Flag(p, "SUCCESS") /\ ver' = ver
      BY <1>5 DEF Put
    <2>2. p \in Producer /\ flag[p] \in {"SUCCESS", "FULL"}
      BY <1>1, <2>1 DEF Places, ProducerAt, ConsumerAt
    <2>3. /\ lock' = lock /\ nempty' + empty' = nempty + empty
          /\ nfull' + full' = nfull + full
      BY <1>1, <1>5 DEF Put, Wake, wakers
    <2>5. ProducerAt("unlock", "SUCCESS")
      BY <1>0, <1>1, <2>1, <2>2, <2>3 DEF ProducerAt
    <2> QED BY <1>0, <1>1, <2>1, <2>2, <2>3, <2>5, Move
  <1>6. ASSUME NEW p \in Cpu, PutFull(p) PROVE Good
    <2>1. pc[p] = "put" /\ Goto(p, "unlock") /\ Flag(p, "FULL") /\ ver' = ver
      BY <1>6 DEF PutFull
    <2>2. p \in Producer /\ flag[p] \in {"SUCCESS", "FULL"}
      BY <1>1, <2>1 DEF Places, ProducerAt, ConsumerAt
    <2>4. ver = 1 => nfull = 0 /\ full = 0
      <3>1. ver = 1 => p = 0
        BY <1>1, <2>2
      <3> QED BY <2>1, <3>1, OneSleeper
    <2>3. /\ lock' = lock /\ nempty' + empty' = nempty + empty
          /\ nfull' + full' = nfull + full + 1
      BY <1>1, <2>4, <1>6 DEF PutFull
    <2>5. ProducerAt("unlock", "FULL")
      BY <1>0, <1>1, <2>1, <2>2, <2>3 DEF ProducerAt
    <2> QED BY <1>0, <1>1, <2>1, <2>2, <2>3, <2>5, Move
  <1>7. ASSUME NEW p \in Cpu, Relock(p) PROVE Good
    <2>1. pc[p] = "relock" /\ Goto(p, "store") /\ Flag(p, flag[p]) /\ ver' = ver
      BY <1>2, <1>7 DEF Relock
    <2>2. p \in Producer /\ flag[p] \in {"SUCCESS", "FULL"}
      BY <1>1, <2>1 DEF Places, ProducerAt, ConsumerAt
    <2>3. /\ lock' = lock - 1 /\ nempty' + empty' = nempty + empty
          /\ nfull' + full' = nfull + full
      BY <1>1, <1>7 DEF Relock, wakers
    <2>4. ver = 1
      BY <2>1, <2>2 DEF Places, ProducerAt
    <2>5. ProducerAt("store", flag[p])
      BY <1>0, <1>1, <2>1, <2>2, <2>3, <2>4 DEF ProducerAt
    <2> QED BY <1>0, <1>1, <2>1, <2>2, <2>3, <2>4, <2>5, Move
  <1>8. ASSUME NEW p \in Cpu, Store(p) PROVE Good
    <2>1. pc[p] = "store" /\ Goto(p, "stored") /\ Flag(p, flag[p]) /\ ver' = ver
      BY <1>2, <1>8 DEF Store
    <2>2. p \in Producer /\ flag[p] \in {"SUCCESS", "FULL"}
      BY <1>1, <2>1 DEF Places, ProducerAt, ConsumerAt
    <2>3. /\ lock' = lock /\ nempty' + empty' = nempty + empty
          /\ nfull' + full' = nfull + full
      BY <1>1, <1>8 DEF Store, wakers
    <2>4. ver = 1
      BY <2>1, <2>2 DEF Places, ProducerAt
    <2>5. ProducerAt("stored", flag[p])
      BY <1>0, <1>1, <2>1, <2>2, <2>3, <2>4 DEF ProducerAt
    <2> QED BY <1>0, <1>1, <2>1, <2>2, <2>3, <2>4, <2>5, Move
  <1>9. ASSUME NEW p \in Cpu, StoreUnlocks(p) PROVE Good
    <2>1. pc[p] = "stored" /\ Goto(p, "produce") /\ Flag(p, flag[p]) /\ ver' = ver
      BY <1>2, <1>9 DEF StoreUnlocks
    <2>2. p \in Producer /\ flag[p] \in {"SUCCESS", "FULL"}
      BY <1>1, <2>1 DEF Places, ProducerAt, ConsumerAt
    <2>3. /\ lock' = lock + 1 /\ nempty' + empty' = nempty + empty
          /\ nfull' + full' = nfull + full
      BY <1>1, <1>9 DEF StoreUnlocks, wakers
    <2>4. ver = 1
      BY <2>1, <2>2 DEF Places, ProducerAt
    <2>5. ProducerAt("produce", flag[p])
      BY <1>0, <1>1, <2>1, <2>2, <2>3, <2>4 DEF ProducerAt
    <2> QED BY <1>0, <1>1, <2>1, <2>2, <2>3, <2>4, <2>5, Move
  <1>10. ASSUME NEW p \in Cpu, EndProducing(p) PROVE Good
    <2>1. pc[p] = "end" /\ Goto(p, "drain") /\ Flag(p, flag[p]) /\ ver' = ver
      BY <1>2, <1>10 DEF EndProducing
    <2>2. p \in Producer /\ flag[p] \in {"SUCCESS", "FULL"}
      BY <1>1, <2>1 DEF Places, ProducerAt, ConsumerAt
    <2>3. /\ lock' = lock /\ nempty' + empty' = nempty + empty
          /\ nfull' + full' = nfull + full
      BY <1>1, <1>10 DEF EndProducing, wakers
    <2>5. ProducerAt("drain", flag[p])
      BY <1>0, <1>1, <2>1, <2>2, <2>3 DEF ProducerAt
    <2> QED BY <1>0, <1>1, <2>1, <2>2, <2>3, <2>5, Move
  <1>11. ASSUME NEW p \in Cpu, Drained(p) PROVE Good
    <2>1. pc[p] = "drain" /\ Goto(p, "done") /\ Flag(p, flag[p]) /\ ver' = ver
      BY <1>2, <1>11 DEF Drained
    <2>2. p \in Producer /\ flag[p] \in {"SUCCESS", "FULL"}
      BY <1>1, <2>1 DEF Places, ProducerAt, ConsumerAt
    <2>3. /\ lock' = lock + 1 /\ nempty' + empty' = nempty + empty
          /\ nfull' + full' = nfull + full
      BY <1>1, <1>11 DEF Drained, wakers
    <2>5. ProducerAt("done", flag[p])
      BY <1>0, <1>1, <2>1, <2>2, <2>3 DEF ProducerAt
    <2> QED BY <1>0, <1>1, <2>1, <2>2, <2>3, <2>5, Move
  <1>12. ASSUME NEW p \in Cpu, ConsumerLocks(p) PROVE Good
    <2>1. pc[p] = "consume" /\ Goto(p, "get") /\ Flag(p, flag[p]) /\ ver' = ver
      BY <1>2, <1>12 DEF ConsumerLocks
    <2>2. p \in Consumer /\ flag[p] \in {"SUCCESS", "EMPTY", "END"}
      BY <1>1, <2>1 DEF Places, ProducerAt, ConsumerAt
    <2>3. /\ lock' = lock - 1 /\ nempty' + empty' = nempty + empty
          /\ nfull' + full' = nfull + full
      BY <1>1, <1>12 DEF ConsumerLocks, wakers
    <2>5. ConsumerAt("get", flag[p])
      BY <1>0, <1>1, <2>1, <2>2, <2>3 DEF ConsumerAt
    <2> QED BY <1>0, <1>1, <2>1, <2>2, <2>3, <2>5, Move
  <1>13. ASSUME NEW p \in Cpu, Get(p) PROVE Good
    <2>1. pc[p] = "get" /\ Goto(p, "unlock") /\ Flag(p, "SUCCESS") /\ ver' = ver
      BY <1>13 DEF Get
    <2>2. p \in Consumer /\ flag[p] \in {"SUCCESS", "EMPTY", "END"}
      BY <1>1, <2>1 DEF Places, ProducerAt, ConsumerAt
    <2>3. /\ lock' = lock /\ nempty' + empty' = nempty + empty
          /\ nfull' + full' = nfull + full
      BY <1>1, <2>1, OneSleeper, <1>13 DEF Get, WakeProducer, wakers
    <2>5. ConsumerAt("unlock", "SUCCESS")
      BY <1>0, <1>1, <2>1, <2>2, <2>3 DEF ConsumerAt
    <2> QED BY <1>0, <1>1, <2>1, <2>2, <2>3, <2>5, Move
  <1>14. ASSUME NEW p \in Cpu, GetEnd(p) PROVE Good
    <2>1. pc[p] = "get" /\ Goto(p, "unlock") /\ Flag(p, "END") /\ ver' = ver
      BY <1>14 DEF GetEnd
    <2>2. p \in Consumer /\ flag[p] \in {"SUCCESS", "EMPTY", "END"}
      BY <1>1, <2>1 DEF Places, ProducerAt, ConsumerAt
    <2>3. /\ lock' = lock /\ nempty' + empty' = nempty + empty
          /\ nfull' + full' = nfull + full
      BY <1>1, <1>14 DEF GetEnd, wakers
    <2>5. ConsumerAt("unlock", "END")
      BY <1>0, <1>1, <2>1, <2>2, <2>3 DEF ConsumerAt
    <2> QED BY <1>0, <1>1, <2>1, <2>2, <2>3, <2>5, Move
  <1>15. ASSUME NEW p \in Cpu, GetEmpty(p) PROVE Good
    <2>1. pc[p] = "get" /\ Goto(p, "unlock") /\ Flag(p, "EMPTY") /\ ver' = ver
      BY <1>15 DEF GetEmpty
    <2>2. p \in Consumer /\ flag[p] \in {"SUCCESS", "EMPTY", "END"}
      BY <1>1, <2>1 DEF Places, ProducerAt, ConsumerAt
    <2>3. /\ lock' = lock /\ nempty' + empty' = nempty + empty + 1
          /\ nfull' + full' = nfull + full
      BY <1>1, <1>15 DEF GetEmpty
    <2>5. ConsumerAt("unlock", "EMPTY")
      BY <1>0, <1>1, <2>1, <2>2, <2>3 DEF ConsumerAt
    <2> QED BY <1>0, <1>1, <2>1, <2>2, <2>3, <2>5, Move
  <1>16. ASSUME NEW p \in Cpu, WaitEmpty(p) PROVE Good
    <2>1. pc[p] = "waitempty" /\ Goto(p, "consume") /\ Flag(p, flag[p]) /\ ver' = ver
      BY <1>2, <1>16 DEF WaitEmpty
    <2>2. p \in Consumer /\ flag[p] \in {"SUCCESS", "EMPTY", "END"}
      BY <1>1, <2>1 DEF Places, ProducerAt, ConsumerAt
    <2>3. /\ lock' = lock /\ nempty' + empty' = nempty + empty - 1
          /\ nfull' + full' = nfull + full
      BY <1>1, <1>16 DEF WaitEmpty
    <2>4. flag[p] = "EMPTY"
      BY <2>1, <2>2 DEF Places, ConsumerAt
    <2>5. ConsumerAt("consume", flag[p])
      BY <1>0, <1>1, <2>1, <2>2, <2>3, <2>4 DEF ConsumerAt
    <2> QED BY <1>0, <1>1, <2>1, <2>2, <2>3, <2>4, <2>5, Move
  <1>17. ASSUME NEW p \in Cpu, ProducerUnlocks(p) PROVE Good
    <2>1. /\ p \in Producer /\ pc[p] = "unlock" /\ Flag(p, flag[p]) /\ ver' = ver
          /\ \/ flag[p] = "FULL" /\ Goto(p, "waitfull")
             \/ flag[p] = "SUCCESS" /\ Goto(p, "produce")
      BY <1>2, <1>17 DEF ProducerUnlocks
    <2>2. /\ lock' = lock + 1 /\ nempty' + empty' = nempty + empty
          /\ nfull' + full' = nfull + full
      BY <1>17 DEF ProducerUnlocks, wakers
    <2>3. CASE flag[p] = "FULL" /\ Goto(p, "waitfull")
      BY <1>0, <1>1, <2>1, <2>2, <2>3, Move DEF ProducerAt
    <2>4. CASE flag[p] = "SUCCESS" /\ Goto(p, "produce")
      <3>1. ProducerAt("produce", flag[p])
        BY <2>4 DEF ProducerAt
      <3> QED BY <1>0, <1>1, <2>1, <2>2, <2>4, <3>1, Move
    <2> QED BY <2>1, <2>3, <2>4
  <1>18. ASSUME NEW p \in Cpu, WaitFull(p) PROVE Good
    <2>1. /\ pc[p] = "waitfull" /\ Flag(p, flag[p]) /\ ver' = ver
          /\ \/ ver = 1 /\ Goto(p, "relock")
             \/ ver = 2 /\ Goto(p, "produce")
      BY <1>2, <1>18 DEF WaitFull
    <2>2. p \in Producer /\ flag[p] = "FULL"
      BY <1>1, <2>1 DEF Places, ProducerAt, ConsumerAt
    <2>3. /\ lock' = lock /\ nempty' + empty' = nempty + empty
          /\ nfull' + full' = nfull + full - 1
      BY <1>1, <1>18 DEF WaitFull
    <2>4. CASE ver = 1 /\ Goto(p, "relock")
      BY <1>0, <1>1, <2>1, <2>2, <2>3, <2>4, Move DEF ProducerAt
    <2>5. CASE ver = 2 /\ Goto(p, "produce")
      BY <1>0, <1>1, <2>1, <2>2, <2>3, <2>5, Move DEF ProducerAt
    <2> QED BY <2>1, <2>4, <2>5
  <1>19. ASSUME NEW p \in Cpu, Drain(p) PROVE Good
    <2>1. /\ pc[p] = "drain" /\ Goto(p, "drain") /\ Flag(p, flag[p]) /\ ver' = ver
      BY <1>2, <1>19 DEF Drain, Goto, Types
    <2>2. p \in Producer /\ flag[p] \in {"SUCCESS", "FULL"}
      BY <1>1, <2>1 DEF Places, ProducerAt, ConsumerAt
    <2>3. /\ lock' = lock /\ nempty' + empty' = nempty + empty
          /\ nfull' + full' = nfull + full
      BY <1>1, <1>19 DEF Drain, Wake
    <2> QED BY <1>0, <1>1, <2>1, <2>2, <2>3, Move DEF ProducerAt
  <1>20. ASSUME NEW p \in Cpu, ConsumerUnlocks(p) PROVE Good
    <2> DEFINE l == CASE flag[p] = "SUCCESS" -> "consume"
                      [] flag[p] = "EMPTY" -> "waitempty"
                      [] flag[p] = "END" -> "done"
    <2>1. /\ p \in Consumer /\ pc[p] = "unlock" /\ Flag(p, flag[p]) /\ ver' = ver
          /\ Goto(p, l)
      BY <1>2, <1>20 DEF ConsumerUnlocks
    <2>2. flag[p] \in {"SUCCESS", "EMPTY", "END"}
      BY <2>1 DEF Places, ConsumerAt
    <2>3. /\ lock' = lock + 1 /\ nempty' + empty' = nempty + empty
          /\ nfull' + full' = nfull + full
      BY <1>20 DEF ConsumerUnlocks, wakers
    <2>4. \/ flag[p] = "SUCCESS" /\ l = "consume"
          \/ flag[p] = "EMPTY" /\ l = "waitempty"
          \/ flag[p] = "END" /\ l = "done"
      BY <2>2
    <2> HIDE DEF l
    <2> QED BY <1>0, <1>1, <2>1, <2>2, <2>3, <2>4, Move DEF ConsumerAt
    <1> QED BY <1>3, <1>4, <1>5, <1>6, <1>7, <1>8, <1>9, <1>10, <1>11, <1>12,
             <1>13, <1>14, <1>15, <1>16, <1>17, <1>18, <1>19, <1>20 DEF Next,
             Spins, Returned


\* The buffer is empty, everyone is at the top of the loop.
LEMMA SleepInit == Init => Types /\ Places /\ Locked /\ WakeUps
  <1> SUFFICES ASSUME Init PROVE Types /\ Places /\ Locked /\ WakeUps
    OBVIOUS
  <1>1. Types
    <2>1. MAXELEM \in Nat \ {0} /\ 0 \in Slots /\ NCPU \in Nat
      BY ProdConsAssumption DEF Slots
    <2>2. \A p \in Cpu : p % 2 \in Nat
      BY <2>1 DEF Cpu
    <2>3. val \in [Cpu -> Nat]
      BY <2>2 DEF Init
    <2> QED BY <2>1, <2>3 DEF Init, Types, Slots, ProducerLabels, ConsumerLabels
  <1>2. Places
    BY Roles, <1>1 DEF Init, Types, Places, ProducerAt, ConsumerAt, Consumer,
                       ProducerLabels, ConsumerLabels
  <1>3. \A p \in Cpu : pc[p] \in {"produce", "consume"}
    BY DEF Init
  <1>4. {p \in Cpu : InSection(p)} = {}
    BY <1>3 DEF InSection
  <1>5. Asleep("EMPTY", "waitempty") = {} /\ Asleep("FULL", "waitfull") = {}
    BY <1>3 DEF Asleep
  <1>6. /\ Cardinality({p \in Cpu : InSection(p)}) = 0
        /\ Cardinality(Asleep("EMPTY", "waitempty")) = 0
        /\ Cardinality(Asleep("FULL", "waitfull")) = 0
    BY <1>4, <1>5, FS_EmptySet
  <1>7. lock = 1 /\ nempty = 0 /\ nfull = 0 /\ full = 0 /\ empty = 0
    BY DEF Init
  <1> QED BY <1>1, <1>2, <1>6, <1>7 DEF Locked, WakeUps

\* Only one processor at a time is between Sem_P(&lock) and Sem_V(&lock) of
\* producer-consumer.c and producer-consumerv2.c, however many there are.
THEOREM SectionsExclude == Spec => []Locked
  <1> DEFINE I == Types /\ Places /\ Locked /\ WakeUps
  <1>1. Init => I
    BY SleepInit
  <1>2. I /\ [Next]_vars => I'
    BY TypesNext, SleepNext
  <1>3. I => Locked
    OBVIOUS
  <1> QED BY <1>1, <1>2, <1>3, PTL DEF Spec

\* Every processor that finds the buffer full or empty is counted in nfull or
\* nempty, or its Sem_V has been done: no wake-up is lost or given twice.
THEOREM NoLostWakeUp == Spec => []WakeUps
  <1> DEFINE I == Types /\ Places /\ Locked /\ WakeUps
  <1>1. Init => I
    BY SleepInit
  <1>2. I /\ [Next]_vars => I'
    BY TypesNext, SleepNext
  <1>3. I => WakeUps
    OBVIOUS
  <1> QED BY <1>1, <1>2, <1>3, PTL DEF Spec

-----------------------------------------------------------------------------
(* The buffer. *)

\* tl is ct slots after hd.
TailAt == tl = (hd + ct) % MAXELEM

\* enqueue, where there is room, appends to the queue.
LEMMA Enqueues ==
    ASSUME Types, Fifo, TailAt, NEW item \in Nat, ct < MAXELEM, enqueue(item)
    PROVE  Fifo' /\ TailAt'
  <1> DEFINE n == Len(got)
             m == Len(put)
             At(x) == x % MAXELEM
  <1>1. /\ MAXELEM \in Nat \ {0} /\ hd \in 0 .. MAXELEM - 1 /\ ct \in 0 .. MAXELEM - 1
        /\ n \in Nat /\ m = n + ct /\ put \in Seq(Nat)
    BY ProdConsAssumption DEF Types, Fifo, Slots
  <1>2. /\ hd' = hd /\ ct' = ct + 1 /\ got' = got /\ put' = Append(put, item)
        /\ tl' = At(tl + 1) /\ buf' = [buf EXCEPT ![tl] = item]
    BY DEF enqueue
  <1>3. \A x \in 0 .. 2 * MAXELEM - 1 :
          At(x) = IF x < MAXELEM THEN x ELSE x - MAXELEM
    BY Mask
  <1>4. tl = At(hd + ct)
    BY DEF TailAt
  <1> HIDE DEF At
  <1>5. tl' = At(hd' + ct')
    <2> DEFINE x == hd + ct
               y == hd + ct + 1
               z == tl + 1
    <2>1. /\ x \in 0 .. 2 * MAXELEM - 1 /\ y \in 0 .. 2 * MAXELEM - 1
          /\ z \in 0 .. 2 * MAXELEM - 1 /\ y = x + 1 /\ z = tl + 1
      BY <1>1 DEF Types, Slots
    <2>2. tl = At(x) /\ tl' = At(z) /\ hd' + ct' = y
      BY <1>1, <1>2, <1>4
    <2> HIDE DEF x, y, z
    <2>3. /\ At(x) = IF x < MAXELEM THEN x ELSE x - MAXELEM
          /\ At(y) = IF y < MAXELEM THEN y ELSE y - MAXELEM
          /\ At(z) = IF z < MAXELEM THEN z ELSE z - MAXELEM
      BY <1>3, <2>1
    <2> QED BY <1>1, <2>1, <2>2, <2>3
  <1>6. Len(put') = m + 1 /\ Len(put') = Len(got') + ct' /\ ct' \in 0 .. MAXELEM
    <2>1. Len(put') = m + 1
      BY <1>1, <1>2
    <2> HIDE DEF m, n
    <2>2. Len(got') = n /\ ct' = ct + 1
      BY <1>2 DEF n
    <2> QED BY <1>1, <2>1, <2>2
  <1>7. ASSUME NEW k \in 1 .. m + 1
        PROVE  put'[k] = IF k <= n THEN got'[k] ELSE buf'[At(hd + k - n - 1)]
    <2>1. CASE k <= m
      <3>1. put'[k] = put[k]
        BY <1>1, <1>2, <2>1
      <3>2. put[k] = IF k <= n THEN got[k] ELSE buf[At(hd + k - n - 1)]
        BY <1>1, <2>1 DEF Fifo, At
      <3>3. ASSUME k > n PROVE buf'[At(hd + k - n - 1)] = buf[At(hd + k - n - 1)]
        <4>1. hd + k - n - 1 \in 0 .. 2 * MAXELEM - 1 /\ hd + ct \in 0 .. 2 * MAXELEM - 1
          BY <1>1, <2>1, <3>3
        <4>2. At(hd + k - n - 1) # tl
          <5> DEFINE x == hd + k - n - 1
                     y == hd + ct
          <5>1. x < y /\ y - x < MAXELEM
            BY <1>1, <2>1, <3>3
          <5> HIDE DEF x, y
          <5>2. x \in 0 .. 2 * MAXELEM - 1 /\ y \in 0 .. 2 * MAXELEM - 1
            BY <4>1 DEF x, y
          <5>3. /\ At(x) = IF x < MAXELEM THEN x ELSE x - MAXELEM
                /\ At(y) = IF y < MAXELEM THEN y ELSE y - MAXELEM
            BY <1>3, <5>2
          <5>4. At(x) # At(y)
            BY <1>1, <5>1, <5>2, <5>3
          <5> QED BY <1>4, <5>4 DEF x, y
        <4>3. At(hd + k - n - 1) \in Slots
          BY <1>1, <1>3, <4>1 DEF Slots
        <4> QED BY <1>2, <4>2, <4>3 DEF Types
      <3> QED BY <1>1, <1>2, <3>1, <3>2, <3>3
    <2>2. CASE k = m + 1
      <3>1. put'[k] = item
        BY <1>1, <1>2, <2>2
      <3>2. hd + k - n - 1 = hd + ct /\ ~(k <= n)
        BY <1>1, <2>2
      <3>3. buf'[tl] = item
        BY <1>2 DEF Types
      <3> QED BY <1>4, <3>1, <3>2, <3>3
    <2> QED BY <1>1, <2>1, <2>2
  <1>8. TailAt'
    BY <1>5 DEF TailAt, At
  <1>9. Fifo'
    BY <1>2, <1>6, <1>7 DEF Fifo, At
  <1> QED BY <1>8, <1>9

\* dequeue, where there is something, takes the first of the queue.
LEMMA Dequeues ==
    ASSUME Types, Fifo, TailAt, ct > 0, dequeue
    PROVE  Fifo' /\ TailAt'
  <1> DEFINE n == Len(got)
             m == Len(put)
             At(x) == x % MAXELEM
  <1>1. /\ MAXELEM \in Nat \ {0} /\ hd \in 0 .. MAXELEM - 1 /\ ct \in 1 .. MAXELEM
        /\ n \in Nat /\ m = n + ct /\ put \in Seq(Nat) /\ got \in Seq(Nat)
        /\ buf[hd] \in Nat
    BY ProdConsAssumption DEF Types, Fifo, Slots
  <1>2. /\ hd' = At(hd + 1) /\ ct' = ct - 1 /\ got' = Append(got, buf[hd])
        /\ put' = put /\ buf' = buf /\ tl' = tl
    BY DEF dequeue
  <1>3. \A x \in 0 .. 2 * MAXELEM - 1 :
          At(x) = IF x < MAXELEM THEN x ELSE x - MAXELEM
    BY Mask
  <1>4. tl = At(hd + ct)
    BY DEF TailAt
  <1>5. \A k \in 1 .. m : put[k] = IF k <= n THEN got[k] ELSE buf[At(hd + k - n - 1)]
    BY DEF Fifo
  <1> HIDE DEF At
  <1>6. hd' = (IF hd + 1 < MAXELEM THEN hd + 1 ELSE 0) /\ hd' \in 0 .. MAXELEM - 1
    <2>1. hd + 1 \in 0 .. 2 * MAXELEM - 1
      BY <1>1
    <2> QED BY <1>1, <1>2, <1>3, <2>1
  <1>7. \A j \in 0 .. MAXELEM - 1 : At(hd' + j) = At(hd + 1 + j)
    <2> SUFFICES ASSUME NEW j \in 0 .. MAXELEM - 1 PROVE At(hd' + j) = At(hd + 1 + j)
      OBVIOUS
    <2> DEFINE x == hd' + j
               y == hd + 1 + j
    <2>1. x \in 0 .. 2 * MAXELEM - 1 /\ y \in 0 .. 2 * MAXELEM - 1
      BY <1>1, <1>6
    <2>2. x = y \/ (x = y - MAXELEM /\ x < MAXELEM)
      BY <1>1, <1>6
    <2> HIDE DEF x, y
    <2>3. /\ At(x) = IF x < MAXELEM THEN x ELSE x - MAXELEM
          /\ At(y) = IF y < MAXELEM THEN y ELSE y - MAXELEM
      BY <1>3, <2>1
    <2>4. At(x) = At(y)
      BY <1>1, <2>1, <2>2, <2>3
    <2> QED BY <2>4 DEF x, y
  <1>8. tl' = At(hd' + ct')
    <2>1. ct' \in 0 .. MAXELEM - 1 /\ hd + 1 + ct' = hd + ct
      BY <1>1, <1>2
    <2> QED BY <1>2, <1>4, <1>7, <2>1
  <1>9. Len(got') = n + 1 /\ Len(put') = Len(got') + ct' /\ ct' \in 0 .. MAXELEM
    <2>1. Len(got') = n + 1
      BY <1>1, <1>2
    <2> HIDE DEF m, n
    <2>2. Len(put') = m /\ ct' = ct - 1
      BY <1>2 DEF m
    <2> QED BY <1>1, <2>1, <2>2
  <1>10. ASSUME NEW k \in 1 .. m
         PROVE  put'[k] = IF k <= n + 1 THEN got'[k] ELSE buf'[At(hd' + k - (n + 1) - 1)]
    <2>1. CASE k <= n
      BY <1>1, <1>2, <1>5, <2>1
    <2>2. CASE k = n + 1
      <3>1. At(hd + k - n - 1) = hd
        <4>1. hd + k - n - 1 = hd
          BY <1>1, <2>2
        <4>2. hd \in 0 .. 2 * MAXELEM - 1 /\ hd < MAXELEM
          BY <1>1
        <4>3. At(hd) = hd
          BY <1>3, <4>2
        <4> QED BY <4>1, <4>3
      <3>2. got'[k] = buf[hd] /\ ~(k <= n) /\ k <= n + 1
        BY <1>1, <1>2, <2>2
      <3>3. put[k] = buf[hd]
        BY <1>5, <3>1, <3>2
      <3> QED BY <1>2, <3>2, <3>3
    <2>3. CASE k > n + 1
      <3>1. k - n - 2 \in 0 .. MAXELEM - 1
        BY <1>1, <2>3
      <3>2. At(hd' + (k - n - 2)) = At(hd + 1 + (k - n - 2))
        BY <1>7, <3>1
      <3>3. /\ hd' + (k - n - 2) = hd' + k - (n + 1) - 1
            /\ hd + 1 + (k - n - 2) = hd + k - n - 1 /\ ~(k <= n) /\ ~(k <= n + 1)
        BY <1>1, <1>6, <2>3
      <3>4. put[k] = buf[At(hd + k - n - 1)]
        BY <1>5, <3>3
      <3>5. At(hd' + k - (n + 1) - 1) = At(hd + k - n - 1)
        BY <3>2, <3>3
      <3> QED BY <1>2, <3>3, <3>4, <3>5
    <2> QED BY <1>1, <2>1, <2>2, <2>3
  <1>11. TailAt'
    BY <1>8 DEF TailAt, At
  <1>12. Fifo'
    BY <1>2, <1>9, <1>10 DEF Fifo, At
  <1> QED BY <1>11, <1>12


\* Version 1 enqueues without looking at ct once Sem_P(&full) has let it pass.
\* Nobody else enqueues, so the room that the consumer made is still there.
Room == ver = 1 /\ (full > 0 \/ pc[0] \in {"relock", "store"}) => ct < MAXELEM

\* A step that leaves the buffer alone.
LEMMA BufferKept ==
    ASSUME Fifo, TailAt, Room, UNCHANGED <<ver, buffer>>,
           ver = 1 /\ (full' > 0 \/ pc'[0] \in {"relock", "store"})
             => full > 0 \/ pc[0] \in {"relock", "store"}
    PROVE  Fifo' /\ TailAt' /\ Room'
  BY DEF Fifo, TailAt, Room, buffer

\* Every step keeps the buffer a queue.
LEMMA BufferNext ==
    ASSUME Types, Places, WakeUps, Fifo, TailAt, Room, [Next]_vars
    PROVE  Fifo' /\ TailAt' /\ Room'
  <1> DEFINE Good == Fifo' /\ TailAt' /\ Room'
  <1>0. /\ Cpu = Producer \cup Consumer /\ Producer \cap Consumer = {}
        /\ ver = 1 => Producer = {0}
        /\ full \in Nat /\ nfull \in Nat /\ ct \in Int /\ MAXELEM \in Nat
    BY Roles, ProdConsAssumption DEF Types, Consumer
  <1>1. ver = 1 => 0 \in Cpu
    BY <1>0
  <1>2. CASE UNCHANGED vars
    BY <1>2, BufferKept DEF vars, wakers
  <1>3. ASSUME NEW p \in Cpu, Put(p) PROVE Good
    <2>1. Fifo' /\ TailAt'
      BY <1>3, Enqueues DEF Put, Types
    <2>2. p \in Producer
      BY <1>0, <1>3 DEF Put, Places, ConsumerAt, ConsumerLabels
    <2>3. Room'
      <3> SUFFICES ASSUME ver = 1 PROVE full' = 0 /\ pc'[0] = "unlock"
        BY <1>3 DEF Put, Room
      <3>1. p = 0 /\ pc[0] = "put"
        BY <1>0, <1>3, <2>2 DEF Put
      <3>2. full = 0
        BY <3>1, OneSleeper
      <3> QED BY <1>3, <3>1, <3>2 DEF Put, Wake, wakers, Goto, Types
    <2> QED BY <2>1, <2>3
  <1>4. ASSUME NEW p \in Cpu, Store(p) PROVE Good
    <2>1. p \in Producer /\ ver = 1
      BY <1>0, <1>4 DEF Store, Places, ProducerAt, ConsumerAt, ConsumerLabels
    <2>2. p = 0 /\ pc[0] = "store"
      BY <1>0, <1>4, <2>1 DEF Store
    <2>3. ct < MAXELEM
      BY <2>1, <2>2 DEF Room
    <2>4. Fifo' /\ TailAt'
      BY <1>4, <2>3, Enqueues DEF Store, Types
    <2>5. full = 0
      BY <2>1, <2>2, OneSleeper
    <2>6. full' = 0 /\ pc'[0] = "stored"
      BY <1>4, <2>2, <2>5 DEF Store, Goto, Types, wakers
    <2> QED BY <2>4, <2>6 DEF Room
  <1>5. ASSUME NEW p \in Cpu, Get(p) PROVE Good
    <2>1. Fifo' /\ TailAt'
      BY <1>5, Dequeues DEF Get
    <2>2. ct' < MAXELEM
      BY <1>0, <1>5 DEF Get, dequeue, Fifo
    <2> QED BY <2>1, <2>2 DEF Room
  <1>6. ASSUME NEW p \in Cpu, WaitFull(p) PROVE Good
    BY <1>0, <1>6, BufferKept DEF WaitFull
  <1>7. ASSUME NEW p \in Cpu, Relock(p) PROVE Good
    <2>1. pc'[0] \in {"relock", "store"} /\ ver = 1 => pc[0] \in {"relock", "store"}
      BY <1>1, <1>7 DEF Relock, Goto, Types
    <2> QED BY <1>7, <2>1, BufferKept DEF Relock, wakers
  <1>8. ASSUME NEW p \in Cpu, NEW l, Goto(p, l), l \notin {"relock", "store"},
               full' = full, UNCHANGED <<ver, buffer>>
        PROVE  Good
    <2>1. pc'[0] \in {"relock", "store"} /\ ver = 1 => pc[0] \in {"relock", "store"}
      BY <1>1, <1>8 DEF Goto, Types
    <2> QED BY <1>8, <2>1, BufferKept
  <1>9. ASSUME NEW p \in Cpu,
               \/ ProducerLocks(p) \/ PutFull(p) \/ ProducerUnlocks(p)
               \/ StoreUnlocks(p) \/ EndProducing(p) \/ Drained(p)
        PROVE  Good
    <2>1. /\ \E l \in {"put", "end", "unlock", "waitfull", "produce", "drain", "done"} :
               Goto(p, l)
          /\ full' = full /\ UNCHANGED <<ver, buffer>>
      <3> HIDE DEF Good
      <3> QED BY <1>9 DEF ProducerLocks, More, PutFull, ProducerUnlocks, StoreUnlocks,
                          EndProducing, Drained, wakers
    <2> QED BY <1>8, <2>1
  <1>10. ASSUME NEW p \in Cpu, Drain(p) PROVE Good
    BY <1>10, BufferKept DEF Drain, Wake
  <1>11. ASSUME NEW p \in Cpu,
                ConsumerLocks(p) \/ GetEnd(p) \/ GetEmpty(p) \/ WaitEmpty(p)
         PROVE  Good
    <2>1. /\ \E l \in {"get", "unlock", "consume"} : Goto(p, l)
          /\ full' = full /\ UNCHANGED <<ver, buffer>>
      BY <1>11 DEF ConsumerLocks, GetEnd, GetEmpty, WaitEmpty, wakers
    <2> QED BY <1>8, <2>1
  <1>12. ASSUME NEW p \in Cpu, ConsumerUnlocks(p) PROVE Good
    <2>1. flag[p] \in {"SUCCESS", "EMPTY", "END"}
      BY <1>12 DEF ConsumerUnlocks, Places, ConsumerAt
    <2>2. /\ \E l \in {"consume", "waitempty", "done"} : Goto(p, l)
          /\ full' = full /\ UNCHANGED <<ver, buffer>>
      BY <1>12, <2>1 DEF ConsumerUnlocks, wakers
    <2> QED BY <1>8, <2>2
  <1> QED BY <1>2, <1>3, <1>4, <1>5, <1>6, <1>7, <1>9, <1>10, <1>11, <1>12
          DEF Next, Spins, Returned

\* The empty buffer is an empty queue.
LEMMA BufferInit == Init => Fifo /\ TailAt /\ Room
  <1> SUFFICES ASSUME Init PROVE Fifo /\ TailAt /\ Room
    OBVIOUS
  <1>1. /\ MAXELEM \in Nat \ {0} /\ ct = 0 /\ hd = 0 /\ tl = 0
        /\ put = <<>> /\ got = <<>>
    BY ProdConsAssumption DEF Init
  <1>2. 0 \in 0 .. 2 * MAXELEM - 1 /\ 0 < MAXELEM
    BY <1>1
  <1>3. 0 % MAXELEM = 0
    BY <1>2, Mask
  <1> QED BY <1>1, <1>3 DEF Fifo, TailAt, Room

\* The buffer is a queue that neither overflows nor underflows, although
\* version 1 enqueues without looking at ct after Sem_P(&full).
THEOREM BufferIsQueue == Spec => []Fifo
  <1> DEFINE I == Types /\ Places /\ Locked /\ WakeUps /\ Fifo /\ TailAt /\ Room
  <1>1. Init => I
    BY SleepInit, BufferInit
  <1>2. I /\ [Next]_vars => I'
    BY TypesNext, SleepNext, BufferNext
  <1>3. I => Fifo
    OBVIOUS
  <1> QED BY <1>1, <1>2, <1>3, PTL DEF Spec

-----------------------------------------------------------------------------
(* The values. *)

\* The producer of version 1 has enqueued val[0] and is about to go on to the
\* next value.
HasPut == pc[0] = "stored" \/ (pc[0] = "unlock" /\ flag[0] = "SUCCESS")

\* Some consumer has been told that there is nothing left.
Told == \E p \in Consumer : flag[p] = "END"

\* Version 1: what was enqueued is 0, 1, ..., up to val[0]; the loop ends at
\* MAXVAL; a consumer ends only when the producer has and the buffer is empty.
Values == ver = 1 =>
            /\ \A k \in 1 .. Len(put) : put[k] = k - 1
            /\ Len(put) = val[0] + One(HasPut)
            /\ val[0] <= MAXVAL
            /\ pc[0] \in {"put", "unlock", "waitfull", "relock", "store", "stored"}
                 => val[0] < MAXVAL
            /\ pc[0] \in {"end", "drain", "done"} => val[0] = MAXVAL
            /\ ~producing[0] => pc[0] \in {"drain", "done"}
            /\ Told => ct = 0 /\ ~producing[0]

\* A step of a consumer that takes nothing and is not told to end.
LEMMA ValuesKept ==
    ASSUME Values, ver' = ver, ver = 1, pc'[0] = pc[0], flag'[0] = flag[0],
           val' = val, put' = put, producing' = producing, ct' = ct, Told' => Told
    PROVE  Values'
  BY DEF Values, HasPut, Told

\* The producer appends the next value.
LEMMA ValuesPut ==
    ASSUME Types, Values, ver = 1, enqueue(val[0]), ~HasPut
    PROVE  /\ \A k \in 1 .. Len(put') : put'[k] = k - 1
           /\ Len(put') = val[0] + 1
  <1>1. put \in Seq(Nat) /\ val[0] \in Nat /\ put' = Append(put, val[0])
    BY Roles DEF Types, enqueue
  <1>2. Len(put) = val[0] /\ \A k \in 1 .. Len(put) : put[k] = k - 1
    BY <1>1 DEF Values, One
  <1>3. Len(put') = Len(put) + 1 /\ put'[Len(put) + 1] = val[0]
    BY <1>1
  <1>4. \A k \in 1 .. Len(put) : put'[k] = put[k]
    BY <1>1
  <1> DEFINE m == Len(put)
  <1>5. ASSUME NEW k \in 1 .. m + 1 PROVE put'[k] = k - 1
    <2>1. m \in Nat
      BY <1>1
    <2> QED BY <1>2, <1>3, <1>4, <2>1
  <1> QED BY <1>1, <1>2, <1>3, <1>5

\* Every step keeps the values in order.
LEMMA ValuesNext ==
    ASSUME Types, Places, Fifo, Values, [Next]_vars
    PROVE  Values'
  <1> USE DEF One, HasPut
  <1>1. CASE UNCHANGED vars
    BY <1>1 DEF vars, buffer, Values, Told, Consumer, Producer, Cpu
  <1>2. ver' = ver
    BY <1>1 DEF Next, Spins, Returned, ProducerLocks, Put, PutFull, ProducerUnlocks,
       WaitFull, Relock, Store, StoreUnlocks, EndProducing, Drain, Drained,
       ConsumerLocks, Get, GetEnd, GetEmpty, ConsumerUnlocks, WaitEmpty, vars
  <1> SUFFICES ASSUME ver = 1, Next PROVE Values'
    BY <1>1, <1>2 DEF Values
  <1>3. /\ Producer = {0} /\ Cpu = Producer \cup Consumer /\ 0 \notin Consumer
        /\ 0 \in Cpu /\ Consumer' = Consumer /\ MAXVAL \in Nat /\ val[0] \in Nat
    BY <1>2, Roles, ProdConsAssumption DEF Types, Consumer, Producer
  <1>4. \A p \in Cpu : pc[p] \in {"produce", "put", "relock", "store", "stored", "end",
                                  "drain", "waitfull"} => p = 0
    BY <1>3 DEF Places, ConsumerAt, ConsumerLabels
  <1>5. \A p \in Cpu : pc[p] \in {"consume", "get", "waitempty"} => p # 0
    BY <1>3 DEF Places, ProducerAt, ProducerLabels
  <1>6. ASSUME NEW p \in Cpu, p = 0, NEW l, Goto(p, l) PROVE pc'[0] = l
    BY <1>6 DEF Goto, Types
  <1>7. ASSUME NEW p \in Cpu, p # 0, NEW l, Goto(p, l) PROVE pc'[0] = pc[0]
    BY <1>3, <1>7 DEF Goto, Types
  <1>8. ASSUME UNCHANGED flag PROVE Told' => Told
    BY <1>3, <1>8 DEF Told
  <1>9. ASSUME NEW g, Flag(0, g) PROVE (Told' => Told) /\ flag'[0] = g
    BY <1>3, <1>9 DEF Told, Flag, Types
  <1>10. ASSUME NEW p \in Cpu, ProducerLocks(p) PROVE Values'
    <2>1. p = 0 /\ pc[0] = "produce"
      BY <1>4, <1>10 DEF ProducerLocks
    <2>2. pc'[0] = IF val[0] < MAXVAL THEN "put" ELSE "end"
      BY <1>6, <1>10, <2>1 DEF ProducerLocks, More
    <2>3. UNCHANGED <<put, ct, producing, flag, val>>
      BY <1>10 DEF ProducerLocks, buffer
    <2> QED BY <1>2, <1>3, <1>8, <2>1, <2>2, <2>3 DEF Values
  <1>11. ASSUME NEW p \in Cpu, Put(p) PROVE Values'
    <2>1. p = 0 /\ pc[0] = "put"
      BY <1>4, <1>11 DEF Put
    <2>2. pc'[0] = "unlock" /\ flag'[0] = "SUCCESS" /\ (Told' => Told)
      BY <1>6, <1>9, <1>11, <2>1 DEF Put
    <2>3. /\ \A k \in 1 .. Len(put') : put'[k] = k - 1
          /\ Len(put') = val[0] + 1
      BY <1>11, <2>1, ValuesPut DEF Put
    <2>4. UNCHANGED <<producing, val>>
      BY <1>11 DEF Put
    <2> QED BY <1>2, <1>3, <2>1, <2>2, <2>3, <2>4 DEF Values
  <1>12. ASSUME NEW p \in Cpu, PutFull(p) PROVE Values'
    <2>1. p = 0 /\ pc[0] = "put"
      BY <1>4, <1>12 DEF PutFull
    <2>2. pc'[0] = "unlock" /\ flag'[0] = "FULL" /\ (Told' => Told)
      BY <1>6, <1>9, <1>12, <2>1 DEF PutFull
    <2>3. UNCHANGED <<put, ct, producing, val>>
      BY <1>12 DEF PutFull, buffer
    <2> QED BY <1>2, <1>3, <2>1, <2>2, <2>3 DEF Values
  <1>13. ASSUME NEW p \in Cpu, ProducerUnlocks(p) PROVE Values'
    <2>1. p = 0 /\ pc[0] = "unlock"
      BY <1>3, <1>13 DEF ProducerUnlocks
    <2>2. UNCHANGED <<put, ct, producing, flag>>
      BY <1>13 DEF ProducerUnlocks, buffer
    <2>3. \/ flag[0] = "FULL" /\ pc'[0] = "waitfull" /\ val'[0] = val[0]
          \/ flag[0] = "SUCCESS" /\ pc'[0] = "produce" /\ val'[0] = val[0] + 1
      BY <1>6, <1>13, <2>1 DEF ProducerUnlocks, NextVal, Types
    <2> QED BY <1>2, <1>3, <1>8, <2>1, <2>2, <2>3 DEF Values
  <1>14. ASSUME NEW p \in Cpu, WaitFull(p) PROVE Values'
    <2>1. p = 0 /\ pc[0] = "waitfull"
      BY <1>4, <1>14 DEF WaitFull
    <2>2. UNCHANGED <<put, ct, producing, flag, val>> /\ pc'[0] = "relock"
      BY <1>6, <1>14, <2>1 DEF WaitFull, buffer
    <2> QED BY <1>2, <1>3, <1>8, <2>1, <2>2 DEF Values
  <1>15. ASSUME NEW p \in Cpu, Relock(p) PROVE Values'
    <2>1. p = 0 /\ pc[0] = "relock"
      BY <1>4, <1>15 DEF Relock
    <2>2. UNCHANGED <<put, ct, producing, flag, val>> /\ pc'[0] = "store"
      BY <1>6, <1>15, <2>1 DEF Relock, buffer
    <2> QED BY <1>2, <1>3, <1>8, <2>1, <2>2 DEF Values
  <1>16. ASSUME NEW p \in Cpu, Store(p) PROVE Values'
    <2>1. p = 0 /\ pc[0] = "store"
      BY <1>4, <1>16 DEF Store
    <2>2. UNCHANGED <<producing, flag, val>> /\ pc'[0] = "stored"
      BY <1>6, <1>16, <2>1 DEF Store
    <2>3. /\ \A k \in 1 .. Len(put') : put'[k] = k - 1
          /\ Len(put') = val[0] + 1
      BY <1>16, <2>1, ValuesPut DEF Store
    <2> QED BY <1>2, <1>3, <1>8, <2>1, <2>2, <2>3 DEF Values
  <1>17. ASSUME NEW p \in Cpu, StoreUnlocks(p) PROVE Values'
    <2>1. p = 0 /\ pc[0] = "stored"
      BY <1>4, <1>17 DEF StoreUnlocks
    <2>2. UNCHANGED <<put, ct, producing, flag>> /\ pc'[0] = "produce"
      BY <1>6, <1>17, <2>1 DEF StoreUnlocks, buffer
    <2>3. val'[0] = val[0] + 1
      BY <1>17, <2>1 DEF StoreUnlocks, NextVal, Types
    <2> QED BY <1>2, <1>3, <1>8, <2>1, <2>2, <2>3 DEF Values
  <1>18. ASSUME NEW p \in Cpu, EndProducing(p) PROVE Values'
    <2>1. p = 0 /\ pc[0] = "end"
      BY <1>4, <1>18 DEF EndProducing
    <2>2. UNCHANGED <<put, ct, flag, val>> /\ pc'[0] = "drain"
      BY <1>6, <1>18, <2>1 DEF EndProducing, buffer
    <2>3. producing'[0] = FALSE
      BY <1>18, <2>1 DEF EndProducing, Types
    <2> QED BY <1>2, <1>3, <1>8, <2>1, <2>2, <2>3 DEF Values
  <1>19. ASSUME NEW p \in Cpu, Drain(p) PROVE Values'
    BY <1>8, <1>2, <1>19, ValuesKept DEF Drain, buffer
  <1>20. ASSUME NEW p \in Cpu, Drained(p) PROVE Values'
    <2>1. p = 0 /\ pc[0] = "drain"
      BY <1>4, <1>20 DEF Drained
    <2>2. UNCHANGED <<put, ct, producing, flag, val>> /\ pc'[0] = "done"
      BY <1>6, <1>20, <2>1 DEF Drained, buffer
    <2> QED BY <1>2, <1>3, <1>8, <2>1, <2>2 DEF Values
  <1>21. ASSUME NEW p \in Cpu, ConsumerLocks(p) \/ WaitEmpty(p) PROVE Values'
    <2>1. pc'[0] = pc[0] /\ UNCHANGED <<put, ct, producing, flag, val>>
      BY <1>5, <1>7, <1>21 DEF ConsumerLocks, WaitEmpty, buffer
    <2> QED BY <1>2, <1>8, <2>1, ValuesKept
  <1>22. ASSUME NEW p \in Cpu, ConsumerUnlocks(p) PROVE Values'
    <2>1. p # 0 /\ UNCHANGED <<put, ct, producing, flag, val>>
      BY <1>3, <1>22 DEF ConsumerUnlocks, buffer
    <2>2. pc'[0] = pc[0]
      BY <1>3, <1>22, <2>1 DEF ConsumerUnlocks, Goto, Types
    <2> QED BY <1>2, <1>8, <2>1, <2>2, ValuesKept
  <1>23. ASSUME NEW p \in Cpu, GetEmpty(p) PROVE Values'
    <2>1. p # 0 /\ pc'[0] = pc[0] /\ UNCHANGED <<put, ct, producing, val>>
      BY <1>5, <1>7, <1>23 DEF GetEmpty, buffer
    <2>2. flag'[0] = flag[0] /\ (Told' => Told)
      BY <1>3, <1>23, <2>1 DEF GetEmpty, Flag, Types, Told
    <2> QED BY <1>2, <2>1, <2>2, ValuesKept
  <1>24. ASSUME NEW p \in Cpu, GetEnd(p) PROVE Values'
    <2>1. p # 0 /\ pc'[0] = pc[0] /\ UNCHANGED <<put, ct, producing, val>>
      BY <1>5, <1>7, <1>24 DEF GetEnd, buffer
    <2>2. flag'[0] = flag[0]
      BY <1>3, <1>24, <2>1 DEF GetEnd, Flag, Types
    <2>3. ct = 0 /\ ~producing[0]
      BY <1>24 DEF GetEnd, Fifo
    <2> QED BY <1>2, <2>1, <2>2, <2>3 DEF Values
  <1>25. ASSUME NEW p \in Cpu, Get(p) PROVE Values'
    <2>1. p # 0 /\ pc'[0] = pc[0] /\ UNCHANGED <<put, producing, val>>
      BY <1>5, <1>7, <1>25 DEF Get, dequeue
    <2>2. flag'[0] = flag[0] /\ (Told' => Told)
      BY <1>3, <1>25, <2>1 DEF Get, Flag, Types, Told
    <2>3. ~Told
      BY <1>25 DEF Get, Values
    <2> QED BY <1>2, <2>1, <2>2, <2>3 DEF Values
  <1> QED BY <1>1, <1>10, <1>11, <1>12, <1>13, <1>14, <1>15, <1>16, <1>17, <1>18,
             <1>19, <1>20, <1>21, <1>22, <1>23, <1>24, <1>25 DEF Next, Spins, Returned

\* Nothing has been produced.
LEMMA ValuesInit == Init => Values
  <1> SUFFICES ASSUME Init, ver = 1 PROVE Values
    BY DEF Values
  <1>1. 0 \in Cpu /\ 0 \in Producer /\ MAXVAL \in Nat
    BY Roles, ProdConsAssumption DEF Init
  <1>2. pc[0] = "produce" /\ val[0] = 0 /\ producing[0] = TRUE /\ put = <<>>
    BY <1>1 DEF Init
  <1>3. ~Told
    BY Roles DEF Init, Told
  <1> QED BY <1>1, <1>2, <1>3 DEF Values, HasPut, One

\* producer-consumer.c: the values are consumed in order, each once, and all of
\* them by the time everyone has ended.
THEOREM ConsumedInOrder == Spec => []InOrder
  <1> DEFINE I == Types /\ Places /\ Locked /\ WakeUps /\ Fifo /\ TailAt /\ Room /\ Values
  <1>1. Init => I
    BY SleepInit, BufferInit, ValuesInit
  <1>2. I /\ [Next]_vars => I'
    BY TypesNext, SleepNext, BufferNext, ValuesNext
  <1>3. I => InOrder
    <2> SUFFICES ASSUME I, ver = 1
                 PROVE  /\ \A k \in 1 .. Len(got) : got[k] = k - 1
                        /\ Done => Len(got) = MAXVAL
      BY DEF InOrder
    <2>1. /\ Len(put) = Len(got) + ct /\ ct \in Nat /\ Len(got) \in Nat
          /\ \A k \in 1 .. Len(put) : k <= Len(got) => put[k] = got[k]
      BY ProdConsAssumption DEF Fifo, Types
    <2>2. \A k \in 1 .. Len(got) : got[k] = k - 1
      BY <2>1 DEF Values
    <2>3. ASSUME Done PROVE Len(got) = MAXVAL
      <3>1. /\ 0 \in Cpu /\ 1 \in Consumer /\ 1 \in Cpu /\ val[0] \in Nat
        BY Roles DEF Types
      <3>2. pc[0] = "done" /\ pc[1] = "done"
        BY <2>3, <3>1 DEF Done
      <3>3. flag[1] = "END"
        BY <3>1, <3>2 DEF Places, ConsumerAt
      <3>4. ct = 0
        BY <3>1, <3>3 DEF Values, Told
      <3>5. Len(put) = MAXVAL
        BY <3>1, <3>2, ProdConsAssumption DEF Values, HasPut, One
      <3> QED BY <2>1, <3>4, <3>5
    <2> QED BY <2>2, <2>3
  <1> QED BY <1>1, <1>2, <1>3, PTL DEF Spec

=============================================================================
