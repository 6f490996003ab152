---------------------------- MODULE DiningProof -----------------------------
(***************************************************************************)
(* Proofs about dining-philosophers.c over semaphores, for every number of *)
(* philosophers from 2 on and every number of turns: each semaphore counts *)
(* what nobody holds, so the counts stay small, no fork is in two hands    *)
(* and one chair stays empty.  The module has no assumption of its own:    *)
(* MachineProof instantiates it with the philosophers of the machine.      *)
(***************************************************************************)
EXTENDS Dining, FiniteSetTheorems, TLAPS

\* The table main can be run for, see MachineAssumption.
TableOK == PHILOS \in Nat /\ PHILOS > 1 /\ IDEAS \in Nat

Types == sem \in [Sems -> Nat] /\ pos \in [Philo -> 0 .. End]

\* A chair or a fork is with id.
Has(id, s) == IF s = Footman THEN Seated(id) ELSE Holds(id, s - 1)
Having(s) == {id \in Philo : Has(id, s)}

\* All but one of the chairs are given out; a fork is not there before its owner
\* has set it to 1.
Total(s) == IF s = Footman THEN PHILOS - 1 ELSE IF pos[s - 1] = 0 THEN 0 ELSE 1

\* A semaphore counts what nobody has.
Free == \A s \in Sems : sem[s] + Cardinality(Having(s)) = Total(s)

Inv == Types /\ Free

-----------------------------------------------------------------------------
(* What main does at each position. *)

\* The operations by what has been done of the turn.
LEMMA DoesWhat ==
    ASSUME NEW id \in Philo, NEW m \in Nat \ {0}
    PROVE  /\ (m - 1) % 6 = 0 => Does(id, m) = Op("P", Footman)
           /\ (m - 1) % 6 = 1 => Does(id, m) = Op("P", Fork(id))
           /\ (m - 1) % 6 = 2 => Does(id, m) = Op("P", Fork(fid(id)))
           /\ (m - 1) % 6 = 3 => Does(id, m) = Op("V", Fork(fid(id)))
           /\ (m - 1) % 6 = 4 => Does(id, m) = Op("V", Fork(id))
           /\ (m - 1) % 6 = 5 => Does(id, m) = Op("V", Footman)
           /\ (m - 1) % 6 \in 0 .. 5
  <1>1. (m - 1) % 6 \in 0 .. 5
    OBVIOUS
  <1>2. Does(id, m) = Turn(id)[((m - 1) % 6) + 1]
    BY DEF Does
  <1> QED BY <1>1, <1>2 DEF Turn

\* The neighbour's fork is another one.
LEMMA Neighbour ==
    ASSUME TableOK, NEW id \in Philo
    PROVE  fid(id) \in Philo /\ fid(id) # id
  <1>1. PHILOS \in Nat /\ PHILOS > 1 /\ id \in 0 .. PHILOS - 1
    BY DEF TableOK, Philo
  <1>2. id + 1 < PHILOS => (id + 1) % PHILOS = id + 1
    BY <1>1
  <1>3. PHILOS % PHILOS = 0
    BY <1>1
  <1> QED BY <1>1, <1>2, <1>3 DEF fid, Philo

\* Where a turn is after one more operation.
LEMMA TurnGoesOn ==
    ASSUME NEW m \in Nat \ {0}
    PROVE  (m + 1 - 1) % 6 = IF (m - 1) % 6 = 5 THEN 0 ELSE ((m - 1) % 6) + 1
  OBVIOUS

One(b) == IF b THEN 1 ELSE 0

\* A set that changes in one element.
LEMMA OneChanges ==
    ASSUME TableOK, NEW S \in SUBSET Philo, NEW T \in SUBSET Philo, NEW p,
           S \ {p} = T \ {p}
    PROVE  /\ Cardinality(S) \in Nat /\ Cardinality(T) \in Nat
           /\ Cardinality(T) = Cardinality(S) - One(p \in S) + One(p \in T)
  <1>1. IsFiniteSet(Philo)
    BY FS_Interval DEF Philo, TableOK
  <1>2. /\ IsFiniteSet(S) /\ Cardinality(S) \in Nat
        /\ IsFiniteSet(T) /\ Cardinality(T) \in Nat
    BY <1>1, FS_Subset, FS_CardinalityType
  <1>3. Cardinality(S \ {p}) = IF p \in S THEN Cardinality(S) - 1 ELSE Cardinality(S)
    BY <1>2, FS_RemoveElement
  <1>4. Cardinality(T \ {p}) = IF p \in T THEN Cardinality(T) - 1 ELSE Cardinality(T)
    BY <1>2, FS_RemoveElement
  <1> DEFINE s == Cardinality(S)
             t == Cardinality(T)
  <1>5. (IF p \in S THEN s - 1 ELSE s) = (IF p \in T THEN t - 1 ELSE t)
    BY <1>3, <1>4
  <1>6. s \in Nat /\ t \in Nat
    BY <1>2
  <1> HIDE DEF s, t
  <1>7. t = s - One(p \in S) + One(p \in T)
    BY <1>5, <1>6 DEF One
  <1> QED BY <1>6, <1>7 DEF s, t

-----------------------------------------------------------------------------
(* One operation. *)

\* The others keep what they have; what philosopher id takes or puts down is the
\* chair or fork the operation is about.
LEMMA HasStep ==
    ASSUME TableOK, Types, NEW id \in Philo, pos[id] # 0, pos[id] < End, Passes(id),
           NEW o, o = Does(id, pos[id])
    PROVE  /\ o.sem \in Sems /\ o.op \in {"P", "V"}
           /\ o.op = "P" => ~Has(id, o.sem) /\ Has(id, o.sem)'
           /\ o.op = "V" => Has(id, o.sem) /\ ~Has(id, o.sem)'
           /\ \A t \in Sems \ {o.sem} : Has(id, t)' <=> Has(id, t)
           /\ \A q \in Philo \ {id}, t \in Sems : Has(q, t)' <=> Has(q, t)
  <1> DEFINE r == (pos[id] - 1) % 6
             d == Fork(fid(id))
  <1>1. pos[id] \in Nat \ {0} /\ pos'[id] = pos[id] + 1
    BY DEF Types, Passes
  <1>2. /\ id \in 0 .. PHILOS - 1 /\ fid(id) \in 0 .. PHILOS - 1 /\ fid(id) # id
        /\ PHILOS \in Nat
    BY Neighbour DEF Philo, TableOK
  <1>3. Progressed(id) = r /\ r \in 0 .. 5
    BY <1>1 DEF Progressed
  <1>4. Progressed(id)' = IF r = 5 THEN 0 ELSE r + 1
    <2>1. Progressed(id)' = (pos[id] + 1 - 1) % 6
      BY <1>1 DEF Progressed
    <2> QED BY <1>1, <2>1, TurnGoesOn
  <1>5. /\ r = 0 => o = Op("P", Footman)
        /\ r = 1 => o = Op("P", Fork(id))
        /\ r = 2 => o = Op("P", d)
        /\ r = 3 => o = Op("V", d)
        /\ r = 4 => o = Op("V", Fork(id))
        /\ r = 5 => o = Op("V", Footman)
    BY <1>1, DoesWhat
  <1>6. \A q \in Philo \ {id}, t \in Sems : Has(q, t)' <=> Has(q, t)
    <2> SUFFICES ASSUME NEW q \in Philo \ {id}, NEW t \in Sems
                 PROVE  Has(q, t)' <=> Has(q, t)
      OBVIOUS
    <2>1. pos'[q] = pos[q]
      BY DEF Types, Passes
    <2> QED BY <2>1 DEF Has, Seated, Holds, Progressed
  <1>7. \A t \in Sems : /\ Has(id, t) <=> \/ t = Footman /\ r > 0
                                          \/ t = Fork(id) /\ r \in 2 .. 4
                                          \/ t = d /\ r = 3
                        /\ Has(id, t)' <=> \/ t = Footman /\ r < 5
                                           \/ t = Fork(id) /\ r \in 1 .. 3
                                           \/ t = d /\ r = 2
    <2> SUFFICES ASSUME NEW t \in Sems
                 PROVE  /\ Has(id, t) <=> \/ t = Footman /\ r > 0
                                          \/ t = Fork(id) /\ r \in 2 .. 4
                                          \/ t = d /\ r = 3
                        /\ Has(id, t)' <=> \/ t = Footman /\ r < 5
                                           \/ t = Fork(id) /\ r \in 1 .. 3
                                           \/ t = d /\ r = 2
      OBVIOUS
    <2> HIDE DEF r
    <2>1. t \in Nat /\ (t - 1 = id <=> t = Fork(id)) /\ (t - 1 = fid(id) <=> t = d)
      BY <1>2 DEF Sems, Fork
    <2>2. Fork(id) # Footman /\ d # Footman
      BY <1>2 DEF Fork, Footman
    <2>3. /\ Has(id, t) <=> IF t = Footman THEN r > 0
                            ELSE (t = Fork(id) /\ r \in 2 .. 4) \/ (t = d /\ r = 3)
      BY <1>3, <2>1 DEF Has, Seated, Holds
    <2> DEFINE u == IF r = 5 THEN 0 ELSE r + 1
    <2>4. /\ Has(id, t)' <=> IF t = Footman THEN u > 0
                             ELSE (t = Fork(id) /\ u \in 2 .. 4) \/ (t = d /\ u = 3)
      BY <1>4, <2>1 DEF Has, Seated, Holds
    <2>5. /\ u > 0 <=> r < 5
          /\ u \in 2 .. 4 <=> r \in 1 .. 3
          /\ u = 3 <=> r = 2
      BY <1>3
    <2> HIDE DEF u
    <2> QED BY <2>2, <2>3, <2>4, <2>5
  <1>8. /\ Footman \in Sems /\ Fork(id) \in Sems /\ d \in Sems
        /\ Footman # Fork(id) /\ Footman # d /\ Fork(id) # d
    BY <1>2 DEF Sems, Fork, Footman
  <1> HIDE DEF r, d
  <1> QED BY <1>3, <1>5, <1>6, <1>7, <1>8 DEF Op


\* How many have a chair or fork after a step of philosopher id.
LEMMA HavingStep ==
    ASSUME TableOK, NEW id \in Philo, NEW s,
           \A q \in Philo \ {id} : Has(q, s)' <=> Has(q, s)
    PROVE  /\ Cardinality(Having(s)) \in Nat /\ Cardinality(Having(s)') \in Nat
           /\ Cardinality(Having(s)')
                = Cardinality(Having(s)) - One(Has(id, s)) + One(Has(id, s)')
  <1> DEFINE S == Having(s)
             T == {q \in Philo : Has(q, s)'}
  <1>1. S \ {id} = T \ {id} /\ S \in SUBSET Philo /\ T \in SUBSET Philo
    BY DEF Having
  <1>2. (id \in S <=> Has(id, s)) /\ (id \in T <=> Has(id, s)') /\ Having(s)' = T
    BY DEF Having
  <1> HIDE DEF S, T
  <1>3. /\ Cardinality(S) \in Nat /\ Cardinality(T) \in Nat
        /\ Cardinality(T) = Cardinality(S) - One(id \in S) + One(id \in T)
    BY <1>1, OneChanges
  <1> QED BY <1>2, <1>3 DEF One, S

\* A fork is there once it is set.
LEMMA TotalStep ==
    ASSUME TableOK, Types, NEW id \in Philo, pos[id] < End, Passes(id), NEW s \in Sems
    PROVE  Total(s)' = IF s = Fork(id) THEN 1 ELSE Total(s)
  <1>1. \A q \in Philo : pos'[q] = IF q = id THEN pos[q] + 1 ELSE pos[q]
    BY DEF Types, Passes
  <1>2. s # Footman => s - 1 \in Philo
    BY DEF Sems, Philo, Footman, TableOK
  <1>3. s = Fork(id) => s # Footman /\ s - 1 = id
    BY DEF Fork, Philo, Footman, TableOK
  <1>4. pos[id] \in Nat
    BY DEF Types
  <1>5. s # Footman /\ s # Fork(id) => s - 1 # id
    BY DEF Fork, Philo, Footman, TableOK, Sems
  <1> QED BY <1>1, <1>2, <1>3, <1>4, <1>5 DEF Total

\* Every step keeps the counts.
LEMMA FreeNext == ASSUME TableOK, Inv, [Next]_vars PROVE Inv'
  <1> USE DEF Inv
  <1>0. End \in Nat /\ PHILOS \in Nat
    BY DEF End, TableOK
  <1>1. CASE UNCHANGED vars
    BY <1>1 DEF vars, Types, Free, Having, Total, Has, Seated, Holds, Progressed
  <1>2. ASSUME NEW id \in Philo, SetFork(id) PROVE Inv'
    <2> DEFINE s == Fork(id)
    <2>1. pos[id] = 0 /\ Does(id, pos[id]) = Op("SET", s)
      <3>1. pos[id] # 0 => Does(id, pos[id]).op \in {"P", "V"}
        <4>1. PICK o : o = Does(id, pos[id])
          OBVIOUS
        <4> QED BY <1>2, <4>1, HasStep DEF SetFork, About
      <3> QED BY <1>2, <3>1 DEF SetFork, About, Does
    <2>2. s \in Sems /\ Passes(id) /\ pos[id] < End /\ sem' = [sem EXCEPT ![s] = 1]
      <3>1. s \in Sems
        BY <1>0 DEF Fork, Philo, Sems
      <3>2. Does(id, pos[id]).sem = s
        BY <2>1 DEF Op
      <3> QED BY <1>2, <3>1, <3>2 DEF SetFork, About
    <2>3. Types'
      BY <1>0, <2>2 DEF Types, Passes
    <2>4. \A q \in Philo, t \in Sems : Has(q, t)' <=> Has(q, t)
      <3>1. \A q \in Philo : Progressed(q)' = Progressed(q)
        BY <2>1, <2>2 DEF Passes, Types, Progressed
      <3> QED BY <3>1 DEF Has, Seated, Holds
    <2>5. sem[s] = 0 /\ Cardinality(Having(s)) = 0
      <3>1. s # Footman /\ s - 1 = id
        BY DEF Fork, Footman, Philo
      <3>2. sem[s] + Cardinality(Having(s)) = 0
        BY <2>1, <2>2, <3>1 DEF Free, Total
      <3>3. Cardinality(Having(s)) \in Nat
        BY <2>2, <2>4, HavingStep
      <3>4. sem[s] \in Nat
        BY <2>2 DEF Types
      <3> QED BY <3>2, <3>3, <3>4
    <2>6. \A t \in Sems : Having(t)' = Having(t)
      BY <2>4 DEF Having
    <2>7. \A t \in Sems : Total(t)' = IF t = s THEN 1 ELSE Total(t)
      BY <2>2, TotalStep
    <2>8. \A t \in Sems : sem'[t] = IF t = s THEN 1 ELSE sem[t]
      BY <2>2 DEF Types
    <2>9. Free'
      <3> HIDE DEF s
      <3> SUFFICES ASSUME NEW t \in Sems
                   PROVE  sem'[t] + Cardinality(Having(t)') = Total(t)'
        BY DEF Free
      <3> QED BY <2>5, <2>6, <2>7, <2>8 DEF Free
    <2> QED BY <2>3, <2>9
  <1>3. ASSUME NEW id \in Philo, Sem_P(id) \/ Sem_V(id) PROVE Inv'
    <2>0. PICK o : o = Does(id, pos[id])
      OBVIOUS
    <2> DEFINE s == o.sem
               d == IF o.op = "P" THEN -1 ELSE 1
    <2>1. /\ pos[id] # 0 /\ pos[id] < End /\ Passes(id)
          /\ sem' = [sem EXCEPT ![s] = @ + d] /\ (o.op = "P" => sem[s] > 0)
      <3>1. pos[id] = 0 => o.op = "SET"
        BY <2>0 DEF Does, Op
      <3>2. CASE Sem_P(id)
        <4>1. sem[s] - 1 = sem[s] + d
          <5>1. s \in Sems /\ d = -1
            BY <2>0, <3>1, <3>2, HasStep DEF Sem_P, About
          <5>2. sem[s] \in Nat
            BY <5>1 DEF Types
          <5> HIDE DEF s, d
          <5> QED BY <5>1, <5>2
        <4> QED BY <2>0, <3>1, <3>2, <4>1 DEF Sem_P, About
      <3>3. CASE Sem_V(id)
        BY <2>0, <3>1, <3>3 DEF Sem_V, About
      <3> QED BY <1>3, <3>2, <3>3
    <2>2. /\ s \in Sems /\ o.op \in {"P", "V"}
          /\ o.op = "P" => ~Has(id, s) /\ Has(id, s)'
          /\ o.op = "V" => Has(id, s) /\ ~Has(id, s)'
          /\ \A t \in Sems \ {s} : Has(id, t)' <=> Has(id, t)
          /\ \A q \in Philo \ {id}, t \in Sems : Has(q, t)' <=> Has(q, t)
      BY <2>0, <2>1, HasStep
    <2>3. Types'
      <3>1. sem[s] + d \in Nat
        BY <2>1, <2>2 DEF Types
      <3> HIDE DEF d, s
      <3> QED BY <1>0, <2>1, <2>2, <3>1 DEF Types, Passes
    <2>4. \A t \in Sems : sem'[t] = IF t = s THEN sem[t] + d ELSE sem[t]
      BY <2>1 DEF Types
    <2>5. \A t \in Sems :
            /\ Cardinality(Having(t)) \in Nat /\ Cardinality(Having(t)') \in Nat
            /\ Cardinality(Having(t)')
                 = Cardinality(Having(t)) - One(Has(id, t)) + One(Has(id, t)')
      BY <2>2, HavingStep
    <2>6. \A t \in Sems : Total(t)' = Total(t)
      <3>1. Fork(id) \in Sems => Total(Fork(id)) = 1
        <4>1. Fork(id) # Footman /\ Fork(id) - 1 = id
          BY DEF Fork, Footman, Philo
        <4> QED BY <2>1, <4>1 DEF Total
      <3> QED BY <2>1, <3>1, TotalStep
    <2>7. Free'
      <3> SUFFICES ASSUME NEW t \in Sems
                   PROVE  sem'[t] + Cardinality(Having(t)') = Total(t)
        BY <2>6 DEF Free
      <3> DEFINE C == Cardinality(Having(t))
                 N == Cardinality(Having(t)')
      <3>1. sem[t] + C = Total(t) /\ sem[t] \in Nat
        BY DEF Free, Types
      <3>2. C \in Nat /\ N \in Nat /\ N = C - One(Has(id, t)) + One(Has(id, t)')
        BY <2>5
      <3> HIDE DEF C, N
      <3>3. N = IF t = s THEN C - d ELSE C
        <4>1. CASE t # s
          BY <2>2, <3>2, <4>1 DEF One
        <4>2. CASE t = s /\ o.op = "P"
          BY <2>2, <3>2, <4>2 DEF One
        <4>3. CASE t = s /\ o.op = "V"
          BY <2>2, <3>2, <4>3 DEF One
        <4> QED BY <2>2, <4>1, <4>2, <4>3
      <3>4. d \in Int
        OBVIOUS
      <3> HIDE DEF d, s
      <3>5. sem'[t] + N = Total(t)
        BY <2>4, <3>1, <3>2, <3>3, <3>4
      <3> QED BY <3>5 DEF N
    <2> QED BY <2>3, <2>7
  <1> QED BY <1>1, <1>2, <1>3 DEF Next

\* Nobody sits and no fork is set.
LEMMA FreeInit == ASSUME TableOK, Init PROVE Inv
  <1>1. Types
    BY DEF TableOK, Init, Types, Sems, Footman, End, Philo
  <1>2. \A id \in Philo, s \in Sems : ~Has(id, s)
    BY DEF Init, Has, Seated, Holds, Progressed
  <1>3. \A s \in Sems : Cardinality(Having(s)) = 0
    BY <1>2, FS_EmptySet DEF Having
  <1>4. \A s \in Sems : sem[s] = Total(s) /\ sem[s] \in Nat
    <2>1. \A s \in Sems : s # Footman => s - 1 \in Philo
      BY DEF Sems, Philo, Footman, TableOK
    <2>2. \A s \in Sems : sem[s] = IF s = Footman THEN PHILOS - 1 ELSE 0
      BY DEF Init
    <2>3. \A q \in Philo : pos[q] = 0
      BY DEF Init
    <2> QED BY <1>1, <2>1, <2>2, <2>3 DEF Types, Total
  <1> QED BY <1>1, <1>3, <1>4 DEF Inv, Free

\* The counts are small: a fork is 0 or 1, footman less than PHILOS.
LEMMA CountsBounded ==
    ASSUME TableOK, Inv, NEW s \in Sems
    PROVE  /\ sem[s] \in 0 .. PHILOS - 1 /\ Cardinality(Having(s)) \in Nat
           /\ Cardinality(Having(s)) <= Total(s) /\ Total(s) \in 0 .. PHILOS - 1
  <1>1. Cardinality(Having(s)) \in Nat
    <2>1. IsFiniteSet(Philo)
      BY FS_Interval DEF Philo, TableOK
    <2> QED BY <2>1, FS_Subset, FS_CardinalityType DEF Having
  <1>2. sem[s] \in Nat /\ sem[s] + Cardinality(Having(s)) = Total(s)
    BY DEF Inv, Types, Free
  <1>3. Total(s) \in 0 .. PHILOS - 1
    BY DEF Total, TableOK
  <1> DEFINE c == Cardinality(Having(s))
             t == Total(s)
  <1> HIDE DEF c, t
  <1>4. c \in Nat /\ sem[s] \in Nat /\ sem[s] + c = t /\ t \in 0 .. PHILOS - 1
    BY <1>1, <1>2, <1>3 DEF c, t
  <1>5. sem[s] \in 0 .. PHILOS - 1 /\ c <= t
    BY <1>4 DEF TableOK
  <1> QED BY <1>4, <1>5 DEF c, t

\* No fork of dining-philosophers.c is in two hands and the footman keeps one
\* chair empty, from before the forks are set until all have left.
LEMMA InvExclusive == ASSUME TableOK, Inv PROVE Exclusive
  <1>1. Footman \in Sems /\ \A f \in Philo : Fork(f) \in Sems
    BY DEF TableOK, Footman, Fork, Sems, Philo
  <1>2. {id \in Philo : Seated(id)} = Having(Footman)
    BY DEF Having, Has
  <1>3. \A f \in Philo : {id \in Philo : Holds(id, f)} = Having(Fork(f))
    BY DEF Having, Has, Fork, Footman, Philo
  <1>4. Cardinality(Having(Footman)) < PHILOS
    BY <1>1, CountsBounded DEF TableOK
  <1>5. ASSUME NEW f \in Philo PROVE Cardinality(Having(Fork(f))) <= 1
    <2>1. Total(Fork(f)) <= 1
      BY DEF Total, Fork, Footman, Philo
    <2>2. Total(Fork(f)) \in Nat
      BY <1>1, CountsBounded
    <2> QED BY <1>1, <2>1, <2>2, CountsBounded
  <1> QED BY <1>2, <1>3, <1>4, <1>5 DEF Exclusive

\* For every table of at least two and every number of turns.
THEOREM NeverTwice == ASSUME TableOK PROVE Spec => []Exclusive
  <1>1. Init => Inv
    BY FreeInit
  <1>2. Inv /\ [Next]_vars => Inv'
    BY FreeNext
  <1>3. Inv => Exclusive
    BY InvExclusive
  <1> QED BY <1>1, <1>2, <1>3, PTL DEF Spec

=============================================================================
