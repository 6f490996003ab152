---------------------------- MODULE DDiningProof ----------------------------
(***************************************************************************)
(* Proofs about d_dining-philosophers.c, for every number of philosophers  *)
(* from 2 on and every number of turns: the processes of the forks and of  *)
(* the footman know who holds what and who sits, one message behind at     *)
(* most, so no fork is in two hands, one chair stays empty and the table   *)
(* of the footman is right.                                                *)
(***************************************************************************)
EXTENDS DDining, FiniteSetTheorems, TLAPS

Servers == Forks \cup {FOOTMAN}

Types ==
    /\ running \in [Proc -> BOOLEAN] /\ taken \in [Proc -> BOOLEAN]
    /\ st = [p \in Proc |-> st[p]] /\ data = [p \in Proc |-> data[p]]
    /\ k1 = [p \in Proc |-> k1[p]]
    /\ said \in [Philos -> 0 .. End]
    /\ pc \in [Servers -> {"start", "alt", "held"}]
    /\ seated \in 0 .. PHILOS - 1
    /\ arr = [k \in 0 .. PHILOS - 2 |-> arr[k]]

\* Only philosophers output, and what comes next.
Talks == \A p \in Proc :
    \/ st[p].op # "OUT" /\ ~taken[p] /\ (p \notin Servers => st[p] = NoOp)
    \/ p \in Philos /\ said[p] > 0 /\ st[p] = Says(p, said[p] - 1)

\* Fork f lies on the table, and knows it or is about to.
Lying(f) ==
    /\ st[f] \in {NoOp, Alt(Allowed(f))}
    /\ st[f] = NoOp /\ running[f] => \/ pc[f] = "start"
                                     \/ pc[f] = "alt" /\ data[f] # "PICKUP"
                                     \/ pc[f] = "held" /\ data[f] = "PUTDOWN"
    /\ st[f] # NoOp => pc[f] = "alt"

\* Fork f is in the hands of k1[f], and knows it or is about to.
Picked(f) == \/ st[f] = NoOp /\ pc[f] = "alt" /\ data[f] = "PICKUP"
             \/ st[f] = Input(k1[f]) /\ pc[f] = "held"

\* Philosopher id has fork f.
Has(id, f) == \/ own(id) = f /\ Known(id) \in 2 .. 4
              \/ nbr(id) = f /\ Known(id) = 3

ForkKnows(f) == \/ Lying(f) /\ \A id \in Philos : ~Has(id, f)
                \/ Picked(f) /\ \A id \in Philos : Has(id, f) <=> id = k1[f]

\* The first n entries of table a are the members of S, each once.
TableOf(a, n, S) == /\ S = {a[k] : k \in 0 .. n - 1}
                    /\ \A j, k \in 0 .. n - 1 : a[j] = a[k] => j = k
Table(S) == TableOf(arr, seated, S)

\* The footman's table is that of AtTable but for the message he has just got.
FootmanKnows ==
    \/ st[FOOTMAN] = Alt(Heard(seated, arr)) /\ pc[FOOTMAN] = "alt" /\ Table(AtTable)
    \/ /\ st[FOOTMAN] = NoOp /\ Table(AtTable)
       /\ pc[FOOTMAN] = "start" \/ ~running[FOOTMAN] \/ data[FOOTMAN] = "DONE"
    \/ /\ st[FOOTMAN] = NoOp /\ pc[FOOTMAN] = "alt" /\ data[FOOTMAN] = "SITDOWN"
       /\ k1[FOOTMAN] \in AtTable /\ seated < PHILOS - 1
       /\ Table(AtTable \ {k1[FOOTMAN]})
    \/ /\ st[FOOTMAN] = NoOp /\ pc[FOOTMAN] = "alt" /\ data[FOOTMAN] = "GETUP"
       /\ k1[FOOTMAN] \notin AtTable /\ Table(AtTable \cup {k1[FOOTMAN]})

Inv == Types /\ Talks /\ (\A f \in Forks : ForkKnows(f)) /\ FootmanKnows

-----------------------------------------------------------------------------
(* What philosophers say. *)

\* The part of the turn a philosopher is in after m messages, as in Known.
Phase(m) == IF m < 6 * IDEAS THEN m % 6 ELSE 0

\* The message x, and the parts of the turn before and after it.
SaysOK(id, x, b, a) ==
    \/ b = 0 /\ a = 1 /\ x = Output(FOOTMAN, "SITDOWN")
    \/ b = 1 /\ a = 2 /\ x = Output(own(id), "PICKUP")
    \/ b = 2 /\ a = 3 /\ x = Output(nbr(id), "PICKUP")
    \/ b = 3 /\ a = 4 /\ x = Output(nbr(id), "PUTDOWN")
    \/ b = 4 /\ a = 5 /\ x = Output(own(id), "PUTDOWN")
    \/ b = 5 /\ a = 0 /\ x = Output(FOOTMAN, "GETUP")
    \/ b = 0 /\ a = 0 /\ \E p \in {own(id), nbr(id), FOOTMAN} : x = Output(p, "DONE")

\* The messages of a philosopher, one after the other.
LEMMA WhatIsSaid ==
    ASSUME NEW id \in Philos, NEW m \in Nat, m < End
    PROVE  SaysOK(id, Says(id, m), Phase(m), Phase(m + 1))
  <1>1. IDEAS \in Nat
    BY DDiningAssumption
  <1>2. CASE m < 6 * IDEAS
    <2>1. Says(id, m) = Turn(id)[(m % 6) + 1] /\ Phase(m) = m % 6
      BY <1>2 DEF Says, Phase
    <2>2. m % 6 \in 0 .. 5
      OBVIOUS
    <2>3. m % 6 < 5 => m + 1 < 6 * IDEAS /\ (m + 1) % 6 = (m % 6) + 1
      BY <1>1, <1>2
    <2>4. m % 6 = 5 => (m + 1) % 6 = 0
      OBVIOUS
    <2>5. Phase(m + 1) = IF m % 6 = 5 THEN 0 ELSE (m % 6) + 1
      BY <2>2, <2>3, <2>4 DEF Phase
    <2>6. /\ Turn(id)[1] = Output(FOOTMAN, "SITDOWN") /\ Turn(id)[2] = Output(own(id), "PICKUP")
          /\ Turn(id)[3] = Output(nbr(id), "PICKUP") /\ Turn(id)[4] = Output(nbr(id), "PUTDOWN")
          /\ Turn(id)[5] = Output(own(id), "PUTDOWN") /\ Turn(id)[6] = Output(FOOTMAN, "GETUP")
      BY DEF Turn
    <2> DEFINE x == m % 6
               T == Turn(id)
               y == Says(id, m)
               a == Phase(m + 1)
               b == Phase(m)
    <2>7. x \in 0 .. 5 /\ y = T[x + 1] /\ b = x /\ a = IF x = 5 THEN 0 ELSE x + 1
      BY <2>1, <2>2, <2>5
    <2> HIDE DEF x, T, y, a, b
    <2>8. \/ x = 0 /\ y = T[1] /\ b = 0 /\ a = 1
          \/ x = 1 /\ y = T[2] /\ b = 1 /\ a = 2
          \/ x = 2 /\ y = T[3] /\ b = 2 /\ a = 3
          \/ x = 3 /\ y = T[4] /\ b = 3 /\ a = 4
          \/ x = 4 /\ y = T[5] /\ b = 4 /\ a = 5
          \/ x = 5 /\ y = T[6] /\ b = 5 /\ a = 0
      BY <2>7
    <2> QED BY <2>6, <2>8 DEF SaysOK, T, y, a, b
  <1>3. CASE ~(m < 6 * IDEAS)
    <2>1. Phase(m) = 0 /\ Phase(m + 1) = 0 /\ Says(id, m) = Leaves(id)[m - 6 * IDEAS + 1]
      BY <1>1, <1>3 DEF Phase, Says
    <2>2. m - 6 * IDEAS \in {0, 1, 2}
      BY <1>1, <1>3 DEF End
    <2>3. Leaves(id)[m - 6 * IDEAS + 1]
            \in {Output(own(id), "DONE"), Output(nbr(id), "DONE"), Output(FOOTMAN, "DONE")}
      BY <2>2 DEF Leaves
    <2> QED BY <2>1, <2>3 DEF SaysOK
  <1> QED BY <1>2, <1>3

\* An output a philosopher is engaged in.
LEMMA WhatWasSaid ==
    ASSUME Types, NEW id \in Philos, said[id] > 0
    PROVE  /\ SaysOK(id, Says(id, said[id] - 1), Phase(said[id] - 1), Phase(said[id]))
           /\ Says(id, said[id] - 1).op = "OUT"
  <1> DEFINE m == said[id] - 1
  <1>1. m \in Nat /\ m < End /\ m + 1 = said[id]
    BY DDiningAssumption DEF Types, End
  <1> HIDE DEF m
  <1>2. SaysOK(id, Says(id, m), Phase(m), Phase(m + 1))
    BY <1>1, WhatIsSaid
  <1>3. Says(id, m).op = "OUT"
    BY <1>2 DEF SaysOK, Output
  <1> QED BY <1>1, <1>2, <1>3 DEF m

\* The two forks of a philosopher are two of the forks.
LEMMA TwoForks ==
    ASSUME NEW id \in Philos
    PROVE  /\ own(id) \in Forks /\ nbr(id) \in Forks /\ own(id) # nbr(id)
           /\ \E k \in Index : id = philo[k] /\ PhiloIndex(id) = k
  <1>1. PICK k \in Index : id = philo[k]
    BY DEF Philos
  <1>2. PhiloIndex(id) = k
    <2>1. PhiloIndex(id) \in Index /\ philo[PhiloIndex(id)] = id
      BY <1>1 DEF PhiloIndex
    <2> QED BY <1>1, <2>1, DDiningAssumption
  <1>3. PHILOS \in Nat /\ PHILOS > 1 /\ k \in 0 .. PHILOS - 1
    BY DDiningAssumption DEF Index
  <1>4. (k + 1) % PHILOS \in 0 .. PHILOS - 1
    BY <1>3
  <1>5. (k + 1) % PHILOS # k
    <2>1. CASE k + 1 < PHILOS
      BY <1>3, <2>1
    <2>2. CASE k + 1 = PHILOS
      <3>1. PHILOS % PHILOS = 0
        BY <1>3
      <3> QED BY <1>3, <2>2, <3>1
    <2> QED BY <1>3, <2>1, <2>2
  <1>6. (k + 1) % PHILOS \in Index
    BY <1>4 DEF Index
  <1>7. fork[k] # fork[(k + 1) % PHILOS]
    BY <1>1, <1>5, <1>6, DDiningAssumption
  <1> QED BY <1>1, <1>2, <1>6, <1>7 DEF own, nbr, Forks

-----------------------------------------------------------------------------
(* Steps that a fork or the footman does not see. *)

\* The processes are different ones.
LEMMA Roles ==
    /\ Philos \subseteq Proc /\ Servers \subseteq Proc /\ FOOTMAN \in Servers
    /\ Forks \subseteq Servers /\ Philos \cap Servers = {} /\ FOOTMAN \notin Forks
    /\ NoOp.op \notin {"IN", "OUT", "ALT"}
  BY DDiningAssumption DEF Servers

\* Nothing of process f has changed.
Same(f) == /\ st'[f] = st[f] /\ data'[f] = data[f] /\ k1'[f] = k1[f]
           /\ running'[f] = running[f] /\ pc'[f] = pc[f]

\* A fork that is not addressed knows what it knew.
LEMMA ForkUnaware ==
    ASSUME NEW f \in Forks, ForkKnows(f), Same(f),
           \A id \in Philos : Has(id, f)' <=> Has(id, f)
    PROVE  ForkKnows(f)'
  BY DEF ForkKnows, Same, Lying, Picked, Input, Alt, Allowed

\* So does the footman.
LEMMA FootmanUnaware ==
    ASSUME FootmanKnows, Same(FOOTMAN), AtTable' = AtTable, UNCHANGED <<arr, seated>>
    PROVE  FootmanKnows'
  BY DEF FootmanKnows, Same, Table, TableOf, Heard, Alt

\* What is known of the philosophers has not changed.
LEMMA NothingNew ==
    ASSUME \A id \in Philos : Received(id)' = Received(id)
    PROVE  /\ AtTable' = AtTable
           /\ \A id \in Philos, f \in Forks : Has(id, f)' <=> Has(id, f)
  <1>1. \A id \in Philos : Known(id)' = Known(id)
    BY DEF Known
  <1> QED BY <1>1 DEF AtTable, Has

\* A philosopher that begins to output, or whose output ends, a process that
\* returns: nobody learns of it.
LEMMA QuietStep ==
    ASSUME Inv, NEW p \in Proc, p \notin Servers,
           philosopher(p) \/ Ends(p) \/ (Finish(p) /\ UNCHANGED progVars)
    PROVE  Inv'
  <1>1. UNCHANGED <<seated, arr, pc, data, k1>> /\ running' \in [Proc -> BOOLEAN]
    BY DEF philosopher, Ends, Issue, Stop, Finish, progVars, Inv, Types
  <1>2. \A q \in Proc : q # p => st'[q] = st[q] /\ taken'[q] = taken[q] /\ running'[q] = running[q]
    BY DEF philosopher, Ends, Issue, Stop, Finish, Inv, Types
  <1>3. \A id \in Philos : id # p => said'[id] = said[id]
    BY DEF philosopher, Ends, Finish, progVars, Inv, Types
  <1>4. st' = [q \in Proc |-> st'[q]] /\ taken' \in [Proc -> BOOLEAN]
        /\ said' \in [Philos -> 0 .. End]
    <2>1. CASE philosopher(p)
      <3>1. said[p] + 1 \in 0 .. End /\ p \in Philos
        BY <2>1, DDiningAssumption DEF philosopher, Inv, Types, End
      <3> QED BY <2>1, <3>1 DEF philosopher, Issue, Inv, Types
    <2>2. CASE Ends(p) \/ (Finish(p) /\ UNCHANGED progVars)
      BY <2>2 DEF Ends, Stop, Finish, progVars, Inv, Types
    <2> QED BY <2>1, <2>2
  <1>5. Types'
    BY <1>1, <1>4 DEF Inv, Types
  <1>6. p \in Philos => Received(p)' = Received(p)
    <2> SUFFICES ASSUME p \in Philos PROVE Received(p)' = Received(p)
      OBVIOUS
    <2>0. said[p] \in Nat
      BY DEF Inv, Types, End
    <2>1. CASE philosopher(p)
      <3>1. st[p] = NoOp /\ st'[p] = Says(p, said[p]) /\ said'[p] = said[p] + 1
            /\ said[p] < End /\ taken'[p] = taken[p]
        BY <2>1 DEF philosopher, Issue, Ready, Inv, Types
      <3>2. ~taken[p]
        <4>1. st[p].op # "OUT"
          BY <3>1, Roles
        <4>2. said[p] > 0 => st[p] # Says(p, said[p] - 1)
          BY <4>1, WhatWasSaid DEF Inv
        <4> QED BY <4>1, <4>2 DEF Inv, Talks
      <3>3. st'[p].op = "OUT"
        <4>1. SaysOK(p, Says(p, said[p]), Phase(said[p]), Phase(said[p] + 1))
          BY <2>0, <3>1, WhatIsSaid
        <4> QED BY <3>1, <4>1 DEF SaysOK, Output
      <3> QED BY <2>0, <3>1, <3>2, <3>3, Roles DEF Received
    <2>2. CASE Ends(p)
      BY <2>2 DEF Ends, Stop, progVars, Received
    <2>3. CASE Finish(p) /\ UNCHANGED progVars
      <3>1. st'[p] = NoOp /\ taken[p] /\ said'[p] = said[p]
        BY <2>3 DEF Finish, progVars, Inv, Types
      <3> QED BY <2>0, <3>1, Roles DEF Received
    <2> QED BY <2>1, <2>2, <2>3
  <1>7. \A id \in Philos : Received(id)' = Received(id)
    BY <1>2, <1>3, <1>6, Roles DEF Received
  <1>8. Talks'
    <2>1. ASSUME NEW q \in Proc, q # p
          PROVE  \/ st'[q].op # "OUT" /\ ~taken'[q] /\ (q \notin Servers => st'[q] = NoOp)
                 \/ q \in Philos /\ said'[q] > 0 /\ st'[q] = Says(q, said'[q] - 1)
      BY <1>2, <1>3, <2>1 DEF Inv, Talks
    <2>2. \/ st'[p].op # "OUT" /\ ~taken'[p] /\ st'[p] = NoOp
          \/ p \in Philos /\ said'[p] > 0 /\ st'[p] = Says(p, said'[p] - 1)
      <3>1. CASE philosopher(p)
        <4>1. p \in Philos /\ st'[p] = Says(p, said[p]) /\ said'[p] = said[p] + 1 /\ said[p] \in Nat
          BY <3>1 DEF philosopher, Issue, Inv, Types, End
        <4>2. said'[p] - 1 = said[p] /\ said'[p] > 0
          BY <4>1
        <4> QED BY <4>1, <4>2
      <3>2. CASE Ends(p)
        BY <3>2 DEF Ends, Stop, progVars, Inv, Talks
      <3>3. CASE Finish(p) /\ UNCHANGED progVars
        <4>1. st'[p] = NoOp /\ ~taken'[p]
          BY <3>3 DEF Finish, Inv, Types
        <4> QED BY <4>1, Roles
      <3> QED BY <3>1, <3>2, <3>3
    <2> QED BY <2>1, <2>2 DEF Talks
  <1>9. \A f \in Servers : Same(f)
    BY <1>1, <1>2, Roles DEF Same
  <1>10. ASSUME NEW f \in Forks PROVE ForkKnows(f)'
    <2>1. \A id \in Philos : Has(id, f)' <=> Has(id, f)
      BY <1>7, NothingNew
    <2>2. ForkKnows(f) /\ Same(f)
      BY <1>9, Roles DEF Inv
    <2> QED BY <2>1, <2>2, ForkUnaware
  <1>11. FootmanKnows'
    <2>1. AtTable' = AtTable
      BY <1>7, NothingNew
    <2>2. FootmanKnows /\ Same(FOOTMAN)
      BY <1>9, Roles DEF Inv
    <2> QED BY <1>1, <2>1, <2>2, FootmanUnaware
  <1> QED BY <1>5, <1>8, <1>10, <1>11 DEF Inv

-----------------------------------------------------------------------------
(* What forks and the footman do. *)

\* p has made a call, or stopped, between its communications.
Acts(p) == /\ \A q \in Proc : q # p => st'[q] = st[q] /\ running'[q] = running[q]
           /\ st' = [q \in Proc |-> st'[q]] /\ running' \in [Proc -> BOOLEAN]
           /\ UNCHANGED <<taken, data, k1, said>>
           /\ pc' \in [Servers -> {"start", "alt", "held"}]
           /\ \A q \in Servers : q # p => pc'[q] = pc[q]
           /\ st'[p] = NoOp \/ st'[p].op \in {"IN", "ALT"}

\* Nobody else sees what a server does between its communications.
LEMMA ServerActs ==
    ASSUME Inv, NEW p \in Servers, Acts(p)
    PROVE  /\ Talks'
           /\ \A id \in Philos : Received(id)' = Received(id)
           /\ \A q \in Servers : q # p => Same(q)
  <1>1. p \in Proc /\ p \notin Philos
    BY Roles
  <1>2. \A id \in Philos : Received(id)' = Received(id)
    BY <1>1, Roles DEF Acts, Received
  <1>3. \A q \in Servers : q # p => Same(q)
    BY Roles DEF Acts, Same
  <1>4. Talks'
    <2>1. ASSUME NEW q \in Proc, q # p
          PROVE  \/ st'[q].op # "OUT" /\ ~taken'[q] /\ (q \notin Servers => st'[q] = NoOp)
                 \/ q \in Philos /\ said'[q] > 0 /\ st'[q] = Says(q, said'[q] - 1)
      BY <2>1 DEF Acts, Inv, Talks
    <2>2. st'[p].op # "OUT" /\ ~taken'[p] /\ p \in Servers
      BY <1>1, Roles DEF Acts, Inv, Talks
    <2> QED BY <2>1, <2>2 DEF Talks
  <1> QED BY <1>2, <1>3, <1>4

\* A fork goes from lying to lying, or from being picked up to waiting for its
\* holder.
LEMMA CutleryStep ==
    ASSUME Inv, NEW f \in Forks, cutlery(f)
    PROVE  Inv'
  <1>0. f \in Servers /\ f \in Proc
    BY Roles
  <1>1. \/ Issue(f, Alt(Allowed(f))) /\ pc' = [pc EXCEPT ![f] = "alt"] /\ ~Held(f)
        \/ Stop(f) /\ pc' = [pc EXCEPT ![f] = "alt"] /\ ~Held(f)
        \/ Issue(f, Input(k1[f])) /\ pc' = [pc EXCEPT ![f] = "held"] /\ Held(f)
    BY DEF cutlery, Held, PutBack, OneDone, Lies
  <1>2. Ready(f) /\ UNCHANGED <<said, seated, arr>>
    BY DEF cutlery
  <1>3. Acts(f)
    <2>1. CASE Issue(f, Alt(Allowed(f))) /\ pc' = [pc EXCEPT ![f] = "alt"]
      BY <1>0, <1>2, <2>1 DEF Issue, Acts, Inv, Types, Alt
    <2>2. CASE Stop(f) /\ pc' = [pc EXCEPT ![f] = "alt"]
      BY <1>0, <1>2, <2>2 DEF Stop, Acts, Inv, Types
    <2>3. CASE Issue(f, Input(k1[f])) /\ pc' = [pc EXCEPT ![f] = "held"]
      BY <1>0, <1>2, <2>3 DEF Issue, Acts, Inv, Types, Input
    <2> QED BY <1>1, <2>1, <2>2, <2>3
  <1>4. /\ Talks' /\ \A id \in Philos : Received(id)' = Received(id)
        /\ \A q \in Servers : q # f => Same(q)
    BY <1>0, <1>3, ServerActs
  <1>5. AtTable' = AtTable /\ \A id \in Philos, g \in Forks : Has(id, g)' <=> Has(id, g)
    BY <1>4, NothingNew
  <1>6. Types'
    BY <1>2, <1>3 DEF Acts, Inv, Types
  <1>7. FootmanKnows'
    <2>1. FootmanKnows /\ Same(FOOTMAN)
      BY <1>4, Roles DEF Inv
    <2> QED BY <1>2, <1>5, <2>1, FootmanUnaware
  <1>8. ASSUME NEW g \in Forks, g # f PROVE ForkKnows(g)'
    <2>1. ForkKnows(g) /\ Same(g) /\ \A id \in Philos : Has(id, g)' <=> Has(id, g)
      BY <1>4, <1>5, <1>8, Roles DEF Inv
    <2> QED BY <2>1, ForkUnaware
  <1>9. ForkKnows(f)'
    <2>1. ForkKnows(f) /\ st[f] = NoOp /\ running[f]
      BY <1>2 DEF Inv, Ready
    <2>2. CASE Lying(f) /\ \A id \in Philos : ~Has(id, f)
      <3>1. ~Held(f)
        BY <2>1, <2>2 DEF Lying, Held
      <3>2. pc'[f] = "alt" /\ (st'[f] = Alt(Allowed(f)) \/ (st'[f] = NoOp /\ ~running'[f]))
        BY <1>0, <1>1, <2>1, <3>1 DEF Issue, Stop, Inv, Types
      <3>3. Lying(f)'
        BY <3>2, Roles DEF Lying, Alt, Allowed
      <3> QED BY <1>5, <2>2, <3>3 DEF ForkKnows
    <2>3. CASE Picked(f) /\ \A id \in Philos : Has(id, f) <=> id = k1[f]
      <3>1. pc[f] = "alt" /\ data[f] = "PICKUP"
        BY <2>1, <2>3, Roles DEF Picked, Input
      <3>2. Held(f)
        BY <3>1 DEF cutlery, Held, PutBack, OneDone
      <3>3. st'[f] = Input(k1[f]) /\ pc'[f] = "held" /\ k1' = k1
        BY <1>0, <1>1, <3>2 DEF Issue, Inv, Types
      <3>4. Picked(f)'
        BY <3>3 DEF Picked, Input
      <3> QED BY <1>5, <2>3, <3>3, <3>4 DEF ForkKnows
    <2> QED BY <2>1, <2>2, <2>3 DEF ForkKnows
  <1> QED BY <1>4, <1>6, <1>7, <1>8, <1>9 DEF Inv

\* sitdown adds a philosopher to the table.
LEMMA SitsDown ==
    ASSUME Types, NEW S, Table(S), NEW id, id \notin S, seated < PHILOS - 1, sitdown(id)
    PROVE  /\ TableOf(arr', seated', S \cup {id}) /\ seated' \in 0 .. PHILOS - 1
           /\ arr' = [k \in 0 .. PHILOS - 2 |-> arr'[k]]
  <1>1. PHILOS \in Nat /\ seated \in 0 .. PHILOS - 2 /\ seated' = seated + 1
    BY DDiningAssumption DEF Types, sitdown
  <1>2. /\ arr'[seated] = id /\ \A k \in 0 .. PHILOS - 2 : k # seated => arr'[k] = arr[k]
        /\ arr' = [k \in 0 .. PHILOS - 2 |-> arr'[k]]
    BY <1>1 DEF Types, sitdown
  <1>3. 0 .. seated' - 1 = (0 .. seated - 1) \cup {seated}
    BY <1>1
  <1>4. \A k \in 0 .. seated - 1 : k \in 0 .. PHILOS - 2 /\ k # seated /\ arr'[k] = arr[k]
    BY <1>1, <1>2
  <1>5. S \cup {id} = {arr'[k] : k \in 0 .. seated' - 1}
    BY <1>2, <1>3, <1>4 DEF Table, TableOf
  <1>6. \A j, k \in 0 .. seated' - 1 : arr'[j] = arr'[k] => j = k
    BY <1>2, <1>3, <1>4 DEF Table, TableOf
  <1> QED BY <1>1, <1>2, <1>5, <1>6 DEF Table, TableOf

\* getup takes one from the table, wherever it is and whatever the entries past
\* the last one hold.
LEMMA GetsUp ==
    ASSUME Types, NEW S, Table(S), NEW id, id \in S, getup(id)
    PROVE  /\ TableOf(arr', seated', S \ {id}) /\ seated' \in 0 .. PHILOS - 1
           /\ arr' = [k \in 0 .. PHILOS - 2 |-> arr'[k]]
  <1>1. PICK x \in 0 .. seated - 1 : arr[x] = id
    BY DEF Table, TableOf
  <1>2. PHILOS \in Nat /\ seated \in 1 .. PHILOS - 1 /\ DOMAIN arr = 0 .. PHILOS - 2
    BY <1>1, DDiningAssumption DEF Types
  <1>3. x \in Entries(id) /\ Entries(id) \subseteq 0 .. PHILOS - 2
    BY <1>1, <1>2 DEF Entries
  <1>4. find(id) = x
    <2>1. \A k \in Entries(id) : k < seated => k = x
      BY <1>1, <1>2 DEF Entries, Table, TableOf
    <2>2. \A k \in Entries(id) : x <= k
      BY <1>1, <1>2, <1>3, <2>1
    <2>3. \A k \in Entries(id) : (\A m \in Entries(id) : k <= m) => k = x
      BY <1>1, <1>2, <1>3, <2>2
    <2>4. find(id) \in Entries(id) /\ \A m \in Entries(id) : find(id) <= m
      BY <1>3, <2>2 DEF find
    <2> QED BY <2>3, <2>4
  <1>5. /\ arr' = [arr EXCEPT ![x] = arr[seated - 1]] /\ seated' = seated - 1
    BY <1>3, <1>4 DEF getup
  <1>6. /\ arr' = [k \in 0 .. PHILOS - 2 |-> arr'[k]] /\ seated' \in 0 .. PHILOS - 1
        /\ \A k \in 0 .. seated' - 1 : arr'[k] = IF k = x THEN arr[seated - 1] ELSE arr[k]
    <2>1. arr' = [k \in 0 .. PHILOS - 2 |-> arr'[k]]
      BY <1>2, <1>5
    <2>2. seated' \in 0 .. PHILOS - 1 /\ \A k \in 0 .. seated' - 1 : k \in 0 .. PHILOS - 2
      BY <1>2, <1>5
    <2>3. \A k \in 0 .. PHILOS - 2 : arr'[k] = IF k = x THEN arr[seated - 1] ELSE arr[k]
      BY <1>2, <1>5
    <2> QED BY <2>1, <2>2, <2>3
  <1>7. \A j, k \in 0 .. seated' - 1 : arr'[j] = arr'[k] => j = k
    BY <1>1, <1>2, <1>5, <1>6 DEF Table, TableOf
  <1>8. S \ {id} = {arr'[k] : k \in 0 .. seated' - 1}
    <2>1. ASSUME NEW k \in 0 .. seated' - 1 PROVE arr'[k] \in S \ {id}
      <3>1. CASE k = x
        BY <1>1, <1>2, <1>5, <1>6, <3>1 DEF Table, TableOf
      <3>2. CASE k # x
        BY <1>1, <1>2, <1>5, <1>6, <3>2 DEF Table, TableOf
      <3> QED BY <3>1, <3>2
    <2>2. ASSUME NEW e \in S \ {id} PROVE \E k \in 0 .. seated' - 1 : e = arr'[k]
      <3>1. PICK k \in 0 .. seated - 1 : e = arr[k]
        BY DEF Table, TableOf
      <3>2. k # x
        BY <1>1, <3>1
      <3>3. CASE k = seated - 1
        <4>1. x \in 0 .. seated' - 1 /\ arr'[x] = e
          BY <1>1, <1>2, <1>5, <1>6, <3>1, <3>2, <3>3
        <4> QED BY <4>1
      <3>4. CASE k # seated - 1
        <4>1. k \in 0 .. seated' - 1 /\ arr'[k] = e
          BY <1>2, <1>5, <1>6, <3>1, <3>2, <3>4
        <4> QED BY <4>1
      <3> QED BY <3>3, <3>4
    <2> QED BY <2>1, <2>2
  <1> QED BY <1>6, <1>7, <1>8 DEF Table, TableOf

\* The footman does what he was told and listens again.
LEMMA FootmanStep ==
    ASSUME Inv, footman
    PROVE  Inv'
  <1>0. FOOTMAN \in Servers /\ FOOTMAN \in Proc /\ FOOTMAN \notin Philos /\ FOOTMAN \notin Forks
    BY Roles
  <1>1. /\ Ready(FOOTMAN) /\ said' = said /\ pc' = [pc EXCEPT ![FOOTMAN] = "alt"]
        /\ Stop(FOOTMAN) \/ Issue(FOOTMAN, Alt(Heard(seated', arr')))
    BY DEF footman
  <1>2. Acts(FOOTMAN)
    <2>1. CASE Issue(FOOTMAN, Alt(Heard(seated', arr')))
      BY <1>0, <1>1, <2>1 DEF Issue, Acts, Inv, Types, Alt
    <2>2. CASE Stop(FOOTMAN)
      BY <1>0, <1>1, <2>2 DEF Stop, Acts, Inv, Types
    <2> QED BY <1>1, <2>1, <2>2
  <1>3. /\ Talks' /\ \A id \in Philos : Received(id)' = Received(id)
        /\ \A q \in Servers : q # FOOTMAN => Same(q)
    BY <1>0, <1>2, ServerActs
  <1>4. AtTable' = AtTable /\ \A id \in Philos, g \in Forks : Has(id, g)' <=> Has(id, g)
    BY <1>3, NothingNew
  <1>5. ASSUME NEW g \in Forks PROVE ForkKnows(g)'
    <2>1. ForkKnows(g) /\ Same(g) /\ \A id \in Philos : Has(id, g)' <=> Has(id, g)
      BY <1>0, <1>3, <1>4, Roles DEF Inv
    <2> QED BY <2>1, ForkUnaware
  <1>6. /\ Table(AtTable)' /\ seated' \in 0 .. PHILOS - 1
        /\ arr' = [k \in 0 .. PHILOS - 2 |-> arr'[k]]
    <2>0. /\ FootmanKnows /\ st[FOOTMAN] = NoOp /\ running[FOOTMAN] /\ Types
          /\ NoOp # Alt(Heard(seated, arr))
      BY <1>1, Roles DEF Inv, Ready, Alt
    <2>1. CASE UNCHANGED <<arr, seated>> /\ Table(AtTable)
      BY <1>4, <2>0, <2>1 DEF Table, Types
    <2>2. CASE pc[FOOTMAN] = "start"
      BY <2>0, <2>1, <2>2 DEF footman, Obeys, FootmanKnows
    <2>3. CASE pc[FOOTMAN] # "start" /\ data[FOOTMAN] = "DONE"
      <3>1. UNCHANGED <<arr, seated>>
        BY <2>3 DEF footman, Obeys
      <3> QED BY <2>0, <2>1, <2>3, <3>1 DEF FootmanKnows
    <2>4. CASE pc[FOOTMAN] # "start" /\ data[FOOTMAN] = "SITDOWN"
      <3>1. PICK id : id = k1[FOOTMAN]
        OBVIOUS
      <3>2. PICK S : S = AtTable \ {id}
        OBVIOUS
      <3>3. id \in AtTable /\ seated < PHILOS - 1 /\ Table(S)
        BY <2>0, <2>4, <3>1, <3>2 DEF FootmanKnows
      <3>4. sitdown(id)
        BY <2>4, <3>1, <3>3, DDiningAssumption DEF footman, Obeys
      <3>5. id \notin S /\ S \cup {id} = AtTable'
        BY <1>4, <3>2, <3>3
      <3>6. /\ TableOf(arr', seated', S \cup {id}) /\ seated' \in 0 .. PHILOS - 1
            /\ arr' = [k \in 0 .. PHILOS - 2 |-> arr'[k]]
        BY <2>0, <3>3, <3>4, <3>5, SitsDown
      <3> QED BY <3>5, <3>6 DEF Table
    <2>5. CASE pc[FOOTMAN] # "start" /\ data[FOOTMAN] = "GETUP"
      <3>1. PICK id : id = k1[FOOTMAN]
        OBVIOUS
      <3>2. PICK S : S = AtTable \cup {id}
        OBVIOUS
      <3>3. id \notin AtTable /\ Table(S)
        BY <2>0, <2>5, <3>1, <3>2 DEF FootmanKnows
      <3>4. getup(id)
        BY <2>5, <3>1 DEF footman, Obeys
      <3>5. id \in S /\ S \ {id} = AtTable'
        BY <1>4, <3>2, <3>3
      <3>6. /\ TableOf(arr', seated', S \ {id}) /\ seated' \in 0 .. PHILOS - 1
            /\ arr' = [k \in 0 .. PHILOS - 2 |-> arr'[k]]
        BY <2>0, <3>3, <3>4, <3>5, GetsUp
      <3> QED BY <3>5, <3>6 DEF Table
    <2> QED BY <2>0, <2>2, <2>3, <2>4, <2>5 DEF FootmanKnows
  <1>7. Types'
    BY <1>1, <1>2, <1>6 DEF Acts, Inv, Types
  <1>8. FootmanKnows'
    <2>1. pc'[FOOTMAN] = "alt"
      BY <1>0, <1>1 DEF Inv, Types
    <2>2. CASE Issue(FOOTMAN, Alt(Heard(seated', arr')))
      <3>1. st'[FOOTMAN] = Alt(Heard(seated', arr'))
        BY <1>0, <2>2 DEF Issue, Inv, Types
      <3> QED BY <1>6, <2>1, <3>1 DEF FootmanKnows, Alt, Heard
    <2>3. CASE Stop(FOOTMAN)
      <3>1. st'[FOOTMAN] = NoOp /\ ~running'[FOOTMAN]
        BY <1>0, <2>3 DEF Stop, Inv, Types
      <3> QED BY <1>6, <3>1 DEF FootmanKnows
    <2> QED BY <1>1, <2>2, <2>3
  <1> QED BY <1>3, <1>5, <1>7, <1>8 DEF Inv

-----------------------------------------------------------------------------
(* What forks and the footman are told. *)

\* What the message d of philosopher s to process r changes.
Tells(s, r, d) ==
    \/ /\ d = "PICKUP" /\ r \in Forks /\ ~Has(s, r) /\ Has(s, r)' /\ AtTable' = AtTable
       /\ \A f \in Forks : f # r => (Has(s, f)' <=> Has(s, f))
    \/ /\ d = "PUTDOWN" /\ r \in Forks /\ Has(s, r) /\ ~Has(s, r)' /\ AtTable' = AtTable
       /\ \A f \in Forks : f # r => (Has(s, f)' <=> Has(s, f))
    \/ /\ d = "DONE" /\ AtTable' = AtTable /\ s \notin AtTable
       /\ \A f \in Forks : ~Has(s, f) /\ ~Has(s, f)'
    \/ /\ d = "SITDOWN" /\ r = FOOTMAN /\ s \notin AtTable /\ AtTable' = AtTable \cup {s}
       /\ \A f \in Forks : Has(s, f)' <=> Has(s, f)
    \/ /\ d = "GETUP" /\ r = FOOTMAN /\ s \in AtTable /\ AtTable' = AtTable \ {s}
       /\ \A f \in Forks : Has(s, f)' <=> Has(s, f)

\* A philosopher picks up what it does not have, puts down what it has, and is
\* DONE when it has nothing.
LEMMA WhatItTells ==
    ASSUME NEW s \in Philos, NEW x, NEW b, NEW a, SaysOK(s, x, b, a),
           Known(s) = b, Known(s)' = a, \A id \in Philos : id # s => Known(id)' = Known(id)
    PROVE  Tells(s, x.corr, x.data) /\ x.corr \in Servers
  <1>1. own(s) \in Forks /\ nbr(s) \in Forks /\ own(s) # nbr(s)
    BY TwoForks
  <1>2. (s \in AtTable <=> b > 0) /\ (s \in AtTable' <=> a > 0)
    BY DEF AtTable
  <1>3. \A id : id # s => (id \in AtTable' <=> id \in AtTable)
    BY DEF AtTable
  <1>4. \A f : Has(s, f) <=> (own(s) = f /\ b \in 2 .. 4) \/ (nbr(s) = f /\ b = 3)
    BY DEF Has
  <1>5. \A f : Has(s, f)' <=> (own(s) = f /\ a \in 2 .. 4) \/ (nbr(s) = f /\ a = 3)
    BY DEF Has
  <1>6. CASE b = 0 /\ a = 1 /\ x = Output(FOOTMAN, "SITDOWN")
    <2>1. x.corr = FOOTMAN /\ x.data = "SITDOWN"
      BY <1>6 DEF Output
    <2>2. s \notin AtTable /\ AtTable' = AtTable \cup {s}
      BY <1>2, <1>3, <1>6
    <2>3. \A f \in Forks : Has(s, f)' <=> Has(s, f)
      BY <1>4, <1>5, <1>6
    <2> QED BY <2>1, <2>2, <2>3, Roles DEF Tells
  <1>7. CASE b = 5 /\ a = 0 /\ x = Output(FOOTMAN, "GETUP")
    <2>1. x.corr = FOOTMAN /\ x.data = "GETUP"
      BY <1>7 DEF Output
    <2>2. s \in AtTable /\ AtTable' = AtTable \ {s}
      BY <1>2, <1>3, <1>7
    <2>3. \A f \in Forks : Has(s, f)' <=> Has(s, f)
      BY <1>4, <1>5, <1>7
    <2> QED BY <2>1, <2>2, <2>3, Roles DEF Tells
  <1>8. CASE b = 0 /\ a = 0 /\ \E p \in {own(s), nbr(s), FOOTMAN} : x = Output(p, "DONE")
    <2>1. x.corr \in {own(s), nbr(s), FOOTMAN} /\ x.data = "DONE"
      BY <1>8 DEF Output
    <2>2. s \notin AtTable /\ AtTable' = AtTable
      BY <1>2, <1>3, <1>8
    <2>3. \A f \in Forks : ~Has(s, f) /\ ~Has(s, f)'
      BY <1>4, <1>5, <1>8
    <2> QED BY <1>1, <2>1, <2>2, <2>3, Roles DEF Tells
  <1>9. CASE \/ b = 1 /\ a = 2 /\ x = Output(own(s), "PICKUP")
             \/ b = 2 /\ a = 3 /\ x = Output(nbr(s), "PICKUP")
    <2>1. x.data = "PICKUP" /\ x.corr \in Forks
      BY <1>1, <1>9 DEF Output
    <2>2. AtTable' = AtTable
      BY <1>2, <1>3, <1>9
    <2>3. /\ ~Has(s, x.corr) /\ Has(s, x.corr)'
          /\ \A f \in Forks : f # x.corr => (Has(s, f)' <=> Has(s, f))
      BY <1>1, <1>4, <1>5, <1>9 DEF Output
    <2> QED BY <2>1, <2>2, <2>3, Roles DEF Tells
  <1>10. CASE \/ b = 3 /\ a = 4 /\ x = Output(nbr(s), "PUTDOWN")
              \/ b = 4 /\ a = 5 /\ x = Output(own(s), "PUTDOWN")
    <2>1. x.data = "PUTDOWN" /\ x.corr \in Forks
      BY <1>1, <1>10 DEF Output
    <2>2. AtTable' = AtTable
      BY <1>2, <1>3, <1>10
    <2>3. /\ Has(s, x.corr) /\ ~Has(s, x.corr)'
          /\ \A f \in Forks : f # x.corr => (Has(s, f)' <=> Has(s, f))
      BY <1>1, <1>4, <1>5, <1>10 DEF Output
    <2> QED BY <2>1, <2>2, <2>3, Roles DEF Tells
  <1> QED BY <1>6, <1>7, <1>8, <1>9, <1>10 DEF SaysOK

\* A message passes from a philosopher to a fork or to the footman, who are ready
\* for it and know what to make of it.
LEMMA PassStep ==
    ASSUME Inv, NEW s \in Proc, NEW r \in Proc, Pass(s, r), UNCHANGED progVars
    PROVE  Inv'
  <1>1. /\ st[s].op = "OUT" /\ st[s].corr = r /\ ~taken[s] /\ Accepts(r, s)
        /\ UNCHANGED <<said, np, seated, arr, pc, running>>
    BY DEF Pass, Offers, progVars
  <1>2. s \in Philos /\ said[s] > 0 /\ st[s] = Says(s, said[s] - 1)
    BY <1>1 DEF Inv, Talks
  <1>3. PICK x, d : x = st[s] /\ d = st[s].data
    OBVIOUS
  <1>4. SaysOK(s, x, Phase(said[s] - 1), Phase(said[s]))
    BY <1>2, <1>3, WhatWasSaid DEF Inv
  <1>5. /\ data' = [data EXCEPT ![r] = d] /\ st' = [st EXCEPT ![r] = NoOp]
        /\ taken' = [taken EXCEPT ![s] = TRUE]
        /\ k1' = IF st[r].op = "ALT" THEN [k1 EXCEPT ![r] = s] ELSE k1
    BY <1>3 DEF Pass
  <1>6. r \in Servers /\ r # s /\ r \notin Philos
    <2>1. st[r].op # "OUT" \/ (r \in Philos /\ said[r] > 0 /\ st[r] = Says(r, said[r] - 1))
      BY DEF Inv, Talks
    <2>2. st[r].op \in {"IN", "ALT"}
      BY <1>1 DEF Accepts
    <2>3. r \in Philos /\ said[r] > 0 => Says(r, said[r] - 1).op = "OUT"
      BY WhatWasSaid DEF Inv
    <2>4. st[r] # NoOp /\ st[r].op # "OUT"
      BY <2>2, Roles
    <2>5. r \in Servers
      BY <2>1, <2>3, <2>4 DEF Inv, Talks
    <2> QED BY <1>2, <2>5, Roles
  <1>7. Types'
    BY <1>1, <1>5 DEF Inv, Types
  <1>8. /\ st'[s] = st[s] /\ taken'[s] /\ st'[r] = NoOp
        /\ \A p \in Proc : p # r => st'[p] = st[p]
        /\ \A p \in Proc : p # s => taken'[p] = taken[p]
        /\ \A p \in Proc : p # r => data'[p] = data[p] /\ k1'[p] = k1[p]
        /\ data'[r] = d /\ k1'[r] = IF st[r].op = "ALT" THEN s ELSE k1[r]
    BY <1>5, <1>6 DEF Inv, Types
  <1>9. Received(s) = said[s] - 1 /\ Received(s)' = said[s]
    <2>1. said[s] \in Nat
      BY <1>2 DEF Inv, Types
    <2> QED BY <1>1, <1>8, <2>1 DEF Received
  <1>10. Known(s) = Phase(said[s] - 1) /\ Known(s)' = Phase(said[s])
    BY <1>9 DEF Known, Phase
  <1>11. \A id \in Philos : id # s => Known(id)' = Known(id)
    <2>1. \A id \in Philos : id # s => Received(id)' = Received(id)
      BY <1>1, <1>6, <1>8, Roles DEF Received
    <2> QED BY <2>1 DEF Known
  <1>12. Tells(s, r, d)
    <2>1. PICK b, a : b = Known(s) /\ a = Known(s)'
      OBVIOUS
    <2>2. SaysOK(s, x, b, a) /\ x.corr = r /\ x.data = d
      BY <1>1, <1>3, <1>4, <1>10, <2>1
    <2> QED BY <1>2, <1>11, <2>1, <2>2, WhatItTells
  <1>13. Talks'
    <2>1. ASSUME NEW q \in Proc
          PROVE  \/ st'[q].op # "OUT" /\ ~taken'[q] /\ (q \notin Servers => st'[q] = NoOp)
                 \/ q \in Philos /\ said'[q] > 0 /\ st'[q] = Says(q, said'[q] - 1)
      <3>1. CASE q = s
        BY <1>1, <1>2, <1>8, <3>1
      <3>2. CASE q = r
        <4>1. st[r].op # "OUT" /\ ~taken[r]
          BY <1>1, <1>6 DEF Inv, Talks
        <4> QED BY <1>6, <1>8, <3>2, <4>1, Roles
      <3>3. CASE q # s /\ q # r
        BY <1>1, <1>8, <3>3 DEF Inv, Talks
      <3> QED BY <3>1, <3>2, <3>3
    <2> QED BY <2>1 DEF Talks
  <1>14. \A q \in Servers : q # r => Same(q)
    BY <1>1, <1>8, Roles DEF Same
  <1>15. \A id \in Philos, f \in Forks : id # s => (Has(id, f)' <=> Has(id, f))
    BY <1>11 DEF Has
  <1>16. ASSUME NEW f \in Forks PROVE ForkKnows(f)'
    <2>1. CASE f # r
      <3>1. \A id \in Philos : Has(id, f)' <=> Has(id, f)
        BY <1>12, <1>15, <2>1 DEF Tells
      <3>2. ForkKnows(f) /\ Same(f)
        BY <1>14, <2>1, Roles DEF Inv
      <3> QED BY <3>1, <3>2, ForkUnaware
    <2>2. CASE f = r
      <3>0. ForkKnows(f) /\ f # FOOTMAN /\ d \notin {"SITDOWN", "GETUP"}
        BY <1>12, <2>2, Roles DEF Inv, Tells
      <3>1. CASE Lying(f) /\ \A id \in Philos : ~Has(id, f)
        <4>1. st[f] = Alt(Allowed(f)) /\ pc[f] = "alt"
          BY <1>1, <2>2, <3>1, Roles DEF Lying, Accepts
        <4>2. k1'[f] = s /\ data'[f] = d /\ pc'[f] = "alt" /\ st'[f] = NoOp
          BY <1>1, <1>8, <2>2, <4>1 DEF Alt
        <4>3. CASE d = "PICKUP"
          <5>1. Has(s, f)'
            BY <1>12, <2>2, <4>3 DEF Tells
          <5>2. \A id \in Philos : Has(id, f)' <=> id = k1'[f]
            BY <1>15, <3>1, <4>2, <5>1
          <5>3. Picked(f)'
            BY <4>2, <4>3 DEF Picked
          <5> QED BY <5>2, <5>3 DEF ForkKnows
        <4>4. CASE d = "DONE"
          <5>1. ~Has(s, f)'
            BY <1>12, <2>2, <4>4 DEF Tells
          <5>2. \A id \in Philos : ~Has(id, f)'
            BY <1>15, <3>1, <5>1
          <5>3. Lying(f)'
            BY <4>2, <4>4 DEF Lying
          <5> QED BY <5>2, <5>3 DEF ForkKnows
        <4>5. d # "PUTDOWN"
          BY <1>2, <1>12, <2>2, <3>1 DEF Tells
        <4> QED BY <1>12, <3>0, <4>3, <4>4, <4>5 DEF Tells
      <3>2. CASE Picked(f) /\ \A id \in Philos : Has(id, f) <=> id = k1[f]
        <4>1. st[f] = Input(k1[f]) /\ pc[f] = "held"
          BY <1>1, <2>2, <3>2, Roles DEF Picked, Accepts
        <4>2. k1[f] = s
          BY <1>1, <2>2, <4>1 DEF Accepts, Input
        <4>3. Has(s, f)
          BY <1>2, <3>2, <4>2
        <4>4. d = "PUTDOWN" /\ ~Has(s, f)'
          BY <1>12, <2>2, <3>0, <4>3 DEF Tells
        <4>5. \A id \in Philos : ~Has(id, f)'
          BY <1>15, <3>2, <4>2, <4>4
        <4>6. data'[f] = d /\ pc'[f] = "held" /\ st'[f] = NoOp
          BY <1>1, <1>8, <2>2, <4>1
        <4>7. Lying(f)'
          BY <4>4, <4>6 DEF Lying
        <4> QED BY <4>5, <4>7 DEF ForkKnows
      <3> QED BY <3>0, <3>1, <3>2 DEF ForkKnows
    <2> QED BY <2>1, <2>2
  <1>17. FootmanKnows'
    <2>1. CASE r # FOOTMAN
      <3>1. AtTable' = AtTable
        BY <1>12, <2>1 DEF Tells
      <3>2. FootmanKnows /\ Same(FOOTMAN)
        BY <1>14, <2>1, Roles DEF Inv
      <3> QED BY <1>1, <3>1, <3>2, FootmanUnaware
    <2>2. CASE r = FOOTMAN
      <3>0. d \notin {"PICKUP", "PUTDOWN"}
        BY <1>12, <2>2, Roles DEF Tells
      <3>1. st[FOOTMAN] # NoOp
        BY <1>1, <2>2, Roles DEF Accepts
      <3>2. st[FOOTMAN] = Alt(Heard(seated, arr)) /\ pc[FOOTMAN] = "alt" /\ Table(AtTable)
        BY <3>1 DEF Inv, FootmanKnows
      <3>3. s \in Heard(seated, arr)
        BY <1>1, <2>2, <3>2 DEF Accepts, Alt
      <3>4. /\ st'[FOOTMAN] = NoOp /\ pc'[FOOTMAN] = "alt" /\ data'[FOOTMAN] = d
            /\ k1'[FOOTMAN] = s /\ UNCHANGED <<arr, seated>>
        BY <1>1, <1>8, <2>2, <3>2 DEF Alt
      <3>5. s \notin AtTable => seated < PHILOS - 1
        <4>1. seated = PHILOS - 1 => Heard(seated, arr) = AtTable
          BY <3>2 DEF Heard, Table, TableOf
        <4>2. seated \in 0 .. PHILOS - 1 /\ PHILOS \in Nat
          BY DDiningAssumption DEF Inv, Types
        <4> QED BY <3>3, <4>1, <4>2
      <3>6. CASE d = "SITDOWN"
        <4>1. s \notin AtTable /\ AtTable' = AtTable \cup {s}
          BY <1>12, <3>6 DEF Tells
        <4>2. k1'[FOOTMAN] \in AtTable' /\ AtTable' \ {k1'[FOOTMAN]} = AtTable
          BY <3>4, <4>1
        <4>3. Table(AtTable \ {k1[FOOTMAN]})'
          BY <3>2, <3>4, <4>2 DEF Table
        <4> QED BY <3>4, <3>5, <3>6, <4>1, <4>2, <4>3 DEF FootmanKnows
      <3>7. CASE d = "GETUP"
        <4>1. s \in AtTable /\ AtTable' = AtTable \ {s}
          BY <1>12, <3>7 DEF Tells
        <4>2. k1'[FOOTMAN] \notin AtTable' /\ AtTable' \cup {k1'[FOOTMAN]} = AtTable
          BY <3>4, <4>1
        <4>3. Table(AtTable \cup {k1[FOOTMAN]})'
          BY <3>2, <3>4, <4>2 DEF Table
        <4> QED BY <3>4, <3>7, <4>2, <4>3 DEF FootmanKnows
      <3>8. CASE d = "DONE"
        <4>1. AtTable' = AtTable
          BY <1>12, <3>8 DEF Tells
        <4>2. Table(AtTable)'
          BY <3>2, <3>4, <4>1 DEF Table
        <4> QED BY <3>4, <3>8, <4>2 DEF FootmanKnows
      <3> QED BY <1>12, <3>0, <3>6, <3>7, <3>8 DEF Tells
    <2> QED BY <2>1, <2>2
  <1> QED BY <1>7, <1>13, <1>16, <1>17 DEF Inv

-----------------------------------------------------------------------------
(* The theorems. *)

\* Nobody sits, the forks lie and nobody has said anything.
LEMMA InvInit == Init => Inv
  <1> SUFFICES ASSUME Init PROVE Inv
    OBVIOUS
  <1>1. Types
    BY DDiningAssumption DEF Init, CspInit, Types, Servers, End
  <1>2. Talks
    BY Roles DEF Init, CspInit, Talks
  <1>3. \A id \in Philos : Received(id) = 0
    BY Roles DEF Init, CspInit, Received
  <1>4. \A id \in Philos : Known(id) = 0
    BY <1>3, DDiningAssumption DEF Known
  <1>5. AtTable = {} /\ \A id \in Philos, f \in Forks : ~Has(id, f)
    BY <1>4 DEF AtTable, Has
  <1>6. \A f \in Servers : st[f] = NoOp /\ pc[f] = "start"
    BY Roles DEF Init, CspInit, Servers
  <1>7. \A f \in Forks : ForkKnows(f)
    BY <1>5, <1>6, Roles DEF ForkKnows, Lying
  <1>8. Table(AtTable)
    <2>1. seated = 0 /\ 0 .. seated - 1 = {}
      BY DEF Init
    <2> QED BY <1>5, <2>1 DEF Table, TableOf
  <1>9. FootmanKnows
    BY <1>6, <1>8, Roles DEF FootmanKnows
  <1> QED BY <1>1, <1>2, <1>7, <1>9 DEF Inv

\* Every step of a process and every communication keeps the invariant.
LEMMA InvStep == Inv /\ [Next]_vars => Inv'
  <1> SUFFICES ASSUME Inv, [Next]_vars PROVE Inv'
    OBVIOUS
  <1>1. ASSUME NEW f \in Forks, cutlery(f) PROVE Inv'
    BY <1>1, CutleryStep
  <1>2. ASSUME NEW p \in Proc, philosopher(p) \/ Ends(p) PROVE Inv'
    <2>1. p \notin Servers
      BY <1>2, Roles DEF philosopher, Ends, Servers
    <2> QED BY <1>2, <2>1, QuietStep
  <1>3. ASSUME NEW p \in Proc, Finish(p), UNCHANGED progVars PROVE Inv'
    <2>1. p \in Philos
      BY <1>3 DEF Finish, Inv, Talks
    <2>2. p \notin Servers
      BY <2>1, Roles
    <2> QED BY <1>3, <2>2, QuietStep
  <1>4. ASSUME NEW s \in Proc, NEW r \in Proc, Pass(s, r), UNCHANGED progVars PROVE Inv'
    BY <1>4, PassStep
  <1>5. CASE UNCHANGED vars
    <2>1. /\ UNCHANGED <<running, st, taken, data, k1, said, pc, seated, arr>>
      BY <1>5 DEF vars, cspVars, progVars
    <2>2. \A id \in Philos : Received(id)' = Received(id)
      BY <2>1 DEF Received
    <2>3. AtTable' = AtTable /\ \A id \in Philos, f \in Forks : Has(id, f)' <=> Has(id, f)
      BY <2>2, NothingNew
    <2>4. \A f \in Servers : Same(f)
      BY <2>1 DEF Same
    <2>5. ASSUME NEW f \in Forks PROVE ForkKnows(f)'
      <3>1. ForkKnows(f) /\ Same(f) /\ \A id \in Philos : Has(id, f)' <=> Has(id, f)
        BY <2>3, <2>4, Roles DEF Inv
      <3> QED BY <3>1, ForkUnaware
    <2>6. FootmanKnows'
      <3>1. FootmanKnows /\ Same(FOOTMAN) /\ AtTable' = AtTable /\ UNCHANGED <<arr, seated>>
        BY <2>1, <2>3, <2>4, Roles DEF Inv
      <3> QED BY <3>1, FootmanUnaware
    <2>7. Types' /\ Talks'
      BY <2>1 DEF Inv, Types, Talks
    <2> QED BY <2>5, <2>6, <2>7 DEF Inv
  <1>6. CASE footman
    BY <1>6, FootmanStep
  <1> QED BY <1>1, <1>2, <1>3, <1>4, <1>5, <1>6 DEF Next, Communicates, Waits, Returned

\* The forks and the footman know, up to the message they have just got, who holds
\* what and who sits.
THEOREM Invariant == Spec => []Inv
  BY InvInit, InvStep, PTL DEF Spec

\* A table of n entries, each different, has n members.
LEMMA TableSize ==
    ASSUME NEW a, NEW n \in Nat, NEW S, TableOf(a, n, S)
    PROVE  IsFiniteSet(S) /\ Cardinality(S) = n
  <1> DEFINE I == 0 .. n - 1
             f == [k \in I |-> a[k]]
  <1>1. IsFiniteSet(I) /\ Cardinality(I) = n
    BY FS_Interval
  <1>2. f \in Bijection(I, S)
    BY DEF TableOf, Bijection, Injection, Surjection, IsInjective
  <1> HIDE DEF I, f
  <1>3. ExistsBijection(I, S)
    BY <1>2 DEF ExistsBijection
  <1> QED BY <1>1, <1>3, FS_Bijection

\* How many sit, at any time and while the footman listens.
LEMMA Seats ==
    ASSUME Inv
    PROVE  /\ IsFiniteSet(AtTable) /\ Cardinality(AtTable) < PHILOS
           /\ st[FOOTMAN].op = "ALT" => Table(AtTable) /\ Cardinality(AtTable) = seated
  <1>1. seated \in 0 .. PHILOS - 1 /\ PHILOS \in Nat
    BY DDiningAssumption DEF Inv, Types
  <1>2. ASSUME Table(AtTable)
        PROVE  IsFiniteSet(AtTable) /\ Cardinality(AtTable) = seated
    BY <1>1, <1>2, TableSize DEF Table
  <1>3. ASSUME k1[FOOTMAN] \in AtTable /\ seated < PHILOS - 1 /\ Table(AtTable \ {k1[FOOTMAN]})
        PROVE  IsFiniteSet(AtTable) /\ Cardinality(AtTable) < PHILOS
    <2>1. /\ IsFiniteSet(AtTable \ {k1[FOOTMAN]})
          /\ Cardinality(AtTable \ {k1[FOOTMAN]}) = seated
      BY <1>1, <1>3, TableSize DEF Table
    <2>2. AtTable = (AtTable \ {k1[FOOTMAN]}) \cup {k1[FOOTMAN]}
      BY <1>3
    <2>3. IsFiniteSet(AtTable) /\ Cardinality(AtTable) = seated + 1
      BY <2>1, <2>2, FS_AddElement
    <2> QED BY <1>1, <1>3, <2>3
  <1>4. ASSUME k1[FOOTMAN] \notin AtTable /\ Table(AtTable \cup {k1[FOOTMAN]})
        PROVE  IsFiniteSet(AtTable) /\ Cardinality(AtTable) < PHILOS
    <2>1. /\ IsFiniteSet(AtTable \cup {k1[FOOTMAN]})
          /\ Cardinality(AtTable \cup {k1[FOOTMAN]}) = seated
      BY <1>1, <1>4, TableSize DEF Table
    <2>2. IsFiniteSet(AtTable) /\ Cardinality(AtTable) <= seated
      BY <2>1, FS_Subset
    <2>3. Cardinality(AtTable) \in Nat
      BY <2>2, FS_CardinalityType
    <2> QED BY <1>1, <2>2, <2>3
  <1>5. Table(AtTable) => IsFiniteSet(AtTable) /\ Cardinality(AtTable) < PHILOS
    BY <1>1, <1>2
  <1>6. FootmanKnows
    BY DEF Inv
  <1>7. IsFiniteSet(AtTable) /\ Cardinality(AtTable) < PHILOS
    BY <1>3, <1>4, <1>5, <1>6 DEF FootmanKnows
  <1>8. st[FOOTMAN].op = "ALT" => Table(AtTable)
    BY <1>6, Roles DEF FootmanKnows
  <1> QED BY <1>2, <1>7, <1>8

\* One chair stays empty and no fork is in two hands, although the forks and the
\* footman learn of what they have granted only with the next alt.
THEOREM DExclusive == Spec => []Exclusive
  <1>1. Inv => Exclusive
    <2> SUFFICES ASSUME Inv PROVE Exclusive
      OBVIOUS
    <2>1. Cardinality(AtTable) < PHILOS
      BY Seats
    <2>2. ASSUME NEW k \in Index PROVE Cardinality(Holders(k)) <= 1
      <3>1. fork[k] \in Forks
        BY DEF Forks
      <3>2. Holders(k) = {id \in Philos : Has(id, fork[k])}
        BY DEF Holders, Has
      <3>3. ForkKnows(fork[k])
        BY <3>1 DEF Inv
      <3>4. PICK y : Holders(k) \subseteq {y}
        BY <3>2, <3>3 DEF ForkKnows
      <3>5. IsFiniteSet({y}) /\ Cardinality({y}) = 1
        BY FS_Singleton
      <3> QED BY <3>4, <3>5, FS_Subset
    <2> QED BY <2>1, <2>2 DEF Exclusive
  <1> QED BY <1>1, Invariant, PTL

\* Whenever the footman listens, his table holds the philosophers that sit, each
\* once: getup finds the right entry although it searches the stale ones as well.
THEOREM TableRight == Spec => []TableOK
  <1>1. Inv => TableOK
    BY Seats DEF TableOK, Table, TableOf
  <1> QED BY <1>1, Invariant, PTL

=============================================================================
