---------------------------- MODULE RoutingProof ----------------------------
(***************************************************************************)
(* What guidance, Nxt and Oob do on the grid, for every size of it: each   *)
(* hop stays in the network and leads one step closer to the target.  So a *)
(* message alone, as in Route, takes a shortest path; NetProof uses the    *)
(* same lemmas for messages in traffic, and nothing of Route.              *)
(***************************************************************************)
EXTENDS Route, TLAPS

\* Row and column of a node.
Row(n) == n \div Y
Col(n) == n % Y

\* Products with the width of the grid are monotonic.
LEMMA MulMono ==
    ASSUME NEW a \in Int, NEW b \in Int, a < b, NEW y \in Nat
    PROVE  a * y + y <= b * y
  OBVIOUS

\* Ids are made of row and column.
LEMMA DivMod ==
    ASSUME NEW n \in Nat
    PROVE  /\ Row(n) \in Nat /\ Col(n) \in 0 .. Y - 1
           /\ n = Row(n) * Y + Col(n)
  BY GridAssumption DEF Row, Col

\* ... in one way only.
LEMMA DivModUnique ==
    ASSUME NEW n \in Nat, NEW r \in Nat, NEW c \in 0 .. Y - 1, n = r * Y + c
    PROVE  Row(n) = r /\ Col(n) = c
  <1>1. /\ Row(n) \in Nat /\ Col(n) \in 0 .. Y - 1 /\ Y \in Nat
        /\ n = Row(n) * Y + Col(n)
    BY DivMod, GridAssumption
  <1>2. ~(Row(n) < r)
    <2> SUFFICES ASSUME Row(n) < r PROVE FALSE
      OBVIOUS
    <2>1. Row(n) * Y + Y <= r * Y
      BY <1>1, MulMono
    <2> QED BY <1>1, <2>1
  <1>3. ~(r < Row(n))
    <2> SUFFICES ASSUME r < Row(n) PROVE FALSE
      OBVIOUS
    <2>1. r * Y + Y <= Row(n) * Y
      BY <1>1, MulMono
    <2> QED BY <1>1, <2>1
  <1>4. Row(n) = r
    BY <1>1, <1>2, <1>3
  <1> QED BY <1>1, <1>4

-----------------------------------------------------------------------------
(* One hop. *)

\* Ids of the network and those one row beyond it do not wrap around.
LEMMA NoWrap ==
    ASSUME NEW n \in Nat, n < Size + Y
    PROVE  n % U32 = n
  BY GridAssumption DEF Size

\* A lower id in the same column or further east is in a lower row.
LEMMA LowerRow ==
    ASSUME NEW m \in Nat, NEW n \in Nat, m < n, Col(m) >= Col(n)
    PROVE  Row(m) < Row(n)
  <1>1. /\ Row(m) \in Nat /\ Col(m) \in 0 .. Y - 1 /\ m = Row(m) * Y + Col(m)
        /\ Row(n) \in Nat /\ Col(n) \in 0 .. Y - 1 /\ n = Row(n) * Y + Col(n)
        /\ Y \in Nat
    BY DivMod, GridAssumption
  <1>2. Row(m) # Row(n)
    BY <1>1
  <1>3. ~(Row(n) < Row(m))
    <2> SUFFICES ASSUME Row(n) < Row(m) PROVE FALSE
      OBVIOUS
    <2>1. Row(n) * Y + Y <= Row(m) * Y
      BY <1>1, MulMono
    <2> QED BY <1>1, <2>1
  <1> QED BY <1>1, <1>2, <1>3

\* Distributivity, in the one form the rows of the grid need.
LEMMA Succ ==
    ASSUME NEW r \in Int, NEW y \in Int
    PROVE  (r + 1) * y = r * y + y
  OBVIOUS

\* The node to the north is in the next row, the same column.
LEMMA NextRow ==
    ASSUME NEW m \in Nat
    PROVE  m + Y = (Row(m) + 1) * Y + Col(m)
  <1>1. m = Row(m) * Y + Col(m) /\ Row(m) \in Nat /\ Col(m) \in 0 .. Y - 1
    BY DivMod
  <1>2. Y \in Nat
    BY GridAssumption
  <1> DEFINE p == Row(m) * Y
             q == (Row(m) + 1) * Y
  <1>3. q = p + Y
    BY <1>1, <1>2, Succ
  <1>4. p \in Int /\ m = p + Col(m) /\ Col(m) \in Int
    BY <1>1, <1>2
  <1>5. m + Y = q + Col(m)
    <2> HIDE DEF p, q
    <2> QED BY <1>2, <1>3, <1>4
  <1> QED BY <1>5

\* A lower id is not in a higher row.
LEMMA LowerRowOrSame ==
    ASSUME NEW m \in Nat, NEW n \in Nat, m < n
    PROVE  Row(m) <= Row(n)
  <1>1. /\ Row(m) \in Nat /\ Col(m) \in 0 .. Y - 1 /\ m = Row(m) * Y + Col(m)
        /\ Row(n) \in Nat /\ Col(n) \in 0 .. Y - 1 /\ n = Row(n) * Y + Col(n)
        /\ Y \in Nat
    BY DivMod, GridAssumption
  <1> SUFFICES ASSUME Row(n) < Row(m) PROVE FALSE
    BY <1>1
  <1>2. Row(n) * Y + Y <= Row(m) * Y
    BY <1>1, MulMono
  <1> QED BY <1>1, <1>2

\* v is the node at the end of the link olink that guidance chooses in m for a
\* message to n.
Guides(m, n, olink, v) ==
    \/ /\ olink = LINK_EAST /\ Col(m) < Col(n) /\ Row(m) <= Row(n)
       /\ Row(v) = Row(m) /\ Col(v) = Col(m) + 1
    \/ /\ olink = LINK_NORTH /\ Row(m) < Row(n) /\ Col(m) >= Col(n)
       /\ Row(v) = Row(m) + 1 /\ Col(v) = Col(m)
    \/ /\ olink = LINK_WEST /\ Col(m) > Col(n) /\ Row(m) >= Row(n)
       /\ Row(v) = Row(m) /\ Col(v) = Col(m) - 1
    \/ /\ olink = LINK_SOUTH /\ Row(m) > Row(n) /\ Col(m) <= Col(n)
       /\ Row(v) = Row(m) - 1 /\ Col(v) = Col(m)

\* guidance in terms of rows and columns: it stays within the network, and the
\* out-of-bounds test of hop does not fire.
LEMMA GuidedStep ==
    ASSUME NEW m \in Node, NEW n \in Node, m # n
    PROVE  LET olink == guidance(m, n) IN
           /\ olink \in Links /\ ~Oob(m, olink)
           /\ Nxt(m, olink) \in Node
           /\ Guides(m, n, olink, Nxt(m, olink))
  <1> DEFINE olink == guidance(m, n)
  <1>0. /\ X \in Nat /\ Y \in Nat /\ Y > 0 /\ Size \in Nat /\ U32 \in Nat
        /\ m \in Nat /\ n \in Nat /\ m < Size /\ n < Size /\ Size + Y < U32
    BY GridAssumption DEF Size, Node
  <1>1. /\ Row(m) \in Nat /\ Col(m) \in 0 .. Y - 1 /\ m = Row(m) * Y + Col(m)
        /\ Row(n) \in Nat /\ Col(n) \in 0 .. Y - 1 /\ n = Row(n) * Y + Col(n)
    BY <1>0, DivMod
  <1>3. CASE m < n /\ Col(m) < Col(n)
    <2>1. olink = LINK_EAST
      BY <1>0, <1>3 DEF guidance, Col
    <2>2. Nxt(m, olink) = m + 1
      BY <1>0, <1>3, <2>1, NoWrap DEF Nxt, LINK_NORTH, LINK_EAST, LINK_SOUTH, LINK_WEST
    <2>3. Row(m + 1) = Row(m) /\ Col(m + 1) = Col(m) + 1
      BY <1>0, <1>1, <1>3, DivModUnique
    <2>4. ~Oob(m, olink)
      BY <1>0, <1>1, <2>1, <2>2, <2>3
         DEF Oob, Col, LINK_NORTH, LINK_EAST, LINK_SOUTH, LINK_WEST
    <2>5. m + 1 \in Node
      BY <1>0, <1>3 DEF Node
    <2>6. Row(m) <= Row(n)
      BY <1>0, <1>1, <1>3, LowerRowOrSame
    <2> QED BY <1>3, <2>1, <2>2, <2>3, <2>4, <2>5, <2>6 DEF Guides, Links
  <1>4. CASE m < n /\ ~(Col(m) < Col(n))
    <2>1. olink = LINK_NORTH
      BY <1>0, <1>4 DEF guidance, Col
    <2>2. Nxt(m, olink) = m + Y
      BY <1>0, <1>4, <2>1, NoWrap DEF Nxt, LINK_NORTH, LINK_EAST, LINK_SOUTH, LINK_WEST
    <2>3. Row(m) < Row(n)
      BY <1>0, <1>1, <1>4, LowerRow
    <2>4. Row(m + Y) = Row(m) + 1 /\ Col(m + Y) = Col(m)
      <3>1. m + Y = (Row(m) + 1) * Y + Col(m)
        BY <1>0, <1>1, NextRow
      <3> QED BY <1>0, <1>1, <3>1, DivModUnique
    <2>5. m + Y < Size
      <3>1. Row(n) < X
        <4> SUFFICES ASSUME X <= Row(n) PROVE FALSE
          BY <1>0, <1>1
        <4>1. X * Y <= Row(n) * Y
          <5>1. CASE X = Row(n)
            BY <5>1, <1>0, <1>1
          <5>2. CASE X < Row(n)
            <6>1. X * Y + Y <= Row(n) * Y
              BY <1>0, <1>1, <5>2, MulMono
            <6> QED BY <6>1, <1>0, <1>1
          <5> QED BY <5>1, <5>2, <1>0, <1>1
        <4> QED BY <4>1, <1>0, <1>1 DEF Size
      <3>2. Row(m) + 1 < X
        BY <2>3, <3>1, <1>0, <1>1
      <3>3. (Row(m) + 1) * Y + Y <= X * Y
        BY <3>2, <1>0, <1>1, MulMono
      <3>4. m + Y = (Row(m) + 1) * Y + Col(m)
        BY <1>0, <1>1, NextRow
      <3> QED BY <3>3, <3>4, <1>0, <1>1 DEF Size
    <2>6. ~Oob(m, olink)
      BY <1>0, <2>1, <2>2, <2>5 DEF Oob, LINK_NORTH, LINK_EAST, LINK_SOUTH, LINK_WEST
    <2>7. m + Y \in Node
      BY <1>0, <2>5 DEF Node
    <2> QED BY <1>1, <1>4, <2>1, <2>2, <2>3, <2>4, <2>6, <2>7 DEF Guides, Links
  <1>5. CASE n < m /\ Col(m) > Col(n)
    <2>1. olink = LINK_WEST
      BY <1>0, <1>5 DEF guidance, Col
    <2>2. Nxt(m, olink) = m - 1
      BY <1>0, <1>5, <2>1, NoWrap
         DEF Nxt, LINK_NORTH, LINK_EAST, LINK_SOUTH, LINK_WEST
    <2>3. Row(m - 1) = Row(m) /\ Col(m - 1) = Col(m) - 1
      BY <1>0, <1>1, <1>5, DivModUnique
    <2>4. ~Oob(m, olink)
      BY <1>0, <1>1, <2>1, <2>2, <2>3
         DEF Oob, Col, LINK_NORTH, LINK_EAST, LINK_SOUTH, LINK_WEST
    <2>5. m - 1 \in Node
      BY <1>0, <1>5 DEF Node
    <2>6. Row(n) <= Row(m)
      BY <1>0, <1>1, <1>5, LowerRowOrSame
    <2> QED BY <1>5, <2>1, <2>2, <2>3, <2>4, <2>5, <2>6 DEF Guides, Links
  <1>6. CASE n < m /\ ~(Col(m) > Col(n))
    <2>1. olink = LINK_SOUTH
      BY <1>0, <1>6 DEF guidance, Col
    <2>2. Row(n) < Row(m)
      BY <1>0, <1>1, <1>6, LowerRow
    <2>3. m - Y = (Row(m) - 1) * Y + Col(m) /\ m - Y \in Nat
      <3>1. m - Y = (Row(m) - 1) * Y + Col(m)
        BY <1>0, <1>1
      <3>2. (Row(m) - 1) * Y \in Nat
        BY <1>0, <1>1, <2>2
      <3> QED BY <3>1, <3>2, <1>0, <1>1
    <2>4. Nxt(m, olink) = m - Y
      BY <1>0, <2>1, <2>3, NoWrap DEF Nxt, LINK_NORTH, LINK_EAST, LINK_SOUTH, LINK_WEST
    <2>5. Row(m - Y) = Row(m) - 1 /\ Col(m - Y) = Col(m)
      BY <1>0, <1>1, <2>2, <2>3, DivModUnique
    <2>6. ~Oob(m, olink)
      BY <1>0, <2>1, <2>3, <2>4 DEF Oob, LINK_NORTH, LINK_EAST, LINK_SOUTH, LINK_WEST
    <2>7. m - Y \in Node
      BY <1>0, <2>3 DEF Node
    <2> QED BY <1>1, <1>6, <2>1, <2>2, <2>4, <2>5, <2>6, <2>7 DEF Guides, Links
  <1> QED BY <1>0, <1>1, <1>3, <1>4, <1>5, <1>6
\* Row, column and distances of nodes are numbers, and the id follows from the
\* first two.
LEMMA Coordinates ==
    ASSUME NEW m \in Node, NEW n \in Node
    PROVE  /\ Row(m) \in Nat /\ Col(m) \in Nat
           /\ Row(m) = Row(n) /\ Col(m) = Col(n) => m = n
           /\ Dist(m, n) = Abs(Col(m) - Col(n)) + Abs(Row(m) - Row(n))
           /\ Dist(m, n) \in Nat
  <1>1. m \in Nat /\ n \in Nat
    BY GridAssumption DEF Node, Size
  <1>2. /\ Row(m) \in Nat /\ Col(m) \in Nat /\ m = Row(m) * Y + Col(m)
        /\ Row(n) \in Nat /\ Col(n) \in Nat /\ n = Row(n) * Y + Col(n)
    BY <1>1, DivMod, GridAssumption
  <1>3. Dist(m, n) = Abs(Col(m) - Col(n)) + Abs(Row(m) - Row(n))
    BY DEF Dist, Row, Col
  <1> QED BY <1>2, <1>3 DEF Abs

\* guidance leads one step closer.
LEMMA GuidedHop ==
    ASSUME NEW m \in Node, NEW n \in Node, m # n
    PROVE  LET olink == guidance(m, n) IN
           /\ olink \in Links /\ ~Oob(m, olink)
           /\ Nxt(m, olink) \in Node
           /\ Dist(Nxt(m, olink), n) = Dist(m, n) - 1
  <1> DEFINE v == Nxt(m, guidance(m, n))
  <1>1. v \in Node /\ Guides(m, n, guidance(m, n), v)
    BY GuidedStep
  <1> HIDE DEF v
  <1>2. /\ Row(m) \in Nat /\ Col(m) \in Nat /\ Row(n) \in Nat /\ Col(n) \in Nat
        /\ Row(v) \in Nat /\ Col(v) \in Nat
        /\ Dist(v, n) = Abs(Col(v) - Col(n)) + Abs(Row(v) - Row(n))
        /\ Dist(m, n) = Abs(Col(m) - Col(n)) + Abs(Row(m) - Row(n))
    BY <1>1, Coordinates
  <1>3. Dist(v, n) = Dist(m, n) - 1
    BY <1>1, <1>2 DEF Guides, Abs
  <1> QED BY <1>3, GuidedStep DEF v

-----------------------------------------------------------------------------
(* The way of a message. *)

\* u lies between m and n.
Between(m, u, n) ==
    /\ \/ Row(m) <= Row(u) /\ Row(u) <= Row(n)
       \/ Row(n) <= Row(u) /\ Row(u) <= Row(m)
    /\ \/ Col(m) <= Col(u) /\ Col(u) <= Col(n)
       \/ Col(n) <= Col(u) /\ Col(u) <= Col(m)

\* guidance moves along the row first: to the north-east and to the south-west.
RowFirst(m, n) == \/ Col(m) < Col(n) /\ Row(m) <= Row(n)
                  \/ Col(m) > Col(n) /\ Row(m) >= Row(n)

\* The nodes on the way of a message from m to n: one corner at most.
OnWay(m, n, u) ==
    /\ Between(m, u, n)
    /\ IF RowFirst(m, n) THEN Row(u) = Row(m) \/ Col(u) = Col(n)
       ELSE Row(u) = Row(n) \/ Col(u) = Col(m)

\* A message starts on its way ...
LEMMA WayStart ==
    ASSUME NEW m \in Node, NEW n \in Node
    PROVE  OnWay(m, n, m)
  BY Coordinates DEF OnWay, Between

\* ... stays on it ...
LEMMA WayStep ==
    ASSUME NEW m \in Node, NEW n \in Node, NEW u \in Node, u # n,
           OnWay(m, n, u)
    PROVE  LET v == Nxt(u, guidance(u, n)) IN
           /\ v \in Node /\ OnWay(m, n, v)
           /\ Dist(v, n) = Dist(u, n) - 1
           /\ Dist(m, v) = Dist(m, u) + 1
  <1> DEFINE v == Nxt(u, guidance(u, n))
  <1>1. /\ v \in Node /\ Guides(u, n, guidance(u, n), v)
        /\ Dist(v, n) = Dist(u, n) - 1
    BY GuidedStep, GuidedHop
  <1> HIDE DEF v
  <1>2. /\ Row(m) \in Nat /\ Col(m) \in Nat /\ Row(n) \in Nat /\ Col(n) \in Nat
        /\ Row(v) \in Nat /\ Col(v) \in Nat /\ Row(u) \in Nat /\ Col(u) \in Nat
        /\ Dist(m, v) = Abs(Col(m) - Col(v)) + Abs(Row(m) - Row(v))
        /\ Dist(m, u) = Abs(Col(m) - Col(u)) + Abs(Row(m) - Row(u))
    BY <1>1, Coordinates
  <1>3. OnWay(m, n, v)
    BY <1>1, <1>2 DEF Guides, OnWay, Between, RowFirst
  <1>4. Dist(m, v) = Dist(m, u) + 1
    BY <1>1, <1>2 DEF Guides, OnWay, Between, RowFirst, Abs
  <1> QED BY <1>1, <1>3, <1>4 DEF v

\* Two points (ru, cu), (rv, cv) of one corner from (r, c) to (rn, cn), at the
\* same distance from its end.
SameCorner(r, c, ru, cu, rv, cv, rn, cn) ==
    /\ (r <= ru /\ ru <= rn) \/ (rn <= ru /\ ru <= r)
    /\ (r <= rv /\ rv <= rn) \/ (rn <= rv /\ rv <= r)
    /\ (c <= cu /\ cu <= cn) \/ (cn <= cu /\ cu <= c)
    /\ (c <= cv /\ cv <= cn) \/ (cn <= cv /\ cv <= c)
    /\ \/ (ru = r \/ cu = cn) /\ (rv = r \/ cv = cn)
       \/ (ru = rn \/ cu = c) /\ (rv = rn \/ cv = c)
    /\ Abs(cu - cn) + Abs(ru - rn) = Abs(cv - cn) + Abs(rv - rn)

\* They are the same point: the arithmetic of WayUnique.
LEMMA Corner ==
    ASSUME NEW r \in Nat, NEW c \in Nat, NEW ru \in Nat, NEW cu \in Nat,
           NEW rv \in Nat, NEW cv \in Nat, NEW rn \in Nat, NEW cn \in Nat,
           SameCorner(r, c, ru, cu, rv, cv, rn, cn)
    PROVE  ru = rv /\ cu = cv
  BY SMTT(30) DEF Abs, SameCorner

\* ... and comes closer to its target without ever being in two nodes at the
\* same distance.
LEMMA WayUnique ==
    ASSUME NEW m \in Node, NEW n \in Node, NEW u \in Node, NEW v \in Node,
           OnWay(m, n, u), OnWay(m, n, v), Dist(u, n) = Dist(v, n)
    PROVE  u = v
  <1>1. /\ Row(m) \in Nat /\ Col(m) \in Nat /\ Row(n) \in Nat /\ Col(n) \in Nat
        /\ Row(v) \in Nat /\ Col(v) \in Nat /\ Row(u) \in Nat /\ Col(u) \in Nat
    BY Coordinates
  <1>2. Abs(Col(u) - Col(n)) + Abs(Row(u) - Row(n))
          = Abs(Col(v) - Col(n)) + Abs(Row(v) - Row(n))
    BY Coordinates
  <1>3. /\ Between(m, u, n) /\ Between(m, v, n)
        /\ \/ /\ Row(u) = Row(m) \/ Col(u) = Col(n)
              /\ Row(v) = Row(m) \/ Col(v) = Col(n)
           \/ /\ Row(u) = Row(n) \/ Col(u) = Col(m)
              /\ Row(v) = Row(n) \/ Col(v) = Col(m)
    BY Zenon DEF OnWay
  <1>4. Row(u) = Row(v) /\ Col(u) = Col(v)
    <2>1. SameCorner(Row(m), Col(m), Row(u), Col(u), Row(v), Col(v), Row(n), Col(n))
      BY <1>2, <1>3, Zenon DEF Between, SameCorner
    <2> QED BY <1>1, <2>1, Corner
  <1> QED BY <1>4, Coordinates

\* No node of the way is further from the target than its start.
LEMMA WayLength ==
    ASSUME NEW m \in Node, NEW n \in Node, NEW u \in Node, OnWay(m, n, u)
    PROVE  Dist(u, n) <= Dist(m, n)
  <1>1. /\ Row(m) \in Nat /\ Col(m) \in Nat /\ Row(n) \in Nat /\ Col(n) \in Nat
        /\ Row(u) \in Nat /\ Col(u) \in Nat
        /\ Dist(u, n) = Abs(Col(u) - Col(n)) + Abs(Row(u) - Row(n))
        /\ Dist(m, n) = Abs(Col(m) - Col(n)) + Abs(Row(m) - Row(n))
    BY Coordinates
  <1> QED BY <1>1 DEF OnWay, Between, Abs

-----------------------------------------------------------------------------
(* One message alone in the network. *)

\* The message is in the network and on a shortest path.
OnPath == /\ src \in Node /\ dst \in Node /\ at \in Node /\ hops \in Nat
          /\ Shortest

\* Every message follows a shortest path and never meets the edge of the network,
\* on a grid of any size whose ids fit the uint32_t of net.c.
THEOREM PathsShortest == RouteSpec => []Shortest
  <1>0. \A m, n \in Node : Dist(m, n) \in Nat
    BY Coordinates
  <1>1. RouteInit => OnPath
    BY <1>0 DEF RouteInit, OnPath, Shortest
  <1>2. OnPath /\ [RouteNext]_routeVars => OnPath'
    <2> SUFFICES ASSUME OnPath, [RouteNext]_routeVars PROVE OnPath'
      OBVIOUS
    <2>1. CASE UNCHANGED routeVars
      BY <2>1 DEF routeVars, OnPath, Shortest
    <2>2. CASE Hop
      <3>1. at # dst
        BY <2>2, GridAssumption DEF Hop, guidance, OnPath, Node, Size
      <3> DEFINE olink == guidance(at, dst)
      <3>2. /\ ~Oob(at, olink) /\ Nxt(at, olink) \in Node
            /\ Dist(Nxt(at, olink), dst) = Dist(at, dst) - 1
        BY <3>1, GuidedHop DEF OnPath
      <3>3. /\ at' = Nxt(at, olink) /\ hops' = hops + 1 /\ stuck' = stuck
            /\ src' = src /\ dst' = dst
        BY <2>2, <3>2 DEF Hop
      <3>4. /\ Dist(at, dst) \in Nat /\ Dist(src, dst) \in Nat
            /\ hops + Dist(at, dst) = Dist(src, dst) /\ ~stuck /\ hops \in Nat
        BY <1>0 DEF OnPath, Shortest
      <3>5. Dist(at', dst') = Dist(at, dst) - 1
        BY <3>2, <3>3
      <3>6. Shortest'
        BY <3>3, <3>4, <3>5 DEF Shortest
      <3> QED BY <3>2, <3>3, <3>6 DEF OnPath
    <2> QED BY <2>1, <2>2 DEF RouteNext, Rest
  <1>3. OnPath => Shortest
    BY DEF OnPath
  <1> QED BY <1>1, <1>2, <1>3, PTL DEF RouteSpec

=============================================================================
