------------------------------ MODULE Routing -------------------------------
(***************************************************************************)
(* The grid of processors (struct Net: x, y and size) and its routing:     *)
(* `guidance' chooses the output link of a message, `hop' the node and the *)
(* input link at the other end (net.c).  Node ids grow by one to the east  *)
(* and by y to the north.                                                  *)
(***************************************************************************)
EXTENDS Integers

CONSTANTS
    X, Y,     \* net->x and net->y
    U16,      \* 2^16, the modulus of the uint16_t to and from of struct Msg
    U32       \* 2^32, the modulus of the uint32_t ids that hop computes with

Size == X * Y             \* net->size
Node == 0 .. Size - 1

\* The ids fit an uint16_t, so that a message names the nodes it is from and to
\* (nothing in the program checks it), and the id one row beyond the network
\* still fits an uint32_t.
ASSUME GridAssumption == /\ X \in Nat \ {0} /\ Y \in Nat \ {0}
                         /\ U16 \in Nat /\ U32 \in Nat
                         /\ Size <= U16 /\ Size + Y < U32

LINK_NORTH == "north"
LINK_EAST == "east"
LINK_SOUTH == "south"
LINK_WEST == "west"
LINK_MBOX == "mbox"
Links == {LINK_NORTH, LINK_EAST, LINK_SOUTH, LINK_WEST}

\* Faulty: turns east in the column of the target.
guidanceEastFirst(from, to) ==
    CASE from < to -> IF from % Y <= to % Y THEN LINK_EAST ELSE LINK_NORTH
      [] from > to -> IF from % Y > to % Y THEN LINK_WEST ELSE LINK_SOUTH
      [] from = to -> LINK_MBOX

guidance(from, to) ==
    CASE from < to -> IF from % Y < to % Y THEN LINK_EAST ELSE LINK_NORTH
      [] from > to -> IF from % Y > to % Y THEN LINK_WEST ELSE LINK_SOUTH
      [] from = to -> LINK_MBOX

\* nxt of hop, truncated to 32 bits: below 0 it wraps to a huge id.
Nxt(id, olink) == CASE olink = LINK_NORTH -> (id + Y) % U32
                    [] olink = LINK_EAST -> (id + 1) % U32
                    [] olink = LINK_SOUTH -> (id - Y) % U32
                    [] olink = LINK_WEST -> (id - 1) % U32

\* ilink of hop.
Ilink(olink) == CASE olink = LINK_NORTH -> LINK_SOUTH
                  [] olink = LINK_EAST -> LINK_WEST
                  [] olink = LINK_SOUTH -> LINK_NORTH
                  [] olink = LINK_WEST -> LINK_EAST

\* Faulty: the last hop to the west counts as leaving the network.
OobWest(id, olink) ==
    LET nxt == Nxt(id, olink)
    IN  CASE olink = LINK_NORTH -> nxt >= Size \/ nxt < id
          [] olink = LINK_EAST -> nxt % Y = 0
          [] olink = LINK_SOUTH -> nxt > id
          [] olink = LINK_WEST -> nxt % Y = 0 \/ nxt > id

\* oob of hop: the link leaves the network.
Oob(id, olink) ==
    LET nxt == Nxt(id, olink)
    IN  CASE olink = LINK_NORTH -> nxt >= Size \/ nxt < id
          [] olink = LINK_EAST -> nxt % Y = 0
          [] olink = LINK_SOUTH -> nxt > id
          [] olink = LINK_WEST -> nxt % Y = Y - 1 \/ nxt > id

\* Reference: the distance between two nodes of the grid.
Abs(n) == IF n < 0 THEN -n ELSE n
Dist(m, n) == Abs((m % Y) - (n % Y)) + Abs((m \div Y) - (n \div Y))
=============================================================================
