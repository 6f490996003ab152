------------------------------- MODULE MCNet --------------------------------
(* Instances of Net for TLC. *)
EXTENDS Net, TLC

Alu_ == [op |-> "ALU"]
Wait_ == [op |-> "WAIT"]
In_(n) == [op |-> "IN", corr |-> n]
Out(n, d) == [op |-> "OUT", corr |-> n, data |-> d]
Alt(S, df) == [op |-> "ALT", cl |-> S, df |-> df]

\* A line of four: node 1 serves the others, and messages between 0 and 3, whose
\* outputs can cross, pass through it on the links its acknowledgements need.
LineProg == (0 :> {Out(1, "a"), Out(3, "a"), In_(3)})
         @@ (1 :> {Alu_, Alt({0, 2, 3}, FALSE), Alt({0, 2, 3}, TRUE)})
         @@ (2 :> {Out(1, "c"), Alt({}, FALSE)})
         @@ (3 :> {Out(1, "b"), Out(0, "b"), In_(0)})

\* Three rows of two: the messages of 1 and of 2 meet in 3, from where both go
\* north to 5, as do the messages of 3 and its acknowledgements to 4: the link is
\* full for the second of them.
MergeProg == (0 :> {Wait_})
          @@ (1 :> {Alu_, Out(5, "a")})
          @@ (2 :> {Alu_, Out(5, "b")})
          @@ (3 :> {Out(5, "c"), In_(4)})
          @@ (4 :> {Out(3, "d")})
          @@ (5 :> {Alt({1, 2, 3}, FALSE), Alt({1, 2, 3}, TRUE)})

\* Six rows of three with links of four messages: the messages of the first two
\* columns to node 5 all leave node 4 by its east link, and so would the
\* acknowledgement of node 4 to node 5.  Node 1 is the other client of node 4.
TurnProg == [n \in Node |->
    CASE n = 4 -> {Alu_, Alt({1, 5}, FALSE), Alt({1, 5}, TRUE)}
      [] n \in {1, 5} -> {Out(4, "a")}
      [] n = 3 \/ (n > 5 /\ n % Y < 2) -> {Out(5, "a")}
      [] OTHER -> {Wait_}]
=============================================================================
