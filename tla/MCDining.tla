------------------------------ MODULE MCDining ------------------------------
(* An instance of DiningMachine for TLC. *)
EXTENDS DiningMachine

\* .data and .bss of the program: footman = PHILOS - 1, the forks are 0.
MCImage == [b \in 0 .. MemSize - 1 |-> IF b = 0 THEN NSHR - 1 ELSE 0]
MCStdin == {}

\* The instructions of the program.
MCInstrs == {ALU, LoadStack, Ins("WAIT", 0, Zero)}
       \cup {Ins("SW", Addr(s), One) : s \in 1 .. NSHR}
       \cup {Ins("LL", Addr(s), Zero) : s \in 0 .. NSHR}
       \cup {Ins("SC", Addr(s), ToWord(v)) : s \in 0 .. NSHR, v \in -2 .. NSHR}
=============================================================================
