------------------------------ MODULE MCShrMem ------------------------------
(* Instances of ShrMem for TLC. *)
EXTENDS ShrMem

I(op, addr, b) == [op |-> op, addr |-> addr, val |-> SignExt(b)]

MCImage == [b \in 0 .. MemSize - 1 |-> 0]
MCStdin == {SignExt(65)}

\* Bus arbitration: one load, one access that faults, and everything else a
\* processor can do in a cycle.
BusInstrs == {I("LB", 0, 0), I("LW", 2, 0), I("ALU", 0, 0), I("WAIT", 0, 0),
              I("COMM", 0, 0), I("BAD", 0, 0)}

\* LL/SC on two words and on a misaligned address, word and byte stores, and
\* the terminal at address 4, which LL and SC take for memory.
LlscInstrs == {I("LL", 0, 0), I("SC", 0, 1), I("LL", 4, 0), I("SC", 4, 1),
               I("LL", 2, 0), I("SC", 2, 1), I("SW", 0, 1), I("SW", 2, 1),
               I("SB", 0, 200), I("SB", 4, 1), I("LB", 4, 0)}
=============================================================================
