--------------------------- MODULE MCTimedFabric ---------------------------
(* TimedFabric with two-bit words and a two-word address space.             *)
EXTENDS TimedFabric

Ones == [i \in FieldBits |-> 1]
F(addr, off, size) == [addr |-> addr, off |-> off, size |-> size,
                       data |-> Ones, keep |-> {}, rmw |-> FALSE]
Write(f) == [io |-> FALSE, we |-> TRUE,  late |-> TRUE,  field |-> f]

\* A posted partial write with late data: a read cycle and a write cycle, back
\* to back, then the next one behind it.
TimedRequests == {Write(F(0, 0, 1))}

HostWrites == {[io |-> FALSE, we |-> TRUE, addr |-> 0, data |-> ZeroWord]}
=============================================================================
