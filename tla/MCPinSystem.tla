---------------------------- MODULE MCPinSystem -----------------------------
(* The pin system with one two-bit word of memory.                          *)
EXTENDS PinSystem

Ones == [i \in FieldBits |-> 1]
F(off, size) == [addr |-> 0, off |-> off, size |-> size, data |-> Ones,
                 keep |-> {}, rmw |-> FALSE]

\* A write of the low bit.
LowBit == {[io |-> FALSE, we |-> TRUE, late |-> FALSE, field |-> F(0, 1)]}

\* The external master sets the other bit.  One word is enough: it need not
\* write while it has the bus, so any race can be the first with its write.
HighBit == {[b \in Lanes |-> b]}
=============================================================================
