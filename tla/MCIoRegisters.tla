---------------------------- MODULE MCIoRegisters ----------------------------
(* IoRegisters with the requests that matter to two-bit registers.          *)
EXTENDS IoRegisters, Sequences

Bits(d) == [i \in FieldBits |-> IF i + 1 \in DOMAIN d THEN d[i + 1] ELSE 0]
Req(we, reg, off, d) ==
    [io |-> TRUE, we |-> we, late |-> FALSE,
     field |-> [addr |-> reg, off |-> off, size |-> Len(d), data |-> Bits(d),
                keep |-> {}, rmw |-> FALSE]]

\* A whole register, as interrupts are cleared, and fields beside a latch,
\* cleared or set.
WordRequests == {Req(TRUE, INTPEND, 0, <<0, 1>>)}
PlainRequests ==
    {Req(TRUE, PSIZE, 0, <<1>>), Req(TRUE, PSIZE, 0, <<0>>), Req(TRUE, PSIZE, 1, <<1>>),
     Req(FALSE, PSIZE, 0, <<0, 0>>)}
FieldRequests ==
    {Req(TRUE, INTPEND, WV, <<0>>), Req(TRUE, HSTCTLL, INTIN, <<0>>),
     Req(TRUE, HSTCTLL, INTOUT, <<1>>)}
AllRequests == WordRequests \cup FieldRequests \cup PlainRequests

HostIoWrites ==
    {[io |-> TRUE, we |-> TRUE, addr |-> HSTCTLL, data |-> d] : d \in {ZeroWord, [b \in Lanes |-> 1]}}
NoHostIo == {}
BothWays == {ZeroWord, [b \in Lanes |-> 1]}
=============================================================================
