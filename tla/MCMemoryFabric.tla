--------------------------- MODULE MCMemoryFabric ---------------------------
(* MemoryFabric with two-bit words and a three-word address space, and a    *)
(* history of the refresh events.                                           *)
EXTENDS MemoryFabric

VARIABLE due    \* history: an event has come, and no refresh cycle begun since

mcVars == <<vars, due>>

\* While a refresh cycle runs, its row stays in the one entry there is, and an
\* event is dropped; in the clock the cycle ends it no longer is.
RefreshRuns(ack) == arb = "DRAM" /\ ~ack

MCClock(ack, refresh, ioLive) ==
    /\ Clock(ack, refresh, ioLive)
    /\ due' = IF arb # "DRAM" /\ arb' = "DRAM" THEN FALSE
              ELSE due \/ (refresh # NoRow /\ ~RefreshRuns(ack))

MCNext == \E ack \in BOOLEAN, refresh \in Rows \cup {NoRow}, ioLive \in IoValues :
              MCClock(ack, refresh, ioLive)
MCInit == Init /\ due = FALSE
MCSpec == MCInit /\ [][MCNext]_mcVars

\* The clock runs, and the controller ends every cycle.
AckClock == \E refresh \in Rows \cup {NoRow}, ioLive \in IoValues :
                MCClock(TRUE, refresh, ioLive)
MCFairSpec == MCSpec /\ WF_mcVars(MCNext) /\ WF_mcVars(AckClock)

\* Every refresh event that did not come in the middle of a refresh cycle has
\* such a cycle begun for it, once HOLD and the screen fall silent, however
\* busy the host and the CPU keep the bus; one that comes in the very clock
\* the cycle before it ends too.
RefreshServed == <>[](~hold /\ ~screen) => (due ~> ~due)

\* The clients below HOLD and the screen get the bus: refresh events, and the
\* core's accesses once everyone before it is silent.
ClientsServed == RefreshServed /\ CoreServed

-----------------------------------------------------------------------------
(* Requests.                                                                *)

Ones == [i \in FieldBits |-> 1]

F(addr, off, size) == [addr |-> addr, off |-> off, size |-> size,
                       data |-> Ones, keep |-> {}, rmw |-> FALSE]
Write(f)     == [io |-> FALSE, we |-> TRUE,  late |-> FALSE, field |-> f]
LateWrite(f) == [io |-> FALSE, we |-> TRUE,  late |-> TRUE,  field |-> f]
Read(f)      == [io |-> FALSE, we |-> FALSE, late |-> FALSE, field |-> f]

\* Alternating bits tell a misplaced field from a well placed one.
Striped(f) == [f EXCEPT !.data = [i \in FieldBits |-> (i + 1) % 2]]

\* Three words around the end of the address space, the middle one covered.
ThreeWords == F(2, 1, 4)

MemoryRequests ==
    {Write(ThreeWords),
     LateWrite([Striped(F(1, 0, 2)) EXCEPT !.keep = {1}]),
     Write([F(0, 0, 2) EXCEPT !.rmw = TRUE]),
     Read(ThreeWords)}

\* Requests around the request register: I/O accesses, late data for both
\* destinations, a size the hardware does not have.
RegisterRequests ==
    {[io |-> TRUE, we |-> TRUE,  late |-> TRUE,  field |-> F(0, 0, 2)],
     [io |-> TRUE, we |-> FALSE, late |-> FALSE, field |-> F(1, 0, 2)],
     LateWrite(F(0, 1, 1)),
     Read(F(0, 0, 0)),
     Read(F(0, 0, 2))}

Zeroes == {ZeroWord}

HostWrites == {[io |-> FALSE, we |-> TRUE, addr |-> 0, data |-> [b \in Lanes |-> 0]]}
HostIoRead == {[io |-> TRUE, we |-> FALSE, addr |-> 1, data |-> ZeroWord]}

PartialRequests == {Write(F(0, 0, 1)), Read(F(0, 0, 2))}
=============================================================================
