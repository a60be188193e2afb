---------------------------- MODULE IoRegisters -----------------------------
(***************************************************************************)
(* The I/O registers with more than one writer, tms34010_io_regs, and the  *)
(* stages in the core that turn a field write into a write of a whole      *)
(* register, around the memory fabric that orders the CPU's and the host's *)
(* cycles.                                                                 *)
(*                                                                         *)
(* Addresses are three registers:                                          *)
(*   INTPEND   bit 0: DI, the display interrupt's latch;  bit 1: WV        *)
(*   HSTCTLL   bit 0: INTIN, the host interrupts;  bit 1: INTOUT, the GSP  *)
(*             does                                                        *)
(*   PSIZE     a register with no owner but the CPU, of W bits             *)
(* Words may be wider; the first two registers' other bits are left out.   *)
(***************************************************************************)
EXTENDS MemoryFabric

CONSTANTS
    DirectWrites,   \* what the host writes to HSTCTL from its own port
    MinCycle        \* bound: clocks before a cycle may end, fewer than any does

INTPEND == 0
HSTCTLL == 1
PSIZE   == 2
DI == 0
WV == 1
INTIN == 0
INTOUT == 1

ASSUME IoAssumption ==
    /\ W \in Nat /\ W >= 2 /\ NWords = 3
    /\ DirectWrites \subseteq Word
    /\ MinCycle \in Nat \ {0} /\ 0 \in IoValues
    /\ \A r \in CoreRequests : r.io /\ ~r.late /\ r.field.off + r.field.size <= W
    /\ \A r \in HostRequests : r.io /\ r.addr # PSIZE

VARIABLES
    intpend, hstctll, psize,    \* the bits of io_reg
    access,     \* io_access_addr_q, io_request_*_q: the CPU's field
    isIo,       \* io_is_io_q
    rdLate,     \* io_rd_late_q
    words,      \* io_rdata_words_q: the register as it was read
    rdata,      \* io_rdata_q: what a read gets
    merged,     \* io_write_data_q: the register to write
    post,       \* io_post_d1_q, d2_q, d3_q
    age,        \* clocks of the cycle on the bus, up to MinCycle
    intended,   \* history: the write the core made last
    owed,       \* history: events of the latches not yet cleared by anyone
    past,       \* history: owed one and two clocks ago, while a write is made
    wanted      \* history: PSIZE after the writes the core has made

regVars  == <<intpend, hstctll, psize>>
pipeVars == <<access, isIo, rdLate, words, rdata, merged, post>>
ioVars   == <<vars, regVars, pipeVars, age, intended, owed, past, wanted>>

Register(a) == CASE a = INTPEND -> intpend [] a = HSTCTLL -> hstctll [] OTHER -> psize

NoHost == [b \in {} |-> 0]

-----------------------------------------------------------------------------
(* The stages in the core.                                                  *)

\* Fault: the snapshot follows the core's next request at once.
SnapshotAlways == core # NoReq
\* A posted write's snapshot holds until it is merged.
Snapshot == core # NoReq /\ ~post[1] /\ ~post[2]

ReadView == IF CYCLE_ACCURATE THEN Register(access.addr) ELSE Register(core.field.addr)

PipelineClock(ack) ==
    /\ post' = <<CYCLE_ACCURATE /\ core # NoReq /\ core.we /\ CoreAck(ack), post[1], post[2]>>
    /\ isIo' = IF core # NoReq THEN core.io ELSE isIo
    /\ access' = IF Snapshot THEN core.field ELSE access
    /\ rdLate' = (CYCLE_ACCURATE /\ Snapshot)
    /\ words' = IF rdLate \/ (~CYCLE_ACCURATE /\ Snapshot) THEN ReadView ELSE words
    /\ rdata' = IF isIo THEN Justify([k \in 0 .. 2 |-> words], access) ELSE rdata
    /\ merged' = IF isIo \/ post[1] \/ post[2] THEN Merge(words, access, 0) ELSE merged

\* A CPU write reaches the registers when it is acknowledged, or, posted,
\* three clocks after it was taken.
CpuCommit(ack) == IF CYCLE_ACCURATE THEN post[3]
                  ELSE core # NoReq /\ core.we /\ CoreAck(ack)

HostCommit(ack) == arb = "HOST" /\ ack /\ host # NoReq /\ host.we

-----------------------------------------------------------------------------
(* The registers.  Of two writes in a clock the host's is made.             *)

Writes(ack, reg) == IF HostCommit(ack) THEN host.addr = reg
                    ELSE CpuCommit(ack) /\ access.addr = reg
WriteData(ack) == IF HostCommit(ack) THEN host.data ELSE merged
ByCpu(ack)     == CpuCommit(ack) /\ ~HostCommit(ack)

\* A zero clears the latches, an event sets them whatever is written.
\* Fault: the clear wins.
IntpendClearWins(ack, events) ==
    [b \in Lanes |-> IF Writes(ack, INTPEND) /\ WriteData(ack)[b] = 0 THEN 0
                     ELSE IF b \in events THEN 1 ELSE intpend[b]]
IntpendNext(ack, events) ==
    [b \in Lanes |-> IF b \in events THEN 1
                     ELSE IF Writes(ack, INTPEND) /\ WriteData(ack)[b] = 0 THEN 0
                     ELSE intpend[b]]

\* The CPU clears INTIN and sets INTOUT, the host sets INTIN and clears
\* INTOUT; whoever sets wins.
Sets(ack, direct) ==
    {b \in Lanes :
        \/ b = INTIN /\ direct # NoHost /\ direct[INTIN] = 1
        \/ b = INTIN /\ HostCommit(ack) /\ host.addr = HSTCTLL /\ host.data[INTIN] = 1
        \/ b = INTOUT /\ ByCpu(ack) /\ access.addr = HSTCTLL /\ merged[INTOUT] = 1}
Clears(ack, direct) ==
    {b \in Lanes :
        \/ b = INTOUT /\ direct # NoHost /\ direct[INTOUT] = 0
        \/ b = INTOUT /\ HostCommit(ack) /\ host.addr = HSTCTLL /\ host.data[INTOUT] = 0
        \/ b = INTIN /\ ByCpu(ack) /\ access.addr = HSTCTLL /\ merged[INTIN] = 0}
HstctllNext(ack, direct) ==
    [b \in Lanes |-> IF b \in Sets(ack, direct) THEN 1
                     ELSE IF b \in Clears(ack, direct) THEN 0 ELSE hstctll[b]]

RegistersClock(ack, events, direct) ==
    /\ intpend' = IntpendNext(ack, events)
    /\ hstctll' = HstctllNext(ack, direct)
    /\ psize' = IF Writes(ack, PSIZE) THEN WriteData(ack) ELSE psize

-----------------------------------------------------------------------------
(* What each writer meant.                                                  *)

Latches == {"DI", "INTIN", "INTOUT"}
LatchReg(l) == IF l = "DI" THEN INTPEND ELSE HSTCTLL
LatchBit(l) == CASE l = "DI" -> DI [] l = "INTIN" -> INTIN [] l = "INTOUT" -> INTOUT

\* The write that reaches the registers in this clock, as the core made it.  A
\* field of a register goes back with the rest as it stood two clocks ago.
Made == IF CYCLE_ACCURATE THEN intended ELSE core.field
Meaning(l) == IF LatchBit(l) \in WordMask(Made, 0) THEN WordData(Made, 0)[LatchBit(l)]
              ELSE IF l \in past[2] THEN 1 ELSE 0
Says(ack, l, v) == CpuCommit(ack) /\ Made.addr = LatchReg(l) /\ Meaning(l) = v
HostSays(ack, l, v) == HostCommit(ack) /\ host.addr = LatchReg(l) /\ host.data[LatchBit(l)] = v

Raised(l, ack, events, direct) ==
    CASE l = "DI"     -> DI \in events
      [] l = "INTIN"  -> \/ direct # NoHost /\ direct[INTIN] = 1
                         \/ HostSays(ack, l, 1)
      [] l = "INTOUT" -> Says(ack, l, 1)

Cleared(l, ack, direct) ==
    CASE l = "DI"     -> Says(ack, l, 0) \/ HostSays(ack, l, 0)
      [] l = "INTIN"  -> Says(ack, l, 0)
      [] l = "INTOUT" -> \/ direct # NoHost /\ direct[INTOUT] = 0
                         \/ HostSays(ack, l, 0)

\* A write is on its way to the registers.
Underway == IF CYCLE_ACCURATE THEN post[1] \/ post[2] ELSE core # NoReq

Meant(ack, events, direct) ==
    /\ owed' = {l \in Latches :
                   Raised(l, ack, events, direct) \/ (l \in owed /\ ~Cleared(l, ack, direct))}
    /\ past' = IF Underway THEN <<owed, past[1]>> ELSE <<{}, {}>>

Program(ack) ==
    IF core # NoReq /\ core.we /\ CoreAck(ack)
    THEN /\ intended' = core.field
         /\ wanted' = IF core.field.addr = PSIZE THEN Merge(wanted, core.field, 0) ELSE wanted
    ELSE UNCHANGED <<intended, wanted>>

-----------------------------------------------------------------------------
IoInit ==
    /\ Init
    /\ intpend = ZeroWord /\ hstctll = ZeroWord /\ psize = ZeroWord
    /\ access = NoField /\ isIo = FALSE /\ rdLate = FALSE
    /\ words = ZeroWord /\ rdata = ZeroData /\ merged = ZeroWord
    /\ post = <<FALSE, FALSE, FALSE>>
    /\ age = 0 /\ intended = NoField /\ owed = {} /\ past = <<{}, {}>> /\ wanted = ZeroWord

\* The core raises WV in its window checks, not while it writes a register.
Events == IF core = NoReq /\ ~post[1] /\ ~post[2] /\ ~post[3] THEN SUBSET {DI, WV}
          ELSE SUBSET {DI}

\* The host's port does one thing at a time.
Direct == IF host = NoReq THEN DirectWrites \cup {NoHost} ELSE {NoHost}

IoClock(ack, events, direct) ==
    /\ ack => age = MinCycle
    /\ Clock(ack, NoRow, 0)
    /\ PipelineClock(ack)
    /\ RegistersClock(ack, events, direct)
    /\ Meant(ack, events, direct) /\ Program(ack)
    /\ age' = IF arb # "IDLE" /\ ~ack THEN IF age = MinCycle THEN age ELSE age + 1 ELSE 0

IoNext == \E ack \in BOOLEAN, events \in Events, direct \in Direct :
              IoClock(ack, events, direct)

IoSpec == IoInit /\ [][IoNext]_ioVars

-----------------------------------------------------------------------------
(* Properties.                                                              *)

\* A latch shows its events: it is set exactly if one has come that nobody
\* has cleared since.  Writing zero to its bit clears it, and so does a field
\* write of another bit, but only an event younger than the two clocks in which
\* the write goes through the stages; no clear in the clock of the event or
\* before it takes it away, and no write brings an older one back.
LatchesExact ==
    /\ "DI" \in owed <=> intpend[DI] = 1
    /\ "INTIN" \in owed <=> hstctll[INTIN] = 1
    /\ "INTOUT" \in owed <=> hstctll[INTOUT] = 1

\* The registers have one write port: no CPU write and host write come to
\* it in the same clock.
CommittedApart == \A ack \in BOOLEAN :
    (ack => age = MinCycle) => ~(CpuCommit(ack) /\ HostCommit(ack))

\* Field writes that follow each other, and reads after them, see each other
\* in program order, though a posted one is answered before it is made.
ProgramOrder ==
    /\ ~post[1] /\ ~post[2] /\ ~post[3] => psize = wanted
    /\ \A ack \in BOOLEAN :
        core # NoReq /\ ~core.we /\ core.field.addr = PSIZE
          /\ (ack => age = MinCycle) /\ CoreAck(ack)
          => rdata = Justify([k \in 0 .. 2 |-> wanted], core.field)
=============================================================================
