---------------------------- MODULE MemoryFabric ----------------------------
(***************************************************************************)
(* tms34010_memory_fabric: the core's request register, the field          *)
(* sequencer and the bus arbiter, with the clients around them and the     *)
(* memory behind them.                                                     *)
(*                                                                         *)
(* The design is synchronous: one step of Next is one edge of the core     *)
(* clock, at which every register takes its new value.  The nondeterminism *)
(* is in the inputs: when the controller acknowledges a cycle, when        *)
(* clients ask, when a refresh event comes.  The bus timer between the     *)
(* arbiter and the controller only delays acknowledgements, so it is part  *)
(* of that choice.                                                         *)
(***************************************************************************)
EXTENDS BusArbiter, FieldSequencer

CONSTANTS
    CYCLE_ACCURATE,     \* the parameter: CPU writes are posted
    CoreRequests,       \* requests the core may raise
    HostRequests,       \* aligned word requests the host port may raise
    NoReq,              \* no request
    ScreenLevels,       \* levels the screen's request can have
    HoldLevels,         \* levels the external master's request can have
    MasterWords,        \* what the external master may write
    IoValues            \* values an I/O register may show

CoreRequest == [io : BOOLEAN, we : BOOLEAN, late : BOOLEAN, field : Field]
HostRequest == [io : BOOLEAN, we : BOOLEAN, addr : WordAddr, data : Word]

ASSUME FabricAssumption ==
    /\ CYCLE_ACCURATE \in BOOLEAN
    /\ CoreRequests \subseteq CoreRequest
    /\ HostRequests \subseteq HostRequest
    /\ NoReq \notin CoreRequest /\ NoReq \notin HostRequest
    /\ NoRow \notin Rows /\ CbrRows \subseteq Rows
    /\ FALSE \in ScreenLevels /\ ScreenLevels \subseteq BOOLEAN
    /\ FALSE \in HoldLevels /\ HoldLevels \subseteq BOOLEAN
    /\ MasterWords \subseteq Word
    /\ IoValues \subseteq Bit
    \* Only writes are raised before their data is ready (mem_late).
    /\ \A r \in CoreRequests : r.late => CYCLE_ACCURATE /\ r.we

VARIABLES
    active,     \* cpu_request_active_q
    req,        \* cpu_request_*_q: the request being served
    posted,     \* cpu_request_posted_q: the core has been answered already
    late,       \* cpu_late_q: the request's data arrives in this clock
    lateField,  \* the core's registers behind cpu_field_late_wdata_i/keep_i
    ioSample,   \* io_sample_q
    ioRdata,    \* cpu_request_io_rdata_q
    core,       \* the request the core presents, or NoReq
    host,       \* the request the host port presents, or NoReq
    screen,     \* screen refresh asks for the bus
    hold,       \* an external master asks for the bus
    mem         \* local memory

fabricVars == <<active, req, posted, late, lateField, ioSample, ioRdata>>
clientVars == <<core, host, screen, hold>>
vars == <<arbVars, seqVars, fabricVars, clientVars, mem>>

NullRequest == [io |-> FALSE, we |-> FALSE, late |-> FALSE, field |-> NoField]

TypeOK ==
    /\ ArbTypeOK
    /\ SeqTypeOK
    /\ active \in BOOLEAN /\ posted \in BOOLEAN /\ late \in BOOLEAN
    /\ req \in CoreRequest
    /\ lateField \in Field
    /\ ioSample \in BOOLEAN
    /\ ioRdata \in Bit
    /\ core \in CoreRequests \cup {NoReq}
    /\ host \in HostRequests \cup {NoReq}
    /\ screen \in BOOLEAN /\ hold \in BOOLEAN
    /\ mem \in [WordAddr -> Word]

Init ==
    /\ ArbInit
    /\ SeqInit
    /\ active = FALSE /\ posted = FALSE /\ late = FALSE
    /\ req = NullRequest
    /\ lateField = NoField
    /\ ioSample = FALSE
    /\ ioRdata = 0
    /\ core = NoReq /\ host = NoReq
    /\ screen = FALSE /\ hold = FALSE
    /\ mem = [a \in WordAddr |-> ZeroWord]

-----------------------------------------------------------------------------
(* Wires. *)

\* Fault: the late data is not bypassed.
RegisteredField == req.field

\* The field as anything reads it in this clock: late data bypasses the
\* request register.
ReqField == IF late THEN [req.field EXCEPT !.data = lateField.data,
                                           !.keep = lateField.keep]
            ELSE req.field

\* The CPU's word request: from the request register for an I/O access,
\* from the sequencer otherwise.
CpuReq == IF req.io THEN active ELSE WordReq(Restart(hold))
CpuWe  == IF req.io THEN req.we ELSE WordWe(Restart(hold))
CpuLock == ~req.io /\ WordLock(Restart(hold))
CpuAddr == IF req.io THEN req.field.addr ELSE WordAddress

\* The low word of the right-justified data.
LowWord(f) == [b \in Lanes |-> f.data[b]]
CpuWdata == IF req.io THEN LowWord(ReqField) ELSE WordWdata

\* The cycle on the controller interface: kind, address and data.
Command ==
    CASE arb = "CPU" ->
           [kind  |-> IF req.io THEN (IF CpuWe THEN "IO_WRITE" ELSE "IO_READ")
                      ELSE IF CpuWe THEN "WORD_WRITE" ELSE "WORD_READ",
            addr  |-> CpuAddr, wdata |-> CpuWdata, iodata |-> ioRdata]
      [] arb = "HOST" ->
           [kind  |-> IF host.io THEN (IF host.we THEN "IO_WRITE" ELSE "IO_READ")
                      ELSE IF host.we THEN "WORD_WRITE" ELSE "WORD_READ",
            addr  |-> host.addr, wdata |-> host.data,
            iodata |-> IF host.io THEN hostIoRdata ELSE 0]
      [] arb = "DRAM" ->
           [kind |-> IF dramRow \in CbrRows THEN "DRAM_CBR" ELSE "DRAM_RAS",
            row |-> dramRow]
      [] arb = "SCREEN" -> [kind |-> "SCREEN_REFRESH"]
      [] OTHER          -> [kind |-> "NONE"]

CpuAck(ack) == arb = "CPU" /\ ack

\* The request being served ends in this clock.
RequestDone(ack) ==
    active /\ IF req.io THEN CpuAck(ack) ELSE seq = "RESPONSE"

\* Fault: a posted request is overtaken.
CaptureTooEarly(ack) == core # NoReq /\ (~active \/ (CYCLE_ACCURATE /\ posted))

\* The core's request is taken: when nothing is being served, or in the
\* clock a posted write ends.
Capture(ack) ==
    /\ core # NoReq
    /\ ~active \/ (CYCLE_ACCURATE /\ posted /\ RequestDone(ack))

Posts == CYCLE_ACCURATE /\ core.we

\* Fault: a posted write is answered twice.
CoreAckTwice(ack) == (Capture(ack) /\ Posts) \/ RequestDone(ack)

CoreAck(ack) == \/ Capture(ack) /\ Posts
                \/ RequestDone(ack) /\ ~posted

-----------------------------------------------------------------------------
(* The request register.  ioLive is the value of the addressed I/O register *)
(* in this clock; it may change at any time.                                *)

\* A late write is taken with whatever its data wires carry.
AsPresented(r) ==
    IF r.late THEN [r EXCEPT !.field = [r.field EXCEPT !.data = ZeroData,
                                                       !.keep = {}]]
    ELSE r

TakeRequest(ack, ioLive) ==
    /\ Capture(ack)
    /\ active' = TRUE
    /\ req' = AsPresented(core)
    /\ posted' = Posts
    /\ late' = (CYCLE_ACCURATE /\ core.late)
    /\ lateField' = core.field

ServeRequest(ack, ioLive) ==
    /\ active /\ ~Capture(ack)
    /\ active' = ~RequestDone(ack)
    /\ req' = [req EXCEPT !.field = ReqField]
    /\ late' = FALSE
    /\ UNCHANGED <<posted, lateField>>

NoRequest(ack, ioLive) ==
    /\ ~active /\ ~Capture(ack)
    /\ late' = FALSE
    /\ UNCHANGED <<active, req, posted, lateField>>

\* An I/O read's data is sampled a clock after the request is taken when the
\* controller is cycle accurate, with the request otherwise.
IoSampling(ack, ioLive) ==
    /\ ioSample' = Capture(ack)
    /\ ioRdata' = IF (IF CYCLE_ACCURATE THEN ioSample ELSE Capture(ack))
                  THEN ioLive ELSE ioRdata

RequestRegister(ack, ioLive) ==
    /\ \/ TakeRequest(ack, ioLive)
       \/ ServeRequest(ack, ioLive)
       \/ NoRequest(ack, ioLive)
    /\ IoSampling(ack, ioLive)

-----------------------------------------------------------------------------
(* The clients.  A request and its payload stay until the acknowledgement. *)

CoreClient(ack) ==
    \/ core # NoReq /\ ~CoreAck(ack) /\ UNCHANGED core
    \/ (core = NoReq \/ CoreAck(ack)) /\ core' \in CoreRequests \cup {NoReq}

HostClient(ack) ==
    \/ host # NoReq /\ ~(arb = "HOST" /\ ack) /\ UNCHANGED host
    \/ (host = NoReq \/ (arb = "HOST" /\ ack)) /\ host' \in HostRequests \cup {NoReq}

ScreenClient(ack) ==
    \/ screen /\ ~(arb = "SCREEN" /\ ack) /\ UNCHANGED screen
    \/ (~screen \/ (arb = "SCREEN" /\ ack)) /\ screen' \in ScreenLevels

HoldClient == hold' \in HoldLevels

(* The memory: a write takes effect in the clock it is acknowledged; the   *)
(* master that was given the bus by HOLD writes as it likes.               *)
WriteCycle == CycleReq /\ Command.kind = "WORD_WRITE"

MemoryWrite(ack) ==
    /\ ack /\ WriteCycle
    /\ mem' = [mem EXCEPT ![Command.addr] = Command.wdata]

ExternalWrite ==
    /\ HoldAck
    /\ \E a \in WordAddr, w \in MasterWords : mem' = [mem EXCEPT ![a] = w]

MemoryKeeps(ack) ==
    /\ ~(ack /\ WriteCycle)
    /\ UNCHANGED mem

Memory(ack) == MemoryWrite(ack) \/ ExternalWrite \/ MemoryKeeps(ack)

\* What a read cycle returns.
ReadData == IF CycleReq /\ Command.kind = "WORD_READ" THEN mem[Command.addr]
            ELSE ZeroWord

-----------------------------------------------------------------------------
ArbPins(ack, refresh, ioLive) ==
    [hold |-> hold, screen |-> screen, refresh |-> refresh,
     host |-> host # NoReq,
     hostIo |-> host # NoReq /\ host.io, hostIoRdata |-> ioLive,
     cpu |-> CpuReq, we |-> CpuWe, lock |-> CpuLock, ack |-> ack]

SeqPins(ack, rdata) ==
    [req |-> active /\ ~req.io, we |-> req.we, field |-> ReqField,
     ack |-> CpuAck(ack), rdata |-> rdata, restart |-> Restart(hold)]

\* One clock of the fabric and its clients; ack and rdata come from whoever
\* runs the cycles.
FabricClock(ack, rdata, refresh, ioLive) ==
    /\ ArbiterClock(ArbPins(ack, refresh, ioLive))
    /\ SequencerClock(SeqPins(ack, rdata))
    /\ RequestRegister(ack, ioLive)
    /\ CoreClient(ack) /\ HostClient(ack) /\ ScreenClient(ack)

\* With a controller that ends cycles when it likes.
Clock(ack, refresh, ioLive) ==
    /\ ack => CycleReq
    /\ FabricClock(ack, ReadData, refresh, ioLive)
    /\ HoldClient
    /\ Memory(ack)

Next == \E ack \in BOOLEAN, refresh \in Rows \cup {NoRow}, ioLive \in IoValues :
            Clock(ack, refresh, ioLive)

Spec == Init /\ [][Next]_vars
-----------------------------------------------------------------------------
(* Properties. *)

\* A partial write is about to be made, or being made.
MergePending == seq = "WRITE_WORD" /\ NeedsRead(field, windex)

\* When the sequencer stands between the read and the write of a partial
\* word, the old word it will merge is still what memory holds: no other
\* master has written that word since it was read (the reservation in the
\* arbiter, the restart on HOLD).
MergeIsFresh == MergePending => rmwWord = mem[WordAddress]

\* Who holds the bus agrees with what the sequencer and the clients are
\* doing.  In particular a pending merge implies the arbiter's reservation,
\* and a reservation keeps every master but the CPU off the bus: HOLD, host
\* and refresh cycles can only come before the read or after the write.
Reservation ==
    /\ MergePending => rmwActive
    /\ rmwActive => /\ arb \in {"IDLE", "CPU"}
                    /\ seq \in {"WRITE_READ", "WRITE_WORD"}
    /\ arb = "CPU" => \/ req.io /\ active
                      \/ seq \in {"READ_WORD", "WRITE_READ", "WRITE_WORD"}
    /\ arb = "CPU" /\ seq = "WRITE_READ" => rmwActive
    /\ seq \in {"WRITE_READ"} \/ rmwActive => NeedsRead(field, windex)
    /\ seq # "IDLE" => active /\ ~req.io
    /\ arb = "HOST" => host # NoReq

\* The cycle in which a CPU word is written leaves every bit of memory
\* outside the field as it stands at that moment, whatever host, refresh and
\* HOLD did around the read-write pair.
OnlyFieldBitsChange ==
    [][seq = "WRITE_WORD" /\ seq' # "WRITE_WORD" /\ ~Restart(hold)
         => \A a \in WordAddr, b \in Lanes :
               mem'[a][b] # mem[a][b]
                 => a = WordAddress /\ b \in WordMask(field, windex)]_vars

\* While the controller works on a cycle, its kind, address and data stand
\* still: they cross to the bus clock unguarded.  Late write data, I/O data
\* sampled after the capture and refresh events must all have settled.
CommandStable ==
    [][CycleReq /\ arb' = arb => Command' = Command]_vars

\* The simulation guard LATE DATA TOO LATE: when late data arrives, its
\* request is the active one, is a write, has not been taken by the sequencer
\* and does not end in this clock.
LateDataInTime ==
    late => /\ active /\ req.we
            /\ ~req.io => seq = "IDLE"
            /\ ~RequestDone(TRUE)

\* Whenever a request that was not posted is under way, the core still waits
\* with that same request; so the acknowledgement that ends it answers it, and
\* not a request that queued up behind a posted write.
AnswerMatchesRequest ==
    active /\ ~posted => /\ core # NoReq
                         /\ core.io = req.io /\ core.we = req.we
                         /\ core.field.addr = req.field.addr
                         /\ core.field.off = req.field.off
                         /\ core.field.size = req.field.size

\* A DRAM refresh cycle always has a captured event behind it: it drives the
\* row of an event that has not been served yet.
RefreshHasEvent == arb = "DRAM" => dramPending /\ dramRow \in Rows

-----------------------------------------------------------------------------
(* The fabric implements FieldMemory: the word cycles of one field access   *)
(* are atomic field updates, in order, on whatever the other masters left.  *)

AbsLine == [p \in 0 .. NWords * W - 1 |-> mem[p \div W][p % W]]

JobField == IF seq # "IDLE" THEN field
            ELSE IF late THEN lateField ELSE req.field

\* The field bits a read has collected so far.
Collected ==
    CASE seq = "RESPONSE" -> frdata
      [] seq = "READ_WORD" ->
           [i \in FieldBits |->
               IF i < field.size /\ (field.off + i) \div W < windex
               THEN window[(field.off + i) \div W][(field.off + i) % W] ELSE 0]
      [] OTHER -> ZeroData

AbsJob ==
    IF ~active \/ req.io THEN [op |-> "none"]
    ELSE [op    |-> IF req.we THEN "write" ELSE "read",
          start |-> JobField.addr * W + JobField.off,
          size  |-> JobField.size,
          data  |-> IF req.we THEN JobField.data ELSE ZeroData,
          keep  |-> IF req.we THEN JobField.keep ELSE {},
          next  |-> CASE seq = "IDLE"     -> 0
                      [] seq = "RESPONSE" ->
                           IF ValidSize(field.size) THEN LastWord(field) + 1 ELSE 0
                      [] OTHER            -> windex,
          got   |-> Collected]

Promise == INSTANCE FieldMemory WITH line <- AbsLine, job <- AbsJob

\* Every behaviour of the fabric is one of the abstract field memory.
FieldMemorySpec == Promise!Spec

-----------------------------------------------------------------------------
(* Liveness, for a clock that runs and a controller that ends every cycle.  *)

\* An external master that keeps asking gets the bus, even in the middle of a
\* partial write, since the cycle in progress always ends.
HoldGranted == hold ~> HoldAck \/ ~hold

\* Once the clients that come before it fall silent, the core's accesses keep
\* ending, back to back ones included; a partial write that HOLD sent back to
\* its read is made after all.
QuietBus  == ~hold /\ ~screen /\ host = NoReq /\ ~dramPending
AtEnd     == ~active \/ seq = "RESPONSE" \/ (req.io /\ arb = "CPU")
CoreServed == <>[]QuietBus => []<>AtEnd
=============================================================================
