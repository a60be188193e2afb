--------------------------- MODULE PinSystemProofs ---------------------------
(***************************************************************************)
(* Proofs about the fabric, the bridge and the phase engine together: for  *)
(* every word width, memory, set of requests and number of cycles after    *)
(* reset, for clocks of any ratio, and for every pattern of HOLD and LRDY. *)
(***************************************************************************)
EXTENDS PinSystem, MemoryFabricProofs

PinTypeOK ==
    /\ srcRdata \in Word /\ dstResponse \in Word /\ readData \in Word
    /\ srcAck \in BOOLEAN /\ armed \in BOOLEAN /\ outstanding \in BOOLEAN
    /\ dstActive \in BOOLEAN
    /\ reqToggle \in Toggle /\ seen \in Toggle /\ ackToggle \in Toggle
    /\ ackSync \in SyncPair(Toggle) /\ reqSync \in SyncPair(Toggle)
    /\ holdMeta \in BOOLEAN /\ holdReq \in BOOLEAN
    /\ grantSync \in SyncPair(BOOLEAN)
    /\ phase \in Q1A .. Q4B

\* The request's toggle makes its way through both synchronizers and back;
\* what lies behind it has its new value, what lies before it the old one.
TogglesInLine ==
    /\ reqSync[2] = reqToggle => reqSync[1] = reqToggle
    /\ seen = reqToggle => reqSync[2] = reqToggle
    /\ ackToggle = reqToggle => seen = reqToggle
    /\ ackSync[1] = reqToggle => ackToggle = reqToggle
    /\ ackSync[2] = reqToggle => ackSync[1] = reqToggle
    /\ ~outstanding => ackSync[2] = reqToggle
    /\ dstActive <=> seen # ackToggle

\* The command under way is the arbiter's, in every copy that is in use.
CopiesAgree ==
    /\ outstanding => ~armed /\ ~srcAck
    /\ srcAck => ~armed
    /\ outstanding \/ srcAck => CycleReq /\ srcCmd = Command
    /\ outstanding /\ seen = reqToggle => dstCmd = srcCmd
    /\ BusActive /\ initDone => dstActive /\ latched = dstCmd

\* The bus is away only between cycles, and commands come after the cycles that
\* follow reset.
BetweenCycles ==
    /\ holdState # "RUN" => bus = "IDLE"
    /\ bus = "RESET" => ~initDone

\* The bus clock has served the command, and the core does not know it yet.
ServedUnseen == outstanding /\ ackToggle = reqToggle

NoGrant == ~grantSync[1] /\ ~grantSync[2] /\ holdState = "RUN"

\* The external master is not let in between a cycle of the chip and what
\* belongs to it: the grant's synchronizer, which runs beside that of the
\* request, has forgotten the last HOLD by the time the request arrives.
MasterAway ==
    /\ \A i \in {1, 2} : outstanding /\ reqSync[i] = reqToggle => ~grantSync[i]
    /\ ServedUnseen \/ srcAck \/ MergePending => NoGrant

\* The word a partial write reads is memory's at each of its stations: in the
\* phase engine, in the bridge, at the arbiter and in the sequencer, where it
\* stays so until the write is made.
OldWordRead == arb = "CPU" /\ seq = "WRITE_READ"

OldWordFresh ==
    /\ CycleAck /\ latched.kind = "WORD_READ" => readData = mem[latched.addr]
    /\ ServedUnseen /\ OldWordRead => dstResponse = mem[WordAddress]
    /\ srcAck /\ OldWordRead => srcRdata = mem[WordAddress]
    /\ MergePending /\ ~(arb = "CPU" /\ (ServedUnseen \/ srcAck))
          => rmwWord = mem[WordAddress]

PinInv == /\ FabricInv /\ PinTypeOK /\ TogglesInLine
          /\ CopiesAgree /\ BetweenCycles /\ MasterAway /\ OldWordFresh

-----------------------------------------------------------------------------
(* The sides of a step. *)

\* An edge of the core clock or none; an edge of the bus clock or none.
CoreStep == CoreTicks \/ UNCHANGED CoreSide
BusStep  == BusTicks(BOOLEAN) \/ UNCHANGED BusSide

\* Every step is one of each.
LEMMA StepSides == [PinNext]_pinVars => CoreStep /\ BusStep
BY DEF PinNext, CoreStep, BusStep, pinVars, CoreSide, BusSide, vars, clientVars,
       bridgeVars

\* The synchronizers are pairs of levels.
LEMMA SyncFacts ==
  PinInv => /\ reqToggle \in {0, 1} /\ seen \in {0, 1} /\ ackToggle \in {0, 1}
            /\ \A i \in {1, 2} : /\ reqSync[i] \in {0, 1} /\ ackSync[i] \in {0, 1}
                                 /\ grantSync[i] \in BOOLEAN
            /\ outstanding \in BOOLEAN /\ srcAck \in BOOLEAN /\ dstActive \in BOOLEAN
            /\ armed \in BOOLEAN
BY DEF PinInv, PinTypeOK, SyncPair, Toggle

\* What the core's side of the bridge can do at an edge.
Launched == /\ CycleReq /\ armed /\ ~outstanding
            /\ srcCmd' = Command /\ reqToggle' = 1 - reqToggle
            /\ armed' = FALSE /\ outstanding' = TRUE /\ srcAck' = FALSE
            /\ srcRdata' = srcRdata
Returned == /\ outstanding /\ ackSync[2] = reqToggle
            /\ srcRdata' = dstResponse /\ srcAck' = TRUE
            /\ outstanding' = FALSE /\ armed' = (armed \/ ~CycleReq)
            /\ srcCmd' = srcCmd /\ reqToggle' = reqToggle
Waited   == /\ ~(outstanding /\ ackSync[2] = reqToggle)
            /\ outstanding \/ ~CycleReq \/ ~armed
            /\ srcAck' = FALSE /\ armed' = (armed \/ ~CycleReq)
            /\ srcCmd' = srcCmd /\ srcRdata' = srcRdata
            /\ reqToggle' = reqToggle /\ outstanding' = outstanding

\* The edge of the core clock in terms of those moves.
LEMMA SrcMoves ==
  ASSUME NEW refresh, NEW ioLive, CoreClock(refresh, ioLive)
  PROVE  /\ Launched \/ Returned \/ Waited
         /\ ackSync' = <<ackToggle, ackSync[1]>>
         /\ hold' = holdMeta /\ holdMeta' = holdReq
BY DEF CoreClock, SrcEdge, Launch, TakeAnswer, SrcWait, Answered, Synced, SyncEdge,
       Launched, Returned, Waited

\* What the bus clock's side of the bridge can do at an edge.
Accepted  == /\ ~dstActive /\ reqSync[2] # seen
             /\ dstCmd' = srcCmd /\ seen' = reqSync[2] /\ dstActive' = TRUE
             /\ dstResponse' = dstResponse /\ ackToggle' = ackToggle
Served    == /\ dstActive /\ CycleAck
             /\ dstResponse' = readData /\ ackToggle' = seen /\ dstActive' = FALSE
             /\ dstCmd' = dstCmd /\ seen' = seen
DstWaited == /\ IF dstActive THEN ~CycleAck ELSE reqSync[2] = seen
             /\ dstCmd' = dstCmd /\ dstResponse' = dstResponse /\ seen' = seen
             /\ ackToggle' = ackToggle /\ dstActive' = dstActive

\* The edge of the bus clock in terms of those moves.
LEMMA DstMoves ==
  ASSUME NEW pin, NEW lrdy, BusClock(pin, lrdy)
  PROVE  /\ Accepted \/ Served \/ DstWaited
         /\ reqSync' = <<reqToggle, reqSync[1]>>
         /\ grantSync' = <<HoldAck, grantSync[1]>>
BY DEF BusClock, DstEdge, Accept, Serve, DstWait, Synced, SyncEdge,
       Accepted, Served, DstWaited

-----------------------------------------------------------------------------
(* The core side. *)

\* An acknowledgement is one of the cycle that runs, and comes with a word.
LEMMA AckOfCycle ==
  PinInv => FabricInv /\ srcAck \in BOOLEAN /\ (srcAck => CycleReq) /\ srcRdata \in Word
BY DEF PinInv, PinTypeOK, CopiesAgree

\* A step that keeps memory a memory keeps the invariant of the fabric.
LEMMA FabricKept ==
  ASSUME PinInv, CoreStep, mem' \in [WordAddr -> Word]
  PROVE  FabricInv' /\ holdMeta' \in BOOLEAN
<1>1. CASE CoreTicks
  <2>1. PICK refresh \in Rows \cup {NoRow}, ioLive \in IoValues : CoreClock(refresh, ioLive)
    BY <1>1 DEF CoreTicks
  <2>2. hold' \in BOOLEAN /\ holdMeta' \in BOOLEAN
    BY <2>1, SrcMoves DEF PinInv, PinTypeOK
  <2>3. FabricClock(srcAck, srcRdata, refresh, ioLive)
    BY <2>1 DEF CoreClock
  <2>. QED BY <2>2, <2>3, AckOfCycle, FabricStep
<1>2. CASE UNCHANGED CoreSide
  BY <1>2, FabricStands DEF PinInv, PinTypeOK, CoreSide
<1>. QED BY <1>1, <1>2 DEF CoreStep

\* Until it is acknowledged, the arbiter's cycle and its command stay.
LEMMA CommandKept ==
  ASSUME PinInv, CoreStep, CycleReq, ~srcAck
  PROVE  arb' = arb /\ Command' = Command
<1>1. CASE CoreTicks
  <2>1. PICK refresh \in Rows \cup {NoRow}, ioLive \in IoValues : CoreClock(refresh, ioLive)
    BY <1>1 DEF CoreTicks
  <2>2. FabricClock(srcAck, srcRdata, refresh, ioLive)
    BY <2>1 DEF CoreClock
  <2>. QED BY <2>2, AckOfCycle, CommandStep
<1>2. CASE UNCHANGED CoreSide
  BY <1>2, CommandStands DEF CoreSide, arbVars
<1>. QED BY <1>1, <1>2 DEF CoreStep

\* A merge that is pending after a step was pending before it, with the same
\* old word, or the old word has just arrived.
LEMMA MergeOrigin ==
  ASSUME PinInv, CoreStep, MergePending'
  PROVE  /\ field' = field /\ windex' = windex
         /\ \/ OldWordRead /\ srcAck /\ rmwWord' = srcRdata
            \/ /\ MergePending /\ rmwWord' = rmwWord
               /\ CpuAck(srcAck) => UNCHANGED CoreSide
<1>1. CASE CoreTicks
  <2>1. PICK refresh \in Rows \cup {NoRow}, ioLive \in IoValues : CoreClock(refresh, ioLive)
    BY <1>1 DEF CoreTicks
  <2>2. SequencerClock(SeqPins(srcAck, srcRdata))
    BY <2>1 DEF CoreClock, FabricClock
  <2>3. seq' = "WRITE_WORD" /\ NeedsRead(field', windex')
    BY DEF MergePending, NeedsRead
  <2>4. field' = field /\ windex' = windex /\ seq \in SeqStates
    BY <2>2, <2>3, AckOfCycle, SequencerMoves DEF FabricInv, TypeOK, SeqTypeOK
  <2>. QED BY <2>2, <2>3, <2>4, AckOfCycle, SequencerMoves
           DEF SeqStates, MergePending, CpuAck, OldWordRead
<1>2. CASE UNCHANGED CoreSide
  BY <1>2 DEF CoreSide, seqVars, MergePending, NeedsRead
<1>. QED BY <1>1, <1>2 DEF CoreStep

\* While the cycle that reads the old word runs, the sequencer has been waiting
\* for it all along.
LEMMA OldWordOrigin ==
  ASSUME PinInv, CoreStep, CycleReq, ~srcAck, OldWordRead'
  PROVE  OldWordRead /\ field' = field /\ windex' = windex
<1>1. arb = "CPU"
  BY CommandKept DEF OldWordRead
<1>2. CASE CoreTicks
  <2>1. PICK refresh \in Rows \cup {NoRow}, ioLive \in IoValues : CoreClock(refresh, ioLive)
    BY <1>2 DEF CoreTicks
  <2>2. SequencerClock(SeqPins(srcAck, srcRdata))
    BY <2>1 DEF CoreClock, FabricClock
  <2>3. seq' = "WRITE_READ" /\ ~Restart(hold) /\ seq \in SeqStates
    BY <1>1, AckOfCycle DEF OldWordRead, Restart, FabricInv, TypeOK, SeqTypeOK
  <2>4. Reservation
    BY AckOfCycle DEF FabricInv
  <2>5. seq \in {"IDLE", "READ_WORD", "WRITE_READ", "WRITE_WORD"}
    BY <1>1, <2>4 DEF Reservation
  <2>. QED BY <1>1, <2>2, <2>3, <2>5, AckOfCycle, SequencerMoves DEF OldWordRead, CpuAck
<1>3. CASE UNCHANGED CoreSide
  BY <1>3 DEF CoreSide, seqVars, arbVars, OldWordRead
<1>. QED BY <1>2, <1>3 DEF CoreStep

-----------------------------------------------------------------------------
(* The bus side. *)

\* A command on the pins is the arbiter's, and it is not acknowledged yet.
LEMMA OnThePins ==
  ASSUME PinInv, BusActive, initDone
  PROVE  /\ dstActive /\ outstanding /\ ~srcAck /\ CycleReq /\ ~ServedUnseen
         /\ latched = Command /\ holdState = "RUN"
         /\ \A i \in {1, 2} : reqSync[i] = reqToggle /\ ~grantSync[i]
<1>1. dstActive /\ latched = dstCmd
  BY DEF PinInv, CopiesAgree
<1>2. seen = reqToggle /\ ackToggle # reqToggle /\ outstanding
  BY <1>1, SyncFacts DEF PinInv, TogglesInLine
<1>3. \A i \in {1, 2} : reqSync[i] = reqToggle /\ ~grantSync[i]
  BY <1>2 DEF PinInv, TogglesInLine, MasterAway
<1>4. latched = Command /\ CycleReq /\ ~srcAck
  BY <1>1, <1>2 DEF PinInv, CopiesAgree
<1>5. holdState = "RUN"
  BY DEF PinInv, BetweenCycles, BusActive
<1>. QED BY <1>1, <1>2, <1>3, <1>4, <1>5 DEF ServedUnseen

\* A word cycle's command has an address and a word of data.
LEMMA WordCommand ==
  ASSUME PinInv, CycleReq
  PROVE  /\ Command.kind = "WORD_READ" => Command.addr \in WordAddr
         /\ Command.kind = "WORD_WRITE" => Command.addr \in WordAddr /\ Command.wdata \in Word
<1>1. FabricInv
  BY DEF PinInv
<1>. QED BY <1>1, WireTypes DEF WriteCycle

\* At an edge of the bus clock memory changes by the word of the cycle that
\* ends, or by the master's hand while the pins are released.
LEMMA MemoryStep ==
  ASSUME PinInv, BusStep
  PROVE  /\ mem' \in [WordAddr -> Word]
         /\ mem' # mem => Released \/ /\ WordWritten
                                      /\ mem' = [mem EXCEPT ![latched.addr] = latched.wdata]
<1>1. mem \in [WordAddr -> Word]
  BY DEF PinInv, FabricInv, TypeOK
<1>2. CASE BusTicks(BOOLEAN)
  <2>1. ChipWrites \/ MasterWrites \/ NobodyWrites
    BY <1>2 DEF BusTicks, BusClock
  <2>2. CASE ChipWrites
    <3>1. latched.addr \in WordAddr /\ latched.wdata \in Word
      BY <2>2, OnThePins, WordCommand
         DEF ChipWrites, WordWritten, CycleAck, CycleComplete, BusActive
    <3>. QED BY <1>1, <2>2, <3>1 DEF ChipWrites
  <2>3. CASE MasterWrites
    BY <1>1, <2>3, FabricAssumption DEF MasterWrites
  <2>4. CASE NobodyWrites
    BY <1>1, <2>4 DEF NobodyWrites
  <2>. QED BY <2>1, <2>2, <2>3, <2>4
<1>3. CASE UNCHANGED BusSide
  BY <1>1, <1>3 DEF BusSide
<1>. QED BY <1>2, <1>3 DEF BusStep

\* What an edge of the bus clock does to the phase engine.
LEMMA EngineMoves ==
  ASSUME PinInv, NEW pin \in HoldLevels, NEW lrdy \in BOOLEAN, BusClock(pin, lrdy)
  PROVE  /\ phase' \in Q1A .. Q4B /\ holdReq' \in BOOLEAN /\ readData' \in Word
         /\ holdState' # "RUN" => /\ bus' = "IDLE"
                                  /\ holdState = "RUN" => grantSync[2] /\ bus = "IDLE"
         /\ BusActive' /\ initDone' =>
               \/ bus = "IDLE" /\ dstActive /\ latched' = dstCmd
               \/ BusActive /\ initDone /\ ~CycleAck /\ latched' = latched
         /\ bus' # "RESET"
         /\ CycleAck' => /\ BusActive /\ initDone /\ ~CycleAck /\ latched' = latched
                         /\ latched.kind = "WORD_READ" => readData' = mem[latched.addr]
<1>. DEFINE in == [req |-> dstActive, cmd |-> dstCmd, hold |-> pin,
                   grant |-> Synced(grantSync), lrdy |-> lrdy, lad |-> DataPins,
                   ioRdata |-> ZeroWord, zero |-> ZeroWord]
<1>1. /\ in.req = dstActive /\ in.cmd = dstCmd /\ in.hold = pin
      /\ in.grant = grantSync[2] /\ in.lad = DataPins
      /\ in.ioRdata = ZeroWord /\ in.zero = ZeroWord
  BY DEF Synced
<1>2. BusEdge(in)
  BY DEF BusClock
<1>3. pin \in BOOLEAN /\ phase \in 0 .. 7 /\ readData \in Word /\ holdReq \in BOOLEAN
  BY FabricAssumption DEF PinInv, PinTypeOK, Q1A, Q4B
<1>. HIDE DEF in
<1>. USE DEF Q1A, Q1B, Q2A, Q2B, Q3A, Q3B, Q4A, Q4B
<1>4. phase' = (phase + 1) % 8 /\ phase' \in 0 .. 7
  BY <1>2, <1>3 DEF BusEdge
<1>5. holdReq' \in BOOLEAN
  BY <1>1, <1>2, <1>3 DEF BusEdge, SampleHold
<1>6. RunCycle(in) /\ LatchCommand(in) /\ (HoldChanges(in) \/ HoldStays(in))
  BY <1>2 DEF BusEdge
<1>7. holdState # "RUN" => bus = "IDLE"
  BY DEF PinInv, BetweenCycles
<1>8. holdState' # "RUN" /\ holdState = "RUN" =>
         grantSync[2] /\ bus = "IDLE" /\ phase = Q1B
  BY <1>1, <1>6 DEF HoldChanges, HoldStays, GiveBus, ConfirmHold, ReleaseRest, SeeHoldEnd,
     Resume, ResumeRest
<1>9. holdState' # "RUN" => bus' = "IDLE"
  <2>1. SUFFICES ASSUME holdState' # "RUN" PROVE bus' = "IDLE"
    OBVIOUS
  <2>2. bus = "IDLE" /\ (phase = Q1B \/ holdState # "RUN")
    BY <1>7, <1>8, <2>1
  <2>3. StayIdle(in)
    BY <1>6, <2>2 DEF RunCycle, LeaveReset, BeginCycle, FirstPeriod, SampleReady, SampleData,
       RepeatSecond, EndBusCycle, SecondPeriod, CycleComplete
  <2>. QED BY <2>2, <2>3 DEF StayIdle
<1>10. BusActive' /\ initDone' =>
          \/ bus = "IDLE" /\ dstActive /\ latched' = dstCmd
          \/ BusActive /\ initDone /\ ~CycleAck /\ latched' = latched
  <2>. USE <1>1, <1>6 DEF LatchCommand, BusActive
  <2>1. CASE LeaveReset
    BY <2>1 DEF LeaveReset, PinInv, BetweenCycles
  <2>2. CASE BeginCycle(in)     BY <2>2 DEF BeginCycle
  <2>3. CASE StayIdle(in)       BY <2>3 DEF StayIdle
  <2>4. CASE FirstPeriod        BY <2>4 DEF FirstPeriod, CycleAck, CycleComplete
  <2>5. CASE SampleReady(in)    BY <2>5 DEF SampleReady, CycleAck, CycleComplete
  <2>6. CASE SampleData(in)     BY <2>6 DEF SampleData, CycleAck, CycleComplete
  <2>7. CASE RepeatSecond       BY <2>7 DEF RepeatSecond, CycleAck, CycleComplete
  <2>8. CASE EndBusCycle        BY <2>8 DEF EndBusCycle, CountInit, CycleAck, CycleComplete
  <2>9. CASE SecondPeriod       BY <2>9 DEF SecondPeriod, CycleAck, CycleComplete
  <2>. QED BY <2>1, <2>2, <2>3, <2>4, <2>5, <2>6, <2>7, <2>8, <2>9 DEF RunCycle
<1>11. bus' # "RESET"
  BY <1>6 DEF RunCycle, LeaveReset, BeginCycle, StayIdle, FirstPeriod, SampleReady, SampleData,
     RepeatSecond, EndBusCycle, SecondPeriod
<1>12. readData' \in Word
  <2>1. BusActive /\ initDone /\ latched.kind = "WORD_READ" => DataPins \in Word
    BY OnThePins, WordCommand DEF DataPins, PinInv, FabricInv, TypeOK
  <2>2. ZeroWord \in Word
    BY ZeroTypes
  <2>3. CASE SampleData(in)
    BY <1>1, <1>3, <2>1, <2>2, <2>3 DEF SampleData, ActiveKind, BusActive
  <2>4. CASE ~SampleData(in)
    BY <1>3, <1>6, <2>4 DEF RunCycle, LeaveReset, BeginCycle, StayIdle, FirstPeriod,
       SampleReady, RepeatSecond, EndBusCycle, SecondPeriod
  <2>. QED BY <2>3, <2>4
<1>13. CycleAck' => /\ BusActive /\ initDone /\ ~CycleAck /\ latched' = latched
                    /\ latched.kind = "WORD_READ" => readData' = mem[latched.addr]
  <2>1. SUFFICES ASSUME CycleAck'
                 PROVE  /\ BusActive /\ initDone /\ ~CycleAck /\ latched' = latched
                        /\ latched.kind = "WORD_READ" => readData' = mem[latched.addr]
    OBVIOUS
  <2>2. phase = Q4A /\ bus' = "SECOND" /\ ready' /\ initDone'
    BY <1>3, <1>4, <2>1 DEF CycleAck, CycleComplete
  <2>3. SampleData(in)
    <3>1. phase = 6 /\ bus' = "SECOND" /\ ready'
      BY <2>2
    <3>2. ~LeaveReset /\ ~BeginCycle(in) /\ ~StayIdle(in)
      BY <3>1 DEF LeaveReset, BeginCycle, StayIdle
    <3>3. ~FirstPeriod
      BY <3>1 DEF FirstPeriod, ForgetWaits
    <3>4. ~SampleReady(in) /\ ~RepeatSecond /\ ~EndBusCycle
      BY <3>1 DEF SampleReady, RepeatSecond, EndBusCycle, ForgetWaits, CycleComplete
    <3>5. ~SecondPeriod
      BY <3>1 DEF SecondPeriod
    <3>. QED BY <1>6, <3>2, <3>3, <3>4, <3>5 DEF RunCycle
  <2>4. latched' = latched /\ bus = "SECOND" /\ initDone
    BY <1>6, <2>2, <2>3 DEF SampleData, LatchCommand
  <2>5. latched.kind = "WORD_READ" => readData' = mem[latched.addr]
    BY <1>1, <2>3, <2>4 DEF SampleData, ActiveKind, DataPins
  <2>. QED BY <2>2, <2>4, <2>5 DEF BusActive, CycleAck, CycleComplete
<1>. QED BY <1>4, <1>5, <1>8, <1>9, <1>10, <1>11, <1>12, <1>13

-----------------------------------------------------------------------------
(* A step of both sides. *)

CoreStands == UNCHANGED CoreSide
BusStands  == UNCHANGED BusSide
CoreMoves == (Launched \/ Returned \/ Waited) /\ ackSync' = <<ackToggle, ackSync[1]>>
BusMoves  == /\ Accepted \/ Served \/ DstWaited
             /\ reqSync' = <<reqToggle, reqSync[1]>>
             /\ grantSync' = <<HoldAck, grantSync[1]>>

\* The two sides' moves in the bridge.
LEMMA BridgeMoves ==
  /\ CoreStep => CoreStands \/ CoreMoves
  /\ BusStep => BusStands \/ BusMoves
<1>1. ASSUME CoreTicks PROVE CoreMoves
  BY <1>1, SrcMoves DEF CoreTicks, CoreMoves
<1>2. ASSUME BusTicks(BOOLEAN) PROVE BusMoves
  BY <1>2, DstMoves DEF BusTicks, BusMoves
<1>. QED BY <1>1, <1>2 DEF CoreStep, BusStep, CoreStands, BusStands

\* The toggle makes its way in both sides' steps, together or apart.
LEMMA TogglesStep ==
  ASSUME PinInv, CoreStep, BusStep
  PROVE  TogglesInLine'
<1>1. TogglesInLine /\ CopiesAgree
  BY DEF PinInv
<1>2. /\ reqToggle \in {0, 1} /\ seen \in {0, 1} /\ ackToggle \in {0, 1}
      /\ reqSync[1] \in {0, 1} /\ reqSync[2] \in {0, 1}
      /\ ackSync[1] \in {0, 1} /\ ackSync[2] \in {0, 1}
      /\ dstActive \in BOOLEAN
  BY SyncFacts
<1>3. CoreStands \/ CoreMoves
  BY BridgeMoves
<1>4. \/ /\ reqSync' = reqSync /\ seen' = seen /\ ackToggle' = ackToggle
         /\ dstActive' = dstActive
      \/ BusMoves
  BY BridgeMoves DEF BusStands, BusSide, dstVars
<1>. USE DEF TogglesInLine
<1>5. CASE CoreStands
  <2>1. ackSync' = ackSync /\ reqToggle' = reqToggle /\ outstanding' = outstanding
    BY <1>5 DEF CoreStands, CoreSide, srcVars
  <2>. QED BY <1>1, <1>2, <1>4, <2>1 DEF BusMoves, Accepted, Served, DstWaited
<1>6. CASE CoreMoves /\ Launched
  BY <1>1, <1>2, <1>4, <1>6 DEF CoreMoves, Launched, BusMoves, Accepted, Served, DstWaited
<1>7. CASE CoreMoves /\ (Returned \/ Waited)
  BY <1>1, <1>2, <1>4, <1>7 DEF CoreMoves, Returned, Waited, BusMoves, Accepted, Served, DstWaited
<1>. QED BY <1>3, <1>5, <1>6, <1>7 DEF CoreMoves

\* Every register keeps to its range.
LEMMA PinTypesStep ==
  ASSUME PinInv, CoreStep, BusStep
  PROVE  PinTypeOK'
<1>1. CoreStands \/ CoreMoves
  BY BridgeMoves
<1>2. holdMeta' \in BOOLEAN
  BY FabricKept, MemoryStep
<1>. USE DEF PinInv, PinTypeOK
<1>3. /\ srcRdata' \in Word /\ srcAck' \in BOOLEAN /\ armed' \in BOOLEAN
      /\ outstanding' \in BOOLEAN /\ reqToggle' \in Toggle /\ ackSync' \in SyncPair(Toggle)
  <2>1. CASE CoreStands
    BY <2>1 DEF CoreStands, CoreSide, srcVars
  <2>2. CASE CoreMoves
    <3>1. ackSync' \in SyncPair(Toggle)
      BY <2>2, SyncFacts DEF CoreMoves, SyncPair, Toggle
    <3>2. reqToggle' \in Toggle
      BY <2>2, SyncFacts DEF CoreMoves, Launched, Returned, Waited, Toggle
    <3>3. armed' \in BOOLEAN /\ outstanding' \in BOOLEAN /\ srcAck' \in BOOLEAN
      BY <2>2 DEF CoreMoves, Launched, Returned, Waited
    <3>4. srcRdata' \in Word
      BY <2>2 DEF CoreMoves, Launched, Returned, Waited
    <3>. QED BY <3>1, <3>2, <3>3, <3>4
  <2>. QED BY <1>1, <2>1, <2>2
<1>4. /\ dstResponse' \in Word /\ readData' \in Word /\ dstActive' \in BOOLEAN
      /\ seen' \in Toggle /\ ackToggle' \in Toggle /\ reqSync' \in SyncPair(Toggle)
      /\ grantSync' \in SyncPair(BOOLEAN) /\ holdReq' \in BOOLEAN /\ phase' \in Q1A .. Q4B
  <2>1. CASE BusStands
    BY <2>1 DEF BusStands, BusSide, dstVars, busVars
  <2>2. CASE BusTicks(BOOLEAN)
    <3>1. PICK pin \in HoldLevels, lrdy \in BOOLEAN : BusClock(pin, lrdy)
      BY <2>2 DEF BusTicks
    <3>2. readData' \in Word /\ holdReq' \in BOOLEAN /\ phase' \in Q1A .. Q4B
      BY <3>1, EngineMoves
    <3>3. dstResponse' \in Word /\ dstActive' \in BOOLEAN
      BY <3>1, DstMoves DEF Accepted, Served, DstWaited
    <3>4. seen' \in Toggle /\ ackToggle' \in Toggle
      BY <3>1, DstMoves, SyncFacts DEF Accepted, Served, DstWaited, Toggle
    <3>5. reqSync' = <<reqToggle, reqSync[1]>> /\ grantSync' = <<HoldAck, grantSync[1]>>
      BY <3>1, DstMoves
    <3>6. HoldAck \in BOOLEAN /\ grantSync[1] \in BOOLEAN /\ reqToggle \in Toggle
          /\ reqSync[1] \in Toggle
      BY SyncFacts DEF HoldAck, Toggle
    <3>7. reqSync' \in SyncPair(Toggle) /\ grantSync' \in SyncPair(BOOLEAN)
      BY <3>5, <3>6 DEF SyncPair
    <3>. QED BY <3>2, <3>3, <3>4, <3>7
  <2>. QED BY <2>1, <2>2 DEF BusStep, BusStands
<1>. QED BY <1>2, <1>3, <1>4

\* The engine goes through its initialization, and gives the bus away between
\* cycles.
LEMMA BetweenStep ==
  ASSUME PinInv, BusStep
  PROVE  BetweenCycles'
<1>1. CASE BusTicks(BOOLEAN)
  <2>1. PICK pin \in HoldLevels, lrdy \in BOOLEAN : BusClock(pin, lrdy)
    BY <1>1 DEF BusTicks
  <2>. QED BY <2>1, EngineMoves DEF BetweenCycles
<1>2. CASE UNCHANGED BusSide
  BY <1>2 DEF BusSide, busVars, PinInv, BetweenCycles
<1>. QED BY <1>1, <1>2 DEF BusStep

\* A command is launched when none is under way, and its copies are taken while
\* it stands still.
LEMMA CopiesStep ==
  ASSUME PinInv, CoreStep, BusStep
  PROVE  CopiesAgree'
<1>1. TogglesInLine /\ CopiesAgree
  BY DEF PinInv
<1>2. /\ reqToggle \in {0, 1} /\ seen \in {0, 1} /\ ackToggle \in {0, 1}
      /\ reqSync[2] \in {0, 1} /\ ackSync[2] \in {0, 1}
      /\ outstanding \in BOOLEAN /\ armed \in BOOLEAN /\ srcAck \in BOOLEAN
  BY SyncFacts
<1>3. CoreStands \/ CoreMoves
  BY BridgeMoves
<1>4. CycleReq /\ ~srcAck => CycleReq' /\ Command' = Command
  BY CommandKept DEF CycleReq
<1>5. /\ outstanding' => ~armed' /\ ~srcAck'
      /\ srcAck' => ~armed'
      /\ outstanding' \/ srcAck' => CycleReq' /\ srcCmd' = Command'
  <2>1. CASE CoreStands
    <3>1. /\ outstanding' = outstanding /\ armed' = armed /\ srcAck' = srcAck
          /\ srcCmd' = srcCmd /\ arb' = arb /\ Command' = Command
      BY <2>1, CommandStands DEF CoreStands, CoreSide, srcVars, arbVars
    <3>. QED BY <1>1, <3>1 DEF CopiesAgree, CycleReq
  <2>2. CASE Launched
    BY <1>1, <1>4, <2>2 DEF CopiesAgree, Launched
  <2>3. CASE Returned
    BY <1>1, <1>4, <2>3 DEF CopiesAgree, Returned
  <2>4. CASE Waited
    BY <1>1, <1>2, <1>4, <2>4 DEF CopiesAgree, Waited
  <2>. QED BY <1>3, <2>1, <2>2, <2>3, <2>4 DEF CoreMoves
<1>6. outstanding' /\ seen' = reqToggle' => dstCmd' = srcCmd'
  <2>1. \/ seen' = seen /\ dstCmd' = dstCmd
        \/ reqSync[2] # seen /\ seen' = reqSync[2] /\ dstCmd' = srcCmd
    BY BridgeMoves DEF BusStands, BusSide, dstVars, BusMoves, Accepted, Served, DstWaited
  <2>2. \/ reqToggle' = reqToggle /\ srcCmd' = srcCmd /\ (outstanding' => outstanding)
        \/ ~outstanding /\ reqToggle' = 1 - reqToggle
    BY <1>3 DEF CoreStands, CoreSide, srcVars, CoreMoves, Launched, Returned, Waited
  <2>. QED BY <1>1, <1>2, <2>1, <2>2 DEF CopiesAgree, TogglesInLine
<1>7. BusActive' /\ initDone' => dstActive' /\ latched' = dstCmd'
  <2>1. CASE BusTicks(BOOLEAN)
    <3>1. PICK pin \in HoldLevels, lrdy \in BOOLEAN : BusClock(pin, lrdy)
      BY <2>1 DEF BusTicks
    <3>2. SUFFICES ASSUME BusActive', initDone' PROVE dstActive' /\ latched' = dstCmd'
      OBVIOUS
    <3>3. dstActive /\ ~CycleAck /\ latched' = dstCmd
      BY <1>1, <3>1, <3>2, EngineMoves DEF CopiesAgree, CycleAck, CycleComplete
    <3>. QED BY <3>1, <3>3, DstMoves DEF Accepted, Served, DstWaited
  <2>2. CASE UNCHANGED BusSide
    BY <1>1, <2>2 DEF BusSide, busVars, dstVars, CopiesAgree, BusActive
  <2>. QED BY <2>1, <2>2 DEF BusStep
<1>. QED BY <1>5, <1>6, <1>7 DEF CopiesAgree

\* Without a grant the chip keeps the pins.
LEMMA NoGrantKept ==
  ASSUME PinInv, BusStep, NoGrant, ~HoldAck
  PROVE  NoGrant'
<1>1. CASE BusTicks(BOOLEAN)
  <2>1. PICK pin \in HoldLevels, lrdy \in BOOLEAN : BusClock(pin, lrdy)
    BY <1>1 DEF BusTicks
  <2>2. ~grantSync'[1] /\ ~grantSync'[2]
    BY <2>1, DstMoves DEF NoGrant
  <2>3. holdState' = "RUN"
    BY <2>1, EngineMoves DEF NoGrant
  <2>. QED BY <2>2, <2>3 DEF NoGrant
<1>2. CASE UNCHANGED BusSide
  BY <1>2 DEF BusSide, busVars, NoGrant
<1>. QED BY <1>1, <1>2 DEF BusStep

\* A command that is served and not yet seen was so before the step, or is
\* served in it; either way the arbiter waits.
LEMMA ServedOrigin ==
  ASSUME PinInv, CoreStep, BusStep, ServedUnseen'
  PROVE  /\ outstanding /\ CycleReq /\ ~srcAck
         /\ \/ ServedUnseen /\ dstResponse' = dstResponse
            \/ Served /\ dstResponse' = readData
<1>1. TogglesInLine /\ CopiesAgree
  BY DEF PinInv
<1>2. /\ reqToggle \in {0, 1} /\ seen \in {0, 1} /\ ackToggle \in {0, 1}
      /\ reqSync[2] \in {0, 1} /\ ackSync[2] \in {0, 1}
  BY SyncFacts
<1>3. \/ reqToggle' = reqToggle /\ (outstanding' => outstanding)
      \/ ~outstanding /\ reqToggle' = 1 - reqToggle
  BY BridgeMoves DEF CoreStands, CoreSide, srcVars, CoreMoves, Launched, Returned, Waited
<1>4. \/ ackToggle' = ackToggle /\ dstResponse' = dstResponse
      \/ Served /\ ackToggle' = seen /\ dstResponse' = readData
  BY BridgeMoves DEF BusStands, BusSide, dstVars, BusMoves, Accepted, Served, DstWaited
<1>5. Served => dstActive
  BY DEF Served
<1>6. outstanding /\ reqToggle' = reqToggle
  BY <1>1, <1>2, <1>3, <1>4, <1>5 DEF TogglesInLine, ServedUnseen
<1>. QED BY <1>1, <1>2, <1>4, <1>6 DEF ServedUnseen, CopiesAgree

\* An acknowledgement was one before the step, or brings a served command's
\* answer.
LEMMA AckOrigin ==
  ASSUME PinInv, CoreStep, BusStep, srcAck'
  PROVE  \/ CoreStands /\ srcAck /\ CycleReq /\ ~outstanding
         \/ /\ ServedUnseen /\ CycleReq /\ ~srcAck
            /\ srcRdata' = dstResponse
<1>1. TogglesInLine /\ CopiesAgree
  BY DEF PinInv
<1>2. CASE CoreStands
  BY <1>1, <1>2 DEF CoreStands, CoreSide, srcVars, CopiesAgree
<1>3. CASE CoreMoves
  BY <1>1, <1>3 DEF CoreMoves, Launched, Returned, Waited, TogglesInLine, CopiesAgree,
     ServedUnseen
<1>. QED BY <1>2, <1>3, BridgeMoves

\* A pending merge keeps every master but the CPU off the bus.
LEMMA MergeReserves ==
  PinInv /\ MergePending => arb \in {"IDLE", "CPU"} /\ ~HoldAck /\ ~req.io
BY DEF PinInv, FabricInv, Reservation, HoldAck, MergePending

\* The master stays away from what belongs to a cycle.
LEMMA MasterStep ==
  ASSUME PinInv, CoreStep, BusStep
  PROVE  MasterAway'
<1>1. TogglesInLine /\ CopiesAgree /\ MasterAway
  BY DEF PinInv
<1>2. /\ reqToggle \in {0, 1} /\ reqSync[1] \in {0, 1} /\ reqSync[2] \in {0, 1}
      /\ seen \in {0, 1} /\ ackToggle \in {0, 1} /\ ackSync[1] \in {0, 1}
      /\ ackSync[2] \in {0, 1}
  BY SyncFacts
<1>3. \/ reqToggle' = reqToggle /\ (outstanding' => outstanding)
      \/ ~outstanding /\ reqToggle' = 1 - reqToggle
  BY BridgeMoves DEF CoreStands, CoreSide, srcVars, CoreMoves, Launched, Returned, Waited
<1>4. \/ reqSync' = reqSync /\ grantSync' = grantSync
      \/ reqSync' = <<reqToggle, reqSync[1]>> /\ grantSync' = <<HoldAck, grantSync[1]>>
  BY BridgeMoves DEF BusStands, BusSide, dstVars, BusMoves
<1>5. CycleReq => ~HoldAck
  BY DEF CycleReq, Masters, HoldAck
<1>6. outstanding' /\ reqSync'[1] = reqToggle' => ~grantSync'[1]
  BY <1>1, <1>2, <1>3, <1>4, <1>5 DEF TogglesInLine, CopiesAgree, MasterAway
<1>7. outstanding' /\ reqSync'[2] = reqToggle' => ~grantSync'[2]
  BY <1>1, <1>2, <1>3, <1>4, <1>5 DEF TogglesInLine, CopiesAgree, MasterAway
<1>8. ASSUME ServedUnseen' PROVE NoGrant'
  <2>1. CycleReq /\ (ServedUnseen \/ Served)
    BY <1>8, ServedOrigin
  <2>2. ServedUnseen => NoGrant
    BY <1>1 DEF MasterAway
  <2>3. Served => NoGrant
    BY OnThePins DEF Served, CycleAck, CycleComplete, BusActive, NoGrant
  <2>. QED BY <1>5, <2>1, <2>2, <2>3, NoGrantKept
<1>9. ASSUME srcAck' PROVE NoGrant'
  <2>1. CycleReq /\ (srcAck \/ ServedUnseen)
    BY <1>9, AckOrigin
  <2>. QED BY <1>1, <1>5, <2>1, NoGrantKept DEF MasterAway
<1>10. ASSUME MergePending' PROVE NoGrant'
  <2>1. (OldWordRead /\ srcAck) \/ MergePending
    BY <1>10, MergeOrigin
  <2>2. NoGrant
    BY <1>1, <2>1 DEF MasterAway
  <2>3. ~HoldAck
    BY <2>1, MergeReserves DEF OldWordRead, HoldAck
  <2>. QED BY <2>2, <2>3, NoGrantKept
<1>. QED BY <1>6, <1>7, <1>8, <1>9, <1>10 DEF MasterAway

\* Memory stands still while the chip has the pins and no write of its ends.
LEMMA MemoryStands ==
  ASSUME PinInv, BusStep, holdState = "RUN", ~WordWritten
  PROVE  mem' = mem
BY MemoryStep DEF Released, MajorityDrive

\* In the CPU's cycle only the sequencer's words have a word's kind.
LEMMA CommandKindOfCpu ==
  arb = "CPU" /\ Command.kind = "WORD_WRITE" => ~req.io /\ CpuWe
BY DEF Command

\* The cycle that reads the old word is a read of the word to be written.
LEMMA OldWordCommand ==
  ASSUME PinInv, OldWordRead
  PROVE  Command.kind = "WORD_READ" /\ Command.addr = WordAddress
<1>1. ~req.io
  BY DEF PinInv, FabricInv, Reservation, OldWordRead
<1>2. ~CpuWe
  BY <1>1 DEF CpuWe, WordWe, OldWordRead
<1>. QED BY <1>1, <1>2, CommandOfCpu DEF OldWordRead

\* The old word is memory's at every station of its way.
LEMMA OldWordStep ==
  ASSUME PinInv, CoreStep, BusStep
  PROVE  OldWordFresh'
<1>1. TogglesInLine /\ CopiesAgree /\ MasterAway /\ OldWordFresh
  BY DEF PinInv
<1>2. /\ reqToggle \in {0, 1} /\ seen \in {0, 1} /\ ackToggle \in {0, 1}
      /\ ackSync[1] \in {0, 1} /\ ackSync[2] \in {0, 1}
  BY SyncFacts
<1>3. WordWritten => /\ CycleAck /\ BusActive /\ initDone
                     /\ dstActive /\ outstanding /\ ~srcAck /\ CycleReq /\ ~ServedUnseen
                     /\ latched = Command /\ Command.kind = "WORD_WRITE"
  BY OnThePins DEF WordWritten, CycleAck, CycleComplete, BusActive
<1>4. ASSUME CycleAck', latched'.kind = "WORD_READ"
      PROVE  readData' = mem'[latched'.addr]
  <2>1. CASE BusTicks(BOOLEAN)
    <3>1. PICK pin \in HoldLevels, lrdy \in BOOLEAN : BusClock(pin, lrdy)
      BY <2>1 DEF BusTicks
    <3>2. /\ BusActive /\ initDone /\ ~CycleAck /\ latched' = latched
          /\ readData' = mem[latched.addr]
      BY <1>4, <3>1, EngineMoves
    <3>3. mem' = mem
      BY <1>3, <3>2, OnThePins, MemoryStands
    <3>. QED BY <3>2, <3>3
  <2>2. CASE UNCHANGED BusSide
    BY <1>1, <1>4, <2>2 DEF BusSide, busVars, OldWordFresh, CycleAck, CycleComplete
  <2>. QED BY <2>1, <2>2 DEF BusStep
<1>5. ASSUME ServedUnseen', OldWordRead'
      PROVE  dstResponse' = mem'[WordAddress']
  <2>1. /\ outstanding /\ CycleReq /\ ~srcAck
        /\ \/ ServedUnseen /\ dstResponse' = dstResponse
           \/ Served /\ dstResponse' = readData
    BY <1>5, ServedOrigin
  <2>2. OldWordRead /\ WordAddress' = WordAddress
    BY <1>5, <2>1, OldWordOrigin DEF WordAddress
  <2>3. ~WordWritten
    BY <1>3, <2>2, OldWordCommand
  <2>4. CASE ServedUnseen /\ dstResponse' = dstResponse
    <3>1. mem' = mem
      BY <1>1, <2>3, <2>4, MemoryStands DEF MasterAway, NoGrant
    <3>. QED BY <1>1, <2>2, <2>4, <3>1 DEF OldWordFresh
  <2>5. CASE Served /\ dstResponse' = readData
    <3>1. CycleAck /\ BusActive /\ initDone
      BY <2>5 DEF Served, CycleAck, CycleComplete, BusActive
    <3>2. latched = Command /\ holdState = "RUN"
      BY <3>1, OnThePins
    <3>3. readData = mem[WordAddress]
      BY <1>1, <2>2, <3>1, <3>2, OldWordCommand DEF OldWordFresh
    <3>4. mem' = mem
      BY <2>3, <3>2, MemoryStands
    <3>. QED BY <2>2, <2>5, <3>3, <3>4
  <2>. QED BY <2>1, <2>4, <2>5
<1>6. ASSUME srcAck', OldWordRead'
      PROVE  srcRdata' = mem'[WordAddress']
  <2>1. CASE CoreStands /\ srcAck /\ CycleReq /\ ~outstanding
    <3>1. /\ OldWordRead /\ srcRdata' = srcRdata /\ WordAddress' = WordAddress
      BY <1>6, <2>1 DEF CoreStands, CoreSide, srcVars, seqVars, arbVars, OldWordRead, WordAddress
    <3>2. mem' = mem
      BY <1>1, <1>3, <2>1, MemoryStands DEF MasterAway, NoGrant
    <3>. QED BY <1>1, <2>1, <3>1, <3>2 DEF OldWordFresh
  <2>2. CASE ServedUnseen /\ CycleReq /\ ~srcAck /\ srcRdata' = dstResponse
    <3>1. OldWordRead /\ WordAddress' = WordAddress
      BY <1>6, <2>2, OldWordOrigin DEF WordAddress
    <3>2. mem' = mem
      BY <1>1, <1>3, <2>2, MemoryStands DEF MasterAway, NoGrant
    <3>. QED BY <1>1, <2>2, <3>1, <3>2 DEF OldWordFresh
  <2>. QED BY <1>6, <2>1, <2>2, AckOrigin
<1>7. ASSUME MergePending', ~(arb' = "CPU" /\ (ServedUnseen' \/ srcAck'))
      PROVE  rmwWord' = mem'[WordAddress']
  <2>1. field' = field /\ windex' = windex /\ WordAddress' = WordAddress
    BY <1>7, MergeOrigin DEF WordAddress
  <2>2. CASE OldWordRead /\ srcAck /\ rmwWord' = srcRdata
    <3>1. mem' = mem
      BY <1>1, <1>3, <2>2, MemoryStands DEF MasterAway, NoGrant
    <3>. QED BY <1>1, <2>1, <2>2, <3>1 DEF OldWordFresh
  <2>3. CASE /\ MergePending /\ rmwWord' = rmwWord
             /\ CpuAck(srcAck) => CoreStands
    <3>1. arb \in {"IDLE", "CPU"} /\ (CycleReq => arb = "CPU")
      BY <2>3, MergeReserves DEF CycleReq, Masters
    <3>2. ~(arb = "CPU" /\ srcAck)
      <4>1. SUFFICES ASSUME arb = "CPU", srcAck PROVE FALSE
        OBVIOUS
      <4>2. CoreStands
        BY <2>3, <4>1 DEF CpuAck
      <4>. QED BY <1>7, <4>1, <4>2 DEF CoreStands, CoreSide, srcVars, arbVars
    <3>3. ASSUME outstanding, ackToggle' = reqToggle
          PROVE  arb = "CPU" /\ arb' = "CPU" /\ (ServedUnseen' \/ srcAck')
      <4>1. CycleReq /\ ~srcAck
        BY <1>1, <3>3 DEF CopiesAgree
      <4>2. arb = "CPU" /\ arb' = "CPU"
        BY <3>1, <4>1, CommandKept
      <4>3. (outstanding' /\ reqToggle' = reqToggle) \/ srcAck'
        BY <3>3, BridgeMoves DEF CoreStands, CoreSide, srcVars, CoreMoves, Launched, Returned, Waited
      <4>. QED BY <3>3, <4>2, <4>3 DEF ServedUnseen
    <3>4. ~ServedUnseen
      <4>1. SUFFICES ASSUME ServedUnseen PROVE FALSE
        OBVIOUS
      <4>2. ackToggle' = ackToggle
        BY <1>1, <1>2, <4>1, BridgeMoves DEF ServedUnseen, TogglesInLine, BusStands, BusSide,
           dstVars, BusMoves, Accepted, Served, DstWaited
      <4>. QED BY <1>7, <3>3, <4>1, <4>2 DEF ServedUnseen
    <3>5. mem' = mem
      <4>1. CASE BusStands
        BY <4>1 DEF BusStands, BusSide
      <4>2. CASE BusMoves /\ WordWritten
        <5>1. ackToggle' = seen /\ outstanding
          BY <1>3, <4>2 DEF BusMoves, Accepted, Served, DstWaited
        <5>2. seen = reqToggle
          BY <1>1, <1>2, <1>3, <4>2 DEF TogglesInLine, ServedUnseen
        <5>. QED BY <1>7, <3>3, <5>1, <5>2
      <4>3. CASE ~WordWritten
        BY <1>1, <2>3, <4>3, MemoryStands DEF MasterAway, NoGrant
      <4>. QED BY <4>1, <4>2, <4>3, BridgeMoves
    <3>. QED BY <1>1, <2>1, <2>3, <3>2, <3>4, <3>5 DEF OldWordFresh
  <2>. QED BY <1>7, <2>2, <2>3, MergeOrigin DEF CoreStands
<1>. QED BY <1>4, <1>5, <1>6, <1>7 DEF OldWordFresh

-----------------------------------------------------------------------------
(* The theorems. *)

\* Reset establishes the invariant.
LEMMA PinInitInv == PinInit => PinInv
<1>. SUFFICES ASSUME PinInit PROVE PinInv
  OBVIOUS
<1>1. FabricInv
  BY InitInv DEF PinInit, Inv
<1>. USE DEF PinInit, BridgeInit, BusInit, SyncReset
<1>2. PinTypeOK
  <2>1. ackSync \in SyncPair(Toggle) /\ reqSync \in SyncPair(Toggle)
    BY DEF SyncPair, Toggle
  <2>2. grantSync \in SyncPair(BOOLEAN)
    BY DEF SyncPair
  <2>3. reqToggle \in Toggle /\ seen \in Toggle /\ ackToggle \in Toggle
    BY DEF Toggle
  <2>4. phase \in Q1A .. Q4B
    BY DEF Q1A, Q4B
  <2>. QED BY <2>1, <2>2, <2>3, <2>4, ZeroTypes DEF PinTypeOK
<1>3. TogglesInLine
  BY DEF TogglesInLine
<1>4. CopiesAgree
  BY DEF CopiesAgree, BusActive
<1>5. BetweenCycles
  BY DEF BetweenCycles
<1>6. MasterAway /\ OldWordFresh
  BY DEF MasterAway, OldWordFresh, ServedUnseen, MergePending, Init, SeqInit, CycleAck
<1>. QED BY <1>1, <1>2, <1>3, <1>4, <1>5, <1>6 DEF PinInv

\* Every step keeps it: an edge of the core clock, of the bus clock or of both.
LEMMA PinStepInv == PinInv /\ [PinNext]_pinVars => PinInv'
<1>. SUFFICES ASSUME PinInv, CoreStep, BusStep PROVE PinInv'
  BY StepSides
<1>1. FabricInv'
  BY FabricKept, MemoryStep
<1>2. PinTypeOK' /\ TogglesInLine' /\ CopiesAgree'
  BY PinTypesStep, TogglesStep, CopiesStep
<1>3. BetweenCycles' /\ MasterAway' /\ OldWordFresh'
  BY BetweenStep, MasterStep, OldWordStep
<1>. QED BY <1>1, <1>2, <1>3 DEF PinInv

\* Every reachable state of the pin system satisfies the invariant.
THEOREM PinInvHolds == PinSpec => []PinInv
<1>1. PinInit => PinInv
  BY PinInitInv
<1>. QED BY <1>1, PinStepInv, PTL DEF PinSpec

\* The arbiter's command, the bridge's copies and the one on the pins are the
\* same from launch to acknowledgement, whatever the ratio of the clocks.
THEOREM OneCommand == PinSpec => []OneCommandEverywhere
<1>1. PinInv => OneCommandEverywhere
  <2>. SUFFICES ASSUME PinInv PROVE OneCommandEverywhere
    OBVIOUS
  <2>1. CopiesAgree /\ TogglesInLine
    BY DEF PinInv
  <2>2. dstActive => outstanding /\ seen = reqToggle
    BY <2>1, SyncFacts DEF TogglesInLine
  <2>. QED BY <2>1, <2>2 DEF OneCommandEverywhere, CopiesAgree
<1>. QED BY <1>1, PinInvHolds, PTL

\* A word that the CPU writes on the pins leaves every bit outside the field as
\* memory has it: no HOLD, however late its level and its grant cross, lets the
\* master in between the read of the old word and the write.
THEOREM OnlyFieldBits == PinSpec => OnlyFieldBitsAtPins
<1>. DEFINE A == WordWritten /\ arb = "CPU" /\ mem' # mem
                   => \A b \in Lanes : b \notin WordMask(field, windex)
                         => mem'[latched.addr][b] = mem[latched.addr][b]
<1>1. ASSUME PinInv, BusStep, WordWritten, arb = "CPU", mem' # mem,
             NEW b \in Lanes, b \notin WordMask(field, windex)
      PROVE  mem'[latched.addr][b] = mem[latched.addr][b]
  <2>1. /\ latched = Command /\ holdState = "RUN" /\ ~srcAck /\ ~ServedUnseen /\ CycleReq
        /\ Command.kind = "WORD_WRITE"
    BY <1>1, OnThePins DEF WordWritten, CycleAck, CycleComplete, BusActive
  <2>2. mem' = [mem EXCEPT ![Command.addr] = Command.wdata]
    BY <1>1, <2>1, MemoryStep DEF Released, MajorityDrive
  <2>3. ~req.io /\ CpuWe
    BY <1>1, <2>1, CommandKindOfCpu
  <2>4. seq = "WRITE_WORD" /\ Command.addr = WordAddress /\ Command.wdata = WordWdata
    BY <1>1, <2>3, CommandOfCpu DEF CpuWe, WordWe
  <2>5. /\ mem \in [WordAddr -> Word] /\ field \in Field /\ windex \in 0 .. 2
        /\ WordAddress \in WordAddr
    BY <1>1, WireTypes DEF PinInv, FabricInv, TypeOK, SeqTypeOK
  <2>6. mem'[WordAddress] = Merge(rmwWord, field, windex)
    BY <2>2, <2>4, <2>5 DEF WordWdata
  <2>7. CASE NeedsRead(field, windex)
    <3>1. rmwWord = mem[WordAddress]
      BY <1>1, <2>1, <2>4, <2>7 DEF PinInv, OldWordFresh, MergePending
    <3>. QED BY <1>1, <2>1, <2>4, <2>5, <2>6, <3>1, MergeKeeps
  <2>8. CASE ~NeedsRead(field, windex)
    BY <1>1, <2>8 DEF NeedsRead
  <2>. QED BY <2>7, <2>8
<1>2. PinInv /\ [PinNext]_pinVars => [A]_pinVars
  BY <1>1, StepSides
<1>. QED BY <1>2, PinInvHolds, PTL DEF PinSpec, OnlyFieldBitsAtPins
=============================================================================
