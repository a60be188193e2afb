------------------------------ MODULE LocalBus ------------------------------
(***************************************************************************)
(* tms34010_local_bus: the phase engine on the original pins.              *)
(*                                                                         *)
(* A local clock is eight phases of the 8x clock, Q1A to Q4B.  A cycle     *)
(* takes a first and a second local clock; LRDY low at the end of Q1       *)
(* repeats the second.  HOLD is looked at at the end of Q1, and gives the  *)
(* bus away only while no cycle runs.                                      *)
(*                                                                         *)
(* BusEdge(in) is one edge of the 8x clock.  The record in holds the input *)
(* pins: req and cmd (the command to run), hold (HOLD, active high here),  *)
(* grant (the arbiter's grant), lrdy, lad (the data pins) and ioRdata.     *)
(***************************************************************************)
EXTENDS Integers

CONSTANT InitCycles     \* RAS-only cycles after reset: 8

ASSUME InitCyclesAssumption == InitCycles \in Nat \ {0}

VARIABLES
    phase,          \* phase_q: 0 .. 7 for Q1A .. Q4B
    bus,            \* state_q
    holdState,      \* hold_state_q
    holdReq,        \* hold_req_q
    latched,        \* kind_q, addr_q, wdata_q, ...: the captured command
    initLeft,       \* init_remaining_q
    initDone,       \* init_done_q
    ready,          \* ready_q
    extended,       \* extended_q
    repeated,       \* second_repeat_q
    readData        \* read_data_q

busVars == <<phase, bus, holdState, holdReq, latched, initLeft, initDone, ready,
             extended, repeated, readData>>

Q1A == 0
Q1B == 1
Q2A == 2
Q2B == 3
Q3A == 4
Q3B == 5
Q4A == 6
Q4B == 7

HoldStates == {"RUN", "EARLY_ACK", "RELEASE_MAJORITY", "BUS_RELEASED",
               "RESUME_WAIT", "RESUME_MAJORITY"}

BusTypeOK(Command, Data) ==
    /\ phase \in Q1A .. Q4B
    /\ bus \in {"RESET", "IDLE", "FIRST", "SECOND"}
    /\ holdState \in HoldStates
    /\ holdReq \in BOOLEAN
    /\ latched \in Command
    /\ initLeft \in 0 .. InitCycles
    /\ initDone \in BOOLEAN
    /\ ready \in BOOLEAN /\ extended \in BOOLEAN /\ repeated \in BOOLEAN
    /\ readData \in Data

BusInit(noCmd, noData) ==
    /\ phase = Q1A
    /\ bus = "RESET"
    /\ holdState = "RUN"
    /\ holdReq = FALSE
    /\ latched = noCmd
    /\ initLeft = InitCycles
    /\ initDone = FALSE
    /\ ready = FALSE /\ extended = FALSE /\ repeated = FALSE
    /\ readData = noData

\* The cycle on the pins; the cycles after reset are RAS-only refreshes.
ActiveKind == IF initDone THEN latched.kind ELSE "DRAM_RAS"
ActiveIsIo == ActiveKind \in {"IO_READ", "IO_WRITE"}
BusActive  == bus \in {"FIRST", "SECOND"}

CycleComplete == bus = "SECOND" /\ phase = Q4B /\ ready
CycleAck      == initDone /\ CycleComplete

-----------------------------------------------------------------------------
(* HOLD. *)

SampleHold(in) == holdReq' = IF phase = Q1B THEN in.hold ELSE holdReq

\* Fault: the bus is given away in the middle of a cycle.
GiveBusAnyTime(in) ==
    /\ holdState = "RUN" /\ phase = Q1B
    /\ in.hold /\ in.grant /\ initDone
    /\ holdState' = "EARLY_ACK"

GiveBus(in) ==
    /\ holdState = "RUN" /\ phase = Q1B
    /\ in.hold /\ in.grant /\ initDone /\ bus = "IDLE"
    /\ holdState' = "EARLY_ACK"

ConfirmHold(in) ==
    /\ holdState = "EARLY_ACK" /\ phase = Q1B
    /\ holdState' = IF in.hold THEN "RELEASE_MAJORITY" ELSE "RUN"

ReleaseRest ==
    /\ holdState = "RELEASE_MAJORITY" /\ phase = Q2B
    /\ holdState' = "BUS_RELEASED"

SeeHoldEnd(in) ==
    /\ holdState = "BUS_RELEASED" /\ phase = Q1B /\ ~in.hold
    /\ holdState' = "RESUME_WAIT"

Resume(in) ==
    /\ holdState = "RESUME_WAIT" /\ phase = Q1B
    /\ holdState' = IF in.hold THEN "BUS_RELEASED" ELSE "RESUME_MAJORITY"

ResumeRest ==
    /\ holdState = "RESUME_MAJORITY" /\ phase = Q2B
    /\ holdState' = "RUN"

HoldChanges(in) ==
    \/ GiveBus(in) \/ ConfirmHold(in) \/ ReleaseRest
    \/ SeeHoldEnd(in) \/ Resume(in) \/ ResumeRest

HoldStays(in) ==
    /\ CASE holdState = "RUN" ->
              ~(phase = Q1B /\ in.hold /\ in.grant /\ initDone /\ bus = "IDLE")
         [] holdState \in {"EARLY_ACK", "RESUME_WAIT"} -> phase # Q1B
         [] holdState = "BUS_RELEASED" -> phase # Q1B \/ in.hold
         [] OTHER -> phase # Q2B
    /\ UNCHANGED holdState

MajorityDrive == holdState \in {"RUN", "EARLY_ACK", "RESUME_MAJORITY"}
SlowDrive     == holdState \in {"RUN", "EARLY_ACK", "RELEASE_MAJORITY"}

\* HLDA shares its pin: it means something while LCLK1 is low (Q3, Q4).
Hlda == /\ phase \in Q3A .. Q4B
        /\ holdState \in {"EARLY_ACK", "RELEASE_MAJORITY", "BUS_RELEASED"}

-----------------------------------------------------------------------------
(* Cycles. *)

LeaveReset ==
    /\ bus = "RESET"
    /\ bus' = "FIRST"
    /\ UNCHANGED <<ready, extended, repeated, initLeft, initDone, readData>>

BeginCycle(in) ==
    /\ bus = "IDLE" /\ phase = Q4B /\ in.req /\ holdState = "RUN"
    /\ bus' = "FIRST"
    /\ UNCHANGED <<ready, extended, repeated, initLeft, initDone, readData>>

StayIdle(in) ==
    /\ bus = "IDLE" /\ ~(phase = Q4B /\ in.req /\ holdState = "RUN")
    /\ UNCHANGED <<bus, ready, extended, repeated, initLeft, initDone, readData>>

\* The LRDY history of the access: empty as its second local clock begins.
ForgetWaits == ready' = FALSE /\ extended' = FALSE /\ repeated' = FALSE

\* The cycles after reset are counted down.
CountInit ==
    /\ initLeft' = IF initDone THEN initLeft ELSE initLeft - 1
    /\ initDone' = (initDone \/ initLeft = 1)

FirstPeriod ==
    /\ bus = "FIRST"
    /\ IF phase = Q4B
       THEN bus' = "SECOND" /\ ForgetWaits
       ELSE UNCHANGED <<bus, ready, extended, repeated>>
    /\ UNCHANGED <<initLeft, initDone, readData>>

\* Fault: the extension of the access is not remembered.
SampleReadyForgets(in) ==
    /\ bus = "SECOND" /\ phase = Q1B
    /\ ready' = (ActiveIsIo \/ in.lrdy)
    /\ UNCHANGED <<bus, extended, repeated, initLeft, initDone, readData>>

\* Fault: LRDY is looked at in the first access period only.
SampleReadyOnce(in) ==
    /\ bus = "SECOND" /\ phase = Q1B
    /\ ready' = IF repeated THEN ready ELSE ActiveIsIo \/ in.lrdy
    /\ extended' = (extended \/ (~ActiveIsIo /\ ~in.lrdy))
    /\ UNCHANGED <<bus, repeated, initLeft, initDone, readData>>

SampleReady(in) ==
    /\ bus = "SECOND" /\ phase = Q1B
    /\ ready' = (ActiveIsIo \/ in.lrdy)
    /\ extended' = (extended \/ (~ActiveIsIo /\ ~in.lrdy))
    /\ UNCHANGED <<bus, repeated, initLeft, initDone, readData>>

SampleData(in) ==
    /\ bus = "SECOND" /\ phase = Q4A /\ ready
    /\ readData' = CASE ActiveKind = "WORD_READ" -> in.lad
                     [] ActiveKind = "IO_READ"   -> in.ioRdata
                     [] ActiveKind = "PIXEL_MTR" -> in.zero
                     [] OTHER                    -> readData
    /\ UNCHANGED <<bus, ready, extended, repeated, initLeft, initDone>>

RepeatSecond ==
    /\ bus = "SECOND" /\ phase = Q4B /\ ~ready
    /\ repeated' = TRUE
    /\ UNCHANGED <<bus, ready, extended, initLeft, initDone, readData>>

EndBusCycle ==
    /\ CycleComplete
    /\ bus' = IF ~initDone /\ initLeft # 1 THEN "FIRST" ELSE "IDLE"
    /\ ForgetWaits /\ CountInit
    /\ UNCHANGED readData

SecondPeriod ==
    /\ bus = "SECOND" /\ phase \notin {Q1B, Q4B} /\ ~(phase = Q4A /\ ready)
    /\ UNCHANGED <<bus, ready, extended, repeated, initLeft, initDone, readData>>

RunCycle(in) ==
    \/ LeaveReset      \/ BeginCycle(in) \/ StayIdle(in)  \/ FirstPeriod
    \/ SampleReady(in) \/ SampleData(in) \/ RepeatSecond  \/ EndBusCycle
    \/ SecondPeriod

\* The command is captured at the end of every idle local clock it is asked in.
LatchCommand(in) ==
    latched' = IF bus = "IDLE" /\ phase = Q4B /\ in.req THEN in.cmd ELSE latched

BusEdge(in) ==
    /\ phase' = (phase + 1) % 8
    /\ SampleHold(in)
    /\ HoldChanges(in) \/ HoldStays(in)
    /\ RunCycle(in)
    /\ LatchCommand(in)

-----------------------------------------------------------------------------
(* The pins, TRUE when asserted (all of them are active low).  A strobe that *)
(* an LRDY wait finds asserted stays so while the second local clock is     *)
(* repeated; extended and repeated remember that.                           *)

Transfers == {"SCREEN_REFRESH", "PIXEL_MTR", "PIXEL_RTM"}
InFirst(p)  == bus = "FIRST" /\ phase >= p
\* From phase p of the second local clock, and throughout its repeats.
InSecond(p) == bus = "SECOND" /\ (extended \/ phase >= p) /\ ~CycleComplete

Ras == \/ InFirst(IF ActiveKind = "DRAM_CBR" THEN Q4A ELSE Q3B)
       \/ bus = "SECOND" /\ ~CycleComplete

Lal == \/ InFirst(IF ActiveKind = "DRAM_CBR" THEN Q3A ELSE Q4B)
       \/ bus = "SECOND"

Cas == CASE ActiveKind = "DRAM_CBR" -> InFirst(Q2A) \/ InSecond(Q1A)
         [] ActiveKind \in Transfers \cup {"WORD_READ", "WORD_WRITE"} -> InSecond(Q1B)
         [] OTHER -> FALSE

We == CASE ActiveKind = "PIXEL_RTM"  -> InFirst(Q2A) /\ phase <= Q3B
        [] ActiveKind = "WORD_WRITE" -> InSecond(Q2B)
        [] OTHER -> FALSE

\* Fault: a read's output enable is not repeated with the access.
TrQeNotRepeated ==
    CASE ActiveKind \in Transfers ->
                 InFirst(Q2A) \/ (bus = "SECOND" /\ ~repeated /\ phase <= Q2B)
          [] ActiveKind = "WORD_READ" -> InSecond(Q2A) /\ ~repeated
          [] OTHER -> FALSE

TrQe == CASE ActiveKind \in Transfers ->
                 InFirst(Q2A) \/ (bus = "SECOND" /\ ~repeated /\ phase <= Q2B)
          [] ActiveKind = "WORD_READ" -> InSecond(Q2A)
          [] OTHER -> FALSE

Den == CASE ActiveKind \in Transfers    -> bus = "FIRST" /\ phase < Q2A
         [] ActiveKind = "WORD_READ"  -> InSecond(Q2A)
         [] ActiveKind = "WORD_WRITE" -> bus = "SECOND"
         [] OTHER -> FALSE

\* DDOUT low: the external buffers drive LAD.
DataIn == CASE ActiveKind \in Transfers   -> bus = "FIRST" /\ phase < Q2A
            [] ActiveKind = "WORD_READ" ->
                   bus = "SECOND" /\ (extended \/ phase >= Q1B)
            [] OTHER -> FALSE

\* LAD is driven by the chip.
LadDriven == /\ \/ bus = "FIRST"
                \/ bus = "SECOND" /\ ActiveKind \notin {"WORD_READ", "IO_READ"}
             /\ MajorityDrive

-----------------------------------------------------------------------------
(* Properties. *)

\* Strobes are released by the end of the cycle and by nothing else: LRDY
\* waits of any length do not let RAS, CAS, LAL, a write's W or a read's
\* output enable rise in the middle of the access.
StrobesHeldThroughWaits ==
    [][/\ Ras /\ ~Ras' => CycleComplete'
       /\ Cas /\ ~Cas' => CycleComplete'
       /\ Lal /\ ~Lal' => CycleComplete
       /\ ActiveKind = "WORD_WRITE" /\ We /\ ~We' => CycleComplete'
       /\ ActiveKind = "WORD_READ" /\ TrQe /\ ~TrQe' => CycleComplete']_busVars

\* I/O cycles complete in exactly two local clocks, whatever LRDY does.
IoTakesTwoClocks == BusActive /\ ActiveIsIo => ~repeated /\ ~extended

\* LAD is sampled for a read only while the memory drives it: its output
\* enable and column strobe are down, the buffers point inwards and the chip
\* has let go.
SampledFromMemory ==
    bus = "SECOND" /\ phase = Q4A /\ ready /\ ActiveKind = "WORD_READ"
        => Cas /\ TrQe /\ Den /\ DataIn /\ ~LadDriven

\* HOLD never cuts a cycle: while one is on the pins, the chip drives all of
\* them, and before the cycles after reset are over the bus is not given away.
HoldNeverCutsACycle ==
    /\ BusActive => MajorityDrive /\ SlowDrive /\ holdState = "RUN"
    /\ ~initDone => holdState = "RUN"
=============================================================================
