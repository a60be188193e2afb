---------------------------- MODULE TimedFabric ----------------------------
(***************************************************************************)
(* The memory fabric as it is with CYCLE_ACCURATE = 1: the bus timer sits  *)
(* between the arbiter and the external controller, and a phase counter    *)
(* divides time into machine states of ClksPerState clocks.                *)
(*                                                                         *)
(* The controller performs a cycle, a write to memory included, when it    *)
(* acknowledges it; the fabric hears of it when the timer lets it.         *)
(***************************************************************************)
EXTENDS MemoryFabric, BusTimer

\* tms34010_core refuses a CYCLE_ACCURATE build with fewer (at elaboration).
ASSUME TimedAssumption == CYCLE_ACCURATE /\ ClksPerState >= 8

VARIABLES
    phase,      \* phase_q: the clock of the present machine state
    age,        \* cpu_age_q, saturating at AgeBound
    \* History, for the properties and the refinement only:
    settled,    \* memory without the write the timer still holds back
    own,        \* clocks the present cycle has had the bus before this one
    free,       \* clocks nobody had the bus before the present cycle
    shared      \* another master has had the bus at some time

historyVars == <<settled, own, free, shared>>
timedVars == <<vars, timerVars, phase, age, historyVars>>

\* The register counts to 255; the timer never looks beyond a cycle.
AgeBound == CycleClks

TimedInit ==
    /\ Init
    /\ TimerInit(ZeroWord)
    /\ phase = 0 /\ age = 0
    /\ settled = mem
    /\ own = 0 /\ free = 0 /\ shared = FALSE

-----------------------------------------------------------------------------
\* The state grid runs free.
PhaseClock == phase' = (phase + 1) % ClksPerState

\* The age of a request counts from the start of the state it is taken in.
AgeClock(ack) ==
    age' = IF Capture(ack) THEN phase + 1 ELSE Least(age + 1, AgeBound)

TimerPins(extAck) ==
    [req |-> CycleReq, cpu |-> arb = "CPU", age |-> age,
     extAck |-> extAck, extRdata |-> IF extAck THEN ReadData ELSE ZeroWord]

\* The controller answers when it likes, while it is asked; its data is on the
\* bus only in that clock.
Controller(extAck) ==
    /\ extAck => ExtReq(CycleReq)
    /\ Memory(extAck)

History(ack) ==
    /\ settled' = IF CycleReq /\ ~ack THEN settled ELSE mem'
    /\ own'  = IF CycleReq /\ ~ack THEN Least(own + 1, CycleClks) ELSE 0
    /\ free' = IF CycleReq /\ ~ack THEN free
               ELSE IF CycleReq \/ HoldAck THEN 0 ELSE Least(free + 1, CycleClks)
    /\ shared' = (shared \/ arb' \notin {"IDLE", "CPU"})

TimedClock(extAck, refresh, ioLive) ==
    LET in == TimerPins(extAck)
    IN  /\ FabricClock(TimerAck(in), TimerRdata(in), refresh, ioLive)
        /\ TimerClock(in)
        /\ PhaseClock /\ AgeClock(TimerAck(in))
        /\ HoldClient
        /\ Controller(extAck)
        /\ History(TimerAck(in))

TimedNext ==
    \E extAck \in BOOLEAN, refresh \in Rows \cup {NoRow}, ioLive \in IoValues :
        TimedClock(extAck, refresh, ioLive)

TimedSpec == TimedInit /\ [][TimedNext]_timedVars

-----------------------------------------------------------------------------
(* Properties. *)

\* To the fabric and its clients the timer is nothing but delay: with every
\* write taking effect in the clock the fabric hears of it, the timed design
\* is a behaviour of MemoryFabric, whose controller answers at any clock.  A
\* read returns what memory held, however long its answer was kept.
Untimed == INSTANCE MemoryFabric WITH mem <- settled
UntimedSpec == Untimed!Spec

\* "Every cycle the arbiter issues occupies the bus for two states": of the
\* two states before the clock in which a cycle can end, none was part of
\* another cycle or belonged to an external master.
CycleTakesTwoStates ==
    Last => own + 1 + (IF arb = "CPU" THEN free ELSE 0) >= CycleClks

\* "The acknowledge is given in the last clock of the cycle's last state":
\* while the CPU has the bus to itself its cycles end on the state grid, the
\* back to back words of one field and the cycles with wait states included.
CpuOnStateGrid == Last /\ ~shared => phase = ClksPerState - 1

\* No cycle is shorter than its two states, and none of the CPU's ends later
\* in a state than it may.
CyclesOnTime == CycleTakesTwoStates /\ CpuOnStateGrid
=============================================================================
