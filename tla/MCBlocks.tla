------------------------------ MODULE MCBlocks -------------------------------
(***************************************************************************)
(* The blocks around the memory fabric that share no register: the phase   *)
(* engine before any requester, the bridge, the video crossings, the       *)
(* screen refresh, the EMU pins, the host port, the instruction cache, the *)
(* video timing and the refresh counter.                                   *)
(*                                                                         *)
(* What a block does depends on the others only through its inputs, and    *)
(* those are free here.  A behaviour therefore follows one block, in one   *)
(* of its instances, while the others stay in their initial state: `block' *)
(* says which.                                                             *)
(***************************************************************************)
EXTENDS BridgeChannel, MCLocalBus, ICache, VideoTiming, RefreshCounter, ScreenRefresh,
        EmuPins, VideoCrossings, HostPort

CONSTANTS
    c1, c2, d1, d2,
    Moving                  \* the blocks followed

TwoCommands == {c1, c2}
TwoAnswers  == {d1, d2}

\* Blocks whose properties are safety properties, and those that promise that
\* something happens: one clock for the core and few lines for these.
SafeBlocks == {"local bus", "bridge", "emu", "screen", "host data", "host control",
               "stores", "segments", "timing", "refresh"}
LiveBlocks == {"config", "loads", "status", "steady emu", "short screen", "short host"}

VARIABLE block

-----------------------------------------------------------------------------
(* The instances.                                                           *)

\* The modules extended have the blocks' first instances: of the video crossings
\* two display interrupts and two changes of the counters, of the host port every
\* access, of the screen refresh a display of two lines.

\* Four configuration writes, two loads of two counters.
Writing == INSTANCE VideoCrossings WITH
            Written <- {}, MaxConfig <- 4, MaxCounterLoads <- 0, MaxEvents <- 0, MaxTicks <- 0
Loading == INSTANCE VideoCrossings WITH
            Written <- {"VCOUNT", "DPYADR"}, MaxConfig <- 0, MaxCounterLoads <- 2,
            MaxEvents <- 0, MaxTicks <- 0

\* A core clock of five edges of the local bus's 8x clock, always.
SteadyEmu == INSTANCE EmuPins WITH MinClocks <- 12, Period <- {5}

\* DPYADR may be loaded while a request is held.
ScreenLoads == {[srf |-> 1, lncnt |-> 0]}
\* One line, the first after the blank.
ShortScreen == INSTANCE ScreenRefresh WITH
            Veblnk <- 0, Vsblnk <- 1, LastLine <- 1, ScreenRows <- 2, Start <- 1, Dudate <- 1,
            Lcstrts <- {0}, ScreenModes <- {"mode"}, Loads <- {}

\* The bytes the host and the processor write, 4 and 5, are in no word of the
\* memory at the start.
HostMode(lbl, incr, incw) == [lbl |-> lbl, incr |-> incr, incw |-> incw]
HostRead(reg, be) == [we |-> FALSE, reg |-> reg, be |-> be, value |-> 0]
HostWrite(reg, be, v) == [we |-> TRUE, reg |-> reg, be |-> be, value |-> v]
DataCalls ==
    {HostRead("HSTDATA", be) : be \in {{0}, {0, 1}}}
        \cup {HostWrite("HSTDATA", be, 4) : be \in {{0}, {1}}}
        \cup {HostWrite("HSTADRL", {0}, 1), HostWrite("HSTADRH", {1}, 1)}
ControlCalls ==
    {HostRead(reg, {0, 1}) : reg \in {"HSTADRL", "HSTDATA", "HSTCTL"}}
        \cup {HostWrite("HSTCTL", be, HostMode(TRUE, TRUE, TRUE)) : be \in {{0}, {1}}}

\* What the port promises does not depend on which of these are made: the module
\* extended has them all, and the blocks some.
HostCalls  == DataCalls \cup ControlCalls
HostModes  == {HostMode(lbl, incr, incw) : lbl, incr, incw \in BOOLEAN}
AddressWrite == HostWrite("HSTADRL", {0, 1}, 1)
CpuWrites  == {AddressWrite, HostWrite("HSTDATA", {0, 1}, 5)}

HostData == INSTANCE HostPort WITH
            Calls <- DataCalls, ProcessorCalls <- {},
            Initially <- {HostMode(FALSE, TRUE, TRUE), HostMode(TRUE, FALSE, TRUE)}
HostControl == INSTANCE HostPort WITH
            Calls <- ControlCalls, Initially <- {HostMode(FALSE, FALSE, FALSE)}, MaxWrites <- 0
\* A read that waits, and the loss of its address.
ShortHost == INSTANCE HostPort WITH
            Calls <- {HostRead("HSTDATA", {0, 1}),
                      HostWrite("HSTCTL", {0}, HostMode(TRUE, TRUE, TRUE))},
            ProcessorCalls <- {AddressWrite},
            Initially <- {HostMode(FALSE, FALSE, FALSE)}, MaxWrites <- 0

\* Two segments of cache: before two of memory, a word of which is written,
\* and before three of memory with two subsegments.
At(t, b, i) == [tag |-> t, sub |-> b, i |-> i]
StoreWords   == {At(1, 1, 0), At(2, 1, 3)}
SegmentWords == {At(1, 1, 3), At(1, 2, 0), At(2, 1, 0), At(3, 1, 0)}
AllFetches   == StoreWords \cup SegmentWords
OneWord      == {At(1, 1, 0)}
Asks(words)  == req' # NoReq => req'.at \in words

\* Both internal modes and external lines and fields.
DisplayModes == [nil : BOOLEAN, dxv : {TRUE}, hsd : {TRUE}]
                    \cup {[nil |-> FALSE, dxv |-> FALSE, hsd |-> FALSE]}

ASSUME InstancesLegal ==
    /\ CrossingAssumption /\ Writing!CrossingAssumption /\ Loading!CrossingAssumption
    /\ SteadyEmu!EmuAssumption
    /\ RefreshAssumption /\ ShortScreen!RefreshAssumption
    /\ HostAssumption /\ HostData!HostAssumption /\ HostControl!HostAssumption
    /\ ShortHost!HostAssumption

-----------------------------------------------------------------------------
(* One block moves.                                                         *)

\* The variables v stand still, unless the block that moves is one of theirs.
Still(v, own, b) == IF b \in own THEN TRUE ELSE UNCHANGED v

Rest(b) ==
    /\ block = b /\ block' = b
    /\ Still(vars, {"bridge"}, b)
    /\ Still(phaseVars, {"local bus"}, b)
    /\ Still(crossingVars, {"config", "loads", "status"}, b)
    /\ Still(emuVars, {"emu", "steady emu"}, b)
    /\ Still(screenVars, {"screen", "short screen"}, b)
    /\ Still(hostVars, {"host data", "host control", "short host"}, b)
    /\ Still(cacheVars, {"stores", "segments"}, b)
    /\ Still(timingVars, {"timing"}, b)
    /\ Still(counterVars, {"refresh"}, b)

BlocksInit ==
    /\ block \in Moving
    /\ Init /\ MCInit /\ CrossingInit /\ EmuInit
    /\ IF block = "short screen" THEN ShortScreen!ScreenInit ELSE ScreenInit
    /\ IF block \in {"host control", "short host"} THEN HostControl!HostInit ELSE HostData!HostInit
    /\ CacheInit /\ TimingInit /\ CounterInit
    /\ nil <=> block # "screen"
    /\ block \notin {"host data", "host control", "short host"} => ctl.lbl
    /\ IF block = "timing" THEN mode.dxv \/ dpyint = 0 ELSE mode.dxv /\ mode.nil /\ dpyint = 0
    /\ block # "refresh" => rr = 0

BlocksNext ==
    \/ Rest("bridge") /\ Next
    \/ Rest("local bus") /\ MCNext
    \/ Rest("config") /\ Writing!CrossingNext
    \/ Rest("loads") /\ Loading!CrossingNext
    \/ Rest("status") /\ CrossingNext
    \/ Rest("emu") /\ EmuNext
    \/ Rest("steady emu") /\ SteadyEmu!EmuNext
    \/ Rest("screen") /\ ScreenNext
    \/ Rest("short screen") /\ ShortScreen!ScreenNext
    \/ Rest("host data") /\ HostData!HostNext
    \/ Rest("host control") /\ HostControl!HostNext
    \/ Rest("short host") /\ ShortHost!HostNext
    \/ Rest("stores") /\ CacheNext /\ Asks(StoreWords)
    \/ Rest("segments") /\ CacheNext /\ Asks(SegmentWords) /\ UNCHANGED mem
    \/ Rest("timing") /\ TimingNext
    \/ Rest("refresh") /\ CounterNext

blocksVars == <<block, vars, phaseVars, crossingVars, emuVars, screenVars, hostVars,
                cacheVars, timingVars, counterVars>>

BlocksSpec == BlocksInit /\ [][BlocksNext]_blocksVars

-----------------------------------------------------------------------------
(* Fairness: of each block its own.                                         *)

CoreClock ==
    \/ Rest("config") /\ Writing!CrossingCoreEdge
    \/ Rest("loads") /\ Loading!CrossingCoreEdge
    \/ Rest("status") /\ CrossingCoreEdge
    \/ Rest("steady emu") /\ SteadyEmu!EmuCoreEdge
    \/ Rest("short screen") /\ ShortScreen!AnyCoreEdge
    \/ Rest("short host") /\ ShortHost!AnyHostEdge

OtherSide ==
    \/ Rest("config") /\ Writing!CrossingVideoEdge
    \/ Rest("loads") /\ Loading!CrossingVideoEdge
    \/ Rest("status") /\ CrossingVideoEdge
    \/ Rest("steady emu") /\ SteadyEmu!EmuBusEdge
    \/ Rest("short screen") /\ ShortScreen!VideoEdge(NoScreenLoad)
    \/ Rest("short host") /\ ShortHost!HostStrobe

BusAnswers ==
    \/ Rest("short screen") /\ ShortScreen!ScreenCoreEdge(TRUE)
    \/ Rest("short host") /\ ShortHost!HostEdge(TRUE, NoHostWrite)

HostEnds == Rest("short host") /\ ShortHost!HostEnd

BlocksFairSpec ==
    /\ BlocksSpec
    /\ WF_blocksVars(CoreClock) /\ WF_blocksVars(OtherSide)
    /\ WF_blocksVars(BusAnswers) /\ WF_blocksVars(HostEnds)

-----------------------------------------------------------------------------
(* The properties are those of the blocks' modules, except this one.        *)

\* What one side asks of the other comes to its end: a refresh request is
\* retired, the host gets out of its access, and every EMU event is shown, once.
RequestsEnd ==
    ShortScreen!RequestRetired /\ ShortHost!AccessesEnd /\ SteadyEmu!EventsShown
=============================================================================
