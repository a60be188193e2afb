# TMS34010_sv in TLA+

A verification development for the SystemVerilog reimplementation of the
TMS34010 Graphics System Processor and for the tools the repository is judged
with. It covers

* the way from the core's field requests to the memory pins: fabric, arbiter,
  field sequencer, bus timer, clock-domain crossing, local-bus phase engine and
  the HOLD handshake around them;
* the blocks around that path: instruction cache, I/O registers, host port,
  video crossings, video timing, screen refresh, refresh counter and the
  emulation pins;
* the instruction-timing bench with its assembler, case tables and reports, and
  the scripts that compare the RTL with MAME and with TI's programs.

## 1. The system

### The chip

The chip is synchronous RTL in three clock domains: the core clock, the 8x
local-bus clock and the video clock. Inside one domain everything happens at
once at a clock edge; what is hard lies between clocks, between masters of the
bus, and in handshakes that last many clocks.

| part (under `rtl/`) | state it keeps | operations | talks to | what makes it correct |
|---|---|---|---|---|
| `memory/tms34010_memory_fabric` | the CPU request being served, posted and late flags, sampled I/O data | take a request, post it, answer it | core, sequencer, arbiter | every answer belongs to the request the core waits with; late data is used in time |
| `memory/tms34010_field_sequencer` | FSM, field, word index, read window, old word | split a 1-32 bit field into 1-3 word cycles, read-modify-write partial words | fabric, arbiter | a field access changes exactly the field's bits, atomically per word |
| `memory/tms34010_bus_arbiter` | owner, read-write reservation, pending refresh | grant HOLD, screen, refresh, host, CPU in that order | all masters | one owner; a reservation keeps others out; HOLD restarts the pair; no refresh event is invented or missed, no client waits behind a stuck reservation |
| `memory/tms34010_bus_timer` | counters | stretch cycles to whole machine states | arbiter, bridge | one acknowledge per cycle, not early |
| `cdc/tms34010_local_bus_bridge`, `cdc/tms34010_sync_bit` | toggles, command, response | carry a command to the bus clock and the answer back | arbiter, phase engine | exactly once, payload stable when looked at |
| `memory/tms34010_local_bus` | phase, cycle state, HOLD state, LRDY history | run a cycle on the pins, give the bus away | bridge, pins | strobes hold through waits; no cycle is cut by HOLD |
| `tms34010_pin_system`, `tms34010_system` | synchronizers | wiring | everything | atomicity at the pins in spite of crossing delays |
| `cdc/` mailbox, screen CDC, EMU bridge | toggles, payload | other crossings | video, core, bus | exactly once, no torn payload, no lost event |
| `video/` subsystem, timing, display address | counters, snapshots, DIP, screen request | sync timing, DPYADR stepping, screen refresh | I/O registers, arbiter | last write gets through, DIP is not lost, priority of reload, acknowledge and CPU load |
| `video/tms34010_refresh` | REFCNT | refresh events | arbiter | one event per borrow |
| `host/` interface and bus | HSTADR, HSTDATA, request FSM, pin FSM | direct and indirect access, auto-increment, HRDY | arbiter, I/O registers | one memory cycle per side effect, the address increments once |
| `io/tms34010_io_regs`, `core/tms34010_int_ctrl` | I/O registers, pending bits | CPU, host and hardware writes | core, host, video | no lost set or clear |
| `core/tms34010_icache` | tags, P flags, LRU, fill FSM | fetch, fill, flush, bypass | core, fabric | never serves a word memory did not hold at the fill; a flush in a fill wins |
| `core/tms34010_core` | instruction FSM, B file, checkpoints | execute, interrupt, resume | everything | an interrupted array operation resumes where it stopped |
| decoder, ALU, shifter, divider, register file, PC, status | registers | combinational functions | core | functional |
| `fpga/` top, `sim/` | | | | vendor primitives; test environment |

### The tools

| part | state it keeps | operations | talks to | what makes it correct |
|---|---|---|---|---|
| `tools/accuracy/cases.py` | labels of pass 1, the program, the case list | assemble in two passes, wrap a case into a program, choose the watched addresses, compute figures and notes | the bench | jumps land where they are aimed; the measured fetches are those of the measured instruction; figures follow the guide's tables |
| `sim/accuracy/tb_accuracy.sv`, `scripts/accuracy.sh` | fetch monitor, counters | measure states between two fetches, print RUN lines | the core, the report | each case is measured once, with the cache as meant, without other instructions' bus cycles |
| `tools/accuracy/report.py`, `evidence.py` | rows by name and column | collect RUN lines, compare, count | the logs | every difference is counted once, under its own case's note, and none is invented |
| `tools/mame/` generator and comparator, `scripts/mame_graphics_diff.sh` | vectors, manifest, results, ledger | regenerate, check, run two engines, classify, compare with the accepted ledger | MAME, the RTL replay | a pass is about the sources as they are and about accepted differences |
| `tools/ti/` preparation and comparator, `scripts/ti_workloads.sh` | the same for TI's programs | the same | MAME, the RTL replay | the same; control state never differs |
| `tools/dropin/`, `tools/ti/build_rom_demo.py` | | generate programs, format tables | | straight-line code |

### What is hard to test here

* A read-modify-write is two bus cycles. Host, screen and refresh requests and
  HOLD come in between, and each is treated differently.
* A posted write is answered before it is done, so two requests of the core
  are alive at once; its data may come a clock after it.
* Command and response words cross clock domains without synchronizers. They
  are right only if they stand still at the right time.
* HOLD goes from the pin to the arbiter and its grant back through two
  synchronizers; the master may have changed its mind twice meanwhile.
* LRDY repeats half a cycle; strobes must not move.
* The cache is flushed or switched off in the middle of a fill.
* The I/O registers have up to four writers in a clock, and the CPU's write is
  prepared clocks before it is made.
* A host access ends for the host while the memory cycle it started still runs.
* Register loads, interrupts and counters cross between the core's and the
  video clock faster than the crossing carries them.
* A measured case is a program for a machine whose cache, posted writes and
  traps all leave something behind from the lines before.
* The comparison scripts are stopped, edited under and run again; files of
  different runs lie side by side.

`PROJECT.json` lists each hazard at its line with the properties about it.

## 2. Modules

| module | models | state and actions |
|---|---|---|
| `FieldSequencer` | the sequencer, with its mask, merge and justify logic | operators on words as bit functions, constants `W` (16 in the chip) and `NWords`; `seq`, `field`, `windex`, `window`, `frdata`, `rmwWord` are its registers; one action per FSM branch; `SequencerClock` is its clock edge |
| `BusArbiter` | the arbiter | `arb`, `rmwActive`, `dramPending`, `dramRow`, `hostIoRdata`; one action per grant and per end of ownership; `ArbiterClock` |
| `MemoryFabric` | the fabric and its clients | request register `TakeRequest`/`ServeRequest`/`NoRequest`; `Clock` is one core clock of everything |
| `FieldMemory` | abstract: memory as a line of bits, a field access as up to three atomic updates | the promise the fabric implements |
| `BusTimer` | the bus timer | `busCnt`, `idle`, `timed`, `extDone`, `heldData`; `TimerClock` is its clock edge |
| `TimedFabric` | fabric + bus timer + phase and age counters (`CYCLE_ACCURATE = 1`) | `TimedClock`; the histories `settled`, `own`, `free`, `shared` serve the properties only |
| `SyncBit` | the two-flip-flop synchronizer | |
| `LocalBusBridge` | the bridge | `SrcEdge`, `DstEdge`: one edge of either clock |
| `BridgeChannel` | the bridge with a requester and a controller in two unrelated clocks | |
| `RemoteCall` | abstract: ask, accept, serve, return | the promise the bridge implements |
| `LocalBus` | the phase engine with its pins | one action per branch of the cycle FSM and of the HOLD FSM; strobes are operators on the state |
| `PinSystem` | fabric + bridge + phase engine + HOLD synchronizers + memory and external master on the pins | `CoreClock`, `BusClock`, or both at once |
| `ICache` | the instruction cache with a core, a fabric and writers of memory | `state`, `ssa`, `present`, `lru`, ... are its registers; one action per branch of its always block; values carry the word and version they were read from |
| `IoRegisters` (EXTENDS `MemoryFabric`) | INTPEND, HSTCTLL and a plain register; the core's snapshot, merge and posting stages | `IoClock` is one clock of fabric and registers; `owed`, `wanted`, `intended` record what the writers meant |
| `VideoCrossings` | the video subsystem's crossings of the configuration, of counter loads, of display interrupts and of the counters, each through a CDC mailbox | a mailbox is a record of both sides' registers; an edge of one clock, of the other, or of both |
| `LatestValue` | abstract: values arrive in order (`Spec`), the last one arrives (`Progress`) | the promise each crossing implements |
| `ScreenRefresh` | display address and screen CDC; implements `RemoteCall` | `VideoEdge`, `CoreEdge` |
| `VideoTiming` | the counters, internal and external | `VideoClock` with optional loads |
| `RefreshCounter` | REFCNT | `CounterClock`: `Count` or `LoadCounter` |
| `HostRegisters`, `HostMemory` | the host's registers; abstract: one access at a time takes effect at once | the promise the port implements |
| `HostPort` | host pins, `tms34010_host_bus`, `tms34010_host_if` | the host's `HostSelect`, `HostStrobe`, `HostEnd` between clock edges; `HostEdge` is the clock |
| `EmuPins` | the EMU bridge | `EmuSrcEdge`, `EmuDstEdge` |
| `Assembler` | the two passes of `assemble` with the length and reach of each form | `AsmLine`, `NextPass` |
| `TransferTimes` | the guide's formulas of the case file, and the word engines of FILL and PIXBLT in the core | pure operators |
| `TimingCases`, `GraphicsCases` | every family of cases with its figures and notes | sets of records |
| `TimingBench` | the program around a case, its execution by the core's control flow, the cache's contents, the bench's monitor | `StartOfRun`, `Execute`, `TakeInterrupt`, ...; the tables `Emit` watches |
| `TimingReport` | the case file's runs (`Runs`, of the cases `Logged`), RUN lines, `report.py`, `evidence.py`, and the script: bench runs, then the report | `Collect`, `Report`, `Evidence`; `BenchStep`, `ReportStep` |
| `LiveGate` | both corpora by their tags with the classifiers and ledgers; both comparison scripts with edits, regenerations and engines that stop short | pure operators; one action per step of a script and per edit |
| `MCBlocks` | the blocks that share no register, one at a time; it extends their modules, and has instances of some for other bounds: `block` says which one moves, with its inputs free; `Moving` is the set of blocks a run follows | |
| `MCTools` | the same for the tools: `tool` is the accuracy script or the comparison of one corpus | |

`MC...` modules instantiate these for TLC, `...Proofs` modules hold theorems.
The core instructions of the bench programs are modelled by where control goes
and what they read and write on the bus; the times of the other instructions
are the core's business and not part of the model.

A component's inputs of one clock are the fields of a record parameter
(`in.hold`, `in.ack`), so that the same actions serve in `MemoryFabric`, where
the acknowledge is arbitrary, and in `PinSystem`, where the phase engine gives
it. Combinational outputs are operators; a next-state step is the conjunction
of all registers' next values, as in the RTL. Reset is the initial state and
is not re-entered.

Data is abstracted as follows. A word is a function from `W` lanes to bits; two
lanes suffice for full, partial and straddling words. Row addresses of refresh
are model values, of which `CbrRows` are refreshed CAS-before-RAS (in the RTL
row and mode are captured together). An I/O register shows a bit that may
change in any clock. Screen addresses and the row/column multiplexing on LAD
are payload and left out. A late write enters the request register with zeros,
whatever the wires carried, so nothing can rely on the early value. The
external master owns memory in `MemoryFabric` while `HoldAck`, in `PinSystem`
while the pins are released.

The clients keep a request and its payload until the acknowledge and may raise
the next one in the same clock; core, host interface and display address all
do that (`rtl/host/tms34010_host_if.sv:212-290`,
`rtl/video/tms34010_display_addr.sv:120-140`). HOLD alone may come and go in
any clock. In `MemoryFabric` the bus timer is represented by the freedom of
the acknowledge. `TimedFabric` puts the timer in its place and
`UntimedSpec` shows that this was sound: with a write taking effect when the
fabric hears of it, the timed design is a behaviour of `MemoryFabric`.

## 3. Runs

| run | configuration | shows |
|---|---|---|
| `fabric_atomic` | 3 words of 2 bits, all masters writing | `TypeOK`; `MergeIsFresh`: the old word of a partial write is what memory holds; `FieldMemorySpec`: refinement of `FieldMemory` |
| `fabric_register` | posted and late requests, I/O, refresh of two rows | `AnswerMatchesRequest`, `LateDataInTime` (the RTL's own simulation guard), `CommandStable` |
| `fabric_live` | one word, partial requests, all clients | `HoldGranted`, `ClientsServed` (`RefreshServed`, about every refresh event, and `CoreServed`) |
| `pin_system` | one word, partial writes, external master, two clocks, with fairness | `OneCommandEverywhere`, `OnlyFieldBitsAtPins`, `HoldReachesPins`, `CyclesEnd` |
| `timer` | 8 clocks to a state, a posted partial write, a host writer, acknowledges at any clock | `UntimedSpec`: refinement of `MemoryFabric`; `CyclesOnTime`: no cycle is shorter than two states, and with the bus to itself the CPU's cycles end in the last clock of a state, waits included |
| `timer_hold` | the same with HOLD | **violated**: `CycleTakesTwoStates` (section 5) |
| `io_posted` | `CYCLE_ACCURATE = 1`, posted writes of INTPEND whole, of fields beside the latches and of a plain register, the host's own port, hardware events, no indirect host writes | `LatchesExact`: no event is lost or made up, but that a field write clears what came beside it in the two clocks before; `ProgramOrder`: reads and commits of the core come in program order |
| `io_coincide` | the same with indirect host writes | **violated**: `CommittedApart` (section 5) |
| `blocks` | each block in the instances below | phase engine: `StrobesHeldThroughWaits`, `SampledFromMemory`, `HoldNeverCutsACycle`; bridge: `PayloadSettled`, `CrossingSpec` (refinement of `RemoteCall`); cache: `CachedIsCurrent`, `AnswersItsWord`, `LruIsRecency`; EMU pins: `WholeWindows`; screen: `OneCall` (refinement of `RemoteCall`), `RowByRow`; host: `AccessesInOrder` (refinement of `HostMemory`); timing: `FieldsAsProgrammed`; refresh: `EveryRowInTime` |
| `blocks_live` | blocks under fairness | crossings: `ValuesInOrder` (six refinements of `LatestValue`) and `ValuesCross`; screen, host and EMU pins: `RequestsEnd` |
| `tools` | the case file in the plain, screen and interrupt modes with the cache on and off; the logs of a few cases; both comparison scripts with their full corpora and up to four edits | `MeasuresTheCase`, `MeasuresCached`, `FiguresExplained`, `CountsAgree`; `PassIsCurrent`, `PassIsAccepted`, `ControlStateAgrees` |
| `tools_names` | the logs of a few cases, two of one name | **violated**: `NotedCounted` (section 5) |

**Bounds.** Three words are the most a field can touch, so `NWords = 3` has
every word index; `W = 2` has empty, partial and full masks, and fields that
start at every lane; `fabric_register`, whose properties are about requests and
not about words, makes do with two words. The timer runs have the documented
minimum of 8 clocks to a state; `AgeBound` stops the request's age at the
length of a cycle, beyond which the timer does not look. Two refresh rows make
an event that replaces a pending one visible. `InitCycles` is 2 (1 in the composition) in place of 8: one cycle that
is followed by another and a last one. The histories `cmdAge` and
`responseAge` stop at 2, the number they are compared with. No property
depends on the number of requests, which is unbounded.

The blocks' instances are in `MCBlocks`:

* *phase engine*: all kinds of cycle, any LRDY and HOLD, two values of the data
  pins; *bridge*: two commands, two answers, all edge interleavings.
* *crossings*: four configuration writes, two loads each of two counters, two
  display interrupts and two changes of the counters. The values are numbered;
  one is under way while the next is written, and a further one would only
  repeat the second.
* *screen*: two active lines in a frame of four, a load of DPYADR at any moment,
  and any number of clocks between two lines; live, one line.
* *EMU pins*: 3, 5 or 10 edges of the 8x clock to a core clock (5 live). With
  A0042 the next opcode comes over the bus, and `MinClocks = 12` clocks lie
  between two executions; the control states of an EMU instruction and the
  bridge to the bus take at least 15. For the ratios of 3 to 5 edges per clock
  11 would do; the board has 4.
* *host*: `host data` has byte and word accesses in both byte orders,
  `host control` HSTCTL changing the modes and processor writes, `short host`
  (live) a read that waits while its address is taken away. One address bit in
  each register lets the increment carry across. `Rearm = 3` is the least number
  of quiet clocks that the two synchronizer stages and the latch need (A0043);
  with 2 the refinement fails.
* *cache*: two segments, which have every position in the LRU stack but the
  middle ones. `stores` has one word that is written, in the half a fill reads
  first, where a flush between the two reads matters; `segments` has three tags,
  which force replacement, with two subsegments.
* *video timing*: 6 clocks by 5 lines with HSBLNK at half a line, where the odd
  field's step suppresses an interrupt; all modes, a load of either counter at
  any moment; *refresh*: intervals of 8, 4 rows, 3 clocks to a state.

These blocks meet only through inputs that are free here, so to follow one at a
time loses nothing of what each may do; what it does not show is how one bounds
another (section 6).

In `io_posted` and `io_coincide` a word has two bits, one with a hardware setter
and one without, as many as the writes need to have a bit beside the one meant;
the host writes whole registers, as it does. A bus cycle lasts `MinCycle = 2`
clocks at least, less than any does; there are no indirect host writes in
`io_posted` because of `io_coincide`. `past` remembers two clocks, those a write
goes through the stages.

`tools` has every case and layout, since figures and lengths differ by case; of
the logs it takes four cases in both cache states. Both comparisons have all 137
vectors and 156 groups of the graphics corpus (`CorpusSize` checks the counts)
and all TI workloads; of the RTL they distinguish the accepted version, one
with other values, one with fewer differences and one with a difference no rule
knows.

Deadlock is checked everywhere: a clock edge is always possible, and a finished
script stays as it is or is run again.

**Fairness.** `fabric_live`: the clock runs, and it runs infinitely often with
the acknowledge up if it can, i.e. the controller ends every cycle.
`pin_system`: both clocks run (weak fairness of either), and LRDY is not low for
ever at the samples of a cycle that waits (strong fairness of `MemoryReady`;
strong because the sample point comes and goes with the phase). `blocks_live`: the
core's clock and the other side's run (the video clock, the 8x clock, or the
host's strobe once it has selected the port), the bus answers, and the host ends
an access when HRDY lets it. `tools` assumes nothing. Nothing
is assumed of the fabric's clients: `RefreshServed` and `CoreServed`, the parts
of `ClientsServed`, say under which clients' silence they hold, since the
priority is fixed (`rtl/memory/tms34010_bus_arbiter.sv:134`). What `RefreshServed`
asks for is held against the events themselves and not against the arbiter's
`refresh_pending_q`: `MCMemoryFabric` remembers an event in `due` until a
refresh cycle begins after it, so a flag that misses an event does not count as
having served it. Starvation of the CPU by a busy
host is what the code does and not an error.

## 4. Proofs

The theorems hold for all constants that satisfy the named assumptions, so for
16-bit words, any memory and any requests.

* `MemoryFabricProofs`: `TypeCorrect`, `ReservationHolds`, `NoLostUpdate`,
  `OnlyFieldBitsWritten`, `AnswersMatch`, `LateDataIsInTime`,
  `RefreshIsCaptured`, `CommandStandsStill`, for both values of
  `CYCLE_ACCURATE`. The invariant has two layers. `FabricInv` is kept by a clock
  of the fabric whoever runs its cycles, with any acknowledge and any data; the
  same lemmas therefore serve the pin system and the bus timer. It adds to the
  properties about requests that a pending refresh has one of the rows
  (`PendingRow`) and that the I/O sample of a read is taken before the arbiter
  can start its cycle (`SampleBeforeCycle`): without it the read data of an I/O
  cycle could change while its command is on the bus. `Inv` adds
  `MergeIsFresh`, which needs the memory. `MergeIsFresh` alone is not inductive:
  that no other master writes between the read and the write needs to know that
  a pending merge implies the arbiter's reservation, that a reservation confines
  the owner to idle or CPU, and which sequencer states the CPU's ownership goes
  with; that is what `Reservation` says, one conjunct for each.
  `FabricIsFieldMemory` is the refinement of `FieldMemory`. Every clock is one
  abstract step or none. A word cycle of the sequencer is an update of that
  word's share of the field, because the old word is fresh; the abstract job's
  collected bits are the window's lanes justified. `JobInv` adds
  that late data belongs to the field it was announced for (`LateAgrees`) and
  that a write collects nothing (`Direction`).
* `PinSystemProofs`: `OneCommand`, `OnlyFieldBits`, for clocks of any ratio,
  any LRDY and any HOLD. `PinInv` adds to `FabricInv` the line of toggles
  through both synchronizers (`TogglesInLine`), the agreement of the command's
  copies (`CopiesAgree`), and that the bus is away only between cycles
  (`BetweenCycles`). `OldWordFresh` follows the old word from the pins to the
  sequencer. It is inductive only with `MasterAway`: no grant is left in its
  synchronizer when a request has come through the one beside it, so that the
  external master cannot write between the two cycles of a pair although the
  arbiter's view of it is old.
* `TimedFabricProofs`: `TimerOnlyDelays`, the refinement of `MemoryFabric`;
  `CpuEndsOnGrid` and `CyclesOnTimeWithoutHold`. The assumption
  `ClksPerState >= 8` is the RTL's own elaboration check
  (`rtl/core/tms34010_core.sv:5203`); up to 4 the property is false. For the
  refinement `KeptInv` says how far memory may be ahead of what the fabric has
  heard: by the one write whose answer the timer keeps (`AheadByOneWrite`), of
  which the kept data is still right (`AnswerKept`). For the times `OnTimeInv`
  has the balance of a cycle, clocks left, clocks had and clocks credited
  (`TwoStates`); the balance needs a bound on the credit (`CreditBound`: a
  request that finds the bus free waits at most a state and three clocks, less
  than two states), and that bound needs that requests are counted on the state
  grid (`StateGrid`). The hypothesis `HoldLevels = {FALSE}` is the case without
  an external master; with one the statement is false (`timer_hold`).
* `BlockProofs`, about the instruction cache: `CacheIsCurrent`,
  `CoreGetsItsWord`, `ReplacesByRecency`, for any number of segments. `CacheInv` says of a fill under way that it may be kept
  only for an absent subsegment of the one segment with its address, and
  otherwise that the cache is empty (`Filling`); that what memory has read so
  far is current while the fill may be kept (`Reading`); and that the segments
  used since the flush, and only those, have something present (`UsedPresent`),
  which makes a miss push the stack as far as the history. About the counters:
  `FieldsHaveTheirLength`, for every HTOTAL, HSBLNK, VTOTAL and
  DPYINT and every VESYNC below VTOTAL, which the display needs: an odd field
  that steps at VESYNC = VTOTAL counts past its last line. `TimingInv` reads the
  clocks since the field began (`Position`) and whether DPYINT's blank is behind
  (`BlankPassed`) off HCOUNT and VCOUNT, which takes which halves of lines an
  interlaced field has (`Place`). `EveryRow`: `CounterInv` says that, at a steady
  rate, what is left in REFCNT and what was counted since the last request are a
  whole interval up to the value the borrow left (`Interval`). About the host
  port: `OneAccessAtATime`, the refinement of `HostMemory`, for any host that
  stays quiet for the `RearmEdges` of A0043. `HostInv` says how an ended access
  leaves the synchronizer and the latch, edge by edge (`Clears`), how the next
  comes through them (`ComesIn`), and that the request is the host's access and
  the answer what was read for it (`Answers`). The abstract memory is the port's
  with the cycle under way already made (`SeenMem`, `SeenAdr`): an access takes
  effect at the edge where it is accepted, although its cycle runs on behind it.
* `ScreenProofs`: `EveryRowShown`, `OneCycleEach`, under `RefreshAssumption`,
  which `MCBlocks` assumes of both its displays. `RowInv` reads off LNCNT how many
  blanks are left and off SRFADR how many rows have been asked for since the
  frame's address was taken, and says what both mean while a request is held
  (`BlanksCounted`, `RowsCounted`); from the vertical blank to the end of the
  field the address is the next field's already (`EvenField`). `OneCycleEach` is
  the refinement of `RemoteCall`. `CallInv` follows the one toggle in flight
  (`ToggleInLine`), says that a request held is not taken yet, away or back
  (`Held`), and which copies of it agree (`RequestKept`); then each combination
  of edges is one step of the call or none. About the crossings:
  `ValuesArriveInOrder`, the six refinements of `LatestValue`'s safety part.
  `BoxInLine` says that a mailbox's toggle goes through the stages there and
  back before the next one starts; therefore a payload is posted only when none
  is in flight and comes out once (`BoxEdges`). `InOrder` orders the values of
  one crossing by where they are: arrived, come out, in flight, written, and
  strictly while one waits to be posted, which is why nothing arrives twice.
  The status snapshots are posted again and again, and are ordered only weakly
  (`StatusOrder`).
* `BusProofs`, about the bridge (`BridgeChannel!Spec`): `TogglesInStep`,
  `PayloadsSettled`, `ExactlyOnce`. The inductive invariant `ChannelInv` adds to
  `OneToggleInFlight` the relation of the synchronizer stages to the ages of the
  payloads (`Ages`) and that the command copies agree while they must
  (`Payloads`). `ExactlyOnce` is the refinement of `RemoteCall`: the initial
  states agree, and each combination of edges is one abstract step or a stutter.
  About the phase engine under arbitrary inputs (`MCLocalBus!MCSpec`):
  `CyclesAreWhole`, `IoNeverWaits`, `StrobesHold`, `DataFromMemory`. `BusInv` is
  the state's type with the HOLD states that go with an active cycle
  (`HoldBetweenCycles`), the initialization during which nothing else runs
  (`Initializing`), and which kinds of cycle may be waiting (`Waits`). About the
  EMU pins: `WindowsAreWhole`, for core clocks of any lengths, changing or not.
  `WindowInv` follows the halt through its synchronizer from the edge that begins
  the event's window (`HaltFollows`), and says that a window outlives its halt by
  less than a clock of the core (`HaltIsState`).
* `IoRegistersProofs`: `PipeInvHolds`, `WritesInOrder`, `LatchesShowEvents`, for
  both values of `CYCLE_ACCURATE` and cycles as short as one clock. Neither
  property is inductive alone: what a stage will write depends on a snapshot
  taken clocks before. `PipeInv` adds to the fabric's `Inv` that a posted write
  is alone in the stages and still on its way to the bus while it needs the
  snapshot (`InLine`), what its stage has of it (`PostedWrite`), that the plain
  register lacks exactly the write in flight (`WantedMade`), and the same for an
  access the core waits for (`AwaitedAccess`). Both theorems are for hosts that
  make no indirect I/O writes (`NoHostWrites`): with them the code does lose a
  posted write (`io_coincide`); the constants of `io_posted` satisfy it. Words have
  any width from two bits on, and there are the three registers of
  `IoAssumption`. `LatchesShowEvents` is for any fields: a write of a part of a
  register puts back what it read of the rest two clocks before, which the
  history `past` holds too (`CopiesAge`, `Holds`).
* `ToolProofs`: `PassesAreCurrent`, `PassesAreAccepted`,
  `ControlStateNeverExcused`. `GateInv` follows the files through the script:
  after each step which of the files belong to this pass (`VectorsChecked`,
  `MameRan`, `RtlRan`, `BothCompared`). About the report: `NumbersAgree`, for any
  case file whose cases have their figures (`LoggedAssumption`) and anything the
  runs measure. `ReportInv` says that after each line a row has in each column
  the cell of the last run of its name there (`RowsKept`), and evidence.py the
  same cells (`EntriesKept`). The rows that differ are then as many as the
  differing runs that no later one came over (`OneRunEach`). That alone does not place a difference under the
  note it is counted with, which is the note of the last case of that name: a
  name's last run in either column is of its last case because `cases.py` writes
  the two runs of a case side by side (`Pairs`, `LastCase`).

`ReservationHolds`, `OnlyFieldBitsWritten`, `TogglesInStep`, `RefreshIsCaptured`,
`IoNeverWaits`, `CpuEndsOnGrid` and `TimedCommandStands` are about properties
that no run lists.

The theorems about the cache are about `CacheSpec`, in which the core may ask for
any word of `Fetches` and `Datas` and others write any word of `Volatile` at any
moment; the run `blocks` follows it twice with fewer of each.

Only model-checked:

* every liveness property, since fairness and ENABLED are beyond the prover;
* `MeasuresTheCase`, `MeasuresCached`, `FiguresExplained`: they are about the
  programs and figures of the case tables, which are data, checked whole.

## 5. Observations

Disagreements, each shown by a run:

* `timer_hold`. The timer's header (`rtl/memory/tms34010_bus_timer.sv:7,16`) and
  `docs/cycle_accuracy.md:63` say that a CPU cycle is timed from when the core
  asked for it or from when the bus became free, if that is later. `idle_q`
  (`:104-107`) counts every clock without a cycle, also those in which HOLD has
  given the bus away. A CPU request that waits for HOLD to end is therefore
  credited up to 15 clocks of the other master's time; its cycle can end in its
  second clock. Without HOLD the property holds (`timer`).
* `io_coincide`. `rtl/io/tms34010_io_regs.sv:244` relies on the arbiter to keep
  processor and host cycles apart. With `CYCLE_ACCURATE = 1` a processor's write
  commits three clocks after it was taken, on its own
  (`rtl/core/tms34010_core.sv:4101-4120`), and can meet the end of a host's
  indirect I/O cycle, which then takes the write port; the processor's write is
  lost.

* `tools_names`. `report.py` and `evidence.py` keep rows by name, and 124 of the
  1127 cases have the name of a later one (the source offset is not part of it),
  49 of them with a note. What such a case measured is in no count, although
  `report.py:4-7` says that a case with a note that does not give the printed
  figure is counted as explained. `docs/accuracy_evidence.md` gives 1003 cases at
  `:77`, the names, and 2254 runs at `:164`, those of all cases. `CountsAgree`
  says what is counted: exactly the runs that no later one came over (`Kept`).

Other things met while modelling, which no run is about:

* A field write into an I/O register writes the whole register from
  a copy read two clocks before. A display interrupt that arrives in between is
  cleared by the old zero, though the program wrote another bit. `LatchesExact`
  allows these two clocks and not one more. Programs that clear INTPEND by writing
  the whole register with ones in the other bits lose nothing.
* `rtl/memory/tms34010_local_bus.sv:537`: in the first local clock of a
  shift-register transfer the chip drives LAD from Q1 while DEN and DDOUT select
  the input direction of the external buffers (`:648`).
* Screen refresh: an acknowledge that comes after the frame's address was
  reloaded steps the new address, so that frame starts one row on; and a request
  still pending at the first active blank keeps that blank from asking. Both
  need a bus that is busy for the whole vertical blank.
* The configuration and the counter loads cross in two mailboxes: a load written
  after a configuration register may arrive before it.
* A processor write of HSTADR while an incrementing write of the host is under
  way is lost to the increment. The manual forbids it
  (`docs/assumptions.md:1231`), and `HostPort` leaves it out.
* If HSBLNK is programmed to half a line, the interrupt of the odd field's line
  VESYNC is suppressed (`rtl/video/tms34010_video.sv:237`), and VCOUNT has passed
  VESYNC + 1's blank by then: neither line interrupts in that field, nor does
  line 0. `Cut` has every such line for each place of HSBLNK.
* With VESYNC = 0 the odd field begins one clock behind the compare at which it
  would step (`rtl/video/tms34010_video.sv:128`), and is a line longer than with
  any other VESYNC (`FieldClocks`).
* A0042 rests on a cacheless core. With the cache the next opcode may not come
  over the bus; the bound then rests on the states EMU itself takes
  (`rtl/core/tms34010_core.sv:5421`).
* The assertion of `cases.py:1363` bounds the loop's words; whether a loop fits
  depends on its alignment too. All cases of the file fit (`MeasuresCached`). In
  screen mode the cache-miss case measures another word of its subsegment, and
  still misses once.
* `report.py` counts the TIMEOUT of a case with a note as explained;
  `evidence.py` skips TIMEOUTs.
* Three documents give nine classified TI groups (`docs/ti_workloads.md:8`,
  `docs/completion_audit.md:434`, `docs/gpu_completion_signoff.md:74`); the
  checked-in ledger `sim/vectors/ti_workload_divergences.json` has eight.
* `generate_graphics_vectors.py:242-246` names the direction tags `pbh` and
  `pbv` the other way round than the CONTROL bits it sets.
* Of the graphics classes the array ones excuse a difference in any field of a
  matching vector, control state included (`compare_graphics_results.py:89-108`).
* The replay by `sim.sh` alone does not run the generator's `--check`.

## 6. Not modelled

* The core's instruction FSM with interrupts and traps between instructions:
  one state machine of 5000 lines whose correctness is what each instruction
  computes; the benches of the repository run it against MAME. The checkpoints
  of interrupted array operations are the one part with a protocol of its own;
  their restart from a half-written image
  (`rtl/core/tms34010_core.sv:2843`) is a hazard no property covers.
* Decoder, ALU, shifter, divider, register file, PC, status register:
  combinational functions, which the repository's benches enumerate.
* SRT cycles of the CPU through the fabric, and the second register of an I/O
  field across two registers: both need wider words than the properties do.
* HSTCTLH with its NMI bit, and the levels derived from HCOUNT and VCOUNT: one
  assignment each.
* The FPGA top level (vendor primitives), simulation models and the MAME devices
  (environment), and the preparation of TI's disk images, the ROM demo, the
  drop-in programs and the game survey: sequential generators of data, with
  nothing to interleave and no state kept, whose results are compared by digest.
* Composition of the blocks of `MCBlocks` with the fabric: a screen request and
  a host cycle are clients of `MemoryFabric` with free timing, and the blocks see
  a bus that answers at any time. The whole chip in one state space is out of
  TLC's reach.

## 7. What is left

In this order: the checkpoints of the interrupted array and line operations, against an uninterrupted
run of the same operation; SRT cycles in the fabric; the pin system with the bus
timer and posted writes.
