----------------------------- MODULE PinSystem ------------------------------
(***************************************************************************)
(* tms34010_pin_system: the memory fabric in the core's clock, the phase   *)
(* engine in the 8x bus clock, the bridge and the HOLD synchronizers       *)
(* between them, and memory and an external master on the pins.            *)
(*                                                                         *)
(* A step is an edge of the core clock, of the bus clock, or of both at    *)
(* once; the clocks may have any ratio.  Here the acknowledgements that    *)
(* MemoryFabric takes from anywhere come from the phase engine through the *)
(* bridge, the HOLD level from the pin through two flip-flops, and the     *)
(* external master owns the memory when the pins are released and not when *)
(* the arbiter says so.                                                    *)
(***************************************************************************)
EXTENDS MemoryFabric, LocalBusBridge, LocalBus

\* The bus timer between the arbiter and the bridge is a wire.
ASSUME PinAssumption == ~CYCLE_ACCURATE

VARIABLES
    holdMeta,   \* u_hold_req_sync's first flip-flop; hold is its second
    grantSync   \* u_hold_grant_sync

pinVars == <<vars, bridgeVars, busVars, holdMeta, grantSync>>

NoCommand == [kind |-> "NONE"]

PinCommand ==
    {NoCommand} \cup [kind : {"SCREEN_REFRESH"}]
    \cup [kind : {"DRAM_RAS", "DRAM_CBR"}, row : Rows]
    \cup [kind : {"WORD_READ", "WORD_WRITE", "IO_READ", "IO_WRITE"},
          addr : WordAddr, wdata : Word, iodata : Bit]

PinInit ==
    /\ Init
    /\ BridgeInit(NoCommand, ZeroWord)
    /\ BusInit(NoCommand, ZeroWord)
    /\ holdMeta = FALSE
    /\ grantSync = SyncReset(FALSE)

CoreSide == <<arbVars, seqVars, fabricVars, core, host, screen, hold, holdMeta,
              srcVars>>
BusSide  == <<mem, dstVars, busVars, grantSync>>

-----------------------------------------------------------------------------
CoreClock(refresh, ioLive) ==
    /\ FabricClock(srcAck, srcRdata, refresh, ioLive)
    /\ SrcEdge(CycleReq, Command)
    /\ hold' = holdMeta
    /\ holdMeta' = holdReq

\* Memory and the external master on the pins.
WordWritten == CycleAck /\ latched.kind = "WORD_WRITE"
Released    == ~MajorityDrive

ChipWrites ==
    /\ WordWritten
    /\ mem' = [mem EXCEPT ![latched.addr] = latched.wdata]

MasterWrites ==
    /\ Released
    /\ \E a \in WordAddr, w \in MasterWords : mem' = [mem EXCEPT ![a] = w]

NobodyWrites == ~WordWritten /\ UNCHANGED mem

DataPins == IF latched.kind = "WORD_READ" THEN mem[latched.addr] ELSE ZeroWord

BusClock(pin, lrdy) ==
    /\ BusEdge([req |-> dstActive, cmd |-> dstCmd, hold |-> pin,
                grant |-> Synced(grantSync), lrdy |-> lrdy, lad |-> DataPins,
                ioRdata |-> ZeroWord, zero |-> ZeroWord])
    /\ DstEdge(CycleAck, readData)
    /\ grantSync' = SyncEdge(grantSync, HoldAck)
    /\ ChipWrites \/ MasterWrites \/ NobodyWrites

CoreTicks == \E refresh \in Rows \cup {NoRow}, ioLive \in IoValues :
                 CoreClock(refresh, ioLive)
BusTicks(lrdys) == \E pin \in HoldLevels, lrdy \in lrdys : BusClock(pin, lrdy)

PinNext == \/ CoreTicks /\ UNCHANGED BusSide
           \/ BusTicks(BOOLEAN) /\ UNCHANGED CoreSide
           \/ CoreTicks /\ BusTicks(BOOLEAN)

PinSpec == PinInit /\ [][PinNext]_pinVars

\* Both clocks run, and LRDY is high at the end of infinitely many Q1s of a
\* waiting cycle.
CoreRuns == CoreTicks /\ (UNCHANGED BusSide \/ BusTicks(BOOLEAN))
BusRuns(lrdys) == BusTicks(lrdys) /\ (UNCHANGED CoreSide \/ CoreTicks)
MemoryReady == bus = "SECOND" /\ phase = Q1B /\ BusRuns({TRUE})

PinFairSpec == /\ PinSpec
               /\ WF_pinVars(CoreRuns) /\ WF_pinVars(BusRuns(BOOLEAN))
               /\ SF_pinVars(MemoryReady)
-----------------------------------------------------------------------------
(* Properties. *)

\* The arbiter's command, the bridge's two copies and the one on the pins are
\* one and the same from the moment it is launched until its acknowledgement
\* is back: none is lost, run twice, or changed on the way.
OneCommandEverywhere ==
    /\ outstanding \/ srcAck => CycleReq /\ srcCmd = Command
    /\ dstActive => outstanding /\ dstCmd = srcCmd
    /\ BusActive /\ initDone => dstActive /\ latched = dstCmd

\* At the memory, a word the CPU writes changes no bit outside the field,
\* also when an external master wrote the word around the read-write pair:
\* the HOLD level and its grant take clocks to cross, and a late or stale
\* grant must not let the master in between the read and the write.
OnlyFieldBitsAtPins ==
    [][WordWritten /\ arb = "CPU" /\ mem' # mem
         => \A b \in Lanes : b \notin WordMask(field, windex)
               => mem'[latched.addr][b] = mem[latched.addr][b]]_pinVars

\* An external master that keeps HOLD asserted is told so on the pins, in the
\* middle of a cycle or a read-write pair too.
HoldReachesPins == holdReq ~> Hlda \/ ~holdReq

\* Every cycle the arbiter starts ends, when HOLD is given back for good and
\* the memory does not wait forever.
CyclesEnd == <>[]~holdReq => (CycleReq ~> srcAck)
=============================================================================
