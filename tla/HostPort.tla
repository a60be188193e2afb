------------------------------ MODULE HostPort -------------------------------
(***************************************************************************)
(* tms34010_host_bus and tms34010_host_if: the host's asynchronous pins,   *)
(* one access at a time brought into the core's clock, and the local-word  *)
(* cycle an access may start, which runs on after the access has ended.    *)
(*                                                                         *)
(* Between two edges of the core's clock the host moves its pins.  It      *)
(* keeps an access up until HRDY is high, and the pins quiet for Rearm     *)
(* edges before the next (docs/assumptions.md, A0043).  The processor      *)
(* writes HSTADR and HSTDATA when no host access is being taken and no     *)
(* cycle of one is under way: the device's manual forbids it otherwise.    *)
(***************************************************************************)
EXTENDS HostRegisters, FiniteSets, SyncBit

CONSTANTS
    Calls,          \* the accesses of the host
    ProcessorCalls, \* the writes of the processor
    Initially,      \* HSTCTL's modes at the start
    Rearm,          \* edges between two accesses
    MaxWrites,      \* bound on the writes of HSTDATA
    NoCall

\* What the two synchronizer stages and the latch of an access need to clear.
RearmEdges == 3

HostAssumption ==
    /\ Rearm \in Nat /\ Rearm >= RearmEdges /\ MaxWrites \in Nat
    /\ \A c \in Calls : c.we \in BOOLEAN /\ c.be \subseteq Bytes /\ c.be # {}

VARIABLES
    \* the host: its pins, the edges it has been quiet for, what it read
    pins, call, quiet, writes, got,
    \* tms34010_host_bus
    accessSync, hcsSync, accessSeen, hostReq, captured, hostReady, response, hcsSeen, ctlWait,
    \* tms34010_host_if
    hstadr, hstdata, hostRdata, hostSeen, hostAck, busy, local,
    \* tms34010_io_regs: the modes in HSTCTLH; and the memory
    ctl, hostMem

hostPins == <<pins, call, quiet, writes, got>>
hostBus == <<accessSync, hcsSync, accessSeen, hostReq, captured, hostReady, response,
             hcsSeen, ctlWait>>
hostEngine == <<hstadr, hstdata, hostRdata, hostSeen, hostAck, busy, local>>
hostVars == <<hostPins, hostBus, hostEngine, ctl, hostMem>>

-----------------------------------------------------------------------------
(* The pins.  "select" is HCS alone, "access" HCS with its strobes.         *)

Hcs == pins # "off"
Access == pins = "access"

CtlWaits == call.reg = "HSTCTL" /\ (~hcsSeen \/ ctlWait # 0)

Hrdy == Hcs => IF Access /\ hostReady THEN ~CtlWaits
               ELSE ~busy /\ ~CtlWaits /\ ~Access

HostSelect ==
    /\ pins = "off" /\ quiet >= Rearm
    /\ \E c \in Calls : /\ c.we /\ c.reg = "HSTDATA" => writes < MaxWrites
                        /\ call' = c
                        /\ writes' = IF c.we /\ c.reg = "HSTDATA" THEN writes + 1 ELSE writes
    /\ pins' \in {"select", "access"}
    /\ got' = Nothing
    /\ UNCHANGED <<quiet, hostBus, hostEngine, ctl, hostMem>>

HostStrobe ==
    /\ pins = "select" /\ pins' = "access"
    /\ UNCHANGED <<call, quiet, writes, got, hostBus, hostEngine, ctl, hostMem>>

HostEnd ==
    /\ Access /\ Hrdy
    /\ pins' = "off" /\ quiet' = 0 /\ call' = NoCall
    /\ got' = response
    /\ UNCHANGED <<writes, hostBus, hostEngine, ctl, hostMem>>

-----------------------------------------------------------------------------
(* An edge of the core's clock.                                             *)

HostBus ==
    /\ accessSync' = SyncEdge(accessSync, Access)
    /\ hcsSync' = SyncEdge(hcsSync, Hcs)
    /\ LET level == Synced(accessSync)
           captures == level /\ ~accessSeen
           answers == level /\ hostReq /\ hostAck
       IN  /\ accessSeen' = level
           /\ hostReq' = (captures \/ (level /\ hostReq /\ ~hostAck))
           /\ captured' = IF captures THEN call ELSE captured
           /\ hostReady' = (level /\ (hostReady \/ answers))
           /\ response' = IF answers THEN hostRdata ELSE response
    /\ LET level == Synced(hcsSync)
       IN  /\ hcsSeen' = level
           /\ ctlWait' = IF ~level THEN 0
                         ELSE IF ~hcsSeen THEN (IF Hcs /\ call.reg = "HSTCTL" THEN 2 ELSE 0)
                         ELSE IF ctlWait > 0 THEN ctlWait - 1 ELSE 0

\* Fault: an access is taken while the cycle of the last one runs.
HostAcceptsWhileBusy == hostReq /\ ~hostSeen
HostAccepts == hostReq /\ ~hostSeen /\ ~busy

StartsAdrRead == HostAccepts /\ captured.we /\ LastAdrByte(ctl.lbl, captured)
StartsDataRead == HostAccepts /\ ~captured.we /\ captured.reg = "HSTDATA" /\ LastByte(ctl.lbl, captured)
StartsWrite == HostAccepts /\ captured.we /\ captured.reg = "HSTDATA" /\ LastByte(ctl.lbl, captured)
Starts == StartsAdrRead \/ StartsDataRead \/ StartsWrite

ReadAdr == IF ctl.incr THEN Next1(hstadr) ELSE hstadr
DataMerged == Merged(hstdata, captured.be, captured.value)

NoHostWrite == [reg |-> "none", be |-> {}, value |-> 0]

HstadrNext(ack, write) ==
    IF HostAccepts /\ captured.we /\ IsAdr(captured) THEN AdrMerged(hstadr, captured)
    ELSE IF StartsDataRead /\ ctl.incr THEN ReadAdr
    ELSE AdrMerged(IF busy /\ ack /\ local.incw THEN Next1(local.adr) ELSE hstadr, write)

HstdataNext(ack, write) ==
    IF HostAccepts /\ captured.we /\ captured.reg = "HSTDATA" THEN DataMerged
    ELSE IF write.reg = "HSTDATA" THEN HostWord(write.value)
    ELSE IF busy /\ ack /\ ~local.we THEN hostMem[local.adr] ELSE hstdata

LocalNext ==
    IF StartsWrite THEN [adr |-> hstadr, we |-> TRUE, data |-> DataMerged, incw |-> ctl.incw]
    ELSE IF Starts THEN [adr |-> IF StartsAdrRead THEN AdrMerged(hstadr, captured) ELSE ReadAdr,
                         we |-> FALSE, data |-> HostWord(0), incw |-> FALSE]
    ELSE local

\* ack ends the local cycle, write is the processor's.
HostIf(ack, write) ==
    /\ hstadr' = HstadrNext(ack, write)
    /\ hstdata' = HstdataNext(ack, write)
    /\ busy' = IF busy THEN ~ack ELSE Starts
    /\ local' = LocalNext
    /\ hostAck' = HostAccepts
    /\ hostSeen' = (hostReq /\ (hostSeen \/ HostAccepts))
    /\ hostRdata' = IF HostAccepts THEN Shown(captured.reg, hstadr, hstdata, ctl) ELSE hostRdata
    /\ ctl' = IF HostAccepts /\ captured.we /\ captured.reg = "HSTCTL" /\ 1 \in captured.be
              THEN captured.value ELSE ctl
    /\ hostMem' = IF busy /\ ack /\ local.we THEN [hostMem EXCEPT ![local.adr] = local.data] ELSE hostMem

HostEdge(ack, write) ==
    /\ ack => busy
    /\ write # NoHostWrite => ~HostAccepts /\ ~busy
    /\ HostBus /\ HostIf(ack, write)
    /\ quiet' = IF pins = "off" /\ quiet < Rearm THEN quiet + 1 ELSE quiet
    /\ UNCHANGED <<pins, call, writes, got>>

-----------------------------------------------------------------------------

HostNext ==
    \/ HostSelect \/ HostStrobe \/ HostEnd
    \/ \E ack \in BOOLEAN, write \in ProcessorCalls \cup {NoHostWrite} : HostEdge(ack, write)

HostInit ==
    /\ pins = "off" /\ call = NoCall /\ quiet = 0 /\ writes = 0 /\ got = Nothing
    /\ accessSync = SyncReset(FALSE) /\ hcsSync = SyncReset(FALSE)
    /\ accessSeen = FALSE /\ hostReq = FALSE /\ captured = NoCall
    /\ hostReady = FALSE /\ response = Nothing /\ hcsSeen = FALSE /\ ctlWait = 0
    /\ hstadr = 0 /\ hstdata = HostWord(0) /\ hostRdata = Nothing /\ hostSeen = FALSE /\ hostAck = FALSE
    /\ busy = FALSE /\ local = [adr |-> 0, we |-> FALSE, data |-> HostWord(0), incw |-> FALSE]
    /\ ctl \in Initially /\ hostMem = [w \in Words |-> HostWord(w)]

HostSpec == HostInit /\ [][HostNext]_hostVars

\* The clock runs, the bus ends every cycle, and the host an access it may end.
AnyHostEdge == \E ack \in BOOLEAN : HostEdge(ack, NoHostWrite)
HostFairSpec ==
    /\ HostSpec /\ WF_hostVars(AnyHostEdge) /\ WF_hostVars(HostEdge(TRUE, NoHostWrite))
    /\ WF_hostVars(HostStrobe) /\ WF_hostVars(HostEnd)

-----------------------------------------------------------------------------
(* Properties.                                                              *)

\* The cycle an access has started counts as done: the memory behind it, the
\* word it will bring, the address it will step.
Taken == Access /\ accessSeen /\ (hostSeen \/ ~hostReq)
Sequential == INSTANCE HostMemory WITH
    adr <- IF busy /\ local.incw THEN Next1(local.adr) ELSE hstadr,
    data <- IF busy /\ ~local.we THEN hostMem[local.adr] ELSE hstdata,
    mem <- IF busy /\ local.we THEN [hostMem EXCEPT ![local.adr] = local.data] ELSE hostMem,
    stage <- IF ~Hcs THEN "idle" ELSE IF Taken THEN "answered" ELSE "called",
    answer <- hostRdata

\* Every access of the host takes effect once, in the order of the accesses,
\* and the host gets what the port held at that moment, though the cycle of
\* an access goes on behind the next one.
AccessesInOrder == Sequential!Spec

\* HRDY comes for every access, whatever the cycle of the last one still does.
AccessesEnd == Hcs ~> ~Hcs
=============================================================================
