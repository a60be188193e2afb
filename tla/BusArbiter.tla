----------------------------- MODULE BusArbiter -----------------------------
(***************************************************************************)
(* tms34010_bus_arbiter: gives the local bus to one client at a time.      *)
(*                                                                         *)
(* An owner is chosen only while the bus is idle, in the order HOLD, the   *)
(* CPU's reserved write, screen refresh, DRAM refresh, host, CPU; a cycle  *)
(* that has begun runs until it is acknowledged.                           *)
(*                                                                         *)
(* ArbiterClock(in) is one clock edge.  The record in holds the input pins:*)
(*   hold, screen, host, cpu   the clients' requests (levels)              *)
(*   refresh                   a DRAM refresh event (a one-clock pulse):   *)
(*                             the row to refresh, or NoRow                *)
(*   hostIo, hostIoRdata       the host addresses an I/O register; its     *)
(*                             present value                               *)
(*   we, lock                  the CPU's word is a write; it belongs to a  *)
(*                             partial word's read-write pair              *)
(*   ack                       the controller ends the current cycle       *)
(***************************************************************************)
EXTENDS Integers

CONSTANTS
    Rows,       \* the rows a DRAM refresh event can name
    CbrRows,    \* those it names with CAS-before-RAS mode
    NoRow       \* no refresh event in this clock

VARIABLES
    arb,            \* state_q
    rmwActive,      \* cpu_rmw_active_q: the bus is reserved for the CPU's write
    dramPending,    \* dram_pending_q
    dramRow,        \* dram_row_q, dram_cbr_q
    hostIoRdata     \* host_io_rdata_q

arbVars == <<arb, rmwActive, dramPending, dramRow, hostIoRdata>>

Masters   == {"SCREEN", "DRAM", "HOST", "CPU"}
ArbStates == {"IDLE", "HOLD"} \cup Masters

ArbTypeOK ==
    /\ arb \in ArbStates
    /\ rmwActive \in BOOLEAN
    /\ dramPending \in BOOLEAN
    /\ dramRow \in Rows \cup {NoRow}
    /\ hostIoRdata \in {0, 1}

ArbInit ==
    /\ arb = "IDLE"
    /\ rmwActive = FALSE
    /\ dramPending = FALSE
    /\ dramRow = NoRow
    /\ hostIoRdata = 0

\* Output pins.
CycleReq       == arb \in Masters
HoldAck        == arb = "HOLD"
\* Fault: the sequencer is not told of HOLD.
RestartNever(hold) == FALSE

Restart(hold)  == arb = "IDLE" /\ hold /\ rmwActive

RefreshDue(in) == dramPending \/ in.refresh # NoRow

-----------------------------------------------------------------------------
\* Fault: HOLD does not come before the other clients.
FreeOfReservation(in) == arb = "IDLE" /\ ~rmwActive

\* Choosing an owner.  Free: neither HOLD nor a reservation decides.
Free(in) == arb = "IDLE" /\ ~in.hold /\ ~rmwActive

GrantHold(in) ==
    /\ arb = "IDLE" /\ in.hold
    /\ arb' = "HOLD"
    /\ rmwActive' = FALSE
    /\ UNCHANGED hostIoRdata

GrantReserved(in) ==
    /\ arb = "IDLE" /\ ~in.hold /\ rmwActive
    /\ arb' = "CPU"
    /\ UNCHANGED <<rmwActive, hostIoRdata>>

GrantScreen(in) ==
    /\ Free(in) /\ in.screen
    /\ arb' = "SCREEN"
    /\ UNCHANGED <<rmwActive, hostIoRdata>>

GrantDram(in) ==
    /\ Free(in) /\ ~in.screen /\ RefreshDue(in)
    /\ arb' = "DRAM"
    /\ UNCHANGED <<rmwActive, hostIoRdata>>

\* Fault: the host may come between a partial read and its write.
GrantHostAnyway(in) ==
    /\ arb = "IDLE" /\ ~in.hold /\ in.host
    /\ arb' = "HOST"
    /\ hostIoRdata' = IF in.hostIo THEN in.hostIoRdata ELSE hostIoRdata
    /\ UNCHANGED rmwActive

GrantHost(in) ==
    /\ Free(in) /\ ~in.screen /\ ~RefreshDue(in) /\ in.host
    /\ arb' = "HOST"
    /\ hostIoRdata' = IF in.hostIo THEN in.hostIoRdata ELSE hostIoRdata
    /\ UNCHANGED rmwActive

GrantCpu(in) ==
    /\ Free(in) /\ ~in.screen /\ ~RefreshDue(in) /\ ~in.host /\ in.cpu
    /\ arb' = "CPU"
    /\ rmwActive' = in.lock
    /\ UNCHANGED hostIoRdata

NothingToDo(in) ==
    /\ Free(in) /\ ~in.screen /\ ~RefreshDue(in) /\ ~in.host /\ ~in.cpu
    /\ UNCHANGED <<arb, rmwActive, hostIoRdata>>

KeepHold(in) ==
    /\ arb = "HOLD" /\ in.hold
    /\ UNCHANGED <<arb, rmwActive, hostIoRdata>>

EndHold(in) ==
    /\ arb = "HOLD" /\ ~in.hold
    /\ arb' = "IDLE"
    /\ UNCHANGED <<rmwActive, hostIoRdata>>

CycleRuns(in) ==
    /\ arb \in Masters /\ ~in.ack
    /\ UNCHANGED <<arb, rmwActive, hostIoRdata>>

\* Fault: the write does not end the reservation.
EndCycleStaysReserved(in) ==
    /\ arb \in Masters /\ in.ack
    /\ arb' = "IDLE"
    /\ UNCHANGED <<rmwActive, hostIoRdata>>

EndCycle(in) ==
    /\ arb \in Masters /\ in.ack
    /\ arb' = "IDLE"
    /\ rmwActive' = (rmwActive /\ ~(arb = "CPU" /\ in.we))
    /\ UNCHANGED hostIoRdata

Arbitrate(in) ==
    \/ GrantHold(in) \/ GrantReserved(in) \/ GrantScreen(in) \/ GrantDram(in)
    \/ GrantHost(in) \/ GrantCpu(in)      \/ NothingToDo(in) \/ KeepHold(in)
    \/ EndHold(in)   \/ CycleRuns(in)     \/ EndCycle(in)

\* The one-entry refresh capture.  An event that finds the entry taken is
\* dropped, unless the refresh in it is being retired in the same clock.
RetireDram(in) == arb = "DRAM" /\ in.ack

\* Fault: an event overwrites the one being served.
CaptureDramAlways(in) == in.refresh # NoRow
CaptureDram(in) == in.refresh # NoRow /\ (~dramPending \/ RetireDram(in))

\* Fault: the clear wins over an event in the same clock.
RefreshCaptureClearWins(in) ==
    IF in.refresh # NoRow /\ ~dramPending
    THEN /\ dramPending' = TRUE
         /\ dramRow' = in.refresh
    ELSE /\ dramPending' = (dramPending /\ ~RetireDram(in))
         /\ UNCHANGED dramRow

RefreshCapture(in) ==
    IF CaptureDram(in)
    THEN /\ dramPending' = TRUE
         /\ dramRow' = in.refresh
    ELSE /\ dramPending' = (dramPending /\ ~RetireDram(in))
         /\ UNCHANGED dramRow

ArbiterClock(in) == Arbitrate(in) /\ RefreshCapture(in)
=============================================================================
