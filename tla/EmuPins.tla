------------------------------- MODULE EmuPins -------------------------------
(***************************************************************************)
(* tms34010_emu_bridge: the processor's EMU indication on the pin it       *)
(* shares with HLDA.  The execution of an EMU instruction is one clock of  *)
(* the core; the pin shows it in one whole half Q1/Q2 of the local clock,  *)
(* and a halt in every such half while it lasts.                           *)
(*                                                                         *)
(* The clocks are unrelated: a step is an edge of one.  A synchronizer may *)
(* take a bit that has changed since the last edge or still the old one,   *)
(* each bit for itself.                                                    *)
(*                                                                         *)
(* The core and the bus are reduced to what paces the EMU instructions     *)
(* (docs/assumptions.md, A0042): the next opcode is fetched over the same  *)
(* bus, in two local clocks that begin with Q1A after the last execution,  *)
(* and takes the core's clock MinClocks edges at least.                    *)
(***************************************************************************)
EXTENDS Integers, SyncBit

CONSTANTS
    MinClocks,
    Period      \* edges of the 8x clock between two of the core's

EmuAssumption == MinClocks \in Nat \ {0} /\ Period \subseteq Nat \ {0}

EmuQ2B == 3
EmuQ4B == 7
FetchEdges == 16

VARIABLES
    \* the core: running or halted, RUN/EMU, edges and bus edges since the event
    halted, runPin, clocks, fetch,
    \* src_request_q, src_halt_q, u_ack_sync
    emuRequest, halt, emuAckSync,
    \* the local clock and the destination's registers
    subphase, requestSync, haltSync, emuAck, pulseWait, pulse, haltPhase,
    \* the bits at the last edge of the other clock
    lastRequest, lastHalt, lastAck,
    since,      \* edges of the 8x clock since the last of the core's
    \* history: events not shown, a halting event's first window has begun
    owed, begun

emuCore == <<halted, runPin, clocks, fetch>>
emuSrc == <<emuRequest, halt, emuAckSync>>
emuDst == <<subphase, requestSync, haltSync, emuAck, pulseWait, pulse, haltPhase>>
emuLasts == <<lastRequest, lastHalt, lastAck, since>>
emuVars == <<emuCore, emuSrc, emuDst, emuLasts, owed, begun>>

Fetched == FetchEdges
NoFetch == -1

-----------------------------------------------------------------------------
(* An edge of the core's clock.                                             *)

\* CORE_EXECUTE of an EMU instruction, once its opcode has been fetched.
MayExecute == ~halted /\ fetch = Fetched /\ clocks >= MinClocks

EmuRequestNext(event) == event \/ (emuRequest /\ ~Synced(emuAckSync))

\* Fault: the halt is the core's halted state alone, a clock later.
HaltNextLate(event) == halted /\ ~runPin
HaltNext(event) == (event \/ halted) /\ ~runPin

EmuSrcEdge(event, takesAck) ==
    /\ event => MayExecute
    /\ since \in Period /\ since' = 0
    /\ emuRequest' = EmuRequestNext(event)
    /\ halt' = HaltNext(event)
    /\ emuAckSync' = SyncEdge(emuAckSync, IF takesAck THEN emuAck ELSE lastAck)
    /\ lastAck' = emuAck
    /\ halted' = ((event \/ halted) /\ ~runPin)
    /\ runPin' \in BOOLEAN
    /\ clocks' = IF event THEN 0 ELSE IF clocks < MinClocks THEN clocks + 1 ELSE clocks
    /\ fetch' = IF event THEN NoFetch ELSE fetch
    /\ owed' = IF event THEN owed + 1 ELSE owed
    /\ UNCHANGED <<emuDst, lastRequest, lastHalt, begun>>

-----------------------------------------------------------------------------
(* An edge of the 8x clock.                                                 *)

PulseStarts == ~pulse /\ subphase = EmuQ4B

PulseEnds == pulse /\ subphase = EmuQ2B

HaltPhaseNext == IF subphase = EmuQ4B THEN Synced(haltSync) ELSE haltPhase

EmuDstEdge(takesRequest, takesHalt) ==
    LET asked == Synced(requestSync)
        works == asked /\ ~emuAck
    IN  /\ subphase' = (subphase + 1) % 8
        /\ requestSync' = SyncEdge(requestSync, IF takesRequest THEN emuRequest ELSE lastRequest)
        /\ haltSync' = SyncEdge(haltSync, IF takesHalt THEN halt ELSE lastHalt)
        /\ lastRequest' = emuRequest /\ lastHalt' = halt
        /\ \E n \in Period : since < n
        /\ since' = since + 1
        /\ haltPhase' = HaltPhaseNext
        /\ emuAck' = (asked /\ (emuAck \/ PulseEnds))
        /\ pulse' = IF works THEN PulseStarts \/ (pulse /\ ~PulseEnds) ELSE pulse
        /\ pulseWait' = IF works THEN ~pulse /\ ~PulseStarts ELSE asked /\ pulseWait
        /\ fetch' = IF fetch = NoFetch THEN (IF subphase = EmuQ4B THEN 0 ELSE NoFetch)
                    ELSE IF fetch < Fetched THEN fetch + 1 ELSE fetch
        /\ owed' = IF works /\ PulseEnds THEN owed - 1 ELSE owed
        /\ begun' = (halted /\ (begun \/ (subphase = EmuQ4B /\ (pulse' \/ haltPhase'))))
        /\ UNCHANGED <<halted, runPin, clocks, emuSrc, lastAck>>

-----------------------------------------------------------------------------

EmuNext ==
    \/ \E event, takesAck \in BOOLEAN : EmuSrcEdge(event, takesAck)
    \/ \E takesRequest, takesHalt \in BOOLEAN : EmuDstEdge(takesRequest, takesHalt)

EmuInit ==
    /\ halted = FALSE /\ runPin = TRUE /\ clocks = 0 /\ fetch = NoFetch
    /\ emuRequest = FALSE /\ halt = FALSE /\ emuAckSync = SyncReset(FALSE)
    /\ subphase = 0 /\ requestSync = SyncReset(FALSE) /\ haltSync = SyncReset(FALSE)
    /\ emuAck = FALSE /\ pulseWait = FALSE /\ pulse = FALSE /\ haltPhase = FALSE
    /\ lastRequest = FALSE /\ lastHalt = FALSE /\ lastAck = FALSE /\ since = 0
    /\ owed = 0 /\ begun = FALSE

EmuSpec == EmuInit /\ [][EmuNext]_emuVars

\* Both clocks run; no event has to come.
EmuCoreEdge == \E takesAck \in BOOLEAN : EmuSrcEdge(FALSE, takesAck)
EmuBusEdge  == \E takesRequest, takesHalt \in BOOLEAN : EmuDstEdge(takesRequest, takesHalt)

EmuFairSpec == EmuSpec /\ WF_emuVars(EmuCoreEdge) /\ WF_emuVars(EmuBusEdge)

-----------------------------------------------------------------------------
(* Properties.                                                              *)

\* EMUA, in the half where the pin shows it.
Emua == pulse \/ haltPhase
InWindow == subphase <= EmuQ2B

\* No event is lost behind another, none is shown twice, and every one is
\* shown.
EventsShown ==
    /\ [](owed \in {0, 1} /\ (pulse => owed = 1))
    /\ owed = 1 ~> owed = 0

\* In a window the pin does not change, and a halting instruction's windows
\* follow each other from the first, with no inactive one between the event's
\* and the halt's.
WholeWindows ==
    /\ [][InWindow /\ InWindow' => Emua' = Emua]_emuVars
    /\ [](begun /\ InWindow => Emua)
=============================================================================
