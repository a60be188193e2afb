------------------------------ MODULE BusTimer ------------------------------
(***************************************************************************)
(* tms34010_bus_timer (ENABLE = 1), between the arbiter and the external   *)
(* cycle bus: gives every cycle its two machine states.                    *)
(*                                                                         *)
(* An acknowledgement that comes early is kept, with its data, until the   *)
(* two states are over; a late one extends the cycle by whole states.  A   *)
(* CPU cycle is credited the clocks since the state in which the core      *)
(* raised it, as far as the bus was idle in them.                          *)
(*                                                                         *)
(* TimerClock(in) is one clock edge.  The record in holds the input pins:  *)
(*   req, cpu, age    the arbiter runs a cycle; it is the CPU's; clocks    *)
(*                    since the start of the state that asked for it       *)
(*   extAck, extRdata the external acknowledgement and its data            *)
(***************************************************************************)
EXTENDS Integers

CONSTANTS ClksPerState      \* core clocks in a machine state

ASSUME TimerAssumption == ClksPerState \in Nat \ {0}

VARIABLES
    busCnt,     \* bus_cnt_q: clocks until the bus is free on the timeline
    idle,       \* idle_q: clocks without a cycle, saturating
    timed,      \* active_q: the cycle on the bus has been taken up
    extDone,    \* ext_done_q: the early acknowledgement that is kept
    heldData    \* rdata_q

timerVars == <<busCnt, idle, timed, extDone, heldData>>

CycleClks == 2 * ClksPerState

Least(a, b) == IF a < b THEN a ELSE b

TimerInit(zero) ==
    /\ busCnt = 0 /\ idle = 0
    /\ timed = FALSE /\ extDone = FALSE
    /\ heldData = zero

\* Wires and output pins.
Start(in)  == in.req /\ ~timed /\ busCnt = 0
ExtReq(req) == req /\ (IF timed THEN ~extDone ELSE busCnt = 0)

Ready(in) == extDone \/ (ExtReq(in.req) /\ in.extAck)
Last      == timed /\ busCnt <= 1

TimerAck(in)   == Last /\ Ready(in)
TimerRdata(in) == IF extDone THEN heldData ELSE in.extRdata

\* Fault: a cycle is back-dated over the cycle before it.
CreditAge(in) == IF in.cpu THEN Least(in.age, CycleClks - 1) ELSE 0

Credit(in) == IF in.cpu THEN Least(Least(idle, in.age), CycleClks - 1) ELSE 0

-----------------------------------------------------------------------------
\* The timeline: two states less the credit, one more for each wait.
Timeline(in) ==
    busCnt' = IF Start(in) THEN CycleClks - 1 - Credit(in)
              ELSE IF Last /\ ~Ready(in) THEN ClksPerState
              ELSE IF busCnt # 0 THEN busCnt - 1 ELSE 0

IdleClocks(in) ==
    idle' = IF Start(in) \/ busCnt # 0 THEN 0 ELSE Least(idle + 1, CycleClks)

Ownership(in) == timed' = (Start(in) \/ (timed /\ ~TimerAck(in)))

\* Fault: an answer that was kept is used again by the next cycle.
KeepAnswerTooLong(in) ==
    /\ extDone' = (extDone \/ (ExtReq(in.req) /\ in.extAck))
    /\ heldData' = IF ExtReq(in.req) /\ in.extAck THEN in.extRdata ELSE heldData

KeepAnswer(in) ==
    IF TimerAck(in)
    THEN extDone' = FALSE /\ UNCHANGED heldData
    ELSE /\ extDone' = (extDone \/ (ExtReq(in.req) /\ in.extAck))
         /\ heldData' = IF ExtReq(in.req) /\ in.extAck THEN in.extRdata
                        ELSE heldData

TimerClock(in) ==
    Timeline(in) /\ IdleClocks(in) /\ Ownership(in) /\ KeepAnswer(in)
=============================================================================
