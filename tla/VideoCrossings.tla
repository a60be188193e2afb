--------------------------- MODULE VideoCrossings ----------------------------
(***************************************************************************)
(* tms34010_video_subsystem between the core's clock and the video clock.  *)
(* To the video side go the display configuration, as one snapshot of its  *)
(* registers, and the loads of the live counters, as one command for those *)
(* that were written; to the core go the display interrupts and, again and *)
(* again, a snapshot of the live counters.  Each waits for a mailbox of    *)
(* its own, and what comes meanwhile joins the next.                       *)
(*                                                                         *)
(* A value is the number of the write, the event or the change that made   *)
(* it.  The clocks are unrelated: a step is an edge of one, of the other   *)
(* or of both.                                                             *)
(***************************************************************************)
EXTENDS Integers, SyncBit

Counters == {"HCOUNT", "VCOUNT", "DPYADR"}

CONSTANTS
    Written,                    \* the counters somebody writes
    MaxConfig, MaxCounterLoads, \* bounds on the numbers of writes
    MaxEvents, MaxTicks         \* bounds on display interrupts, changes of the counters

VARIABLES
    cfg,        \* the configuration registers
    dirty,      \* config_dirty_q
    cfgBox,     \* u_config_mailbox
    cfgVideo,   \* config_video_q
    pending,    \* command_pending_q
    loadData,   \* *_pending_data_q, the last value written to each
    cmdBox,     \* u_command_mailbox
    loaded,     \* the last value loaded into each counter
    dips,       \* display interrupts so far
    dipPending, \* dip_pending_q
    dipBox,     \* u_dip_mailbox
    dipLatched, \* the events INTPEND.DIP has been set for
    live,       \* HCOUNT, VCOUNT, DPYADR
    statusBox,  \* u_status_mailbox
    view        \* what the core last read of them

cfgVars == <<cfg, dirty, cfgBox, cfgVideo>>
cmdVars == <<pending, loadData, cmdBox, loaded>>
dipVars == <<dips, dipPending, dipBox, dipLatched>>
liveVars == <<live, statusBox, view>>
crossingVars == <<cfgVars, cmdVars, dipVars, liveVars>>

CrossingAssumption ==
    /\ Written \subseteq Counters
    /\ {MaxConfig, MaxCounterLoads, MaxEvents, MaxTicks} \subseteq Nat

-----------------------------------------------------------------------------
(* tms34010_cdc_mailbox: one payload at a time into another clock's domain. *)
(* A box is a record of both sides' registers: payload, req and ackSync are *)
(* the source's; out, valid, reqSync and ack the destination's.  The        *)
(* toggles cross through synchronizers, the payload does not.               *)

MailboxReset(v) ==
    [payload |-> v, req |-> FALSE, ackSync |-> SyncReset(FALSE),
     out |-> v, valid |-> FALSE, reqSync |-> SyncReset(FALSE), ack |-> FALSE]

\* Fault: a payload is posted while the one before is under way.
BoxAcceptsAnytime(box, valid) == valid
BoxAccepts(box, valid) == valid /\ box.req = Synced(box.ackSync)

BoxArrives(box) == Synced(box.reqSync) # box.ack

BoxValidNext(box) == BoxArrives(box)

\* An edge of the source's clock, of the destination's, or of both.  An edge
\* without the side's clock enable is no edge.
BoxMoved(box, src, dst, valid, value) ==
    LET accepts == src /\ BoxAccepts(box, valid)
        arrives == dst /\ BoxArrives(box)
    IN  [payload |-> IF accepts THEN value ELSE box.payload,
         req     |-> IF accepts THEN ~box.req ELSE box.req,
         ackSync |-> IF src THEN SyncEdge(box.ackSync, box.ack) ELSE box.ackSync,
         out     |-> IF arrives THEN box.payload ELSE box.out,
         valid   |-> IF dst THEN BoxValidNext(box) ELSE box.valid,
         reqSync |-> IF dst THEN SyncEdge(box.reqSync, box.req) ELSE box.reqSync,
         ack     |-> IF arrives THEN ~box.ack ELSE box.ack]

-----------------------------------------------------------------------------
(* To the video side.                                                       *)

NoCounterLoad == [c \in {} |-> 0]

DirtyNext(accepted, write) == write \/ (dirty /\ ~accepted)

ConfigEdge(core, video, write) ==
    /\ cfg' = IF core /\ write THEN cfg + 1 ELSE cfg
    /\ dirty' = IF core THEN DirtyNext(BoxAccepts(cfgBox, dirty), write) ELSE dirty
    /\ cfgBox' = BoxMoved(cfgBox, core, video, dirty, cfg)
    /\ cfgVideo' = IF video /\ cfgBox.valid THEN cfgBox.out ELSE cfgVideo

PendingNext(accepted, writes) == (IF accepted THEN {} ELSE pending) \cup writes

CommandEdge(core, video, writes) ==
    /\ pending' = IF core THEN PendingNext(BoxAccepts(cmdBox, pending # {}), writes) ELSE pending
    /\ loadData' = [c \in Counters |-> IF core /\ c \in writes THEN loadData[c] + 1 ELSE loadData[c]]
    /\ cmdBox' = BoxMoved(cmdBox, core, video, pending # {}, [c \in pending |-> loadData[c]])
    /\ loaded' = [c \in Counters |-> IF video /\ cmdBox.valid /\ c \in DOMAIN cmdBox.out
                                     THEN cmdBox.out[c] ELSE loaded[c]]

-----------------------------------------------------------------------------
(* To the core.                                                             *)

\* Fault: an event in the clock of an acceptance goes with it.
DipClearWins(accepted, dip) == ~accepted /\ (dip \/ dipPending)
DipPendingNext(accepted, dip) == dip \/ (dipPending /\ ~accepted)

\* The payload is a one; here it is the number of events it stands for.
EventsEdge(core, video, dip) ==
    /\ dips' = IF video /\ dip THEN dips + 1 ELSE dips
    /\ dipPending' = IF video THEN DipPendingNext(BoxAccepts(dipBox, dipPending), dip) ELSE dipPending
    /\ dipBox' = BoxMoved(dipBox, video, core, dipPending, dips)
    /\ dipLatched' = IF core /\ dipBox.valid THEN dipBox.out ELSE dipLatched

StatusEdge(core, video, tick) ==
    /\ live' = IF video /\ tick THEN live + 1 ELSE live
    /\ statusBox' = BoxMoved(statusBox, video, core, TRUE, live)
    /\ view' = IF core THEN statusBox.out ELSE view

-----------------------------------------------------------------------------
CrossingStep(core, video, write, writes, dip, tick) ==
    /\ ConfigEdge(core, video, write)
    /\ CommandEdge(core, video, writes)
    /\ EventsEdge(core, video, dip)
    /\ StatusEdge(core, video, tick)

Writable == {c \in Written : loadData[c] < MaxCounterLoads}

CrossingNext == \E core, video, write, dip, tick \in BOOLEAN, writes \in SUBSET Writable :
            /\ core \/ video
            /\ write => cfg < MaxConfig
            /\ dip => dips < MaxEvents
            /\ tick => live < MaxTicks
            /\ CrossingStep(core, video, write, writes, dip, tick)

CrossingInit ==
    /\ cfg = 0 /\ dirty = FALSE /\ cfgBox = MailboxReset(0) /\ cfgVideo = 0
    /\ pending = {} /\ loadData = [c \in Counters |-> 0]
    /\ cmdBox = MailboxReset(NoCounterLoad) /\ loaded = loadData
    /\ dips = 0 /\ dipPending = FALSE /\ dipBox = MailboxReset(0) /\ dipLatched = 0
    /\ live = 0 /\ statusBox = MailboxReset(0) /\ view = 0

\* Both clocks run; nothing has to be written and no event has to come.
CrossingCoreEdge  == \E video \in BOOLEAN : CrossingStep(TRUE, video, FALSE, {}, FALSE, FALSE)
CrossingVideoEdge == \E core \in BOOLEAN : CrossingStep(core, TRUE, FALSE, {}, FALSE, FALSE)

CrossingsSpec == CrossingInit /\ [][CrossingNext]_crossingVars
CrossingsFairSpec ==
    CrossingsSpec /\ WF_crossingVars(CrossingCoreEdge) /\ WF_crossingVars(CrossingVideoEdge)

-----------------------------------------------------------------------------
(* Properties.                                                              *)

ConfigValue == INSTANCE LatestValue WITH written <- cfg, arrived <- cfgVideo
Hcount == INSTANCE LatestValue WITH written <- loadData["HCOUNT"], arrived <- loaded["HCOUNT"]
Vcount == INSTANCE LatestValue WITH written <- loadData["VCOUNT"], arrived <- loaded["VCOUNT"]
Dpyadr == INSTANCE LatestValue WITH written <- loadData["DPYADR"], arrived <- loaded["DPYADR"]
EventValue == INSTANCE LatestValue WITH written <- dips, arrived <- dipLatched
StatusValue == INSTANCE LatestValue WITH written <- live, arrived <- view

\* What is written, or happens, crosses in order: the configuration's
\* snapshots, each counter's loads, alone or together with others', the display
\* interrupts, and the states the counters had together.
\*
\* And once: a counter that counts on is not thrown back by the same command
\* in a second clock, and the latch of an interrupt that software has cleared
\* is not set again for the same event.
ValuesInOrder ==
    /\ ConfigValue!Spec /\ Hcount!Spec /\ Vcount!Spec /\ Dpyadr!Spec
    /\ EventValue!Spec /\ StatusValue!Spec
    /\ [](cmdBox.valid => \A c \in DOMAIN cmdBox.out : cmdBox.out[c] > loaded[c])
    /\ [](dipBox.valid => dipBox.out > dipLatched)

\* And the last value crosses without anything after it.
ValuesCross ==
    /\ ConfigValue!Progress /\ Hcount!Progress /\ Vcount!Progress /\ Dpyadr!Progress
    /\ EventValue!Progress /\ StatusValue!Progress
=============================================================================
