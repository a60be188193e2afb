---------------------------- MODULE ScreenRefresh ----------------------------
(***************************************************************************)
(* tms34010_display_addr and tms34010_screen_cdc: at the start of a        *)
(* horizontal blank the video side may ask for the shift registers to be   *)
(* loaded from a row of memory.  The request is held until the core's bus  *)
(* has made the cycle; then DPYADR steps to the next row.                  *)
(*                                                                         *)
(* A step is an edge of the video clock, of the core's, or of both.  The   *)
(* timing of tms34010_video is reduced to the lines: any number of clocks  *)
(* may lie between two horizontal blanks.                                  *)
(***************************************************************************)
EXTENDS Integers, SyncBit

CONSTANTS
    Veblnk, Vsblnk, LastLine,   \* VEBLNK, VSBLNK, VTOTAL
    ScreenRows,             \* values of SRFADR, 2^14 in the code
    Start, Dudate,          \* DPYSTRT.SRFADR and DPYCTL.DUDATE
    Lcstrts,                \* values of DPYSTRT.LCSTRT
    ScreenModes,            \* what else a request carries: DPYTAP and DPYCTL.ORG
    Loads                   \* what the processor may write to DPYADR

RefreshAssumption ==
    /\ Veblnk \in Nat /\ Vsblnk \in Nat /\ LastLine \in Nat
    /\ Veblnk < Vsblnk /\ Vsblnk <= LastLine
    /\ ScreenRows \in Nat \ {0} /\ Start \in 0 .. ScreenRows - 1 /\ Dudate \in Nat
    /\ Lcstrts \subseteq 0 .. 3
    /\ Loads \subseteq [srf : 0 .. ScreenRows - 1, lncnt : 0 .. 3]

VARIABLES
    \* programmed, and the video timing
    lcstrt, nil, sre, screenMode, line, oddField,
    \* tms34010_display_addr
    dpyadr, screenReq, request, srePrev, firstAfter,
    \* tms34010_screen_cdc, video side
    payload, screenToggle, screenArmed, screenOutstanding, videoAck, screenAckSync,
    \* tms34010_screen_cdc, core side
    coreReq, corePayload, screenSeen, screenAckToggle, screenReqSync,
    \* history
    gap,        \* eligible blanks since the one that last asked
    off,        \* SRE has been off since
    steady,     \* DPYADR has only counted since the last service, within its line
    nth,        \* rows asked for since the frame's address was taken
    ours        \* DPYADR has only counted since then, no row was late

program == <<lcstrt, nil, sre, screenMode, line, oddField>>
display == <<dpyadr, screenReq, request, srePrev, firstAfter>>
videoSide == <<payload, screenToggle, screenArmed, screenOutstanding, videoAck,
               screenAckSync>>
coreSide == <<coreReq, corePayload, screenSeen, screenAckToggle, screenReqSync>>
history == <<gap, off, steady, nth, ours>>
screenVars == <<program, display, videoSide, coreSide, history>>

NoRequest == [srf |-> 0, mode |-> CHOOSE m \in ScreenModes : TRUE]
NoScreenLoad == [srf |-> -1]

-----------------------------------------------------------------------------
(* tms34010_display_addr.  hblank is hblank_start, load a write of DPYADR.  *)

Eligible(hblank) == hblank /\ line \in Veblnk .. Vsblnk - 1
FrameBlank(hblank) == hblank /\ line = Vsblnk
FirstActive(hblank) == hblank /\ line = Veblnk

FrameStart == (Start - (IF ~nil /\ oddField THEN Dudate \div 2 ELSE 0)) % ScreenRows

\* Fault: SRE coming back while the counter runs is forgotten.
RequestsByCount(hblank) ==
    Eligible(hblank) /\ sre /\ ~screenReq /\ (FirstActive(hblank) \/ dpyadr.lncnt = 0)
ScreenRequests(hblank) ==
    /\ Eligible(hblank) /\ sre /\ ~screenReq
    /\ FirstActive(hblank) \/ firstAfter \/ ~srePrev \/ dpyadr.lncnt = 0

Retires == videoAck /\ screenReq

SrfNext(hblank) ==
    IF FrameBlank(hblank) THEN FrameStart
    ELSE IF Retires THEN (dpyadr.srf - Dudate) % ScreenRows ELSE dpyadr.srf

LncntNext(hblank) ==
    IF FirstActive(hblank) \/ Retires THEN lcstrt
    ELSE IF Eligible(hblank) /\ sre /\ ~screenReq /\ ~ScreenRequests(hblank)
    THEN (dpyadr.lncnt - 1) % 4
    ELSE dpyadr.lncnt

DisplayAddr(hblank, load) ==
    /\ srePrev' = sre
    /\ firstAfter' = (sre /\ ~ScreenRequests(hblank) /\ (~srePrev \/ firstAfter))
    /\ screenReq' = (ScreenRequests(hblank) \/ (screenReq /\ ~Retires))
    /\ request' = IF ScreenRequests(hblank) THEN [srf |-> dpyadr.srf, mode |-> screenMode]
                  ELSE request
    /\ dpyadr' = IF load # NoScreenLoad THEN load
                 ELSE [srf |-> SrfNext(hblank), lncnt |-> LncntNext(hblank)]

-----------------------------------------------------------------------------
(* tms34010_screen_cdc.                                                     *)

\* Fault: the request still held behind its acknowledgement goes out again.
TakesHeld == ~screenOutstanding /\ screenReq
Takes == ~screenOutstanding /\ screenReq /\ screenArmed

Returns == screenOutstanding /\ Synced(screenAckSync) = screenToggle

VideoSide ==
    /\ videoAck' = Returns
    /\ screenArmed' = (~Takes /\ (screenArmed \/ ~screenReq))
    /\ screenOutstanding' = (Takes \/ (screenOutstanding /\ ~Returns))
    /\ payload' = IF Takes THEN request ELSE payload
    /\ screenToggle' = (screenToggle # Takes)
    /\ screenAckSync' = SyncEdge(screenAckSync, screenAckToggle)

\* Fault: the toggle is taken for a level.
ArrivesOnRise == ~coreReq /\ Synced(screenReqSync) /\ ~screenSeen
Arrives == ~coreReq /\ Synced(screenReqSync) # screenSeen

\* ack is the end of the memory-to-register cycle on the bus.
CoreSide(ack) ==
    /\ coreReq' = (Arrives \/ (coreReq /\ ~ack))
    /\ corePayload' = IF Arrives THEN payload ELSE corePayload
    /\ screenSeen' = IF Arrives THEN Synced(screenReqSync) ELSE screenSeen
    /\ screenAckToggle' = IF coreReq /\ ack THEN screenSeen ELSE screenAckToggle
    /\ screenReqSync' = SyncEdge(screenReqSync, screenToggle)

-----------------------------------------------------------------------------
(* The registers' values and the lines, as the video side has them.         *)

Timing(hblank) ==
    /\ line' = IF hblank THEN (line + 1) % (LastLine + 1) ELSE line
    /\ oddField' = IF hblank /\ line = LastLine THEN ~nil /\ ~oddField ELSE oddField
    /\ UNCHANGED <<lcstrt, nil>>

History(hblank, load) ==
    LET asks == ScreenRequests(hblank)
        undisturbed == load = NoScreenLoad /\ ~(hblank /\ screenReq)
    IN  /\ gap' = IF asks THEN 0 ELSE IF Eligible(hblank) /\ gap < 3 THEN gap + 1 ELSE gap
        /\ off' = (~sre \/ (off /\ ~asks))
        /\ steady' = (undisturbed /\ (steady \/ (Retires /\ gap = 0)))
        /\ nth' = IF FrameBlank(hblank) THEN 0 ELSE IF asks THEN nth + 1 ELSE nth
        /\ ours' = (undisturbed /\ (ours \/ FrameBlank(hblank)))

Video(hblank, load) ==
    /\ DisplayAddr(hblank, load) /\ VideoSide
    /\ Timing(hblank) /\ History(hblank, load)
    /\ sre' \in BOOLEAN /\ screenMode' \in ScreenModes

ScreenCore(ack) == (ack => coreReq) /\ CoreSide(ack)

VideoIdle == UNCHANGED <<program, display, videoSide, history>>
CoreIdle == UNCHANGED coreSide

VideoEdge(load) ==
    \E hblank \in BOOLEAN :
        Video(hblank, load) /\ (CoreIdle \/ \E ack \in BOOLEAN : ScreenCore(ack))

ScreenCoreEdge(ack) ==
    ScreenCore(ack) /\ (VideoIdle \/ \E hblank \in BOOLEAN : Video(hblank, NoScreenLoad))

ScreenNext ==
    \/ \E load \in Loads \cup {NoScreenLoad} : VideoEdge(load)
    \/ \E ack \in BOOLEAN : ScreenCoreEdge(ack)

ScreenInit ==
    /\ lcstrt \in Lcstrts /\ nil \in BOOLEAN /\ sre = FALSE /\ screenMode \in ScreenModes
    /\ line = 0 /\ oddField = FALSE
    /\ dpyadr = [srf |-> 0, lncnt |-> 0]
    /\ screenReq = FALSE /\ request = NoRequest /\ srePrev = FALSE /\ firstAfter = FALSE
    /\ payload = NoRequest /\ screenToggle = FALSE /\ screenArmed = TRUE
    /\ screenOutstanding = FALSE /\ videoAck = FALSE /\ screenAckSync = SyncReset(FALSE)
    /\ coreReq = FALSE /\ corePayload = NoRequest /\ screenSeen = FALSE
    /\ screenAckToggle = FALSE /\ screenReqSync = SyncReset(FALSE)
    /\ gap = 0 /\ off = TRUE /\ steady = TRUE /\ nth = 0 /\ ours = FALSE

ScreenSpec == ScreenInit /\ [][ScreenNext]_screenVars

\* Both clocks run, and the bus gives every request its cycle.
AnyCoreEdge == \E ack \in BOOLEAN : ScreenCoreEdge(ack)
ScreenFairSpec ==
    /\ ScreenSpec
    /\ WF_screenVars(VideoEdge(NoScreenLoad))
    /\ WF_screenVars(AnyCoreEdge) /\ WF_screenVars(ScreenCoreEdge(TRUE))

-----------------------------------------------------------------------------
(* Properties.                                                              *)

\* A request held by the video side is one remote call: it reaches the core
\* with the row and the mode it was made for, gets one memory-to-register
\* cycle, and is retired before there is another, however long the bus
\* takes.
ScreenStage ==
    CASE ~screenReq -> "idle"
      [] coreReq -> "serving"
      [] screenReq /\ videoAck -> "returned"
      [] screenReq /\ screenOutstanding /\ screenAckToggle = screenToggle -> "served"
      [] OTHER -> "asked"

Call == INSTANCE RemoteCall WITH
            Commands <- [srf : 0 .. ScreenRows - 1, mode : ScreenModes],
            Answers <- {"done"}, NoCmd <- "none", NoData <- "no data",
            stage <- ScreenStage,
            what <- CASE ScreenStage = "idle" -> "none"
                      [] ScreenStage = "asked" -> request
                      [] OTHER -> corePayload,
            result <- IF ScreenStage \in {"served", "returned"} THEN "done" ELSE "no data"
OneCall == Call!Spec

\* And it is retired.
RequestRetired == screenReq ~> ~screenReq

\* While requests are served within their lines and SRE is on, a blank of the
\* active lines asks exactly when it is the frame's first, when SRE has been
\* off, or when LCSTRT blanks have passed since the last that asked; and the
\* row asked for n-th after a vertical blank is n steps below the start of its
\* field.
FieldStart == (Start - (IF ~nil /\ ~oddField THEN Dudate \div 2 ELSE 0)) % ScreenRows
RowByRow ==
    [][/\ line' # line /\ Eligible(TRUE) /\ ~screenReq /\ sre /\ steady
            => (screenReq' <=> FirstActive(TRUE) \/ off \/ gap = lcstrt)
       /\ ~screenReq /\ screenReq' /\ ours
            => request'.srf = (FieldStart - nth * Dudate) % ScreenRows]_screenVars
=============================================================================
