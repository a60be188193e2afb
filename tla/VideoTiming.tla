----------------------------- MODULE VideoTiming -----------------------------
(***************************************************************************)
(* tms34010_video: the counters of the display.  HCOUNT counts the clocks  *)
(* of a line, VCOUNT the lines of a field; interlaced, the odd field       *)
(* starts in the middle of a line.  The counters are loaded by the core,   *)
(* and follow the pins HSYNC and VSYNC when these are inputs.              *)
(***************************************************************************)
EXTENDS Integers, SyncBit

CONSTANTS
    Htotal, Hsblnk, Heblnk, Vtotal, Vesync,     \* the registers of these names
    Dpyints,                                    \* values of DPYINT
    Modes,                                      \* values of DPYCTL
    Hloads, Vloads,                             \* values loaded into the counters
    MaxLoads                                    \* bound on loads of the counters

HalfLine == Htotal \div 2

\* VTOTAL is past VESYNC, or an odd field would count past it at mid-line.
ASSUME TimingAssumption ==
    /\ Htotal \in Nat \ {0} /\ Hsblnk \in 0 .. Htotal /\ Heblnk \in Nat
    /\ Vtotal \in Nat /\ Vesync \in 0 .. Vtotal - 1
    /\ Dpyints \subseteq 0 .. Vtotal
    /\ Hloads \subseteq 0 .. Htotal /\ Vloads \subseteq 0 .. Vtotal
    /\ Modes \subseteq [nil : BOOLEAN, dxv : BOOLEAN, hsd : BOOLEAN]
    /\ MaxLoads \in Nat

VARIABLES
    mode, dpyint,               \* DPYCTL.NIL, .DXV, .HSD with ENV set; DPYINT
    hsyncN, vsyncN,             \* the pins
    hsync, vsync, hPrev, vPrev, \* their synchronizers and the last levels
    hcount, vcount, odd,
    ticks, fired,               \* history: clocks and interrupts since the field before
    undisturbed,                \* nothing but counting since then
    loads

videoPins == <<hsyncN, vsyncN, hsync, vsync, hPrev, vPrev>>
timingVars == <<mode, dpyint, videoPins, hcount, vcount, odd, ticks, fired, undisturbed, loads>>

NoLoad == -1

LineEdge == hPrev /\ ~Synced(hsync)
FieldEdge == vPrev /\ ~Synced(vsync)

ExternalLines == ~mode.dxv /\ ~mode.hsd
LineStart == (ExternalLines /\ LineEdge) \/ hcount = Htotal
ExternalField == ~mode.dxv /\ FieldEdge

EvenToOdd == mode.dxv /\ ~mode.nil /\ ~odd /\ vcount = Vtotal /\ hcount = HalfLine
OddSyncEnd == mode.dxv /\ ~mode.nil /\ odd /\ vcount = Vesync /\ hcount = HalfLine

HblankStart == hcount = Hsblnk
Interrupt == HblankStart /\ vcount = dpyint /\ ~OddSyncEnd

HcountNext(load) ==
    IF load # NoLoad THEN load ELSE IF LineStart THEN 0 ELSE hcount + 1

\* Fault: the odd field's VESYNC does not count at mid-line.
VcountNoSyncEnd(load, hload) ==
    IF load # NoLoad THEN load
    ELSE IF ExternalField THEN 0
    ELSE IF ~hload /\ (EvenToOdd \/ (LineStart /\ vcount = Vtotal)) THEN 0
    ELSE IF ~hload /\ LineStart THEN vcount + 1
    ELSE vcount
\* VCOUNT and the field below, in the order of the code's branches.  hload says
\* that HCOUNT is loaded.
VcountNext(load, hload) ==
    IF load # NoLoad THEN load
    ELSE IF ExternalField THEN 0
    ELSE IF ~hload /\ EvenToOdd THEN 0
    ELSE IF ~hload /\ (OddSyncEnd \/ (LineStart /\ vcount # Vtotal)) THEN vcount + 1
    ELSE IF ~hload /\ LineStart THEN 0
    ELSE vcount

OddNext(load, hload) ==
    IF load = NoLoad /\ ExternalField
    THEN IF mode.nil THEN FALSE ELSE hcount > Heblnk /\ hcount <= Hsblnk
    ELSE IF load = NoLoad /\ ~hload /\ EvenToOdd THEN TRUE
    ELSE IF load = NoLoad /\ ~hload /\ ~OddSyncEnd /\ LineStart /\ vcount = Vtotal THEN FALSE
    ELSE odd /\ ~mode.nil

\* The counters come round by counting.
FieldEnds == EvenToOdd \/ (LineStart /\ vcount = Vtotal)

VideoClock(hload, vload) ==
    /\ hcount' = HcountNext(hload)
    /\ vcount' = VcountNext(vload, hload # NoLoad)
    /\ odd' = OddNext(vload, hload # NoLoad)
    /\ hsync' = SyncEdge(hsync, hsyncN) /\ hPrev' = Synced(hsync)
    /\ vsync' = SyncEdge(vsync, vsyncN) /\ vPrev' = Synced(vsync)
    /\ IF mode.dxv THEN UNCHANGED <<hsyncN, vsyncN>> ELSE hsyncN' \in BOOLEAN /\ vsyncN' \in BOOLEAN
    /\ LET counts == hload = NoLoad /\ vload = NoLoad /\ mode.dxv
       IN  /\ undisturbed' = (counts /\ (undisturbed \/ FieldEnds))
           /\ ticks' = IF counts /\ undisturbed /\ ~FieldEnds THEN ticks + 1 ELSE 0
           /\ fired' = IF counts /\ undisturbed /\ ~FieldEnds
                       THEN fired + (IF Interrupt THEN 1 ELSE 0) ELSE 0
    /\ loads' = IF hload # NoLoad \/ vload # NoLoad THEN loads + 1 ELSE loads
    /\ UNCHANGED <<mode, dpyint>>

TimingNext ==
    \E hload \in {NoLoad} \cup Hloads, vload \in {NoLoad} \cup Vloads :
        /\ hload # NoLoad \/ vload # NoLoad => loads < MaxLoads
        /\ VideoClock(hload, vload)

TimingInit ==
    /\ mode \in Modes /\ dpyint \in Dpyints
    /\ hsyncN = TRUE /\ vsyncN = TRUE
    /\ hsync = SyncReset(TRUE) /\ vsync = SyncReset(TRUE) /\ hPrev = TRUE /\ vPrev = TRUE
    /\ hcount = 0 /\ vcount = 0 /\ odd = FALSE
    /\ ticks = 0 /\ fired = 0 /\ undisturbed = FALSE /\ loads = 0

TimingSpec == TimingInit /\ [][TimingNext]_timingVars

-----------------------------------------------------------------------------
(* Properties.                                                              *)

Line == Htotal + 1

\* A field's clocks, from the one after the end of the field before:
\* interlaced, the even field is half a line longer than VTOTAL lines and the
\* odd one half a line shorter.  With VESYNC = 0 the odd field begins behind
\* the mid-line its VCOUNT would step at, and has a line more.
OddSkips == Vesync > 0
FieldClocks ==
    IF mode.nil THEN (Vtotal + 1) * Line
    ELSE IF ~odd THEN Vtotal * Line + (HalfLine + 1)
    ELSE IF OddSkips THEN Vtotal * Line - (HalfLine + 1)
    ELSE (Vtotal + 1) * Line - (HalfLine + 1)

\* Lines whose blank a field does not have: the even field's last, cut at its
\* middle; of the odd field, which has the other half of the first and halves
\* of the two it steps between, those whose blank lies in the half it has not.
\* If the blank begins where it steps, VCOUNT does not interrupt.
Cut ==
    /\ ~mode.nil
    /\ \/ ~odd /\ dpyint = Vtotal /\ Hsblnk > HalfLine
       \/ odd /\ dpyint = 0 /\ Hsblnk <= HalfLine
       \/ odd /\ OddSkips /\ dpyint = Vesync /\ Hsblnk >= HalfLine
       \/ odd /\ OddSkips /\ dpyint = Vesync + 1 /\ Hsblnk <= HalfLine

\* The counters stay within the totals, whether lines and fields come from the
\* counters or from the pins: a missing pin edge does not let them run away.
\* A field nobody loaded a counter in has its length, and one interrupt if
\* DPYINT is a line whose blank it has.
FieldsAsProgrammed ==
    /\ [](hcount \in 0 .. Htotal /\ vcount \in 0 .. Vtotal /\ (mode.nil => ~odd))
    /\ [][undisturbed /\ FieldEnds =>
            /\ ticks + 1 = FieldClocks
            /\ fired + (IF Interrupt THEN 1 ELSE 0) = IF Cut THEN 0 ELSE 1]_timingVars
=============================================================================
