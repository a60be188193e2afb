---------------------------- MODULE ScreenProofs -----------------------------
(***************************************************************************)
(* Proofs about the two clocks of the video subsystem:                     *)
(* - the screen refresh: which blanks ask for which rows, and what becomes *)
(*   of a request on its way through the other clock, for every            *)
(*   programming of the display, any number of rows, DPYADR loaded and SRE *)
(*   switched at any moment, and a bus that is busy for any time;          *)
(* - the values that cross, for any number of writes, events and changes,  *)
(*   and any edges of the two clocks.                                      *)
(***************************************************************************)
EXTENDS ScreenRefresh, VideoCrossings, TLAPS

Commands == [srf : 0 .. ScreenRows - 1, mode : ScreenModes]

-----------------------------------------------------------------------------
(* Remainders.                                                              *)

\* A number has one remainder.
LEMMA OneRemainder ==
  ASSUME NEW n \in Nat \ {0}, NEW p \in Int, NEW q \in Int,
         NEW r \in 0 .. n - 1, NEW s \in 0 .. n - 1, p * n + r = q * n + s
  PROVE  r = s
<1>1. (p - q) * n = s - r
  OBVIOUS
<1>2. CASE p - q >= 1
  <2>1. (p - q) * n >= n
    BY <1>2
  <2>. QED BY <1>1, <2>1
<1>3. CASE p - q <= -1
  <2>1. (p - q) * n <= -n
    BY <1>3
  <2>. QED BY <1>1, <2>1
<1>4. CASE p = q
  BY <1>1, <1>4
<1>. QED BY <1>2, <1>3, <1>4

LEMMA Division ==
  ASSUME NEW n \in Nat \ {0}, NEW a \in Int
  PROVE  \E q \in Int, r \in 0 .. n - 1 : a = q * n + r /\ a % n = r
OBVIOUS

\* A remainder is its own, and may be taken before a step down as well.
LEMMA Remainder ==
  ASSUME NEW n \in Nat \ {0}
  PROVE  /\ \A a \in 0 .. n - 1 : a % n = a
         /\ \A a, d \in Int : ((a % n) - d) % n = (a - d) % n
<1>1. ASSUME NEW a \in 0 .. n - 1 PROVE a % n = a
  <2>1. PICK q \in Int, r \in 0 .. n - 1 : a = q * n + r /\ a % n = r
    BY Division
  <2>2. 0 * n + a = q * n + r
    BY <2>1
  <2>. QED BY <2>1, <2>2, OneRemainder
<1>2. ASSUME NEW a \in Int, NEW d \in Int PROVE ((a % n) - d) % n = (a - d) % n
  <2>1. PICK p \in Int, r \in 0 .. n - 1 : a = p * n + r /\ a % n = r
    BY Division
  <2>2. PICK q \in Int, s \in 0 .. n - 1 : r - d = q * n + s /\ (r - d) % n = s
    BY Division
  <2>3. PICK t \in Int, u \in 0 .. n - 1 : a - d = t * n + u /\ (a - d) % n = u
    BY Division
  <2>4. (p + q) * n = p * n + q * n
    OBVIOUS
  <2>5. (p + q) * n + s = t * n + u
    BY <2>1, <2>2, <2>3, <2>4
  <2>6. s = u
    BY <2>5, OneRemainder
  <2>. QED BY <2>1, <2>2, <2>3, <2>6
<1>. QED BY <1>1, <1>2

-----------------------------------------------------------------------------
(* The rows.                                                                *)

DisplayTypeOK ==
    /\ lcstrt \in 0 .. 3 /\ nil \in BOOLEAN /\ sre \in BOOLEAN /\ screenMode \in ScreenModes
    /\ line \in 0 .. LastLine /\ oddField \in BOOLEAN
    /\ dpyadr \in [srf : 0 .. ScreenRows - 1, lncnt : 0 .. 3]
    /\ screenReq \in BOOLEAN /\ srePrev \in BOOLEAN /\ firstAfter \in BOOLEAN
    /\ videoAck \in BOOLEAN
    /\ gap \in 0 .. 3 /\ nth \in Nat
    /\ off \in BOOLEAN /\ steady \in BOOLEAN /\ ours \in BOOLEAN

\* LNCNT counts the blanks that are left, from the last that asked; SRE is
\* remembered until the next asks.
BlanksCounted ==
    /\ off <=> ~srePrev \/ firstAfter
    /\ steady /\ screenReq => gap = 0
    /\ steady /\ ~screenReq /\ ~off => dpyadr.lncnt + gap = lcstrt

\* The field is the even one of two; from the vertical blank on, the next is.
EvenField == ~nil /\ (oddField <=> line > Vsblnk)

Base == IF EvenField THEN Start - (Dudate \div 2) ELSE Start

\* SRFADR has a step for each row asked for, the one on its way aside.
RowsCounted ==
    ours => IF screenReq THEN nth > 0 /\ dpyadr.srf = (Base - (nth - 1) * Dudate) % ScreenRows
            ELSE dpyadr.srf = (Base - nth * Dudate) % ScreenRows

RowInv == DisplayTypeOK /\ BlanksCounted /\ RowsCounted

\* Reset establishes it.
LEMMA InitRowInv == RefreshAssumption /\ ScreenInit => RowInv
<1> SUFFICES ASSUME RefreshAssumption, ScreenInit PROVE RowInv
  OBVIOUS
<1>1. dpyadr \in [srf : 0 .. ScreenRows - 1, lncnt : 0 .. 3]
  BY DEF RefreshAssumption, ScreenInit
<1>2. lcstrt \in 0 .. 3 /\ line \in 0 .. LastLine
  BY DEF RefreshAssumption, ScreenInit
<1>3. DisplayTypeOK
  BY <1>1, <1>2 DEF ScreenInit, DisplayTypeOK
<1>. QED BY <1>3 DEF ScreenInit, RowInv, BlanksCounted, RowsCounted

\* The next line.
LEMMA LineStep ==
  ASSUME RefreshAssumption, NEW l \in 0 .. LastLine
  PROVE  (l + 1) % (LastLine + 1) = IF l = LastLine THEN 0 ELSE l + 1
<1>1. LastLine \in Nat /\ LastLine + 1 \in Nat \ {0}
  BY DEF RefreshAssumption
<1>2. PICK q \in Int, r \in 0 .. (LastLine + 1) - 1 :
         l + 1 = q * (LastLine + 1) + r /\ (l + 1) % (LastLine + 1) = r
  BY <1>1, Division, l + 1 \in Int
<1>3. CASE l = LastLine
  BY <1>1, <1>2, <1>3, 1 * (LastLine + 1) + 0 = l + 1, OneRemainder
<1>4. CASE l # LastLine
  BY <1>1, <1>2, <1>4, 0 * (LastLine + 1) + (l + 1) = l + 1, OneRemainder
<1>. QED BY <1>3, <1>4

\* Every register keeps its range.
LEMMA DisplayTypesStep ==
  ASSUME RefreshAssumption, DisplayTypeOK,
         NEW hblank \in BOOLEAN, NEW load \in Loads \cup {NoScreenLoad}, Video(hblank, load)
  PROVE  DisplayTypeOK'
<1>1. /\ lcstrt' \in 0 .. 3 /\ nil' \in BOOLEAN /\ sre' \in BOOLEAN /\ screenMode' \in ScreenModes
      /\ screenReq' \in BOOLEAN /\ srePrev' \in BOOLEAN /\ firstAfter' \in BOOLEAN
      /\ videoAck' \in BOOLEAN /\ oddField' \in BOOLEAN
  BY DEF DisplayTypeOK, Video, DisplayAddr, VideoSide, Timing, ScreenRequests, Returns
<1>2. /\ gap' \in 0 .. 3 /\ nth' \in Nat
      /\ off' \in BOOLEAN /\ steady' \in BOOLEAN /\ ours' \in BOOLEAN
  BY DEF DisplayTypeOK, Video, History
<1>3. line' \in 0 .. LastLine
  BY LineStep DEF DisplayTypeOK, Video, Timing, RefreshAssumption
<1>4. FrameStart \in 0 .. ScreenRows - 1 /\ (dpyadr.srf - Dudate) % ScreenRows \in 0 .. ScreenRows - 1
  BY DEF DisplayTypeOK, RefreshAssumption, FrameStart
<1>5. (dpyadr.lncnt - 1) % 4 \in 0 .. 3
  BY DEF DisplayTypeOK
<1>6. SrfNext(hblank) \in 0 .. ScreenRows - 1 /\ LncntNext(hblank) \in 0 .. 3
  BY <1>4, <1>5 DEF DisplayTypeOK, SrfNext, LncntNext
<1>7. dpyadr' \in [srf : 0 .. ScreenRows - 1, lncnt : 0 .. 3]
  <2>1. CASE load = NoScreenLoad
    BY <1>6, <2>1 DEF Video, DisplayAddr
  <2>2. CASE load # NoScreenLoad
    BY <2>2 DEF Video, DisplayAddr, RefreshAssumption
  <2>. QED BY <2>1, <2>2
<1>. QED BY <1>1, <1>2, <1>3, <1>7 DEF DisplayTypeOK

\* The blanks are counted from the one that asks, as long as the counter is
\* left alone.
LEMMA BlanksStep ==
  ASSUME RefreshAssumption, RowInv,
         NEW hblank \in BOOLEAN, NEW load \in Loads \cup {NoScreenLoad}, Video(hblank, load)
  PROVE  BlanksCounted'
<1>1. off' <=> ~srePrev' \/ firstAfter'
  BY DEF RowInv, BlanksCounted, DisplayTypeOK, Video, DisplayAddr, History
<1>2. ASSUME steady', screenReq' PROVE gap' = 0
  <2>1. load = NoScreenLoad /\ ~(hblank /\ screenReq)
    BY <1>2 DEF Video, History
  <2>2. CASE ScreenRequests(hblank)
    BY <2>2 DEF Video, History
  <2>3. CASE ~ScreenRequests(hblank)
    <3>1. screenReq /\ ~Retires /\ ~hblank
      BY <1>2, <2>1, <2>3 DEF Video, DisplayAddr
    <3>2. steady /\ gap' = gap
      BY <1>2, <2>3, <3>1 DEF Video, History, Eligible
    <3>. QED BY <3>1, <3>2 DEF RowInv, BlanksCounted
  <2>. QED BY <2>2, <2>3
<1>3. ASSUME steady', ~screenReq', ~off' PROVE dpyadr'.lncnt + gap' = lcstrt'
  <2>1. /\ load = NoScreenLoad /\ ~(hblank /\ screenReq) /\ ~ScreenRequests(hblank)
        /\ lcstrt' = lcstrt /\ dpyadr'.lncnt = LncntNext(hblank)
        /\ sre /\ ~off
    BY <1>3 DEF Video, History, DisplayAddr, Timing
  <2>2. CASE Retires
    <3>1. ~hblank /\ gap' = gap /\ dpyadr'.lncnt = lcstrt
      BY <2>1, <2>2 DEF Video, History, Eligible, LncntNext, Retires
    <3>2. gap = 0
      BY <1>3, <2>2 DEF Video, History, RowInv, BlanksCounted, Retires
    <3>. QED BY <2>1, <3>1, <3>2 DEF RowInv, DisplayTypeOK
  <2>3. CASE ~Retires
    <3>1. ~screenReq /\ steady /\ dpyadr.lncnt + gap = lcstrt
      BY <1>3, <2>1, <2>3 DEF Video, History, DisplayAddr, RowInv, BlanksCounted
    <3>2. CASE Eligible(hblank)
      <4>1. ~FirstActive(hblank) /\ dpyadr.lncnt # 0
        BY <2>1, <3>1, <3>2 DEF ScreenRequests
      <4>2. dpyadr'.lncnt = (dpyadr.lncnt - 1) % 4
        BY <2>1, <2>3, <3>1, <3>2, <4>1 DEF LncntNext
      <4>3. dpyadr'.lncnt = dpyadr.lncnt - 1 /\ gap < 3
        BY <3>1, <4>1, <4>2 DEF RowInv, DisplayTypeOK
      <4>4. gap' = gap + 1
        BY <2>1, <3>2, <4>3 DEF Video, History
      <4>. QED BY <2>1, <3>1, <4>3, <4>4 DEF RowInv, DisplayTypeOK
    <3>3. CASE ~Eligible(hblank)
      <4>1. ~FirstActive(hblank)
        BY <3>3 DEF Eligible, FirstActive, RowInv, DisplayTypeOK, RefreshAssumption
      <4>. QED BY <2>1, <2>3, <3>1, <3>3, <4>1 DEF LncntNext, Video, History
    <3>. QED BY <3>2, <3>3
  <2>. QED BY <2>2, <2>3
<1>. QED BY <1>1, <1>2, <1>3 DEF BlanksCounted

\* The row stays n steps below its field's start.
LEMMA RowsStep ==
  ASSUME RefreshAssumption, RowInv,
         NEW hblank \in BOOLEAN, NEW load \in Loads \cup {NoScreenLoad}, Video(hblank, load)
  PROVE  RowsCounted'
<1> SUFFICES ASSUME ours' PROVE RowsCounted'
  BY DEF RowsCounted
<1>1. /\ load = NoScreenLoad /\ ~(hblank /\ screenReq) /\ (ours \/ FrameBlank(hblank))
      /\ dpyadr'.srf = SrfNext(hblank) /\ nil' = nil
  BY DEF Video, History, DisplayAddr, Timing
<1>2. /\ Vsblnk \in Nat /\ LastLine \in Nat /\ Vsblnk <= LastLine /\ ScreenRows \in Nat \ {0}
      /\ line \in 0 .. LastLine /\ nth \in Nat /\ Dudate \in Nat /\ Start \in Int
      /\ oddField \in BOOLEAN /\ nil \in BOOLEAN
  BY DEF RefreshAssumption, RowInv, DisplayTypeOK
<1>3. Dudate \div 2 \in Int /\ Base \in Int
  BY <1>2 DEF Base
<1>4. hblank => line' = IF line = LastLine THEN 0 ELSE line + 1
  BY <1>2, LineStep DEF Video, Timing
<1>5. ~hblank => line' = line /\ oddField' = oddField
  BY DEF Video, Timing
<1>6. hblank => IF line = LastLine THEN oddField' <=> ~nil /\ ~oddField ELSE oddField' = oddField
  BY DEF Video, Timing
<1>7. CASE FrameBlank(hblank)
  <2>1. hblank /\ line = Vsblnk /\ ~screenReq
    BY <1>1, <1>7 DEF FrameBlank
  <2>2. ~ScreenRequests(hblank) /\ nth' = 0 /\ ~screenReq'
    <3>1. ~Eligible(hblank)
      BY <1>2, <2>1 DEF Eligible, RefreshAssumption
    <3>. QED BY <1>7, <2>1, <3>1 DEF ScreenRequests, Video, History, DisplayAddr
  <2>3. dpyadr'.srf = FrameStart
    BY <1>1, <1>7 DEF SrfNext
  <2>4. FrameStart = Base' % ScreenRows
    <3>1. EvenField' <=> ~nil /\ oddField
      <4>1. CASE Vsblnk = LastLine
        BY <1>1, <1>2, <1>4, <1>6, <2>1, <4>1 DEF EvenField
      <4>2. CASE Vsblnk # LastLine
        BY <1>1, <1>2, <1>4, <1>6, <2>1, <4>2 DEF EvenField
      <4>. QED BY <4>1, <4>2
    <3>2. Base' = IF EvenField' THEN Start - (Dudate \div 2) ELSE Start
      BY DEF Base
    <3>. QED BY <1>2, <1>3, <3>1, <3>2 DEF FrameStart
  <2>5. nth' * Dudate = 0 /\ Base' \in Int
    BY <1>2, <1>3, <2>2 DEF Base
  <2>6. Base' - nth' * Dudate = Base'
    BY <2>5
  <2>. QED BY <2>2, <2>3, <2>4, <2>6 DEF RowsCounted
<1>8. CASE ~FrameBlank(hblank)
  <2>1. Base' = Base
    <3>1. CASE hblank
      <4>1. line # Vsblnk
        BY <1>8, <3>1 DEF FrameBlank
      <4>2. EvenField' <=> EvenField
        <5>1. CASE line = LastLine
          BY <1>1, <1>2, <1>4, <1>6, <3>1, <4>1, <5>1 DEF EvenField
        <5>2. CASE line # LastLine
          BY <1>1, <1>2, <1>4, <1>6, <3>1, <4>1, <5>2 DEF EvenField
        <5>. QED BY <5>1, <5>2
      <4>. QED BY <4>2 DEF Base
    <3>2. CASE ~hblank
      BY <1>1, <1>5, <3>2 DEF Base, EvenField
    <3>. QED BY <3>1, <3>2
  <2>2. CASE ScreenRequests(hblank)
    <3>1. ~screenReq /\ screenReq' /\ nth' = nth + 1 /\ dpyadr'.srf = dpyadr.srf
      BY <1>1, <1>8, <2>2 DEF ScreenRequests, Video, History, DisplayAddr, SrfNext, Retires
    <3>2. dpyadr.srf = (Base - nth * Dudate) % ScreenRows
      BY <1>1, <1>8, <3>1 DEF RowInv, RowsCounted
    <3>3. nth' - 1 = nth /\ nth' > 0
      BY <1>2, <3>1
    <3>. QED BY <2>1, <3>1, <3>2, <3>3 DEF RowsCounted
  <2>3. CASE ~ScreenRequests(hblank)
    <3>1. nth' = nth /\ (screenReq' <=> screenReq /\ ~Retires)
      BY <1>8, <2>3 DEF Video, History, DisplayAddr
    <3>2. CASE Retires
      <4>1. screenReq /\ ~screenReq' /\ dpyadr'.srf = (dpyadr.srf - Dudate) % ScreenRows
        BY <1>1, <1>8, <3>1, <3>2 DEF SrfNext, Retires
      <4>2. nth > 0 /\ dpyadr.srf = (Base - (nth - 1) * Dudate) % ScreenRows
        BY <1>1, <1>8, <4>1 DEF RowInv, RowsCounted
      <4>3. PICK b \in Int : b = Base - (nth - 1) * Dudate
        BY <1>2, <1>3
      <4>4. dpyadr'.srf = (b - Dudate) % ScreenRows
        BY <1>2, <4>1, <4>2, <4>3, Remainder
      <4>5. b - Dudate = Base - nth * Dudate
        BY <1>2, <1>3, <4>3
      <4>. QED BY <2>1, <3>1, <4>1, <4>4, <4>5 DEF RowsCounted
    <3>3. CASE ~Retires
      <4>1. dpyadr'.srf = dpyadr.srf /\ (screenReq' <=> screenReq)
        BY <1>1, <1>8, <3>1, <3>3 DEF SrfNext
      <4>. QED BY <1>1, <1>8, <2>1, <3>1, <4>1 DEF RowInv, RowsCounted
    <3>. QED BY <3>2, <3>3
  <2>. QED BY <2>2, <2>3
<1>. QED BY <1>7, <1>8

\* Every step keeps the invariant.
LEMMA StepRowInv == RefreshAssumption /\ RowInv /\ [ScreenNext]_screenVars => RowInv'
<1> SUFFICES ASSUME RefreshAssumption, RowInv, [ScreenNext]_screenVars PROVE RowInv'
  OBVIOUS
<1>1. ASSUME VideoIdle PROVE RowInv'
  BY <1>1 DEF VideoIdle, program, display, videoSide, history, RowInv, DisplayTypeOK,
     BlanksCounted, RowsCounted, Base, EvenField
<1>2. ASSUME NEW hblank \in BOOLEAN, NEW load \in Loads \cup {NoScreenLoad}, Video(hblank, load)
      PROVE  RowInv'
  BY <1>2, DisplayTypesStep, BlanksStep, RowsStep DEF RowInv
<1>3. CASE ScreenNext
  BY <1>1, <1>2, <1>3 DEF ScreenNext, VideoEdge, ScreenCoreEdge
<1>4. CASE UNCHANGED screenVars
  BY <1>1, <1>4 DEF screenVars, VideoIdle
<1>. QED BY <1>3, <1>4

\* The screen is refreshed row by row: for every programming of the display and
\* every row of the memory, a blank asks when LNCNT says so, and for the row
\* that comes next.
THEOREM EveryRowShown == RefreshAssumption => (ScreenSpec => RowByRow)
<1> SUFFICES ASSUME RefreshAssumption PROVE ScreenSpec => RowByRow
  OBVIOUS
<1>. DEFINE Step == /\ line' # line /\ Eligible(TRUE) /\ ~screenReq /\ sre /\ steady
                         => (screenReq' <=> FirstActive(TRUE) \/ off \/ gap = lcstrt)
                    /\ ~screenReq /\ screenReq' /\ ours
                         => request'.srf = (FieldStart - nth * Dudate) % ScreenRows
<1>1. ASSUME RowInv, NEW hblank \in BOOLEAN, NEW load \in Loads \cup {NoScreenLoad},
             Video(hblank, load)
      PROVE  Step
  <2>1. ASSUME line' # line, Eligible(TRUE), ~screenReq, sre, steady
        PROVE  screenReq' <=> FirstActive(TRUE) \/ off \/ gap = lcstrt
    <3>1. hblank = TRUE
      BY <1>1, <2>1 DEF Video, Timing
    <3>2. screenReq' <=> FirstActive(TRUE) \/ firstAfter \/ ~srePrev \/ dpyadr.lncnt = 0
      BY <1>1, <2>1, <3>1 DEF Video, DisplayAddr, ScreenRequests
    <3>3. ~off => (dpyadr.lncnt = 0 <=> gap = lcstrt)
      BY <1>1, <2>1 DEF RowInv, BlanksCounted, DisplayTypeOK
    <3>. QED BY <1>1, <3>2, <3>3 DEF RowInv, BlanksCounted
  <2>2. ASSUME ~screenReq, screenReq', ours
        PROVE  request'.srf = (FieldStart - nth * Dudate) % ScreenRows
    <3>1. ScreenRequests(hblank) /\ request'.srf = dpyadr.srf
      BY <1>1, <2>2 DEF Video, DisplayAddr
    <3>2. EvenField <=> ~nil /\ ~oddField
      BY <1>1, <3>1 DEF ScreenRequests, Eligible, EvenField, RowInv, DisplayTypeOK, RefreshAssumption
    <3>3. PICK b \in Int : b = Base
      <4>1. Start \in Int /\ Dudate \div 2 \in Int
        BY DEF RefreshAssumption
      <4>. QED BY <4>1 DEF Base
    <3>4. FieldStart = b % ScreenRows
      BY <3>2, <3>3 DEF Base, FieldStart, RefreshAssumption
    <3>5. ((b % ScreenRows) - nth * Dudate) % ScreenRows = (b - nth * Dudate) % ScreenRows
      <4>1. nth * Dudate \in Int
        BY <1>1 DEF RowInv, DisplayTypeOK, RefreshAssumption
      <4>. QED BY <4>1, Remainder DEF RefreshAssumption
    <3>. QED BY <1>1, <2>2, <3>1, <3>3, <3>4, <3>5 DEF RowInv, RowsCounted
  <2>. QED BY <2>1, <2>2
<1>2. ASSUME RowInv, [ScreenNext]_screenVars PROVE [Step]_screenVars
  <2>1. CASE VideoIdle
    BY <2>1 DEF VideoIdle, program, display
  <2>2. CASE \E hblank \in BOOLEAN, load \in Loads \cup {NoScreenLoad} : Video(hblank, load)
    BY <1>1, <1>2, <2>2
  <2>. QED BY <1>2, <2>1, <2>2 DEF ScreenNext, VideoEdge, ScreenCoreEdge
<1>3. ScreenSpec => []RowInv
  BY InitRowInv, StepRowInv, PTL DEF ScreenSpec
<1>. QED BY <1>2, <1>3, PTL DEF ScreenSpec, RowByRow

-----------------------------------------------------------------------------
(* A request on its way.                                                    *)

CrossingTypeOK ==
    /\ screenArmed \in BOOLEAN /\ screenOutstanding \in BOOLEAN /\ coreReq \in BOOLEAN
    /\ screenToggle \in BOOLEAN /\ screenSeen \in BOOLEAN /\ screenAckToggle \in BOOLEAN
    /\ screenAckSync \in BOOLEAN \X BOOLEAN /\ screenReqSync \in BOOLEAN \X BOOLEAN

\* The toggle goes through both synchronizers as one change, which the core side
\* holds up while the bus has not made the cycle.
ToggleInLine ==
    /\ screenReqSync[1] # screenToggle => screenReqSync[2] = screenReqSync[1]
    /\ screenReqSync[2] # screenToggle => screenSeen = screenReqSync[2]
    /\ screenSeen # screenToggle => screenAckToggle = screenSeen
    /\ screenAckToggle # screenToggle => screenAckSync[1] = screenAckToggle
    /\ screenAckSync[1] # screenToggle => screenAckSync[2] = screenAckSync[1]
    /\ coreReq <=> screenSeen # screenAckToggle

\* A request held is not taken yet, or away, or back.
Held ==
    /\ ~screenOutstanding => screenAckSync[2] = screenToggle
    /\ screenOutstanding => screenReq /\ ~screenArmed /\ ~videoAck
    /\ videoAck => screenReq /\ ~screenArmed
    /\ screenReq /\ ~screenOutstanding /\ ~videoAck => screenArmed

\* The copies of the request that somebody may still look at.
RequestKept ==
    /\ screenReq => request \in Commands
    /\ screenOutstanding => payload = request
    /\ screenOutstanding /\ screenSeen = screenToggle => corePayload = request
    /\ videoAck => corePayload = request

CallInv == CrossingTypeOK /\ ToggleInLine /\ Held /\ RequestKept

\* Reset establishes it.
LEMMA InitCallInv == ScreenInit => CallInv
<1> SUFFICES ASSUME ScreenInit PROVE CallInv
  OBVIOUS
<1>1. screenAckSync = <<FALSE, FALSE>> /\ screenReqSync = <<FALSE, FALSE>>
  BY DEF ScreenInit, SyncReset
<1>2. CrossingTypeOK
  <2>1. screenAckSync \in BOOLEAN \X BOOLEAN /\ screenReqSync \in BOOLEAN \X BOOLEAN
    BY <1>1
  <2>2. /\ screenArmed = TRUE /\ screenOutstanding = FALSE /\ coreReq = FALSE /\ videoAck = FALSE
        /\ screenToggle = FALSE /\ screenSeen = FALSE /\ screenAckToggle = FALSE /\ screenReq = FALSE
    BY DEF ScreenInit
  <2>. QED BY <2>1, <2>2 DEF CrossingTypeOK
<1>3. ToggleInLine /\ Held
  <2>1. /\ screenAckSync[1] = FALSE /\ screenAckSync[2] = FALSE
        /\ screenReqSync[1] = FALSE /\ screenReqSync[2] = FALSE
    BY <1>1
  <2>2. /\ screenArmed = TRUE /\ screenOutstanding = FALSE /\ coreReq = FALSE /\ videoAck = FALSE
        /\ screenToggle = FALSE /\ screenSeen = FALSE /\ screenAckToggle = FALSE /\ screenReq = FALSE
    BY DEF ScreenInit
  <2>. QED BY <2>1, <2>2 DEF ToggleInLine, Held
<1>. QED BY <1>2, <1>3 DEF ScreenInit, CallInv, RequestKept

\* The toggle's place, as one of seven.
LEMMA ToggleFacts ==
  ASSUME CrossingTypeOK, ToggleInLine
  PROVE  /\ \/ screenAckSync[2] # screenToggle
            \/ /\ screenAckSync[1] = screenToggle /\ screenAckToggle = screenToggle
               /\ screenSeen = screenToggle /\ screenReqSync[2] = screenToggle
               /\ screenReqSync[1] = screenToggle /\ ~coreReq
         /\ screenAckToggle = screenToggle =>
               screenSeen = screenToggle /\ screenReqSync[2] = screenToggle /\ ~coreReq
         /\ coreReq => screenSeen = screenToggle /\ screenAckToggle # screenToggle
BY DEF CrossingTypeOK, ToggleInLine

-----------------------------------------------------------------------------
(* What an edge of a clock does to the request.                             *)

VideoEdges ==
    VideoIdle \/ \E hblank \in BOOLEAN, load \in Loads \cup {NoScreenLoad} : Video(hblank, load)
CoreEdges  == CoreIdle \/ \E ack \in BOOLEAN : ScreenCore(ack)

AckSyncs == screenAckSync' = screenAckSync \/ screenAckSync' = <<screenAckToggle, screenAckSync[1]>>
ReqSyncs == screenReqSync' = screenReqSync \/ screenReqSync' = <<screenToggle, screenReqSync[1]>>

\* A blank asks, and the request is not taken before the next clock.
Asked ==
    /\ ~screenReq /\ screenReq' /\ request' \in Commands
    /\ screenArmed' /\ ~screenOutstanding /\ ~screenOutstanding' /\ ~videoAck /\ ~videoAck'
    /\ UNCHANGED <<payload, screenToggle>>

Left ==
    /\ screenReq /\ screenReq' /\ request' = request /\ payload' = request
    /\ screenToggle' = ~screenToggle
    /\ ~screenArmed' /\ ~screenOutstanding /\ screenOutstanding' /\ ~videoAck /\ ~videoAck'

Returned ==
    /\ screenOutstanding /\ screenAckSync[2] = screenToggle /\ ~screenOutstanding'
    /\ screenReq /\ screenReq' /\ request' = request
    /\ ~screenArmed' /\ ~videoAck /\ videoAck'
    /\ UNCHANGED <<payload, screenToggle>>

Retired ==
    /\ videoAck /\ ~videoAck' /\ screenReq /\ ~screenReq'
    /\ ~screenOutstanding /\ ~screenOutstanding'
    /\ UNCHANGED <<payload, screenToggle>>

VideoWaits ==
    /\ screenReq' = screenReq /\ (screenReq => request' = request /\ screenArmed' = screenArmed)
    /\ UNCHANGED <<payload, screenToggle, screenOutstanding, videoAck>>

Accepted ==
    /\ ~coreReq /\ screenReqSync[2] # screenSeen
    /\ coreReq' /\ corePayload' = payload /\ screenSeen' = screenReqSync[2]
    /\ UNCHANGED screenAckToggle

Served ==
    /\ coreReq /\ ~coreReq' /\ screenAckToggle' = screenSeen
    /\ UNCHANGED <<corePayload, screenSeen>>

CoreWaits == UNCHANGED <<coreReq, corePayload, screenSeen, screenAckToggle>>

\* The video side does one of five things.
LEMMA VideoMoves ==
  ASSUME RefreshAssumption, DisplayTypeOK, CallInv, VideoEdges
  PROVE  AckSyncs /\ (Asked \/ Left \/ Returned \/ Retired \/ VideoWaits)
<1>1. CASE VideoIdle
  BY <1>1 DEF VideoIdle, display, videoSide, AckSyncs, VideoWaits
<1>2. CASE \E hblank \in BOOLEAN, load \in Loads \cup {NoScreenLoad} : Video(hblank, load)
  <2>1. PICK hblank \in BOOLEAN, load \in Loads \cup {NoScreenLoad} : Video(hblank, load)
    BY <1>2
  <2>2. /\ screenReq' <=> ScreenRequests(hblank) \/ (screenReq /\ ~Retires)
        /\ request' = IF ScreenRequests(hblank) THEN [srf |-> dpyadr.srf, mode |-> screenMode] ELSE request
        /\ videoAck' <=> Returns
        /\ screenArmed' <=> ~Takes /\ (screenArmed \/ ~screenReq)
        /\ screenOutstanding' <=> Takes \/ (screenOutstanding /\ ~Returns)
        /\ payload' = IF Takes THEN request ELSE payload
    BY <2>1 DEF Video, DisplayAddr, VideoSide
  <2>3. /\ Takes => screenToggle' = ~screenToggle
        /\ ~Takes => screenToggle' = screenToggle
    BY <2>1 DEF Video, VideoSide, CallInv, CrossingTypeOK, Takes
  <2>4. screenAckSync' = <<screenAckToggle, screenAckSync[1]>>
    BY <2>1 DEF Video, VideoSide, SyncEdge
  <2>5. /\ screenReq \in BOOLEAN /\ videoAck \in BOOLEAN /\ screenReq' \in BOOLEAN
        /\ videoAck' \in BOOLEAN /\ screenOutstanding' \in BOOLEAN /\ screenArmed' \in BOOLEAN
        /\ screenOutstanding \in BOOLEAN /\ screenArmed \in BOOLEAN
    <3>1. screenReq' \in BOOLEAN /\ videoAck' \in BOOLEAN
      BY <2>1 DEF Video, DisplayAddr, VideoSide, Returns
    <3>2. screenOutstanding' \in BOOLEAN /\ screenArmed' \in BOOLEAN
      BY <2>1 DEF Video, VideoSide
    <3>. QED BY <3>1, <3>2 DEF DisplayTypeOK, CallInv, CrossingTypeOK
  <2>6. ScreenRequests(hblank) => ~screenReq /\ request' \in Commands
    BY <2>1, <2>2 DEF ScreenRequests, Commands, DisplayTypeOK
  <2>7. ScreenRequests(hblank) => Asked
    BY <2>2, <2>3, <2>5, <2>6 DEF Asked, Takes, Returns, CallInv, Held
  <2>8. Takes => Left
    BY <2>2, <2>3, <2>5, <2>6 DEF Left, Takes, Returns, Retires, CallInv, Held
  <2>9. Returns => Returned
    BY <2>2, <2>3, <2>5, <2>6 DEF Returned, Takes, Returns, Synced, Retires, CallInv, Held
  <2>10. Retires => Retired
    BY <2>2, <2>3, <2>5, <2>6 DEF Retired, Takes, Returns, Retires, CallInv, Held
  <2>11. ~ScreenRequests(hblank) /\ ~Takes /\ ~Returns /\ ~Retires => VideoWaits
    BY <2>2, <2>3, <2>5 DEF VideoWaits, Retires, CallInv, Held
  <2>12. Asked \/ Left \/ Returned \/ Retired \/ VideoWaits
    BY <2>7, <2>8, <2>9, <2>10, <2>11
  <2>. QED BY <2>4, <2>12 DEF AckSyncs
<1>. QED BY <1>1, <1>2 DEF VideoEdges

\* The core side does one of three.
LEMMA CoreMoves ==
  ASSUME CallInv, CoreEdges
  PROVE  ReqSyncs /\ (Accepted \/ Served \/ CoreWaits)
<1>1. CASE CoreIdle
  BY <1>1 DEF CoreIdle, coreSide, ReqSyncs, CoreWaits
<1>2. CASE \E ack \in BOOLEAN : ScreenCore(ack)
  <2>1. PICK ack \in BOOLEAN : ScreenCore(ack)
    BY <1>2
  <2>2. screenReqSync' = <<screenToggle, screenReqSync[1]>>
    BY <2>1 DEF ScreenCore, CoreSide, SyncEdge
  <2>3. coreReq \in BOOLEAN /\ coreReq' \in BOOLEAN
    BY <2>1 DEF ScreenCore, CoreSide, CallInv, CrossingTypeOK
  <2>4. Arrives => Accepted
    BY <2>1 DEF ScreenCore, CoreSide, Arrives, Synced, Accepted
  <2>5. coreReq /\ ack => Served
    BY <2>1 DEF ScreenCore, CoreSide, Arrives, Served
  <2>6. ~Arrives /\ ~(coreReq /\ ack) => CoreWaits
    BY <2>1, <2>3 DEF ScreenCore, CoreSide, CoreWaits
  <2>. QED BY <2>2, <2>4, <2>5, <2>6 DEF ReqSyncs
<1>. QED BY <1>1, <1>2 DEF CoreEdges

\* A step is an edge of either clock or of both.
LEMMA BothSides ==
  ASSUME RefreshAssumption, DisplayTypeOK, CallInv, [ScreenNext]_screenVars
  PROVE  /\ AckSyncs /\ (Asked \/ Left \/ Returned \/ Retired \/ VideoWaits)
         /\ ReqSyncs /\ (Accepted \/ Served \/ CoreWaits)
<1>1. CASE ScreenNext
  <2>1. VideoEdges /\ CoreEdges
    BY <1>1 DEF ScreenNext, VideoEdge, ScreenCoreEdge, VideoEdges, CoreEdges
  <2>. QED BY <2>1, VideoMoves, CoreMoves
<1>2. CASE UNCHANGED screenVars
  <2>1. VideoEdges /\ CoreEdges
    BY <1>2 DEF screenVars, VideoEdges, CoreEdges, VideoIdle, CoreIdle
  <2>. QED BY <2>1, VideoMoves, CoreMoves
<1>. QED BY <1>1, <1>2

\* Every register of the crossing keeps its range.
LEMMA CrossingTypesStep ==
  ASSUME CallInv, [ScreenNext]_screenVars
  PROVE  CrossingTypeOK'
<1>1. CrossingTypeOK
  BY DEF CallInv
<1>2. ASSUME NEW hblank \in BOOLEAN, NEW load \in Loads \cup {NoScreenLoad}, Video(hblank, load)
      PROVE  /\ screenArmed' \in BOOLEAN /\ screenOutstanding' \in BOOLEAN /\ screenToggle' \in BOOLEAN
             /\ screenAckSync' \in BOOLEAN \X BOOLEAN
  BY <1>1, <1>2 DEF CrossingTypeOK, Video, VideoSide, SyncEdge
<1>3. ASSUME NEW ack \in BOOLEAN, ScreenCore(ack)
      PROVE  /\ coreReq' \in BOOLEAN /\ screenSeen' \in BOOLEAN /\ screenAckToggle' \in BOOLEAN
             /\ screenReqSync' \in BOOLEAN \X BOOLEAN
  <2>1. coreReq' \in BOOLEAN
    BY <1>3 DEF ScreenCore, CoreSide
  <2>2. Synced(screenReqSync) \in BOOLEAN /\ screenSeen \in BOOLEAN /\ screenAckToggle \in BOOLEAN
    BY <1>1 DEF CrossingTypeOK, Synced
  <2>3. screenSeen' \in BOOLEAN /\ screenAckToggle' \in BOOLEAN
    BY <1>3, <2>2 DEF ScreenCore, CoreSide
  <2>4. screenReqSync' \in BOOLEAN \X BOOLEAN
    BY <1>1, <1>3 DEF CrossingTypeOK, ScreenCore, CoreSide, SyncEdge
  <2>. QED BY <2>1, <2>3, <2>4
<1>4. VideoIdle => /\ screenArmed' \in BOOLEAN /\ screenOutstanding' \in BOOLEAN /\ screenToggle' \in BOOLEAN
                   /\ screenAckSync' \in BOOLEAN \X BOOLEAN
  BY <1>1 DEF VideoIdle, videoSide, CrossingTypeOK
<1>5. CoreIdle => /\ coreReq' \in BOOLEAN /\ screenSeen' \in BOOLEAN /\ screenAckToggle' \in BOOLEAN
                  /\ screenReqSync' \in BOOLEAN \X BOOLEAN
  BY <1>1 DEF CoreIdle, coreSide, CrossingTypeOK
<1>6. CASE ScreenNext
  <2>1. VideoEdges /\ CoreEdges
    BY <1>6 DEF ScreenNext, VideoEdge, ScreenCoreEdge, VideoEdges, CoreEdges
  <2>. QED BY <1>2, <1>3, <1>4, <1>5, <2>1 DEF CrossingTypeOK, VideoEdges, CoreEdges
<1>7. CASE UNCHANGED screenVars
  BY <1>1, <1>7 DEF screenVars, videoSide, coreSide, CrossingTypeOK
<1>. QED BY <1>6, <1>7

\* An edge of either side keeps the toggle's line.
LEMMA ToggleStep ==
  ASSUME CallInv, CrossingTypeOK',
         AckSyncs, Asked \/ Left \/ Returned \/ Retired \/ VideoWaits,
         ReqSyncs, Accepted \/ Served \/ CoreWaits
  PROVE  ToggleInLine'
<1>. USE DEF CallInv
<1>1. /\ \/ screenAckSync' = screenAckSync
         \/ screenAckSync'[1] = screenAckToggle /\ screenAckSync'[2] = screenAckSync[1]
      /\ \/ screenReqSync' = screenReqSync
         \/ screenReqSync'[1] = screenToggle /\ screenReqSync'[2] = screenReqSync[1]
  BY DEF AckSyncs, ReqSyncs
<1>2. CASE Left
  <2>1. screenAckSync[2] = screenToggle
    BY <1>2 DEF Left, Held
  <2>2. CoreWaits
    BY <2>1, ToggleFacts DEF Accepted, Served
  <2>3. /\ screenAckSync'[1] = screenToggle /\ screenAckSync'[2] = screenToggle
        /\ screenReqSync'[1] = screenToggle /\ screenReqSync'[2] = screenToggle
    BY <1>1, <2>1, ToggleFacts
  <2>. QED BY <1>2, <2>1, <2>2, <2>3, ToggleFacts DEF Left, CoreWaits, ToggleInLine, CrossingTypeOK
<1>3. CASE ~Left
  <2>1. screenToggle' = screenToggle
    BY <1>3 DEF Asked, Returned, Retired, VideoWaits
  <2>2. CASE Accepted
    BY <1>1, <2>1, <2>2, ToggleFacts DEF Accepted, ToggleInLine, CrossingTypeOK
  <2>3. CASE Served
    BY <1>1, <2>1, <2>3, ToggleFacts DEF Served, ToggleInLine, CrossingTypeOK
  <2>4. CASE CoreWaits
    BY <1>1, <2>1, <2>4, ToggleFacts DEF CoreWaits, ToggleInLine, CrossingTypeOK
  <2>. QED BY <2>2, <2>3, <2>4
<1>. QED BY <1>2, <1>3

\* It stays held while it is away.
LEMMA HeldStep ==
  ASSUME CallInv, AckSyncs, Asked \/ Left \/ Returned \/ Retired \/ VideoWaits
  PROVE  Held'
<1>. USE DEF CallInv
<1>1. screenAckSync[2] = screenToggle => screenAckSync'[2] = screenToggle
  BY ToggleFacts DEF AckSyncs
<1>2. CASE Asked
  BY <1>1, <1>2 DEF Asked, Held
<1>3. CASE Left
  BY <1>1, <1>3 DEF Left, Held
<1>4. CASE Returned
  BY <1>1, <1>4 DEF Returned, Held
<1>5. CASE Retired
  BY <1>1, <1>5 DEF Retired, Held
<1>6. CASE VideoWaits
  BY <1>1, <1>6 DEF VideoWaits, Held
<1>. QED BY <1>2, <1>3, <1>4, <1>5, <1>6

\* And what it carries is kept.
LEMMA KeptStep ==
  ASSUME CallInv, Asked \/ Left \/ Returned \/ Retired \/ VideoWaits,
         Accepted \/ Served \/ CoreWaits
  PROVE  RequestKept'
<1>. USE DEF CallInv
<1>1. Accepted => screenOutstanding /\ screenSeen # screenToggle /\ screenSeen' = screenToggle
  BY ToggleFacts DEF Accepted, Held, CrossingTypeOK, ToggleInLine
<1>2. Served => screenOutstanding /\ screenSeen' = screenSeen /\ corePayload' = corePayload
  BY ToggleFacts DEF Served, Held
<1>3. CASE Asked
  BY <1>3 DEF Asked, RequestKept
<1>4. CASE Left
  <2>1. CoreWaits /\ screenSeen = screenToggle
    BY <1>1, <1>2, <1>4, ToggleFacts DEF Left, Held
  <2>2. screenSeen' # screenToggle'
    BY <1>4, <2>1 DEF Left, CoreWaits, CrossingTypeOK
  <2>. QED BY <1>4, <2>2 DEF Left, RequestKept
<1>5. CASE Returned
  <2>1. CoreWaits /\ screenSeen = screenToggle
    BY <1>5, ToggleFacts DEF Returned, Accepted, Served
  <2>. QED BY <1>5, <2>1 DEF Returned, CoreWaits, RequestKept
<1>6. CASE Retired
  BY <1>6 DEF Retired, RequestKept
<1>7. CASE VideoWaits
  <2>1. CASE Accepted
    BY <1>1, <1>7, <2>1 DEF VideoWaits, Accepted, RequestKept, Held
  <2>2. CASE ~Accepted
    <3>1. screenSeen' = screenSeen /\ corePayload' = corePayload
      BY <2>2 DEF Served, CoreWaits
    <3>. QED BY <1>7, <3>1 DEF VideoWaits, RequestKept, Held
  <2>. QED BY <2>1, <2>2
<1>. QED BY <1>3, <1>4, <1>5, <1>6, <1>7

\* Every step keeps the invariant.
LEMMA StepCallInv == RefreshAssumption /\ RowInv /\ CallInv /\ [ScreenNext]_screenVars => CallInv'
<1> SUFFICES ASSUME RefreshAssumption, RowInv, CallInv, [ScreenNext]_screenVars PROVE CallInv'
  OBVIOUS
<1>1. /\ AckSyncs /\ (Asked \/ Left \/ Returned \/ Retired \/ VideoWaits)
      /\ ReqSyncs /\ (Accepted \/ Served \/ CoreWaits)
  BY BothSides DEF RowInv
<1>2. CrossingTypeOK'
  BY CrossingTypesStep
<1>. QED BY <1>1, <1>2, ToggleStep, HeldStep, KeptStep DEF CallInv

-----------------------------------------------------------------------------
(* The remote call.                                                         *)

Carried == CASE ScreenStage = "idle" -> "none"
             [] ScreenStage = "asked" -> request
             [] OTHER -> corePayload

Reply == IF ScreenStage \in {"served", "returned"} THEN "done" ELSE "no data"

\* How far a request has come.
Progress ==
    /\ ~screenReq => ScreenStage = "idle" /\ ~coreReq /\ ~screenOutstanding /\ ~videoAck
    /\ coreReq => ScreenStage = "serving" /\ screenReq /\ screenOutstanding
    /\ videoAck => ScreenStage = "returned" /\ ~coreReq
    /\ screenOutstanding /\ screenAckToggle = screenToggle => ScreenStage = "served" /\ ~coreReq
    /\ screenReq /\ ~coreReq /\ ~videoAck /\ ~(screenOutstanding /\ screenAckToggle = screenToggle)
         => ScreenStage = "asked"

LEMMA ProgressHolds == CallInv => Progress
<1> SUFFICES ASSUME CallInv PROVE Progress
  OBVIOUS
<1>1. ~screenOutstanding => ~coreReq
  BY ToggleFacts DEF CallInv, Held
<1>2. screenAckToggle = screenToggle => ~coreReq
  BY ToggleFacts DEF CallInv
<1>3. screenOutstanding => screenReq /\ ~videoAck
  BY DEF CallInv, Held
<1>4. videoAck => screenReq /\ ~screenOutstanding
  BY <1>3 DEF CallInv, Held
<1>. QED BY <1>1, <1>2, <1>3, <1>4 DEF Progress, ScreenStage

LEMMA ProgressNext == CallInv' => Progress'
BY ProgressHolds, PTL

\* A step is a step of the call, or none.
LEMMA CallSteps ==
  ASSUME CallInv, CallInv',
         Asked \/ Left \/ Returned \/ Retired \/ VideoWaits,
         Accepted \/ Served \/ CoreWaits
  PROVE  \/ ScreenStage = "idle" /\ ScreenStage' = "asked" /\ request' \in Commands
         \/ ScreenStage = "asked" /\ ScreenStage' = "serving" /\ corePayload' = request
         \/ ScreenStage = "serving" /\ ScreenStage' = "served" /\ UNCHANGED corePayload
         \/ ScreenStage = "served" /\ ScreenStage' = "returned" /\ UNCHANGED corePayload
         \/ ScreenStage = "returned" /\ ScreenStage' = "idle"
         \/ /\ UNCHANGED ScreenStage
            /\ ScreenStage = "asked" => UNCHANGED request
            /\ ScreenStage \in {"serving", "served", "returned"} => UNCHANGED corePayload
<1>1. Progress /\ Progress'
  BY ProgressHolds, ProgressNext
<1>2. screenAckSync[2] = screenToggle => CoreWaits
  BY ToggleFacts DEF CallInv, Accepted, Served
<1>3. ~screenOutstanding => CoreWaits
  BY <1>2 DEF CallInv, Held
<1>4. CASE Asked
  <2>1. ScreenStage = "idle" /\ CoreWaits /\ ~coreReq
    BY <1>1, <1>3, <1>4 DEF Asked, Progress
  <2>2. ScreenStage' = "asked"
    BY <1>1, <1>4, <2>1 DEF Asked, Progress, CoreWaits
  <2>. QED BY <1>4, <2>1, <2>2 DEF Asked
<1>5. CASE Left
  <2>1. ScreenStage = "asked" /\ CoreWaits /\ ~coreReq /\ screenAckToggle = screenToggle
    <3>1. screenAckToggle = screenToggle /\ ~coreReq
      BY <1>5, ToggleFacts DEF Left, CallInv, Held
    <3>. QED BY <1>1, <1>3, <1>5, <3>1 DEF Left, Progress
  <2>2. screenAckToggle' # screenToggle'
    BY <1>5, <2>1 DEF Left, CoreWaits, CallInv, CrossingTypeOK
  <2>3. ScreenStage' = "asked"
    BY <1>1, <1>5, <2>1, <2>2 DEF Left, Progress, CoreWaits
  <2>. QED BY <1>5, <2>1, <2>3 DEF Left
<1>6. CASE Returned
  <2>1. screenAckToggle = screenToggle /\ CoreWaits
    BY <1>2, <1>6, ToggleFacts DEF Returned, CallInv
  <2>. QED BY <1>1, <1>6, <2>1 DEF Returned, Progress, CoreWaits
<1>7. CASE Retired
  BY <1>1, <1>7 DEF Retired, Progress
<1>8. CASE VideoWaits
  <2>1. CASE Accepted
    <3>1. screenOutstanding /\ screenAckToggle # screenToggle /\ ~videoAck /\ screenReq
      BY <1>3, <2>1, ToggleFacts DEF Accepted, CoreWaits, CallInv, Held, ToggleInLine
    <3>2. ScreenStage = "asked" /\ ScreenStage' = "serving"
      BY <1>1, <2>1, <3>1 DEF Accepted, Progress
    <3>3. corePayload' = request
      BY <2>1, <3>1 DEF Accepted, CallInv, RequestKept
    <3>. QED BY <3>2, <3>3
  <2>2. CASE Served
    <3>1. ScreenStage = "serving" /\ screenOutstanding' /\ screenAckToggle' = screenToggle'
      BY <1>1, <1>8, <2>2, ToggleFacts DEF Served, VideoWaits, Progress, CallInv
    <3>. QED BY <1>1, <2>2, <3>1 DEF Served, Progress
  <2>3. CASE CoreWaits
    <3>1. ScreenStage' = ScreenStage
      BY <1>1, <1>8, <2>3 DEF VideoWaits, CoreWaits, Progress
    <3>2. ScreenStage = "asked" => UNCHANGED request
      BY <1>1, <1>8 DEF VideoWaits, Progress
    <3>. QED BY <2>3, <3>1, <3>2 DEF CoreWaits
  <2>. QED BY <2>1, <2>2, <2>3
<1>. QED BY <1>4, <1>5, <1>6, <1>7, <1>8

\* A request for a row is one remote call: for every row and mode, with the two
\* clocks in any ratio and the bus busy for any time, it reaches the core as it
\* was made, gets one memory-to-register cycle and is retired once, and there is
\* no other before.
THEOREM OneCycleEach == RefreshAssumption => (ScreenSpec => OneCall)
<1> SUFFICES ASSUME RefreshAssumption PROVE ScreenSpec => OneCall
  OBVIOUS
<1>1. ScreenInit => Call!Init
  BY DEF ScreenInit, Call!Init, ScreenStage
<1>2. ASSUME CallInv, CallInv', RowInv, [ScreenNext]_screenVars
      PROVE  [Call!Next]_<<ScreenStage, Carried, Reply>>
  <2>. DEFINE Calls == Call!Next \/ UNCHANGED <<ScreenStage, Carried, Reply>>
  <2>1. \/ ScreenStage = "idle" /\ ScreenStage' = "asked" /\ request' \in Commands
        \/ ScreenStage = "asked" /\ ScreenStage' = "serving" /\ corePayload' = request
        \/ ScreenStage = "serving" /\ ScreenStage' = "served" /\ UNCHANGED corePayload
        \/ ScreenStage = "served" /\ ScreenStage' = "returned" /\ UNCHANGED corePayload
        \/ ScreenStage = "returned" /\ ScreenStage' = "idle"
        \/ /\ UNCHANGED ScreenStage
           /\ ScreenStage = "asked" => UNCHANGED request
           /\ ScreenStage \in {"serving", "served", "returned"} => UNCHANGED corePayload
    BY <1>2, BothSides, CallSteps DEF RowInv
  <2>2. CASE ScreenStage = "idle" /\ ScreenStage' = "asked" /\ request' \in Commands
    BY <2>2 DEF Call!Next, Call!Ask, Commands
  <2>3. CASE ScreenStage = "asked" /\ ScreenStage' = "serving" /\ corePayload' = request
    BY <2>3 DEF Call!Next, Call!Accept
  <2>4. CASE ScreenStage = "serving" /\ ScreenStage' = "served" /\ UNCHANGED corePayload
    BY <2>4 DEF Call!Next, Call!Serve
  <2>5. CASE ScreenStage = "served" /\ ScreenStage' = "returned" /\ UNCHANGED corePayload
    BY <2>5 DEF Call!Next, Call!Return
  <2>6. CASE ScreenStage = "returned" /\ ScreenStage' = "idle"
    BY <2>6 DEF Call!Next, Call!Forget
  <2>7. CASE /\ UNCHANGED ScreenStage
             /\ ScreenStage = "asked" => UNCHANGED request
             /\ ScreenStage \in {"serving", "served", "returned"} => UNCHANGED corePayload
    <3>1. ScreenStage \in {"idle", "asked", "serving", "served", "returned"}
      BY DEF ScreenStage
    <3>. QED BY <2>7, <3>1 DEF Carried, Reply
  <2>. QED BY <2>1, <2>2, <2>3, <2>4, <2>5, <2>6, <2>7
<1>3. ScreenSpec => []RowInv
  BY InitRowInv, StepRowInv, PTL DEF ScreenSpec
<1>4. ScreenSpec => []CallInv
  BY <1>3, InitCallInv, StepCallInv, PTL DEF ScreenSpec
<1>. QED BY <1>1, <1>2, <1>3, <1>4, PTL DEF ScreenSpec, OneCall, Call!Spec, Carried, Reply

-----------------------------------------------------------------------------
(* The mailbox.                                                             *)

BoxTypeOK(box) ==
    /\ box.req \in BOOLEAN /\ box.ack \in BOOLEAN /\ box.valid \in BOOLEAN
    /\ box.reqSync[1] \in BOOLEAN /\ box.reqSync[2] \in BOOLEAN
    /\ box.ackSync[1] \in BOOLEAN /\ box.ackSync[2] \in BOOLEAN

\* A payload's toggle goes through the stages one after the other, there and
\* back, before the next one starts.
BoxInLine(box) ==
    /\ BoxTypeOK(box)
    /\ box.reqSync[1] # box.req => box.reqSync[2] # box.req
    /\ box.reqSync[2] # box.req => box.ack # box.req
    /\ box.ack # box.req => box.ackSync[1] # box.req
    /\ box.ackSync[1] # box.req => box.ackSync[2] # box.req

\* A payload that has been posted and not come out.
InFlight(box) == box.req # box.ack

LEMMA ResetInLine == ASSUME NEW v PROVE BoxInLine(MailboxReset(v)) /\ ~InFlight(MailboxReset(v))
BY DEF BoxInLine, BoxTypeOK, InFlight, MailboxReset, SyncReset

\* A payload is posted when none is in flight, and comes out once.
LEMMA BoxEdges ==
  ASSUME NEW box, BoxInLine(box), NEW src \in BOOLEAN, NEW dst \in BOOLEAN,
         NEW valid \in BOOLEAN, NEW value
  PROVE  LET accepts == src /\ BoxAccepts(box, valid)
             arrives == dst /\ BoxArrives(box)
             moved == BoxMoved(box, src, dst, valid, value)
         IN  /\ accepts \in BOOLEAN /\ arrives \in BOOLEAN
             /\ BoxInLine(moved)
             /\ accepts => valid /\ ~InFlight(box)
             /\ arrives => InFlight(box)
             /\ moved.payload = IF accepts THEN value ELSE box.payload
             /\ moved.out = IF arrives THEN box.payload ELSE box.out
             /\ moved.valid = IF dst THEN arrives ELSE box.valid
             /\ InFlight(moved) <=> accepts \/ (InFlight(box) /\ ~arrives)
<1>. DEFINE accepts == src /\ valid /\ box.req = box.ackSync[2]
            arrives == dst /\ box.reqSync[2] # box.ack
            moved == BoxMoved(box, src, dst, valid, value)
<1>1. /\ moved.payload = IF accepts THEN value ELSE box.payload
      /\ moved.req = IF accepts THEN ~box.req ELSE box.req
      /\ moved.ackSync = IF src THEN <<box.ack, box.ackSync[1]>> ELSE box.ackSync
      /\ moved.out = IF arrives THEN box.payload ELSE box.out
      /\ moved.valid = IF dst THEN arrives ELSE box.valid
      /\ moved.reqSync = IF dst THEN <<box.req, box.reqSync[1]>> ELSE box.reqSync
      /\ moved.ack = IF arrives THEN ~box.ack ELSE box.ack
  BY DEF BoxMoved, BoxAccepts, BoxArrives, BoxValidNext, Synced, SyncEdge
<1>2. /\ accepts => valid /\ ~InFlight(box)
      /\ arrives => InFlight(box)
  BY DEF BoxInLine, BoxTypeOK, InFlight
<1>3. InFlight(moved) <=> accepts \/ (InFlight(box) /\ ~arrives)
  BY <1>1, <1>2 DEF BoxInLine, BoxTypeOK, InFlight
<1>4. /\ moved.ackSync[1] = IF src THEN box.ack ELSE box.ackSync[1]
      /\ moved.ackSync[2] = IF src THEN box.ackSync[1] ELSE box.ackSync[2]
      /\ moved.reqSync[1] = IF dst THEN box.req ELSE box.reqSync[1]
      /\ moved.reqSync[2] = IF dst THEN box.reqSync[1] ELSE box.reqSync[2]
  BY <1>1
<1>5. BoxInLine(moved)
  BY <1>1, <1>4 DEF BoxInLine, BoxTypeOK
<1>. QED BY <1>1, <1>2, <1>3, <1>5 DEF BoxAccepts, BoxArrives, Synced

-----------------------------------------------------------------------------
(* The values on their way.                                                 *)

\* Of a crossing: the last value that arrived, the one that has come out (if
\* come), the one in flight (if flies), the last one written (and not posted, if
\* waits).
InOrder(way) ==
    /\ way.come \in BOOLEAN /\ way.flies \in BOOLEAN /\ way.waits \in BOOLEAN
    /\ way.arrived \in Nat /\ way.written \in Nat /\ way.arrived <= way.written
    /\ way.come => /\ way.out \in Nat
                   /\ way.arrived < way.out /\ way.out <= way.written
    /\ way.flies => /\ way.payload \in Nat
                    /\ way.arrived < way.payload /\ way.payload <= way.written
    /\ way.come /\ way.flies => way.out < way.payload
    /\ way.waits => /\ way.arrived < way.written
                    /\ way.come => way.out < way.written
                    /\ way.flies => way.payload < way.written

\* An edge of either clock or of both, with a write or without.
OrderStep(old, new, dst, accepts, arrives, writes) ==
    /\ dst \in BOOLEAN /\ accepts \in BOOLEAN /\ arrives \in BOOLEAN /\ writes \in BOOLEAN
    /\ new.come \in BOOLEAN /\ new.flies \in BOOLEAN /\ new.waits \in BOOLEAN
    /\ accepts => ~old.flies
    /\ arrives => dst
    /\ new.arrived = IF dst /\ old.come THEN old.out ELSE old.arrived
    /\ new.come <=> IF dst THEN arrives /\ old.flies ELSE old.come
    /\ new.come => new.out = IF arrives THEN old.payload ELSE old.out
    /\ new.flies <=> IF accepts THEN old.waits ELSE old.flies /\ ~arrives
    /\ new.flies => new.payload = IF accepts THEN old.written ELSE old.payload
    /\ new.waits <=> writes \/ (old.waits /\ ~accepts)
    /\ new.written = IF writes THEN old.written + 1 ELSE old.written

LEMMA OrderKept ==
  ASSUME NEW old, NEW new, NEW dst, NEW accepts, NEW arrives, NEW writes,
         InOrder(old), OrderStep(old, new, dst, accepts, arrives, writes)
  PROVE  /\ InOrder(new)
         /\ new.arrived \in old.arrived .. old.written
         /\ new.written \in {old.written, old.written + 1}
<1>. /\ dst \in BOOLEAN /\ accepts \in BOOLEAN /\ arrives \in BOOLEAN /\ writes \in BOOLEAN
     /\ new.come \in BOOLEAN /\ new.flies \in BOOLEAN /\ new.waits \in BOOLEAN
     /\ old.come \in BOOLEAN /\ old.flies \in BOOLEAN /\ old.waits \in BOOLEAN
  BY DEF OrderStep, InOrder
<1>1. /\ new.arrived \in Nat /\ old.arrived <= new.arrived /\ new.arrived <= old.written
      /\ old.written \in Nat /\ old.arrived \in Nat
      /\ new.written \in {old.written, old.written + 1}
  BY DEF InOrder, OrderStep
<1>2. new.come => new.out \in Nat /\ new.arrived < new.out /\ new.out <= old.written
  <2>1. CASE dst
    BY <2>1 DEF InOrder, OrderStep
  <2>2. CASE ~dst
    BY <2>2 DEF InOrder, OrderStep
  <2>. QED BY <2>1, <2>2
<1>3. new.flies => /\ new.payload \in Nat
                   /\ new.arrived < new.payload /\ new.payload <= old.written
  <2>1. CASE accepts /\ old.waits
    BY <2>1 DEF InOrder, OrderStep
  <2>2. CASE old.flies /\ ~accepts
    BY <2>2 DEF InOrder, OrderStep
  <2>. QED BY <2>1, <2>2 DEF OrderStep
<1>4. new.come /\ new.flies => new.out < new.payload
  <2>1. CASE accepts /\ old.waits
    BY <2>1 DEF InOrder, OrderStep
  <2>2. CASE old.flies /\ ~accepts
    BY <2>2 DEF InOrder, OrderStep
  <2>. QED BY <2>1, <2>2 DEF OrderStep
<1>5. new.waits /\ ~writes => /\ new.arrived < old.written
                              /\ new.come => new.out < old.written
                              /\ new.flies => new.payload < old.written
  <2>. SUFFICES ASSUME old.waits, ~accepts
       PROVE  /\ new.arrived < old.written
              /\ new.come => new.out < old.written
              /\ new.flies => new.payload < old.written
    BY DEF OrderStep
  <2>. QED BY DEF InOrder, OrderStep
<1>6. CASE writes
  <2>1. new.written = old.written + 1
    BY <1>6 DEF OrderStep
  <2>. QED BY <1>1, <1>2, <1>3, <1>4, <2>1 DEF InOrder
<1>7. CASE ~writes
  <2>1. new.written = old.written
    BY <1>7 DEF OrderStep
  <2>. QED BY <1>1, <1>2, <1>3, <1>4, <1>5, <1>7, <2>1 DEF InOrder
<1>. QED BY <1>6, <1>7

-----------------------------------------------------------------------------
(* The crossings.                                                           *)

Way(arrived, box, waits, written) ==
    [arrived |-> arrived, come |-> box.valid, out |-> box.out,
     flies |-> InFlight(box), payload |-> box.payload, waits |-> waits, written |-> written]

ConfigWay == Way(cfgVideo, cfgBox, dirty, cfg)
EventWay == Way(dipLatched, dipBox, dipPending, dips)

LoadWay(c) ==
    [arrived |-> loaded[c],
     come    |-> cmdBox.valid /\ c \in DOMAIN cmdBox.out, out |-> cmdBox.out[c],
     flies   |-> InFlight(cmdBox) /\ c \in DOMAIN cmdBox.payload, payload |-> cmdBox.payload[c],
     waits   |-> c \in pending, written |-> loadData[c]]

\* Of the counters' snapshots one is always under way, and an old one may come
\* again.
StatusOrder ==
    /\ view \in Nat /\ statusBox.out \in Nat /\ statusBox.payload \in Nat /\ live \in Nat
    /\ view <= statusBox.out /\ statusBox.out <= statusBox.payload /\ statusBox.payload <= live

ValuesTypeOK ==
    /\ BoxInLine(cfgBox) /\ BoxInLine(cmdBox) /\ BoxInLine(dipBox)
    /\ dirty \in BOOLEAN /\ dipPending \in BOOLEAN /\ pending \subseteq Counters
    /\ loadData \in [Counters -> Nat] /\ loaded \in [Counters -> Nat]
    /\ cmdBox.valid => DOMAIN cmdBox.out \subseteq Counters
    /\ InFlight(cmdBox) => DOMAIN cmdBox.payload \subseteq Counters

CrossingInv ==
    /\ ValuesTypeOK
    /\ InOrder(ConfigWay) /\ InOrder(EventWay) /\ StatusOrder
    /\ \A c \in Counters : InOrder(LoadWay(c))

LEMMA InitCrossingInv == CrossingInit => CrossingInv
<1>. SUFFICES ASSUME CrossingInit PROVE CrossingInv
  OBVIOUS
<1>1. /\ BoxInLine(cfgBox) /\ BoxInLine(cmdBox) /\ BoxInLine(dipBox)
      /\ ~InFlight(cfgBox) /\ ~InFlight(cmdBox) /\ ~InFlight(dipBox)
  BY ResetInLine DEF CrossingInit
<1>2. /\ cfgBox.valid = FALSE /\ cmdBox.valid = FALSE /\ dipBox.valid = FALSE
      /\ statusBox.out = 0 /\ statusBox.payload = 0
  BY DEF CrossingInit, MailboxReset
<1>3. /\ cfg = 0 /\ dirty = FALSE /\ cfgVideo = 0 /\ pending = {}
      /\ loadData = [c \in Counters |-> 0] /\ loaded = loadData
      /\ dips = 0 /\ dipPending = FALSE /\ dipLatched = 0 /\ live = 0 /\ view = 0
  BY DEF CrossingInit
<1>4. ValuesTypeOK
  BY <1>1, <1>2, <1>3 DEF ValuesTypeOK
<1>5. InOrder(ConfigWay)
  <2>1. /\ ~ConfigWay.come /\ ~ConfigWay.flies /\ ~ConfigWay.waits
        /\ ConfigWay.come \in BOOLEAN /\ ConfigWay.flies \in BOOLEAN /\ ConfigWay.waits \in BOOLEAN
        /\ ConfigWay.arrived = 0 /\ ConfigWay.written = 0
    BY <1>1, <1>2, <1>3 DEF ConfigWay, Way, InFlight
  <2>. QED BY <2>1 DEF InOrder
<1>6. InOrder(EventWay)
  <2>1. /\ ~EventWay.come /\ ~EventWay.flies /\ ~EventWay.waits
        /\ EventWay.come \in BOOLEAN /\ EventWay.flies \in BOOLEAN /\ EventWay.waits \in BOOLEAN
        /\ EventWay.arrived = 0 /\ EventWay.written = 0
    BY <1>1, <1>2, <1>3 DEF EventWay, Way, InFlight
  <2>. QED BY <2>1 DEF InOrder
<1>7. ASSUME NEW c \in Counters PROVE InOrder(LoadWay(c))
  <2>1. /\ ~LoadWay(c).come /\ ~LoadWay(c).flies /\ ~LoadWay(c).waits
        /\ LoadWay(c).come \in BOOLEAN /\ LoadWay(c).flies \in BOOLEAN
        /\ LoadWay(c).waits \in BOOLEAN
    <3>1. LoadWay(c).come = FALSE
      BY <1>2 DEF LoadWay
    <3>2. LoadWay(c).flies = FALSE
      BY <1>1 DEF LoadWay
    <3>3. LoadWay(c).waits = FALSE
      <4>1. (c \in pending) = FALSE
        BY <1>3
      <4>. QED BY <4>1 DEF LoadWay
    <3>. QED BY <3>1, <3>2, <3>3
  <2>2. LoadWay(c).arrived = 0 /\ LoadWay(c).written = 0
    BY <1>3 DEF LoadWay
  <2>. QED BY <2>1, <2>2 DEF InOrder
<1>8. StatusOrder
  BY <1>2, <1>3 DEF StatusOrder
<1>. QED BY <1>4, <1>5, <1>6, <1>7, <1>8 DEF CrossingInv

\* A step of a crossing with one value.
WayStep(src, dst, writes, arrived, box, waits, written, arrived1, box1, waits1, written1) ==
    /\ arrived1 = IF dst /\ box.valid THEN box.out ELSE arrived
    /\ box1 = BoxMoved(box, src, dst, waits, written)
    /\ waits1 = (writes \/ (waits /\ ~(src /\ BoxAccepts(box, waits))))
    /\ written1 = IF writes THEN written + 1 ELSE written

LEMMA WayKept ==
  ASSUME NEW src \in BOOLEAN, NEW dst \in BOOLEAN, NEW writes \in BOOLEAN,
         NEW arrived, NEW box, NEW waits \in BOOLEAN, NEW written,
         NEW arrived1, NEW box1, NEW waits1, NEW written1,
         BoxInLine(box), InOrder(Way(arrived, box, waits, written)),
         WayStep(src, dst, writes, arrived, box, waits, written, arrived1, box1, waits1, written1)
  PROVE  /\ BoxInLine(box1) /\ waits1 \in BOOLEAN
         /\ InOrder(Way(arrived1, box1, waits1, written1))
         /\ arrived1 \in arrived .. written /\ written1 \in {written, written + 1}
<1>. DEFINE accepts == src /\ BoxAccepts(box, waits)
            arrives == dst /\ BoxArrives(box)
            old == Way(arrived, box, waits, written)
            new == Way(arrived1, box1, waits1, written1)
<1>1. /\ arrived1 = IF dst /\ box.valid THEN box.out ELSE arrived
      /\ box1 = BoxMoved(box, src, dst, waits, written)
      /\ waits1 = (writes \/ (waits /\ ~accepts))
      /\ written1 = IF writes THEN written + 1 ELSE written
  BY DEF WayStep
<1>2. /\ accepts \in BOOLEAN /\ arrives \in BOOLEAN
      /\ BoxInLine(box1)
      /\ accepts => waits /\ ~InFlight(box)
      /\ arrives => InFlight(box) /\ dst
      /\ box1.payload = IF accepts THEN written ELSE box.payload
      /\ box1.out = IF arrives THEN box.payload ELSE box.out
      /\ box1.valid = IF dst THEN arrives ELSE box.valid
      /\ InFlight(box1) <=> accepts \/ (InFlight(box) /\ ~arrives)
  BY <1>1, BoxEdges
<1>3. /\ new.arrived = arrived1 /\ new.come = box1.valid /\ new.out = box1.out
      /\ new.flies = InFlight(box1) /\ new.payload = box1.payload
      /\ new.waits = waits1 /\ new.written = written1
      /\ old.arrived = arrived /\ old.come = box.valid /\ old.out = box.out
      /\ old.flies = InFlight(box) /\ old.payload = box.payload
      /\ old.waits = waits /\ old.written = written
  BY DEF Way
<1>4. OrderStep(old, new, dst, accepts, arrives, writes)
  <2>. HIDE DEF accepts, arrives, old, new
  <2>1. /\ box1.valid \in BOOLEAN /\ InFlight(box1) \in BOOLEAN /\ InFlight(box) \in BOOLEAN
        /\ waits1 \in BOOLEAN
    BY <1>1, <1>2 DEF InFlight, BoxInLine, BoxTypeOK
  <2>2. /\ accepts \in BOOLEAN /\ arrives \in BOOLEAN
        /\ new.come \in BOOLEAN /\ new.flies \in BOOLEAN /\ new.waits \in BOOLEAN
    BY <1>2, <1>3, <2>1
  <2>3. /\ accepts => ~old.flies
        /\ arrives => dst
    BY <1>2, <1>3
  <2>4. new.arrived = IF dst /\ old.come THEN old.out ELSE old.arrived
    BY <1>1, <1>3
  <2>5. /\ new.come <=> IF dst THEN arrives /\ old.flies ELSE old.come
        /\ new.out = IF arrives THEN old.payload ELSE old.out
    BY <1>2, <1>3, <2>1
  <2>6. /\ new.flies <=> IF accepts THEN old.waits ELSE old.flies /\ ~arrives
        /\ new.payload = IF accepts THEN old.written ELSE old.payload
    BY <1>2, <1>3, <2>1
  <2>7. /\ new.waits <=> writes \/ (old.waits /\ ~accepts)
        /\ new.written = IF writes THEN old.written + 1 ELSE old.written
    BY <1>1, <1>3
  <2>. QED BY <2>2, <2>3, <2>4, <2>5, <2>6, <2>7 DEF OrderStep
<1>5. /\ InOrder(new) /\ new.arrived \in old.arrived .. old.written
      /\ new.written \in {old.written, old.written + 1}
  <2>1. InOrder(old)
    OBVIOUS
  <2>. HIDE DEF accepts, arrives, old, new
  <2>. QED BY <1>4, <2>1, OrderKept
<1>. QED BY <1>1, <1>2, <1>3, <1>5

LEMMA ConfigKept ==
  ASSUME CrossingInv, NEW core \in BOOLEAN, NEW video \in BOOLEAN, NEW write \in BOOLEAN,
         ConfigEdge(core, video, write)
  PROVE  /\ BoxInLine(cfgBox') /\ dirty' \in BOOLEAN
         /\ InOrder(Way(cfgVideo', cfgBox', dirty', cfg'))
         /\ cfg' \in {cfg, cfg + 1} /\ cfgVideo' \in cfgVideo .. cfg
<1>1. /\ BoxInLine(cfgBox) /\ dirty \in BOOLEAN /\ InOrder(Way(cfgVideo, cfgBox, dirty, cfg))
      /\ (core /\ write) \in BOOLEAN
  BY DEF CrossingInv, ValuesTypeOK, ConfigWay
<1>2. WayStep(core, video, core /\ write, cfgVideo, cfgBox, dirty, cfg,
              cfgVideo', cfgBox', dirty', cfg')
  BY <1>1 DEF ConfigEdge, DirtyNext, WayStep
<1>. QED BY <1>1, <1>2, WayKept

LEMMA EventsKept ==
  ASSUME CrossingInv, NEW core \in BOOLEAN, NEW video \in BOOLEAN, NEW dip \in BOOLEAN,
         EventsEdge(core, video, dip)
  PROVE  /\ BoxInLine(dipBox') /\ dipPending' \in BOOLEAN
         /\ InOrder(Way(dipLatched', dipBox', dipPending', dips'))
         /\ dips' \in {dips, dips + 1} /\ dipLatched' \in dipLatched .. dips
<1>1. /\ BoxInLine(dipBox) /\ dipPending \in BOOLEAN
      /\ InOrder(Way(dipLatched, dipBox, dipPending, dips))
      /\ (video /\ dip) \in BOOLEAN
  BY DEF CrossingInv, ValuesTypeOK, EventWay
<1>2. WayStep(video, core, video /\ dip, dipLatched, dipBox, dipPending, dips,
              dipLatched', dipBox', dipPending', dips')
  BY <1>1 DEF EventsEdge, DipPendingNext, WayStep
<1>. QED BY <1>1, <1>2, WayKept

LEMMA StatusKept ==
  ASSUME StatusOrder, NEW core \in BOOLEAN, NEW video \in BOOLEAN, NEW tick \in BOOLEAN,
         StatusEdge(core, video, tick)
  PROVE  StatusOrder' /\ live' \in {live, live + 1} /\ view' \in view .. live
<1>. DEFINE accepts == video /\ BoxAccepts(statusBox, TRUE)
            arrives == core /\ BoxArrives(statusBox)
<1>1. /\ live' = IF video /\ tick THEN live + 1 ELSE live
      /\ view' = IF core THEN statusBox.out ELSE view
      /\ statusBox'.payload = IF accepts THEN live ELSE statusBox.payload
      /\ statusBox'.out = IF arrives THEN statusBox.payload ELSE statusBox.out
  BY DEF StatusEdge, BoxMoved
<1>2. /\ view' \in {view, statusBox.out} /\ statusBox'.out \in {statusBox.out, statusBox.payload}
      /\ statusBox'.payload \in {statusBox.payload, live} /\ live' \in {live, live + 1}
  BY <1>1
<1>. QED BY <1>2 DEF StatusOrder

LEMMA LoadsKept ==
  ASSUME CrossingInv, NEW core \in BOOLEAN, NEW video \in BOOLEAN,
         NEW writes \in SUBSET Counters, CommandEdge(core, video, writes)
  PROVE  /\ BoxInLine(cmdBox') /\ pending' \subseteq Counters
         /\ loadData' \in [Counters -> Nat] /\ loaded' \in [Counters -> Nat]
         /\ cmdBox'.valid => DOMAIN cmdBox'.out \subseteq Counters
         /\ InFlight(cmdBox') => DOMAIN cmdBox'.payload \subseteq Counters
         /\ \A c \in Counters : /\ InOrder(LoadWay(c))'
                                /\ loadData'[c] \in {loadData[c], loadData[c] + 1}
                                /\ loaded'[c] \in loaded[c] .. loadData[c]
<1>. DEFINE accepts == core /\ BoxAccepts(cmdBox, pending # {})
            arrives == video /\ BoxArrives(cmdBox)
            command == [c \in pending |-> loadData[c]]
            moved == BoxMoved(cmdBox, core, video, pending # {}, command)
<1>1. /\ pending' = IF core THEN PendingNext(BoxAccepts(cmdBox, pending # {}), writes) ELSE pending
      /\ loadData' = [c \in Counters |-> IF core /\ c \in writes THEN loadData[c] + 1 ELSE loadData[c]]
      /\ cmdBox' = moved
      /\ loaded' = [c \in Counters |-> IF video /\ cmdBox.valid /\ c \in DOMAIN cmdBox.out
                                       THEN cmdBox.out[c] ELSE loaded[c]]
  BY DEF CommandEdge
<1>2. /\ BoxInLine(cmdBox) /\ pending \subseteq Counters
      /\ loadData \in [Counters -> Nat] /\ loaded \in [Counters -> Nat]
      /\ cmdBox.valid => DOMAIN cmdBox.out \subseteq Counters
      /\ InFlight(cmdBox) => DOMAIN cmdBox.payload \subseteq Counters
      /\ (pending # {}) \in BOOLEAN
      /\ \A c \in Counters : InOrder(LoadWay(c))
  BY DEF CrossingInv, ValuesTypeOK
<1>3. /\ accepts \in BOOLEAN /\ arrives \in BOOLEAN
      /\ BoxInLine(cmdBox')
      /\ accepts => ~InFlight(cmdBox)
      /\ arrives => InFlight(cmdBox) /\ video
      /\ cmdBox'.payload = IF accepts THEN command ELSE cmdBox.payload
      /\ cmdBox'.out = IF arrives THEN cmdBox.payload ELSE cmdBox.out
      /\ cmdBox'.valid = IF video THEN arrives ELSE cmdBox.valid
      /\ InFlight(cmdBox') <=> accepts \/ (InFlight(cmdBox) /\ ~arrives)
  <2>. DEFINE waits == pending # {}
  <2>1. waits \in BOOLEAN
    OBVIOUS
  <2>2. LET took == core /\ BoxAccepts(cmdBox, waits)
            box == BoxMoved(cmdBox, core, video, waits, command)
        IN  /\ took \in BOOLEAN /\ arrives \in BOOLEAN
            /\ BoxInLine(box)
            /\ took => waits /\ ~InFlight(cmdBox)
            /\ arrives => InFlight(cmdBox) /\ video
            /\ box.payload = IF took THEN command ELSE cmdBox.payload
            /\ box.out = IF arrives THEN cmdBox.payload ELSE cmdBox.out
            /\ box.valid = IF video THEN arrives ELSE cmdBox.valid
            /\ InFlight(box) <=> took \/ (InFlight(cmdBox) /\ ~arrives)
    <3>. HIDE DEF command, waits
    <3>. QED BY <1>2, <2>1, BoxEdges
  <2>. QED BY <1>1, <2>2
<1>4. /\ cmdBox'.valid \in BOOLEAN /\ InFlight(cmdBox') \in BOOLEAN
      /\ cmdBox.valid \in BOOLEAN /\ InFlight(cmdBox) \in BOOLEAN
  BY <1>2, <1>3 DEF BoxInLine, BoxTypeOK, InFlight
<1>5. /\ pending' \subseteq Counters
      /\ \A c \in Counters : c \in pending' <=> (core /\ c \in writes) \/ (c \in pending /\ ~accepts)
  BY <1>1, <1>2 DEF PendingNext
<1>6. /\ DOMAIN command = pending /\ \A c \in pending : command[c] = loadData[c]
  OBVIOUS
<1>7. /\ cmdBox'.valid => DOMAIN cmdBox'.out \subseteq Counters
      /\ InFlight(cmdBox') => DOMAIN cmdBox'.payload \subseteq Counters
  <2>. HIDE DEF accepts, arrives, command
  <2>. QED BY <1>2, <1>3, <1>4, <1>6
<1>8. ASSUME NEW c \in Counters
      PROVE  /\ loadData'[c] = IF core /\ c \in writes THEN loadData[c] + 1 ELSE loadData[c]
             /\ loaded'[c] = IF video /\ cmdBox.valid /\ c \in DOMAIN cmdBox.out
                             THEN cmdBox.out[c] ELSE loaded[c]
             /\ OrderStep(LoadWay(c), LoadWay(c)', video, accepts, arrives, core /\ c \in writes)
  <2>. DEFINE old == LoadWay(c)
              new == LoadWay(c)'
  <2>1. /\ loadData'[c] = IF core /\ c \in writes THEN loadData[c] + 1 ELSE loadData[c]
        /\ loaded'[c] = IF video /\ cmdBox.valid /\ c \in DOMAIN cmdBox.out
                        THEN cmdBox.out[c] ELSE loaded[c]
    BY <1>1
  <2>2. /\ new.arrived = loaded'[c] /\ new.come = (cmdBox'.valid /\ c \in DOMAIN cmdBox'.out)
        /\ new.out = cmdBox'.out[c]
        /\ new.flies = (InFlight(cmdBox') /\ c \in DOMAIN cmdBox'.payload)
        /\ new.payload = cmdBox'.payload[c]
        /\ new.waits = (c \in pending') /\ new.written = loadData'[c]
        /\ old.arrived = loaded[c] /\ old.come = (cmdBox.valid /\ c \in DOMAIN cmdBox.out)
        /\ old.out = cmdBox.out[c]
        /\ old.flies = (InFlight(cmdBox) /\ c \in DOMAIN cmdBox.payload)
        /\ old.payload = cmdBox.payload[c]
        /\ old.waits = (c \in pending) /\ old.written = loadData[c]
    BY DEF LoadWay, InFlight
  <2>. HIDE DEF accepts, arrives, command, moved, old, new
  <2>3. /\ accepts \in BOOLEAN /\ arrives \in BOOLEAN /\ (core /\ c \in writes) \in BOOLEAN
        /\ new.come \in BOOLEAN /\ new.flies \in BOOLEAN /\ new.waits \in BOOLEAN
    BY <1>3, <2>2
  <2>4. /\ accepts => ~old.flies
        /\ arrives => video
    BY <1>3, <2>2
  <2>5. new.arrived = IF video /\ old.come THEN old.out ELSE old.arrived
    BY <2>1, <2>2
  <2>6. /\ new.come <=> IF video THEN arrives /\ old.flies ELSE old.come
        /\ new.come => new.out = IF arrives THEN old.payload ELSE old.out
    BY <1>3, <1>4, <2>2
  <2>7. /\ new.flies <=> IF accepts THEN old.waits ELSE old.flies /\ ~arrives
        /\ new.flies => new.payload = IF accepts THEN old.written ELSE old.payload
    BY <1>3, <1>4, <1>6, <2>2
  <2>8. /\ new.waits <=> (core /\ c \in writes) \/ (old.waits /\ ~accepts)
        /\ new.written = IF core /\ c \in writes THEN old.written + 1 ELSE old.written
    BY <1>5, <2>1, <2>2
  <2>9. OrderStep(old, new, video, accepts, arrives, core /\ c \in writes)
    BY <2>3, <2>4, <2>5, <2>6, <2>7, <2>8 DEF OrderStep
  <2>. QED BY <2>1, <2>9 DEF old, new
<1>9. ASSUME NEW c \in Counters
      PROVE  /\ InOrder(LoadWay(c))'
             /\ loadData'[c] \in {loadData[c], loadData[c] + 1}
             /\ loaded'[c] \in loaded[c] .. loadData[c]
             /\ loaded'[c] \in Nat /\ loadData'[c] \in Nat
  <2>1. /\ InOrder(LoadWay(c))'
        /\ LoadWay(c)'.arrived \in LoadWay(c).arrived .. LoadWay(c).written
        /\ LoadWay(c)'.written \in {LoadWay(c).written, LoadWay(c).written + 1}
    BY <1>2, <1>8, OrderKept
  <2>2. /\ LoadWay(c)'.arrived = loaded'[c] /\ LoadWay(c)'.written = loadData'[c]
        /\ LoadWay(c).arrived = loaded[c] /\ LoadWay(c).written = loadData[c]
    BY DEF LoadWay
  <2>. QED BY <1>2, <2>1, <2>2
<1>10. loadData' \in [Counters -> Nat] /\ loaded' \in [Counters -> Nat]
  <2>1. loadData' = [c \in Counters |-> loadData'[c]] /\ loaded' = [c \in Counters |-> loaded'[c]]
    BY <1>1
  <2>. QED BY <1>9, <2>1
<1>. QED BY <1>3, <1>5, <1>7, <1>9, <1>10

-----------------------------------------------------------------------------
\* What each crossing does in a step.
CrossingMoves ==
    /\ cfg' \in {cfg, cfg + 1} /\ cfgVideo' \in cfgVideo .. cfg
    /\ dips' \in {dips, dips + 1} /\ dipLatched' \in dipLatched .. dips
    /\ live' \in {live, live + 1} /\ view' \in view .. live
    /\ \A c \in Counters : /\ loadData'[c] \in {loadData[c], loadData[c] + 1}
                           /\ loaded'[c] \in loaded[c] .. loadData[c]

LEMMA CrossingInvKept ==
  ASSUME CrossingAssumption, CrossingInv, [CrossingNext]_crossingVars
  PROVE  CrossingInv' /\ (CrossingMoves \/ UNCHANGED crossingVars)
<1>1. CASE UNCHANGED crossingVars
  <2>1. UNCHANGED <<cfg, dirty, cfgBox, cfgVideo, pending, loadData, cmdBox, loaded>>
    BY <1>1 DEF crossingVars, cfgVars, cmdVars
  <2>2. UNCHANGED <<dips, dipPending, dipBox, dipLatched, live, statusBox, view>>
    BY <1>1 DEF crossingVars, dipVars, liveVars
  <2>3. ValuesTypeOK'
    BY <2>1, <2>2 DEF CrossingInv, ValuesTypeOK, BoxInLine, BoxTypeOK, InFlight
  <2>4. InOrder(ConfigWay)' /\ InOrder(EventWay)' /\ StatusOrder'
    BY <2>1, <2>2 DEF CrossingInv, ConfigWay, EventWay, Way, InFlight, InOrder, StatusOrder
  <2>5. \A c \in Counters : InOrder(LoadWay(c))'
    BY <2>1 DEF CrossingInv, LoadWay, InFlight, InOrder
  <2>. QED BY <1>1, <2>3, <2>4, <2>5 DEF CrossingInv
<1>2. ASSUME NEW core \in BOOLEAN, NEW video \in BOOLEAN, NEW write \in BOOLEAN,
             NEW dip \in BOOLEAN, NEW tick \in BOOLEAN, NEW writes \in SUBSET Writable,
             CrossingStep(core, video, write, writes, dip, tick)
      PROVE  CrossingInv' /\ CrossingMoves
  <2>1. writes \in SUBSET Counters
    BY DEF Writable, CrossingAssumption
  <2>2. /\ BoxInLine(cfgBox') /\ dirty' \in BOOLEAN
        /\ InOrder(Way(cfgVideo', cfgBox', dirty', cfg'))
        /\ cfg' \in {cfg, cfg + 1} /\ cfgVideo' \in cfgVideo .. cfg
    BY <1>2, ConfigKept DEF CrossingStep
  <2>3. /\ BoxInLine(dipBox') /\ dipPending' \in BOOLEAN
        /\ InOrder(Way(dipLatched', dipBox', dipPending', dips'))
        /\ dips' \in {dips, dips + 1} /\ dipLatched' \in dipLatched .. dips
    BY <1>2, EventsKept DEF CrossingStep
  <2>4. StatusOrder' /\ live' \in {live, live + 1} /\ view' \in view .. live
    BY <1>2, StatusKept DEF CrossingStep, CrossingInv
  <2>5. /\ BoxInLine(cmdBox') /\ pending' \subseteq Counters
        /\ loadData' \in [Counters -> Nat] /\ loaded' \in [Counters -> Nat]
        /\ cmdBox'.valid => DOMAIN cmdBox'.out \subseteq Counters
        /\ InFlight(cmdBox') => DOMAIN cmdBox'.payload \subseteq Counters
        /\ \A c \in Counters : /\ InOrder(LoadWay(c))'
                               /\ loadData'[c] \in {loadData[c], loadData[c] + 1}
                               /\ loaded'[c] \in loaded[c] .. loadData[c]
    BY <1>2, <2>1, LoadsKept DEF CrossingStep
  <2>6. ValuesTypeOK'
    BY <2>2, <2>3, <2>5 DEF ValuesTypeOK, BoxInLine, BoxTypeOK, InFlight
  <2>7. InOrder(ConfigWay)' /\ InOrder(EventWay)'
    BY <2>2, <2>3 DEF ConfigWay, EventWay, Way, InFlight, InOrder
  <2>8. CrossingInv'
    BY <2>4, <2>5, <2>6, <2>7 DEF CrossingInv
  <2>. QED BY <2>2, <2>3, <2>4, <2>5, <2>8 DEF CrossingMoves
<1>. QED BY <1>1, <1>2 DEF CrossingNext

\* The values cross in order and each once: the configuration's snapshots,
\* the loads of each counter, the display interrupts and the counters' states,
\* whatever the edges of the two clocks and however many the writes.
THEOREM ValuesArriveInOrder == CrossingAssumption => (CrossingsSpec => ValuesInOrder)
<1>. SUFFICES ASSUME CrossingAssumption PROVE CrossingsSpec => ValuesInOrder
  OBVIOUS
<1>1. CrossingInit => CrossingInv
  BY InitCrossingInv
<1>2. CrossingInv /\ [CrossingNext]_crossingVars => CrossingInv'
  BY CrossingInvKept
<1>3. CrossingInit => /\ ConfigValue!Init /\ Hcount!Init /\ Vcount!Init /\ Dpyadr!Init
                      /\ EventValue!Init /\ StatusValue!Init
  BY DEF CrossingInit, Counters, ConfigValue!Init, Hcount!Init, Vcount!Init, Dpyadr!Init,
         EventValue!Init, StatusValue!Init
<1>4. CrossingInv /\ [CrossingNext]_crossingVars =>
        /\ [ConfigValue!Next]_<<cfg, cfgVideo>>
        /\ [Hcount!Next]_<<loadData["HCOUNT"], loaded["HCOUNT"]>>
        /\ [Vcount!Next]_<<loadData["VCOUNT"], loaded["VCOUNT"]>>
        /\ [Dpyadr!Next]_<<loadData["DPYADR"], loaded["DPYADR"]>>
        /\ [EventValue!Next]_<<dips, dipLatched>>
        /\ [StatusValue!Next]_<<live, view>>
  <2>. SUFFICES ASSUME CrossingInv, [CrossingNext]_crossingVars
       PROVE  /\ [ConfigValue!Next]_<<cfg, cfgVideo>>
              /\ [Hcount!Next]_<<loadData["HCOUNT"], loaded["HCOUNT"]>>
              /\ [Vcount!Next]_<<loadData["VCOUNT"], loaded["VCOUNT"]>>
              /\ [Dpyadr!Next]_<<loadData["DPYADR"], loaded["DPYADR"]>>
              /\ [EventValue!Next]_<<dips, dipLatched>>
              /\ [StatusValue!Next]_<<live, view>>
    OBVIOUS
  <2>1. CASE UNCHANGED crossingVars
    BY <2>1 DEF crossingVars, cfgVars, cmdVars, dipVars, liveVars
  <2>2. CASE CrossingMoves
    BY <2>2 DEF CrossingMoves, Counters, ConfigValue!Next, Hcount!Next, Vcount!Next,
                Dpyadr!Next, EventValue!Next, StatusValue!Next
  <2>. QED BY <2>1, <2>2, CrossingInvKept
<1>5. CrossingInv => /\ cmdBox.valid => \A c \in DOMAIN cmdBox.out : cmdBox.out[c] > loaded[c]
                     /\ dipBox.valid => dipBox.out > dipLatched
  <2>. SUFFICES ASSUME CrossingInv
       PROVE  /\ cmdBox.valid => \A c \in DOMAIN cmdBox.out : cmdBox.out[c] > loaded[c]
              /\ dipBox.valid => dipBox.out > dipLatched
    OBVIOUS
  <2>1. ASSUME cmdBox.valid, NEW c \in DOMAIN cmdBox.out PROVE cmdBox.out[c] > loaded[c]
    <3>1. c \in Counters /\ InOrder(LoadWay(c)) /\ loaded[c] \in Nat
      BY <2>1 DEF CrossingInv, ValuesTypeOK
    <3>2. LoadWay(c).come = TRUE /\ LoadWay(c).out = cmdBox.out[c] /\ LoadWay(c).arrived = loaded[c]
      BY <2>1 DEF LoadWay
    <3>. QED BY <3>1, <3>2 DEF InOrder
  <2>2. ASSUME dipBox.valid PROVE dipBox.out > dipLatched
    <3>1. InOrder(EventWay)
      BY DEF CrossingInv
    <3>2. EventWay.come = dipBox.valid /\ EventWay.out = dipBox.out /\ EventWay.arrived = dipLatched
      BY DEF EventWay, Way
    <3>. QED BY <2>2, <3>1, <3>2 DEF InOrder
  <2>. QED BY <2>1, <2>2
<1>. QED BY <1>1, <1>2, <1>3, <1>4, <1>5, PTL DEF CrossingsSpec, ValuesInOrder, ConfigValue!Spec,
              Hcount!Spec, Vcount!Spec, Dpyadr!Spec, EventValue!Spec, StatusValue!Spec
=============================================================================
