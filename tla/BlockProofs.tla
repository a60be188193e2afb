----------------------------- MODULE BlockProofs -----------------------------
(***************************************************************************)
(* Proofs about blocks that stand alone:                                   *)
(* - the counters of the display and of the DRAM refresh, for every        *)
(*   programming of the video registers, with loads in any clock, and for  *)
(*   every interval, number of rows and length of the local clock;         *)
(* - the instruction cache, for any number of segments and subsegments,    *)
(*   any code and data, and any writes, flushes and changes of CONTROL.CD  *)
(*   at any moment of a fetch;                                             *)
(* - the host port, for any accesses, writes of the processor and modes,   *)
(*   any time a cycle takes, and any host that keeps its quiet edges.      *)
(***************************************************************************)
EXTENDS VideoTiming, RefreshCounter, ICache, HostPort, TLAPS

-----------------------------------------------------------------------------
(* The refresh counter.                                                     *)

\* The counter and the local clocks since the last request are a whole
\* interval together, the value the borrow left aside.
Interval ==
    settled => /\ rr # 0
               /\ rintvl + sinceRequest * rr \in Intervals - rr .. Intervals - 1

CounterInv ==
    /\ rr \in Rates /\ clockPhase \in 0 .. ClksPerState - 1
    /\ rintvl \in 0 .. Intervals - 1 /\ rowadr \in 0 .. Rows - 1
    /\ refreshReq \in BOOLEAN /\ settled \in BOOLEAN
    /\ sinceRequest \in 0 .. Intervals
    /\ Interval

\* What is left of a number below n after one step down around zero.
LEMMA StepDown ==
  ASSUME NEW n \in Nat \ {0}, NEW x \in 0 .. n - 1, NEW d \in 0 .. 2, d <= n
  PROVE  /\ (x - d) % n \in 0 .. n - 1
         /\ x >= d => (x - d) % n = x - d
         /\ x < d => (x - d) % n = x - d + n
<1>1. CASE x >= d
  BY <1>1, SMT
<1>2. CASE x < d
  <2>1. x - d + n \in 0 .. n - 1 /\ x - d = n * (-1) + (x - d + n)
    BY <1>2
  <2>. QED BY <1>2, <2>1, SMT
<1>. QED BY <1>1, <1>2

\* Reset establishes the invariant.
LEMMA InitCounterInv == CounterInit => CounterInv
<1>1. Intervals \in Nat \ {0} /\ Rows \in Nat \ {0} /\ ClksPerState \in Nat \ {0}
  BY CounterAssumption
<1> SUFFICES ASSUME CounterInit PROVE CounterInv
  OBVIOUS
<1>2. /\ 0 \in 0 .. ClksPerState - 1 /\ 0 \in 0 .. Intervals - 1
      /\ 0 \in 0 .. Rows - 1 /\ 0 \in 0 .. Intervals
  BY <1>1
<1>3. Interval
  BY DEF CounterInit, Interval
<1>. QED BY <1>2, <1>3 DEF CounterInit, CounterInv

\* An even interval has two at least.
LEMMA IntervalsFact == Intervals \in Nat /\ Intervals >= 2
BY CounterAssumption

\* A clock that counts keeps the interval.
LEMMA CountStep ==
  ASSUME CounterInv, Count, rr' \in Rates, settled' = (rr' = rr /\ (settled \/ Underflow))
  PROVE  /\ rintvl' \in 0 .. Intervals - 1 /\ rowadr' \in 0 .. Rows - 1
         /\ refreshReq' \in BOOLEAN /\ sinceRequest' \in 0 .. Intervals
         /\ Interval'
<1>1. rr \in 0 .. 2 /\ rr <= Intervals /\ rintvl \in 0 .. Intervals - 1
  BY IntervalsFact DEF CounterInv, Rates
<1>2. /\ (rintvl - rr) % Intervals \in 0 .. Intervals - 1
      /\ rintvl >= rr => (rintvl - rr) % Intervals = rintvl - rr
      /\ rintvl < rr => (rintvl - rr) % Intervals = rintvl - rr + Intervals
  BY <1>1, StepDown, CounterAssumption
<1>3. (rowadr - 1) % Rows \in 0 .. Rows - 1
  BY StepDown, CounterAssumption DEF CounterInv
<1>4. rintvl' \in 0 .. Intervals - 1 /\ rowadr' \in 0 .. Rows - 1 /\ refreshReq' \in BOOLEAN
  BY <1>2, <1>3 DEF Count, CounterInv, Underflow, LocalTick
<1>5. sinceRequest' \in 0 .. Intervals
  BY IntervalsFact DEF Count, CounterInv
<1>6. ASSUME settled' PROVE rr' # 0 /\ rintvl' + sinceRequest' * rr' \in Intervals - rr' .. Intervals - 1
  <2>1. rr' = rr /\ (settled \/ Underflow)
    BY <1>6
  <2>2. CASE Underflow
    BY <1>1, <1>2, <2>1, <2>2, IntervalsFact DEF Underflow, Count
  <2>3. CASE ~Underflow /\ ~LocalTick
    BY <2>1, <2>3 DEF Count, CounterInv, Interval
  <2>4. CASE ~Underflow /\ LocalTick
    <3>1. rr \in {1, 2} /\ rintvl >= rr /\ sinceRequest \in Nat
      BY <1>1, <2>1, <2>4 DEF Underflow, CounterInv, Interval
    <3>2. rintvl + sinceRequest * rr \in Intervals - rr .. Intervals - 1
      BY <2>1, <2>4 DEF CounterInv, Interval
    <3>3. sinceRequest < Intervals
      BY <1>1, <3>1, <3>2, IntervalsFact
    <3>4. rintvl' = rintvl - rr /\ sinceRequest' = sinceRequest + 1
      BY <1>2, <2>4, <3>1, <3>3 DEF Count
    <3>. QED BY <1>1, <2>1, <3>1, <3>2, <3>4, IntervalsFact
  <2>. QED BY <2>2, <2>3, <2>4
<1>. QED BY <1>4, <1>5, <1>6 DEF Interval

\* Every clock keeps the invariant, whatever is loaded in it and however the
\* rate changes.
LEMMA StepCounterInv == CounterInv /\ [CounterNext]_counterVars => CounterInv'
<1> SUFFICES ASSUME CounterInv, [CounterNext]_counterVars PROVE CounterInv'
  OBVIOUS
<1>1. ASSUME NEW load \in BOOLEAN, CounterClock(load) PROVE CounterInv'
  <2>1. clockPhase' \in 0 .. ClksPerState - 1
    <3>1. clockPhase + 1 \in Nat
      BY CounterAssumption DEF CounterInv
    <3>. QED BY <1>1, <3>1, CounterAssumption DEF CounterClock
  <2>2. rr' \in Rates /\ settled' \in BOOLEAN
    BY <1>1 DEF CounterClock, CounterInv
  <2>3. CASE load
    BY <1>1, <2>1, <2>2, <2>3 DEF CounterClock, LoadCounter, LoadedReq, CounterInv, Interval
  <2>4. CASE ~load
    <3>1. Count /\ settled' = (rr' = rr /\ (settled \/ Underflow))
      BY <1>1, <2>4 DEF CounterClock
    <3>. QED BY <2>1, <2>2, <3>1, CountStep DEF CounterInv
  <2>. QED BY <2>3, <2>4
<1>2. CASE UNCHANGED counterVars
  BY <1>2 DEF counterVars, CounterInv, Interval
<1>. QED BY <1>1, <1>2 DEF CounterNext

\* The values of the counter's registers, and what they say of the clocks
\* since the last request, in every reachable state.
THEOREM CounterInvHolds == CounterSpec => []CounterInv
BY InitCounterInv, StepCounterInv, PTL DEF CounterSpec

\* No row is passed over or asked for twice, none is asked for because REFCNT
\* was loaded, and at a steady rate the requests are RINTVL's whole range of
\* local clocks apart, or half of it.
THEOREM EveryRow == CounterSpec => EveryRowInTime
<1>. DEFINE Step == /\ Count => (refreshReq' <=> rowadr' # rowadr)
                    /\ refreshReq' => rowadr' = (rowadr - 1) % Rows
                    /\ refreshReq' /\ settled => (sinceRequest + 1) * rr = Intervals
<1>1. CounterInv /\ [CounterNext]_counterVars => [Step]_counterVars
  <2> SUFFICES ASSUME CounterInv, NEW load \in BOOLEAN, CounterClock(load) PROVE Step
    BY DEF CounterNext
  <2>1. (rowadr - 1) % Rows # rowadr
    <3>1. Rows \in Nat /\ Rows > 1 /\ rowadr \in 0 .. Rows - 1
      BY CounterAssumption DEF CounterInv
    <3>2. /\ rowadr >= 1 => (rowadr - 1) % Rows = rowadr - 1
          /\ rowadr < 1 => (rowadr - 1) % Rows = rowadr - 1 + Rows
      <4>1. Rows \in Nat \ {0} /\ 1 \in 0 .. 2 /\ 1 <= Rows
        BY <3>1
      <4>. QED BY <3>1, <4>1, StepDown
    <3>. QED BY <3>1, <3>2
  <2>2. Count => (refreshReq' <=> rowadr' # rowadr)
    BY <2>1 DEF Count, Underflow, CounterInv
  <2>3. refreshReq' => ~load /\ Count /\ Underflow
    BY DEF CounterClock, LoadCounter, LoadedReq, Count
  <2>4. refreshReq' => rowadr' = (rowadr - 1) % Rows
    BY <2>3 DEF Count, Underflow
  <2>5. ASSUME refreshReq', settled PROVE (sinceRequest + 1) * rr = Intervals
    <3>1. rintvl < rr /\ rr \in {1, 2} /\ rintvl \in Nat /\ sinceRequest \in Nat
      BY <2>3, <2>5, CounterAssumption DEF Underflow, CounterInv, Interval, Rates
    <3>2. rintvl + sinceRequest * rr \in Intervals - rr .. Intervals - 1
      BY <2>5 DEF CounterInv, Interval
    <3>3. CASE rr = 1
      BY <3>1, <3>2, <3>3, IntervalsFact
    <3>4. CASE rr = 2
      BY <3>1, <3>2, <3>4, CounterAssumption
    <3>. QED BY <3>1, <3>3, <3>4
  <2>. QED BY <2>2, <2>4, <2>5
<1>2. CounterSpec => [][Step]_counterVars
  BY <1>1, CounterInvHolds, PTL DEF CounterSpec
<1>. QED BY <1>2 DEF EveryRowInTime

-----------------------------------------------------------------------------
(* The display's counters.                                                  *)

\* The odd field has made its step at VESYNC.
Stepped == odd /\ OddSkips /\ vcount > Vesync

\* Clocks since the field began, read off the counters.
Position ==
    IF ~odd THEN vcount * Line + hcount
    ELSE IF Stepped THEN (vcount - 1) * Line + hcount - (HalfLine + 1)
    ELSE vcount * Line + hcount - (HalfLine + 1)

\* The halves of lines an interlaced field has.
Place ==
    /\ ~mode.nil /\ ~odd /\ vcount = Vtotal => hcount <= HalfLine
    /\ odd /\ vcount = 0 => hcount > HalfLine
    /\ odd /\ OddSkips /\ vcount = Vesync => hcount <= HalfLine
    /\ odd /\ OddSkips /\ vcount = Vesync + 1 => hcount > HalfLine

\* The blank of line DPYINT is behind.
BlankPassed == vcount > dpyint \/ (vcount = dpyint /\ hcount > Hsblnk)

\* What the counters say of the field's clocks and interrupts.
FieldInv ==
    undisturbed => /\ mode.dxv
                   /\ Place
                   /\ ticks = Position
                   /\ fired = IF BlankPassed /\ ~Cut THEN 1 ELSE 0

TimingInv ==
    /\ mode \in [nil : BOOLEAN, dxv : BOOLEAN, hsd : BOOLEAN]
    /\ dpyint \in 0 .. Vtotal
    /\ hcount \in 0 .. Htotal /\ vcount \in 0 .. Vtotal
    /\ odd \in BOOLEAN /\ (mode.nil => ~odd)
    /\ FieldInv

\* The middle of a line lies before its end.
LEMMA HalfLineFact == HalfLine \in Nat /\ HalfLine < Htotal /\ Htotal \in Nat
BY TimingAssumption DEF HalfLine

\* Reset establishes the invariant.
LEMMA InitTimingInv == TimingInit => TimingInv
<1> SUFFICES ASSUME TimingInit PROVE TimingInv
  OBVIOUS
<1>1. /\ mode \in [nil : BOOLEAN, dxv : BOOLEAN, hsd : BOOLEAN]
      /\ dpyint \in 0 .. Vtotal
  BY TimingAssumption DEF TimingInit
<1>2. 0 \in 0 .. Htotal /\ 0 \in 0 .. Vtotal
  BY TimingAssumption
<1>3. FieldInv
  BY DEF TimingInit, FieldInv
<1>. QED BY <1>1, <1>2, <1>3 DEF TimingInit, TimingInv

\* Whatever is loaded and wherever lines and fields come from, the counters
\* stay in range, and a display that is not interlaced in the even field.
LEMMA CountersInRange ==
  ASSUME TimingInv, NEW hload \in {NoLoad} \cup Hloads, NEW vload \in {NoLoad} \cup Vloads,
         VideoClock(hload, vload)
  PROVE  /\ hcount' \in 0 .. Htotal /\ vcount' \in 0 .. Vtotal
         /\ odd' \in BOOLEAN /\ (mode.nil => ~odd')
<1>1. hload # NoLoad => hload \in 0 .. Htotal
  BY TimingAssumption
<1>2. vload # NoLoad => vload \in 0 .. Vtotal
  BY TimingAssumption
<1>3. hcount' = HcountNext(hload) /\ vcount' = VcountNext(vload, hload # NoLoad)
      /\ odd' = OddNext(vload, hload # NoLoad)
  BY DEF VideoClock
<1>4. hcount' \in 0 .. Htotal
  <2>1. hcount # Htotal => hcount + 1 \in 0 .. Htotal
    BY HalfLineFact DEF TimingInv
  <2>. QED BY <1>1, <1>3, <2>1, HalfLineFact DEF HcountNext, LineStart
<1>5. vcount' \in 0 .. Vtotal
  <2>1. Vtotal \in Nat /\ Vesync < Vtotal /\ vcount \in 0 .. Vtotal
    BY TimingAssumption DEF TimingInv
  <2>2. OddSyncEnd => vcount # Vtotal
    BY <2>1, TimingAssumption DEF OddSyncEnd
  <2>. QED BY <1>2, <1>3, <2>1, <2>2 DEF VcountNext
<1>6. odd' \in BOOLEAN
  BY <1>3 DEF OddNext, TimingInv
<1>7. mode.nil => ~odd'
  BY <1>3 DEF OddNext, EvenToOdd, TimingInv
<1>. QED BY <1>4, <1>5, <1>6, <1>7

\* A clock in which nothing is loaded and no pin counts.
LEMMA CountedClock ==
  ASSUME TimingInv, VideoClock(NoLoad, NoLoad), mode.dxv
  PROVE  /\ EvenToOdd => hcount' = HalfLine + 1 /\ vcount' = 0 /\ odd'
         /\ FieldEnds /\ ~EvenToOdd => hcount = Htotal /\ hcount' = 0 /\ vcount' = 0 /\ ~odd'
         /\ OddSyncEnd => /\ ~FieldEnds /\ hcount' = HalfLine + 1 /\ vcount' = vcount + 1
                          /\ odd /\ odd'
         /\ ~FieldEnds /\ ~OddSyncEnd =>
              /\ odd' = odd
              /\ \/ hcount = Htotal /\ vcount # Vtotal /\ hcount' = 0 /\ vcount' = vcount + 1
                 \/ hcount # Htotal /\ hcount' = hcount + 1 /\ vcount' = vcount
<1>1. hcount' = HcountNext(NoLoad) /\ vcount' = VcountNext(NoLoad, FALSE)
      /\ odd' = OddNext(NoLoad, FALSE)
  BY DEF VideoClock
<1>2. LineStart <=> hcount = Htotal
  BY DEF LineStart, ExternalLines
<1>3. hcount' = IF hcount = Htotal THEN 0 ELSE hcount + 1
  BY <1>1, <1>2 DEF HcountNext
<1>4. HalfLine # Htotal /\ Vesync # Vtotal
  BY HalfLineFact, TimingAssumption
<1>5. EvenToOdd => hcount = HalfLine /\ vcount = Vtotal /\ ~odd
  BY DEF EvenToOdd
<1>6. OddSyncEnd => hcount = HalfLine /\ vcount = Vesync /\ odd /\ ~mode.nil
  BY DEF OddSyncEnd
<1>7. vcount' = IF EvenToOdd THEN 0
                ELSE IF OddSyncEnd \/ (hcount = Htotal /\ vcount # Vtotal) THEN vcount + 1
                ELSE IF hcount = Htotal THEN 0
                ELSE vcount
  BY <1>1, <1>2 DEF VcountNext, ExternalField
<1>8. odd' = IF EvenToOdd THEN TRUE
             ELSE IF ~OddSyncEnd /\ hcount = Htotal /\ vcount = Vtotal THEN FALSE
             ELSE odd /\ ~mode.nil
  BY <1>1, <1>2 DEF OddNext, ExternalField
<1>9. (odd /\ ~mode.nil) = odd
  BY DEF TimingInv
<1>10. FieldEnds <=> EvenToOdd \/ (hcount = Htotal /\ vcount = Vtotal)
  BY <1>2 DEF FieldEnds
<1>11. EvenToOdd => hcount' = HalfLine + 1 /\ vcount' = 0 /\ odd'
  BY <1>3, <1>4, <1>5, <1>7, <1>8
<1>12. FieldEnds /\ ~EvenToOdd => hcount = Htotal /\ hcount' = 0 /\ vcount' = 0 /\ ~odd'
  BY <1>3, <1>4, <1>6, <1>7, <1>8, <1>10
<1>13. OddSyncEnd => /\ ~FieldEnds /\ hcount' = HalfLine + 1 /\ vcount' = vcount + 1
                     /\ odd /\ odd'
  BY <1>3, <1>4, <1>5, <1>6, <1>7, <1>8, <1>10
<1>14. ~FieldEnds /\ ~OddSyncEnd =>
              /\ odd' = odd
              /\ \/ hcount = Htotal /\ vcount # Vtotal /\ hcount' = 0 /\ vcount' = vcount + 1
                 \/ hcount # Htotal /\ hcount' = hcount + 1 /\ vcount' = vcount
  BY <1>3, <1>7, <1>8, <1>9, <1>10
<1>. QED BY <1>11, <1>12, <1>13, <1>14

\* A step that counts within a field, in the field's terms.
LEMMA PlaceStep ==
  ASSUME TimingInv, VideoClock(NoLoad, NoLoad), mode.dxv, undisturbed, ~FieldEnds
  PROVE  Place'
<1>1. Place /\ odd \in BOOLEAN /\ hcount \in 0 .. Htotal /\ vcount \in 0 .. Vtotal /\ mode' = mode
  BY DEF TimingInv, FieldInv, VideoClock
<1>2. HalfLine \in Nat /\ HalfLine < Htotal /\ Htotal \in Nat /\ Vtotal \in Nat
      /\ Vesync \in 0 .. Vtotal - 1
  BY HalfLineFact, TimingAssumption
<1>3. CASE OddSyncEnd
  <2>1. hcount' = HalfLine + 1 /\ vcount' = vcount + 1 /\ odd'
    BY <1>3, CountedClock
  <2>2. vcount = Vesync
    BY <1>3 DEF OddSyncEnd
  <2>. QED BY <1>1, <1>2, <2>1, <2>2 DEF Place, OddSkips
<1>4. CASE ~OddSyncEnd
  <2>1. odd' = odd
    BY <1>4, CountedClock
  <2>2. CASE hcount = Htotal /\ hcount' = 0 /\ vcount' = vcount + 1
    <3>1. odd /\ OddSkips => vcount # Vesync
      BY <1>1, <1>2, <2>2 DEF Place
    <3>. QED BY <1>1, <1>2, <2>1, <2>2, <3>1 DEF Place
  <2>3. CASE hcount # Htotal /\ hcount' = hcount + 1 /\ vcount' = vcount
    <3>1. ~mode.nil /\ ~odd /\ vcount = Vtotal => hcount # HalfLine
      BY DEF FieldEnds, EvenToOdd
    <3>2. odd /\ OddSkips /\ vcount = Vesync => hcount # HalfLine
      BY <1>4 DEF OddSyncEnd, TimingInv
    <3>. QED BY <1>1, <1>2, <2>1, <2>3, <3>1, <3>2 DEF Place
  <2>. QED BY <1>4, <2>2, <2>3, CountedClock
<1>. QED BY <1>3, <1>4

\* It is one clock further into the field.
LEMMA PositionStep ==
  ASSUME TimingInv, VideoClock(NoLoad, NoLoad), mode.dxv, undisturbed, ~FieldEnds
  PROVE  Position' = Position + 1
<1>1. Place /\ odd \in BOOLEAN /\ hcount \in 0 .. Htotal /\ vcount \in 0 .. Vtotal
  BY DEF TimingInv, FieldInv
<1>2. HalfLine \in Nat /\ HalfLine < Htotal /\ Htotal \in Nat /\ Vtotal \in Nat
      /\ Vesync \in 0 .. Vtotal - 1 /\ Line = Htotal + 1
  BY HalfLineFact, TimingAssumption DEF Line
<1>3. \A n \in Int : n * Line \in Int /\ (n + 1) * Line = n * Line + Line
  BY <1>2
<1>4. vcount * Line \in Int /\ (vcount - 1) * Line \in Int
      /\ vcount * Line = (vcount - 1) * Line + Line
      /\ (vcount + 1) * Line = vcount * Line + Line
  <2>1. vcount \in Int /\ vcount - 1 \in Int /\ vcount - 1 + 1 = vcount
    BY <1>1, <1>2
  <2>. QED BY <1>2, <2>1, <1>3
<1>. HIDE DEF Line
<1>5. CASE OddSyncEnd
  <2>1. /\ hcount' = HalfLine + 1 /\ vcount' = vcount + 1 /\ odd' /\ odd
        /\ vcount = Vesync /\ hcount = HalfLine
    BY <1>5, CountedClock DEF OddSyncEnd
  <2>2. OddSkips
    BY <1>1, <1>2, <2>1 DEF Place, OddSkips
  <2>3. ~Stepped /\ Stepped'
    BY <1>2, <2>1, <2>2 DEF Stepped, OddSkips
  <2>4. Position = vcount * Line + hcount - (HalfLine + 1)
    BY <2>1, <2>3 DEF Position
  <2>5. Position' = (vcount' - 1) * Line + hcount' - (HalfLine + 1)
    BY <2>1, <2>3 DEF Position, Line, HalfLine
  <2>6. vcount' - 1 = vcount
    BY <1>1, <1>2, <2>1
  <2>. QED BY <1>1, <1>2, <1>4, <2>1, <2>4, <2>5, <2>6
<1>6. CASE ~OddSyncEnd
  <2>1. odd' = odd
    BY <1>6, CountedClock
  <2>2. CASE hcount = Htotal /\ hcount' = 0 /\ vcount' = vcount + 1
    <3>1. Stepped' = Stepped
      <4>1. odd /\ OddSkips => vcount # Vesync
        BY <1>1, <1>2, <2>2 DEF Place
      <4>. QED BY <1>1, <1>2, <2>1, <2>2, <4>1 DEF Stepped, OddSkips
    <3>2. CASE ~odd
      BY <1>1, <1>2, <1>4, <2>1, <2>2, <3>2 DEF Position, Line
    <3>3. CASE odd /\ Stepped
      <4>1. Position' = (vcount' - 1) * Line + hcount' - (HalfLine + 1)
        BY <2>1, <3>1, <3>3 DEF Position, Line, HalfLine
      <4>2. vcount' - 1 = vcount
        BY <1>1, <1>2, <2>2
      <4>3. Position = (vcount - 1) * Line + hcount - (HalfLine + 1)
        BY <3>3 DEF Position
      <4>. QED BY <1>1, <1>2, <1>4, <2>2, <4>1, <4>2, <4>3
    <3>4. CASE odd /\ ~Stepped
      <4>1. Position' = vcount' * Line + hcount' - (HalfLine + 1)
        BY <2>1, <3>1, <3>4 DEF Position, Line, HalfLine
      <4>2. Position = vcount * Line + hcount - (HalfLine + 1)
        BY <3>4 DEF Position
      <4>. QED BY <1>1, <1>2, <1>4, <2>2, <4>1, <4>2
    <3>. QED BY <1>1, <3>2, <3>3, <3>4
  <2>3. CASE hcount # Htotal /\ hcount' = hcount + 1 /\ vcount' = vcount
    <3>1. Stepped' = Stepped
      BY <2>1, <2>3 DEF Stepped, OddSkips
    <3>2. Position' = IF ~odd THEN vcount * Line + (hcount + 1)
                      ELSE IF Stepped THEN (vcount - 1) * Line + (hcount + 1) - (HalfLine + 1)
                      ELSE vcount * Line + (hcount + 1) - (HalfLine + 1)
      BY <2>1, <2>3, <3>1 DEF Position, Line, HalfLine
    <3>. QED BY <1>1, <1>2, <1>4, <3>2 DEF Position
  <2>. QED BY <1>6, <2>2, <2>3, CountedClock
<1>. QED BY <1>5, <1>6

\* The blank of DPYINT's line comes with the interrupt, or not at all.
LEMMA BlankStep ==
  ASSUME TimingInv, VideoClock(NoLoad, NoLoad), mode.dxv, undisturbed, ~FieldEnds
  PROVE  /\ Cut' = Cut
         /\ Cut => ~Interrupt
         /\ ~Cut => (BlankPassed' <=> BlankPassed \/ Interrupt)
         /\ Interrupt => ~BlankPassed
<1>1. /\ Place /\ odd \in BOOLEAN /\ hcount \in 0 .. Htotal /\ vcount \in 0 .. Vtotal
      /\ dpyint \in 0 .. Vtotal
      /\ mode' = mode /\ dpyint' = dpyint /\ (mode.nil => ~odd)
  BY DEF TimingInv, FieldInv, VideoClock
<1>2. HalfLine \in Nat /\ HalfLine < Htotal /\ Htotal \in Nat /\ Vtotal \in Nat
      /\ Vesync \in 0 .. Vtotal - 1 /\ Hsblnk \in 0 .. Htotal
  BY HalfLineFact, TimingAssumption
<1>3. odd' = odd
  <2>1. odd' \in BOOLEAN
    BY CountersInRange
  <2>. QED BY <1>1, <2>1, CountedClock
<1>4. Cut' = Cut
  BY <1>1, <1>3 DEF Cut, OddSkips, HalfLine
<1>5. Interrupt <=> hcount = Hsblnk /\ vcount = dpyint /\ ~OddSyncEnd
  BY DEF Interrupt, HblankStart
<1>6. Interrupt => ~BlankPassed
  BY <1>1, <1>2, <1>5 DEF BlankPassed
<1>7. OddSyncEnd => odd /\ OddSkips /\ ~mode.nil /\ vcount = Vesync /\ hcount = HalfLine
  BY <1>1, <1>2 DEF OddSyncEnd, Place, OddSkips
<1>8. odd /\ OddSkips /\ vcount = Vesync /\ hcount = HalfLine => OddSyncEnd
  BY <1>1 DEF OddSyncEnd
<1>9. Cut => ~Interrupt
  BY <1>1, <1>2, <1>5, <1>8 DEF Cut, Place, OddSkips
<1>10. ~Cut => (BlankPassed' <=> BlankPassed \/ Interrupt)
  <2>1. CASE OddSyncEnd
    <3>1. hcount' = HalfLine + 1 /\ vcount' = vcount + 1
      BY <2>1, CountedClock
    <3>. QED BY <1>1, <1>2, <1>5, <1>7, <2>1, <3>1 DEF Cut, BlankPassed
  <2>2. CASE ~OddSyncEnd /\ hcount = Htotal /\ hcount' = 0 /\ vcount' = vcount + 1
    BY <1>1, <1>2, <1>5, <2>2 DEF BlankPassed
  <2>3. CASE ~OddSyncEnd /\ hcount' = hcount + 1 /\ vcount' = vcount
    BY <1>1, <1>2, <1>5, <2>3 DEF BlankPassed
  <2>. QED BY <2>1, <2>2, <2>3, CountedClock
<1>. QED BY <1>4, <1>6, <1>9, <1>10

\* A field begins where its clocks and interrupts are counted from.
LEMMA FieldBegins ==
  ASSUME TimingInv, VideoClock(NoLoad, NoLoad), mode.dxv, FieldEnds
  PROVE  Place' /\ Position' = 0 /\ (Cut' \/ ~BlankPassed')
<1>1. /\ dpyint \in 0 .. Vtotal /\ mode' = mode /\ dpyint' = dpyint
  BY DEF TimingInv, VideoClock
<1>2. HalfLine \in Nat /\ HalfLine < Htotal /\ Htotal \in Nat /\ Vtotal \in Nat
      /\ Vesync \in 0 .. Vtotal - 1 /\ Hsblnk \in 0 .. Htotal /\ Line = Htotal + 1
  BY HalfLineFact, TimingAssumption DEF Line
<1>3. 0 * Line = 0
  BY <1>2
<1>4. CASE EvenToOdd
  <2>1. hcount' = HalfLine + 1 /\ vcount' = 0 /\ odd' /\ ~mode.nil
    BY <1>4, CountedClock DEF EvenToOdd
  <2>2. ~Stepped'
    BY <1>2, <2>1 DEF Stepped
  <2>3. Position' = vcount' * Line + hcount' - (HalfLine + 1)
    BY <2>1, <2>2 DEF Position, Line, HalfLine
  <2>4. Position' = 0
    BY <1>2, <1>3, <2>1, <2>3
  <2>5. Place'
    BY <1>1, <1>2, <2>1 DEF Place, OddSkips, HalfLine
  <2>6. Cut' \/ ~BlankPassed'
    BY <1>1, <1>2, <2>1 DEF Cut, BlankPassed, HalfLine
  <2>. QED BY <2>4, <2>5, <2>6
<1>5. CASE ~EvenToOdd
  <2>1. hcount' = 0 /\ vcount' = 0 /\ ~odd'
    BY <1>5, CountedClock
  <2>2. Position' = vcount' * Line + hcount'
    BY <2>1 DEF Position, Line, HalfLine
  <2>3. Position' = 0
    BY <1>2, <1>3, <2>1, <2>2
  <2>4. Place'
    BY <1>1, <1>2, <2>1 DEF Place, HalfLine
  <2>5. ~BlankPassed'
    BY <1>1, <1>2, <2>1 DEF BlankPassed
  <2>. QED BY <2>3, <2>4, <2>5
<1>. QED BY <1>4, <1>5

\* Every clock keeps the invariant.
LEMMA StepTimingInv == TimingInv /\ [TimingNext]_timingVars => TimingInv'
<1> SUFFICES ASSUME TimingInv, [TimingNext]_timingVars PROVE TimingInv'
  OBVIOUS
<1>1. ASSUME NEW hload \in {NoLoad} \cup Hloads, NEW vload \in {NoLoad} \cup Vloads,
             VideoClock(hload, vload)
      PROVE  TimingInv'
  <2>1. mode' = mode /\ dpyint' = dpyint
    BY <1>1 DEF VideoClock
  <2>2. /\ hcount' \in 0 .. Htotal /\ vcount' \in 0 .. Vtotal
        /\ odd' \in BOOLEAN /\ (mode.nil => ~odd')
    BY <1>1, CountersInRange
  <2>3. ASSUME undisturbed'
        PROVE  /\ mode.dxv /\ Place' /\ ticks' = Position'
               /\ fired' = IF BlankPassed' /\ ~Cut' THEN 1 ELSE 0
    <3>1. /\ hload = NoLoad /\ vload = NoLoad /\ mode.dxv /\ (undisturbed \/ FieldEnds)
          /\ ticks' = IF undisturbed /\ ~FieldEnds THEN ticks + 1 ELSE 0
          /\ fired' = IF undisturbed /\ ~FieldEnds
                      THEN fired + (IF Interrupt THEN 1 ELSE 0) ELSE 0
      BY <1>1, <2>3 DEF VideoClock
    <3>2. VideoClock(NoLoad, NoLoad)
      BY <1>1, <3>1
    <3>3. CASE FieldEnds
      BY <3>1, <3>2, <3>3, FieldBegins
    <3>4. CASE undisturbed /\ ~FieldEnds
      <4>1. ticks = Position /\ fired = IF BlankPassed /\ ~Cut THEN 1 ELSE 0
        BY <3>4 DEF TimingInv, FieldInv
      <4>2. Place' /\ Position' = Position + 1
        BY <3>1, <3>2, <3>4, PlaceStep, PositionStep
      <4>3. /\ Cut' = Cut /\ (Cut => ~Interrupt)
            /\ ~Cut => (BlankPassed' <=> BlankPassed \/ Interrupt)
            /\ Interrupt => ~BlankPassed
        BY <3>1, <3>2, <3>4, BlankStep
      <4>4. fired' = IF BlankPassed' /\ ~Cut' THEN 1 ELSE 0
        BY <3>1, <3>4, <4>1, <4>3
      <4>. QED BY <3>1, <3>4, <4>1, <4>2, <4>4
    <3>. QED BY <3>1, <3>3, <3>4
  <2>. QED BY <2>1, <2>2, <2>3 DEF TimingInv, FieldInv
<1>2. CASE UNCHANGED timingVars
  BY <1>2 DEF timingVars, TimingInv, FieldInv, Place, Position, Stepped, BlankPassed, Cut,
              OddSkips, Line, HalfLine
<1>. QED BY <1>1, <1>2 DEF TimingNext

\* The ranges of the counters, and what they say of the field so far, in every
\* reachable state.
THEOREM TimingInvHolds == TimingSpec => []TimingInv
BY InitTimingInv, StepTimingInv, PTL DEF TimingSpec

\* The counters never leave their ranges, with internal or external sync, and
\* every field no load disturbs has its length to the clock and interrupts
\* once, if DPYINT is a line whose blank it has: for every HTOTAL, HSBLNK,
\* VTOTAL and DPYINT, and every VESYNC below VTOTAL.
THEOREM FieldsHaveTheirLength == TimingSpec => FieldsAsProgrammed
<1>. DEFINE InRange == hcount \in 0 .. Htotal /\ vcount \in 0 .. Vtotal /\ (mode.nil => ~odd)
            Full == undisturbed /\ FieldEnds =>
                      /\ ticks + 1 = FieldClocks
                      /\ fired + (IF Interrupt THEN 1 ELSE 0) = IF Cut THEN 0 ELSE 1
<1>1. TimingInv => InRange
  BY DEF TimingInv
<1>2. TimingInv => Full
  <2> SUFFICES ASSUME TimingInv, undisturbed, FieldEnds
               PROVE  /\ ticks + 1 = FieldClocks
                      /\ fired + (IF Interrupt THEN 1 ELSE 0) = IF Cut THEN 0 ELSE 1
    OBVIOUS
  <2>1. /\ Place /\ odd \in BOOLEAN /\ hcount \in 0 .. Htotal /\ vcount \in 0 .. Vtotal
        /\ dpyint \in 0 .. Vtotal /\ (mode.nil => ~odd) /\ mode.dxv
        /\ ticks = Position /\ fired = IF BlankPassed /\ ~Cut THEN 1 ELSE 0
    BY DEF TimingInv, FieldInv
  <2>2. HalfLine \in Nat /\ HalfLine < Htotal /\ Htotal \in Nat /\ Vtotal \in Nat
        /\ Vesync \in 0 .. Vtotal - 1 /\ Hsblnk \in 0 .. Htotal /\ Line = Htotal + 1
    BY HalfLineFact, TimingAssumption DEF Line
  <2>3. /\ Vtotal * Line \in Int /\ (Vtotal - 1) * Line \in Int
        /\ Vtotal * Line = (Vtotal - 1) * Line + Line
        /\ (Vtotal + 1) * Line = Vtotal * Line + Line
    BY <2>2
  <2>4. Interrupt <=> hcount = Hsblnk /\ vcount = dpyint
    BY <2>2 DEF Interrupt, HblankStart, OddSyncEnd, FieldEnds, EvenToOdd, LineStart,
                ExternalLines
  <2>5. CASE EvenToOdd
    <3>1. ~odd /\ ~mode.nil /\ vcount = Vtotal /\ hcount = HalfLine
      BY <2>5 DEF EvenToOdd
    <3>2. ticks = Vtotal * Line + HalfLine
      BY <2>1, <3>1 DEF Position
    <3>3. FieldClocks = Vtotal * Line + (HalfLine + 1)
      BY <3>1 DEF FieldClocks
    <3>4. ticks + 1 = FieldClocks
      BY <2>2, <2>3, <3>2, <3>3
    <3>. QED BY <2>1, <2>2, <2>4, <3>1, <3>4 DEF BlankPassed, Cut
  <2>6. CASE ~EvenToOdd
    <3>1. hcount = Htotal /\ vcount = Vtotal
      BY <2>1, <2>6 DEF FieldEnds, LineStart, ExternalLines
    <3>2. ~odd => mode.nil
      BY <2>1, <2>2, <3>1 DEF Place
    <3>3. ticks + 1 = FieldClocks
      <4>1. CASE ~odd
        BY <2>1, <2>2, <2>3, <3>1, <3>2, <4>1 DEF Position, FieldClocks
      <4>2. CASE odd /\ OddSkips
        <5>1. Stepped /\ ~mode.nil
          BY <2>1, <2>2, <3>1, <4>2 DEF Stepped
        <5>2. ticks = (Vtotal - 1) * Line + Htotal - (HalfLine + 1)
          BY <2>1, <3>1, <4>2, <5>1 DEF Position
        <5>3. FieldClocks = Vtotal * Line - (HalfLine + 1)
          BY <4>2, <5>1 DEF FieldClocks
        <5>. QED BY <2>2, <2>3, <5>2, <5>3
      <4>3. CASE odd /\ ~OddSkips
        <5>1. ~Stepped /\ ~mode.nil
          BY <2>1, <4>3 DEF Stepped
        <5>2. ticks = Vtotal * Line + Htotal - (HalfLine + 1)
          BY <2>1, <3>1, <4>3, <5>1 DEF Position
        <5>3. FieldClocks = (Vtotal + 1) * Line - (HalfLine + 1)
          BY <4>3, <5>1 DEF FieldClocks
        <5>. QED BY <2>2, <2>3, <5>2, <5>3
      <4>. QED BY <2>1, <4>1, <4>2, <4>3
    <3>4. fired + (IF Interrupt THEN 1 ELSE 0) = IF Cut THEN 0 ELSE 1
      <4>1. BlankPassed \/ Interrupt
        BY <2>1, <2>2, <2>4, <3>1 DEF BlankPassed
      <4>2. Interrupt => ~BlankPassed
        BY <2>1, <2>2, <2>4 DEF BlankPassed
      <4>3. Cut => ~Interrupt
        BY <2>1, <2>2, <2>4, <3>1, <3>2 DEF Cut, Place
      <4>. QED BY <2>1, <4>1, <4>2, <4>3
    <3>. QED BY <3>3, <3>4
  <2>. QED BY <2>5, <2>6
<1>3. TimingSpec => []InRange /\ [][Full]_timingVars
  BY <1>1, <1>2, TimingInvHolds, PTL
<1>. QED BY <1>3 DEF FieldsAsProgrammed

-----------------------------------------------------------------------------
(* The instruction cache.                                                   *)

Unused == CHOOSE t \in Tags : TRUE

CacheTypeOK ==
    /\ state \in {"IDLE", "HIT", "FILL", "DONE"}
    /\ ssa \in [Segment -> Tags \cup {Unused}]
    /\ present \in [Segment -> SUBSET Subs]
    /\ lru \in [Segment -> Segment]
    /\ seg \in Segment /\ half \in {0, 1}
    /\ keep \in BOOLEAN /\ passing \in BOOLEAN /\ cd \in BOOLEAN /\ cf \in BOOLEAN
    /\ req \in Requests \cup {NoReq}
    /\ mem \in [Volatile -> {0, 1}]

\* The shape of what holds values.
StoreTypeOK ==
    /\ DOMAIN ram = Segment
    /\ \A s \in Segment : /\ DOMAIN ram[s] = Subs
                          /\ \A b \in Subs : DOMAIN ram[s][b] = 0 .. 3
    /\ DOMAIN lo = Half(0) /\ DOMAIN hi = Half(1)

\* A value is a memory word's present one, unless that was written since the
\* last flush.
Current(v, w) == v.word = w /\ (v = Value(w) \/ w \in written)

\* The words of a segment and subsegment in the store are those of the segment's
\* address.
Holds(s, b, i) == Current(ram[s][b][i], [tag |-> ssa[s], sub |-> b, i |-> i])

\* Every state but the idle one is about a fetch of the core, which waits.
Waiting == state # "IDLE" => req # NoReq /\ req.fetch

\* What memory has read is what the cache asks it for; while the fill may be
\* kept, it is current.
Reading ==
    reading # NoValue =>
        /\ MReq /\ DOMAIN reading = MWords
        /\ \A w \in MWords : reading[w].word = w
        /\ state = "FILL" /\ keep => \A w \in MWords : Current(reading[w], w)

\* The words kept for the answer are the words of the fetch.
Answering ==
    /\ state = "HIT" => \A i \in 0 .. 3 : out[i].word = Ith(req.at, i)
    /\ (state = "FILL" /\ half = 1) \/ state = "DONE" =>
           \A i \in Half(0) : lo[i].word = Ith(req.at, i)
    /\ state = "DONE" => \A i \in Half(1) : hi[i].word = Ith(req.at, i)

\* A fill that may be kept fills an absent subsegment of the one segment with
\* the address; one that may not finds the cache empty.
Filling ==
    state = "FILL" =>
        IF keep
        THEN /\ ssa[seg] = req.at.tag /\ req.at.sub \notin present[seg]
             /\ \A t \in Segment \ {seg} : present[t] # {} => ssa[t] # ssa[seg]
             /\ half = 1 => \A i \in Half(0) : Holds(seg, req.at.sub, i)
             /\ lru[1] = seg /\ recent # << >>
        ELSE recent = << >> /\ \A s \in Segment : present[s] = {}

\* A stack has every segment once.
IsStack(stack) ==
    /\ \A s \in Segment : \E i \in Segment : stack[i] = s
    /\ \A i, j \in Segment : stack[i] = stack[j] => i = j

StackOK == IsStack(lru)

\* The stack with the segment in place p on top and those above it moved down.
Moved(stack, p) == [i \in Segment |-> IF i = 1 THEN stack[p]
                                     ELSE IF i <= p THEN stack[i - 1] ELSE stack[i]]

\* The segments used since the flush are those with something present, but for
\* the one a fill goes to, which is the last one used.
UsedPresent ==
    /\ recent \in Seq(Tags) /\ Len(recent) <= Ways
    /\ \A i \in Segment : i > Len(recent) => present[lru[i]] = {}
    /\ \A i \in Segment : i <= Len(recent) =>
           \/ present[lru[i]] # {}
           \/ state = "FILL" /\ i = 1 /\ lru[1] = seg

CacheInv ==
    /\ CacheTypeOK /\ StoreTypeOK /\ Waiting /\ Reading /\ Answering /\ Filling
    /\ StackOK /\ UsedPresent /\ CachedIsCurrent /\ LruIsRecency
-----------------------------------------------------------------------------
(* Wires. *)

\* The core's request is a fetch or a data access of a word.
LEMMA RequestFacts ==
  ASSUME CacheTypeOK, req # NoReq
  PROVE  /\ req \in Requests /\ req.fetch \in BOOLEAN /\ req.at \in Word
         /\ req.at.tag \in Tags /\ req.at.sub \in Subs /\ req.at.i \in 0 .. 3
<1>1. req \in Requests
  BY DEF CacheTypeOK
<1>2. req.fetch \in BOOLEAN /\ req.at \in Word
  BY <1>1, CacheAssumption DEF Requests
<1>. QED BY <1>1, <1>2 DEF Word

\* The words of a subsegment.
LEMMA IthWord ==
  \A w \in Word, i \in 0 .. 3 :
     Ith(w, i) = [tag |-> w.tag, sub |-> w.sub, i |-> i]
BY DEF Ith, Word

LEMMA Halves == Half(0) = {0, 1} /\ Half(1) = {2, 3}
BY DEF Half

\* The request stays until its answer.
LEMMA RequestHeld ==
  ASSUME NEW ack, Clock(ack), req # NoReq, ~CAck(ack)
  PROVE  req' = req
BY DEF Clock, Core

\* Requests follow requests.
LEMMA RequestType ==
  ASSUME CacheTypeOK, NEW ack, Clock(ack)
  PROVE  req' \in Requests \cup {NoReq}
BY DEF Clock, Core, CacheTypeOK, Requests

\* A lookup hits a segment with its address, the only one; a miss takes the
\* last of the stack.
LEMMA SegmentUsed ==
  ASSUME CacheInv, Lookup
  PROVE  /\ UseSeg \in Segment
         /\ SegHit => /\ UseSeg = HitSeg /\ ssa[UseSeg] = req.at.tag
                      /\ present[UseSeg] # {}
         /\ ~SegHit => /\ UseSeg = lru[Ways]
                       /\ \A s \in Segment : present[s] # {} => ssa[s] # req.at.tag
<1>1. Ways \in Segment /\ lru[Ways] \in Segment
  BY CacheAssumption DEF Segment, CacheInv, CacheTypeOK
<1>2. ASSUME SegHit
      PROVE  HitSeg \in Segment /\ Matches(HitSeg)
  <2>1. PICK s \in Segment : Matches(s)
    BY <1>2 DEF SegHit
  <2>2. \A t \in Segment : Matches(t) => t = s
    BY <2>1 DEF CacheInv, CachedIsCurrent, Matches
  <2>3. \A t \in Segment : Matches(t) => t <= s
    BY <2>2 DEF Segment
  <2>. QED BY <2>1, <2>3 DEF HitSeg
<1>3. ASSUME SegHit
      PROVE  /\ UseSeg \in Segment /\ UseSeg = HitSeg
             /\ ssa[UseSeg] = req.at.tag /\ present[UseSeg] # {}
  BY <1>2, <1>3 DEF UseSeg, Matches
<1>4. ASSUME ~SegHit
      PROVE  /\ UseSeg = lru[Ways]
             /\ \A s \in Segment : present[s] # {} => ssa[s] # req.at.tag
  BY <1>4 DEF UseSeg, SegHit, Matches
<1>. QED BY <1>1, <1>3, <1>4

\* The stack after a use: the segment on top, those above it moved down.
LEMMA StackUsed ==
  ASSUME CacheInv, Lookup
  PROVE  \E p \in Segment :
            /\ lru[p] = UseSeg
            /\ UsedStack = Moved(lru, p)
<1>1. PICK s \in Segment : lru[s] = UseSeg
  BY SegmentUsed DEF CacheInv, StackOK, IsStack
<1>. QED BY <1>1 DEF UsedStack, Moved

-----------------------------------------------------------------------------
(* Types. *)

LEMMA TypeStep ==
  ASSUME CacheInv, NEW ack \in BOOLEAN, Clock(ack)
  PROVE  CacheTypeOK'
<1>. USE DEF CacheInv
<1>1. CacheTypeOK /\ CacheClock(ack)
  BY DEF Clock
<1>2. req' \in Requests \cup {NoReq} /\ cd' \in BOOLEAN /\ cf' \in BOOLEAN
  BY <1>1, RequestType DEF Clock
<1>3. mem' \in [Volatile -> {0, 1}]
  <2>1. mem \in [Volatile -> {0, 1}]
    BY <1>1 DEF CacheTypeOK
  <2>. QED BY <2>1 DEF Clock, Writers
<1>4. passing' \in BOOLEAN
  BY <1>1 DEF CacheClock, Passing
<1>5. state' \in {"IDLE", "HIT", "FILL", "DONE"} /\ half' \in {0, 1}
  BY <1>1 DEF CacheTypeOK, CacheClock, FlushFetch, FetchHit, FetchMiss, FillStep, Filled,
              EndFetch, Idle
<1>6. seg' \in Segment /\ keep' \in BOOLEAN
  BY <1>1, SegmentUsed
     DEF CacheTypeOK, CacheClock, FlushFetch, FetchHit, FetchMiss, FillStep, Filled,
         EndFetch, Idle, Flushed
<1>7. ssa' \in [Segment -> Tags \cup {Unused}]
  <2>1. CASE FetchMiss
    <3>1. req.at.tag \in Tags
      BY <1>1, <2>1, RequestFacts DEF FetchMiss, Lookup
    <3>. QED BY <1>1, <2>1, <3>1 DEF FetchMiss, CacheTypeOK
  <2>2. CASE ~FetchMiss
    BY <1>1, <2>2 DEF CacheTypeOK, CacheClock, FlushFetch, FetchHit, FillStep, Filled,
                      EndFetch, Idle
  <2>. QED BY <2>1, <2>2
<1>8. present' \in [Segment -> SUBSET Subs]
  <2>1. CASE FillStep(ack)
    <3>1. req.at.sub \in Subs
      BY <1>1, <2>1, RequestFacts DEF FillStep, Waiting
    <3>2. \/ present' = [s \in Segment |-> {}]
          \/ present' = present
          \/ present' = [present EXCEPT ![seg] = @ \cup {req.at.sub}]
      BY <2>1 DEF FillStep, Filled, Flushed
    <3>3. present \in [Segment -> SUBSET Subs] /\ seg \in Segment
      BY <1>1 DEF CacheTypeOK
    <3>. QED BY <3>1, <3>2, <3>3
  <2>2. CASE ~FillStep(ack)
    <3>1. \/ present' = [s \in Segment |-> {}]
          \/ present' = present
          \/ present' = [present EXCEPT ![UseSeg] = {}]
      BY <1>1, <2>2 DEF CacheClock, FlushFetch, FetchHit, FetchMiss, EndFetch, Idle, Flushed
    <3>2. present \in [Segment -> SUBSET Subs]
      BY <1>1 DEF CacheTypeOK
    <3>. QED BY <3>1, <3>2
  <2>. QED BY <2>1, <2>2
<1>9. lru' \in [Segment -> Segment]
  <2>1. lru \in [Segment -> Segment]
    BY <1>1 DEF CacheTypeOK
  <2>2. CASE Lookup /\ ~cf
    <3>1. PICK p \in Segment : UsedStack = Moved(lru, p)
      BY <2>2, StackUsed
    <3>2. lru' = UsedStack
      BY <1>1, <2>2 DEF CacheClock, FlushFetch, FetchHit, FetchMiss, FillStep, EndFetch,
                        Idle, Lookup
    <3>4. \A i \in Segment : i # 1 => i - 1 \in Segment
      BY CacheAssumption DEF Segment
    <3>. QED BY <2>1, <3>1, <3>2, <3>4 DEF Moved
  <2>3. CASE ~(Lookup /\ ~cf)
    <3>1. lru' = lru \/ lru' = [s \in Segment |-> s]
      BY <1>1, <2>3 DEF CacheClock, FlushFetch, FetchHit, FetchMiss, FillStep, Filled,
                        EndFetch, Idle, Flushed
    <3>. QED BY <2>1, <3>1
  <2>. QED BY <2>2, <2>3
<1>. QED BY <1>2, <1>3, <1>4, <1>5, <1>6, <1>7, <1>8, <1>9 DEF CacheTypeOK
-----------------------------------------------------------------------------
(* Flushes, and the order of use. *)

\* A clock with CF set leaves nothing of what was there.
LEMMA FlushClears ==
  ASSUME NEW ack \in BOOLEAN, Clock(ack), cf
  PROVE  Flushed /\ recent' = << >>
BY DEF Clock, CacheClock, FlushFetch, FetchHit, FetchMiss, FillStep, Filled, EndFetch, Idle,
       Uses

\* The moves of a clock without CF.
LEMMA Moves ==
  ASSUME NEW ack \in BOOLEAN, Clock(ack), ~cf
  PROVE  \/ Lookup /\ FetchHit
         \/ Lookup /\ FetchMiss
         \/ ~Lookup /\ state = "FILL" /\ ack /\ FillStep(ack)
         \/ ~Lookup /\ state \in {"HIT", "DONE"} /\ EndFetch
         \/ ~Lookup /\ state \notin {"HIT", "DONE"} /\ ~(state = "FILL" /\ ack) /\ Idle(ack)
<1>1. CacheClock(ack)
  BY DEF Clock
<1>2. CASE FlushFetch   BY <1>2 DEF FlushFetch
<1>3. CASE FetchHit     BY <1>3 DEF FetchHit
<1>4. CASE FetchMiss    BY <1>4 DEF FetchMiss
<1>5. CASE FillStep(ack) BY <1>5 DEF FillStep, Lookup
<1>6. CASE EndFetch     BY <1>6 DEF EndFetch, Lookup
<1>7. CASE Idle(ack)
  <2>1. ~Lookup /\ state \notin {"HIT", "DONE"} /\ ~(state = "FILL" /\ ack)
    BY <1>7 DEF Idle
  <2>. QED BY <1>7, <2>1
<1>. QED BY <1>1, <1>2, <1>3, <1>4, <1>5, <1>6, <1>7 DEF CacheClock

\* Where an element of a stack was before the one at p moved to the top.
PlaceBefore(i, p) == IF i = 1 THEN p ELSE IF i <= p THEN i - 1 ELSE i

LEMMA PlacesDiffer ==
  ASSUME NEW i \in Nat \ {0}, NEW j \in Nat \ {0}, NEW p \in Nat \ {0},
         PlaceBefore(i, p) = PlaceBefore(j, p)
  PROVE  i = j
<1>1. CASE i = 1 /\ j = 1      BY <1>1
<1>2. CASE i = 1 /\ j # 1      BY <1>2 DEF PlaceBefore
<1>3. CASE i # 1 /\ j = 1      BY <1>3 DEF PlaceBefore
<1>4. CASE i # 1 /\ j # 1      BY <1>4 DEF PlaceBefore
<1>. QED BY <1>1, <1>2, <1>3, <1>4

\* Moving an element of a stack to its top leaves it a stack.
LEMMA MoveToTop ==
  ASSUME NEW stack \in [Segment -> Segment], NEW p \in Segment,
         IsStack(stack)
  PROVE  IsStack(Moved(stack, p))
<1>. DEFINE new == Moved(stack, p)
<1>. USE DEF IsStack
<1>. HIDE DEF new
<1>0. \A i \in Segment : i \in Nat \ {0}
  BY DEF Segment
<1>1. ASSUME NEW s \in Segment
      PROVE  \E i \in Segment : new[i] = s
  <2>. USE CacheAssumption DEF Segment, Moved, new
  <2>1. PICK i \in Segment : stack[i] = s
    OBVIOUS
  <2>2. CASE i = p
    <3>1. new[1] = s /\ 1 \in Segment
      BY <2>1, <2>2
    <3>. QED BY <3>1
  <2>3. CASE i < p
    <3>1. new[i + 1] = s /\ i + 1 \in Segment
      BY <2>1, <2>3
    <3>. QED BY <3>1
  <2>4. CASE i > p
    <3>1. new[i] = s
      BY <2>1, <2>4
    <3>. QED BY <3>1
  <2>. QED BY <2>2, <2>3, <2>4
<1>2. ASSUME NEW i \in Segment, NEW j \in Segment, new[i] = new[j]
      PROVE  i = j
  <2>1. \A k \in Segment : PlaceBefore(k, p) \in Segment /\ new[k] = stack[PlaceBefore(k, p)]
    BY CacheAssumption DEF PlaceBefore, Segment, Moved, new
  <2>2. PlaceBefore(i, p) = PlaceBefore(j, p)
    BY <1>2, <2>1
  <2>. QED BY <1>0, <2>2, PlacesDiffer
<1>. QED BY <1>1, <1>2 DEF new

LEMMA StackStep ==
  ASSUME CacheInv, NEW ack \in BOOLEAN, Clock(ack)
  PROVE  StackOK'
<1>1. lru \in [Segment -> Segment] /\ StackOK
  BY DEF CacheInv, CacheTypeOK
<1>2. CASE cf
  <2>1. lru' = [s \in Segment |-> s]
    BY <1>2, FlushClears DEF Flushed
  <2>2. \A s \in Segment : lru'[s] = s
    BY <2>1
  <2>. QED BY <2>2 DEF StackOK, IsStack
<1>3. CASE ~cf /\ Lookup
  <2>1. lru' = UsedStack
    BY <1>3, Moves DEF FetchHit, FetchMiss
  <2>2. PICK p \in Segment : UsedStack = Moved(lru, p)
    BY <1>3, StackUsed
  <2>. QED BY <1>1, <2>1, <2>2, MoveToTop DEF StackOK
<1>4. CASE ~cf /\ ~Lookup
  <2>1. lru' = lru
    BY <1>4, Moves DEF FillStep, Filled, EndFetch, Idle
  <2>. QED BY <1>1, <2>1 DEF StackOK
<1>. QED BY <1>2, <1>3, <1>4

\* Where the address of a lookup stands among those used since the flush: where
\* its segment is in the stack, or nowhere.
LEMMA PlaceOfUse ==
  ASSUME CacheInv, Lookup,
         NEW p \in Segment, lru[p] = UseSeg
  PROVE  /\ SegHit => p <= Len(recent) /\ UsedAt = p /\ Kept = Len(recent)
         /\ ~SegHit => /\ p = Ways /\ UsedAt = Len(recent) + 1
                       /\ Kept = IF Len(recent) = Ways THEN Ways ELSE Len(recent) + 1
<1>. DEFINE n == Len(recent)
<1>1. n \in Nat /\ n <= Ways /\ Ways \in Nat \ {0} /\ 1 .. n \subseteq Segment
  BY CacheAssumption DEF Segment, CacheInv, UsedPresent
<1>2. \A i \in 1 .. n : /\ i \in Segment /\ lru[i] \in Segment
                        /\ recent[i] = ssa[lru[i]] /\ present[lru[i]] # {}
  BY <1>1 DEF CacheInv, UsedPresent, LruIsRecency, Lookup, CacheTypeOK
<1>3. \A i \in Segment : lru[i] = UseSeg => i = p
  BY DEF CacheInv, StackOK, IsStack
<1>4. CASE SegHit
  <2>1. UseSeg \in Segment /\ ssa[UseSeg] = req.at.tag /\ present[UseSeg] # {}
    BY <1>4, SegmentUsed
  <2>2. p <= n
    <3>1. p > n => present[lru[p]] = {}
      BY DEF CacheInv, UsedPresent
    <3>. QED BY <1>1, <2>1, <3>1 DEF Segment
  <2>3. recent[p] = req.at.tag /\ p \in 1 .. n
    BY <1>2, <2>1, <2>2, <1>1 DEF Segment
  <2>4. ASSUME NEW i \in 1 .. n, recent[i] = req.at.tag
        PROVE  i = p
    <3>1. lru[i] \in Segment /\ ssa[lru[i]] = ssa[UseSeg] /\ present[lru[i]] # {}
      BY <1>2, <2>1, <2>4
    <3>2. lru[i] = UseSeg
      BY <2>1, <3>1 DEF CacheInv, CachedIsCurrent
    <3>. QED BY <1>2, <1>3, <3>2
  <2>5. UsedAt = p
    BY <2>3, <2>4 DEF UsedAt
  <2>. QED BY <1>4, <2>2, <2>5 DEF Kept
<1>5. CASE ~SegHit
  <2>1. UseSeg = lru[Ways] /\ Ways \in Segment
    BY <1>1, <1>5, SegmentUsed DEF Segment
  <2>2. p = Ways
    BY <1>3, <2>1
  <2>3. \A i \in 1 .. n : recent[i] # req.at.tag
    BY <1>2, <1>5, SegmentUsed
  <2>4. UsedAt = n + 1
    BY <2>3 DEF UsedAt
  <2>5. Kept = IF n = Ways THEN Ways ELSE n + 1
    BY <1>1, <2>4 DEF Kept
  <2>. QED BY <1>5, <2>2, <2>4, <2>5
<1>. QED BY <1>4, <1>5
\* A lookup: the stack and the order of use change in the same way.
LEMMA UseStep ==
  ASSUME CacheInv, NEW ack \in BOOLEAN, Clock(ack), ~cf, Lookup
  PROVE  UsedPresent' /\ LruIsRecency'
<1>. DEFINE n == Len(recent)
            tag == req.at.tag
<1>1. /\ n \in Nat /\ n <= Ways /\ Ways \in Nat \ {0} /\ recent \in Seq(Tags)
      /\ tag \in Tags /\ 1 .. n \subseteq Segment
  BY RequestFacts, CacheAssumption DEF Segment, CacheInv, UsedPresent, Lookup
<1>2. PICK p \in Segment : lru[p] = UseSeg /\ UsedStack = Moved(lru, p)
  BY StackUsed
<1>3. lru' = Moved(lru, p)
  BY <1>2, Moves DEF FetchHit, FetchMiss
<1>4. /\ recent' = [i \in 1 .. Kept |-> IF i = 1 THEN tag
                                       ELSE IF i <= UsedAt THEN recent[i - 1] ELSE recent[i]]
  BY DEF Clock, Uses
<1>5. /\ lru \in [Segment -> Segment] /\ ssa \in [Segment -> Tags \cup {Unused}]
      /\ present \in [Segment -> SUBSET Subs]
      /\ \A i, j \in Segment : lru[i] = lru[j] => i = j
  BY DEF CacheInv, CacheTypeOK, StackOK, IsStack
<1>6. \A i \in 1 .. n : recent[i] \in Tags
  BY <1>1
<1>7. \A i \in Segment : /\ i > n => present[lru[i]] = {}
                         /\ i <= n => present[lru[i]] # {} /\ ssa[lru[i]] = recent[i]
  BY DEF CacheInv, UsedPresent, LruIsRecency, Lookup
<1>8. UseSeg \in Segment
  BY SegmentUsed
<1>. HIDE DEF n, tag
<1>9. CASE SegHit
  <2>1. p <= n /\ UsedAt = p /\ Kept = n
    BY <1>2, <1>9, PlaceOfUse DEF n
  <2>2. ssa[UseSeg] = tag
    BY <1>9, SegmentUsed DEF tag
  <2>3. ssa' = ssa /\ present' = present
    BY <1>9, Moves DEF FetchHit, FetchMiss
  <2>4. recent' = [i \in 1 .. n |-> IF i = 1 THEN tag
                                   ELSE IF i <= p THEN recent[i - 1] ELSE recent[i]]
    BY <1>4, <2>1
  <2>5. \A i \in 1 .. n : i # 1 => i - 1 \in 1 .. n
    BY <1>1
  <2>6. recent' \in Seq(Tags) /\ Len(recent') = n
    <3>1. \A i \in 1 .. n : recent'[i] \in Tags
      BY <1>1, <1>6, <2>4, <2>5
    <3>. QED BY <1>1, <2>4, <3>1
  <2>7. ASSUME NEW i \in Segment
        PROVE  \/ i = 1 /\ lru'[i] = UseSeg
               \/ i # 1 /\ i <= p /\ lru'[i] = lru[i - 1]
               \/ i > p /\ lru'[i] = lru[i]
    BY <1>1, <1>2, <1>3 DEF Moved, Segment
  <2>8. ASSUME NEW i \in Segment, i > n
        PROVE  present'[lru'[i]] = {}
    <3>1. i # 1 /\ i > p
      BY <1>1, <2>1, <2>8 DEF Segment
    <3>2. lru'[i] = lru[i]
      BY <1>1, <2>7, <3>1 DEF Segment
    <3>. QED BY <1>7, <2>3, <2>8, <3>2
  <2>9. ASSUME NEW i \in Segment, i <= n
        PROVE  present'[lru'[i]] # {} /\ ssa'[lru'[i]] = recent'[i]
    <3>1. i \in 1 .. n /\ p \in Segment
      BY <1>1, <2>9 DEF Segment
    <3>2. CASE i = 1 /\ lru'[i] = UseSeg
      BY <1>2, <1>7, <2>1, <2>2, <2>3, <2>4, <3>1, <3>2
    <3>3. CASE i # 1 /\ i <= p /\ lru'[i] = lru[i - 1]
      <4>1. i - 1 \in Segment /\ i - 1 <= n
        BY <1>1, <2>5, <3>1, <3>3
      <4>. QED BY <1>7, <2>3, <2>4, <3>1, <3>3, <4>1
    <3>4. CASE i > p /\ lru'[i] = lru[i]
      <4>1. i # 1
        BY <3>1, <3>4 DEF Segment
      <4>. QED BY <1>7, <2>3, <2>4, <2>9, <3>1, <3>4, <4>1 DEF Segment
    <3>. QED BY <2>7, <3>2, <3>3, <3>4
  <2>. QED BY <1>1, <2>6, <2>8, <2>9 DEF UsedPresent, LruIsRecency
<1>10. CASE ~SegHit
  <2>1. p = Ways /\ UsedAt = n + 1 /\ Kept = IF n = Ways THEN Ways ELSE n + 1
    BY <1>2, <1>10, PlaceOfUse DEF n
  <2>2. /\ ssa' = [ssa EXCEPT ![UseSeg] = tag] /\ present' = [present EXCEPT ![UseSeg] = {}]
        /\ state' = "FILL" /\ seg' = UseSeg
    <3>1. ~WordHit
      BY <1>10 DEF WordHit
    <3>. QED BY <1>10, <3>1, Moves DEF FetchHit, FetchMiss, tag
  <2>3. Kept \in Nat /\ Kept >= 1 /\ Kept <= Ways /\ Kept <= n + 1
    BY <1>1, <2>1
  <2>. HIDE DEF Kept
  <2>4. recent' = [i \in 1 .. Kept |-> IF i = 1 THEN tag ELSE recent[i - 1]]
    BY <1>1, <1>4, <2>1, <2>3
  <2>5. \A i \in 1 .. Kept : i # 1 => i - 1 \in 1 .. n
    BY <1>1, <2>3
  <2>6. recent' \in Seq(Tags) /\ Len(recent') = Kept
    <3>1. \A i \in 1 .. Kept : recent'[i] \in Tags
      BY <1>1, <1>6, <2>4, <2>5
    <3>. QED BY <2>3, <2>4, <3>1
  <2>7. lru'[1] = UseSeg /\ 1 \in Segment
    BY <1>1, <1>2, <1>3 DEF Moved, Segment
  <2>8. ASSUME NEW i \in Segment, i # 1
        PROVE  i - 1 \in Segment /\ lru'[i] = lru[i - 1] /\ lru'[i] # UseSeg
    <3>1. i - 1 \in Segment /\ i - 1 # Ways /\ i <= Ways
      BY <1>1, <2>8 DEF Segment
    <3>2. lru'[i] = lru[i - 1]
      BY <1>3, <2>1, <2>8, <3>1 DEF Moved
    <3>. QED BY <1>2, <1>5, <2>1, <3>1, <3>2
  <2>9. ASSUME NEW i \in Segment, i > Kept
        PROVE  present'[lru'[i]] = {}
    <3>1. i # 1 /\ i - 1 > n
      BY <1>1, <2>1, <2>3, <2>9 DEF Segment
    <3>2. i - 1 \in Segment /\ lru'[i] = lru[i - 1] /\ lru'[i] # UseSeg
      BY <2>8, <3>1
    <3>. QED BY <1>5, <1>7, <2>2, <3>1, <3>2
  <2>10. ASSUME NEW i \in Segment, i <= Kept
         PROVE  /\ i # 1 => present'[lru'[i]] # {}
                /\ ssa'[lru'[i]] = recent'[i]
    <3>1. i \in 1 .. Kept
      BY <2>3, <2>10 DEF Segment
    <3>2. CASE i = 1
      BY <1>5, <1>8, <2>2, <2>4, <2>7, <3>1, <3>2
    <3>3. CASE i # 1
      <4>1. i - 1 \in Segment /\ lru'[i] = lru[i - 1] /\ lru'[i] # UseSeg
        BY <2>8, <3>3
      <4>2. i - 1 \in 1 .. n /\ i - 1 <= n
        BY <1>1, <2>5, <3>1, <3>3
      <4>3. present[lru[i - 1]] # {} /\ ssa[lru[i - 1]] = recent[i - 1]
        BY <1>7, <4>1, <4>2
      <4>4. lru[i - 1] \in Segment
        BY <1>5, <4>1
      <4>. QED BY <1>5, <2>2, <2>4, <3>1, <3>3, <4>1, <4>3, <4>4
    <3>. QED BY <3>2, <3>3
  <2>11. ASSUME NEW i \in Segment, i <= Kept
         PROVE  \/ present'[lru'[i]] # {}
                \/ state' = "FILL" /\ i = 1 /\ lru'[1] = seg'
    BY <2>2, <2>7, <2>10, <2>11
  <2>. QED BY <2>3, <2>6, <2>9, <2>10, <2>11 DEF UsedPresent, LruIsRecency
<1>. QED BY <1>9, <1>10
\* A clock without a lookup keeps the stack and the order of use; a fill that is
\* kept ends with something present in the segment on top.
LEMMA OrderStep ==
  ASSUME CacheInv, NEW ack \in BOOLEAN, Clock(ack), ~cf, ~Lookup
  PROVE  UsedPresent' /\ LruIsRecency'
<1>1. recent' = recent /\ lru' = lru /\ ssa' = ssa /\ seg' = seg
  BY Moves DEF Clock, Uses, FillStep, Filled, EndFetch, Idle
<1>2. LruIsRecency'
  BY <1>1 DEF CacheInv, LruIsRecency
<1>3. UsedPresent /\ lru \in [Segment -> Segment] /\ seg \in Segment
      /\ present \in [Segment -> SUBSET Subs]
  BY DEF CacheInv, CacheTypeOK
<1>4. CASE present' = present /\ (state' = "FILL" \/ state # "FILL")
  <2>1. CASE state # "FILL" BY <1>1, <1>2, <1>3, <1>4, <2>1 DEF UsedPresent
  <2>2. CASE state' = "FILL" BY <1>1, <1>2, <1>3, <1>4, <2>2 DEF UsedPresent
  <2>. QED BY <1>4, <2>1, <2>2
<1>5. CASE state = "FILL" /\ ~keep /\ present' = present
  <2>1. recent = << >> /\ Len(recent) = 0
    BY <1>5 DEF CacheInv, Filling
  <2>. QED BY <1>1, <1>2, <1>3, <1>5, <2>1 DEF UsedPresent, Segment
<1>6. CASE /\ state = "FILL" /\ keep
           /\ present' = [present EXCEPT ![seg] = @ \cup {req.at.sub}]
  <2>1. lru[1] = seg /\ recent # << >>
    BY <1>6 DEF CacheInv, Filling
  <2>2. Len(recent) \in Nat /\ Len(recent) # 0
    BY <1>3, <2>1 DEF UsedPresent
  <2>3. /\ \A s \in Segment : s # seg => present'[s] = present[s]
        /\ present'[seg] # {}
    BY <1>3, <1>6
  <2>4. 1 \in Segment /\ \A i \in Segment : i # 1 => lru[i] # seg
    BY <2>1, CacheAssumption DEF CacheInv, StackOK, IsStack, Segment
  <2>5. ASSUME NEW i \in Segment, i > Len(recent)
        PROVE  present'[lru[i]] = {}
    <3>1. i # 1 /\ lru[i] \in Segment /\ lru[i] # seg
      BY <1>3, <2>2, <2>4, <2>5
    <3>2. present[lru[i]] = {}
      BY <1>3, <2>5 DEF UsedPresent
    <3>. QED BY <2>3, <3>1, <3>2
  <2>6. ASSUME NEW i \in Segment, i <= Len(recent)
        PROVE  present'[lru[i]] # {}
    <3>1. CASE i = 1
      BY <2>1, <2>3, <3>1
    <3>2. CASE i # 1
      <4>1. lru[i] \in Segment /\ lru[i] # seg
        BY <1>3, <2>4, <3>2
      <4>2. present[lru[i]] # {}
        BY <1>3, <2>6, <3>2 DEF UsedPresent
      <4>. QED BY <2>3, <4>1, <4>2
    <3>. QED BY <3>1, <3>2
  <2>. QED BY <1>1, <1>2, <1>3, <2>5, <2>6 DEF UsedPresent
<1>7. \/ present' = present /\ (state' = "FILL" \/ state # "FILL")
      \/ state = "FILL" /\ ~keep /\ present' = present
      \/ /\ state = "FILL" /\ keep
         /\ present' = [present EXCEPT ![seg] = @ \cup {req.at.sub}]
  <2>1. CASE state = "FILL" /\ ack /\ FillStep(ack)
    <3>1. /\ present' = IF half = 1 /\ keep THEN [present EXCEPT ![seg] = @ \cup {req.at.sub}]
                       ELSE present
          /\ half = 0 => state' = state
      BY <2>1 DEF FillStep, Filled
    <3>2. half = 0 \/ half = 1
      BY DEF CacheInv, CacheTypeOK
    <3>3. keep \in BOOLEAN
      BY DEF CacheInv, CacheTypeOK
    <3>4. CASE half = 0       BY <2>1, <3>1, <3>4
    <3>5. CASE half = 1 /\ keep  BY <2>1, <3>1, <3>5
    <3>6. CASE half = 1 /\ ~keep BY <2>1, <3>1, <3>6
    <3>. QED BY <3>2, <3>3, <3>4, <3>5, <3>6
  <2>2. CASE state \in {"HIT", "DONE"} /\ EndFetch
    BY <2>2 DEF EndFetch
  <2>3. CASE Idle(ack)
    BY <2>3 DEF Idle
  <2>. QED BY <2>1, <2>2, <2>3, Moves
<1>. QED BY <1>2, <1>4, <1>5, <1>6, <1>7

\* The order of use survives a clock of any kind.
LEMMA RecencyStep ==
  ASSUME CacheInv, NEW ack \in BOOLEAN, Clock(ack)
  PROVE  UsedPresent' /\ LruIsRecency'
<1>1. CASE cf
  <2>1. present' = [s \in Segment |-> {}] /\ lru' = [s \in Segment |-> s] /\ recent' = << >>
    BY <1>1, FlushClears DEF Flushed
  <2>2. recent' \in Seq(Tags) /\ Len(recent') = 0 /\ Ways \in Nat
    BY <2>1, CacheAssumption
  <2>. QED BY <2>1, <2>2 DEF UsedPresent, LruIsRecency, Segment
<1>. QED BY <1>1, UseStep, OrderStep

-----------------------------------------------------------------------------
(* Words on their way. *)

\* The request waits through a lookup and a fill.
LEMMA FetchWaits ==
  ASSUME CacheInv, NEW ack \in BOOLEAN, Clock(ack), state' # "IDLE"
  PROVE  /\ req' = req /\ req # NoReq /\ req.fetch
         /\ state = "FILL" \/ Lookup
<1>1. state = "FILL" \/ Lookup
  BY DEF Clock, CacheClock, FlushFetch, FetchHit, FetchMiss, FillStep, EndFetch, Idle,
         CacheInv, CacheTypeOK
<1>2. req # NoReq /\ req.fetch
  BY <1>1 DEF Lookup, Pass, CacheInv, Waiting
<1>3. ~CAck(ack)
  BY <1>1 DEF Lookup, CAck
<1>. QED BY <1>1, <1>2, <1>3, RequestHeld

LEMMA WaitingStep ==
  ASSUME CacheInv, NEW ack \in BOOLEAN, Clock(ack)
  PROVE  Waiting'
BY FetchWaits DEF Waiting

\* The value of a word after the clock.
NextValue(w) == [word |-> w, version |-> IF w \in Volatile THEN mem'[w] ELSE 0]

\* What is current stays so until a flush.
LEMMA CurrentStays ==
  ASSUME NEW ack, Clock(ack), ~cf, mem \in [Volatile -> {0, 1}]
  PROVE  \A v, w : Current(v, w) => v.word = w /\ (v = NextValue(w) \/ w \in written')
<1>1. CASE UNCHANGED mem /\ written' = written
  BY <1>1 DEF Current, Value, NextValue
<1>2. CASE \E x \in Volatile : /\ mem' = [mem EXCEPT ![x] = 1 - @]
                              /\ written' = written \cup {x}
  <2>1. PICK x \in Volatile : mem' = [mem EXCEPT ![x] = 1 - @] /\ written' = written \cup {x}
    BY <1>2
  <2>2. \A w : w # x => NextValue(w) = Value(w)
    BY <2>1 DEF Value, NextValue
  <2>. QED BY <2>1, <2>2 DEF Current
<1>. QED BY <1>1, <1>2 DEF Clock, Writers
\* The words of a read of the fill.
LEMMA FillReads ==
  ASSUME CacheInv, NEW ack \in BOOLEAN, Clock(ack), state = "FILL", ack
  PROVE  \A i \in Half(half) : /\ HalfRead[i].word = Ith(req.at, i)
                               /\ keep => Current(HalfRead[i], Ith(req.at, i))
<1>1. reading # NoValue /\ Reading
  BY DEF Clock, CacheInv
<1>2. MWords = {Ith(req.at, i) : i \in Half(half)}
  BY DEF MWords
<1>3. \A w \in MWords : reading[w].word = w /\ (keep => Current(reading[w], w))
  BY <1>1 DEF Reading
<1>. QED BY <1>2, <1>3 DEF HalfRead

\* The data store changes where the fill writes.
LEMMA StoreKept ==
  ASSUME NEW ack \in BOOLEAN, Clock(ack), ~(state = "FILL" /\ ack)
  PROVE  /\ ram' = ram
         /\ state # "DONE" => lo' = lo /\ hi' = hi
BY DEF Clock, CacheClock, Store

LEMMA StoreFilled ==
  ASSUME CacheInv, NEW ack \in BOOLEAN, Clock(ack), state = "FILL", ack
  PROVE  /\ \A s \in Segment, b \in Subs, i \in 0 .. 3 :
                ram'[s][b][i] = IF s = seg /\ b = req.at.sub /\ i \in Half(half)
                                THEN HalfRead[i] ELSE ram[s][b][i]
         /\ DOMAIN ram' = Segment
         /\ \A s \in Segment : /\ DOMAIN ram'[s] = Subs
                               /\ \A b \in Subs : DOMAIN ram'[s][b] = 0 .. 3
         /\ half = 0 => lo' = HalfRead /\ hi' = hi
         /\ half = 1 => lo' = lo /\ hi' = HalfRead
<1>1. StoreTypeOK /\ seg \in Segment
  BY DEF CacheInv, CacheTypeOK
<1>2. req.at.sub \in Subs
  BY RequestFacts DEF CacheInv, Waiting
<1>. DEFINE sub == req.at.sub
            new == [i \in 0 .. 3 |-> IF i \in Half(half) THEN HalfRead[i] ELSE ram[seg][sub][i]]
<1>3. ram' = [ram EXCEPT ![seg] = [@ EXCEPT ![sub] = new]]
  BY DEF Clock, CacheClock, Store
<1>4. DOMAIN new = 0 .. 3
  OBVIOUS
<1>5. \A i \in 0 .. 3 : new[i] = IF i \in Half(half) THEN HalfRead[i] ELSE ram[seg][sub][i]
  OBVIOUS
<1>. HIDE DEF new, sub
<1>6. /\ DOMAIN ram' = Segment /\ DOMAIN ram'[seg] = Subs
      /\ ram'[seg][sub] = new
      /\ \A b \in Subs : b # sub => ram'[seg][b] = ram[seg][b]
      /\ \A s \in Segment : s # seg => ram'[s] = ram[s]
  BY <1>1, <1>2, <1>3 DEF StoreTypeOK, sub
<1>7. /\ half = 0 => lo' = HalfRead /\ hi' = hi
      /\ half = 1 => lo' = lo /\ hi' = HalfRead
  BY DEF Clock, CacheClock, Store
<1>8. \A s \in Segment, b \in Subs :
         ram'[s][b] = IF s = seg /\ b = sub THEN new ELSE ram[s][b]
  BY <1>6
<1>9. ASSUME NEW s \in Segment, NEW b \in Subs, NEW i \in 0 .. 3
      PROVE  ram'[s][b][i] = IF s = seg /\ b = sub /\ i \in Half(half)
                             THEN HalfRead[i] ELSE ram[s][b][i]
  BY <1>5, <1>8
<1>10. ASSUME NEW s \in Segment
       PROVE  /\ DOMAIN ram'[s] = Subs
              /\ \A b \in Subs : DOMAIN ram'[s][b] = 0 .. 3
  BY <1>1, <1>4, <1>6, <1>8 DEF StoreTypeOK
<1>. QED BY <1>6, <1>7, <1>9, <1>10 DEF sub

LEMMA StoreStep ==
  ASSUME CacheInv, NEW ack \in BOOLEAN, Clock(ack)
  PROVE  StoreTypeOK'
<1>1. StoreTypeOK /\ half \in {0, 1}
  BY DEF CacheInv, CacheTypeOK
<1>2. CASE state = "FILL" /\ ack
  <2>1. DOMAIN HalfRead = Half(half)
    BY DEF HalfRead
  <2>2. DOMAIN lo' = Half(0) /\ DOMAIN hi' = Half(1)
    BY <1>1, <1>2, <2>1, StoreFilled DEF StoreTypeOK
  <2>. QED BY <1>2, <2>2, StoreFilled DEF StoreTypeOK
<1>3. CASE ~(state = "FILL" /\ ack)
  <2>1. ram' = ram
    BY <1>3, StoreKept
  <2>2. \/ lo' = lo /\ hi' = hi
        \/ lo' = Blank(0) /\ hi' = Blank(1)
    BY <1>3 DEF Clock, CacheClock, Store
  <2>. QED BY <1>1, <2>1, <2>2 DEF StoreTypeOK, Blank
<1>. QED BY <1>2, <1>3

\* What a clock without CF leaves in the store is as current as before.
LEMMA HoldsOn ==
  ASSUME CacheInv, NEW ack \in BOOLEAN, Clock(ack), ~cf,
         NEW s \in Segment, NEW b \in Subs, NEW i \in 0 .. 3,
         Holds(s, b, i), ram'[s][b][i] = ram[s][b][i], ssa'[s] = ssa[s]
  PROVE  Holds(s, b, i)'
<1>1. mem \in [Volatile -> {0, 1}]
  BY DEF CacheInv, CacheTypeOK
<1>. DEFINE w == [tag |-> ssa[s], sub |-> b, i |-> i]
<1>2. /\ ram[s][b][i].word = w
      /\ ram[s][b][i] = NextValue(w) \/ w \in written'
  <2>. HIDE DEF w
  <2>1. Current(ram[s][b][i], w)
    BY DEF Holds, w
  <2>. QED BY <1>1, <2>1, CurrentStays
<1>. QED BY <1>2 DEF Holds, Current, Value, NextValue

\* What a kept fill has read is current in its place.
LEMMA HoldsRead ==
  ASSUME CacheInv, NEW ack \in BOOLEAN, Clock(ack), ~cf,
         state = "FILL", ack, keep, NEW i \in Half(half)
  PROVE  Holds(seg, req.at.sub, i)'
<1>1. /\ mem \in [Volatile -> {0, 1}] /\ seg \in Segment /\ half \in {0, 1}
      /\ req.at \in Word /\ req.at.sub \in Subs /\ i \in 0 .. 3
      /\ ssa[seg] = req.at.tag
  BY RequestFacts, Halves DEF CacheInv, CacheTypeOK, Waiting, Filling
<1>2. ssa' = ssa /\ seg' = seg /\ req' = req
  <2>1. req # NoReq /\ ~CAck(ack)
    BY DEF CacheInv, Waiting, CAck
  <2>2. ssa' = ssa /\ seg' = seg
    BY Moves DEF FillStep, Filled, Lookup, Idle, EndFetch
  <2>. QED BY <2>1, <2>2, RequestHeld
<1>3. ram'[seg][req.at.sub][i] = HalfRead[i]
  BY <1>1, StoreFilled
<1>. DEFINE w == [tag |-> ssa[seg], sub |-> req.at.sub, i |-> i]
<1>4. Current(HalfRead[i], w)
  BY <1>1, FillReads, IthWord
<1>5. /\ HalfRead[i].word = w
      /\ HalfRead[i] = NextValue(w) \/ w \in written'
  <2>. HIDE DEF w
  <2>. QED BY <1>1, <1>4, CurrentStays
<1>. QED BY <1>2, <1>3, <1>5 DEF Holds, Current, Value, NextValue
\* What is present, and where its words come from.
LEMMA CurrentStep ==
  ASSUME CacheInv, NEW ack \in BOOLEAN, Clock(ack)
  PROVE  CachedIsCurrent'
<1>1. /\ CachedIsCurrent /\ present \in [Segment -> SUBSET Subs]
      /\ ssa \in [Segment -> Tags \cup {Unused}]
      /\ seg \in Segment /\ half \in {0, 1} /\ keep \in BOOLEAN
  BY DEF CacheInv, CacheTypeOK
<1>2. \A s \in Segment, b \in Subs, i \in 0 .. 3 : b \in present[s] => Holds(s, b, i)
  BY <1>1 DEF CachedIsCurrent, Holds, Current
<1>3. SUFFICES /\ \A s \in Segment, b \in Subs, i \in 0 .. 3 :
                     b \in present'[s] => Holds(s, b, i)'
               /\ \A s, t \in Segment :
                     s # t /\ present'[s] # {} /\ present'[t] # {} => ssa'[s] # ssa'[t]
  <2>1. present' \in [Segment -> SUBSET Subs]
    BY TypeStep DEF CacheTypeOK
  <2>2. \A s \in Segment : \A b \in present'[s] : b \in Subs
    BY <2>1
  <2>. QED BY <2>2 DEF CachedIsCurrent, Holds, Current
<1>4. CASE cf
  BY <1>4, FlushClears DEF Flushed
<1>5. CASE ~cf /\ Lookup
  <2>1. ram' = ram /\ UseSeg \in Segment
    BY <1>5, StoreKept, SegmentUsed DEF Lookup
  <2>2. \/ ssa' = ssa /\ present' = present
        \/ /\ ssa' = [ssa EXCEPT ![UseSeg] = req.at.tag]
           /\ present' = [present EXCEPT ![UseSeg] = {}]
    BY <1>5, Moves DEF FetchHit, FetchMiss
  <2>3. \A s \in Segment :
           present'[s] # {} => present'[s] = present[s] /\ ssa'[s] = ssa[s]
    BY <1>1, <2>1, <2>2
  <2>4. ASSUME NEW s \in Segment, NEW b \in Subs, NEW i \in 0 .. 3, b \in present'[s]
        PROVE  Holds(s, b, i)'
    BY <1>2, <1>5, <2>1, <2>3, <2>4, HoldsOn
  <2>. QED BY <1>1, <2>3, <2>4 DEF CachedIsCurrent
<1>6. CASE ~cf /\ ~Lookup
  <2>1. ssa' = ssa /\ seg' = seg
    BY <1>6, Moves DEF FillStep, Filled, EndFetch, Idle
  <2>2. CASE present' = present
    <3>1. ASSUME NEW s \in Segment, NEW b \in Subs, NEW i \in 0 .. 3, b \in present[s]
          PROVE  ram'[s][b][i] = ram[s][b][i]
      <4>1. CASE state = "FILL" /\ ack
        <5>1. ~(s = seg /\ b = req.at.sub)
          BY <1>1, <3>1, <4>1 DEF CacheInv, Filling
        <5>. QED BY <4>1, <5>1, StoreFilled
      <4>. QED BY <4>1, StoreKept
    <3>2. ASSUME NEW s \in Segment, NEW b \in Subs, NEW i \in 0 .. 3, b \in present'[s]
          PROVE  Holds(s, b, i)'
      BY <1>2, <1>6, <2>1, <2>2, <3>1, <3>2, HoldsOn
    <3>. QED BY <1>1, <2>1, <2>2, <3>2 DEF CachedIsCurrent
  <2>3. CASE /\ state = "FILL" /\ ack /\ keep /\ half = 1
             /\ present' = [present EXCEPT ![seg] = @ \cup {req.at.sub}]
    <3>1. /\ \A i \in Half(0) : Holds(seg, req.at.sub, i)
          /\ \A t \in Segment \ {seg} : present[t] # {} => ssa[t] # ssa[seg]
          /\ req.at.sub \in Subs
      BY <2>3, RequestFacts DEF CacheInv, Filling, Waiting
    <3>2. req' = req
      <4>1. req # NoReq /\ ~CAck(ack)
        BY <2>3 DEF CacheInv, Waiting, CAck
      <4>. QED BY <4>1, RequestHeld
    <3>3. ASSUME NEW i \in 0 .. 3
          PROVE  Holds(seg, req.at.sub, i)'
      <4>1. CASE i \in Half(1)
        BY <1>6, <2>3, <4>1, HoldsRead
      <4>2. CASE i \notin Half(1)
        <5>1. i \in Half(0)
          BY <4>2, Halves
        <5>2. ram'[seg][req.at.sub][i] = ram[seg][req.at.sub][i]
          <6>1. i \notin Half(half)
            BY <2>3, <4>2
          <6>2. seg \in Segment /\ req.at.sub \in Subs /\ state = "FILL" /\ ack
            BY <1>1, <2>3, <3>1
          <6>. QED BY <6>1, <6>2, StoreFilled
        <5>3. \A s \in Segment, b \in Subs :
                 s = seg /\ b = req.at.sub => Holds(s, b, i)'
          BY <1>6, <2>1, <3>1, <5>1, <5>2, HoldsOn
        <5>. QED BY <1>1, <2>1, <3>1, <3>2, <5>3 DEF Holds
      <4>. QED BY <4>1, <4>2
    <3>4. ASSUME NEW s \in Segment, NEW b \in Subs, NEW i \in 0 .. 3, b \in present'[s]
          PROVE  Holds(s, b, i)'
      <4>1. CASE s = seg /\ b = req.at.sub
        BY <2>1, <3>2, <3>3, <4>1 DEF Holds
      <4>2. CASE ~(s = seg /\ b = req.at.sub)
        <5>1. b \in present[s]
          BY <1>1, <2>3, <3>4, <4>2
        <5>2. ram'[s][b][i] = ram[s][b][i]
          BY <2>3, <4>2, StoreFilled
        <5>. QED BY <1>2, <1>6, <2>1, <5>1, <5>2, HoldsOn
      <4>. QED BY <4>1, <4>2
    <3>5. \A s \in Segment : s # seg => present'[s] = present[s]
      BY <1>1, <2>3
    <3>6. ASSUME NEW s \in Segment, NEW t \in Segment,
                 s # t, present'[s] # {}, present'[t] # {}
          PROVE  ssa'[s] # ssa'[t]
      BY <1>1, <2>1, <3>1, <3>5, <3>6 DEF CachedIsCurrent
    <3>. QED BY <3>4, <3>6
  <2>4. \/ present' = present
        \/ /\ state = "FILL" /\ ack /\ keep /\ half = 1
           /\ present' = [present EXCEPT ![seg] = @ \cup {req.at.sub}]
    <3>1. CASE state = "FILL" /\ ack /\ FillStep(ack)
      BY <1>6, <3>1 DEF FillStep, Filled
    <3>2. CASE EndFetch  BY <1>6, <3>2 DEF EndFetch
    <3>3. CASE Idle(ack) BY <1>6, <3>3 DEF Idle
    <3>. QED BY <1>6, <3>1, <3>2, <3>3, Moves
  <2>. QED BY <2>2, <2>3, <2>4
<1>. QED BY <1>4, <1>5, <1>6

\* The fill goes on with the segment it began with, or keeps nothing.
LEMMA FillingStep ==
  ASSUME CacheInv, NEW ack \in BOOLEAN, Clock(ack)
  PROVE  Filling'
<1>1. SUFFICES ASSUME state' = "FILL"
               PROVE  IF keep'
                      THEN /\ ssa'[seg'] = req'.at.tag /\ req'.at.sub \notin present'[seg']
                           /\ \A t \in Segment \ {seg'} :
                                 present'[t] # {} => ssa'[t] # ssa'[seg']
                           /\ half' = 1 => \A i \in Half(0) : Holds(seg, req.at.sub, i)'
                           /\ lru'[1] = seg' /\ recent' # << >>
                      ELSE recent' = << >> /\ \A s \in Segment : present'[s] = {}
  BY DEF Filling, Holds
<1>2. /\ present \in [Segment -> SUBSET Subs] /\ ssa \in [Segment -> Tags \cup {Unused}]
      /\ seg \in Segment /\ half \in {0, 1} /\ CachedIsCurrent
  BY DEF CacheInv, CacheTypeOK
<1>3. req' = req /\ (state = "FILL" \/ Lookup)
  BY <1>1, FetchWaits
<1>4. CASE cf
  <2>1. /\ present' = [s \in Segment |-> {}] /\ keep' = FALSE /\ recent' = << >>
    BY <1>4, FlushClears DEF Flushed
  <2>. QED BY <2>1
<1>5. CASE ~cf /\ Lookup
  <2>1. FetchMiss
    BY <1>1, <1>5, Moves DEF FetchHit
  <2>2. UseSeg \in Segment
    BY <1>5, SegmentUsed
  <2>3. keep' = TRUE /\ half' = 0 /\ seg' = UseSeg
    BY <2>1 DEF FetchMiss
  <2>4. PICK p \in Segment : lru[p] = UseSeg /\ UsedStack = Moved(lru, p)
    BY <1>5, StackUsed
  <2>5. lru'[1] = UseSeg
    <3>1. 1 \in Segment
      BY CacheAssumption DEF Segment
    <3>. QED BY <2>1, <2>4, <3>1 DEF FetchMiss, Moved
  <2>6. recent' # << >>
    <3>1. Len(recent) \in Nat /\ p >= 1
      BY DEF CacheInv, UsedPresent, Segment
    <3>2. Kept \in Nat /\ Kept >= 1
      BY <1>5, <2>4, <3>1, PlaceOfUse, CacheAssumption DEF Segment
    <3>3. DOMAIN recent' = 1 .. Kept
      BY <1>5 DEF Clock, Uses
    <3>. QED BY <3>2, <3>3
  <2>7. CASE SegHit
    <3>1. ssa' = ssa /\ present' = present /\ ~WordHit
      BY <2>1, <2>7 DEF FetchMiss
    <3>2. UseSeg = HitSeg /\ ssa[UseSeg] = req.at.tag /\ present[UseSeg] # {}
      BY <1>5, <2>7, SegmentUsed
    <3>3. req.at.sub \notin present[UseSeg]
      BY <2>7, <3>1, <3>2 DEF WordHit
    <3>4. \A t \in Segment \ {UseSeg} : present[t] # {} => ssa[t] # ssa[UseSeg]
      BY <1>2, <2>2, <3>2 DEF CachedIsCurrent
    <3>. QED BY <1>3, <2>3, <2>5, <2>6, <3>1, <3>2, <3>3, <3>4
  <2>8. CASE ~SegHit
    <3>1. /\ ssa' = [ssa EXCEPT ![UseSeg] = req.at.tag]
          /\ present' = [present EXCEPT ![UseSeg] = {}]
      BY <2>1, <2>8 DEF FetchMiss
    <3>2. \A s \in Segment : present[s] # {} => ssa[s] # req.at.tag
      BY <1>5, <2>8, SegmentUsed
    <3>. QED BY <1>2, <1>3, <2>2, <2>3, <2>5, <2>6, <3>1, <3>2
  <2>. QED BY <2>7, <2>8
<1>6. CASE ~cf /\ ~Lookup
  <2>1. /\ state = "FILL" /\ ssa' = ssa /\ seg' = seg /\ keep' = keep /\ lru' = lru
        /\ recent' = recent /\ present' = present
        /\ half' = 1 => (half = 0 /\ ack) \/ (half = 1 /\ ~ack)
    <3>1. state = "FILL"
      BY <1>3, <1>6
    <3>2. recent' = recent
      BY <1>6 DEF Clock, Uses
    <3>3. CASE ack /\ FillStep(ack)
      <4>1. half = 0
        BY <1>1, <1>2, <3>3 DEF FillStep, Filled
      <4>. QED BY <1>6, <3>1, <3>2, <3>3, <4>1 DEF FillStep, Filled
    <3>4. CASE Idle(ack)
      BY <1>6, <3>1, <3>2, <3>4 DEF Idle
    <3>. QED BY <1>6, <3>1, <3>3, <3>4, Moves
  <2>2. Filling
    BY DEF CacheInv
  <2>3. CASE ~keep
    BY <2>1, <2>2, <2>3 DEF Filling
  <2>4. CASE keep
    <3>1. ASSUME half' = 1, NEW i \in Half(0)
          PROVE  Holds(seg, req.at.sub, i)'
      <4>1. CASE ack /\ half = 0
        BY <1>6, <2>1, <2>4, <4>1, <3>1, HoldsRead
      <4>2. CASE ~ack
        <5>1. half = 1 /\ Holds(seg, req.at.sub, i) /\ i \in 0 .. 3 /\ req.at.sub \in Subs
          BY <2>1, <2>2, <2>4, <3>1, <4>2, Halves, RequestFacts DEF Filling, CacheInv, Waiting
        <5>2. ram' = ram
          BY <4>2, StoreKept
        <5>3. \A s \in Segment, b \in Subs :
                 s = seg /\ b = req.at.sub => Holds(s, b, i)'
          BY <1>6, <2>1, <5>1, <5>2, HoldsOn
        <5>. QED BY <1>2, <1>3, <2>1, <5>1, <5>3 DEF Holds
      <4>. QED BY <2>1, <3>1, <4>1, <4>2
    <3>. QED BY <1>3, <2>1, <2>2, <2>4, <3>1 DEF Filling
  <2>. QED BY <2>3, <2>4
<1>. QED BY <1>4, <1>5, <1>6
\* The words kept for the answer.
LEMMA AnsweringStep ==
  ASSUME CacheInv, NEW ack \in BOOLEAN, Clock(ack)
  PROVE  Answering'
<1>1. half \in {0, 1} /\ Answering /\ CachedIsCurrent
  BY DEF CacheInv, CacheTypeOK
<1>2. ASSUME state' = "HIT"
      PROVE  \A i \in 0 .. 3 : out'[i].word = Ith(req'.at, i)
  <2>1. FetchHit
    BY <1>2, <1>1 DEF Clock, CacheClock, FlushFetch, FetchMiss, FillStep, Filled, EndFetch,
                      Idle
  <2>2. Lookup /\ ~cf /\ WordHit
    BY <2>1 DEF FetchHit
  <2>3. req' = req /\ req.at \in Word
    BY <1>2, FetchWaits, RequestFacts DEF CacheInv
  <2>4. out' = ram[UseSeg][req.at.sub]
    BY <2>2 DEF Clock, CacheClock
  <2>5. UseSeg \in Segment /\ ssa[UseSeg] = req.at.tag /\ req.at.sub \in present[UseSeg]
    BY <2>2, SegmentUsed DEF WordHit
  <2>6. req.at.sub \in Subs
    BY <2>3 DEF Word
  <2>7. \A i \in 0 .. 3 : ram[UseSeg][req.at.sub][i].word
                            = [tag |-> ssa[UseSeg], sub |-> req.at.sub, i |-> i]
    BY <1>1, <2>5, <2>6 DEF CachedIsCurrent
  <2>. QED BY <2>3, <2>4, <2>5, <2>7, IthWord
<1>3. ASSUME (state' = "FILL" /\ half' = 1) \/ state' = "DONE"
      PROVE  /\ state = "FILL" /\ req' = req
             /\ \/ ack /\ half = 0 /\ state' = "FILL"
                \/ half = 1
             /\ state' = "DONE" => ack /\ half = 1
  <2>1. req' = req
    BY <1>3, FetchWaits
  <2>2. CASE FlushFetch     BY <1>3, <2>2 DEF FlushFetch
  <2>3. CASE FetchHit       BY <1>3, <2>3 DEF FetchHit
  <2>4. CASE FetchMiss      BY <1>3, <2>4 DEF FetchMiss
  <2>5. CASE FillStep(ack)  BY <1>1, <1>3, <2>1, <2>5 DEF FillStep, Filled
  <2>6. CASE EndFetch       BY <1>3, <2>6 DEF EndFetch
  <2>7. CASE Idle(ack)
    <3>1. state' = state /\ half' = half /\ state # "DONE"
      BY <2>7 DEF Idle
    <3>. QED BY <1>3, <2>1, <3>1
  <2>. QED BY <2>2, <2>3, <2>4, <2>5, <2>6, <2>7 DEF Clock, CacheClock
<1>4. ASSUME (state' = "FILL" /\ half' = 1) \/ state' = "DONE"
      PROVE  \A i \in Half(0) : lo'[i].word = Ith(req'.at, i)
  <2>1. CASE ack /\ half = 0
    <3>1. lo' = HalfRead
      BY <1>3, <1>4, <2>1, StoreFilled
    <3>. QED BY <1>3, <1>4, <2>1, <3>1, FillReads
  <2>2. CASE half = 1
    <3>1. lo' = lo
      BY <1>3, <1>4, <2>2, StoreFilled, StoreKept
    <3>. QED BY <1>1, <1>3, <1>4, <2>2, <3>1 DEF Answering
  <2>. QED BY <1>3, <1>4, <2>1, <2>2
<1>5. ASSUME state' = "DONE"
      PROVE  \A i \in Half(1) : hi'[i].word = Ith(req'.at, i)
  <2>1. state = "FILL" /\ ack /\ half = 1 /\ req' = req
    BY <1>3, <1>5
  <2>2. hi' = HalfRead
    BY <2>1, StoreFilled
  <2>. QED BY <2>1, <2>2, FillReads
<1>. QED BY <1>2, <1>4, <1>5 DEF Answering

\* What memory reads is what the cache asks for, then as now.
LEMMA ReadingStep ==
  ASSUME CacheInv, NEW ack \in BOOLEAN, Clock(ack)
  PROVE  Reading'
<1>1. SUFFICES ASSUME reading' # NoValue
               PROVE  /\ MReq' /\ DOMAIN reading' = MWords'
                      /\ \A w \in MWords' : reading'[w].word = w
                      /\ state' = "FILL" /\ keep' =>
                            \A w \in MWords' : reading'[w] = NextValue(w) \/ w \in written'
  BY DEF Reading, Current, Value, NextValue
<1>2. mem \in [Volatile -> {0, 1}] /\ keep \in BOOLEAN /\ Reading
  BY DEF CacheInv, CacheTypeOK
<1>3. ~ack /\ MReq
  BY <1>1, <1>2 DEF Clock, Fabric, Reading
<1>4. /\ DOMAIN reading' = MWords
      /\ \A w \in MWords : \/ reading'[w] = Value(w)
                           \/ reading # NoValue /\ reading'[w] = reading[w]
  <2>1. CASE reading = NoValue
    <3>1. reading' = [w \in MWords |-> Value(w)]
      BY <1>1, <1>3, <2>1 DEF Clock, Fabric
    <3>. QED BY <3>1
  <2>2. CASE reading # NoValue
    <3>1. PICK last \in SUBSET MWords :
             reading' = [w \in MWords |-> IF w \in last THEN Value(w) ELSE reading[w]]
      BY <1>3, <2>2 DEF Clock, Fabric
    <3>. QED BY <2>2, <3>1
  <2>. QED BY <2>1, <2>2
<1>5. Idle(ack) /\ state' = state /\ half' = half /\ (keep' = IF cf THEN FALSE ELSE keep)
  <2>1. ~Lookup /\ state \notin {"HIT", "DONE"}
    BY <1>3 DEF MReq, Lookup
  <2>2. Idle(ack)
    BY <1>3, <2>1 DEF Clock, CacheClock, FlushFetch, FetchHit, FetchMiss, FillStep, EndFetch
  <2>. QED BY <2>2 DEF Idle, Flushed
<1>6. req' = req
  <2>1. req # NoReq
    BY <1>3 DEF MReq, CacheInv, Waiting
  <2>2. ~CAck(ack)
    BY <1>3 DEF CAck, MReq
  <2>. QED BY <2>1, <2>2, RequestHeld
<1>7. MReq'
  <2>1. CASE state = "FILL"
    BY <1>5, <2>1 DEF MReq
  <2>2. CASE state = "IDLE" /\ req # NoReq /\ Pass
    <3>1. passing' = TRUE
      BY <1>3, <2>2 DEF Clock, CacheClock, Passing
    <3>. QED BY <1>5, <1>6, <2>2, <3>1 DEF MReq, Pass
  <2>. QED BY <1>3, <2>1, <2>2 DEF MReq
<1>8. MWords' = MWords
  BY <1>5, <1>6 DEF MWords
<1>9. \A w \in MWords : reading'[w].word = w
  BY <1>2, <1>4 DEF Reading, Value
<1>10. ASSUME state' = "FILL", keep', NEW w \in MWords
       PROVE  reading'[w] = NextValue(w) \/ w \in written'
  <2>1. state = "FILL" /\ keep /\ ~cf
    BY <1>2, <1>5, <1>10
  <2>2. Current(reading'[w], w)
    <3>1. CASE reading'[w] = Value(w)
      BY <3>1 DEF Current, Value
    <3>2. CASE reading # NoValue /\ reading'[w] = reading[w]
      <4>1. Current(reading[w], w)
        BY <1>2, <2>1, <3>2 DEF Reading
      <4>. QED BY <3>2, <4>1
    <3>. QED BY <1>4, <3>1, <3>2
  <2>3. \A v : Current(v, w) => v = NextValue(w) \/ w \in written'
    BY <1>2, <2>1, CurrentStays
  <2>. QED BY <2>2, <2>3
<1>. QED BY <1>4, <1>7, <1>8, <1>9, <1>10
-----------------------------------------------------------------------------
(* The theorems. *)

LEMMA InitCacheInv ==
  ASSUME CacheInit
  PROVE  CacheInv
<1>. USE DEF CacheInit
<1>1. Ways \in Nat \ {0} /\ 1 \in Segment
  BY CacheAssumption DEF Segment
<1>2. CacheTypeOK
  <2>1. ssa = [s \in Segment |-> Unused]
    BY DEF Unused
  <2>. QED BY <1>1, <2>1 DEF CacheTypeOK
<1>3. StoreTypeOK
  BY DEF StoreTypeOK, Blank
<1>4. Waiting /\ Reading /\ Answering /\ Filling
  BY DEF Waiting, Reading, Answering, Filling
<1>5. StackOK
  BY DEF StackOK, IsStack
<1>6. recent \in Seq(Tags) /\ Len(recent) = 0
  OBVIOUS
<1>7. UsedPresent /\ LruIsRecency
  BY <1>1, <1>6 DEF UsedPresent, LruIsRecency, Segment
<1>8. CachedIsCurrent
  BY DEF CachedIsCurrent
<1>. QED BY <1>2, <1>3, <1>4, <1>5, <1>7, <1>8 DEF CacheInv

LEMMA CacheInvStep ==
  ASSUME CacheInv, [CacheNext]_cacheVars
  PROVE  CacheInv'
<1>1. ASSUME NEW ack \in BOOLEAN, Clock(ack)
      PROVE  CacheInv'
  BY <1>1, TypeStep, StoreStep, WaitingStep, ReadingStep, AnsweringStep, FillingStep, StackStep,
     RecencyStep, CurrentStep DEF CacheInv
<1>2. CASE UNCHANGED cacheVars
  <2>1. UNCHANGED <<state, ssa, present, lru, seg, half, keep, passing, ram, out, lo, hi>>
        /\ UNCHANGED <<req, cd, cf, mem, reading, written, recent>>
    BY <1>2 DEF cacheVars, cacheRegs, aroundVars
  <2>2. CacheTypeOK' /\ StoreTypeOK' /\ Waiting'
    BY <2>1 DEF CacheInv, CacheTypeOK, StoreTypeOK, Waiting
  <2>3. Reading'
    BY <2>1 DEF CacheInv, Reading, MReq, Pass, MWords, Current, Value
  <2>4. Answering' /\ StackOK' /\ UsedPresent' /\ LruIsRecency'
    BY <2>1 DEF CacheInv, Answering, StackOK, IsStack, UsedPresent, LruIsRecency
  <2>5. Filling'
    BY <2>1 DEF CacheInv, Filling, Holds, Current, Value
  <2>6. CachedIsCurrent'
    BY <2>1 DEF CacheInv, CachedIsCurrent, Value
  <2>. QED BY <2>2, <2>3, <2>4, <2>5, <2>6 DEF CacheInv
<1>. QED BY <1>1, <1>2 DEF CacheNext

\* The invariant holds whatever the core fetches, the memory answers, and the
\* writers and CONTROL and HSTCTL do.
THEOREM CacheInvHolds == CacheSpec => []CacheInv
<1>1. CacheInit => CacheInv
  BY InitCacheInv
<1>2. CacheInv /\ [CacheNext]_cacheVars => CacheInv'
  BY CacheInvStep
<1>. QED BY <1>1, <1>2, PTL DEF CacheSpec

\* What the cache holds of an address is what memory has there, but for words
\* written since the last flush; a fill that a flush fell into is not kept,
\* and no address has two segments.
THEOREM CacheIsCurrent == CacheSpec => []CachedIsCurrent
<1>1. CacheInv => CachedIsCurrent
  BY DEF CacheInv
<1>. QED BY <1>1, CacheInvHolds, PTL

\* The core gets the word it asked for, by each of the three ways, and memory
\* reads what the cache still asks for.
THEOREM CoreGetsItsWord == CacheSpec => []AnswersItsWord
<1>1. ASSUME CacheInv
      PROVE  AnswersItsWord
  <2>1. Reading /\ Answering /\ Waiting /\ CacheTypeOK
    BY <1>1 DEF CacheInv
  <2>2. ASSUME NEW ack \in BOOLEAN, CAck(ack), ack => reading # NoValue
        PROVE  CData.word = req.at
    <3>1. req # NoReq
      BY <2>1, <2>2 DEF CAck, Waiting
    <3>2. req.at \in Word /\ req.at.i \in 0 .. 3
      BY <2>1, <3>1, RequestFacts
    <3>3. Ith(req.at, req.at.i) = req.at
      BY <3>2 DEF Ith, Word
    <3>4. CASE state = "HIT"
      BY <2>1, <3>2, <3>3, <3>4 DEF CData, Answering
    <3>5. CASE state = "DONE"
      <4>1. req.at.i \in Half(0) \/ req.at.i \in Half(1)
        BY <3>2, Halves
      <4>. QED BY <2>1, <3>3, <3>5, <4>1 DEF CData, Answering
    <3>6. CASE state = "IDLE" /\ Pass /\ ack
      <4>1. reading # NoValue /\ MWords = {req.at}
        BY <2>2, <3>6 DEF MWords
      <4>2. reading[req.at].word = req.at
        BY <2>1, <4>1 DEF Reading
      <4>. QED BY <3>6, <4>2 DEF CData
    <3>. QED BY <2>2, <3>4, <3>5, <3>6 DEF CAck
  <2>3. reading # NoValue => MReq /\ DOMAIN reading = MWords
    BY <2>1 DEF Reading
  <2>. QED BY <2>2, <2>3 DEF AnswersItsWord
<1>. QED BY <1>1, CacheInvHolds, PTL

\* The segment replaced is the least recently used one since the flush.
THEOREM ReplacesByRecency == CacheSpec => []LruIsRecency
<1>1. CacheInv => LruIsRecency
  BY DEF CacheInv
<1>. QED BY <1>1, CacheInvHolds, PTL

-----------------------------------------------------------------------------
(* The host port.                                                           *)

HostTypeOK ==
    /\ pins \in {"off", "select", "access"} /\ quiet \in Nat
    /\ accessSync \in SyncPair(BOOLEAN) /\ accessSeen \in BOOLEAN
    /\ hostReq \in BOOLEAN /\ hostReady \in BOOLEAN
    /\ hostSeen \in BOOLEAN /\ hostAck \in BOOLEAN /\ busy \in BOOLEAN

\* The host has kept to its side: it has been quiet before it came.
HostCame == pins # "off" => call \in Calls /\ quiet >= RearmEdges

\* An access that has ended leaves the synchronizer and the latch edge by edge.
Clears ==
    ~Access =>
        /\ ~hostReq
        /\ accessSync[1] => accessSync[2] /\ accessSeen
        /\ accessSync[2] => accessSeen
        /\ quiet >= 1 => ~accessSync[1] /\ ~hostSeen
        /\ quiet >= 2 => ~accessSync[2]
        /\ quiet >= 3 => ~accessSeen /\ ~hostReady

\* One that has begun comes through them; the request stands from the latch to
\* the answer.
ComesIn ==
    Access =>
        /\ accessSync[2] => accessSync[1]
        /\ accessSeen => accessSync[1] /\ accessSync[2] /\ (hostReq \/ hostReady)
        /\ ~accessSeen => ~hostReq /\ ~hostReady /\ ~hostSeen

\* A request is the host's access, taken once, and its answer what was read
\* for it.
Answers ==
    /\ hostReq => captured = call /\ ~hostReady
    /\ hostAck <=> hostReq /\ hostSeen
    /\ hostReady => response = hostRdata /\ accessSeen

HostInv == HostTypeOK /\ HostCame /\ Clears /\ ComesIn /\ Answers

\* What the abstract memory sees of the port.
SeenAdr  == IF busy /\ local.incw THEN Next1(local.adr) ELSE hstadr
SeenData == IF busy /\ ~local.we THEN hostMem[local.adr] ELSE hstdata
SeenMem  == IF busy /\ local.we THEN [hostMem EXCEPT ![local.adr] = local.data] ELSE hostMem
SeenStage == IF ~Hcs THEN "idle" ELSE IF Taken THEN "answered" ELSE "called"

seenVars == <<SeenAdr, SeenData, ctl, SeenMem, SeenStage, call, hostRdata, got>>

-----------------------------------------------------------------------------

\* The abstract memory has the same registers.
LEMMA SameRegisters ==
  /\ Sequential!Nothing = Nothing /\ Sequential!Words = Words
  /\ \A v : Sequential!HostWord(v) = HostWord(v)
  /\ \A adr : Sequential!Next1(adr) = Next1(adr)
  /\ \A word, be, v : Sequential!Merged(word, be, v) = Merged(word, be, v)
  /\ \A adr, c : Sequential!AdrMerged(adr, c) = AdrMerged(adr, c)
  /\ \A lbl, c : Sequential!LastByte(lbl, c) = LastByte(lbl, c)
  /\ \A lbl, c : Sequential!LastAdrByte(lbl, c) = LastAdrByte(lbl, c)
  /\ \A reg, adr, data, c : Sequential!Shown(reg, adr, data, c) = Shown(reg, adr, data, c)
BY DEF Nothing, Sequential!Nothing, Words, Sequential!Words, HostWord, Sequential!HostWord,
       Next1, Sequential!Next1, Merged, Sequential!Merged, AdrMerged, Sequential!AdrMerged,
       LastByte, Sequential!LastByte, LastAdrByte, Sequential!LastAdrByte, Shown,
       Sequential!Shown, Bytes, Sequential!Bytes

LEMMA InitHostInv == HostInit => HostInv /\ Sequential!Init
<1>. SUFFICES ASSUME HostInit PROVE HostInv /\ Sequential!Init
  OBVIOUS
<1>1. accessSync = <<FALSE, FALSE>>
  BY DEF HostInit, SyncReset
<1>2. /\ pins = "off" /\ quiet = 0 /\ accessSeen = FALSE /\ hostReq = FALSE /\ hostReady = FALSE
      /\ hostSeen = FALSE /\ hostAck = FALSE /\ busy = FALSE
  BY DEF HostInit
<1>3. HostTypeOK
  <2>1. accessSync \in SyncPair(BOOLEAN)
    BY <1>1 DEF SyncPair
  <2>2. pins \in {"off", "select", "access"} /\ quiet \in Nat
    BY <1>2
  <2>. QED BY <1>2, <2>1, <2>2, Zenon DEF HostTypeOK
<1>4. HostCame /\ Clears /\ ComesIn /\ Answers
  BY <1>1, <1>2 DEF HostCame, Clears, ComesIn, Answers, Access
<1>5. Sequential!Init
  BY <1>2, SameRegisters DEF HostInit, Sequential!Init, Hcs
<1>. QED BY <1>3, <1>4, <1>5 DEF HostInv

\* The host begins: none of the last access is left.
LEMMA SelectIsBegin ==
  ASSUME HostAssumption, HostInv, HostSelect
  PROVE  HostInv' /\ Sequential!Begin
<1>1. /\ UNCHANGED <<quiet, hostBus, hostEngine, ctl, hostMem>>
      /\ pins = "off" /\ pins' \in {"select", "access"} /\ quiet >= 3 /\ quiet \in Nat
      /\ call' \in Calls /\ got' = Nothing
  BY DEF HostSelect, HostAssumption, HostInv, HostTypeOK, RearmEdges
<1>2. ~accessSync[1] /\ ~accessSync[2] /\ ~accessSeen /\ ~hostReady /\ ~hostReq /\ ~hostSeen
  BY <1>1 DEF HostInv, Clears, Access
<1>3. UNCHANGED <<accessSync, accessSeen, hostReq, captured, hostReady, response, hostSeen,
                  hostAck, hostRdata, hstadr, hstdata, busy, local>>
  BY <1>1 DEF hostBus, hostEngine
<1>4. HostInv'
  BY <1>1, <1>2, <1>3 DEF HostInv, HostTypeOK, HostCame, Clears, ComesIn, Answers, Access,
                          RearmEdges
<1>5. SeenStage = "idle" /\ SeenStage' = "called"
  BY <1>1, <1>2, <1>3 DEF SeenStage, Hcs, Taken
<1>6. UNCHANGED <<SeenAdr, SeenData, SeenMem>>
  BY <1>1, <1>3 DEF SeenAdr, SeenData, SeenMem
<1>7. Sequential!Begin
  BY <1>1, <1>3, <1>5, <1>6, SameRegisters DEF Sequential!Begin, SeenAdr, SeenData, SeenMem, SeenStage
<1>. QED BY <1>4, <1>7

LEMMA StrobeIsNothing ==
  ASSUME HostInv, HostStrobe
  PROVE  HostInv' /\ UNCHANGED seenVars
<1>1. /\ UNCHANGED <<call, quiet, writes, got, hostBus, hostEngine, ctl, hostMem>>
      /\ pins = "select" /\ pins' = "access" /\ quiet >= 3
  BY DEF HostStrobe, HostInv, HostCame, RearmEdges
<1>2. ~accessSync[1] /\ ~accessSync[2] /\ ~accessSeen /\ ~hostReady /\ ~hostReq /\ ~hostSeen
  BY <1>1 DEF HostInv, Clears, Access, HostTypeOK
<1>3. UNCHANGED <<accessSync, accessSeen, hostReq, captured, hostReady, response, hostSeen,
                  hostAck, hostRdata, hstadr, hstdata, busy, local>>
  BY <1>1 DEF hostBus, hostEngine
<1>4. HostInv'
  BY <1>1, <1>2, <1>3 DEF HostInv, HostTypeOK, HostCame, Clears, ComesIn, Answers, Access
<1>5. UNCHANGED seenVars
  BY <1>1, <1>2, <1>3 DEF seenVars, SeenStage, SeenAdr, SeenData, SeenMem, Hcs, Taken
<1>. QED BY <1>4, <1>5

\* The host ends its access when it has the answer.
LEMMA EndIsEnd ==
  ASSUME HostInv, HostEnd
  PROVE  HostInv' /\ Sequential!End
<1>1. /\ UNCHANGED <<writes, hostBus, hostEngine, ctl, hostMem>>
      /\ pins = "access" /\ pins' = "off" /\ quiet' = 0 /\ call' = NoCall /\ got' = response
      /\ hostReady
  BY DEF HostEnd, Hrdy, Access, Hcs
<1>2. UNCHANGED <<accessSync, accessSeen, hostReq, captured, hostReady, response, hostSeen,
                  hostAck, hostRdata, hstadr, hstdata, busy, local>>
  BY <1>1 DEF hostBus, hostEngine
<1>3. /\ ~hostReq /\ accessSeen /\ accessSync[1] /\ accessSync[2] /\ response = hostRdata
      /\ ~hostAck
  BY <1>1 DEF HostInv, HostTypeOK, ComesIn, Answers, Access
<1>4. HostInv'
  BY <1>1, <1>2, <1>3 DEF HostInv, HostTypeOK, HostCame, Clears, ComesIn, Answers, Access
<1>5. SeenStage = "answered" /\ SeenStage' = "idle"
  BY <1>1, <1>2, <1>3 DEF SeenStage, Hcs, Taken, Access
<1>6. UNCHANGED <<SeenAdr, SeenData, SeenMem>>
  BY <1>1, <1>2 DEF SeenAdr, SeenData, SeenMem
<1>7. Sequential!End
  BY <1>1, <1>2, <1>3, <1>5, <1>6 DEF Sequential!End, SeenAdr, SeenData, SeenMem, SeenStage
<1>. QED BY <1>4, <1>7

\* What an edge of the core's clock does to the access, in the order in which it
\* comes through.
LEMMA EdgeSteps ==
  ASSUME HostInv, NEW ack \in BOOLEAN, NEW write, HostEdge(ack, write)
  PROVE  /\ UNCHANGED <<pins, call, writes, got>>
         /\ quiet' = IF pins = "off" /\ quiet < Rearm THEN quiet + 1 ELSE quiet
         /\ accessSync' = <<Access, accessSync[1]>> /\ accessSeen' = accessSync[2]
         /\ hostReq' = ((accessSync[2] /\ ~accessSeen)
                            \/ (accessSync[2] /\ hostReq /\ ~hostAck))
         /\ captured' = IF accessSync[2] /\ ~accessSeen THEN call ELSE captured
         /\ hostReady' = (accessSync[2] /\ (hostReady \/ (hostReq /\ hostAck)))
         /\ response' = IF accessSync[2] /\ hostReq /\ hostAck THEN hostRdata ELSE response
         /\ hostAck' = HostAccepts
         /\ hostSeen' = (hostReq /\ (hostSeen \/ HostAccepts))
         /\ hostRdata' = IF HostAccepts THEN Shown(captured.reg, hstadr, hstdata, ctl)
                         ELSE hostRdata
         /\ busy' = IF busy THEN ~ack ELSE Starts
BY DEF HostEdge, HostBus, HostIf, SyncEdge, Synced

LEMMA EdgeKeepsInv ==
  ASSUME HostAssumption, HostInv, NEW ack \in BOOLEAN, NEW write, HostEdge(ack, write)
  PROVE  HostInv'
<1>. USE EdgeSteps
<1>1. HostAccepts \in BOOLEAN /\ (HostAccepts <=> hostReq /\ ~hostSeen /\ ~busy)
  BY DEF HostAccepts
<1>2. Access' = Access /\ Access \in BOOLEAN
  BY DEF Access
<1>3. /\ accessSync[1] \in BOOLEAN /\ accessSync[2] \in BOOLEAN /\ accessSeen \in BOOLEAN
      /\ hostReq \in BOOLEAN /\ hostReady \in BOOLEAN /\ hostSeen \in BOOLEAN
      /\ hostAck \in BOOLEAN /\ busy \in BOOLEAN /\ quiet \in Nat
  BY DEF HostInv, HostTypeOK, SyncPair
<1>4. HostTypeOK'
  <2>1. accessSync' \in SyncPair(BOOLEAN)
    BY <1>2, <1>3 DEF SyncPair
  <2>2. pins' \in {"off", "select", "access"}
    BY DEF HostInv, HostTypeOK
  <2>3. quiet' \in Nat
    BY <1>3
  <2>4. busy' \in BOOLEAN
    BY <1>1 DEF Starts, StartsAdrRead, StartsDataRead, StartsWrite
  <2>5. accessSeen' \in BOOLEAN /\ hostReq' \in BOOLEAN /\ hostReady' \in BOOLEAN
        /\ hostSeen' \in BOOLEAN /\ hostAck' \in BOOLEAN
    BY <1>1, <1>3
  <2>. QED BY <2>1, <2>2, <2>3, <2>4, <2>5 DEF HostTypeOK
<1>5. HostCame'
  BY DEF HostInv, HostCame
<1>6. Clears'
  <2>. SUFFICES ASSUME ~Access
       PROVE  /\ ~hostReq'
              /\ accessSync'[1] => accessSync'[2] /\ accessSeen'
              /\ accessSync'[2] => accessSeen'
              /\ quiet' >= 1 => ~accessSync'[1] /\ ~hostSeen'
              /\ quiet' >= 2 => ~accessSync'[2]
              /\ quiet' >= 3 => ~accessSeen' /\ ~hostReady'
    BY <1>2 DEF Clears
  <2>1. /\ ~hostReq /\ (accessSync[1] => accessSync[2]) /\ (accessSync[2] => accessSeen)
        /\ quiet >= 1 => ~accessSync[1] /\ ~hostSeen
        /\ quiet >= 2 => ~accessSync[2]
    BY DEF HostInv, Clears
  <2>2. /\ quiet' >= 2 => quiet >= 1
        /\ quiet' >= 3 => quiet >= 2
    BY <1>3 DEF HostAssumption, RearmEdges, HostInv, HostCame
  <2>. QED BY <2>1, <2>2, <1>1, <1>3
<1>7. ComesIn'
  <2>. SUFFICES ASSUME Access
       PROVE  /\ accessSync'[2] => accessSync'[1]
              /\ accessSeen' => accessSync'[1] /\ accessSync'[2] /\ (hostReq' \/ hostReady')
              /\ ~accessSeen' => ~hostReq' /\ ~hostReady' /\ ~hostSeen'
    BY <1>2 DEF ComesIn
  <2>1. /\ accessSync[2] => accessSync[1]
        /\ accessSeen => accessSync[2] /\ (hostReq \/ hostReady)
        /\ ~accessSeen => ~hostReq /\ ~hostReady
    BY DEF HostInv, ComesIn
  <2>2. accessSync' = <<TRUE, accessSync[1]>> /\ accessSeen' = accessSync[2]
    BY Zenon, <1>2
  <2>3. /\ hostReq' <=> (accessSync[2] /\ ~accessSeen) \/ (accessSync[2] /\ hostReq /\ ~hostAck)
        /\ hostReady' <=> accessSync[2] /\ (hostReady \/ (hostReq /\ hostAck))
        /\ hostSeen' => hostReq
    BY <1>3
  <2>. HIDE EdgeSteps
  <2>. QED BY <1>3, <2>1, <2>2, <2>3
<1>8. Answers'
  <2>1. /\ hostReq => captured = call /\ ~hostReady /\ accessSync[2] /\ accessSeen
        /\ hostAck <=> hostReq /\ hostSeen
        /\ hostReady => response = hostRdata /\ accessSeen
        /\ accessSync[2] /\ ~accessSeen => ~hostReady /\ ~hostReq /\ ~hostSeen
    BY <1>3 DEF HostInv, Clears, ComesIn, Answers
  <2>. QED BY <2>1, <1>1, <1>3 DEF Answers
<1>. QED BY <1>4, <1>5, <1>6, <1>7, <1>8 DEF HostInv

\* An access is performed at the edge that takes it.
LEMMA EdgeStage ==
  ASSUME HostInv, NEW ack \in BOOLEAN, NEW write, HostEdge(ack, write)
  PROVE  /\ HostAccepts => SeenStage = "called" /\ SeenStage' = "answered" /\ captured = call
                           /\ call \in Calls
         /\ ~HostAccepts => SeenStage' = SeenStage
<1>. USE EdgeSteps
<1>1. /\ accessSync[1] \in BOOLEAN /\ accessSync[2] \in BOOLEAN /\ accessSeen \in BOOLEAN
      /\ hostReq \in BOOLEAN /\ hostReady \in BOOLEAN /\ hostSeen \in BOOLEAN
      /\ hostAck \in BOOLEAN
  BY DEF HostInv, HostTypeOK, SyncPair
<1>2. Access' = Access /\ Hcs' = Hcs /\ (Access => Hcs)
  BY DEF Access, Hcs
<1>3. CASE HostAccepts
  <2>1. hostReq /\ ~hostSeen /\ Access /\ captured = call /\ accessSeen /\ accessSync[2]
    BY <1>3, <1>1 DEF HostAccepts, HostInv, Clears, ComesIn, Answers
  <2>2. call \in Calls
    BY <2>1 DEF HostInv, HostCame, Access
  <2>. QED BY <1>2, <1>3, <2>1, <2>2 DEF SeenStage, Taken
<1>4. CASE ~HostAccepts
  <2>1. Access => Taken' = Taken
    BY <1>1, <1>2, <1>4 DEF HostAccepts, HostInv, ComesIn, Answers, Taken
  <2>2. ~Access => Taken' = Taken
    BY <1>2 DEF Taken
  <2>3. Taken' = Taken
    BY <2>1, <2>2
  <2>. HIDE EdgeSteps
  <2>. QED BY <1>2, <1>4, <2>3 DEF SeenStage
<1>. QED BY <1>3, <1>4

-----------------------------------------------------------------------------
(* What the edge does to the registers and to the memory.                   *)

LEMMA EdgeData ==
  ASSUME NEW ack \in BOOLEAN, NEW write, HostEdge(ack, write)
  PROVE  /\ hstadr' = HstadrNext(ack, write) /\ hstdata' = HstdataNext(ack, write)
         /\ busy' = IF busy THEN ~ack ELSE Starts
         /\ local' = LocalNext
         /\ ctl' = IF HostAccepts /\ captured.we /\ captured.reg = "HSTCTL" /\ 1 \in captured.be
                   THEN captured.value ELSE ctl
         /\ hostMem' = IF busy /\ ack /\ local.we
                       THEN [hostMem EXCEPT ![local.adr] = local.data] ELSE hostMem
BY DEF HostEdge, HostIf

\* A write that is none.
LEMMA NoWriteMerges == \A adr : AdrMerged(adr, NoHostWrite) = adr
BY DEF AdrMerged, NoHostWrite

\* A word arrives, is written, or is still on its way: to the host that happened
\* when its access was taken.
LEMMA QuietEdge ==
  ASSUME HostInv, NEW ack \in BOOLEAN, HostEdge(ack, NoHostWrite), ~HostAccepts
  PROVE  UNCHANGED <<SeenAdr, SeenData, ctl, SeenMem>>
<1>1. /\ hstadr' = IF busy /\ ack /\ local.incw THEN Next1(local.adr) ELSE hstadr
      /\ hstdata' = IF busy /\ ack /\ ~local.we THEN hostMem[local.adr] ELSE hstdata
      /\ local' = local /\ ctl' = ctl
      /\ busy' = (busy /\ ~ack)
      /\ hostMem' = IF busy /\ ack /\ local.we
                    THEN [hostMem EXCEPT ![local.adr] = local.data] ELSE hostMem
  BY EdgeData, NoWriteMerges DEF HstadrNext, HstdataNext, LocalNext, Starts, StartsAdrRead,
     StartsDataRead, StartsWrite, NoHostWrite, HostInv, HostTypeOK
<1>2. CASE busy /\ ~ack
  BY <1>1, <1>2 DEF SeenAdr, SeenData, SeenMem
<1>3. CASE busy /\ ack
  BY <1>1, <1>3 DEF SeenAdr, SeenData, SeenMem
<1>4. CASE ~busy
  BY <1>1, <1>4 DEF SeenAdr, SeenData, SeenMem
<1>. QED BY <1>2, <1>3, <1>4

\* The processor's write meets no cycle.
LEMMA ProcessorEdge ==
  ASSUME HostInv, NEW ack \in BOOLEAN, NEW write \in ProcessorCalls, write # NoHostWrite,
         HostEdge(ack, write)
  PROVE  ~HostAccepts /\ Sequential!Processor
<1>1. ~HostAccepts /\ ~busy
  BY DEF HostEdge
<1>2. /\ hstadr' = AdrMerged(hstadr, write)
      /\ hstdata' = IF write.reg = "HSTDATA" THEN HostWord(write.value) ELSE hstdata
      /\ local' = local /\ ctl' = ctl /\ ~busy' /\ hostMem' = hostMem
  BY <1>1, EdgeData DEF HstadrNext, HstdataNext, LocalNext, Starts, StartsAdrRead,
     StartsDataRead, StartsWrite
<1>3. /\ SeenAdr = hstadr /\ SeenData = hstdata /\ SeenMem = hostMem
      /\ SeenAdr' = hstadr' /\ SeenData' = hstdata' /\ SeenMem' = hostMem'
  BY <1>1, <1>2 DEF SeenAdr, SeenData, SeenMem
<1>4. SeenStage' = SeenStage /\ UNCHANGED <<call, got, hostRdata>>
  BY <1>1, EdgeStage, EdgeSteps
<1>. QED BY <1>1, <1>2, <1>3, <1>4, SameRegisters
         DEF Sequential!Processor, SeenAdr, SeenData, SeenMem, SeenStage

\* The access an edge takes has its whole effect there.
LEMMA AccessEdge ==
  ASSUME HostAssumption, HostInv, NEW ack \in BOOLEAN, NEW write, HostEdge(ack, write),
         HostAccepts
  PROVE  Sequential!Perform
<1>1. /\ write = NoHostWrite /\ ~busy /\ captured = call /\ call \in Calls
      /\ call.we \in BOOLEAN /\ SeenStage = "called" /\ SeenStage' = "answered"
  BY EdgeStage DEF HostEdge, HostAccepts, HostAssumption
<1>2. SeenAdr = hstadr /\ SeenData = hstdata /\ SeenMem = hostMem
  BY <1>1 DEF SeenAdr, SeenData, SeenMem
<1>3. /\ hstadr' = IF call.we /\ IsAdr(call) THEN AdrMerged(hstadr, call)
                   ELSE IF StartsDataRead /\ ctl.incr THEN ReadAdr ELSE hstadr
      /\ hstdata' = IF call.we /\ call.reg = "HSTDATA" THEN DataMerged ELSE hstdata
      /\ busy' = Starts /\ local' = LocalNext /\ hostMem' = hostMem
      /\ ctl' = IF call.we /\ call.reg = "HSTCTL" /\ 1 \in call.be THEN call.value ELSE ctl
  BY <1>1, EdgeData, NoWriteMerges DEF HstadrNext, HstdataNext, NoHostWrite
<1>4. /\ UNCHANGED <<call, got>>
      /\ hostRdata' = Shown(call.reg, hstadr, hstdata, ctl)
  BY <1>1, EdgeSteps
<1>5. CASE call.we /\ call.reg # "HSTDATA"
  <2>1. /\ ~StartsDataRead /\ ~StartsWrite
        /\ StartsAdrRead <=> LastAdrByte(ctl.lbl, call)
        /\ busy' <=> LastAdrByte(ctl.lbl, call)
    BY <1>1, <1>3, <1>5 DEF StartsDataRead, StartsWrite, StartsAdrRead, Starts
  <2>2. hstadr' = AdrMerged(hstadr, call) /\ hstdata' = hstdata
    BY <1>3, <1>5, <2>1 DEF IsAdr, AdrMerged
  <2>3. CASE LastAdrByte(ctl.lbl, call)
    <3>1. local' = [adr |-> hstadr', we |-> FALSE, data |-> HostWord(0), incw |-> FALSE]
      BY <1>1, <1>3, <2>1, <2>2, <2>3 DEF LocalNext, Starts
    <3>2. SeenAdr' = hstadr' /\ SeenData' = hostMem[hstadr'] /\ SeenMem' = hostMem
      BY <1>3, <2>1, <2>3, <3>1 DEF SeenAdr, SeenData, SeenMem
    <3>. QED BY <1>1, <1>2, <1>3, <1>4, <1>5, <2>2, <2>3, <3>2, SameRegisters
             DEF Sequential!Perform, Sequential!Write, SeenAdr, SeenData, SeenMem, SeenStage
  <2>4. CASE ~LastAdrByte(ctl.lbl, call)
    <3>1. SeenAdr' = hstadr' /\ SeenData' = hstdata' /\ SeenMem' = hostMem
      BY <1>3, <2>1, <2>4 DEF SeenAdr, SeenData, SeenMem
    <3>. QED BY <1>1, <1>2, <1>3, <1>4, <1>5, <2>2, <2>4, <3>1, SameRegisters
             DEF Sequential!Perform, Sequential!Write, SeenAdr, SeenData, SeenMem, SeenStage
  <2>. QED BY <2>3, <2>4
<1>6. CASE call.we /\ call.reg = "HSTDATA"
  <2>1. /\ ~StartsDataRead /\ ~StartsAdrRead
        /\ StartsWrite <=> LastByte(ctl.lbl, call)
        /\ busy' <=> LastByte(ctl.lbl, call)
    BY <1>1, <1>3, <1>6 DEF StartsDataRead, StartsWrite, StartsAdrRead, Starts, LastAdrByte
  <2>2. /\ hstadr' = hstadr /\ ctl' = ctl /\ hstdata' = DataMerged
        /\ DataMerged = Merged(hstdata, call.be, call.value)
    BY <1>1, <1>3, <1>6, <2>1 DEF IsAdr, DataMerged
  <2>3. CASE LastByte(ctl.lbl, call)
    <3>1. local' = [adr |-> hstadr, we |-> TRUE, data |-> DataMerged, incw |-> ctl.incw]
      BY <1>3, <2>1, <2>3 DEF LocalNext
    <3>2. /\ SeenAdr' = IF ctl.incw THEN Next1(hstadr) ELSE hstadr
          /\ SeenData' = hstdata' /\ SeenMem' = [hostMem EXCEPT ![hstadr] = hstdata']
      <4>1. busy' = TRUE /\ local'.we = TRUE /\ local'.incw = ctl.incw /\ local'.adr = hstadr
            /\ local'.data = hstdata' /\ hostMem' = hostMem
        BY <1>3, <2>1, <2>2, <2>3, <3>1
      <4>. QED BY <2>2, <4>1 DEF SeenAdr, SeenData, SeenMem
    <3>. QED BY <1>1, <1>2, <1>4, <1>6, <2>2, <2>3, <3>2, SameRegisters
             DEF Sequential!Perform, Sequential!WriteData, SeenAdr, SeenData, SeenMem, SeenStage
  <2>4. CASE ~LastByte(ctl.lbl, call)
    <3>1. SeenAdr' = hstadr /\ SeenData' = hstdata' /\ SeenMem' = hostMem
      BY <1>3, <2>1, <2>2, <2>4 DEF SeenAdr, SeenData, SeenMem
    <3>. QED BY <1>1, <1>2, <1>4, <1>6, <2>2, <2>4, <3>1, SameRegisters
             DEF Sequential!Perform, Sequential!WriteData, SeenAdr, SeenData, SeenMem, SeenStage
  <2>. QED BY <2>3, <2>4
<1>7. CASE ~call.we
  <2>1. /\ ~StartsWrite /\ ~StartsAdrRead
        /\ StartsDataRead <=> call.reg = "HSTDATA" /\ LastByte(ctl.lbl, call)
        /\ busy' <=> call.reg = "HSTDATA" /\ LastByte(ctl.lbl, call)
    BY <1>1, <1>3, <1>7 DEF StartsDataRead, StartsWrite, StartsAdrRead, Starts
  <2>2. /\ ctl' = ctl /\ hstdata' = hstdata
        /\ hstadr' = IF StartsDataRead THEN ReadAdr ELSE hstadr
    BY <1>3, <1>7 DEF ReadAdr
  <2>3. CASE StartsDataRead
    <3>1. local' = [adr |-> ReadAdr, we |-> FALSE, data |-> HostWord(0), incw |-> FALSE]
      BY <1>3, <2>1, <2>3 DEF LocalNext, Starts
    <3>2. SeenAdr' = ReadAdr /\ SeenData' = hostMem[ReadAdr] /\ SeenMem' = hostMem
      BY <1>3, <2>1, <2>2, <2>3, <3>1 DEF SeenAdr, SeenData, SeenMem
    <3>. QED BY <1>1, <1>2, <1>4, <1>7, <2>1, <2>2, <2>3, <3>2, SameRegisters
             DEF Sequential!Perform, Sequential!Read, ReadAdr, SeenAdr, SeenData, SeenMem,
                 SeenStage
  <2>4. CASE ~StartsDataRead
    <3>1. SeenAdr' = hstadr /\ SeenData' = hstdata /\ SeenMem' = hostMem
      BY <1>3, <2>1, <2>2, <2>4 DEF SeenAdr, SeenData, SeenMem
    <3>. QED BY <1>1, <1>2, <1>4, <1>7, <2>1, <2>2, <2>4, <3>1, SameRegisters
             DEF Sequential!Perform, Sequential!Read, SeenAdr, SeenData, SeenMem, SeenStage
  <2>. QED BY <2>3, <2>4
<1>. QED BY <1>1, <1>5, <1>6, <1>7

-----------------------------------------------------------------------------

\* Every access of the host takes effect once, at a moment between its beginning
\* and its end, in the order of the accesses, and brings the host what the port
\* held at that moment: though the cycle an access starts goes on behind the next
\* one, and the processor writes the registers between them.  For any accesses,
\* writes and modes, any time a cycle takes, and any host that keeps A0043.
THEOREM OneAccessAtATime == HostAssumption => (HostSpec => AccessesInOrder)
<1>. SUFFICES ASSUME HostAssumption PROVE HostSpec => AccessesInOrder
  OBVIOUS
<1>1. HostInv /\ [HostNext]_hostVars => HostInv' /\ [Sequential!Next]_Sequential!vars
  <2>. SUFFICES ASSUME HostInv, [HostNext]_hostVars
       PROVE  HostInv' /\ [Sequential!Next]_Sequential!vars
    OBVIOUS
  <2>1. CASE HostSelect
    BY <2>1, SelectIsBegin DEF Sequential!Next
  <2>2. CASE HostStrobe
    BY <2>2, StrobeIsNothing
       DEF seenVars, Sequential!vars, SeenAdr, SeenData, SeenMem, SeenStage
  <2>3. CASE HostEnd
    BY <2>3, EndIsEnd DEF Sequential!Next
  <2>4. ASSUME NEW ack \in BOOLEAN, NEW write \in ProcessorCalls \cup {NoHostWrite},
               HostEdge(ack, write)
        PROVE  HostInv' /\ [Sequential!Next]_Sequential!vars
    <3>1. HostInv'
      BY <2>4, EdgeKeepsInv
    <3>2. CASE HostAccepts
      BY <2>4, <3>1, <3>2, AccessEdge DEF Sequential!Next
    <3>3. CASE ~HostAccepts /\ write # NoHostWrite
      BY <2>4, <3>1, <3>3, ProcessorEdge DEF Sequential!Next
    <3>4. CASE ~HostAccepts /\ write = NoHostWrite
      <4>1. UNCHANGED seenVars
        BY <2>4, <3>4, QuietEdge, EdgeStage, EdgeSteps DEF seenVars
      <4>. QED BY <3>1, <4>1 DEF seenVars, Sequential!vars, SeenAdr, SeenData, SeenMem, SeenStage
    <3>. QED BY <3>1, <3>2, <3>3, <3>4
  <2>5. CASE UNCHANGED hostVars
    BY <2>5 DEF hostVars, hostPins, hostBus, hostEngine, HostInv, HostTypeOK, HostCame, Clears,
                ComesIn, Answers, Access, Sequential!vars, Hcs, Taken
  <2>. QED BY <2>1, <2>2, <2>3, <2>4, <2>5 DEF HostNext
<1>. QED BY <1>1, InitHostInv, PTL DEF HostSpec, AccessesInOrder, Sequential!Spec
=============================================================================
