--------------------------- MODULE RefreshCounter ----------------------------
(***************************************************************************)
(* tms34010_refresh: REFCNT counts local clocks down in its field RINTVL;  *)
(* the borrow out of it steps the row and asks for its refresh.  The core  *)
(* may change the rate and load the counter in any clock.                  *)
(***************************************************************************)
EXTENDS Integers

CONSTANTS
    Intervals, Rows,    \* values of RINTVL and ROWADR, 64 and 256 in the code
    ClksPerState        \* CLKS_PER_STATE

ASSUME CounterAssumption ==
    /\ Intervals \in Nat \ {0} /\ Intervals % 2 = 0
    /\ Rows \in Nat \ {0, 1} /\ ClksPerState \in Nat \ {0}

VARIABLES
    rr,             \* CONTROL.RR, as the step it selects
    clockPhase,     \* phase_q
    rintvl, rowadr,
    refreshReq,
    sinceRequest,   \* local clocks since the last request
    settled         \* neither a load nor another rate since then

counterVars == <<rr, clockPhase, rintvl, rowadr, refreshReq, sinceRequest, settled>>

Rates == {0, 1, 2}
LocalTick == clockPhase = ClksPerState - 1

\* Fault: a count that comes out at zero borrows.
UnderflowEarly == LocalTick /\ rr > 0 /\ rintvl <= rr
Underflow == LocalTick /\ rintvl < rr

Count ==
    /\ rintvl' = IF LocalTick THEN (rintvl - rr) % Intervals ELSE rintvl
    /\ rowadr' = IF LocalTick /\ rintvl < rr THEN (rowadr - 1) % Rows ELSE rowadr
    /\ refreshReq' = Underflow
    /\ sinceRequest' = IF Underflow THEN 0
                       ELSE IF LocalTick /\ sinceRequest < Intervals THEN sinceRequest + 1
                       ELSE sinceRequest

LoadedReq == FALSE

LoadCounter ==
    /\ rintvl' \in 0 .. Intervals - 1 /\ rowadr' \in 0 .. Rows - 1
    /\ refreshReq' = LoadedReq
    /\ UNCHANGED sinceRequest

CounterClock(load) ==
    /\ IF load THEN LoadCounter ELSE Count
    /\ clockPhase' = (clockPhase + 1) % ClksPerState
    /\ rr' \in Rates
    /\ settled' = (~load /\ rr' = rr /\ (settled \/ Underflow))

CounterNext == \E load \in BOOLEAN : CounterClock(load)

CounterInit ==
    /\ rr \in Rates /\ clockPhase = 0 /\ rintvl = 0 /\ rowadr = 0
    /\ refreshReq = FALSE /\ sinceRequest = 0 /\ settled = FALSE

CounterSpec == CounterInit /\ [][CounterNext]_counterVars

-----------------------------------------------------------------------------
(* Properties.                                                              *)

\* Counting passes over no row and asks for none twice: the row steps exactly
\* when a request is made, and the request shows the row it steps to, never
\* one that was loaded over it.  At a steady rate the requests are a whole
\* interval apart, 64 local clocks or 32, whatever odd value a change of the
\* rate has left in the counter.
EveryRowInTime ==
    [][/\ Count => (refreshReq' <=> rowadr' # rowadr)
       /\ refreshReq' => rowadr' = (rowadr - 1) % Rows
       /\ refreshReq' /\ settled => (sinceRequest + 1) * rr = Intervals]_counterVars
=============================================================================
