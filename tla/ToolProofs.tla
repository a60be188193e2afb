----------------------------- MODULE ToolProofs ------------------------------
(***************************************************************************)
(* Proofs about the two tools that judge the core.  The comparison         *)
(* scripts: what a pass of the live script means, after any number of      *)
(* edits, refreshed files and stopped engines, for any versions of the RTL *)
(* and any differences.  The report on the cycle counts: its numbers, for  *)
(* any case file and anything the runs measure.                            *)
(***************************************************************************)
EXTENDS LiveGate, TimingReport, FiniteSetTheorems, TLAPS

Shape ==
    /\ corpus \in {"graphics", "ti"}
    /\ live = [mame |-> live.mame, rtl |-> live.rtl]
    /\ accepted = [mame |-> accepted.mame, rtl |-> accepted.rtl]
    /\ gate = [kind |-> gate.kind, step |-> gate.step]

\* From the generator's --check on, the live script works on the vectors of
\* the table as it is.
LiveAt(steps) == gate.kind = "live" /\ gate.step \in steps
VectorsChecked ==
    LiveAt({"mame", "recheck", "replay", "compare_rtl", "compare", "pass"}) =>
        vectors = table /\ manifest.table = table

\* MAME's file is of these vectors, whole or not.
MameRan ==
    LiveAt({"recheck", "replay", "compare_rtl", "compare", "pass"}) =>
        live.mame \in {Result(vectors, "mame"), Cut(Result(vectors, "mame"))}

RtlRan == LiveAt({"compare_rtl", "compare", "pass"}) => live.rtl = Result(vectors, rtl)

BothCompared == Passed("live") => Compares(live.mame, live.rtl)

GateInv == /\ Shape /\ VectorsChecked /\ MameRan /\ RtlRan /\ BothCompared
           /\ ControlStateAgrees

-----------------------------------------------------------------------------
(* The ledger.                                                              *)

\* A ledger of TI differences that are all of a class excuses no control
\* state.
LEMMA ClassedControlState ==
  ASSUME NEW diffs, Unexplained("ti", diffs) = {}
  PROVE  \A item \in Ledger("ti", diffs) :
            /\ item.instance.field \notin {"PC", "SP", "ST", "A", "IO"}
            /\ item.instance.field = "B" => item.instance.at \subseteq {2, 5, 6, 10, 11, 12, 14}
<1>. SUFFICES ASSUME NEW d \in diffs
              PROVE  /\ d.field \notin {"PC", "SP", "ST", "A", "IO"}
                     /\ d.field = "B" => d.at \subseteq {2, 5, 6, 10, 11, 12, 14}
  BY DEF Ledger, TiLedger
<1>1. TiClass(d) # ""
  BY DEF Unexplained, Class
<1>2. \/ d.field = "B" /\ <<d.case, d.at>> \in {<<"sample_function_library", {2, 10, 11, 12, 14}>>,
                                               <<"gsp_paint", {5, 6}>>}
      \/ d.field = "HASH:framebuffer"
      \/ d.field = "HASH:program_workspace"
  BY <1>1 DEF TiClass
<1>3. d.field = "B" => d.at \in {{2, 10, 11, 12, 14}, {5, 6}}
  BY <1>2
<1>. QED BY <1>2, <1>3

\* Results that parse and agree up to classed differences make such a ledger.
LEMMA LedgerControlState ==
  ASSUME NEW m, NEW r, corpus = "ti", Closed(m, r)
  PROVE  \A item \in MakeLedger(m, r) :
            /\ item.instance.field \notin {"PC", "SP", "ST", "A", "IO"}
            /\ item.instance.field = "B" => item.instance.at \subseteq {2, 5, 6, 10, 11, 12, 14}
<1>1. Unexplained("ti", Differences(m, r)) = {}
  BY DEF Closed
<1>. QED BY <1>1, ClassedControlState DEF MakeLedger

-----------------------------------------------------------------------------
(* The steps. *)

\* The checked-in state before the first edit satisfies the invariant.
LEMMA InitGateInv == Init => GateInv
<1>. SUFFICES ASSUME Init PROVE GateInv
  OBVIOUS
<1>1. Shape
  BY GateAssumption DEF Init, Shape, Idle
<1>2. gate.step = "idle" /\ gate.kind = "none"
  BY DEF Init, Idle
<1>3. ControlStateAgrees
  <2>. SUFFICES ASSUME corpus = "ti" PROVE ControlStateAgrees
    BY DEF ControlStateAgrees
  <2>1. Unexplained("ti", Differs("ti", rtl)) = {} /\ ledger = Ledger("ti", Differs("ti", rtl))
    BY GateAssumption DEF Init
  <2>. QED BY <2>1, ClassedControlState DEF ControlStateAgrees
<1>. QED BY <1>1, <1>2, <1>3 DEF GateInv, VectorsChecked, MameRan, RtlRan, BothCompared,
       LiveAt, Passed, At

\* A step of the script leaves the ledger, and with it what it excuses.
LEMMA SameLedger ==
  ASSUME ControlStateAgrees, UNCHANGED <<corpus, ledger>>
  PROVE  ControlStateAgrees'
BY DEF ControlStateAgrees

\* The invariant is kept by every step of the scripts and the developers.
LEMMA StepGateInv == GateInv /\ [Next]_vars => GateInv'
<1>. SUFFICES ASSUME GateInv, [Next]_vars PROVE GateInv'
  OBVIOUS
<1>. USE DEF LiveAt, At, Go, Passed
<1>1. CASE Start
  <2>1. UNCHANGED <<sources, vectors, checkedIn, live, edits>> /\ Shape'
    BY <1>1 DEF Start, GateInv, Shape, sources, checkedIn
  <2>2. gate'.step \in {"check", "replay"} /\ (gate'.kind = "live" => gate'.step = "check")
    BY <1>1 DEF Start
  <2>. QED BY <2>1, <2>2, SameLedger DEF GateInv, VectorsChecked, MameRan, RtlRan, BothCompared,
           sources, checkedIn
<1>2. CASE Check
  <2>1. UNCHANGED <<sources, checkedIn, live, edits>> /\ Shape'
    BY <1>2 DEF Check, CheckVectors, Idle, GateInv, Shape, sources, checkedIn
  <2>2. gate'.kind = "live" => gate'.step = "mame" /\ vectors' = table /\ manifest.table = table
    BY <1>2 DEF Check, CheckVectors, Fresh, Idle, GateInv, Shape
  <2>. QED BY <2>1, <2>2, SameLedger DEF GateInv, VectorsChecked, MameRan, RtlRan, BothCompared,
           sources, checkedIn
<1>3. CASE Mame
  <2>1. UNCHANGED <<sources, vectors, checkedIn, edits>> /\ Shape' /\ gate'.kind = gate.kind
        /\ gate'.step \in {"recheck", "replay"}
    BY <1>3 DEF Mame, GateInv, Shape, sources, checkedIn
  <2>2. live'.mame \in {Result(vectors, "mame"), Cut(Result(vectors, "mame"))}
    BY <1>3 DEF Mame, GateInv, Shape
  <2>. QED BY <1>3, <2>1, <2>2, SameLedger DEF Mame, GateInv, VectorsChecked, MameRan, RtlRan,
           BothCompared, sources, checkedIn, Result, Cut
<1>4. CASE Recheck
  <2>1. UNCHANGED <<sources, checkedIn, live, edits>> /\ Shape'
    BY <1>4 DEF Recheck, CheckVectors, Idle, GateInv, Shape, sources, checkedIn
  <2>2. gate'.kind = "live" => /\ gate.kind = "live" /\ gate'.step = "replay"
                               /\ vectors' = table /\ manifest.table = table
    BY <1>4 DEF Recheck, CheckVectors, Fresh, Idle, GateInv, Shape
  <2>. QED BY <1>4, <2>1, <2>2, SameLedger DEF Recheck, GateInv, VectorsChecked, MameRan, RtlRan,
           BothCompared, sources, checkedIn
<1>5. CASE Replay
  <2>1. /\ UNCHANGED <<sources, vectors, checkedIn, edits>> /\ Shape'
        /\ live'.mame = live.mame /\ live'.rtl = Result(vectors, rtl)
    BY <1>5 DEF Replay, Idle, GateInv, Shape, sources, checkedIn
  <2>2. gate'.kind = "live" => gate.kind = "live" /\ gate'.step \in {"compare_rtl", "compare"}
    BY <1>5 DEF Replay, Idle, GateInv, Shape
  <2>. QED BY <1>5, <2>1, <2>2, SameLedger DEF Replay, GateInv, VectorsChecked, MameRan, RtlRan,
           BothCompared, sources, checkedIn, Result, Cut
<1>6. CASE ReplayFails \/ Interrupt
  <2>1. UNCHANGED <<sources, vectors, checkedIn, edits>> /\ Shape' /\ gate' = Idle
    BY <1>6 DEF ReplayFails, Interrupt, Idle, GateInv, Shape, sources, checkedIn
  <2>. QED BY <2>1, SameLedger DEF GateInv, VectorsChecked, MameRan, RtlRan, BothCompared, Idle,
           sources, checkedIn
<1>7. CASE CompareRtl
  <2>1. UNCHANGED <<sources, vectors, checkedIn, live, edits>> /\ Shape'
    BY <1>7 DEF CompareRtl, Idle, GateInv, Shape, sources, checkedIn
  <2>2. gate'.kind = "live" => gate.kind = "live" /\ gate'.step = "compare"
    BY <1>7 DEF CompareRtl, Idle, GateInv, Shape
  <2>. QED BY <1>7, <2>1, <2>2, SameLedger DEF CompareRtl, GateInv, VectorsChecked, MameRan, RtlRan,
           BothCompared, sources, checkedIn
<1>8. CASE Compare
  <2>1. UNCHANGED <<sources, vectors, checkedIn, live, edits>> /\ Shape'
    BY <1>8 DEF Compare, Idle, GateInv, Shape, sources, checkedIn
  <2>2. gate'.kind = "live" => /\ gate.kind = "live" /\ gate'.step = "pass"
                               /\ Compares(live.mame, live.rtl)
    BY <1>8 DEF Compare, Idle, GateInv, Shape
  <2>3. Compares(live.mame, live.rtl)' <=> Compares(live.mame, live.rtl)
    BY <2>1 DEF Compares, Closed, MakeLedger, ExactCompare, Differences, Everything, CorpusCases,
       AllFields, sources, checkedIn
  <2>. QED BY <1>8, <2>1, <2>2, <2>3, SameLedger DEF Compare, GateInv, VectorsChecked, MameRan,
           RtlRan, BothCompared, sources, checkedIn
<1>9. CASE EditTable \/ EditRtl \/ Regenerate \/ Accept
  <2>1. gate' = Idle /\ UNCHANGED <<corpus, ledger>>
    BY <1>9 DEF EditTable, EditRtl, Regenerate, Accept, Edit, sources, checkedIn
  <2>2. Shape'
    BY <1>9, <2>1 DEF EditTable, EditRtl, Regenerate, Accept, Idle, GateInv, Shape, checkedIn
  <2>. QED BY <2>1, <2>2, SameLedger DEF GateInv, VectorsChecked, MameRan, RtlRan, BothCompared, Idle
<1>10. CASE WriteLedger
  <2>1. gate' = Idle /\ UNCHANGED <<corpus, accepted, live>>
    BY <1>10 DEF WriteLedger, Edit, sources
  <2>2. Shape'
    BY <2>1 DEF Idle, GateInv, Shape
  <2>3. ControlStateAgrees'
    BY <1>10, <2>1, LedgerControlState DEF WriteLedger, ControlStateAgrees
  <2>. QED BY <2>1, <2>2, <2>3 DEF GateInv, VectorsChecked, MameRan, RtlRan, BothCompared, Idle
<1>11. CASE UNCHANGED vars
  <2>1. /\ UNCHANGED <<corpus, table, rtl, vectors, manifest>>
        /\ UNCHANGED <<accepted, ledger, live, gate, edits>>
    BY <1>11 DEF vars
  <2>2. /\ Shape' /\ VectorsChecked' /\ MameRan' /\ RtlRan'
    BY <2>1 DEF GateInv, Shape, VectorsChecked, MameRan, RtlRan
  <2>3. Compares(live.mame, live.rtl)' <=> Compares(live.mame, live.rtl)
    BY <2>1 DEF Compares, Closed, MakeLedger, ExactCompare, Differences, Everything, CorpusCases,
       AllFields
  <2>. QED BY <2>1, <2>2, <2>3, SameLedger DEF GateInv, BothCompared
<1>. QED BY <1>1, <1>2, <1>3, <1>4, <1>5, <1>6, <1>7, <1>8, <1>9, <1>10, <1>11 DEF Next

\* Every reachable state satisfies the invariant.
THEOREM GateInvHolds == Spec => []GateInv
<1>. QED BY InitGateInv, StepGateInv, PTL DEF Spec

-----------------------------------------------------------------------------
(* What a pass means. *)

\* Results that were compared are whole.
LEMMA PassedFiles ==
  ASSUME GateInv, Passed("live")
  PROVE  /\ vectors = table /\ manifest.table = table
         /\ live.mame = Result(table, "mame") /\ live.rtl = Result(table, rtl)
         /\ Compares(live.mame, live.rtl)
<1>1. /\ vectors = table /\ manifest.table = table
      /\ live.mame \in {Result(vectors, "mame"), Cut(Result(vectors, "mame"))}
      /\ live.rtl = Result(vectors, rtl) /\ Compares(live.mame, live.rtl)
  BY DEF GateInv, VectorsChecked, MameRan, RtlRan, BothCompared, LiveAt, Passed, At
<1>2. live.mame.whole
  BY <1>1 DEF Compares, Closed, Parses
<1>3. ~ Cut(Result(vectors, "mame")).whole
  BY DEF Cut, Result
<1>. QED BY <1>1, <1>2, <1>3

\* A pass of the live script is about the case table and the RTL as they are:
\* both result files were computed on them, to the end.
THEOREM PassesAreCurrent == Spec => []PassIsCurrent
<1>1. GateInv => PassIsCurrent
  BY PassedFiles DEF PassIsCurrent
<1>. QED BY <1>1, GateInvHolds, PTL

\* A pass of the live script is of the accepted files, and the ledger is that
\* of the RTL's differences, all of a known class.
THEOREM PassesAreAccepted == Spec => []PassIsAccepted
<1>1. GateInv => PassIsAccepted
  <2>. SUFFICES ASSUME GateInv, Passed("live")
                PROVE  /\ live = accepted
                       /\ ledger = Ledger(corpus, Differs(corpus, rtl))
                       /\ Unexplained(corpus, Differs(corpus, rtl)) = {}
    BY DEF PassIsAccepted
  <2>1. live = accepted
    BY PassedFiles DEF GateInv, Shape, Compares, ExactCompare
  <2>2. Differences(live.mame, live.rtl) = Differs(corpus, rtl)
    BY PassedFiles DEF Differences, Result
  <2>. QED BY <2>1, <2>2, PassedFiles DEF Compares, Closed, MakeLedger
<1>. QED BY <1>1, GateInvHolds, PTL

\* No ledger ever excuses a difference in a TI program's control state.
THEOREM ControlStateNeverExcused == Spec => []ControlStateAgrees
<1>1. GateInv => ControlStateAgrees
  BY DEF GateInv
<1>. QED BY <1>1, GateInvHolds, PTL

-----------------------------------------------------------------------------
(* The report's numbers.                                                    *)

NameOf(i) == Runs[i].case.name
NumRuns   == 2 * Len(Logged)

\* The runs of a name and a column among the first m.
RunsOf(n, k, m) == {i \in 1 .. m : NameOf(i) = n /\ Key(Runs[i]) = k}
LastIs(i, is) == i \in is /\ \A j \in is : j <= i

RunAt(i) ==
    /\ DOMAIN Runs[i] = {"case", "cd"} /\ Runs[i].cd \in BOOLEAN
    /\ Runs[i].case.hit \in Int /\ Runs[i].case.dis \in Int /\ Runs[i].case.hidden \in Int

LEMMA TheRuns ==
  /\ Len(Runs) = NumRuns /\ DOMAIN Runs = 1 .. NumRuns /\ NumRuns \in Nat
  /\ \A i \in 1 .. NumRuns : RunAt(i)
<1>1. Len(Logged) \in Nat /\ NumRuns \in Nat
  BY LoggedAssumption DEF NumRuns
<1>2. DOMAIN Runs = 1 .. NumRuns
  BY <1>1 DEF Runs, NumRuns
<1>3. Len(Runs) = NumRuns
  BY <1>1 DEF Runs, NumRuns
<1>4. ASSUME NEW i \in 1 .. NumRuns PROVE RunAt(i)
  <2>1. Runs[i] = [case |-> Logged[(i + 1) \div 2], cd |-> i % 2 = 0]
    BY <1>1 DEF Runs, NumRuns
  <2>2. (i + 1) \div 2 \in 1 .. Len(Logged)
    BY <1>1 DEF NumRuns
  <2>. QED BY <2>1, <2>2, LoggedAssumption DEF RunAt
<1>. QED BY <1>1, <1>2, <1>3, <1>4

\* A case has two runs, the second with the cache off.
LEMMA Pairs ==
  ASSUME NEW i \in 1 .. NumRuns
  PROVE  \E j \in 1 .. NumRuns :
            /\ Runs[j].case = Runs[i].case
            /\ Runs[j].cd = ~Runs[i].cd
            /\ IF Runs[i].cd THEN j = i - 1 ELSE j = i + 1
<1>1. Len(Logged) \in Nat
  BY LoggedAssumption
<1>2. ASSUME NEW x \in 1 .. NumRuns
      PROVE  /\ Runs[x].case = Logged[(x + 1) \div 2]
             /\ x % 2 = 0 => Runs[x].cd = TRUE
             /\ x % 2 # 0 => Runs[x].cd = FALSE
  <2>. DEFINE off == x % 2 = 0
  <2>1. Runs[x] = [case |-> Logged[(x + 1) \div 2], cd |-> off]
    BY <1>1 DEF Runs, NumRuns
  <2>2. off \in BOOLEAN /\ (x % 2 = 0 => off = TRUE) /\ (x % 2 # 0 => off = FALSE)
    OBVIOUS
  <2>. HIDE DEF off
  <2>3. Runs[x].case = Logged[(x + 1) \div 2] /\ Runs[x].cd = off
    BY <2>1
  <2>. QED BY <2>2, <2>3
<1>3. CASE i % 2 = 0
  <2>1. i - 1 \in 1 .. NumRuns /\ (i - 1) % 2 # 0 /\ (i - 1 + 1) \div 2 = (i + 1) \div 2
    BY <1>1, <1>3 DEF NumRuns
  <2>. QED BY <1>3, <1>2, <2>1
<1>4. CASE i % 2 # 0
  <2>1. i + 1 \in 1 .. NumRuns /\ (i + 1) % 2 = 0 /\ (i + 1 + 1) \div 2 = (i + 1) \div 2
    BY <1>1, <1>4 DEF NumRuns
  <2>. QED BY <1>4, <1>2, <2>1
<1>. QED BY <1>3, <1>4

-----------------------------------------------------------------------------
\* What the lines read so far have left of a name: the cell of the last run of
\* each column.
CellOf(n, k, cell) ==
    LET is == RunsOf(n, k, Len(log))
    IN  /\ is = {} => cell = NoCell
        /\ is # {} => \E i \in is : LastIs(i, is) /\ cell = Cell(Runs[i], log[i])

RowsKept ==
    /\ IsFiniteSet(DOMAIN rows)
    /\ DOMAIN rows = {NameOf(i) : i \in 1 .. Len(log)}
    /\ \A n \in DOMAIN rows :
        /\ DOMAIN rows[n] = {"hit", "dis"}
        /\ \A k \in {"hit", "dis"} : CellOf(n, k, rows[n][k])

KeyOf(off) == IF off THEN "dis" ELSE "hit"

EntriesKept ==
    /\ DOMAIN entries = {<<NameOf(i), Runs[i].cd>> : i \in 1 .. Len(log)}
    /\ \A i \in 1 .. Len(log) :
        entries[<<NameOf(i), Runs[i].cd>>] = rows[NameOf(i)][Key(Runs[i])]

LogKept ==
    /\ file = Runs
    /\ log \in Seq(Outcomes) /\ Len(log) <= NumRuns
    /\ \A i \in 1 .. Len(log) :
        log[i] = "hidden differs" => ~Runs[i].cd /\ Runs[i].case.hidden >= 0

Summed == Summarized => Len(log) = NumRuns /\ count = Report /\ tally = Evidence

ReportInv == LogKept /\ RowsKept /\ EntriesKept /\ Summed

LEMMA InitReportInv == ReportInit => ReportInv
<1>. SUFFICES ASSUME ReportInit PROVE ReportInv
  OBVIOUS
<1>1. Len(log) = 0 /\ log \in Seq(Outcomes) /\ file = Runs /\ 1 .. Len(log) = {}
  BY DEF ReportInit
<1>2. DOMAIN rows = {} /\ DOMAIN entries = {}
  BY DEF ReportInit, NoNames
<1>3. IsFiniteSet({})
  BY FS_EmptySet
<1>. QED BY <1>1, <1>2, <1>3, TheRuns
         DEF ReportInv, LogKept, RowsKept, EntriesKept, Summed, Summarized, ReportInit

LEMMA LineKeeps == ASSUME ReportInv, RunLine PROVE ReportInv'
<1>. DEFINE m == Len(log) + 1
            r == Runs[m]
<1>1. /\ Len(log) \in Nat /\ m \in 1 .. NumRuns /\ file = Runs /\ log \in Seq(Outcomes)
      /\ Len(Runs) = NumRuns
  <2>1. file = Runs /\ Len(Runs) = NumRuns /\ NumRuns \in Nat
    BY TheRuns DEF ReportInv, LogKept
  <2>2. log \in Seq(Outcomes) /\ Len(log) < NumRuns
    BY <2>1 DEF RunLine, ReportInv, LogKept
  <2>3. Len(log) \in Nat
    BY <2>2
  <2>. QED BY <2>1, <2>2, <2>3
<1>2. PICK outcome \in Outcomes :
        /\ outcome = "hidden differs" => ~Runs[m].cd /\ Runs[m].case.hidden >= 0
        /\ LogLine(Runs[m], outcome)
  BY <1>1 DEF RunLine
<1>3. /\ log' = Append(log, outcome)
      /\ rows' = Collect(r, Cell(r, outcome))
      /\ entries' = Parse(r, Cell(r, outcome))
      /\ UNCHANGED <<file, count, tally>>
  BY <1>2 DEF LogLine, RunLine
<1>4. /\ log' \in Seq(Outcomes) /\ Len(log') = m /\ log'[m] = outcome
      /\ \A i \in 1 .. Len(log) : log'[i] = log[i]
      /\ 1 .. m = 1 .. Len(log) \cup {m}
  BY <1>1, <1>3
<1>5. LogKept'
  <2>1. ASSUME NEW i \in 1 .. m, log'[i] = "hidden differs"
        PROVE  ~Runs[i].cd /\ Runs[i].case.hidden >= 0
    <3>1. CASE i = m
      BY <1>2, <1>4, <2>1, <3>1
    <3>2. CASE i \in 1 .. Len(log)
      BY <1>4, <2>1, <3>2 DEF ReportInv, LogKept
    <3>. QED BY <1>4, <3>1, <3>2
  <2>2. file' = Runs /\ Len(log') <= NumRuns
    BY <1>1, <1>3, <1>4
  <2>. QED BY <1>4, <2>1, <2>2 DEF LogKept
<1>6. Summed'
  <2>1. Len(log) # NumRuns
    BY <1>1
  <2>2. ~Summarized
    BY <2>1 DEF Summed, ReportInv
  <2>. QED BY <1>3, <2>2 DEF Summed, Summarized
<1>7. /\ RunAt(m) /\ Key(r) \in {"hit", "dis"} /\ r.case.name = NameOf(m)
  BY <1>1, TheRuns DEF Key, NameOf
<1>8. ASSUME NEW n, NEW k \in {"hit", "dis"}, NEW cell, NEW cell1,
             IF n \in DOMAIN rows THEN CellOf(n, k, cell) ELSE cell = NoCell,
             cell1 = IF n = NameOf(m) /\ k = Key(r) THEN Cell(r, outcome) ELSE cell
      PROVE  CellOf(n, k, cell1)'
  <2>. DEFINE is == RunsOf(n, k, Len(log))
              is1 == RunsOf(n, k, m)
  <2>1. is1 = IF n = NameOf(m) /\ k = Key(r) THEN is \cup {m} ELSE is
    BY <1>1, <1>4 DEF RunsOf
  <2>2. is \subseteq 1 .. Len(log) /\ \A i \in is : i < m /\ log'[i] = log[i]
    BY <1>1, <1>4 DEF RunsOf
  <2>3. n \notin DOMAIN rows => is = {}
    BY DEF RunsOf, ReportInv, RowsKept
  <2>4. CellOf(n, k, cell)
    BY <1>8, <2>3 DEF CellOf
  <2>5. /\ is1 = {} => cell1 = NoCell
        /\ is1 # {} => \E i \in is1 : LastIs(i, is1) /\ cell1 = Cell(Runs[i], log'[i])
    <3>1. CASE n = NameOf(m) /\ k = Key(r)
      <4>1. is1 = is \cup {m} /\ cell1 = Cell(r, outcome) /\ r = Runs[m] /\ log'[m] = outcome
        BY <2>1, <3>1, <1>4, <1>8
      <4>2. LastIs(m, is1) /\ m \in is1
        BY <1>1, <2>2, <4>1 DEF LastIs
      <4>. QED BY <4>1, <4>2
    <3>2. CASE ~(n = NameOf(m) /\ k = Key(r))
      <4>1. is1 = is /\ cell1 = cell
        BY <2>1, <3>2, <1>8
      <4>. QED BY <2>2, <2>4, <4>1 DEF CellOf
    <3>. QED BY <3>1, <3>2
  <2>. QED BY <1>4, <2>5 DEF CellOf
<1>9. /\ DOMAIN rows' = DOMAIN rows \cup {NameOf(m)}
      /\ \A n \in DOMAIN rows' : rows'[n] =
           IF n # NameOf(m) THEN rows[n]
           ELSE [(IF n \in DOMAIN rows THEN rows[n] ELSE [k \in {"hit", "dis"} |-> NoCell])
                   EXCEPT ![Key(r)] = Cell(r, outcome)]
      /\ \A n \in DOMAIN rows, k \in {"hit", "dis"} :
           rows'[n][k] = IF n = NameOf(m) /\ k = Key(r) THEN Cell(r, outcome) ELSE rows[n][k]
      /\ rows'[NameOf(m)][Key(r)] = Cell(r, outcome)
  <2>1. DOMAIN rows' = DOMAIN rows \cup {NameOf(m)}
    BY <1>3, <1>7 DEF Collect
  <2>2. \A n \in DOMAIN rows' : rows'[n] =
            IF n # NameOf(m) THEN rows[n]
            ELSE [(IF n \in DOMAIN rows THEN rows[n] ELSE [k \in {"hit", "dis"} |-> NoCell])
                    EXCEPT ![Key(r)] = Cell(r, outcome)]
    BY <1>3, <1>7, <2>1 DEF Collect
  <2>3. \A n \in DOMAIN rows : DOMAIN rows[n] = {"hit", "dis"}
    BY DEF ReportInv, RowsKept
  <2>4. ASSUME NEW n \in DOMAIN rows, NEW k \in {"hit", "dis"}
        PROVE  rows'[n][k] = IF n = NameOf(m) /\ k = Key(r) THEN Cell(r, outcome) ELSE rows[n][k]
    <3>1. CASE n = NameOf(m)
      <4>1. rows'[n] = [rows[n] EXCEPT ![Key(r)] = Cell(r, outcome)]
        BY <2>1, <2>2, <3>1
      <4>. QED BY <2>3, <3>1, <4>1
    <3>2. CASE n # NameOf(m)
      BY <2>1, <2>2, <3>2
    <3>. QED BY <3>1, <3>2
  <2>5. rows'[NameOf(m)][Key(r)] = Cell(r, outcome)
    <3>1. CASE NameOf(m) \in DOMAIN rows
      BY <1>7, <2>4, <3>1
    <3>2. CASE NameOf(m) \notin DOMAIN rows
      <4>1. rows'[NameOf(m)] = [[k \in {"hit", "dis"} |-> NoCell] EXCEPT ![Key(r)] = Cell(r, outcome)]
        BY <2>1, <2>2, <3>2
      <4>. QED BY <1>7, <4>1
    <3>. QED BY <3>1, <3>2
  <2>. QED BY <2>1, <2>2, <2>4, <2>5
<1>10. RowsKept'
  <2>1. DOMAIN rows' = DOMAIN rows \cup {NameOf(m)}
    BY <1>9
  <2>2. IsFiniteSet(DOMAIN rows')
    BY <2>1, FS_AddElement DEF ReportInv, RowsKept
  <2>3. DOMAIN rows' = {NameOf(i) : i \in 1 .. m}
    BY <1>4, <2>1 DEF ReportInv, RowsKept
  <2>4. ASSUME NEW n \in DOMAIN rows'
        PROVE  /\ DOMAIN rows'[n] = {"hit", "dis"}
               /\ \A k \in {"hit", "dis"} : CellOf(n, k, rows[n][k])'
    <3>. DEFINE old == IF n \in DOMAIN rows THEN rows[n] ELSE [k \in {"hit", "dis"} |-> NoCell]
    <3>1. rows'[n] = IF n # NameOf(m) THEN rows[n] ELSE [old EXCEPT ![Key(r)] = Cell(r, outcome)]
      BY <1>9, <2>4
    <3>2. DOMAIN old = {"hit", "dis"}
      BY DEF ReportInv, RowsKept
    <3>3. n # NameOf(m) => n \in DOMAIN rows
      BY <2>1
    <3>4. DOMAIN rows'[n] = {"hit", "dis"}
      BY <3>1, <3>2, <3>3
    <3>5. ASSUME NEW k \in {"hit", "dis"} PROVE CellOf(n, k, rows[n][k])'
      <4>1. rows'[n][k] = IF n = NameOf(m) /\ k = Key(r) THEN Cell(r, outcome) ELSE old[k]
        BY <1>7, <3>1, <3>2, <3>3
      <4>2. IF n \in DOMAIN rows THEN CellOf(n, k, old[k]) ELSE old[k] = NoCell
        BY DEF ReportInv, RowsKept
      <4>. HIDE DEF old
      <4>4. \A cell1 : cell1 = rows'[n][k] => CellOf(n, k, cell1)'
        BY <1>8, <4>1, <4>2
      <4>. QED BY <4>4 DEF CellOf
    <3>. QED BY <3>4, <3>5
  <2>. QED BY <1>4, <2>2, <2>3, <2>4 DEF RowsKept
<1>11. EntriesKept'
  <2>1. DOMAIN entries' = DOMAIN entries \cup {<<NameOf(m), r.cd>>}
    BY <1>3, <1>7 DEF Parse
  <2>2. DOMAIN entries' = {<<NameOf(i), Runs[i].cd>> : i \in 1 .. m}
    BY <1>4, <2>1 DEF ReportInv, EntriesKept
  <2>3. ASSUME NEW i \in 1 .. m
        PROVE  entries'[<<NameOf(i), Runs[i].cd>>] = rows'[NameOf(i)][Key(Runs[i])]
    <3>1. /\ NameOf(i) \in DOMAIN rows' /\ <<NameOf(i), Runs[i].cd>> \in DOMAIN entries'
          /\ Key(Runs[i]) \in {"hit", "dis"} /\ Runs[i].cd \in BOOLEAN
          /\ r.cd \in BOOLEAN
      BY <1>1, <1>4, <1>7, <1>10, <2>2, TheRuns DEF RowsKept, Key, RunAt
    <3>2. CASE NameOf(i) = NameOf(m) /\ Runs[i].cd = r.cd
      <4>1. entries'[<<NameOf(i), Runs[i].cd>>] = Cell(r, outcome)
        BY <1>3, <1>7, <3>1, <3>2 DEF Parse
      <4>2. Key(Runs[i]) = Key(r)
        BY <3>2 DEF Key
      <4>. QED BY <1>9, <3>1, <3>2, <4>1, <4>2
    <3>3. CASE ~(NameOf(i) = NameOf(m) /\ Runs[i].cd = r.cd)
      <4>1. i \in 1 .. Len(log)
        BY <1>4, <3>3
      <4>2. entries'[<<NameOf(i), Runs[i].cd>>] = entries[<<NameOf(i), Runs[i].cd>>]
        BY <1>3, <1>7, <3>1, <3>3 DEF Parse
      <4>3. ~(NameOf(i) = NameOf(m) /\ Key(Runs[i]) = Key(r))
        BY <3>1, <3>3 DEF Key
      <4>4. NameOf(i) \in DOMAIN rows
        BY <4>1 DEF ReportInv, RowsKept
      <4>. QED BY <1>9, <3>1, <4>1, <4>2, <4>3, <4>4 DEF ReportInv, EntriesKept
    <3>. QED BY <3>2, <3>3
  <2>. QED BY <1>4, <2>2, <2>3 DEF EntriesKept
<1>. QED BY <1>5, <1>6, <1>10, <1>11 DEF ReportInv

LEMMA SummarizeKeeps == ASSUME ReportInv, Summarize PROVE ReportInv'
<1>1. /\ UNCHANGED <<file, log, rows, entries>>
      /\ count' = Report /\ tally' = Evidence /\ Len(log) = Len(file)
  BY DEF Summarize
<1>2. Report' = Report /\ Evidence' = Evidence
  <2>1. \A n : HasNote(n)' = HasNote(n)
    BY <1>1 DEF HasNote, LastOf
  <2>2. Report' = Report
    BY <1>1, <2>1 DEF Report
  <2>3. Evidence' = Evidence
    BY <1>1, <2>1 DEF Evidence
  <2>. QED BY <2>2, <2>3
<1>3. Summed'
  BY <1>1, <1>2, TheRuns DEF Summed, ReportInv, LogKept
<1>4. LogKept' /\ EntriesKept'
  BY <1>1 DEF ReportInv, LogKept, EntriesKept
<1>5. RowsKept'
  BY <1>1 DEF ReportInv, RowsKept, CellOf
<1>. QED BY <1>3, <1>4, <1>5 DEF ReportInv

-----------------------------------------------------------------------------
(* The whole log.                                                           *)

\* In the whole log a name has runs of both columns, and its last ones are of
\* the last case of that name.
LEMMA LastCase ==
  ASSUME LogKept, Len(log) = NumRuns, NEW n, NEW i \in 1 .. NumRuns, NameOf(i) = n,
         NEW k \in {"hit", "dis"}
  PROVE  /\ RunsOf(n, k, Len(log)) # {}
         /\ \A l : LastIs(l, RunsOf(n, k, Len(log))) => Runs[l].case = LastOf(n)
<1>. DEFINE all == {j \in 1 .. NumRuns : NameOf(j) = n}
            is == RunsOf(n, k, NumRuns)
<1>1. NumRuns \in Nat /\ DOMAIN Runs = 1 .. NumRuns /\ \A j \in 1 .. NumRuns : RunAt(j)
  BY TheRuns
<1>2. RunsOf(n, k, Len(log)) = is /\ is \subseteq all
  BY DEF RunsOf
<1>3. is # {}
  <2>1. CASE Key(Runs[i]) = k
    BY <2>1 DEF RunsOf
  <2>2. CASE Key(Runs[i]) # k
    <3>1. PICK j \in 1 .. NumRuns : Runs[j].case = Runs[i].case /\ Runs[j].cd = ~Runs[i].cd
      BY Pairs
    <3>2. NameOf(j) = n /\ Key(Runs[j]) = k
      BY <1>1, <2>2, <3>1 DEF NameOf, Key, RunAt
    <3>. QED BY <3>2 DEF RunsOf
  <2>. QED BY <2>1, <2>2
<1>4. ASSUME NEW l, LastIs(l, is) PROVE Runs[l].case = LastOf(n)
  <2>1. PICK j \in 1 .. NumRuns : /\ Runs[j].case = Runs[l].case /\ Runs[j].cd = ~Runs[l].cd
                                 /\ IF Runs[l].cd THEN j = l - 1 ELSE j = l + 1
    BY <1>4, Pairs DEF LastIs, RunsOf
  <2>2. l \in 1 .. NumRuns /\ NameOf(l) = n /\ Key(Runs[l]) = k /\ NameOf(j) = n
    BY <1>4, <2>1 DEF LastIs, RunsOf, NameOf
  <2>3. ASSUME NEW a \in all PROVE a <= l \/ (a = j /\ j = l + 1)
    <3>1. CASE Key(Runs[a]) = k
      BY <1>4, <3>1 DEF LastIs, RunsOf
    <3>2. CASE Key(Runs[a]) # k
      <4>1. PICK b \in 1 .. NumRuns : /\ Runs[b].case = Runs[a].case /\ Runs[b].cd = ~Runs[a].cd
                                     /\ IF Runs[a].cd THEN b = a - 1 ELSE b = a + 1
        BY Pairs
      <4>2. NameOf(b) = n /\ Key(Runs[b]) = k
        BY <1>1, <3>2, <4>1 DEF NameOf, Key, RunAt
      <4>3. b <= l
        BY <1>4, <4>2 DEF LastIs, RunsOf
      <4>4. Runs[a].cd \in BOOLEAN /\ Runs[b].cd \in BOOLEAN /\ Runs[l].cd \in BOOLEAN
            /\ (Runs[b].cd <=> Runs[l].cd) /\ b \in Int /\ l \in Int /\ a \in Int
        BY <1>1, <2>2, <4>2 DEF RunAt, Key
      <4>5. CASE Runs[a].cd
        <5>1. b # l => b + 1 <= l
          BY <4>3, <4>4
        <5>. QED BY <2>1, <4>1, <4>3, <4>4, <4>5, <5>1
      <4>6. CASE ~Runs[a].cd
        BY <4>1, <4>3, <4>4, <4>6
      <4>. QED BY <4>4, <4>5, <4>6
    <3>. QED BY <3>1, <3>2
  <2>4. \E top \in all : (\A a \in all : a <= top) /\ Runs[top].case = Runs[l].case
    <3>1. CASE Runs[l].cd
      <4>1. \A a \in all : a <= l
        BY <1>1, <2>1, <2>2, <2>3, <3>1 DEF RunAt
      <4>. QED BY <2>2, <4>1
    <3>2. CASE ~Runs[l].cd
      <4>1. j = l + 1 /\ j \in all /\ \A a \in all : a <= j
        BY <1>1, <2>1, <2>2, <2>3, <3>2
      <4>. QED BY <2>1, <4>1
    <3>. QED BY <3>1, <3>2
  <2>5. LastOf(n) = Runs[CHOOSE top \in all : \A a \in all : a <= top].case
    BY <1>1 DEF LastOf, LogKept, NameOf
  <2>6. \A x, y \in all : (\A a \in all : a <= x) /\ (\A a \in all : a <= y) => x = y
    BY <1>1
  <2>. QED BY <2>4, <2>5, <2>6
<1>. QED BY <1>2, <1>3, <1>4

-----------------------------------------------------------------------------
\* As many pairs of a name as names.
LEMMA SameNumber ==
  ASSUME NEW S, IsFiniteSet(S), NEW off
  PROVE  Cardinality({<<n, off>> : n \in S}) = Cardinality(S)
<1>. DEFINE T == {<<n, off>> : n \in S}
            f == [n \in S |-> <<n, off>>]
<1>1. f \in Bijection(S, T)
  <2>1. f \in [S -> T] /\ \A n \in S : f[n] = <<n, off>>
    OBVIOUS
  <2>2. \A t \in T : \E n \in S : f[n] = t
    OBVIOUS
  <2>3. \A n, n1 \in S : f[n] = f[n1] => n = n1
    OBVIOUS
  <2>. QED BY <2>1, <2>2, <2>3 DEF Bijection, Injection, Surjection, IsInjective
<1>. QED BY <1>1, FS_Bijection DEF ExistsBijection

\* As many runs as names, if each has the other.
LEMMA OneEach ==
  ASSUME NEW S, NEW T, IsFiniteSet(T), NEW f,
         \A i \in T : f[i] \in S,
         \A i, j \in T : f[i] = f[j] => i = j,
         \A n \in S : \E i \in T : f[i] = n
  PROVE  Cardinality(S) = Cardinality(T)
<1>. DEFINE g == [i \in T |-> f[i]]
<1>1. g \in [T -> S] /\ \A i \in T : g[i] = f[i]
  OBVIOUS
<1>2. g \in Bijection(T, S)
  BY <1>1 DEF Bijection, Injection, Surjection, IsInjective
<1>. QED BY <1>2, FS_Bijection DEF ExistsBijection

\* The cell of a run, and what the report makes of it.
LEMMA CellOfRun ==
  ASSUME NEW i, RunAt(i), NEW outcome \in Outcomes
  PROVE  /\ Cell(Runs[i], outcome).exp \in Int /\ Cell(Runs[i], outcome).hid \in Int
         /\ Cell(Runs[i], outcome).got \in {"exp", "differs", "TIMEOUT"}
         /\ Cell(Runs[i], outcome).got = "TIMEOUT" <=> outcome = "TIMEOUT"
         /\ Cell(Runs[i], outcome).got = "differs" <=> outcome = "differs"
         /\ Cell(Runs[i], outcome).gothid # Cell(Runs[i], outcome).hid
                <=> outcome = "hidden differs"
<1>1. Cell(Runs[i], outcome).exp \in Int /\ Cell(Runs[i], outcome).hid \in Int
  <2>1. Cell(Runs[i], outcome).exp =
            IF Runs[i].cd THEN Runs[i].case.dis ELSE Runs[i].case.hit
    BY DEF Cell
  <2>2. Cell(Runs[i], outcome).hid = IF Runs[i].cd THEN 0 ELSE Runs[i].case.hidden
    BY DEF Cell
  <2>. QED BY <2>1, <2>2 DEF RunAt
<1>2. /\ Cell(Runs[i], outcome).got \in {"exp", "differs", "TIMEOUT"}
      /\ Cell(Runs[i], outcome).got = "TIMEOUT" <=> outcome = "TIMEOUT"
      /\ Cell(Runs[i], outcome).got = "differs" <=> outcome = "differs"
  <2>1. Cell(Runs[i], outcome).got =
            IF outcome \in {"match", "hidden differs"} THEN "exp" ELSE outcome
    BY DEF Cell
  <2>. QED BY <2>1 DEF Outcomes
<1>3. Cell(Runs[i], outcome).gothid # Cell(Runs[i], outcome).hid
        <=> outcome = "hidden differs"
  <2>1. outcome # "hidden differs" =>
            Cell(Runs[i], outcome).gothid = Cell(Runs[i], outcome).hid
    BY DEF Cell
  <2>2. outcome = "hidden differs" =>
            Cell(Runs[i], outcome).gothid = Cell(Runs[i], outcome).hid + 1
    BY DEF Cell
  <2>3. Cell(Runs[i], outcome).hid + 1 # Cell(Runs[i], outcome).hid
    <3>1. \A h \in Int : h + 1 # h
      OBVIOUS
    <3>. QED BY <1>1, <3>1
  <2>4. outcome = "hidden differs" =>
            Cell(Runs[i], outcome).gothid # Cell(Runs[i], outcome).hid
    <3>. DEFINE cell == Cell(Runs[i], outcome)
    <3>1. outcome = "hidden differs" => cell.gothid = cell.hid + 1
      BY <2>2
    <3>2. cell.hid + 1 # cell.hid
      BY <2>3
    <3>. HIDE DEF cell
    <3>3. outcome = "hidden differs" => cell.gothid # cell.hid
      BY <3>1, <3>2
    <3>. QED BY <3>3 DEF cell
  <2>. QED BY <2>1, <2>4
<1>. QED BY <1>1, <1>2, <1>3

LEMMA MetBy ==
  ASSUME NEW row, NEW k \in {"hit", "dis"}, row[k].got \in {"exp", "differs", "TIMEOUT"},
         row[k].exp \in Int
  PROVE  /\ Met(row, k) = "yes" <=> row[k].got = "exp" /\ row[k].exp >= 0
         /\ Met(row, k) = "no" <=> \/ row[k].got = "TIMEOUT"
                                   \/ row[k].got = "differs" /\ row[k].exp >= 0
  BY DEF Met

\* At the end each name has a cell in each column, of a run of its last case.
FromRun(n, k, i) ==
    /\ i \in 1 .. NumRuns /\ i \in DOMAIN log /\ log[i] \in Outcomes
    /\ NameOf(i) = n /\ Key(Runs[i]) = k /\ Runs[i].case = LastOf(n)
    /\ LastIs(i, RunsOf(n, k, Len(log))) /\ rows[n][k] = Cell(Runs[i], log[i])
    /\ log[i] = "hidden differs" => ~Runs[i].cd /\ Runs[i].case.hidden >= 0

LEMMA LastCells ==
  ASSUME ReportInv, Len(log) = NumRuns, NEW n \in DOMAIN rows, NEW k \in {"hit", "dis"}
  PROVE  \E i : FromRun(n, k, i)
<1>. DEFINE is == RunsOf(n, k, Len(log))
<1>1. LogKept /\ NumRuns \in Nat
  BY TheRuns DEF ReportInv
<1>2. PICK j \in 1 .. NumRuns : NameOf(j) = n
  BY DEF ReportInv, RowsKept
<1>3. is # {} /\ \A l : LastIs(l, is) => Runs[l].case = LastOf(n)
  BY <1>1, <1>2, LastCase
<1>4. CellOf(n, k, rows[n][k])
  BY DEF ReportInv, RowsKept
<1>5. PICK i \in is : LastIs(i, is) /\ rows[n][k] = Cell(Runs[i], log[i])
  BY <1>3, <1>4 DEF CellOf
<1>6. i \in 1 .. NumRuns /\ NameOf(i) = n /\ Key(Runs[i]) = k
  BY <1>5 DEF RunsOf
<1>7. i \in DOMAIN log /\ log[i] \in Outcomes
  <2>1. log \in Seq(Outcomes)
    BY <1>1 DEF LogKept
  <2>. QED BY <1>1, <1>6, <2>1
<1>8. log[i] = "hidden differs" => ~Runs[i].cd /\ Runs[i].case.hidden >= 0
  BY <1>1, <1>6 DEF LogKept
<1>. QED BY <1>3, <1>5, <1>6, <1>7, <1>8 DEF FromRun

\* evidence.py has the cells of report.py.
LEMMA SameCells ==
  ASSUME ReportInv, Len(log) = NumRuns, NEW off \in BOOLEAN
  PROVE  /\ \A e \in DOMAIN entries : e[2] = off => e = <<e[1], off>> /\ e[1] \in DOMAIN rows
         /\ \A n \in DOMAIN rows : /\ <<n, off>> \in DOMAIN entries
                                   /\ entries[<<n, off>>] = rows[n][KeyOf(off)]
<1>1. \A e \in DOMAIN entries : e[2] = off => e = <<e[1], off>> /\ e[1] \in DOMAIN rows
  BY DEF ReportInv, RowsKept, EntriesKept
<1>2. ASSUME NEW n \in DOMAIN rows
      PROVE  <<n, off>> \in DOMAIN entries /\ entries[<<n, off>>] = rows[n][KeyOf(off)]
  <2>1. KeyOf(off) \in {"hit", "dis"}
    BY DEF KeyOf
  <2>2. PICK i : FromRun(n, KeyOf(off), i)
    BY <2>1, LastCells
  <2>3. i \in 1 .. Len(log) /\ NameOf(i) = n /\ Key(Runs[i]) = KeyOf(off)
    BY <2>2 DEF FromRun
  <2>4. Runs[i].cd \in BOOLEAN
    BY <2>2, TheRuns DEF FromRun, RunAt
  <2>5. Runs[i].cd = off
    BY <2>3, <2>4 DEF Key, KeyOf
  <2>. QED BY <2>3, <2>5 DEF ReportInv, EntriesKept
<1>. QED BY <1>1, <1>2

-----------------------------------------------------------------------------
(* The counts as sets of names.                                             *)

Yes(k)    == {n \in DOMAIN rows : Met(rows[n], k) = "yes" /\ HasNote(n) \in BOOLEAN}
No(k, b)  == {n \in DOMAIN rows : Met(rows[n], k) = "no" /\ HasNote(n) \in {b}}
Late(k, b) == {n \in DOMAIN rows : rows[n][k].got = "TIMEOUT" /\ HasNote(n) = b}
Off(k)    == k = "dis"
Same(off) == {e \in DOMAIN entries : /\ e[2] = off /\ entries[e].exp >= 0
                                     /\ entries[e].got # "TIMEOUT" /\ entries[e].got = "exp"}
Other(off, b) == {e \in DOMAIN entries : /\ e[2] = off /\ entries[e].exp >= 0
                                         /\ entries[e].got # "TIMEOUT"
                                         /\ entries[e].got = "differs" /\ HasNote(e[1]) = b}

LEMMA TheCounts ==
  /\ \A k \in Columns :
        Report[k] = <<Cardinality(Yes(k)), Cardinality(No(k, TRUE)), Cardinality(No(k, FALSE))>>
  /\ \A k \in {"hit", "dis"} :
        Evidence[k] = <<Cardinality(Same(Off(k))), Cardinality(Other(Off(k), TRUE)),
                        Cardinality(Other(Off(k), FALSE))>>
<1>1. \A k \in Columns :
        Report[k] = <<Cardinality(Yes(k)), Cardinality(No(k, TRUE)), Cardinality(No(k, FALSE))>>
  BY DEF Report, Yes, No
<1>2. ASSUME NEW k \in {"hit", "dis"}
      PROVE  Evidence[k] = <<Cardinality(Same(Off(k))), Cardinality(Other(Off(k), TRUE)),
                             Cardinality(Other(Off(k), FALSE))>>
  <2>. DEFINE measured(off) == {e \in DOMAIN entries : /\ e[2] = off /\ entries[e].exp >= 0
                                                       /\ entries[e].got # "TIMEOUT"}
              differing(off, noted) == {e \in measured(off) : /\ entries[e].got = "differs"
                                                              /\ HasNote(e[1]) = noted}
              of(off) == <<Cardinality({e \in measured(off) : entries[e].got = "exp"}),
                           Cardinality(differing(off, TRUE)), Cardinality(differing(off, FALSE))>>
  <2>1. Evidence = [c \in Columns |-> IF c = "hid" THEN << >> ELSE of(c = "dis")]
    BY DEF Evidence
  <2>2. {e \in measured(Off(k)) : entries[e].got = "exp"} = Same(Off(k))
    BY DEF Same
  <2>3. /\ differing(Off(k), TRUE) = Other(Off(k), TRUE)
        /\ differing(Off(k), FALSE) = Other(Off(k), FALSE)
    BY DEF Other
  <2>4. Evidence[k] = of(Off(k))
    <3>. HIDE DEF of
    <3>. QED BY <2>1 DEF Columns, Off
  <2>5. of(Off(k)) = <<Cardinality(Same(Off(k))), Cardinality(Other(Off(k), TRUE)),
                       Cardinality(Other(Off(k), FALSE))>>
    <3>. HIDE DEF measured, differing
    <3>. QED BY <2>2, <2>3
  <2>. HIDE DEF of
  <2>. QED BY <2>4, <2>5
<1>. QED BY <1>1, <1>2

\* A row at the end.
LEMMA RowAt ==
  ASSUME ReportInv, Len(log) = NumRuns, NEW n \in DOMAIN rows, NEW k \in {"hit", "dis"}
  PROVE  /\ rows[n][k].got \in {"exp", "differs", "TIMEOUT"}
         /\ rows[n][k].exp \in Int /\ rows[n][k].hid \in Int
         /\ Met(rows[n], k) = "yes" <=> rows[n][k].got = "exp" /\ rows[n][k].exp >= 0
         /\ Met(rows[n], k) = "no" <=> \/ rows[n][k].got = "TIMEOUT"
                                       \/ rows[n][k].got = "differs" /\ rows[n][k].exp >= 0
<1>1. PICK i : FromRun(n, k, i)
  BY LastCells
<1>2. i \in 1 .. NumRuns /\ log[i] \in Outcomes /\ rows[n][k] = Cell(Runs[i], log[i])
  BY <1>1 DEF FromRun
<1>3. RunAt(i)
  BY <1>2, TheRuns
<1>4. /\ rows[n][k].got \in {"exp", "differs", "TIMEOUT"}
      /\ rows[n][k].exp \in Int /\ rows[n][k].hid \in Int
  <2>1. /\ Cell(Runs[i], log[i]).got \in {"exp", "differs", "TIMEOUT"}
        /\ Cell(Runs[i], log[i]).exp \in Int /\ Cell(Runs[i], log[i]).hid \in Int
    BY <1>2, <1>3, CellOfRun
  <2>. QED BY <1>2, <2>1
<1>. QED BY <1>4, MetBy

\* What both scripts call a match.
LEMMA SameMatches ==
  ASSUME ReportInv, Len(log) = NumRuns, NEW k \in {"hit", "dis"}
  PROVE  Cardinality(Same(Off(k))) = Cardinality(Yes(k))
<1>1. Off(k) \in BOOLEAN /\ KeyOf(Off(k)) = k
  BY DEF Off, KeyOf
<1>2. \A n \in DOMAIN rows : HasNote(n) \in BOOLEAN
  BY DEF HasNote
<1>3. \A n \in DOMAIN rows : n \in Yes(k) <=> rows[n][k].got = "exp" /\ rows[n][k].exp >= 0
  BY <1>2, RowAt DEF Yes
<1>4. Same(Off(k)) = {<<n, Off(k)>> : n \in Yes(k)}
  <2>1. ASSUME NEW e \in Same(Off(k)) PROVE e \in {<<n, Off(k)>> : n \in Yes(k)}
    <3>1. e = <<e[1], Off(k)>> /\ e[1] \in DOMAIN rows /\ entries[e].got = "exp" /\ entries[e].exp >= 0
      BY <1>1, <2>1, SameCells DEF Same
    <3>2. entries[<<e[1], Off(k)>>] = rows[e[1]][k]
      BY <1>1, <3>1, SameCells
    <3>. QED BY <1>3, <3>1, <3>2
  <2>2. ASSUME NEW n \in Yes(k) PROVE <<n, Off(k)>> \in Same(Off(k))
    <3>1. n \in DOMAIN rows
      BY DEF Yes
    <3>2. <<n, Off(k)>> \in DOMAIN entries /\ entries[<<n, Off(k)>>] = rows[n][k]
      BY <1>1, <3>1, SameCells
    <3>. QED BY <1>3, <3>1, <3>2 DEF Same
  <2>. QED BY <2>1, <2>2
<1>5. IsFiniteSet(Yes(k))
  BY FS_Subset DEF Yes, ReportInv, RowsKept
<1>. QED BY <1>4, <1>5, SameNumber

\* What both call a difference, with or without a note: the runs that timed out apart.
LEMMA SameDifferences ==
  ASSUME ReportInv, Len(log) = NumRuns, NEW k \in {"hit", "dis"}, NEW b \in BOOLEAN
  PROVE  Cardinality(No(k, b)) = Cardinality(Other(Off(k), b)) + Cardinality(Late(k, b))
<1>. DEFINE differ == {n \in DOMAIN rows : /\ rows[n][k].got = "differs" /\ rows[n][k].exp >= 0
                                           /\ HasNote(n) = b}
<1>1. Off(k) \in BOOLEAN /\ KeyOf(Off(k)) = k
  BY DEF Off, KeyOf
<1>2. Other(Off(k), b) = {<<n, Off(k)>> : n \in differ}
  <2>1. ASSUME NEW e \in Other(Off(k), b) PROVE e \in {<<n, Off(k)>> : n \in differ}
    <3>1. /\ e = <<e[1], Off(k)>> /\ e[1] \in DOMAIN rows
          /\ entries[e].got = "differs" /\ entries[e].exp >= 0 /\ HasNote(e[1]) = b
      BY <1>1, <2>1, SameCells DEF Other
    <3>2. entries[<<e[1], Off(k)>>] = rows[e[1]][k]
      BY <1>1, <3>1, SameCells
    <3>. QED BY <3>1, <3>2
  <2>2. ASSUME NEW n \in differ PROVE <<n, Off(k)>> \in Other(Off(k), b)
    <3>1. <<n, Off(k)>> \in DOMAIN entries /\ entries[<<n, Off(k)>>] = rows[n][k]
      BY <1>1, SameCells
    <3>. QED BY <3>1 DEF Other
  <2>. QED BY <2>1, <2>2
<1>3. No(k, b) = differ \cup Late(k, b)
  BY RowAt DEF No, Late
<1>4. differ \cap Late(k, b) = {}
  BY DEF Late
<1>5. IsFiniteSet(differ) /\ IsFiniteSet(Late(k, b))
  <2>1. IsFiniteSet(DOMAIN rows)
    BY DEF ReportInv, RowsKept
  <2>. QED BY <2>1, FS_Subset DEF Late
<1>. HIDE DEF differ
<1>6. Cardinality(No(k, b)) = Cardinality(differ) + Cardinality(Late(k, b)) - Cardinality({})
  BY <1>3, <1>4, <1>5, FS_Union
<1>7. Cardinality(Other(Off(k), b)) = Cardinality(differ)
  BY <1>2, <1>5, SameNumber
<1>8. Cardinality({}) = 0 /\ Cardinality(differ) \in Nat /\ Cardinality(Late(k, b)) \in Nat
  BY <1>5, FS_EmptySet, FS_CardinalityType
<1>. QED BY <1>6, <1>7, <1>8

LEMMA InvTallies == ReportInv => TalliesAgree
<1>. SUFFICES ASSUME ReportInv, Summarized, NEW k \in {"hit", "dis"}
              PROVE  count[k] = <<tally[k][1], tally[k][2] + Cardinality(Late(k, TRUE)),
                                  tally[k][3] + Cardinality(Late(k, FALSE))>>
  BY DEF TalliesAgree, Late
<1>1. Len(log) = NumRuns /\ count = Report /\ tally = Evidence
  BY DEF ReportInv, Summed
<1>2. count[k] = <<Cardinality(Yes(k)), Cardinality(No(k, TRUE)), Cardinality(No(k, FALSE))>>
  BY <1>1, TheCounts DEF Columns
<1>3. /\ tally[k][1] = Cardinality(Same(Off(k)))
      /\ tally[k][2] = Cardinality(Other(Off(k), TRUE))
      /\ tally[k][3] = Cardinality(Other(Off(k), FALSE))
  <2>1. tally[k] = <<Cardinality(Same(Off(k))), Cardinality(Other(Off(k), TRUE)),
                     Cardinality(Other(Off(k), FALSE))>>
    BY <1>1, TheCounts
  <2>. QED BY <2>1
<1>4. Cardinality(Same(Off(k))) = Cardinality(Yes(k))
  BY <1>1, SameMatches
<1>5. \A b \in BOOLEAN :
        Cardinality(No(k, b)) = Cardinality(Other(Off(k), b)) + Cardinality(Late(k, b))
  BY <1>1, SameDifferences
<1>. QED BY <1>2, <1>3, <1>4, <1>5

\* The runs of a column that differ and are kept, with a note or without.
KeptRuns(k, b) == {i \in Differ(k) : Kept(i) /\ (file[i].case.note # "") = b}
ColumnOf(k) == IF k = "hid" THEN "hit" ELSE k

LEMMA WholeLog ==
  ASSUME ReportInv, Len(log) = NumRuns
  PROVE  file = Runs /\ DOMAIN log = 1 .. NumRuns /\ NumRuns \in Nat
<1>1. file = Runs /\ log \in Seq(Outcomes)
  BY DEF ReportInv, LogKept
<1>2. NumRuns \in Nat
  BY TheRuns
<1>. QED BY <1>1, <1>2

\* A name's last run in a column is the only one that is kept.
LEMMA LastKept ==
  ASSUME ReportInv, Len(log) = NumRuns, NEW n, NEW c \in {"hit", "dis"}, NEW i, FromRun(n, c, i)
  PROVE  /\ Kept(i)
         /\ \A j \in DOMAIN log : Kept(j) /\ NameOf(j) = n /\ Key(Runs[j]) = c => j = i
<1>1. file = Runs /\ DOMAIN log = 1 .. NumRuns /\ NumRuns \in Nat
  BY WholeLog
<1>2. /\ i \in 1 .. NumRuns /\ NameOf(i) = n /\ Key(Runs[i]) = c
      /\ \A j \in 1 .. NumRuns : NameOf(j) = n /\ Key(Runs[j]) = c => j <= i
  BY DEF FromRun, LastIs, RunsOf
<1>3. Kept(i)
  BY <1>1, <1>2 DEF Kept, NameOf
<1>4. ASSUME NEW j \in DOMAIN log, Kept(j), NameOf(j) = n, Key(Runs[j]) = c PROVE j = i
  <2>1. i <= j /\ j <= i
    BY <1>1, <1>2, <1>4 DEF Kept, NameOf
  <2>. QED BY <1>1, <1>2, <1>4, <2>1
<1>. QED BY <1>3, <1>4

\* The row of a name says what its last run measured.
LEMMA LastDiffers ==
  ASSUME ReportInv, Len(log) = NumRuns, NEW k \in Columns, NEW n \in DOMAIN rows, NEW i,
         FromRun(n, ColumnOf(k), i)
  PROVE  Met(rows[n], k) = "no" <=> i \in Differ(k)
<1>. DEFINE col == ColumnOf(k)
<1>1. col \in {"hit", "dis"} /\ file = Runs
  BY DEF ColumnOf, Columns, ReportInv, LogKept
<1>2. /\ i \in 1 .. NumRuns /\ i \in DOMAIN log /\ log[i] \in Outcomes /\ Key(Runs[i]) = col
      /\ rows[n][col] = Cell(Runs[i], log[i])
      /\ log[i] = "hidden differs" => ~Runs[i].cd /\ Runs[i].case.hidden >= 0
  BY DEF FromRun
<1>3. RunAt(i)
  BY <1>2, TheRuns
<1>4. /\ Cell(Runs[i], log[i]).got = "TIMEOUT" <=> log[i] = "TIMEOUT"
      /\ Cell(Runs[i], log[i]).got = "differs" <=> log[i] = "differs"
      /\ Cell(Runs[i], log[i]).got \in {"exp", "differs", "TIMEOUT"}
      /\ Cell(Runs[i], log[i]).gothid # Cell(Runs[i], log[i]).hid <=> log[i] = "hidden differs"
  BY <1>2, <1>3, CellOfRun
<1>5. CASE k = "hid"
  <2>1. col = "hit"
    BY <1>5 DEF ColumnOf
  <2>2. Met(rows[n], k) = "no" <=> /\ rows[n]["hit"].got \notin {"none", "TIMEOUT"}
                                   /\ ~(rows[n]["hit"].hid < 0)
                                   /\ rows[n]["hit"].gothid # rows[n]["hit"].hid
    BY <1>5 DEF Met
  <2>3. log[i] = "hidden differs" => ~(Cell(Runs[i], log[i]).hid < 0)
    <3>1. Cell(Runs[i], log[i]).hid = IF Runs[i].cd THEN 0 ELSE Runs[i].case.hidden
      BY DEF Cell
    <3>2. log[i] = "hidden differs" => Runs[i].case.hidden >= 0 /\ ~Runs[i].cd
      BY <1>2
    <3>3. Runs[i].cd \in BOOLEAN /\ Runs[i].case.hidden \in Int
      BY <1>3 DEF RunAt
    <3>4. \A h \in Int : h >= 0 => ~(h < 0)
      OBVIOUS
    <3>5. ~Runs[i].cd => Cell(Runs[i], log[i]).hid = Runs[i].case.hidden
      BY <3>1, <3>3
    <3>. QED BY <3>2, <3>3, <3>4, <3>5
  <2>4. Met(rows[n], k) = "no" <=> log[i] = "hidden differs"
    BY <1>2, <1>4, <2>1, <2>2, <2>3
  <2>. QED BY <1>2, <1>5, <2>4 DEF Differ
<1>6. CASE k # "hid"
  <2>1. col = k /\ k \in {"hit", "dis"}
    BY <1>1, <1>6 DEF ColumnOf
  <2>2. Met(rows[n], k) = "no" <=> \/ rows[n][k].got = "TIMEOUT"
                                   \/ rows[n][k].got = "differs" /\ rows[n][k].exp >= 0
    BY <2>1, RowAt
  <2>3. Cell(Runs[i], log[i]).exp = IF Runs[i].cd THEN Runs[i].case.dis ELSE Runs[i].case.hit
    BY DEF Cell
  <2>4. Met(rows[n], k) = "no" <=> \/ log[i] = "TIMEOUT"
                                   \/ log[i] = "differs" /\ Cell(Runs[i], log[i]).exp >= 0
    BY <1>2, <1>4, <2>1, <2>2
  <2>. QED BY <1>1, <1>2, <1>6, <2>1, <2>3, <2>4 DEF Differ
<1>. QED BY <1>5, <1>6

\* The names that differ are those of the runs that do.
LEMMA OneRunEach ==
  ASSUME ReportInv, Len(log) = NumRuns, NEW k \in Columns, NEW b \in BOOLEAN
  PROVE  Cardinality(No(k, b)) = Cardinality(KeptRuns(k, b))
<1>. DEFINE name == [i \in 1 .. NumRuns |-> NameOf(i)]
<1>1. /\ file = Runs /\ DOMAIN log = 1 .. NumRuns /\ NumRuns \in Nat
      /\ DOMAIN rows = {NameOf(i) : i \in 1 .. NumRuns}
      /\ ColumnOf(k) \in {"hit", "dis"}
  <2>1. ColumnOf(k) \in {"hit", "dis"}
    BY DEF ColumnOf, Columns
  <2>2. DOMAIN rows = {NameOf(i) : i \in 1 .. NumRuns}
    BY DEF ReportInv, RowsKept
  <2>. QED BY <2>1, <2>2, WholeLog
<1>2. IsFiniteSet(KeptRuns(k, b)) /\ KeptRuns(k, b) \subseteq 1 .. NumRuns
  <2>1. KeptRuns(k, b) \subseteq 1 .. NumRuns
    BY <1>1 DEF KeptRuns, Differ
  <2>. QED BY <1>1, <2>1, FS_Interval, FS_Subset
<1>3. ASSUME NEW i \in KeptRuns(k, b)
      PROVE  NameOf(i) \in No(k, b) /\ FromRun(NameOf(i), ColumnOf(k), i)
  <2>. DEFINE n == NameOf(i)
  <2>1. i \in 1 .. NumRuns /\ i \in DOMAIN log /\ i \in Differ(k) /\ Kept(i)
        /\ (Runs[i].case.note # "") = b
    BY <1>1, <1>2, <1>3 DEF KeptRuns
  <2>2. Key(Runs[i]) = ColumnOf(k)
    <3>1. CASE k = "hid"
      BY <1>1, <2>1, <3>1 DEF Differ, ColumnOf, Key, ReportInv, LogKept
    <3>2. CASE k # "hid"
      BY <1>1, <2>1, <3>2 DEF Differ, ColumnOf
    <3>. QED BY <3>1, <3>2
  <2>3. n \in DOMAIN rows
    BY <1>1, <2>1
  <2>4. PICK j : FromRun(n, ColumnOf(k), j)
    BY <1>1, <2>3, LastCells
  <2>5. j = i
    <3>. HIDE DEF n
    <3>1. \A r \in DOMAIN log : Kept(r) /\ NameOf(r) = n /\ Key(Runs[r]) = ColumnOf(k) => r = j
      BY <1>1, <2>4, LastKept
    <3>2. NameOf(i) = n
      BY DEF n
    <3>. QED BY <2>1, <2>2, <3>1, <3>2
  <2>6. FromRun(n, ColumnOf(k), i) /\ Runs[i].case = LastOf(n)
    BY <2>4, <2>5 DEF FromRun
  <2>7. Met(rows[n], k) = "no"
    BY <2>1, <2>3, <2>6, LastDiffers
  <2>8. HasNote(n) = b
    BY <2>1, <2>6 DEF HasNote
  <2>. QED BY <2>3, <2>6, <2>7, <2>8 DEF No
<1>4. ASSUME NEW n \in No(k, b) PROVE \E i \in KeptRuns(k, b) : name[i] = n
  <2>1. n \in DOMAIN rows /\ Met(rows[n], k) = "no" /\ HasNote(n) = b
    BY DEF No
  <2>2. PICK i : FromRun(n, ColumnOf(k), i)
    BY <1>1, <2>1, LastCells
  <2>3. i \in 1 .. NumRuns /\ NameOf(i) = n /\ Runs[i].case = LastOf(n)
    BY <2>2 DEF FromRun
  <2>4. i \in Differ(k) /\ Kept(i)
    BY <1>1, <2>1, <2>2, LastDiffers, LastKept
  <2>5. (file[i].case.note # "") = b
    BY <1>1, <2>1, <2>3 DEF HasNote
  <2>. QED BY <2>3, <2>4, <2>5 DEF KeptRuns
<1>5. ASSUME NEW i \in KeptRuns(k, b), NEW j \in KeptRuns(k, b), name[i] = name[j] PROVE i = j
  <2>1. NameOf(i) = NameOf(j)
    BY <1>2, <1>5
  <2>2. FromRun(NameOf(i), ColumnOf(k), i) /\ FromRun(NameOf(i), ColumnOf(k), j) /\ Kept(j)
    BY <1>3, <2>1 DEF KeptRuns
  <2>. QED BY <1>1, <1>2, <2>1, <2>2, LastKept DEF FromRun
<1>6. \A i \in KeptRuns(k, b) : name[i] \in No(k, b)
  BY <1>2, <1>3
<1>. HIDE DEF name
<1>. QED BY <1>2, <1>4, <1>5, <1>6, OneEach

\* The differences counted are the kept ones.
LEMMA InvDifferences == ReportInv => DifferencesCounted
<1>. SUFFICES ASSUME ReportInv, Summarized, NEW k \in Columns
              PROVE  /\ count[k][2] = Cardinality({i \in Differ(k) : Kept(i) /\ file[i].case.note # ""})
                     /\ count[k][3] = Cardinality({i \in Differ(k) : Kept(i) /\ file[i].case.note = ""})
  BY DEF DifferencesCounted
<1>1. Len(log) = NumRuns /\ count = Report
  BY DEF ReportInv, Summed
<1>2. count[k] = <<Cardinality(Yes(k)), Cardinality(No(k, TRUE)), Cardinality(No(k, FALSE))>>
  BY <1>1, TheCounts
<1>3. /\ KeptRuns(k, TRUE) = {i \in Differ(k) : Kept(i) /\ file[i].case.note # ""}
      /\ KeptRuns(k, FALSE) = {i \in Differ(k) : Kept(i) /\ file[i].case.note = ""}
  BY DEF KeptRuns
<1>4. /\ Cardinality(No(k, TRUE)) = Cardinality(KeptRuns(k, TRUE))
      /\ Cardinality(No(k, FALSE)) = Cardinality(KeptRuns(k, FALSE))
  BY <1>1, OneRunEach
<1>. QED
  <2>1. count[k][2] = Cardinality(No(k, TRUE)) /\ count[k][3] = Cardinality(No(k, FALSE))
    BY <1>2
  <2>2. count[k][2] = Cardinality(KeptRuns(k, TRUE))
    BY <1>4, <2>1
  <2>3. count[k][3] = Cardinality(KeptRuns(k, FALSE))
    BY <1>4, <2>1
  <2>. QED BY <1>3, <2>2, <2>3

LEMMA NextReportInv ==
  ASSUME ReportInv, [ScriptNext]_scriptVars
  PROVE  ReportInv'
<1>1. CASE RunLine
  BY <1>1, LineKeeps
<1>2. CASE Summarize
  BY <1>2, SummarizeKeeps
<1>3. CASE UNCHANGED reportVars
  <2>1. /\ file' = file /\ log' = log /\ rows' = rows /\ entries' = entries
        /\ count' = count /\ tally' = tally
    BY <1>3 DEF reportVars
  <2>2. LogKept'
    BY <2>1 DEF ReportInv, LogKept
  <2>3. RowsKept'
    BY <2>1 DEF ReportInv, RowsKept, CellOf
  <2>4. EntriesKept'
    BY <2>1 DEF ReportInv, EntriesKept
  <2>5. Report' = Report /\ Evidence' = Evidence
    BY <2>1 DEF Report, Evidence, HasNote, LastOf
  <2>6. Summed'
    BY <2>1, <2>5 DEF ReportInv, Summed, Summarized
  <2>. QED BY <2>2, <2>3, <2>4, <2>6 DEF ReportInv
<1>. QED BY <1>1, <1>2, <1>3 DEF ScriptNext, BenchStep, ReportStep, Ended, scriptVars

\* The numbers of report.py and of evidence.py agree with each other and with
\* the log, for every case file.
THEOREM NumbersAgree == ScriptSpec => []CountsAgree
<1>1. ScriptInit => ReportInv
  BY InitReportInv DEF ScriptInit
<1>2. ReportInv /\ [ScriptNext]_scriptVars => ReportInv'
  BY NextReportInv
<1>3. ReportInv => CountsAgree
  BY InvTallies, InvDifferences DEF CountsAgree
<1>. QED BY <1>1, <1>2, <1>3, PTL DEF ScriptSpec
=============================================================================
