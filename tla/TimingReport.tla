---------------------------- MODULE TimingReport -----------------------------
(***************************************************************************)
(* What is made of the bench's log.  The bench prints a RUN line for every *)
(* case with the cache on and off.  report.py, run by scripts/accuracy.sh, *)
(* and evidence.py, run by hand on the same log, collect the lines under   *)
(* the cases' names and count the figures that match, that differ with a   *)
(* note, and that differ without one (tools/accuracy).  The core is not    *)
(* modelled here: a run may measure anything a run can measure.  Clocks    *)
(* are counted in states.                                                  *)
(*                                                                         *)
(* At the end the script that runs the bench and then the report.          *)
(***************************************************************************)
EXTENDS TimingBench

CONSTANT Logged             \* the cases of the case file, in order

\* A case has its figures; a negative one is not given.
ASSUME LoggedAssumption ==
    /\ Len(Logged) \in Nat /\ DOMAIN Logged = 1 .. Len(Logged)
    /\ \A i \in DOMAIN Logged :
        Logged[i].hit \in Int /\ Logged[i].hidden \in Int /\ Logged[i].dis \in Int

\* The runs of the case file: each case with the cache on, then off.
Runs == [i \in 1 .. 2 * Len(Logged) |->
            [case |-> Logged[(i + 1) \div 2], cd |-> i % 2 = 0]]

Outcomes == {"match", "differs", "hidden differs", "TIMEOUT"}
NoCell   == [exp |-> -1, hid |-> -1, got |-> "none", gothid |-> 0]
NoNames  == [n \in {} |-> 0]

VARIABLES
    file,       \* the case file
    log,        \* the outcome of each run so far
    rows,       \* report.py: a cell for each name and cache state
    entries,    \* evidence.py: a cell for each (name, cd)
    count,      \* report.py: figures ok, explained, unexplained, by column
    tally       \* evidence.py: match, noted, other, by cache state

reportVars == <<file, log, rows, entries, count, tally>>

Columns == {"hit", "hid", "dis"}
NoCount == [k \in Columns |-> << >>]

ReportInit ==
    /\ file = Runs
    /\ log = << >>
    /\ rows = NoNames /\ entries = NoNames
    /\ count = NoCount /\ tally = NoCount

-----------------------------------------------------------------------------
(* A RUN line: the figures expected, what was measured.                     *)

Cell(r, outcome) ==
    LET exp == IF r.cd THEN r.case.dis ELSE r.case.hit
        hid == IF r.cd THEN 0 ELSE r.case.hidden
    IN  [exp |-> exp, hid |-> hid,
         got |-> IF outcome \in {"match", "hidden differs"} THEN "exp" ELSE outcome,
         gothid |-> IF outcome = "hidden differs" THEN hid + 1 ELSE hid]

Key(r) == IF r.cd THEN "dis" ELSE "hit"

\* rows.setdefault(name, ...), then the line's half of the row.
Collect(r, cell) ==
    [n \in DOMAIN rows \cup {r.case.name} |->
        IF n # r.case.name THEN rows[n]
        ELSE [(IF n \in DOMAIN rows THEN rows[n] ELSE [k \in {"hit", "dis"} |-> NoCell])
                EXCEPT ![Key(r)] = cell]]

\* evidence.parse.
Parse(r, cell) ==
    [k \in DOMAIN entries \cup {<<r.case.name, r.cd>>} |->
        IF k = <<r.case.name, r.cd>> THEN cell ELSE entries[k]]

LogLine(r, outcome) ==
    /\ log' = Append(log, outcome)
    /\ rows' = Collect(r, Cell(r, outcome))
    /\ entries' = Parse(r, Cell(r, outcome))

RunLine ==
    /\ Len(log) < Len(file)
    /\ \E outcome \in Outcomes :
        /\ outcome = "hidden differs" =>
            ~ file[Len(log) + 1].cd /\ file[Len(log) + 1].case.hidden >= 0
        /\ LogLine(file[Len(log) + 1], outcome)
    /\ UNCHANGED <<file, count, tally>>

-----------------------------------------------------------------------------
(* The counts.                                                              *)

\* notes, names: the last case of a name.
LastOf(name) ==
    LET is == {i \in DOMAIN file : file[i].case.name = name}
    IN  file[CHOOSE i \in is : \A j \in is : j <= i].case
HasNote(name) == LastOf(name).note # ""

\* Whether the figure of column k is met; "-" where there is none to meet.
Met(row, k) ==
    LET cell == row[IF k = "hid" THEN "hit" ELSE k] IN
    IF cell.got = "none" THEN "-"
    ELSE IF k = "hid"
         THEN IF cell.got = "TIMEOUT" \/ cell.hid < 0 THEN "-"
              ELSE IF cell.gothid = cell.hid THEN "yes" ELSE "no"
    ELSE IF cell.got = "TIMEOUT" THEN "no"
    ELSE IF cell.exp < 0 THEN "-"
    ELSE IF cell.got = "exp" THEN "yes" ELSE "no"

\* Fault: a difference in a row with a note is a match.
ReportNotedAsOk ==
    LET rowsWith(k, met) == Cardinality({n \in DOMAIN rows : Met(rows[n], k) \in met})
    IN  [k \in Columns |-> <<rowsWith(k, {"yes"}), 0, rowsWith(k, {"no"})>>]

Report ==
    LET rowsWith(k, met, noted) ==
            Cardinality({n \in DOMAIN rows : Met(rows[n], k) = met /\ HasNote(n) \in noted})
    IN  [k \in Columns |-> <<rowsWith(k, "yes", BOOLEAN), rowsWith(k, "no", {TRUE}),
                             rowsWith(k, "no", {FALSE})>>]

\* tally(key, cache): figures that are printed and were measured.
Evidence ==
    LET measured(off) == {k \in DOMAIN entries : /\ k[2] = off /\ entries[k].exp >= 0
                                                 /\ entries[k].got # "TIMEOUT"}
        differing(off, noted) == {k \in measured(off) : /\ entries[k].got = "differs"
                                                        /\ HasNote(k[1]) = noted}
        of(off) == <<Cardinality({k \in measured(off) : entries[k].got = "exp"}),
                     Cardinality(differing(off, TRUE)), Cardinality(differing(off, FALSE))>>
    IN  [k \in Columns |-> IF k = "hid" THEN << >> ELSE of(k = "dis")]

Summarize ==
    /\ Len(log) = Len(file) /\ count = NoCount
    /\ count' = Report
    /\ tally' = Evidence
    /\ UNCHANGED <<file, log, rows, entries>>

Summarized == count # NoCount

-----------------------------------------------------------------------------
(* The numbers and the log.                                                 *)

\* The runs of column k whose figure differs from what was measured.
Differ(k) ==
    {i \in DOMAIN log :
        IF k = "hid" THEN log[i] = "hidden differs"
        ELSE /\ Key(file[i]) = k
             /\ \/ log[i] = "TIMEOUT"
                \/ log[i] = "differs" /\ (IF file[i].cd THEN file[i].case.dis
                                          ELSE file[i].case.hit) >= 0}

\* The two scripts count the same figures, up to the runs that timed out:
\* report.py counts those as differing, evidence.py leaves them out.
TalliesAgree ==
    Summarized => \A k \in {"hit", "dis"} :
        LET late(noted) == Cardinality({n \in DOMAIN rows : /\ rows[n][k].got = "TIMEOUT"
                                                            /\ HasNote(n) = noted})
        IN  count[k] = <<tally[k][1], tally[k][2] + late(TRUE), tally[k][3] + late(FALSE)>>

\* No later run of the same name and cache state came over it.
Kept(i) == \A j \in DOMAIN log :
              file[j].case.name = file[i].case.name /\ Key(file[j]) = Key(file[i]) => j <= i

\* The differences counted are those measured, each once, but for runs that a
\* later one of their name came over; and each is called explained exactly if
\* its own case has a note, never by the note of another case of its name.
DifferencesCounted ==
    Summarized => \A k \in Columns :
        /\ count[k][2] = Cardinality({i \in Differ(k) : Kept(i) /\ file[i].case.note # ""})
        /\ count[k][3] = Cardinality({i \in Differ(k) : Kept(i) /\ file[i].case.note = ""})

\* The numbers of the two scripts agree with each other and with the log.
CountsAgree == TalliesAgree /\ DifferencesCounted

\* What report.py says of itself: a case that carries a note, where the core
\* does not give the printed figure, is counted as explained.
NotedCounted ==
    Summarized => \A k \in Columns :
        count[k][2] = Cardinality({i \in Differ(k) : file[i].case.note # ""})

-----------------------------------------------------------------------------
(* scripts/accuracy.sh: the bench, run by run, and after its last run the   *)
(* report over the log.  The runs do not touch one another, so a behaviour  *)
(* follows one of them; one that follows the last goes on to the report,    *)
(* whose log lines are those of Runs, some of the runs of the script.  The  *)
(* other modes of cases.py are run by hand, and make no report.             *)

scriptVars == <<benchVars, reportVars>>

\* The last run of all_cases, in the order main writes them.
LastRun == phase = "done" /\ case.flush /\ cd /\ mode = "plain"

ScriptInit == BenchInit /\ ReportInit
BenchStep  == (Emit \/ Assemble \/ Write \/ Execute \/ TakeInterrupt) /\ UNCHANGED reportVars
ReportStep == LastRun /\ (RunLine \/ Summarize) /\ UNCHANGED benchVars
Ended      == Stopped /\ (LastRun => Summarized) /\ UNCHANGED scriptVars

ScriptNext == BenchStep \/ ReportStep \/ Ended
ScriptSpec == ScriptInit /\ [][ScriptNext]_scriptVars
=============================================================================
