------------------------------ MODULE LiveGate ------------------------------
(***************************************************************************)
(* scripts/mame_graphics_diff.sh and scripts/ti_workloads.sh: MAME and the *)
(* RTL run the same vectors and the comparator holds both outputs against  *)
(* the accepted ones and their differences against the ledger.  Between    *)
(* runs developers edit the case table or the RTL and refresh the files    *)
(* that are checked in; an engine or the generator may be cut short, and   *)
(* then the file it was writing is too.  corpus says which script it is.   *)
(*                                                                         *)
(* A result file is [vec, by, whole]: the vectors it was computed on, what *)
(* computed it (MAME, or a version of the RTL), and whether all of it is   *)
(* there.  The files of a script are bytewise equal when these are.        *)
(*                                                                         *)
(* First the corpora and the ledgers of their differences:                 *)
(* tools/mame/generate_graphics_vectors.py, compare_graphics_results.py    *)
(* for the graphics corpus, tools/ti/prepare_workloads.py,                 *)
(* compare_workloads.py for the TI programs.  A difference is              *)
(* [case, field, at]: at are the indices at which the field's values       *)
(* differ.  The graphics comparator does not look at them.                 *)
(***************************************************************************)
EXTENDS Integers, Sequences, FiniteSets, SequencesExt, FiniteSetsExt

-----------------------------------------------------------------------------
(* build_vectors: cases in order, with the tags the classifier looks at.    *)

Vector(name, n, tags) == [name |-> <<name, n>>, tags |-> tags]

Psizes == <<1, 2, 4, 8, 16>>
PpopVectors ==
    LET all     == [i \in 1 .. 5 * 22 |-> [psize |-> Psizes[(i - 1) \div 22 + 1], ppop |-> (i - 1) % 22]]
        defined == SelectSeq(all, LAMBDA p : p.ppop < 16 \/ p.psize >= 4)
    IN  [i \in DOMAIN defined |-> Vector("ppop", 100 * defined[i].psize + defined[i].ppop, {"pixt"})]
FormVectors ==
    [i \in 1 .. 6 |-> Vector("pixt form", i, {"pixt"})]
    \o <<Vector("drav", 1, {"drav"}), Vector("line", 1, {"array"})>>
    \o [i \in 1 .. 2 |-> Vector("fill form", i, {"array"})]
    \o [i \in 1 .. 6 |-> Vector("pixblt form", i, {"pixblt", "array"})]
WindowVectors    == [i \in 1 .. 4 |-> Vector("window_mode", i - 1, {"pixt", "window"})]
MaskVectors      == [i \in 1 .. 4 |-> Vector("mask", i, {"pixt", IF i = 3 THEN "transparency" ELSE "pmask"})]
PitchVectors     == [i \in 1 .. 3 |-> Vector("pitch", <<20, 23, 27>>[i], {"pixblt"})]
DirectionVectors == [i \in 1 .. 4 |-> Vector("direction", i - 1, {"pixblt", "direction"})]
EdgeVectors      == [i \in 1 .. 5 |-> Vector("array_edge", i, {"array-edge"})]
ResumeVectors    == [i \in 1 .. 3 |-> Vector("resume_endpoint", i,
                        {"interrupt-resume-endpoint"} \cup (IF i = 2 THEN {"pixblt"} ELSE {}))]

Vectors == PpopVectors \o FormVectors \o WindowVectors \o MaskVectors \o PitchVectors
           \o DirectionVectors \o EdgeVectors \o ResumeVectors

GraphicsFields == {"PC", "SP", "ST", "A", "B", "IO", "MEM"}

\* classify: the first rule that applies.
GraphicsClass(d) ==
    LET tags  == Vectors[d.case].tags
        rules == <<
            <<d.field = "PC",                       "endpoint_pc_observation">>,
            <<"array-edge" \in tags,                "array_extent_and_terminal_context">>,
            <<"direction" \in tags,                 "directional_array_context">>,
            <<"interrupt-resume-endpoint" \in tags, "atomic_reference_checkpoint_limit">>,
            <<"array" \in tags,                     "array_terminal_context">>,
            <<"pixblt" \in tags /\ d.field \in {"B", "MEM", "ST"}, "array_terminal_context">>,
            <<"window" \in tags,                    "window_mode_reference_gap">>,
            <<tags \cap {"pmask", "transparency"} # {}, "physical_plane_mask_order">>,
            <<"pixt" \in tags /\ d.field \in {"MEM", "ST", "A", "B"}, "subword_pixel_addressing">> >>
        apply == {i \in DOMAIN rules : rules[i][1]}
    IN  IF apply = {} THEN "" ELSE rules[Min(apply)][2]

-----------------------------------------------------------------------------
(* The TI programs, and the classifier of compare_workloads.py.             *)

Workloads == {"rom_tutorial", "sample_function_library", "graphics_math_arcs",
              "graphics_math_transfer", "gsp_paint"}
WorkloadFields == {"PC", "SP", "ST", "A", "B", "IO", "HASH:framebuffer", "HASH:program_workspace"}

\* Fault: the rule for the paint program forgets its field.
TiClassAnyField(d) ==
    IF d.case = "gsp_paint" /\ d.field # "HASH:framebuffer" THEN "array_terminal_context"
    ELSE "production_graphics_reference_semantics"

TiClass(d) ==
    CASE d.field = "B" /\ <<d.case, d.at>> \in {<<"sample_function_library", {2, 10, 11, 12, 14}>>,
                                               <<"gsp_paint", {5, 6}>>} ->
            "array_terminal_context"
      [] d.field = "HASH:framebuffer" /\ d.case # "rom_tutorial" ->
            "production_graphics_reference_semantics"
      [] d.field = "HASH:program_workspace"
           /\ d.case \notin {"rom_tutorial", "sample_function_library"} ->
            "saved_graphics_context_residue"
      [] OTHER -> ""

-----------------------------------------------------------------------------
(* make_ledger, of a corpus and its differences.                            *)

Class(c, d) == IF c = "graphics" THEN GraphicsClass(d) ELSE TiClass(d)
Unexplained(c, diffs) == {d \in diffs : Class(c, d) = ""}

\* The graphics ledger counts the fields of a class and names its first case;
\* the other one lists the instances.
GraphicsLedger(diffs) ==
    LET of(k) == {d \in diffs : GraphicsClass(d) = k}
    IN  {[class  |-> k,
          counts |-> [f \in {d.field : d \in of(k)} |-> Cardinality({d \in of(k) : d.field = f})],
          first  |-> Min({d.case : d \in of(k)})] : k \in {GraphicsClass(d) : d \in diffs}}
TiLedger(diffs) == {[class |-> TiClass(d), instance |-> d] : d \in diffs}
Ledger(c, diffs) == IF c = "graphics" THEN GraphicsLedger(diffs) ELSE TiLedger(diffs)
-----------------------------------------------------------------------------
(* The files, the scripts and their steps.                                  *)

CONSTANTS
    Corpora,            \* a subset of "graphics", "ti"
    RtlVersions,        \* versions of the RTL's behaviour, RtlVersions[corpus]
    Differs(_, _),      \* differences of a version to MAME, on the same vectors
    MaxEdits            \* bound: what the developers do in a behaviour

\* What is checked in at first has a ledger.
ASSUME GateAssumption ==
    /\ Corpora \subseteq {"graphics", "ti"}
    /\ \A c \in Corpora : Unexplained(c, Differs(c, RtlVersions[c][1])) = {}

VARIABLES
    corpus,
    table, rtl,         \* sources: version of the case table, of the RTL
    vectors,            \* the vector file: a version, or Torn
    manifest,           \* [table, hashes] of what it was made from
    accepted,           \* [mame, rtl]: the accepted result files
    ledger,             \* the accepted differences
    live,               \* [mame, rtl]: the result files under work/
    gate,               \* [kind, step] of the script under way
    edits

vars == <<corpus, table, rtl, vectors, manifest, accepted, ledger, live, gate, edits>>
sources   == <<corpus, table, rtl>>
checkedIn == <<manifest, accepted, ledger>>

Torn   == 0
NoFile == [vec |-> 0, by |-> "none", whole |-> FALSE]
Result(vec, by) == [vec |-> vec, by |-> by, whole |-> TRUE]
Cut(file)       == [file EXCEPT !.whole = FALSE]

Idle    == [kind |-> "none", step |-> "idle"]
At(s)   == gate.step = s
Go(s)   == gate' = [gate EXCEPT !.step = s]

\* Where vectors differ, every field may.
CorpusCases == IF corpus = "graphics" THEN DOMAIN Vectors ELSE Workloads
AllFields == IF corpus = "graphics" THEN GraphicsFields ELSE WorkloadFields
Everything == {[case |-> c, field |-> f, at |-> {0}] : c \in CorpusCases, f \in AllFields}
Differences(m, r) == IF m.vec = r.vec THEN Differs(corpus, r.by) ELSE Everything

\* The graphics manifest holds the hashes of the accepted files.
Hashes == IF corpus = "graphics" THEN <<accepted.mame, accepted.rtl>> ELSE << >>

Init ==
    /\ corpus \in Corpora
    /\ table = 1 /\ vectors = 1
    /\ rtl \in {RtlVersions[corpus][1]}
    /\ accepted = [mame |-> Result(1, "mame"), rtl |-> Result(1, rtl)]
    /\ manifest = [table |-> 1, hashes |-> Hashes]
    /\ ledger = Ledger(corpus, Differs(corpus, rtl))
    /\ live = [mame |-> NoFile, rtl |-> NoFile]
    /\ gate = Idle /\ edits = 0

-----------------------------------------------------------------------------
(* The comparator, on two result files.                                     *)

Parses(file) == file.whole
\* Fault: MAME's output is not held against the accepted one.
ExactCompareRtlOnly(m, r) == r = accepted.rtl
ExactCompare(m, r) == m = accepted.mame /\ r = accepted.rtl

\* Fault: results are compared that the engine did not finish.
ClosedUnparsed(m, r) == NoFile \notin {m, r} /\ Unexplained(corpus, Differences(m, r)) = {}

\* make_ledger: the ledger of the two files, if there is one.
Closed(m, r) == Parses(m) /\ Parses(r) /\ Unexplained(corpus, Differences(m, r)) = {}
MakeLedger(m, r) == Ledger(corpus, Differences(m, r))

\* compare, without --write-ledger.
Compares(m, r) == Closed(m, r) /\ ledger = MakeLedger(m, r) /\ ExactCompare(m, r)

-----------------------------------------------------------------------------
(* The scripts.                                                             *)

\* Whether the generator's --check is content; the TI one writes the vectors
\* under work/ before it looks.
Fresh == manifest = [table |-> table, hashes |-> Hashes]
CheckVectors(next) ==
    /\ vectors' = IF corpus = "ti" THEN table ELSE vectors
    /\ IF Fresh /\ vectors' = table THEN Go(next) ELSE gate' = Idle
    /\ UNCHANGED <<sources, checkedIn, live, edits>>

\* The live script, or scripts/sim.sh on the replay bench alone: of the
\* graphics bench it runs nothing else.
Start ==
    /\ At("idle") \/ At("pass")
    /\ \E kind \in {"live", "replay"} :
        gate' = [kind |-> kind,
                 step |-> IF kind = "replay" /\ corpus = "graphics" THEN "replay" ELSE "check"]
    /\ UNCHANGED <<sources, vectors, checkedIn, live, edits>>

Check ==
    /\ At("check")
    /\ CheckVectors(IF gate.kind = "live" THEN "mame" ELSE "replay")

\* MAME ends when the last case is done, or when its seconds are over: with
\* status zero and with what it has written so far.
Mame ==
    /\ At("mame")
    /\ \E all \in BOOLEAN :
        live' = [live EXCEPT !.mame = IF all THEN Result(vectors, "mame")
                                             ELSE Cut(Result(vectors, "mame"))]
    /\ Go(IF corpus = "ti" THEN "recheck" ELSE "replay")
    /\ UNCHANGED <<sources, vectors, checkedIn, edits>>

\* sim.sh prepares the TI vectors again.
Recheck == At("recheck") /\ CheckVectors("replay")

\* The bench replays the vectors: the graphics one fails where the result is
\* not the accepted one.
Replay ==
    /\ At("replay")
    /\ vectors # Torn
    /\ live' = [live EXCEPT !.rtl = Result(vectors, rtl)]
    /\ IF corpus = "graphics" /\ live'.rtl # accepted.rtl THEN gate' = Idle
       ELSE Go(IF corpus = "ti" THEN "compare_rtl"
               ELSE IF gate.kind = "live" THEN "compare" ELSE "pass")
    /\ UNCHANGED <<sources, vectors, checkedIn, edits>>

\* An illegal opcode, a timeout, or vectors that do not parse.
ReplayFails ==
    /\ At("replay")
    /\ live' = [live EXCEPT !.rtl = Cut(Result(vectors, rtl))]
    /\ gate' = Idle
    /\ UNCHANGED <<sources, vectors, checkedIn, edits>>

\* sim.sh compares the RTL's TI output with the accepted one of MAME.
CompareRtl ==
    /\ At("compare_rtl")
    /\ IF Compares(accepted.mame, live.rtl)
       THEN Go(IF gate.kind = "live" THEN "compare" ELSE "pass") ELSE gate' = Idle
    /\ UNCHANGED <<sources, vectors, checkedIn, live, edits>>

Compare ==
    /\ At("compare")
    /\ IF Compares(live.mame, live.rtl) THEN Go("pass") ELSE gate' = Idle
    /\ UNCHANGED <<sources, vectors, checkedIn, live, edits>>

\* The script is interrupted while an engine writes its output.
Interrupt ==
    /\ At("mame") \/ At("replay")
    /\ LET engine == IF At("mame") THEN "mame" ELSE "rtl"
       IN  live' = [live EXCEPT ![engine] =
                        Cut(Result(vectors, IF At("mame") THEN "mame" ELSE rtl))]
    /\ gate' = Idle
    /\ UNCHANGED <<sources, vectors, checkedIn, edits>>

-----------------------------------------------------------------------------
(* The developers, between two runs.                                        *)

Edit ==
    /\ At("idle") \/ At("pass")
    /\ edits < MaxEdits
    /\ edits' = edits + 1
    /\ gate' = Idle

EditTable ==
    /\ Edit
    /\ table' = 3 - table
    /\ UNCHANGED <<corpus, rtl, vectors, checkedIn, live>>

EditRtl ==
    /\ Edit
    /\ rtl' \in Range(RtlVersions[corpus]) \ {rtl}
    /\ UNCHANGED <<corpus, table, vectors, checkedIn, live>>

\* The generator, or prepare_workloads.py --write-metadata: the vectors, then
\* the manifest; cut short, it leaves a torn file or the old manifest.
Regenerate ==
    /\ Edit
    /\ \/ vectors' = Torn /\ UNCHANGED manifest
       \/ vectors' = table /\ UNCHANGED manifest
       \/ vectors' = table /\ manifest' = [table |-> Torn, hashes |-> << >>]
       \/ vectors' = table /\ manifest' = [table |-> table, hashes |-> Hashes]
    /\ UNCHANGED <<sources, accepted, ledger, live>>

\* An output under work/ becomes the accepted one.
Accept ==
    /\ Edit
    /\ \E engine \in {"mame", "rtl"} :
        /\ live[engine] # NoFile
        /\ accepted' = [accepted EXCEPT ![engine] = live[engine]]
    /\ UNCHANGED <<sources, vectors, manifest, ledger, live>>

\* compare --write-ledger: the ledger is written before the files are held
\* against the accepted ones.
WriteLedger ==
    /\ Edit
    /\ \E m \in {accepted.mame, live.mame}, r \in {accepted.rtl, live.rtl} :
        /\ Closed(m, r)
        /\ ledger' = MakeLedger(m, r)
    /\ UNCHANGED <<sources, vectors, manifest, accepted, live>>

Next ==
    \/ Start \/ Check \/ Mame \/ Recheck \/ Replay \/ ReplayFails \/ CompareRtl \/ Compare \/ Interrupt
    \/ EditTable \/ EditRtl \/ Regenerate \/ Accept \/ WriteLedger

Spec == Init /\ [][Next]_vars

-----------------------------------------------------------------------------
(* What a pass of the live script means.                                    *)

Passed(kind) == At("pass") /\ gate.kind = kind

\* Both outputs are of the case table and the RTL as they are now, and all of
\* each is there, whatever was edited, regenerated in part, or cut short since
\* the last pass.
PassIsCurrent ==
    Passed("live") =>
        /\ vectors = table /\ manifest.table = table
        /\ live.mame = Result(table, "mame")
        /\ live.rtl = Result(table, rtl)

\* Both outputs are the accepted ones, and the ledger is that of their
\* differences, each of a known class: nothing was accepted for one engine,
\* or entered in the ledger, that the other file does not agree with.
PassIsAccepted ==
    Passed("live") =>
        /\ live = accepted
        /\ ledger = Ledger(corpus, Differs(corpus, rtl))
        /\ Unexplained(corpus, Differs(corpus, rtl)) = {}

\* However the ledger came to be, a TI program's control state is the same on
\* both engines: PC, SP, ST, the A registers and the I/O registers are never
\* excused, and of B only scratch registers are (compare_workloads.py:162-165).
ControlStateAgrees ==
    corpus = "ti" =>
        \A item \in ledger :
            /\ item.instance.field \notin {"PC", "SP", "ST", "A", "IO"}
            /\ item.instance.field = "B" => item.instance.at \subseteq {2, 5, 6, 10, 11, 12, 14}
=============================================================================
