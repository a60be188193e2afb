----------------------------- MODULE TimingBench -----------------------------
(***************************************************************************)
(* The instruction-timing bench: tools/accuracy/cases.py turns a case into *)
(* a program, assembles it and writes the addresses the monitor of         *)
(* sim/accuracy/tb_accuracy.sv is to watch; the program is then run from   *)
(* the core's instruction cache and the monitor measures the states        *)
(* between two opcode fetches of the second pass of its loop.              *)
(*                                                                         *)
(* One run: a case is chosen, its figures are set aside (programs of equal *)
(* layout are one), the program is built, assembled line by line, checked, *)
(* and executed line by line.  What is checked is that the number the      *)
(* monitor reports is a measurement of the instruction the figures are of. *)
(***************************************************************************)
EXTENDS GraphicsCases, SequencesExt

CONSTANT Modes              \* of main: "plain", "screen", "int"

HiddenWindow == 11          \* states the monitor still counts data cycles for
CacheWords   == 128         \* the limit main asserts

VARIABLES
    phase,      \* "figures", "assemble", "run", "done", "timeout", "rejected", "lost"
    case,       \* the case; without its figures once its program is built
    mode, cd,   \* main's argument; whether the cache is disabled
    prog,       \* the lines of the program
    cpu,        \* pc: line; stack: return addresses; a12: loop count; cache;
                \* drained: NOPs since the last other instruction;
                \* interrupted: the test's one interrupt has been taken
    monitor     \* seen, gotNext of the monitor; spanned: instructions and
                \* misses: cache misses between the two fetches; before: NOPs
                \* drained when t came; quiet: NOPs from nx on, broken when
                \* something else was run

runVars == <<cpu, monitor>>
benchVars == <<phase, case, mode, cd, prog, cpu, monitor, asmVars>>

-----------------------------------------------------------------------------
(* Case.program.                                                            *)

Words(n) == IF n = 0 THEN << >> ELSE <<Code(n)>>

IoWords == 2 * MoviL + 1                    \* address, value, MOVE
ScreenWords == 1 + 11 * IoWords             \* SETF, then SCREEN_IO
ControlWords(off) == MoviWords(IF off THEN 32792 ELSE 24)      \* CTRL_CD + CTRL_RR
Prologue(off) == <<Code(MoviL + ControlWords(off) + 1 + 1 + MoviL + 1)>>

\* interrupt_variant: a vector, INTENB and EINT, and a handler.
IntWords == 1 + MoviL + MoveWords("R", "@") + MoviL + MoviW + 1 + 1 + 1
Handler  == <<Lab("IH", Code(1)), Nops(7), Return("RETI")>>

SetupLines(c, m) ==
    LET int == IF m = "int" THEN IntWords ELSE 0
    IN  IF c.flush
        THEN Words(int) \o <<Line("FLUSH", FlushWords), Nops(c.setup - FlushWords)>>
        ELSE Words(IoWords * c.io + int + c.setup)

Program(c, off, m) ==
    (IF m = "screen" THEN Words(ScreenWords) ELSE << >>)
    \o Words(c.pre) \o Prologue(off)
    \o <<Lab("LOOP", Nops(1))>> \o SetupLines(c, m) \o <<Nops(12)>>
    \o <<Lab("T", Head(c.test))>> \o Tail(c.test)
    \o <<Lab("N", Nops(1)), Nops(11), Lab("E", Jump("DSJ", "LOOP")), Lab("DONE", Jump("JR", "DONE"))>>
    \o c.sub \o (IF m = "int" THEN Handler ELSE << >>)

\* cache_miss_cases: where T of the padded program is, in plain mode with the
\* cache on, decides which padding is used.
LinesBefore(lab, p) == SelectInSeq(p, LAMBDA l : lab \in l.lab) - 1
AddressOf(lab, p) ==
    CodeBase + FoldLeft(LAMBDA a, l : a + LineWords(l), 0, SubSeq(p, 1, LinesBefore(lab, p)))
Pads == {pad \in 0 .. 3 : AddressOf("T", Program(CacheMissCase(pad), FALSE, "plain")) % 4 = 3}
CacheMissCases == {CacheMissCase(pad) : pad \in {p \in Pads : \A q \in Pads : p <= q}}

AllCases == UncachedCases \cup CacheMissCases

-----------------------------------------------------------------------------
(* The instruction cache: the segments in the order of their last use, each *)
(* 32 words in subsegments of four, of which some are present.              *)

NoCache == << >>
Holding(cache, sub) == {i \in DOMAIN cache : cache[i].segment = sub \div 8}
Misses(cache, sub) == \A i \in Holding(cache, sub) : sub % 8 \notin cache[i].present

\* Fault: only two segments are kept.
FetchTwoSegments(cache, sub) ==
    LET held == Holding(cache, sub) IN
    IF held = {} THEN <<[segment |-> sub \div 8, present |-> {sub % 8}]>>
                      \o SubSeq(cache, 1, IF Len(cache) < 2 THEN Len(cache) ELSE 1)
    ELSE LET i == CHOOSE i \in held : TRUE
         IN  <<[cache[i] EXCEPT !.present = @ \cup {sub % 8}]>> \o RemoveAt(cache, i)

\* The subsegment is used: its segment goes to the front; one not held takes
\* the place of the least recently used.
Fetch(cache, sub) ==
    LET held == Holding(cache, sub) IN
    IF held = {} THEN <<[segment |-> sub \div 8, present |-> {sub % 8}]>>
                      \o SubSeq(cache, 1, IF Len(cache) < 4 THEN Len(cache) ELSE 3)
    ELSE LET i == CHOOSE i \in held : TRUE
         IN  <<[cache[i] EXCEPT !.present = @ \cup {sub % 8}]>> \o RemoveAt(cache, i)

\* The fetches of the words from first to last, one for each subsegment.
FetchAll(cache, first, last) ==
    LET one(r, sub) == [cache |-> Fetch(r.cache, sub), misses |-> Append(r.misses, Misses(r.cache, sub))]
        all[sub \in first \div 4 - 1 .. last \div 4] ==
            IF sub < first \div 4 THEN [cache |-> cache, misses |-> << >>]
            ELSE CHOOSE after \in {one(before, sub) : before \in {all[sub - 1]}} : TRUE
    IN  all[last \div 4]

-----------------------------------------------------------------------------
(* main: one run for each case and cache state.                             *)

StartOfRun == [pc |-> 1, stack |-> << >>, a12 |-> 2, cache |-> NoCache, drained |-> 0,
               interrupted |-> FALSE]
Reset == [seen |-> 0, gotNext |-> FALSE, spanned |-> 0, misses |-> 0, before |-> 0, quiet |-> 0,
          broken |-> FALSE]

BenchInit ==
    /\ phase = "figures"
    /\ case \in AllCases
    /\ mode = "plain" /\ cd = FALSE
    /\ prog = << >>
    /\ cpu = StartOfRun /\ monitor = Reset
    /\ AsmInit

\* A case without its figures: its name is only kept where it is of a sequence.
Measured(c) == IF c.flush THEN 4 ELSE IF c.name = Figure59.name THEN 5 ELSE 1
Layout(c) == [Case(Measured(c), c.test, 0, 0, 0)
                EXCEPT !.setup = c.setup, !.pre = c.pre, !.io = c.io, !.flush = c.flush,
                       !.sub = c.sub]
IsTransfer(c) == c.xfer.kind # "none"

Emit ==
    /\ phase = "figures"
    /\ \E m \in Modes, off \in BOOLEAN :
        /\ m = "int" => IsTransfer(case)
        /\ mode' = m
        /\ cd' = off
        /\ prog' = Program(case, off, m)
    /\ case' = Layout(case)
    /\ phase' = "assemble"
    /\ UNCHANGED <<asmVars, runVars>>

Assemble ==
    /\ phase = "assemble"
    /\ AsmLine(prog) \/ NextPass(prog)
    /\ phase' = IF AsmFails(prog) THEN "rejected" ELSE "assemble"
    /\ UNCHANGED <<case, mode, cd, prog, runVars>>

\* Fault: a call or a return is measured up to the line after the test.
NxLabelAfter == "N"

\* The addresses the monitor watches: t, nx and done.
TLabel  == IF "M" \in DOMAIN labels THEN "M" ELSE "T"
NxLabel == IF "M" \notin DOMAIN labels THEN "N"
           ELSE IF "MN" \in DOMAIN labels THEN "MN"
           ELSE IF "S" \in DOMAIN labels THEN "S" ELSE "H"
LoopWords == labels["DONE"] - labels["LOOP"]

Write ==
    /\ phase = "assemble"
    /\ Assembled(prog)
    /\ phase' = IF LoopWords <= CacheWords THEN "run" ELSE "rejected"
    /\ UNCHANGED <<case, mode, cd, prog, runVars, asmVars>>
-----------------------------------------------------------------------------
(* The run.                                                                 *)

Instructions(l) == IF l.op = "NOP" THEN l.n ELSE 1
IsNop(l)  == l.op = "NOP"

\* What the monitor makes of line l, fetched at address a with the given
\* misses, one for each subsegment.
Observe(l, a, misses) ==
    LET isT    == a = labels[TLabel]
        seen   == monitor.seen + (IF isT THEN 1 ELSE 0)
        armed  == seen = 2 \/ (mode = "int" /\ seen > 2)
        isNx   == armed /\ ~ monitor.gotNext /\ a = labels[NxLabel]
        during == monitor.seen >= 2 /\ ~ monitor.gotNext      \* before this fetch
        after  == seen >= 2 /\ ~ monitor.gotNext /\ ~ isNx     \* after it
        count(from, to) == Cardinality({i \in from .. to : misses[i]})
    IN  [seen    |-> seen,
         gotNext |-> monitor.gotNext \/ isNx,
         spanned |-> monitor.spanned + (IF after THEN Instructions(l) ELSE 0),
         misses  |-> monitor.misses + (IF during THEN count(1, 1) ELSE 0)
                                    + (IF after THEN count(2, Len(misses)) ELSE 0),
         before  |-> IF isT /\ seen = 2 THEN cpu.drained ELSE monitor.before,
         quiet   |-> IF (isNx \/ monitor.gotNext) /\ IsNop(l) /\ ~ monitor.broken
                     THEN monitor.quiet + l.n ELSE monitor.quiet,
         broken  |-> monitor.broken \/ (monitor.gotNext /\ ~ IsNop(l))]

\* Where control goes from line l at address a.
Loops(l)   == "E" \in l.lab
Taken(l)   == IF Loops(l) THEN cpu.a12 > 1 ELSE l.taken
Calls(l)   == l.op \in {"CALL", "CALLR", "CALLA", "TRAP"}
Returns(l) == l.op \in {"RETS", "RETI"}
Goto(l, a) ==
    CASE Returns(l) /\ cpu.stack # << >> -> Last(cpu.stack)
      [] l.to # "" /\ Taken(l) -> image[cpu.pc].to
      [] OTHER -> a + LineWords(l)
StackAfter(l, a) ==
    CASE Calls(l) -> Append(cpu.stack, a + LineWords(l))
      [] Returns(l) /\ cpu.stack # << >> -> Front(cpu.stack)
      [] OTHER -> cpu.stack

\* A run that jumps to itself at DONE before the monitor has its second fetch
\* stays there until the bench gives up.
Execute ==
    LET l == prog[cpu.pc]
        a == image[cpu.pc].addr
        f == IF cd THEN [cache |-> NoCache, misses |-> <<FALSE>>]
             ELSE FetchAll(cpu.cache, a, a + LineWords(l) - 1)
        next == {i \in DOMAIN image : image[i].addr = Goto(l, a)}
    IN
    /\ phase = "run"
    /\ monitor' = Observe(l, a, f.misses)
    /\ IF a = labels["DONE"] /\ (monitor.gotNext \/ mode # "int" \/ cpu.interrupted)
       THEN phase' = (IF monitor.gotNext THEN "done" ELSE "timeout") /\ UNCHANGED cpu
       ELSE /\ phase' = IF next = {} THEN "lost" ELSE "run"
            /\ cpu' = [cpu EXCEPT
                    !.pc = IF next = {} THEN @ ELSE CHOOSE i \in next : TRUE,
                    !.stack = StackAfter(l, a),
                    !.a12 = IF Loops(l) THEN @ - 1 ELSE @,
                    !.cache = IF l.op = "FLUSH" THEN NoCache ELSE f.cache,
                    !.drained = IF IsNop(l) THEN @ + l.n ELSE 0]
    /\ UNCHANGED <<case, mode, cd, prog, asmVars>>

\* The bench's interrupt, in the measured pass: between two instructions or
\* inside the transfer, which the handler's return then starts again.
TakeInterrupt ==
    /\ phase = "run" /\ mode = "int"
    /\ monitor.seen >= 2 /\ ~ cpu.interrupted
    /\ \E i \in {cpu.pc} \cup {j \in DOMAIN image : j + 1 = cpu.pc
                                    /\ image[j].addr = labels[TLabel]} :
        cpu' = [cpu EXCEPT !.stack = Append(@, image[i].addr), !.interrupted = TRUE,
                           !.pc = CHOOSE j \in DOMAIN image : image[j].addr = labels["IH"],
                           !.drained = 0]
    /\ UNCHANGED <<phase, case, mode, cd, prog, monitor, asmVars>>

Stopped == phase \in {"done", "timeout", "rejected", "lost"}

-----------------------------------------------------------------------------
(* What the bench promises of its numbers.                                  *)

\* In the assembled words every branch, call and loop goes to the line that
\* carries its label: pass 2 found the labels where pass 1 had put them, and no
\* displacement was cut short.
JumpsLand ==
    phase \in {"run", "done"} =>
        \A i \in DOMAIN prog :
            prog[i].to # "" => \E j \in DOMAIN prog :
                /\ prog[i].to \in prog[j].lab
                /\ image[i].to = image[j].addr

\* Between the two fetches the monitor watches lies the instruction the
\* figures are of, once, and nothing else: the taken path of a jump, the
\* callee of a call and the caller of a return included.  The writes of the
\* instruction before are over by then, and until the monitor's window for
\* hidden states closes only NOPs run: each takes a state, and none has a data
\* cycle.  And no run is lost: none is refused by an assertion of the script,
\* leaves the assembled lines or is reported as a TIMEOUT.
MeasuresTheCase ==
    /\ JumpsLand
    /\ phase \notin {"timeout", "rejected", "lost"}
    /\ phase = "done" /\ mode # "int" =>
        /\ monitor.seen = 2 /\ monitor.spanned = case.name
        /\ monitor.before >= HiddenWindow /\ monitor.quiet >= HiddenWindow

\* Where no note excuses a figure, the one for the cache off is the one for
\* the cache on, the hidden states and three states for every word of the
\* instruction (13.1): the two printed columns can be met by one machine.
TestWords(c) ==
    LET lines  == c.test \o c.sub
        marked == {i \in DOMAIN lines : "M" \in lines[i].lab}
    IN  LineWords(lines[CHOOSE i \in marked \cup {1} : marked = {} \/ i \in marked])
Visible(c) == IF c.hidden < 0 THEN 0 ELSE c.hidden
CacheOffRule ==
    phase = "figures" /\ case.note = "" /\ case.dis >= 0 /\ ~ case.flush =>
        case.dis = case.hit + Visible(case) + 3 * TestWords(case)

\* In the measured pass nothing is fetched from memory between the two
\* fetches, however the code lies in the four segments, except the one
\* subsegment of the cache-miss case, also where the video setup in front of
\* the loop moves its code to another word of the subsegment: the figures for
\* the cache on are measured with it, and what a miss costs is in those for
\* the cache off.
MeasuresCached ==
    /\ phase = "done" /\ mode # "int" =>
        monitor.misses = IF case.flush /\ ~ cd THEN 1 ELSE 0
    /\ CacheOffRule

\* A transfer's printed figure, as the script takes it from the tables, is
\* what the core's word engines spend on the job the setup asks for, unless a
\* note says otherwise; and a note is only given where they differ.
FiguresExplained ==
    phase = "figures" /\ IsTransfer(case) /\ EngineTimes(case.xfer) =>
        (case.note = "" <=> case.hit = EngineStates(case.xfer))
=============================================================================
