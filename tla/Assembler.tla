----------------------------- MODULE Assembler ------------------------------
(***************************************************************************)
(* The two-pass assembler of tools/accuracy/cases.py.                      *)
(*                                                                         *)
(* A program is a sequence of lines.  What matters of a line is how many   *)
(* words it takes, where control goes from it and which label it carries;  *)
(* opcodes and operands are left out.  Straight-line code between labels   *)
(* is one line: CODE, or NOP for the drain instructions the bench relies   *)
(* on.  Addresses are counted in words (the source counts bits).           *)
(*                                                                         *)
(* Assembling one line is one step, so that what pass 1 recorded and what  *)
(* pass 2 records can be compared.                                         *)
(***************************************************************************)
EXTENDS Integers, Sequences

CodeBase == 65536          \* CODE_BASE, 16#100000# bits

\* A line that carries no label, and is not jumped from.
Line(op, n)       == [lab |-> {}, op |-> op, n |-> n, to |-> "", taken |-> TRUE]
Code(n)           == Line("CODE", n)
Nops(n)           == Line("NOP", n)
Jump(op, to)      == [Line(op, 0) EXCEPT !.to = to]
Untaken(op, to)   == [Jump(op, to) EXCEPT !.taken = FALSE]
Lab(lab, l)       == [l EXCEPT !.lab = @ \cup {lab}]

\* Words of MOVI and its like: a 16-bit or a 32-bit immediate.
ShortImm          == -32768 .. 32767
MoviWords(v)      == IF v \in ShortImm THEN 2 ELSE 3
MoviW             == 2
MoviL             == 3     \* written with ", L", or a value or label beyond 16 bits

\* Words of a MOVE or MOVB: the opcode, a word for each displacement, two for
\* each absolute address.
Extension == [k \in {"R", "*R", "*R+", "-*R"} |-> 0]
MoveWords(s, d) ==
    LET ext(k) == IF k = "@" THEN 2 ELSE IF k = "*R(D)" THEN 1 ELSE Extension[k]
    IN  1 + ext(s) + ext(d)

\* Words of any line.
LineWords(l) ==
    CASE l.op \in {"CODE", "NOP", "FLUSH"} -> l.n
      [] l.op \in {"JR", "DSJS", "CALL", "JUMP", "TRAP", "RETS", "RETI"} -> 1
      [] l.op \in {"JRL", "DSJ", "CALLR"} -> 2
      [] l.op \in {"JA", "CALLA"} -> 3

\* Low bits of x, read back as a signed displacement.
Signed(x, bits) == LET m == x % 2^bits IN IF m >= 2^(bits - 1) THEN m - 2^bits ELSE m

\* The address the processor finds in the assembled words, where the source
\* asked for the address to.
Displacement(l, here, to) == to - (here + LineWords(l))
Target(l, here, to) ==
    LET disp == Displacement(l, here, to) IN
    CASE l.op = "JR" -> here + 1 + Signed(disp, 8)
      [] l.op = "DSJS" -> here + 1 + (IF disp < 0 THEN -1 ELSE 1)
                              * ((IF disp < 0 THEN -disp ELSE disp) % 32)
      [] l.op \in {"JRL", "DSJ", "CALLR"} -> here + 2 + Signed(disp, 16)
      [] OTHER -> to

\* The assembler's own assertions on a jump, in pass 2.
InRange(l, here, to) ==
    LET disp == Displacement(l, here, to) IN
    CASE l.op = "DSJS" -> disp \in -31 .. 31
      [] l.op = "JR"   -> disp \in -127 .. 127 \ {0}
      [] OTHER         -> TRUE

-----------------------------------------------------------------------------
VARIABLES
    pass,       \* pass_no
    line,       \* the line to assemble next
    here,       \* its address
    labels,     \* address of each label recorded so far
    image       \* pass 2: [addr, to] of each line assembled

asmVars == <<pass, line, here, labels, image>>

NoLabels == [l \in {} |-> 0]

AsmInit ==
    /\ pass = 1
    /\ line = 1
    /\ here = CodeBase
    /\ labels = NoLabels
    /\ image = << >>

\* labels.get(name, here), with the empty dictionary in pass 1.
Lookup(known, to) == IF pass = 2 /\ to \in DOMAIN known THEN known[to] ELSE here

Record(l) == [x \in DOMAIN labels \cup l.lab |-> IF x \in l.lab THEN here ELSE labels[x]]

\* One line: its label, then its words.
AsmLine(prog) ==
    LET l == prog[line] IN
    /\ line <= Len(prog)
    /\ labels' = Record(l)
    /\ image' = IF pass = 1 THEN image
                ELSE Append(image, [addr |-> here,
                                    to |-> Target(l, here, Lookup(labels', l.to))])
    /\ here' = here + LineWords(l)
    /\ line' = line + 1
    /\ UNCHANGED pass

\* The second pass starts over with the labels of the first.
NextPass(prog) ==
    /\ line > Len(prog) /\ pass = 1
    /\ pass' = 2
    /\ line' = 1
    /\ here' = CodeBase
    /\ UNCHANGED <<labels, image>>

Assembled(prog) == pass = 2 /\ line > Len(prog)

\* An assertion of asm fails.
AsmFails(prog) ==
    /\ line <= Len(prog) /\ pass = 2
    /\ ~ InRange(prog[line], here, Lookup(Record(prog[line]), prog[line].to))
=============================================================================
