---------------------------- MODULE TimingCases -----------------------------
(***************************************************************************)
(* The instruction-timing cases of tools/accuracy/cases.py: what is        *)
(* measured, the figures printed in the guide for it (states with the      *)
(* instruction in the cache, states hidden behind the next instructions,   *)
(* states with the cache off; -1 where none is printed), the note that     *)
(* excuses the core from a figure, and the words of the code around it.    *)
(* Values in registers and memory are left out, their code is counted.     *)
(***************************************************************************)
EXTENDS Assembler, TransferTimes

\* The transfer a case asks the word engines for, where it does.
NoTransfer == Job("none", 0, 0, 0, 0, 0, FALSE)

\* A case: the lines under test, the words of its setup (pre: the part that
\* runs once, before the loop; io: I/O registers written in the loop), and
\* subroutine lines after the loop.
Case(name, test, hit, hidden, dis) ==
    [name |-> name, hit |-> hit, hidden |-> hidden, dis |-> dis, note |-> "",
     test |-> test, setup |-> 0, pre |-> 0, io |-> 0, flush |-> FALSE, sub |-> << >>,
     xfer |-> NoTransfer]
Plain(name, words, hit, hidden, dis) == Case(name, <<Code(words)>>, hit, hidden, dis)
With(c, setup)   == [c EXCEPT !.setup = setup]
Noted(c, note)   == [c EXCEPT !.note = note]

-----------------------------------------------------------------------------
(* move_cases: Tables 13-2 and 13-1, one case for each field alignment.     *)

ALIGNS == [A |-> <<16, 0>>, B |-> <<8, 0>>, C |-> <<32, 0>>, D |-> <<24, 8>>,
           E |-> <<24, 0>>, F |-> <<16, 8>>, G |-> <<32, 8>>]
Letters == DOMAIN ALIGNS

\* Rows of a table, in the order A to G.
Row(t) == [A |-> t[1], B |-> t[2], C |-> t[3], D |-> t[4], E |-> t[5], F |-> t[6], G |-> t[7]]

StoreForms ==      \* destination, CPU states, cache-off figures
    {<<"*R",    1, Row(<<5, 7, 7, 9, 9, 11, 13>>)>>,
     <<"*R+",   1, Row(<<5, 7, 7, 9, 9, 11, 13>>)>>,
     <<"-*R",   2, Row(<<6, 8, 8, 10, 10, 12, 14>>)>>,
     <<"*R(D)", 3, Row(<<9, 12, 12, 14, 14, 13, 18>>)>>,
     <<"@",     3, Row(<<13, 15, 15, 17, 17, 19, 21>>)>>}
StoreHidden == Row(<<1, 3, 3, 5, 5, 7, 9>>)

StoreCases ==
    {LET c == Plain(<<"MOVE R,", f[1], al>>, MoveWords("R", f[1]), f[2], StoreHidden[al], f[3][al])
     IN  With(IF f[1] = "*R(D)" /\ al = "A" THEN Noted(c, "store-off-a")
              ELSE IF f[1] = "*R(D)" /\ al = "F" THEN Noted(c, "store-off-f") ELSE c,
              1 + MoviL + (IF f[1] = "@" THEN 0 ELSE MoviL))
     : f \in StoreForms, al \in Letters}

LoadForms ==       \* source, hit and cache-off figures of A and B, C to F, G
    {<<"*R",    <<3, 6>>,  <<5, 8>>,  <<7, 10>>>>,
     <<"*R+",   <<3, 6>>,  <<5, 8>>,  <<7, 10>>>>,
     <<"-*R",   <<4, 7>>,  <<6, 9>>,  <<8, 11>>>>,
     <<"*R(D)", <<5, 11>>, <<7, 13>>, <<9, 15>>>>,
     <<"@",     <<5, 14>>, <<7, 16>>, <<9, 18>>>>}
Column(f, al) == IF al \in {"A", "B"} THEN f[2] ELSE IF al = "G" THEN f[4] ELSE f[3]

LoadCases ==
    {With(Plain(<<"MOVE", f[1], ",R", al>>, MoveWords(f[1], "R"),
                Column(f, al)[1], 0, Column(f, al)[2]),
          1 + (IF f[1] = "@" THEN 0 ELSE MoviL))
     : f \in LoadForms, al \in Letters}

-----------------------------------------------------------------------------
(* m2m_cases: Table 13-4.  An index is a pair of alignments: source and     *)
(* destination, field size, offsets of source and destination.              *)

M2M_IDX == << <<"AA", 16, 0, 0>>, <<"BB", 8, 0, 0>>, <<"AF", 16, 0, 8>>, <<"FA", 16, 8, 0>>,
              <<"FB", 8, 12, 0>>, <<"CC", 32, 0, 0>>, <<"DD", 24, 8, 8>>, <<"FF", 16, 8, 8>>,
              <<"CG", 32, 0, 8>>, <<"GC", 32, 8, 0>>, <<"GD", 24, 12, 8>>, <<"GF", 20, 14, 4>>,
              <<"GG", 32, 8, 8>> >>

T134Hidden == <<1, 3, 7, 1, 3, 3, 5, 7, 9, 3, 5, 7, 9>>
T134Hit    == <<3, 3, 3, 5, 5, 5, 5, 5, 5, 7, 7, 5, 9>>      \* of *Rs,*Rd
\* Form, states its hit figures are above *Rs,*Rd's, states its hidden figures
\* are below, cache-off figures.
T134 ==
    {<<"*R", "*R", 0, 0, <<7, 9, 13, 9, 11, 11, 13, 15, 17, 13, 15, 17, 21>>>>,
     <<"*R+", "*R+", 1, 1, <<7, 9, 13, 9, 11, 11, 13, 15, 17, 13, 15, 17, 21>>>>,
     <<"-*R", "-*R", 1, 0, <<8, 10, 14, 10, 12, 12, 14, 15, 18, 14, 16, 18, 22>>>>,
     <<"*R(D)", "*R+", 2, 0, <<12, 14, 18, 14, 16, 13, 15, 16, 19, 18, 20, 22, 26>>>>,
     <<"*R(D)", "*R(D)", 2, 0, <<15, 17, 21, 17, 19, 16, 18, 19, 22, 21, 23, 25, 29>>>>,
     <<"@", "*R+", 2, 0, <<15, 17, 21, 17, 19, 16, 18, 19, 22, 21, 23, 25, 29>>>>,
     <<"@", "@", 4, 0, <<23, 25, 29, 25, 27, 24, 26, 27, 30, 29, 31, 33, 37>>>>}

M2mNote(s, d, idx) ==
    IF idx = 12 THEN "m2m-col12"
    ELSE IF s \in {"*R(D)", "@"} /\ idx \in 6 .. 9 THEN "m2m-ext-off"
    ELSE IF s = "-*R" /\ idx = 8 THEN "m2m-predec-8" ELSE ""

M2mCases ==
    {With(Noted(Plain(<<"MOVE", f[1], f[2], idx>>, MoveWords(f[1], f[2]),
                      T134Hit[idx] + f[3], T134Hidden[idx] - f[4], f[5][idx]),
                M2mNote(f[1], f[2], idx)),
          1 + 2 * MoviL)
     : f \in T134, idx \in 1 .. 13}

\* Bytes: form, index, hit, hidden, cache off.
MOVB_T134 ==
    {<<"*R", 2, 3, 3, 7>>, <<"*R", 3, 3, 7, 13>>, <<"*R", 5, 5, 3, 11>>, <<"*R", 8, 5, 7, 15>>,
     <<"*R(D)", 2, 5, 3, 7>>, <<"*R(D)", 3, 5, 7, 21>>, <<"*R(D)", 5, 6, 3, 13>>,
     <<"*R(D)", 8, 7, 7, 19>>,
     <<"@", 2, 7, 3, 7>>, <<"@", 3, 7, 7, 29>>, <<"@", 5, 6, 3, 12>>, <<"@", 8, 9, 7, 27>>}

MovbMemoryCases ==
    {With(Noted(Plain(<<"MOVB", t[1], t[1], t[2]>>, MoveWords(t[1], t[1]), t[3], t[4], t[5]),
                IF t[2] = 2 \/ (t[2] \in {5, 8} /\ t[1] # "*R") THEN "movb-m2m" ELSE ""),
          1 + 2 * MoviL)
     : t \in MOVB_T134}

\* MOVB between a register and memory, the byte in one word (B) or across two
\* (F): operands, alignment, hit, hidden, cache off, note, setup.
MovbForms ==
    {<<"*R", "R", "B", 3, 0, 6, "", MoviL>>,     <<"*R", "R", "F", 5, 0, 8, "", MoviL>>,
     <<"*R(D)", "R", "B", 5, 0, 11, "", MoviL>>, <<"*R(D)", "R", "F", 7, 0, 13, "", MoviL>>,
     <<"@", "R", "B", 5, 0, 14, "", 0>>,         <<"@", "R", "F", 7, 0, 16, "", 0>>,
     <<"R", "*R", "B", 1, 3, 7, "", MoviL + MoviW>>,
     <<"R", "*R", "F", 1, 7, 11, "", MoviL + MoviW>>,
     <<"R", "*R(D)", "B", 3, 3, 7, "movb-store-ext", MoviL + MoviW>>,
     <<"R", "*R(D)", "F", 3, 7, 13, "movb-store-ext", MoviL + MoviW>>,
     <<"R", "@", "B", 1, 3, 7, "movb-store-ext movb-abs-b", MoviW>>,
     <<"R", "@", "F", 3, 7, 13, "movb-store-ext", MoviW>>}
MovbCases ==
    {With(Noted(Plain(<<"MOVB", f[1], f[2], f[3]>>, MoveWords(f[1], f[2]), f[4], f[5], f[6]), f[7]),
          f[8]) : f \in MovbForms}

\* Table 13-1, note 1: sign extension adds a state to a load.
SignExtendCases ==
    {LET hit == IF al \in {"A", "B"} THEN 3 ELSE 5
     IN  With(Plain(<<"MOVE *R,R sign-extend", al>>, 1, hit + 1, 0, hit + 4), 1 + MoviL)
     : al \in {"A", "B", "E", "F"}}

-----------------------------------------------------------------------------
(* general_cases, extra_cases, review_cases: Section 12.                    *)

OneState ==
    {"ABS", "ADD", "ADDC", "ADDK", "ADDXY", "AND", "ANDN", "BTST K", "CLR", "CLRC", "CMP", "CMPXY",
     "CPW", "DEC", "EXGF", "GETPC", "GETST", "INC", "LMO", "MOVE", "MOVK", "MOVX", "MOVY", "NEG",
     "NEGB", "NOP", "NOT", "OR", "XOR", "RL K", "RL", "SETC", "SETF", "SLL K", "SLL", "SRA K",
     "SRA", "SRL K", "SRL", "SUB", "SUBB", "SUBK", "SUBXY", "ZEXT"}

\* Name, words, hit, cache off, setup.
Straight ==
    {<<"SETF 16,0,1", 1, 2, 5, 0>>, <<"BTST A1,A0", 1, 2, 5, 6>>, <<"CVXYL", 1, 3, 6, 6>>,
     <<"SEXT", 1, 3, 6, 6>>, <<"SLA K", 1, 3, 6, 6>>, <<"SLA", 1, 3, 6, 6>>, <<"DINT", 1, 3, 6, 0>>,
     <<"EINT", 1, 3, 6, 0>>, <<"PUTST", 1, 3, 6, 1>>, <<"REV", 1, 1, 4, 0>>,
     <<"MOVI IW", MoviW, 2, 8, 0>>, <<"ADDI IW", MoviW, 2, 8, 0>>, <<"CMPI IW", MoviW, 2, 8, 0>>,
     <<"SUBI IW", MoviW, 2, 8, 0>>, <<"MOVI IL", MoviL, 3, 12, 0>>, <<"ADDI IL", MoviL, 3, 12, 0>>,
     <<"ANDI IL", MoviL, 3, 12, 0>>, <<"CMPI IL", MoviL, 3, 12, 0>>, <<"ORI IL", MoviL, 3, 12, 0>>,
     <<"SUBI IL", MoviL, 3, 12, 0>>, <<"XORI IL", MoviL, 3, 12, 0>>,
     <<"MPYS FS1=32", 1, 21, 24, 6>>, <<"MPYS FS1=16", 1, 13, 16, 7>>, <<"MPYS FS1=8", 1, 9, 12, 7>>,
     <<"MPYU FS1=32", 1, 21, 24, 6>>, <<"MPYU FS1=32 neg", 1, 22, 25, 6>>,
     <<"MPYU FS1=16 neg", 1, 14, 17, 7>>, <<"EMU", 1, 8, 11, 0>>,
     <<"DIVS even", 1, 40, 43, 6>>, <<"DIVS odd", 1, 39, 42, 4>>, <<"DIVU even", 1, 37, 40, 6>>,
     <<"DIVU odd", 1, 37, 40, 4>>, <<"MODS", 1, 40, 43, 4>>, <<"MODU", 1, 35, 38, 4>>,
     <<"DIVS 80000000", 1, 41, 44, 7>>, <<"DIVS overflow", 1, 7, 10, 6>>,
     <<"DIVU overflow", 1, 5, 8, 6>>, <<"MODS 80000000", 1, 41, 44, 5>>,
     <<"MODS Rs=0", 1, 3, 6, 4>>, <<"MODU Rs=0", 1, 3, 6, 4>>,
     <<"MOVE @CONTROL,R", MoveWords("@", "R"), 5, 14, 0>>}

StraightCases ==
    {With(Plain(<<n>>, 1, 1, 0, 4), 2 * MoviL) : n \in OneState}
    \cup {With(Plain(<<f[1]>>, f[2], f[3], 0, f[4]), f[5]) : f \in Straight}
    \cup {[Plain(<<"MOVE @PSIZE,R">>, MoveWords("@", "R"), 5, 0, 14) EXCEPT !.io = 1]}

\* Name, jump, its label, taken, hit, cache off, note, setup.
Jumps ==
    {<<"JUMP", "JUMP", "N", TRUE, 2, 5, "", MoviL>>,
     <<"EXGPC", "JUMP", "N", TRUE, 2, 5, "", MoviL>>,
     <<"JRUC short taken", "JR", "N", TRUE, 2, 5, "", 0>>,
     <<"JREQ short not taken", "JR", "E", FALSE, 1, 4, "", 2>>,
     <<"JRV short not taken", "JR", "E", FALSE, 1, 4, "", 6>>,
     <<"JRUC long taken", "JRL", "N", TRUE, 3, 6, "jump-ext-off", 0>>,
     <<"JREQ long not taken", "JRL", "E", FALSE, 4, 7, "jump-ext-off", 2>>,
     <<"JAUC taken", "JA", "N", TRUE, 3, 6, "jump-ext-off", 0>>,
     <<"JAEQ not taken", "JA", "E", FALSE, 4, 7, "jump-ext-off", 2>>,
     <<"DSJS taken", "DSJS", "N", TRUE, 2, 5, "", 1>>,
     <<"DSJS not taken", "DSJS", "N", FALSE, 3, 6, "", 1>>,
     <<"DSJ taken", "DSJ", "N", TRUE, 3, 9, "", 1>>,
     <<"DSJ not taken", "DSJ", "N", FALSE, 2, 8, "", 1>>,
     <<"DSJEQ Z=1 taken", "DSJ", "N", TRUE, 3, 9, "", 2>>,
     <<"DSJEQ Z=1 not taken", "DSJ", "N", FALSE, 2, 8, "", 2>>,
     <<"DSJEQ Z=0 skip", "DSJ", "N", FALSE, 2, 8, "", 3>>,
     <<"DSJNE Z=0 taken", "DSJ", "N", TRUE, 3, 9, "", 3>>,
     <<"DSJNE Z=1 skip", "DSJ", "N", FALSE, 2, 8, "", 2>>}

\* A NOP to jump over follows a jump that is taken.
JumpTest(f) == IF f[4] /\ f[2] # "JUMP" THEN <<Jump(f[2], f[3]), Code(1)>>
               ELSE IF f[4] THEN <<Jump(f[2], f[3])>> ELSE <<Untaken(f[2], f[3])>>
JumpCases == {With(Noted(Case(<<f[1]>>, JumpTest(f), f[5], 0, f[6]), f[7]), f[8]) : f \in Jumps}

\* Subroutines: calls measure up to S, returns from M to MN.
Sub(lab, ret) == <<Lab(lab, Nops(1)), Nops(11), ret>>
Return(op)    == Jump(op, "")
CallCase(name, op, setup, hit, hidden, dis) ==
    [Case(name, <<Lab("M", Jump(op, "S"))>>, hit, hidden, dis)
        EXCEPT !.setup = setup, !.sub = Sub("S", Return("RETS"))]
ReturnCase(name, hit) ==
    [Case(name, <<Jump("CALLR", "S"), Lab("MN", Nops(1))>>, hit, 0, hit + 3)
        EXCEPT !.sub = Sub("S", Lab("M", Return("RETS")))]

\* Two instructions of n words each that undo one another; the one under M is
\* measured, NOPs keep the other one's hidden writes apart.
Undone(name, n, nops, hit, hidden, dis) ==
    Case(name, <<Lab("M", Code(n)), Lab("MN", Nops(1)), Nops(nops), Code(n)>>, hit, hidden, dis)
Undoing(name, n, nops, hit, hidden, dis) ==
    Case(name, <<Code(n), Nops(nops), Lab("M", Code(n)), Lab("MN", Nops(1))>>, hit, hidden, dis)

StackCases ==
    {CallCase(<<"CALL", "aligned">>, "CALL", MoviL, 3, 3, 9),
     CallCase(<<"CALLR", "aligned">>, "CALLR", 0, 3, 2, 11),
     CallCase(<<"CALLA", "aligned">>, "CALLA", 0, 4, 2, 15),
     CallCase(<<"CALL", "nonaligned">>, "CALL", MoviL, 3, 9, 15),
     CallCase(<<"CALLR", "nonaligned">>, "CALLR", 0, 3, 8, 17),
     CallCase(<<"CALLA", "nonaligned">>, "CALLA", 0, 4, 8, 21),
     ReturnCase(<<"RETS", "aligned">>, 7), ReturnCase(<<"RETS", "nonaligned">>, 9),
     Undone(<<"PUSHST", "aligned">>, 1, 12, 2, 3, 8), Undone(<<"PUSHST", "nonaligned">>, 1, 12, 2, 8, 13),
     Undoing(<<"POPST", "aligned">>, 1, 12, 8, 0, 11),
     Undoing(<<"POPST", "nonaligned">>, 1, 12, 10, 0, 13)}
    \cup UNION {{Undone(<<"MMTM", n, "aligned">>, 2, 16, 2 + 4 * n, 2, 8 + 4 * n + 2),
                 Noted(Undoing(<<"MMFM", n, "aligned">>, 2, 16, 3 + 4 * n, 2, 11 + 4 * n),
                       "mmfm-hidden"),
                 Noted(Undone(<<"MMTM", n, "nonaligned">>, 2, 16, 2 + 10 * n, 8, 10 * (n + 1)),
                       "mmtm-nonaligned"),
                 Noted(Undoing(<<"MMFM", n, "nonaligned">>, 2, 16, 3 + 6 * n, 4, 13 + 6 * n),
                       "mmfm-hidden")} : n \in {1, 4}}

\* trap_cases: the setup writes the vector.
TrapSetup == 1 + MoviL + MoveWords("R", "@") + 1
TrapCases ==
    UNION {{[Case(<<"TRAP", t[1]>>, <<Lab("M", Jump("TRAP", "H")), Code(1)>>, t[2], 0, t[2] + 3)
                EXCEPT !.setup = TrapSetup, !.sub = Sub("H", Return("RETI"))],
            [Case(<<"RETI", t[1]>>, <<Jump("TRAP", "H"), Lab("MN", Nops(1))>>, t[3], 0, t[3] + 3)
                EXCEPT !.setup = TrapSetup, !.sub = Sub("H", Lab("M", Return("RETI")))]}
           : t \in {<<"aligned", 16, 11>>, <<"nonaligned", 30, 15>>}}

\* Figure 5-9: five instructions measured together.
Figure59 ==
    [Case(<<"Figure 5-9 loop">>, <<Code(1), Code(1), Code(1), Code(1), Jump("DSJS", "N")>>, 12, -1, -1)
        EXCEPT !.io = 1, !.setup = 3 * MoviL + 1, !.note = "fig-5-9"]
=============================================================================
