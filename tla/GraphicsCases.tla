---------------------------- MODULE GraphicsCases ----------------------------
(***************************************************************************)
(* The graphics cases of tools/accuracy/cases.py: pixels, lines, fills and *)
(* pixel block transfers.  Each transfer also carries the job its setup    *)
(* loads into the registers, which the core's word engines are asked about *)
(* (TransferTimes); the script's own figure never looks at it.             *)
(***************************************************************************)
EXTENDS TimingCases

Ops7 == {"Replace", "AND", "ADD", "ADDS", "SUB", "SUBS", "MAX"}
Row7(t) == [Replace |-> t[1], AND |-> t[2], ADD |-> t[3], ADDS |-> t[4], SUB |-> t[5],
            SUBS |-> t[6], MAX |-> t[7]]

InLoop(c, setup, io) == [c EXCEPT !.setup = setup, !.io = io]

\* A row of PIXT_STATES made by _row: cache off is hit + hidden + 3.
Drawn(name, op, psize, hit, hidden, note) ==
    InLoop(Noted(Plain(<<name, op, psize>>, 1, hit, hidden, hit + hidden + 3), note), 10 * MoviL, 3)

\* Form, pixel size, hit figures, hidden.
PIXT_STATES ==
    {<<"PIXT Rs,*Rd", 16, Row7(<<2, 4, 4, 5, 5, 6, 5>>), 1>>,
     <<"PIXT Rs,*Rd.XY", 8, Row7(<<4, 6, 6, 7, 7, 8, 7>>), 3>>,
     <<"PIXT Rs,*Rd.XY", 16, Row7(<<4, 6, 6, 7, 7, 8, 7>>), 1>>,
     <<"PIXT *Rs,*Rd", 8, Row7(<<4, 6, 6, 7, 7, 8, 7>>), 3>>,
     <<"PIXT *Rs,*Rd", 16, Row7(<<4, 6, 6, 7, 7, 8, 7>>), 1>>,
     <<"PIXT *Rs.XY,*Rd.XY", 8, Row7(<<7, 9, 9, 10, 10, 11, 10>>), 3>>,
     <<"PIXT *Rs.XY,*Rd.XY", 16, Row7(<<7, 9, 9, 10, 10, 11, 10>>), 1>>,
     <<"DRAV", 8, Row7(<<4, 6, 7, 7, 7, 8, 7>>), 3>>,
     <<"DRAV", 16, Row7(<<4, 6, 6, 7, 7, 8, 7>>), 1>>}
\* The one row printed with cache-off figures of its own.
PixtHit == Row7(<<2, 4, 4, 5, 5, 6, 5>>)
PixtDis == Row7(<<8, 10, 11, 11, 12, 11, 10>>)
PixtNote(op) == IF op \in {"ADD", "SUB", "SUBS", "MAX"} THEN "pixt-off-row" ELSE ""

PixelCases ==
    {Drawn(f[1], op, f[2], f[3][op], f[4], IF f[1] = "DRAV" /\ f[2] = 8 /\ op = "ADD"
                                           THEN "drav-add" ELSE "")
        : f \in PIXT_STATES, op \in Ops7}
    \cup {[Drawn("PIXT Rs,*Rd", op, 8, PixtHit[op], 3, PixtNote(op)) EXCEPT !.dis = PixtDis[op]]
        : op \in Ops7}
    \cup {Drawn(f[1], "Replace", psize, f[2], 0, "")
        : f \in {<<"PIXT *Rs,Rd", 4>>, <<"PIXT *Rs.XY,Rd", 6>>}, psize \in {8, 16}}

\* srt_cases, window_cases, graphics_op_cases.
SrtCases ==
    {InLoop(Plain(<<"PIXT *Rs,Rd SRT">>, 1, 4, 0, 7), 2 * MoviL, 2),
     InLoop(Plain(<<"PIXT Rs,*Rd SRT">>, 1, 2, 1, 6), 2 * MoviL, 2)}

\* Form, figures of a pixel drawn, of one not drawn by each window mode.
WindowForms ==
    {<<"PIXT Rs,*Rd.XY", 4, 8, [w \in 1 .. 3 |-> <<<<6, 9>>, <<6, 9>>, <<4, 7>>>>[w]]>>,
     <<"PIXT *Rs.XY,*Rd.XY", 7, 11, [w \in 2 .. 3 |-> <<<<8, 11>>, <<6, 9>>>>[w - 1]]>>,
     <<"DRAV", 4, 8, [w \in 1 .. 3 |-> <<<<5, 8>>, <<3, 6>>, <<5, 8>>>>[w]]>>}
WindowCases ==
    {InLoop(Plain(<<f[1], "W", w, "in">>, 1, f[2], 1, f[3]), 10 * MoviL, 3)
        : f \in WindowForms, w \in 2 .. 3}
    \cup UNION {{InLoop(Plain(<<f[1], "W", m[1], m[2]>>, 1, f[4][m[1]][1], 0, f[4][m[1]][2]),
                        10 * MoviL, 3)
                    : m \in {x \in (DOMAIN f[4]) \X {"in", "out"} : x[1] = 1 \/ x[2] = "out"}}
                : f \in WindowForms}

GraphicsOpCases ==
    UNION {{InLoop(Plain(<<f[1], opt, psize>>, 1, f[2], 3, f[2] + 6), f[3] * MoviL,
                   IF opt = "T" THEN 2 ELSE 3)
            : f \in {<<"PIXT Rs,*Rd Replace", 2, 3>>, <<"PIXT *Rs,*Rd Replace", 4, 3>>,
                     <<"PIXT *Rs,*Rd AND", 6, 3>>, <<"DRAV Replace", 4, 5>>}}
           : opt \in {"T", "PMASK"}, psize \in {8, 16}}

-----------------------------------------------------------------------------
(* line_cases, line_window_cases: 4 + (3 + P) per pixel, 5 for one that is  *)
(* calculated and not drawn.                                                *)

LineStates(p, drawn, skipped) == 4 + (3 + p) * drawn + 5 * skipped
LineP == [Replace |-> 2, AND |-> 4, ADDS |-> 5, MAX |-> 5, SUBS |-> 6]
LineCases ==
    {InLoop(Plain(<<"LINE 0", op, psize>>, 1, LineStates(LineP[op], 23, 0), -1, -1), 10 * MoviL, 2)
        : op \in DOMAIN LineP, psize \in {8, 16}}

\* Window mode and what of the line is inside; pixels drawn and not.
LineWindows == {<<3, "first 10", 10, 13>>, <<2, "first 10", 10, 1>>, <<1, "from 11", 0, 11>>,
                <<1, "none", 0, 24>>}
LineWindowCases ==
    {LET hit == LineStates(LineP[op], w[3], w[4])
     IN  InLoop(Plain(<<"LINE 0", op, "W", w[1], w[2]>>, 1, hit, -1, hit + 3), 12 * MoviL, 2)
        : w \in LineWindows, op \in {"Replace", "AND"}}

-----------------------------------------------------------------------------
(* fill_cases: Tables 13-5 to 13-7.                                         *)

\* dest_pattern: longs double words stored in each of the rows, before the
\* loop.
DestPattern(rows, longs) == 1 + MoviL + (MoviL + 1) * rows * longs + 1

\* Operation, states per word, read-modify-write of every word, I/O registers.
TransferOps == {<<"Replace", 2, FALSE, 1>>, <<"AND", 4, FALSE, 1>>, <<"ADDS", 5, FALSE, 1>>,
                <<"SUBS", 6, FALSE, 1>>, <<"Replace T", 4, TRUE, 1>>, <<"AND PMASK", 6, TRUE, 2>>}
Slow == {o \in TransferOps : o[2] > 4 \/ o[3]}         \* ops[2:]

\* Rows of n words, alignment: first pixel and pixels, four bits each.
Shapes == {<<1, "A", 0, 4>>, <<1, "B", 0, 2>>, <<1, "C", 2, 2>>, <<1, "D", 1, 2>>,
           <<2, "A", 0, 8>>, <<2, "B", 0, 6>>, <<2, "C", 2, 6>>, <<2, "D", 1, 6>>,
           <<4, "A", 0, 16>>, <<4, "B", 0, 14>>, <<4, "C", 2, 14>>, <<4, "D", 1, 14>>}
Rows3 == 3

Transfer(name, hit, note, setup, pre, io, job) ==
    [InLoop(Noted(Plain(name, 1, hit, -1, hit + 3), note), setup, io)
        EXCEPT !.pre = pre, !.xfer = job]

FillLCases ==
    {LET n == s[1]  al == s[2]  g == o[2]  rmw == o[3]
     IN  Transfer(<<"FILL L", al, n, o[1]>>, 4 + FillTransfer(n, Rows3, al, g, rmw),
                  IF n = 1 /\ al = "D" /\ rmw THEN "short-d-adjust" ELSE "",
                  4 * MoviL, DestPattern(Rows3, 2), o[4], Job("fill", s[3], s[4], Rows3, 4, g, rmw))
        : s \in Shapes, o \in TransferOps}
    \cup
    {Transfer(<<"FILL L", p[4], 4, o[1], p[1]>>, 4 + FillTransfer(4, Rows3, p[4], o[2], o[3]), "",
              4 * MoviL, DestPattern(Rows3, 3), o[4],
              Job("fill", p[2], p[3], Rows3, p[1], o[2], o[3]))
        : p \in {<<1, 3, 58, "D">>, <<2, 1, 28, "D">>, <<8, 1, 6, "D">>, <<16, 0, 4, "A">>},
          o \in Slow}

\* FILL XY through a window: setup states, words and rows left, the window.
FillWindows == {<<"W=0", 6, 4, 3, NoWindow>>, <<"W=3 fits", 9, 4, 3, <<0, 0, 255, 255>>>>,
                <<"W=3 start", 16, 3, 2, <<12, 5, 255, 255>>>>,
                <<"W=3 dimension", 12, 3, 2, <<0, 0, 19, 5>>>>,
                <<"W=3 both", 20, 2, 1, <<12, 5, 19, 5>>>>}
FillXYCases ==
    {Transfer(<<"FILL XY", w[1]>>, w[2] + FillTransfer(w[3], w[4], "A", 2, FALSE), "", 7 * MoviL, 0, 2,
              [Job("fill", 8, 16, 3, 4, 2, FALSE) EXCEPT !.dstXY = TRUE, !.y = 4, !.window = w[5]])
        : w \in FillWindows}

-----------------------------------------------------------------------------
(* pblt_cases: Tables 13-8 to 13-10.                                        *)

\* The first source offset of 0, 4, 8 and 12 that gives each relation.
FirstSource(pbh, d, bits) ==
    LET gives(s)   == Relation(pbh, d, bits, s)
        earlier(s) == {q \in {0, 4, 8, 12} : q < s}
    IN  {s \in {0, 4, 8, 12} : \A q \in earlier(s) : gives(q) # gives(s)}

PbltLCases ==
    UNION {{LET n == s[1]  al == s[2]  g == o[2]  rmw == o[3]
                rel == Relation(pbh, 4 * s[3], 4 * s[4], src)
            IN  Transfer(<<"PIXBLT L,L", pbh, rel, al, n, o[1]>>,
                         7 + PbltTransfer(pbh, n, Rows3, rel, al, g, rmw),
                         PbltNote(pbh, n, rel, al, g, rmw), 5 * MoviL,
                         DestPattern(Rows3, 2) + DestPattern(Rows3, 2), o[4],
                         [Job("pblt", s[3], s[4], Rows3, 4, g, rmw)
                            EXCEPT !.pbh = pbh, !.sx = src \div 4])
              : src \in FirstSource(pbh, 4 * s[3], 4 * s[4]), o \in TransferOps}
           : pbh \in 0 .. 1, s \in Shapes}

\* pblt_xy_cases: source pixel 3, destination pixel 2, 14 pixels a row.
XYForms   == {<<"XY", "L">>, <<"L", "XY">>, <<"XY", "XY">>}
XYSetup(f) == IF f = <<"XY", "XY">> THEN 12 ELSE 9
Corner(pbh, pbv) == IF pbh = 0 THEN 2 * pbv ELSE IF pbv = 0 THEN 1 ELSE 4
XYJob(f, x, y, dx, dy, sx) ==
    [Job("pblt", x, dx, dy, 4, 2, FALSE)
        EXCEPT !.srcXY = f[1] = "XY", !.dstXY = f[2] = "XY", !.y = y, !.sx = sx]

XYTransfer(pbh, rows, d, bits, s, g) ==
    PbltTransfer(pbh, WordsOf(d, bits), rows, Relation(pbh, d, bits, s), AlignOf(d, bits), g, FALSE)
XYNote(pbh, d, bits, s, g) ==
    PbltNote(pbh, WordsOf(d, bits), Relation(pbh, d, bits, s), AlignOf(d, bits), g, FALSE)

PbltCornerCases ==
    {Transfer(<<"PIXBLT", f, pbh, pbv, g>>,
              XYSetup(f) + Corner(pbh, pbv) + XYTransfer(pbh, Rows3, 8, 56, 12, g),
              XYNote(pbh, 8, 56, 12, g), 6 * MoviL, 3 * DestPattern(Rows3, 2), 3,
              [XYJob(f, 2, 0, 14, Rows3, 3) EXCEPT !.pbh = pbh, !.pbv = pbv, !.g = g])
        : f \in XYForms, pbh \in 0 .. 1, pbv \in 0 .. 1, g \in {2, 5}}

\* Window: states added, pixels, rows and first pixel left.
PbltWindows == {<<"fits", 3, 14, 3, 2, <<0, 0, 255, 255>>>>, <<"start", 10, 10, 2, 6, <<6, 5, 255, 255>>>>,
                <<"dimension", 6, 10, 2, 2, <<0, 0, 11, 5>>>>, <<"both", 14, 6, 1, 6, <<6, 5, 11, 5>>>>}
PbltWindowCases ==
    {Transfer(<<"PIXBLT", f, "W=3", w[1]>>,
              XYSetup(f) + w[2] + XYTransfer(0, w[4], 4 * w[5], 4 * w[3], 4 * (1 + w[5]), 2),
              "", 8 * MoviL, 3 * DestPattern(Rows3, 2), 3,
              [XYJob(f, 2, 4, 14, Rows3, 3) EXCEPT !.window = w[6]])
        : f \in {x \in XYForms : x[2] = "XY"}, w \in PbltWindows}

\* pblt_more_cases: the other pixel sizes, and expansion through a window.
PbltSizeCases ==
    {LET d == p[1] * p[2]  bits == p[1] * p[4]  s == p[1] * p[3]
     IN  Transfer(<<"PIXBLT L,L", pbh, p[1], g>>, 7 + XYTransfer(pbh, Rows3, d, bits, s, g),
                  XYNote(pbh, d, bits, s, g), 5 * MoviL, 2 * DestPattern(Rows3, 3), 1,
                  [Job("pblt", p[2], p[4], Rows3, p[1], g, FALSE) EXCEPT !.pbh = pbh, !.sx = p[3]])
        : p \in {<<1, 3, 9, 58>>, <<2, 1, 5, 29>>, <<8, 1, 0, 7>>, <<16, 0, 0, 4>>},
          pbh \in 0 .. 1, g \in {2, 5}}

\* B,XY: setup states, pixels, rows and first pixel left.
ExpandWindows == {<<"W=0", 6, 12, 3, 2, NoWindow>>, <<"W=3 fits", 9, 12, 3, 2, <<0, 0, 255, 255>>>>,
                  <<"W=3 start", 17, 10, 2, 4, <<4, 5, 255, 255>>>>,
                  <<"W=3 dimension", 12, 10, 2, 2, <<0, 0, 11, 5>>>>,
                  <<"W=3 both", 21, 8, 1, 4, <<4, 5, 11, 5>>>>}
ExpandJob(x, dx, sx, psize, g, rmw) ==
    [Job("expand", x, dx, Rows3, psize, g, rmw) EXCEPT !.sx = sx, !.spsize = 1]
ExpandWindowCases ==
    {LET d == 8 * w[5]  bits == 8 * w[3]
     IN  Transfer(<<"PIXBLT B,XY", w[1]>>,
                  w[2] + ExpandTransfer(WordsOf(d, bits), w[4], AlignOf(d, bits), 2, FALSE, w[3],
                                        w[5] - 2, 8),
                  "", 10 * MoviL, DestPattern(Rows3, 4) + DestPattern(Rows3, 1), 2,
                  [ExpandJob(2, 12, 0, 8, 2, FALSE) EXCEPT !.dstXY = TRUE, !.y = 4, !.window = w[6]])
        : w \in ExpandWindows}

-----------------------------------------------------------------------------
(* pblt_expand_cases: Tables 13-11 to 13-13.                                *)

\* Alignment, first pixel, pixels, with ppw pixels in a word.
ExpandShapes(ppw) ==
    {<<"A", 0, ppw>>, <<"B", 0, ppw \div 2>>, <<"C", ppw \div 2, ppw \div 2>>,
     <<"D", 1, Larger(1, ppw \div 2 - 1)>>, <<"A", 0, 2 * ppw>>, <<"B", 0, 2 * ppw - 1>>,
     <<"C", 1, 2 * ppw - 1>>, <<"D", 1, 2 * ppw - 2>>, <<"A", 0, 6 * ppw>>, <<"D", 1, 6 * ppw - 2>>,
     <<"A", 0, 48>>, <<"D", 1, 46>>, <<"A", 0, 96>>, <<"D", 1, 94>>, <<"A", 0, 64>>, <<"D", 1, 78>>}
SourceOffsets(dx) == {0, IF dx <= 32 THEN 30 - (dx % 16) ELSE 13}
ExpandOps == {o \in TransferOps : o[1] \in {"Replace", "AND", "ADDS", "Replace T"}}
ExpandNote(n, al, rmw, dx) ==
    IF n = 1 /\ al = "D" /\ rmw THEN "short-d-adjust" ELSE IF dx > 32 THEN "expand-long" ELSE ""

\* The source words are in the name only where the whole row is one segment,
\* and the source offset never is.
ExpandName(al, n, s, dx, op, psize) ==
    <<"PIXBLT B,L", al, n, IF dx <= 32 THEN WordsOf(s, dx) ELSE 0, op, psize>>

ShapesAt(psize) ==
    {h \in ExpandShapes(IF psize = 4 THEN 4 ELSE 2) :
        ~ (psize = 8 /\ h[1] = "D" /\ WordsOf(psize * h[2], psize * h[3]) = 1)}

ExpandShapeCases(psize, h) ==
    LET al == h[1]  dx == h[3]  n == WordsOf(psize * h[2], psize * dx)
    IN  {Transfer(ExpandName(al, n, s, dx, o[1], psize),
                  4 + ExpandTransfer(n, Rows3, al, o[2], o[3], dx, s, psize),
                  ExpandNote(n, al, o[3], dx), 7 * MoviL,
                  DestPattern(Rows3, 4) + DestPattern(Rows3, 3), o[4],
                  ExpandJob(h[2], dx, s, psize, o[2], o[3]))
          : s \in SourceOffsets(dx), o \in ExpandOps}

ExpandCases ==
    UNION {UNION {ExpandShapeCases(psize, h) : h \in ShapesAt(psize)} : psize \in {4, 8}}

-----------------------------------------------------------------------------
(* cache_miss_cases: four NOPs whose second fetch misses, the cache flushed *)
(* in the loop.  The padding that puts the first one at the end of a        *)
(* subsegment is found by trying.                                           *)

FlushWords == MoviL + MoviW + 1 + 1 + 1
CacheMissCase(pad) ==
    [With(Plain(<<"4 NOPs across a cache miss">>, 4, 13, 0, 16), FlushWords + pad)
        EXCEPT !.flush = TRUE, !.test = <<Nops(4)>>]

UncachedCases ==
    StoreCases \cup LoadCases \cup M2mCases \cup MovbMemoryCases \cup MovbCases \cup SignExtendCases
    \cup StraightCases \cup JumpCases \cup StackCases \cup TrapCases \cup {Figure59}
    \cup PixelCases \cup SrtCases \cup WindowCases \cup GraphicsOpCases \cup LineCases
    \cup LineWindowCases \cup FillLCases \cup FillXYCases \cup PbltLCases \cup PbltCornerCases
    \cup PbltWindowCases \cup PbltSizeCases \cup ExpandWindowCases \cup ExpandCases
=============================================================================
