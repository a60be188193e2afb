--------------------------- MODULE TransferTimes ----------------------------
(***************************************************************************)
(* The states of a FILL or PIXBLT, twice: as the formulas that             *)
(* tools/accuracy/cases.py takes from the printed tables, and as the core  *)
(* spends them, word by word (rtl/core/tms34010_core.sv).                  *)
(*                                                                         *)
(* A transfer writes rows of n memory words.  al is the alignment of the   *)
(* row's two edges (A both on a word boundary, B the trailing one inside a *)
(* word, C the leading one, D both), g the states per word of the pixel    *)
(* operation, rmw whether every word is read before it is written (plane   *)
(* masking, transparency).  rel says whether the row's first destination   *)
(* word takes one source word (">") or two ("<").                          *)
(***************************************************************************)
EXTENDS Integers, FiniteSets

RowClass(n) == IF n = 1 THEN "short" ELSE IF n = 2 THEN "medium" ELSE "long"

\* Edge words a read-modify-write operation times itself (13.3.2.6).
Adjust == [A |-> 0, B |-> 2, C |-> 2, D |-> 4]

-----------------------------------------------------------------------------
(* The printed tables.                                                      *)

\* Table 13-6, per row k and at the end e.
T136 == [short  |-> [A |-> <<1, 2>>, B |-> <<2, 2>>, C |-> <<2, 1>>, D |-> <<2, 1>>],
         medium |-> [A |-> <<2, 2>>, B |-> <<3, 2>>, C |-> <<3, 2>>, D |-> <<4, 1>>],
         long   |-> [A |-> <<1, 2>>, B |-> <<2, 5>>, C |-> <<3, 2>>, D |-> <<4, 1>>]]

FillTransfer(n, rows, al, g, rmw) ==
    LET ke == T136[RowClass(n)][al]
    IN  (ke[1] + n * g) * rows + ke[2] - (IF rmw THEN Adjust[al] * rows ELSE 0)

\* Table 13-9: PBH, class, D >= S or D < S.
T139 == <<
  [short  |-> [gt |-> [A |-> <<4, 5>>, B |-> <<6, 3>>, C |-> <<6, 3>>, D |-> <<6, 3>>],
               lt |-> [A |-> <<4, 5>>, B |-> <<6, 3>>, C |-> <<6, 3>>, D |-> <<6, 3>>]],
   medium |-> [gt |-> [A |-> <<2, 5>>, B |-> <<4, 3>>, C |-> <<4, 5>>, D |-> <<6, 3>>],
               lt |-> [A |-> <<4, 4>>, B |-> <<6, 2>>, C |-> <<6, 4>>, D |-> <<8, 2>>]],
   long   |-> [gt |-> [A |-> <<0, 5>>, B |-> <<2, 3>>, C |-> <<2, 5>>, D |-> <<2, 3>>],
               lt |-> [A |-> <<2, 4>>, B |-> <<4, 2>>, C |-> <<4, 4>>, D |-> <<6, 2>>]]],
  [short  |-> [gt |-> [A |-> <<3, 8>>, B |-> <<4, 7>>, C |-> <<4, 7>>, D |-> <<4, 7>>],
               lt |-> [A |-> <<3, 8>>, B |-> <<4, 7>>, C |-> <<4, 7>>, D |-> <<4, 7>>]],
   medium |-> [gt |-> [A |-> <<2, 4>>, B |-> <<4, 3>>, C |-> <<4, 4>>, D |-> <<6, 3>>],
               lt |-> [A |-> <<4, 5>>, B |-> <<5, 4>>, C |-> <<6, 5>>, D |-> <<7, 4>>]],
   long   |-> [gt |-> [A |-> <<1, 4>>, B |-> <<3, 3>>, C |-> <<3, 4>>, D |-> <<5, 3>>],
               lt |-> [A |-> <<3, 5>>, B |-> <<4, 4>>, C |-> <<5, 5>>, D |-> <<6, 4>>]]] >>

PbltTransfer(pbh, n, rows, rel, al, g, rmw) ==
    LET ke  == T139[pbh + 1][RowClass(n)][rel][al]
        per == IF n = 2 \/ pbh = 1 THEN 2 + g
               ELSE IF rel = "lt" THEN 2 * g ELSE IF al = "D" THEN 4 + g ELSE 2 + g
        row == IF n = 1 THEN ke[1] + g ELSE ke[1] + per * n
    IN  row * rows + ke[2] - (IF rmw THEN Adjust[al] * rows ELSE 0)

\* Why a printed figure is not expected of the core.
PbltNote(pbh, n, rel, al, g, rmw) ==
    IF n = 1 /\ al = "D" /\ rmw THEN "short-d-adjust"
    ELSE IF pbh = 1 /\ n = 1 /\ rel = "lt" THEN "pblt-short-ds"
    ELSE IF pbh = 0 /\ n >= 3 /\ ((al = "D" /\ rel = "gt") \/ (rel = "lt" /\ g # 2))
         THEN "pblt-misprint"
    ELSE ""

\* The bit of its memory word that an address is.
Bit(a) == a % 16

\* Fault: backward transfers look at the low end too.
TwoSrcForward(pbh, d, rowbits, s) ==
    LET room  == 16 - Bit(d)
        first == IF rowbits < room THEN rowbits ELSE room
    IN  Bit(s) + first > 16

\* Whether the first destination word written needs two source words.  d and
\* s are the bit offsets of the row's low ends.
TwoSrc(pbh, d, rowbits, s) ==
    LET room  == IF pbh = 0 THEN 16 - Bit(d)
                 ELSE IF Bit(d + rowbits) = 0 THEN 16 ELSE Bit(d + rowbits)
        first == IF rowbits < room THEN rowbits ELSE room
        start == IF pbh = 0 THEN s ELSE s + rowbits - first
    IN  Bit(start) + first > 16

Relation(pbh, d, rowbits, s) == IF TwoSrc(pbh, d, rowbits, s) THEN "lt" ELSE "gt"

\* The alignment and the words of a row.
AlignOf(d, rowbits) ==
    IF Bit(d) = 0 THEN IF Bit(d + rowbits) = 0 THEN "A" ELSE "B"
                  ELSE IF Bit(d + rowbits) = 0 THEN "C" ELSE "D"
WordsOf(d, rowbits) == (Bit(d) + rowbits + 15) \div 16

\* Table 13-12: expansion of 1-bit pixels, dx source pixels from bit s.
ExpandTransfer(n, rows, al, g, rmw, dx, s, psize) ==
    LET sets  == dx \div 32
        pairs == IF sets % 2 = 0 THEN sets - 1 ELSE sets
        rest  == dx - 32 * sets
        v     == IF rest = 0 THEN 0 ELSE WordsOf(s, rest)
        set   == 2 * WordsOf(s, 32) + 2 * g * psize
        row   == CASE n = 1 -> 3 + 2 * WordsOf(s, dx) + g
                   [] n > 1 /\ dx <= 32 ->
                        (IF al \in {"A", "C"} THEN 3 ELSE 5) + 2 * WordsOf(s, dx) + n * g
                   [] n > 1 /\ dx > 32 /\ al = "A" -> (3 + set) * pairs + 2 * v + n * g
                   [] OTHER -> (8 + set) * pairs + 2 * v + (n - 2 * psize * sets) * g + 8
    IN  row * rows + 3 - (IF rmw THEN Adjust[al] * rows ELSE 0)

-----------------------------------------------------------------------------
(* The word engines of the core.  A job is what the registers ask for: the  *)
(* array of dx by dy pixels at pixel x, y, its source at pixel sx of a row, *)
(* in the directions pbh and pbv, through a window <<x0, y0, x1, y1>> where *)
(* preclipping is on.  A pixel of the destination has psize bits, one of    *)
(* the source spsize.                                                       *)

NoWindow == << >>
Job(kind, x, dx, dy, psize, g, rmw) ==
    [kind |-> kind, srcXY |-> FALSE, dstXY |-> FALSE, pbh |-> 0, pbv |-> 0, x |-> x, y |-> 0,
     dx |-> dx, dy |-> dy, sx |-> 0, psize |-> psize, spsize |-> psize, g |-> g, rmw |-> rmw,
     window |-> NoWindow]

One(b)        == IF b THEN 1 ELSE 0
Larger(a, b)  == IF a > b THEN a ELSE b
Smaller(a, b) == IF a < b THEN a ELSE b

\* W=3: the array cut down to the window, which it meets.
Preclip(j) ==
    IF j.window = NoWindow THEN j
    ELSE LET x0 == Larger(j.x, j.window[1])
             y0 == Larger(j.y, j.window[2])
             x1 == Smaller(j.x + j.dx - 1, j.window[3])
             y1 == Smaller(j.y + j.dy - 1, j.window[4])
         IN  [j EXCEPT !.x = x0, !.y = y0, !.dx = x1 - x0 + 1, !.dy = y1 - y0 + 1,
                       !.sx = @ + x0 - j.x]

StartMoves(j) == LET c == Preclip(j) IN c.x # j.x \/ c.y # j.y
FarMoves(j)   == LET c == Preclip(j)
                 IN  c.x + c.dx # j.x + j.dx \/ c.y + c.dy # j.y + j.dy

\* States before the first word.
FillSetup(j) ==
    CASE j.window = NoWindow -> IF j.dstXY THEN 6 ELSE 4
      [] j.window # NoWindow /\ StartMoves(j) -> IF FarMoves(j) THEN 20 ELSE 16
      [] OTHER -> IF FarMoves(j) THEN 12 ELSE 9
PbltForm(j) ==
    CASE j.kind = "expand" -> IF j.dstXY THEN 6 ELSE 4
      [] j.kind = "pblt" /\ j.srcXY /\ j.dstXY -> 12
      [] j.kind = "pblt" /\ j.srcXY # j.dstXY  -> 9
      [] OTHER -> 7
PbltCorner(j) ==
    IF j.kind = "pblt" /\ (j.srcXY \/ j.dstXY)
    THEN <<0, 1, 2, 4>>[2 * j.pbv + j.pbh + 1] ELSE 0
PbltClip(j) ==
    CASE j.window = NoWindow -> 0
      [] j.window # NoWindow /\ StartMoves(j) ->
            (IF FarMoves(j) THEN 14 ELSE 10) + One(j.kind = "expand")
      [] OTHER -> IF FarMoves(j) THEN 6 ELSE 3

\* One row of a job: its first bit, its bits, the words it writes.
First(j)  == j.x * j.psize
Bits(j)   == j.dx * j.psize
EndOff(j) == Bit(First(j)) + Bits(j)
RowWords(j)  == (EndOff(j) + 15) \div 16
Lead(j)   == Bit(First(j)) = 0
Trail(j)  == Bit(EndOff(j)) = 0

\* Partly covered edge words are read before they are written: two states.
EdgeWords(j) == IF RowWords(j) = 1 THEN One(~ (Lead(j) /\ Trail(j)))
                ELSE One(~ Lead(j)) + One(~ Trail(j))
BusStates(j) == RowWords(j) * j.g + (IF j.rmw THEN 0 ELSE 2 * EdgeWords(j))

FillRowStates(j) ==
    CASE RowWords(j) = 1 -> One(Lead(j) /\ Trail(j))
      [] RowWords(j) = 2 -> One(Lead(j)) + One(Trail(j))
      [] OTHER -> One(Trail(j))
FillEndStates(j) ==
    CASE RowWords(j) = 1 -> IF Lead(j) THEN 2 ELSE 1
      [] RowWords(j) = 2 -> IF Lead(j) \/ Trail(j) THEN 2 ELSE 1
      [] OTHER -> IF Trail(j) THEN 2 ELSE IF Lead(j) THEN 5 ELSE 1

\* Whether the first word in the direction of travel takes two source words;
\* going backward the row pointers are one past the row's end.
NeedsTwoWords(j) ==
    LET dst   == First(j) + j.pbh * Bits(j)
        src   == (j.sx + j.pbh * j.dx) * j.spsize
        room  == IF j.pbh = 0 THEN 16 - Bit(dst) ELSE IF Bit(dst) = 0 THEN 16 ELSE Bit(dst)
        first == Smaller(Bits(j), room)
    IN  Bit(src - j.pbh * first) + first > 16

PbltRowStates(j) ==
    LET two == NeedsTwoWords(j) IN
    CASE RowWords(j) = 1 -> IF j.pbh = 0 THEN 2 * One(~ two) ELSE One(Lead(j) /\ Trail(j) /\ ~ two)
      [] RowWords(j) > 1 /\ j.pbh = 0 -> IF RowWords(j) = 2 THEN 2 ELSE 0
      [] OTHER -> (IF RowWords(j) = 2 THEN 2 ELSE 1) - One(two /\ ~ Trail(j))
PbltEndStates(j) ==
    LET two == NeedsTwoWords(j) IN
    CASE RowWords(j) = 1 -> IF j.pbh = 0 THEN 3 + 2 * One(Lead(j) /\ Trail(j))
                         ELSE 7 + One(Lead(j) /\ Trail(j))
      [] RowWords(j) > 1 /\ j.pbh = 0 -> 3 + 2 * One(Trail(j)) - One(two)
      [] OTHER -> 3 + One(Trail(j)) + One(two)

\* An expanded row of up to 32 pixels is one segment; when its bits are read
\* the CPU spends states before the first write, fewer if that is an edge word.
SegmentWait(j)   == IF Lead(j) /\ EndOff(j) >= 16 THEN 3 ELSE 1
SourceWords(j)   == (Bit(j.sx * j.spsize) + j.dx * j.spsize + 15) \div 16

EngineTimes(job) == job.kind \in {"fill", "pblt"} \/ (job.kind = "expand" /\ job.dx <= 32)
EngineStates(job) ==
    LET j == Preclip(job) IN
    CASE j.kind = "fill" ->
            FillSetup(job) + (BusStates(j) + FillRowStates(j)) * j.dy + FillEndStates(j)
      [] j.kind = "pblt" ->
            PbltForm(job) + PbltCorner(job) + PbltClip(job)
              + (BusStates(j) + 2 * (RowWords(j) + One(NeedsTwoWords(j))) + PbltRowStates(j)) * j.dy
              + PbltEndStates(j)
      [] j.kind = "expand" ->
            PbltForm(job) + PbltClip(job)
              + (2 * SourceWords(j) + BusStates(j) + SegmentWait(j)) * j.dy + 3
=============================================================================
