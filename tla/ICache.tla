------------------------------- MODULE ICache --------------------------------
(***************************************************************************)
(* tms34010_icache with ENABLE = 1: the instruction cache between the core *)
(* and the memory fabric.  A step is an edge of the core clock.            *)
(*                                                                         *)
(* Writes do not update the cache; software, or the host, flushes it with  *)
(* HSTCTL.CF and goes around it with CONTROL.CD, and both bits change      *)
(* while a fetch is under way.  What is in the cache may differ from       *)
(* memory only where memory was written since the last flush.              *)
(*                                                                         *)
(* A word is [tag, sub, i]: its segment, the subsegment in it, and the     *)
(* word in that.  The value of a word is the word and a version of it, so  *)
(* that a value from elsewhere is as visible as an old one.                *)
(***************************************************************************)
EXTENDS Integers, Sequences

CONSTANTS
    Ways,       \* segments of the cache, 4 in the chip
    Tags,       \* segment start addresses
    Subs,       \* subsegments of a segment, 8 in the chip
    Fetches,    \* words the PC goes to
    Datas,      \* words of data accesses
    Volatile,   \* words that somebody writes
    NoReq, NoValue

Word == [tag : Tags, sub : Subs, i : 0 .. 3]
Segment == 1 .. Ways

ASSUME CacheAssumption ==
    /\ Ways \in Nat \ {0}
    /\ Fetches \subseteq Word /\ Datas \subseteq Word /\ Volatile \subseteq Word
    /\ NoReq \notin [fetch : BOOLEAN, at : Word]

VARIABLES
    state,      \* state_q
    ssa,        \* ssa_q, after the first fill of the segment
    present,    \* p_q: the subsegments present in a segment
    lru,        \* lru_q: the segments, most recently used first
    seg, half,  \* seg_q, half_q
    keep,       \* keep_q: the fill may set its P flag
    passing,    \* pass_q: a single word is being fetched around the cache
    ram,        \* the data store: a value for each segment, sub and i
    out,        \* ram_q, on a hit
    lo, hi,     \* fill_lo_q, hi_q: the halves just read, as functions of i
    req,        \* the core's request, held to its answer
    cd, cf,     \* CONTROL.CD, HSTCTL.CF
    mem,        \* versions of the writable words
    reading,    \* what memory has read for the request, or NoValue
    written,    \* history: words written since the flush
    recent      \* history: segments in the order of their last use, since the flush

cacheRegs == <<state, ssa, present, lru, seg, half, keep, passing, ram, out, lo, hi>>
aroundVars   == <<req, cd, cf, mem, reading, written, recent>>
cacheVars      == <<cacheRegs, aroundVars>>

Requests == [fetch : {TRUE}, at : Fetches] \cup [fetch : {FALSE}, at : Datas]
Value(w) == [word |-> w, version |-> IF w \in Volatile THEN mem[w] ELSE 0]
Ith(w, i) == [w EXCEPT !.i = i]
Half(h) == {2*h, 2*h + 1}

-----------------------------------------------------------------------------
(* Lookup.                                                                  *)

Pass == cd \/ ~req.fetch \/ passing

Lookup == state = "IDLE" /\ req # NoReq /\ ~Pass

Matches(s) == ssa[s] = req.at.tag /\ present[s] # {}
SegHit  == \E s \in Segment : Matches(s)
\* The last of the matching segments wins in the loop.
HitSeg  == CHOOSE s \in Segment : Matches(s) /\ \A t \in Segment : Matches(t) => t <= s
UseSeg  == IF SegHit THEN HitSeg ELSE lru[Ways]
WordHit == SegHit /\ req.at.sub \in present[HitSeg]

\* Fault: every use pushes the whole stack down.
RotatedStack == [i \in Segment |-> IF i = 1 THEN UseSeg ELSE lru[i - 1]]
\* The used segment goes to the top of the stack, those above it move down.
UsedStack ==
    LET pos == CHOOSE i \in Segment : lru[i] = UseSeg
    IN  [i \in Segment |-> IF i = 1 THEN UseSeg ELSE IF i <= pos THEN lru[i - 1] ELSE lru[i]]

-----------------------------------------------------------------------------
(* The memory side.                                                         *)

MReq   == state = "FILL" \/ (state = "IDLE" /\ req # NoReq /\ Pass)
MWords == IF state = "FILL" THEN {Ith(req.at, i) : i \in Half(half)} ELSE {req.at}
HalfRead == [i \in Half(half) |-> reading[Ith(req.at, i)]]

\* The core's answer, and its word.
CAck(ack) == state \in {"HIT", "DONE"} \/ (state = "IDLE" /\ req # NoReq /\ Pass /\ ack)
CData ==
    CASE state = "HIT"  -> out[req.at.i]
      [] state = "DONE" -> IF req.at.i \in Half(0) THEN lo[req.at.i] ELSE hi[req.at.i]
      [] OTHER          -> reading[req.at]

-----------------------------------------------------------------------------
(* The cache.  ack is the fabric's acknowledge.                             *)

Flushed ==
    /\ present' = [s \in Segment |-> {}]
    /\ lru' = [s \in Segment |-> s]
    /\ keep' = FALSE

\* A miss with CF set reads its subsegment and keeps none of it.
FlushFetch ==
    /\ cf /\ Lookup
    /\ half' = 0 /\ state' = "FILL"
    /\ Flushed
    /\ UNCHANGED <<ssa, seg>>

FetchHit ==
    /\ ~cf /\ Lookup /\ WordHit
    /\ seg' = UseSeg /\ lru' = UsedStack
    /\ state' = "HIT"
    /\ UNCHANGED <<ssa, present, half, keep>>

\* Fault: a segment keeps its flags when it is given to another address.
FetchMissKeepingFlags ==
    /\ ~cf /\ Lookup /\ ~WordHit
    /\ seg' = UseSeg /\ lru' = UsedStack
    /\ ssa' = [ssa EXCEPT ![UseSeg] = req.at.tag]
    /\ half' = 0 /\ keep' = TRUE /\ state' = "FILL"
    /\ UNCHANGED present

FetchMiss ==
    /\ ~cf /\ Lookup /\ ~WordHit
    /\ seg' = UseSeg /\ lru' = UsedStack
    /\ IF SegHit THEN UNCHANGED <<ssa, present>>
       ELSE /\ ssa' = [ssa EXCEPT ![UseSeg] = req.at.tag]
            /\ present' = [present EXCEPT ![UseSeg] = {}]
    /\ half' = 0 /\ keep' = TRUE /\ state' = "FILL"

\* The end of one of the fill's two reads.
Filled(kept) ==
    /\ IF half = 0 THEN half' = 1 /\ UNCHANGED state ELSE state' = "DONE" /\ UNCHANGED half
    /\ IF cf THEN Flushed
       ELSE /\ present' = IF half = 1 /\ kept THEN [present EXCEPT ![seg] = @ \cup {req.at.sub}]
                          ELSE present
            /\ UNCHANGED <<lru, keep>>
    /\ UNCHANGED <<ssa, seg>>

\* Fault: the flag of a fill is set whatever happened meanwhile.
FillStepAlways(ack) == state = "FILL" /\ ack /\ Filled(TRUE)

FillStep(ack) == state = "FILL" /\ ack /\ Filled(keep)

EndFetch ==
    /\ state \in {"HIT", "DONE"}
    /\ state' = "IDLE"
    /\ IF cf THEN Flushed ELSE UNCHANGED <<present, lru, keep>>
    /\ UNCHANGED <<ssa, seg, half>>

Idle(ack) ==
    /\ ~Lookup /\ state \notin {"HIT", "DONE"} /\ ~(state = "FILL" /\ ack)
    /\ IF cf THEN Flushed ELSE UNCHANGED <<present, lru, keep>>
    /\ UNCHANGED <<state, ssa, seg, half>>

\* The data store and the halves kept for the answer, which nobody looks at
\* after it and which are blank here when they are not in use.
Blank(h) == [i \in Half(h) |-> NoValue]
Store(ack) ==
    IF state = "FILL" /\ ack
    THEN /\ ram' = [ram EXCEPT ![seg][req.at.sub] = [i \in 0 .. 3 |->
                        IF i \in Half(half) THEN HalfRead[i] ELSE @[i]]]
         /\ IF half = 0 THEN lo' = HalfRead /\ UNCHANGED hi ELSE hi' = HalfRead /\ UNCHANGED lo
    ELSE /\ IF state = "DONE" THEN lo' = Blank(0) /\ hi' = Blank(1) ELSE UNCHANGED <<lo, hi>>
         /\ UNCHANGED ram

Passing(ack) ==
    passing' = (~ack /\ (passing \/ (state = "IDLE" /\ req # NoReq /\ Pass)))

CacheClock(ack) ==
    /\ FlushFetch \/ FetchHit \/ FetchMiss \/ FillStep(ack) \/ EndFetch \/ Idle(ack)
    /\ Store(ack) /\ Passing(ack)
    /\ out' = IF Lookup /\ ~cf /\ WordHit THEN ram[UseSeg][req.at.sub] ELSE NoValue

-----------------------------------------------------------------------------
(* What is around it.                                                       *)

\* The core holds its request to the answer.
Core(ack) ==
    IF req = NoReq \/ CAck(ack) THEN req' \in Requests \cup {NoReq} ELSE UNCHANGED req

\* The fabric reads the words of a request, each in a clock of its own, and
\* acknowledges later; what others write meanwhile may not be in its answer.
Fabric(ack) ==
    IF ack THEN reading' = NoValue
    ELSE IF ~MReq THEN UNCHANGED reading
    ELSE IF reading = NoValue THEN reading' \in {NoValue, [w \in MWords |-> Value(w)]}
    ELSE \E last \in SUBSET MWords :
            reading' = [w \in MWords |-> IF w \in last THEN Value(w) ELSE reading[w]]

Writers ==
    \/ UNCHANGED mem /\ written' = IF cf THEN {} ELSE written
    \/ \E w \in Volatile :
        /\ mem' = [mem EXCEPT ![w] = 1 - @]
        /\ written' = IF cf THEN {} ELSE written \cup {w}

\* The segment used comes first, and those used since its last use move down.
UsedAt == IF \E i \in 1 .. Len(recent) : recent[i] = req.at.tag
          THEN CHOOSE i \in 1 .. Len(recent) : recent[i] = req.at.tag
          ELSE Len(recent) + 1
Kept == IF UsedAt <= Len(recent) \/ Len(recent) = Ways THEN Len(recent) ELSE Len(recent) + 1

Uses == recent' = IF cf THEN << >>
                  ELSE IF Lookup
                  THEN [i \in 1 .. Kept |-> IF i = 1 THEN req.at.tag
                                           ELSE IF i <= UsedAt THEN recent[i - 1] ELSE recent[i]]
                  ELSE recent

Clock(ack) ==
    /\ ack => reading # NoValue
    /\ CacheClock(ack) /\ Core(ack) /\ Fabric(ack) /\ Writers /\ Uses
    /\ cd' \in BOOLEAN /\ cf' \in BOOLEAN

CacheInit ==
    /\ state = "IDLE" /\ seg = 1 /\ half = 0 /\ keep = FALSE /\ passing = FALSE
    /\ ssa = [s \in Segment |-> CHOOSE t \in Tags : TRUE]
    /\ present = [s \in Segment |-> {}]
    /\ lru = [s \in Segment |-> s]
    /\ ram = [s \in Segment |-> [b \in Subs |-> [i \in 0 .. 3 |-> NoValue]]]
    /\ out = NoValue
    /\ lo = Blank(0) /\ hi = Blank(1)
    /\ req = NoReq /\ cd = FALSE /\ cf = FALSE
    /\ mem = [w \in Volatile |-> 0]
    /\ reading = NoValue /\ written = {} /\ recent = << >>

CacheNext == \E ack \in BOOLEAN : Clock(ack)

CacheSpec == CacheInit /\ [][CacheNext]_cacheVars

-----------------------------------------------------------------------------
(* Properties.                                                              *)

\* What a cached word holds is that very word, as memory has it now unless
\* it was written since the last clock of CF: no fill that a flush fell into
\* is kept, whichever of its two reads it came between.  And a segment is in
\* the cache once; a second copy would shadow the first and survive its
\* replacement.
CachedIsCurrent ==
    /\ \A s \in Segment : \A b \in present[s], i \in 0 .. 3 :
           LET w == [tag |-> ssa[s], sub |-> b, i |-> i]
           IN  ram[s][b][i].word = w /\ (ram[s][b][i] = Value(w) \/ w \in written)
    /\ \A s, t \in Segment :
           s # t /\ present[s] # {} /\ present[t] # {} => ssa[s] # ssa[t]

\* The core is answered with the word it asked for, from the cache, from the
\* fill or from around it, whatever CF and CD did since it asked; and what the
\* fabric is reading is what the cache still asks for.
AnswersItsWord ==
    /\ \A ack \in BOOLEAN : CAck(ack) /\ (ack => reading # NoValue) => CData.word = req.at
    /\ reading # NoValue => MReq /\ DOMAIN reading = MWords

\* The stack orders the segments by their last use since the flush: the one
\* replaced is the least recently used, across hits, fills and flushes.
LruIsRecency ==
    \A i \in Segment : i <= Len(recent) => ssa[lru[i]] = recent[i]
=============================================================================
