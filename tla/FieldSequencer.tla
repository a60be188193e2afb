--------------------------- MODULE FieldSequencer ---------------------------
(***************************************************************************)
(* tms34010_field_sequencer: turns one field request into word cycles.     *)
(*                                                                         *)
(* A read fetches the words of the window in ascending order.  A write     *)
(* takes each word in turn: a word the field covers completely is written  *)
(* directly, any other is read, merged and written back under a lock.      *)
(*                                                                         *)
(* The core addresses memory as one line of bits and asks for fields of 1  *)
(* to 2W bits at any bit address; the memory bus moves aligned words of W  *)
(* bits (W is 16 in the hardware).  A field therefore touches one, two or  *)
(* three consecutive words: its window.  A bit address is kept here as the *)
(* word it lies in (addr) and the bit within that word (off).              *)
(*                                                                         *)
(* SequencerClock(in) is one clock edge.  The record in holds the input    *)
(* pins in that clock:                                                     *)
(*   req, we, field   the field request offered by the fabric              *)
(*   ack, rdata       the acknowledgement of a word cycle, and its data    *)
(*   restart          HOLD took the bus between a partial read and its     *)
(*                    write                                                *)
(***************************************************************************)
EXTENDS Integers

CONSTANTS
    W,          \* bits in a memory word: LOCAL_WORD_WIDTH
    NWords      \* words in the address space, which wraps around

ASSUME GeometryAssumption == W \in Nat \ {0} /\ NWords \in Nat \ {0}

Bit       == {0, 1}
Lanes     == 0 .. W - 1
Word      == [Lanes -> Bit]
WordAddr  == 0 .. NWords - 1
FieldBits == 0 .. 2 * W - 1          \* bits of the right-justified data bus
FieldData == [FieldBits -> Bit]
ZeroData  == [i \in FieldBits |-> 0]
ZeroWord  == [b \in Lanes |-> 0]

\* What the sequencer needs to know of a field.  keep names the field bits a
\* write leaves alone; rmw asks for a read before every write.
Field == [addr : WordAddr, off : Lanes, size : 0 .. 4 * W - 1,
          data : FieldData, keep : SUBSET FieldBits, rmw : BOOLEAN]

ValidSize(n) == n \in 1 .. 2 * W

\* Index of the last word of the field's window: field_end_offset[5:4].
LastWord(f) == CASE f.off + f.size <= W     -> 0
                 [] f.off + f.size >  2 * W -> 2
                 [] OTHER                   -> 1

\* The address of word k of the window; addresses wrap.
NthWord(f, k) == (f.addr + k) % NWords

\* The field bit that lies in lane b of word k, when it is one at all.
FieldBit(f, k, b) == k * W + b - f.off

\* The lanes of word k that a write replaces.
WordMask(f, k) ==
    {b \in Lanes : /\ FieldBit(f, k, b) \in 0 .. f.size - 1
                   /\ FieldBit(f, k, b) \notin f.keep}

\* The data of word k, positioned in its lanes.
WordData(f, k) ==
    [b \in Lanes |-> IF FieldBit(f, k, b) \in FieldBits
                     THEN f.data[FieldBit(f, k, b)] ELSE 0]

\* The old word with the field's lanes replaced.
Merge(old, f, k) ==
    [b \in Lanes |-> IF b \in WordMask(f, k) THEN WordData(f, k)[b] ELSE old[b]]

NeedsRead(f, k) == WordMask(f, k) # Lanes \/ f.rmw

\* A window of words, shifted down to the field and cut to its size.
Justify(words, f) ==
    [i \in FieldBits |-> IF i < f.size
                         THEN words[(f.off + i) \div W][(f.off + i) % W]
                         ELSE 0]

-----------------------------------------------------------------------------
VARIABLES
    seq,        \* state_q
    field,      \* field_addr_q, field_size_q, field_wdata_q, field_keep_q, field_rmw_q
    windex,     \* word_index_q: the word of the window being served
    window,     \* read_window_q: the words read so far
    frdata,     \* field_rdata_q: the justified answer to a read
    rmwWord     \* rmw_word_q: the old word of a partial write

seqVars == <<seq, field, windex, window, frdata, rmwWord>>

SeqStates == {"IDLE", "READ_WORD", "WRITE_SELECT", "WRITE_READ", "WRITE_WORD",
              "RESPONSE"}

NoField == [addr |-> 0, off |-> 0, size |-> 0, data |-> ZeroData, keep |-> {},
            rmw |-> FALSE]

SeqTypeOK ==
    /\ seq \in SeqStates
    /\ field \in Field
    /\ windex \in 0 .. 2
    /\ window \in [0 .. 2 -> Word]
    /\ frdata \in FieldData
    /\ rmwWord \in Word

SeqInit ==
    /\ seq = "IDLE"
    /\ field = NoField
    /\ windex = 0
    /\ window = [k \in 0 .. 2 |-> ZeroWord]
    /\ frdata = ZeroData
    /\ rmwWord = ZeroWord

\* Output pins: combinational functions of the state.
WordReq(restart) == \/ seq \in {"READ_WORD", "WRITE_READ"}
                    \/ seq = "WRITE_WORD" /\ ~(restart /\ NeedsRead(field, windex))
WordWe(restart)  == seq = "WRITE_WORD" /\ ~(restart /\ NeedsRead(field, windex))
WordLock(restart) == \/ seq = "WRITE_READ"
                     \/ WordWe(restart) /\ NeedsRead(field, windex)
WordAddress      == NthWord(field, windex)
WordWdata        == Merge(rmwWord, field, windex)

AtLast == windex = LastWord(field)

-----------------------------------------------------------------------------
SeqIdle(in) ==
    /\ seq = "IDLE" /\ ~in.req
    /\ UNCHANGED seqVars

\* A new field: a size the hardware does not have is answered at once.
TakeField(in) ==
    /\ seq = "IDLE" /\ in.req
    /\ seq' = IF ~ValidSize(in.field.size) THEN "RESPONSE"
              ELSE IF in.we THEN "WRITE_SELECT" ELSE "READ_WORD"
    /\ field' = IF in.we THEN in.field
                ELSE [in.field EXCEPT !.keep = {}, !.rmw = FALSE]
    /\ windex' = 0
    /\ window' = [k \in 0 .. 2 |-> ZeroWord]
    /\ frdata' = ZeroData
    /\ UNCHANGED rmwWord

ReadWord(in) ==
    /\ seq = "READ_WORD" /\ in.ack
    /\ window' = [window EXCEPT ![windex] = in.rdata]
    /\ IF AtLast
       THEN /\ seq' = "RESPONSE"
            /\ frdata' = Justify(window', field)
            /\ UNCHANGED windex
       ELSE /\ windex' = windex + 1
            /\ UNCHANGED <<seq, frdata>>
    /\ UNCHANGED <<field, rmwWord>>

SelectWrite(in) ==
    /\ seq = "WRITE_SELECT"
    /\ seq' = IF NeedsRead(field, windex) THEN "WRITE_READ" ELSE "WRITE_WORD"
    /\ UNCHANGED <<field, windex, window, frdata, rmwWord>>

ReadOldWord(in) ==
    /\ seq = "WRITE_READ" /\ in.ack
    /\ seq' = "WRITE_WORD"
    /\ rmwWord' = in.rdata
    /\ UNCHANGED <<field, windex, window, frdata>>

\* HOLD came between the read and the write: the old word is read again.
Reread(in) ==
    /\ seq = "WRITE_WORD" /\ in.restart /\ NeedsRead(field, windex)
    /\ seq' = "WRITE_READ"
    /\ UNCHANGED <<field, windex, window, frdata, rmwWord>>

\* Fault: the index runs past the last word.
WriteWordRunsOn(in) ==
    /\ seq = "WRITE_WORD" /\ WordWe(in.restart) /\ in.ack
    /\ seq' = IF AtLast THEN "RESPONSE" ELSE "WRITE_SELECT"
    /\ windex' = windex + 1
    /\ UNCHANGED <<field, window, frdata, rmwWord>>

WriteWord(in) ==
    /\ seq = "WRITE_WORD" /\ WordWe(in.restart) /\ in.ack
    /\ seq' = IF AtLast THEN "RESPONSE" ELSE "WRITE_SELECT"
    /\ windex' = IF AtLast THEN windex ELSE windex + 1
    /\ UNCHANGED <<field, window, frdata, rmwWord>>

SeqWait(in) ==
    /\ \/ seq \in {"READ_WORD", "WRITE_READ"}
       \/ seq = "WRITE_WORD" /\ WordWe(in.restart)
    /\ ~in.ack
    /\ UNCHANGED seqVars

Respond(in) ==
    /\ seq = "RESPONSE"
    /\ seq' = "IDLE"
    /\ UNCHANGED <<field, windex, window, frdata, rmwWord>>

SequencerClock(in) ==
    \/ SeqIdle(in)     \/ TakeField(in)   \/ ReadWord(in)  \/ SelectWrite(in)
    \/ ReadOldWord(in) \/ Reread(in)      \/ WriteWord(in) \/ SeqWait(in)
    \/ Respond(in)
=============================================================================
