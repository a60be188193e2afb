------------------------- MODULE MemoryFabricProofs -------------------------
(***************************************************************************)
(* Proofs about the memory fabric, for every word width, address space,    *)
(* set of requests and rows, and for both values of CYCLE_ACCURATE.        *)
(*                                                                         *)
(* FabricInv is what the fabric keeps whoever runs its cycles: its lemmas  *)
(* are about FabricClock, with any acknowledgement of a cycle and any word *)
(* read, any HOLD level and any memory.  Inv adds what needs the memory of *)
(* MemoryFabric itself, and JobInv what the refinement of FieldMemory      *)
(* needs.                                                                  *)
(***************************************************************************)
EXTENDS MemoryFabric, TLAPS

-----------------------------------------------------------------------------
(* What the operators on words and fields return, for every word width and  *)
(* address space.                                                           *)

\* Words have a lane and there is a word: the geometry the RTL's parameters give.
LEMMA LaneFacts == 0 \in Lanes /\ W \in Nat \ {0} /\ NWords \in Nat \ {0}
BY GeometryAssumption DEF Lanes

\* The reset values of word and data registers are words and data.
LEMMA ZeroTypes == ZeroWord \in Word /\ ZeroData \in FieldData
BY DEF ZeroWord, Word, Bit, ZeroData, FieldData

\* A window has at most three words.
LEMMA LastWordRange == \A f \in Field : LastWord(f) \in 0 .. 2
BY DEF LastWord

\* Window addresses stay inside the wrapping address space.
LEMMA NthWordRange == \A f \in Field, k \in 0 .. 2 : NthWord(f, k) \in WordAddr
<1> SUFFICES ASSUME NEW f \in Field, NEW k \in 0 .. 2
             PROVE  (f.addr + k) % NWords \in 0 .. NWords - 1
  BY DEF NthWord, WordAddr
<1>1. f.addr + k \in Nat
  BY GeometryAssumption DEF Field, WordAddr
<1>. QED BY <1>1, GeometryAssumption

\* The merge of a partial write (word_wdata_o) is again a word.
LEMMA MergeType ==
  \A f \in Field, k \in 0 .. 2, old \in Word : Merge(old, f, k) \in Word
<1> SUFFICES ASSUME NEW f \in Field, NEW k \in 0 .. 2, NEW old \in Word
             PROVE  Merge(old, f, k) \in Word
  OBVIOUS
<1>1. WordData(f, k) \in Word
  <2>1. \A i \in FieldBits : f.data[i] \in Bit
    BY DEF Field, FieldData
  <2>. QED BY <2>1 DEF WordData, Word, Bit
<1>. QED BY <1>1 DEF Merge, Word

\* Outside the mask a merge keeps the old word.
LEMMA MergeKeeps ==
  \A f \in Field, k \in 0 .. 2, old \in Word, b \in Lanes :
    b \notin WordMask(f, k) => Merge(old, f, k)[b] = old[b]
BY DEF Merge

\* Every bit of a legal field lies in one of the window's three words.
LEMMA BitInWindow ==
  ASSUME NEW x \in 0 .. 3 * W - 1
  PROVE  x \div W \in 0 .. 2 /\ x % W \in Lanes
<1>1. x % W \in Lanes
  BY GeometryAssumption DEF Lanes
<1>2. x = W * (x \div W) + (x % W)
  BY GeometryAssumption
<1>. DEFINE q == x \div W
<1>3. q \in Int
  BY GeometryAssumption
<1>4. q >= 0
  BY <1>1, <1>2, <1>3, GeometryAssumption DEF Lanes
<1>5. q < 3
  BY <1>1, <1>2, <1>3, GeometryAssumption DEF Lanes
<1>. QED BY <1>1, <1>3, <1>4, <1>5

\* The justified answer to a read (rdata_o) fits the field data bus.
LEMMA JustifyType ==
  ASSUME NEW f \in Field, ValidSize(f.size), NEW w \in [0 .. 2 -> Word]
  PROVE  Justify(w, f) \in FieldData
<1>1. ASSUME NEW i \in FieldBits, i < f.size
      PROVE  w[(f.off + i) \div W][(f.off + i) % W] \in Bit
  <2>1. f.off + i \in 0 .. 3 * W - 1
    BY <1>1, GeometryAssumption DEF Field, Lanes, FieldBits, ValidSize
  <2>2. (f.off + i) \div W \in 0 .. 2 /\ (f.off + i) % W \in Lanes
    BY <2>1, BitInWindow
  <2>. QED BY <2>2 DEF Word
<1>. QED BY <1>1 DEF Justify, FieldData, Bit

-----------------------------------------------------------------------------
(* Bit addresses.  Memory seen as one line of bits holds word a in the bits *)
(* a * W .. a * W + W - 1.                                                   *)

\* Quotient and remainder are determined by where a number lies.
LEMMA DivideOnce ==
  ASSUME NEW M \in Nat \ {0}, NEW q \in Int, NEW r \in 0 .. M - 1
  PROVE  (q * M + r) \div M = q /\ (q * M + r) % M = r
<1>. DEFINE x == q * M + r
            d == x \div M
            m == x % M
<1>1. x \in Int /\ d \in Int /\ m \in 0 .. M - 1 /\ x = M * d + m
  OBVIOUS
<1>2. M * (q - d) = m - r
  <2>1. q * M + r = M * d + m
    BY <1>1
  <2>. QED BY <1>1, <2>1
<1>. HIDE DEF x, d, m
<1>3. ~(q > d)
  <2>1. SUFFICES ASSUME q > d PROVE FALSE
    OBVIOUS
  <2>2. M * (q - d - 1) >= 0
    BY <1>1, <2>1
  <2>3. M * (q - d - 1) = M * (q - d) - M
    BY <1>1
  <2>. QED BY <1>1, <1>2, <2>2, <2>3
<1>4. ~(q < d)
  <2>1. SUFFICES ASSUME q < d PROVE FALSE
    OBVIOUS
  <2>2. M * (d - q - 1) >= 0
    BY <1>1, <2>1
  <2>3. M * (d - q - 1) = -(M * (q - d)) - M
    BY <1>1
  <2>. QED BY <1>1, <1>2, <2>2, <2>3
<1>5. q = d
  BY <1>1, <1>3, <1>4
<1>6. r = m
  BY <1>1, <1>2, <1>5
<1>. QED BY <1>5, <1>6 DEF d, m, x

\* The division theorem, for the divisors in use.
LEMMA Divide ==
  ASSUME NEW M \in Nat \ {0}, NEW x \in Int
  PROVE  /\ x \div M \in Int /\ x % M \in 0 .. M - 1
         /\ x = M * (x \div M) + (x % M)
OBVIOUS

\* Lane b of word a is one bit of the line, and no other lane is that bit.
LEMMA LineOfLane ==
  ASSUME NEW a \in WordAddr, NEW b \in Lanes
  PROVE  /\ a * W + b \in 0 .. NWords * W - 1
         /\ (a * W + b) \div W = a /\ (a * W + b) % W = b
<1>1. a \in Int /\ b \in 0 .. W - 1 /\ W \in Nat \ {0} /\ NWords \in Nat
  BY GeometryAssumption DEF WordAddr, Lanes
<1>2. W * (NWords - 1 - a) >= 0 /\ a * W >= 0
  BY <1>1 DEF WordAddr
<1>3. W * (NWords - 1 - a) = NWords * W - W - a * W
  BY <1>1
<1>4. a * W + b \in 0 .. NWords * W - 1
  BY <1>1, <1>2, <1>3
<1>. QED BY <1>1, <1>4, DivideOnce

\* Every bit of the line is a lane of a word.
LEMMA LaneOfLine ==
  ASSUME NEW p \in 0 .. NWords * W - 1
  PROVE  /\ p \div W \in WordAddr /\ p % W \in Lanes
         /\ p = (p \div W) * W + (p % W)
<1>1. W \in Nat \ {0} /\ NWords \in Nat \ {0} /\ p \in Nat
  BY GeometryAssumption
<1>. DEFINE d == p \div W
            m == p % W
<1>2. d \in Int /\ m \in 0 .. W - 1 /\ p = W * d + m
  BY <1>1, Divide
<1>3. W * d = d * W
  BY <1>1, <1>2
<1>. HIDE DEF d, m
<1>4. d >= 0
  <2>1. SUFFICES ASSUME d <= -1 PROVE FALSE
    BY <1>2
  <2>2. W * (-1 - d) >= 0
    BY <1>1, <1>2, <2>1
  <2>3. W * (-1 - d) = -W - W * d
    BY <1>1, <1>2
  <2>. QED BY <1>1, <1>2, <2>2, <2>3
<1>5. d < NWords
  <2>1. SUFFICES ASSUME d >= NWords PROVE FALSE
    BY <1>1, <1>2
  <2>2. W * (d - NWords) >= 0
    BY <1>1, <1>2, <2>1
  <2>3. W * (d - NWords) = W * d - NWords * W
    BY <1>1, <1>2
  <2>4. p < NWords * W
    BY <1>1
  <2>. QED BY <1>1, <1>2, <2>2, <2>3, <2>4
<1>6. p = d * W + m
  BY <1>2, <1>3
<1>. QED BY <1>1, <1>2, <1>4, <1>5, <1>6 DEF d, m, WordAddr, Lanes

\* The line address of a field's first bit names its word and its lane.
LEMMA StartOfField ==
  ASSUME NEW f \in Field
  PROVE  /\ f.addr * W + f.off \in 0 .. NWords * W - 1
         /\ (f.addr * W + f.off) % W = f.off
BY LineOfLane DEF Field

\* Bits are counted on from a word's first bit, around the end of memory.
LEMMA WrapAround ==
  ASSUME NEW a \in Nat, NEW k \in Nat, NEW b \in Lanes
  PROVE  (a * W + (W * k + b)) % (NWords * W) = ((a + k) % NWords) * W + b
<1>. DEFINE A == (a + k) % NWords
            q == (a + k) \div NWords
<1>1. W \in Nat \ {0} /\ NWords \in Nat \ {0} /\ b \in Nat
  BY GeometryAssumption DEF Lanes
<1>2. A \in WordAddr /\ A \in Int /\ q \in Int /\ a + k = NWords * q + A
  BY <1>1, Divide DEF WordAddr
<1>. HIDE DEF A, q
<1>3. a * W + (W * k + b) = (a + k) * W + b
  BY <1>1
<1>4. (a + k) * W = q * (NWords * W) + A * W
  <2>1. (a + k) * W = (NWords * q + A) * W
    BY <1>2
  <2>. QED BY <1>1, <1>2, <2>1
<1>5. A * W + b \in 0 .. NWords * W - 1
  BY <1>2, LineOfLane
<1>6. NWords * W \in Nat \ {0} /\ A * W \in Int
  BY <1>1, <1>2
<1>7. a * W + (W * k + b) = q * (NWords * W) + (A * W + b)
  <2>1. (a + k) * W \in Int /\ q * (NWords * W) \in Int
    BY <1>1, <1>2, <1>6
  <2>. QED BY <1>1, <1>3, <1>4, <1>6, <2>1
<1>8. (q * (NWords * W) + (A * W + b)) % (NWords * W) = A * W + b
  BY <1>2, <1>5, <1>6, DivideOnce
<1>. QED BY <1>7, <1>8 DEF A

\* Bit i of a field lies in lane (off + i) % W of word (off + i) \div W of the
\* window: the place the line gives it, wrapping at the end of memory, is
\* where the bus finds it.
LEMMA PlaceOfBit ==
  ASSUME NEW f \in Field, ValidSize(f.size), NEW i \in 0 .. f.size - 1
  PROVE  LET k == (f.off + i) \div W
             b == (f.off + i) % W
         IN  /\ k \in 0 .. 2 /\ b \in Lanes
             /\ i \in FieldBits
             /\ FieldBit(f, k, b) = i
             /\ ((f.addr * W + f.off) + i) % (NWords * W) = NthWord(f, k) * W + b
<1>. DEFINE x == f.off + i
            k == x \div W
            b == x % W
<1>1. W \in Nat \ {0} /\ f.addr \in Nat /\ f.off \in Nat /\ f.off < W
  BY GeometryAssumption DEF Field, WordAddr, Lanes
<1>2. i \in FieldBits /\ i \in Nat /\ x \in 0 .. 3 * W - 1
  BY <1>1 DEF ValidSize, FieldBits
<1>3. k \in 0 .. 2 /\ b \in Lanes
  BY <1>2, BitInWindow
<1>4. x = W * k + b
  <2>1. x \in Int
    BY <1>2
  <2>2. \A y \in Int : y = W * (y \div W) + (y % W)
    BY <1>1, Divide
  <2>. QED BY <2>1, <2>2
<1>5. (f.addr * W + f.off) + i = f.addr * W + x
  <2>1. f.addr * W \in Int
    BY <1>1
  <2>. QED BY <1>1, <1>2, <2>1
<1>6. W * k = k * W /\ k * W \in Int /\ b \in Int
  BY <1>1, <1>3 DEF Lanes
<1>. HIDE DEF k, b
<1>7. FieldBit(f, k, b) = i
  BY <1>1, <1>2, <1>4, <1>6 DEF FieldBit
<1>8. (f.addr * W + (W * k + b)) % (NWords * W) = NthWord(f, k) * W + b
  <2>1. k \in Nat
    BY <1>3
  <2>2. (f.addr * W + (W * k + b)) % (NWords * W) = ((f.addr + k) % NWords) * W + b
    BY <1>1, <1>3, <2>1, WrapAround, Zenon
  <2>. QED BY <2>2 DEF NthWord
<1>9. ((f.addr * W + f.off) + i) % (NWords * W) = NthWord(f, k) * W + b
  BY <1>4, <1>5, <1>8
<1>. QED BY <1>2, <1>3, <1>7, <1>9 DEF k, b

\* The last bit of a field lies in the window's last word.
LEMMA LastBit ==
  ASSUME NEW f \in Field, ValidSize(f.size)
  PROVE  (f.off + (f.size - 1)) \div W = LastWord(f)
<1>1. W \in Nat \ {0} /\ f.off \in 0 .. W - 1 /\ f.size \in 1 .. 2 * W
  BY GeometryAssumption DEF Field, Lanes, ValidSize
<1>2. \A x \in 0 .. 3 * W - 1 :
        x \div W = IF x < W THEN 0 ELSE IF x < 2 * W THEN 1 ELSE 2
  <2>1. SUFFICES ASSUME NEW x \in 0 .. 3 * W - 1, NEW q \in 0 .. 2,
                        q * W <= x, x < q * W + W
                 PROVE  x \div W = q
    BY <1>1
  <2>2. x - q * W \in 0 .. W - 1 /\ x = q * W + (x - q * W)
    BY <1>1, <2>1
  <2>3. q \in Int
    OBVIOUS
  <2>4. (q * W + (x - q * W)) \div W = q
    BY <1>1, <2>2, <2>3, DivideOnce, Zenon
  <2>. QED BY <2>2, <2>4
<1>. DEFINE x == f.off + (f.size - 1)
<1>3. x \in 0 .. 3 * W - 1 /\ x + 1 = f.off + f.size
  BY <1>1
<1>4. x \div W = IF x < W THEN 0 ELSE IF x < 2 * W THEN 1 ELSE 2
  BY <1>2, <1>3
<1>. QED BY <1>1, <1>3, <1>4 DEF LastWord

\* No bit of a field lies beyond its last word.
LEMMA WordsInOrder ==
  ASSUME NEW f \in Field, ValidSize(f.size), NEW i \in 0 .. f.size - 1
  PROVE  (f.off + i) \div W <= LastWord(f)
<1>. DEFINE x == f.off + i
            y == f.off + (f.size - 1)
<1>1. W \in Nat \ {0} /\ x \in Int /\ y \in Int /\ x <= y
  BY GeometryAssumption DEF Field, Lanes, ValidSize
<1>2. /\ x = W * (x \div W) + (x % W) /\ x % W \in 0 .. W - 1 /\ x \div W \in Int
      /\ y = W * (y \div W) + (y % W) /\ y % W \in 0 .. W - 1 /\ y \div W \in Int
  <2>. HIDE DEF x, y
  <2>. QED BY <1>1, Divide
<1>. DEFINE p == x \div W
            q == y \div W
            r == x % W
            s == y % W
<1>3. p <= q
  <2>. HIDE DEF x, y
  <2>1. SUFFICES ASSUME p > q PROVE FALSE
    BY <1>2
  <2>. HIDE DEF p, q, r, s
  <2>2. p \in Int /\ q \in Int /\ r \in 0 .. W - 1 /\ s \in 0 .. W - 1
        /\ x = W * p + r /\ y = W * q + s
    BY <1>2 DEF p, q, r, s
  <2>3. W * (p - q - 1) >= 0
    BY <1>1, <2>1, <2>2
  <2>4. W * (p - q - 1) = W * p - W * q - W
    BY <1>1, <2>2
  <2>. QED BY <1>1, <2>2, <2>3, <2>4
<1>. QED BY <1>3, LastBit

\* Words of a window are counted from 0.
LEMMA WordFromZero ==
  ASSUME NEW off \in Lanes, NEW i \in FieldBits
  PROVE  (off + i) \div W \in Int /\ (off + i) \div W >= 0
<1>1. off + i \in 0 .. 3 * W - 1
  BY GeometryAssumption DEF Lanes, FieldBits
<1>. QED BY <1>1, BitInWindow

-----------------------------------------------------------------------------
(* The inductive invariant. *)

\* The word index stays inside the window of a legal field.
WindowBound ==
    seq \notin {"IDLE", "RESPONSE"} =>
        ValidSize(field.size) /\ windex <= LastWord(field)

\* An event is captured together with the row it names.
PendingRow == dramPending => dramRow \in Rows

\* The clock in which the I/O data is sampled comes before the CPU's cycle.
SampleBeforeCycle == ioSample => arb # "CPU"

FabricInv ==
    /\ TypeOK /\ WindowBound /\ Reservation
    /\ AnswerMatchesRequest /\ LateDataInTime
    /\ PendingRow /\ RefreshHasEvent /\ SampleBeforeCycle

Inv == FabricInv /\ MergeIsFresh

-----------------------------------------------------------------------------
(* Wires. *)

\* The reset value of the request register is a request.
LEMMA NullTypes == NoField \in Field /\ NullRequest \in CoreRequest
BY GeometryAssumption, ZeroTypes
   DEF NoField, NullRequest, Field, CoreRequest, WordAddr, Lanes

\* What the request register takes from the core is a request, late data or not.
LEMMA RequestTypes ==
  \A r \in CoreRequests : r \in CoreRequest /\ AsPresented(r) \in CoreRequest
<1>1. CoreRequests \subseteq CoreRequest
  BY FabricAssumption
<1>. QED BY <1>1, ZeroTypes DEF AsPresented, CoreRequest, Field

\* The late-data bypass yields a field.
LEMMA ReqFieldType == TypeOK => ReqField \in Field
BY DEF TypeOK, ReqField, CoreRequest, Field

\* The host port presents requests of the declared form.
LEMMA HostTypes == \A r \in HostRequests : r \in HostRequest
BY FabricAssumption

\* What the wires carry in each kind of cycle.
LEMMA CommandOfCpu ==
  arb = "CPU" /\ ~req.io =>
     /\ Command.kind = IF CpuWe THEN "WORD_WRITE" ELSE "WORD_READ"
     /\ Command.addr = WordAddress
     /\ Command.wdata = WordWdata
BY DEF Command, CpuAddr, CpuWdata

\* What a host cycle puts on the controller's command pins.
LEMMA CommandOfHost ==
  arb = "HOST" => /\ Command.addr = host.addr
                  /\ Command.wdata = host.data
                  /\ Command.kind = IF host.io THEN (IF host.we THEN "IO_WRITE" ELSE "IO_READ")
                                    ELSE IF host.we THEN "WORD_WRITE" ELSE "WORD_READ"
BY DEF Command

\* Memory is written in two ways only: a host write and a CPU word write.
LEMMA WriteCycles ==
  WriteCycle => \/ arb = "HOST"
                \/ arb = "CPU" /\ ~req.io /\ CpuWe
BY DEF WriteCycle, CycleReq, Masters, Command

\* The wires between the blocks carry words, addresses and fields.
LEMMA WireTypes ==
  FabricInv => /\ WordAddress \in WordAddr
               /\ WordWdata \in Word
               /\ ReadData \in Word
               /\ WriteCycle => Command.addr \in WordAddr /\ Command.wdata \in Word
               /\ CycleReq /\ Command.kind = "WORD_READ" => Command.addr \in WordAddr
<1> SUFFICES ASSUME FabricInv
             PROVE  /\ WordAddress \in WordAddr
                    /\ WordWdata \in Word
                    /\ ReadData \in Word
                    /\ WriteCycle => Command.addr \in WordAddr /\ Command.wdata \in Word
                    /\ CycleReq /\ Command.kind = "WORD_READ" => Command.addr \in WordAddr
  OBVIOUS
<1>. USE DEF FabricInv, TypeOK, SeqTypeOK
<1>1. WordAddress \in WordAddr
  BY NthWordRange DEF WordAddress
<1>2. WordWdata \in Word
  BY MergeType DEF WordWdata
<1>3. arb = "HOST" => host.addr \in WordAddr /\ host.data \in Word
  BY HostTypes DEF Reservation, HostRequest
<1>4. WriteCycle => Command.addr \in WordAddr /\ Command.wdata \in Word
  BY <1>1, <1>2, <1>3, WriteCycles, CommandOfCpu, CommandOfHost
<1>5. CycleReq /\ Command.kind = "WORD_READ" => Command.addr \in WordAddr
  <2>1. CASE arb = "CPU"
    <3>1. CASE req.io
      BY <2>1, <3>1 DEF Command
    <3>2. CASE ~req.io
      BY <2>1, <3>2, <1>1, CommandOfCpu
    <3>. QED BY <3>1, <3>2
  <2>2. CASE arb = "HOST"
    BY <2>2, <1>3, CommandOfHost
  <2>3. CASE arb \in {"DRAM", "SCREEN"}
    BY <2>3 DEF Command
  <2>. QED BY <2>1, <2>2, <2>3 DEF CycleReq, Masters
<1>6. ReadData \in Word
  BY <1>5, ZeroTypes DEF ReadData
<1>. QED BY <1>1, <1>2, <1>4, <1>5, <1>6

-----------------------------------------------------------------------------
(* One clock edge, component by component: types. *)

\* Reset establishes the inductive invariant.
LEMMA InitInv == Init => Inv
<1> SUFFICES ASSUME Init PROVE Inv
  OBVIOUS
<1>. USE DEF Init, ArbInit, SeqInit
<1>1. ArbTypeOK
  BY DEF ArbTypeOK, ArbStates, Masters
<1>2. SeqTypeOK
  BY NullTypes, ZeroTypes DEF SeqTypeOK, SeqStates
<1>3. mem \in [WordAddr -> Word]
  BY ZeroTypes
<1>4. req \in CoreRequest /\ lateField \in Field /\ ioRdata \in Bit
  BY NullTypes DEF Bit
<1>5. TypeOK
  BY <1>1, <1>2, <1>3, <1>4 DEF TypeOK
<1>6. WindowBound /\ Reservation /\ MergeIsFresh
  BY DEF WindowBound, Reservation, MergeIsFresh, MergePending
<1>7. /\ AnswerMatchesRequest /\ LateDataInTime
      /\ PendingRow /\ RefreshHasEvent /\ SampleBeforeCycle
  BY DEF AnswerMatchesRequest, LateDataInTime, PendingRow, RefreshHasEvent, SampleBeforeCycle
<1>. QED BY <1>5, <1>6, <1>7 DEF Inv, FabricInv

\* A clock edge keeps the arbiter's registers in their range.
LEMMA ArbiterTypes ==
  ASSUME FabricInv, NEW ack \in BOOLEAN, NEW refresh \in Rows \cup {NoRow},
         NEW ioLive \in IoValues,
         ArbiterClock(ArbPins(ack, refresh, ioLive))
  PROVE  ArbTypeOK'
<1>. DEFINE in == ArbPins(ack, refresh, ioLive)
<1>1. /\ in.refresh = refresh /\ in.hostIoRdata = ioLive /\ in.ack = ack
      /\ in.lock = CpuLock
  BY DEF ArbPins
<1>2. ioLive \in {0, 1}
  BY FabricAssumption DEF Bit
<1>3. CpuLock \in BOOLEAN
  BY DEF CpuLock
<1>. HIDE DEF in
<1>. USE DEF FabricInv, TypeOK, ArbTypeOK, ArbStates, Masters
<1>4. arb' \in ArbStates /\ rmwActive' \in BOOLEAN /\ hostIoRdata' \in {0, 1}
  <2>0. Arbitrate(in)
    BY DEF ArbiterClock, in
  <2>1. CASE GrantHold(in)      BY <2>1 DEF GrantHold
  <2>2. CASE GrantReserved(in)  BY <2>2 DEF GrantReserved
  <2>3. CASE GrantScreen(in)    BY <2>3 DEF GrantScreen
  <2>4. CASE GrantDram(in)      BY <2>4 DEF GrantDram
  <2>5. CASE GrantHost(in)      BY <2>5, <1>1, <1>2 DEF GrantHost
  <2>6. CASE GrantCpu(in)       BY <2>6, <1>1, <1>3 DEF GrantCpu
  <2>7. CASE NothingToDo(in)    BY <2>7 DEF NothingToDo
  <2>8. CASE KeepHold(in)       BY <2>8 DEF KeepHold
  <2>9. CASE EndHold(in)        BY <2>9 DEF EndHold
  <2>10. CASE CycleRuns(in)     BY <2>10 DEF CycleRuns
  <2>11. CASE EndCycle(in)      BY <2>11 DEF EndCycle
  <2>. QED BY <2>0, <2>1, <2>2, <2>3, <2>4, <2>5, <2>6, <2>7, <2>8, <2>9,
              <2>10, <2>11 DEF Arbitrate
<1>5. dramPending' \in BOOLEAN /\ dramRow' \in Rows \cup {NoRow}
  BY <1>1 DEF ArbiterClock, RefreshCapture, in
<1>. QED BY <1>4, <1>5

\* A clock edge keeps the sequencer's registers in their range, and its word
\* index inside the field's window.
LEMMA SequencerTypes ==
  ASSUME FabricInv, NEW ack \in BOOLEAN, NEW rdata \in Word, SequencerClock(SeqPins(ack, rdata))
  PROVE  SeqTypeOK' /\ WindowBound'
<1>. DEFINE in == SeqPins(ack, rdata)
<1>1. in.field \in Field /\ in.rdata \in Word
  BY ReqFieldType, WireTypes DEF SeqPins, FabricInv
<1>. HIDE DEF in
<1>. USE DEF FabricInv, TypeOK, SeqTypeOK, WindowBound, SeqStates
<1>2. LastWord(field) \in 0 .. 2
  BY LastWordRange
<1>0. SequencerClock(in)
  BY DEF in
<1>3. CASE SeqIdle(in)      BY <1>3 DEF SeqIdle, seqVars
<1>4. CASE TakeField(in)
  <2>1. field' \in Field /\ field'.size = in.field.size
    BY <1>1, <1>4 DEF TakeField, Field
  <2>2. LastWord(field') \in 0 .. 2
    BY <2>1, LastWordRange
  <2>3. window' \in [0 .. 2 -> Word] /\ frdata' \in FieldData /\ windex' = 0
    BY <1>4, ZeroTypes DEF TakeField
  <2>4. seq' \in SeqStates /\ rmwWord' \in Word
    BY <1>4 DEF TakeField
  <2>5. seq' \notin {"IDLE", "RESPONSE"} => ValidSize(field'.size)
    BY <1>4, <2>1 DEF TakeField
  <2>. QED BY <2>1, <2>2, <2>3, <2>4, <2>5
<1>5. CASE ReadWord(in)
  <2>1. window' \in [0 .. 2 -> Word]
    BY <1>1, <1>5 DEF ReadWord
  <2>2. Justify(window', field) \in FieldData
    BY <1>5, <2>1, JustifyType DEF ReadWord
  <2>3. frdata' \in FieldData
    BY <1>5, <2>2 DEF ReadWord
  <2>4. windex' \in 0 .. 2 /\ seq' \in SeqStates
    BY <1>2, <1>5 DEF ReadWord, AtLast
  <2>5. WindowBound'
    BY <1>2, <1>5 DEF ReadWord, AtLast
  <2>. QED BY <1>5, <2>1, <2>3, <2>4, <2>5 DEF ReadWord
<1>6. CASE SelectWrite(in)  BY <1>6 DEF SelectWrite
<1>7. CASE ReadOldWord(in)  BY <1>1, <1>7 DEF ReadOldWord
<1>8. CASE Reread(in)       BY <1>8 DEF Reread
<1>9. CASE WriteWord(in)    BY <1>2, <1>9 DEF WriteWord, AtLast
<1>10. CASE SeqWait(in)     BY <1>10 DEF SeqWait, seqVars
<1>11. CASE Respond(in)     BY <1>11 DEF Respond
<1>. QED BY <1>0, <1>3, <1>4, <1>5, <1>6, <1>7, <1>8, <1>9, <1>10, <1>11
         DEF SequencerClock

\* The request register and the memory.
LEMMA RequestTypesStep ==
  ASSUME FabricInv, NEW ack \in BOOLEAN, NEW ioLive \in IoValues,
         RequestRegister(ack, ioLive)
  PROVE  /\ active' \in BOOLEAN /\ posted' \in BOOLEAN /\ late' \in BOOLEAN
         /\ req' \in CoreRequest
         /\ lateField' \in Field
         /\ ioSample' \in BOOLEAN
         /\ ioRdata' \in Bit
<1>. USE DEF FabricInv, TypeOK
<1>1. ioSample' \in BOOLEAN /\ ioRdata' \in Bit
  BY FabricAssumption DEF RequestRegister, IoSampling, Capture
<1>2. CASE TakeRequest(ack, ioLive)
  <2>1. core \in CoreRequests
    BY <1>2 DEF TakeRequest, Capture
  <2>2. core.field \in Field /\ core.we \in BOOLEAN /\ core.late \in BOOLEAN
    BY <2>1, RequestTypes DEF CoreRequest
  <2>3. req' \in CoreRequest /\ lateField' \in Field
    BY <1>2, <2>1, <2>2, RequestTypes DEF TakeRequest
  <2>. QED BY <1>1, <1>2, <2>2, <2>3 DEF TakeRequest, Posts
<1>3. CASE ServeRequest(ack, ioLive)
  <2>1. req' \in CoreRequest
    BY <1>3, ReqFieldType DEF ServeRequest, CoreRequest
  <2>2. active' \in BOOLEAN
    BY <1>3 DEF ServeRequest, RequestDone
  <2>. QED BY <1>1, <1>3, <2>1, <2>2 DEF ServeRequest
<1>4. CASE NoRequest(ack, ioLive)
  BY <1>1, <1>4 DEF NoRequest
<1>. QED BY <1>2, <1>3, <1>4 DEF RequestRegister

\* A clock edge keeps every register of the fabric in its range.
LEMMA FabricTypes ==
  ASSUME FabricInv, NEW ack \in BOOLEAN, ack => CycleReq, NEW rdata \in Word,
         NEW refresh \in Rows \cup {NoRow},
         NEW ioLive \in IoValues, FabricClock(ack, rdata, refresh, ioLive),
         hold' \in BOOLEAN, mem' \in [WordAddr -> Word]
  PROVE  TypeOK' /\ WindowBound'
<1>1. ArbTypeOK'
  BY ArbiterTypes DEF FabricClock
<1>2. SeqTypeOK' /\ WindowBound'
  BY SequencerTypes DEF FabricClock
<1>3. core' \in CoreRequests \cup {NoReq}
  BY DEF FabricClock, CoreClient, FabricInv, TypeOK
<1>4. host' \in HostRequests \cup {NoReq}
  BY DEF FabricClock, HostClient, FabricInv, TypeOK
<1>5. screen' \in BOOLEAN
  BY FabricAssumption DEF FabricClock, ScreenClient, FabricInv, TypeOK
<1>6. /\ active' \in BOOLEAN /\ posted' \in BOOLEAN /\ late' \in BOOLEAN
      /\ req' \in CoreRequest /\ lateField' \in Field
      /\ ioSample' \in BOOLEAN /\ ioRdata' \in Bit
  BY RequestTypesStep DEF FabricClock
<1>. QED BY <1>1, <1>2, <1>3, <1>4, <1>5, <1>6 DEF TypeOK

-----------------------------------------------------------------------------
(* One clock edge: what each block can do. *)

\* What the sequencer can do, in terms of the fabric's wires.
LEMMA SequencerMoves ==
  ASSUME FabricInv, NEW ack \in BOOLEAN, NEW rdata \in Word, SequencerClock(SeqPins(ack, rdata))
  PROVE  /\ seq = "IDLE" /\ seq' # "IDLE" => active /\ ~req.io
         /\ seq = "IDLE" => seq' \in {"IDLE", "RESPONSE", "WRITE_SELECT", "READ_WORD"}
         /\ seq = "RESPONSE" => seq' = "IDLE"
         /\ seq = "READ_WORD" /\ ~CpuAck(ack) => seq' = "READ_WORD"
         /\ seq = "READ_WORD" => seq' \in {"READ_WORD", "RESPONSE"}
         /\ seq = "WRITE_SELECT" =>
               seq' = IF NeedsRead(field, windex) THEN "WRITE_READ" ELSE "WRITE_WORD"
         /\ seq = "WRITE_READ" =>
               IF CpuAck(ack) THEN seq' = "WRITE_WORD" /\ rmwWord' = rdata
                              ELSE seq' = "WRITE_READ"
         /\ seq = "WRITE_WORD" =>
               IF Restart(hold) /\ NeedsRead(field, windex) THEN seq' = "WRITE_READ"
               ELSE IF CpuAck(ack) THEN seq' \in {"RESPONSE", "WRITE_SELECT"}
               ELSE seq' = "WRITE_WORD" /\ rmwWord' = rmwWord
         /\ seq' \in {"WRITE_READ", "WRITE_WORD"} => field' = field /\ windex' = windex
<1>. DEFINE in == SeqPins(ack, rdata)
<1>1. /\ in.req = (active /\ ~req.io) /\ in.ack = CpuAck(ack)
      /\ in.rdata = rdata /\ in.restart = Restart(hold)
  BY DEF SeqPins
<1>2. active \in BOOLEAN /\ Restart(hold) \in BOOLEAN /\ CpuAck(ack) \in BOOLEAN
  BY DEF FabricInv, TypeOK, Restart, CpuAck
<1>3. SequencerClock(in)
  OBVIOUS
<1>. HIDE DEF in
<1>4. CASE SeqIdle(in)      BY <1>1, <1>4 DEF SeqIdle, seqVars
<1>5. CASE TakeField(in)    BY <1>1, <1>2, <1>5 DEF TakeField
<1>6. CASE ReadWord(in)     BY <1>1, <1>6 DEF ReadWord
<1>7. CASE SelectWrite(in)  BY <1>1, <1>7 DEF SelectWrite
<1>8. CASE ReadOldWord(in)  BY <1>1, <1>8 DEF ReadOldWord
<1>9. CASE Reread(in)       BY <1>1, <1>9 DEF Reread
<1>10. CASE WriteWord(in)   BY <1>1, <1>10 DEF WriteWord, WordWe
<1>11. CASE SeqWait(in)     BY <1>1, <1>11 DEF SeqWait, seqVars, WordWe
<1>12. CASE Respond(in)     BY <1>1, <1>12 DEF Respond
<1>. QED BY <1>3, <1>4, <1>5, <1>6, <1>7, <1>8, <1>9, <1>10, <1>11, <1>12
         DEF SequencerClock

\* A request stays what it is until it is done.
LEMMA RequestStays ==
  ASSUME FabricInv, NEW ack \in BOOLEAN, NEW ioLive \in IoValues,
         RequestRegister(ack, ioLive), active, ~RequestDone(ack)
  PROVE  active' /\ req'.io = req.io
<1>1. ~Capture(ack)
  BY DEF Capture
<1>2. ServeRequest(ack, ioLive)
  BY <1>1 DEF RequestRegister, TakeRequest, NoRequest
<1>. QED BY <1>2 DEF ServeRequest, FabricInv, TypeOK, CoreRequest

\* What the arbiter can do, in terms of the fabric's wires.
LEMMA ArbiterMoves ==
  ASSUME FabricInv, NEW ack \in BOOLEAN, NEW refresh \in Rows \cup {NoRow},
         NEW ioLive \in IoValues, ArbiterClock(ArbPins(ack, refresh, ioLive))
  PROVE  /\ arb = "IDLE" /\ hold => arb' = "HOLD" /\ rmwActive' = FALSE
         /\ arb = "IDLE" /\ ~hold /\ rmwActive => arb' = "CPU" /\ rmwActive' = TRUE
         /\ arb = "IDLE" /\ ~hold /\ ~rmwActive /\ arb' = "CPU" =>
               CpuReq /\ rmwActive' = CpuLock
         /\ arb = "IDLE" /\ ~hold /\ ~rmwActive /\ arb' # "CPU" => rmwActive' = FALSE
         /\ arb = "IDLE" /\ arb' = "HOST" => host # NoReq
         /\ arb = "HOLD" => arb' \in {"HOLD", "IDLE"} /\ rmwActive' = rmwActive
         /\ arb \in Masters => IF ack THEN /\ arb' = "IDLE"
                                           /\ rmwActive' = (rmwActive /\ ~(arb = "CPU" /\ CpuWe))
                               ELSE arb' = arb /\ rmwActive' = rmwActive
<1>. DEFINE in == ArbPins(ack, refresh, ioLive)
<1>1. /\ in.hold = hold /\ in.host = (host # NoReq) /\ in.cpu = CpuReq
      /\ in.we = CpuWe /\ in.lock = CpuLock /\ in.ack = ack
  BY DEF ArbPins
<1>2. Arbitrate(in)
  BY DEF ArbiterClock
<1>3. rmwActive \in BOOLEAN
  BY DEF FabricInv, TypeOK, ArbTypeOK
<1>. HIDE DEF in
<1>. USE DEF Masters, Free
<1>4. CASE GrantHold(in)      BY <1>1, <1>4 DEF GrantHold
<1>5. CASE GrantReserved(in)  BY <1>1, <1>3, <1>5 DEF GrantReserved
<1>6. CASE GrantScreen(in)    BY <1>1, <1>3, <1>6 DEF GrantScreen
<1>7. CASE GrantDram(in)      BY <1>1, <1>3, <1>7 DEF GrantDram
<1>8. CASE GrantHost(in)      BY <1>1, <1>3, <1>8 DEF GrantHost
<1>9. CASE GrantCpu(in)       BY <1>1, <1>3, <1>9 DEF GrantCpu
<1>10. CASE NothingToDo(in)   BY <1>1, <1>3, <1>10 DEF NothingToDo
<1>11. CASE KeepHold(in)      BY <1>1, <1>11 DEF KeepHold
<1>12. CASE EndHold(in)       BY <1>1, <1>12 DEF EndHold
<1>13. CASE CycleRuns(in)     BY <1>1, <1>13 DEF CycleRuns
<1>14. CASE EndCycle(in)      BY <1>1, <1>14 DEF EndCycle
<1>. QED BY <1>2, <1>4, <1>5, <1>6, <1>7, <1>8, <1>9, <1>10, <1>11, <1>12,
            <1>13, <1>14 DEF Arbitrate

\* A clock edge keeps the arbiter's reservation and the sequencer in agreement.
LEMMA ReservationStep ==
  ASSUME FabricInv, NEW ack \in BOOLEAN, ack => CycleReq, NEW rdata \in Word,
         NEW refresh \in Rows \cup {NoRow},
         NEW ioLive \in IoValues, FabricClock(ack, rdata, refresh, ioLive)
  PROVE  Reservation'
<1>1. ack => arb \in Masters
  BY DEF FabricClock, CycleReq
<1>2. arb \in ArbStates /\ seq \in SeqStates /\ rmwActive \in BOOLEAN
  BY DEF FabricInv, TypeOK, ArbTypeOK, SeqTypeOK
<1>3. Reservation
  BY DEF FabricInv
<1>4. SequencerClock(SeqPins(ack, rdata)) /\ RequestRegister(ack, ioLive)
  BY DEF FabricClock
<1>. DEFINE Seqs == {"WRITE_READ", "WRITE_WORD"}
<1>5. CpuWe <=> IF req.io THEN req.we
                ELSE seq = "WRITE_WORD" /\ ~(Restart(hold) /\ NeedsRead(field, windex))
  <2>1. req.we \in BOOLEAN /\ req.io \in BOOLEAN
    BY DEF FabricInv, TypeOK, CoreRequest
  <2>. QED BY <2>1 DEF CpuWe, WordWe
<1>6. CpuReq <=> IF req.io THEN active
                 ELSE \/ seq \in {"READ_WORD", "WRITE_READ"}
                      \/ seq = "WRITE_WORD" /\ ~(Restart(hold) /\ NeedsRead(field, windex))
  BY DEF CpuReq, WordReq, FabricInv, TypeOK, CoreRequest
<1>7. arb # "IDLE" \/ ~rmwActive \/ ~hold => ~Restart(hold)
  BY DEF Restart
<1>8. seq # "IDLE" => active /\ ~req.io
  BY <1>3 DEF Reservation
<1>9. NeedsRead(field, windex)' \in BOOLEAN /\ NeedsRead(field, windex) \in BOOLEAN
  BY DEF NeedsRead, FabricInv, TypeOK, SeqTypeOK, Field, TypeOK
<1>10. seq' # "IDLE" => active' /\ ~req'.io
  <2>1. CASE seq \notin {"RESPONSE"} /\ seq' # "IDLE"
    <3>1. active /\ ~req.io
      BY <1>4, <1>8, <2>1, SequencerMoves
    <3>2. ~RequestDone(ack)
      BY <2>1, <3>1 DEF RequestDone
    <3>. QED BY <1>4, <3>1, <3>2, RequestStays
  <2>2. CASE seq = "RESPONSE"
    BY <1>4, <2>2, SequencerMoves
  <2>. QED BY <2>1, <2>2
<1>11. MergePending' => rmwActive'
  <2>1. SUFFICES ASSUME seq' = "WRITE_WORD", NeedsRead(field', windex')
                 PROVE  rmwActive'
    BY DEF MergePending, NeedsRead
  <2>2. NeedsRead(field, windex)
    BY <1>4, <2>1, SequencerMoves
  <2>3. \/ seq = "WRITE_READ" /\ CpuAck(ack)
        \/ seq = "WRITE_WORD" /\ ~CpuAck(ack) /\ ~Restart(hold)
    BY <1>2, <1>4, <2>1, <2>2, SequencerMoves DEF SeqStates
  <2>4. rmwActive /\ arb \in {"IDLE", "CPU"}
    BY <1>3, <2>2, <2>3 DEF Reservation, MergePending, CpuAck
  <2>5. CASE seq = "WRITE_READ" /\ CpuAck(ack)
    BY <1>5, <1>8, <2>4, <2>5, ArbiterMoves DEF FabricClock, CpuAck, Masters
  <2>6. CASE seq = "WRITE_WORD" /\ ~CpuAck(ack) /\ ~Restart(hold)
    BY <1>1, <2>4, <2>6, ArbiterMoves DEF FabricClock, CpuAck, Restart, Masters
  <2>. QED BY <2>3, <2>5, <2>6
<1>12. rmwActive' => arb' \in {"IDLE", "CPU"} /\ seq' \in Seqs /\ NeedsRead(field, windex)'
  <2>1. SUFFICES ASSUME rmwActive'
                 PROVE  arb' \in {"IDLE", "CPU"} /\ seq' \in Seqs
                        /\ NeedsRead(field', windex')
    BY DEF NeedsRead
  <2>2. CASE rmwActive
    <3>1. arb \in {"IDLE", "CPU"} /\ seq \in Seqs /\ NeedsRead(field, windex)
      BY <1>3, <2>2 DEF Reservation
    <3>2. ~Restart(hold)
      BY <2>1, <2>2, ArbiterMoves DEF FabricClock, Restart
    <3>3. ~(seq = "WRITE_WORD" /\ CpuAck(ack))
      BY <1>5, <1>8, <2>1, <2>2, <3>2, ArbiterMoves DEF FabricClock, CpuAck, Masters
    <3>4. seq' \in Seqs
      BY <1>4, <3>1, <3>2, <3>3, SequencerMoves
    <3>5. field' = field /\ windex' = windex
      BY <1>4, <3>4, SequencerMoves
    <3>6. arb' \in {"IDLE", "CPU"}
      BY <1>1, <2>1, <2>2, <3>1, ArbiterMoves DEF FabricClock, Masters
    <3>. QED BY <3>1, <3>4, <3>5, <3>6
  <2>3. CASE ~rmwActive
    <3>1. arb = "IDLE" /\ ~hold /\ arb' = "CPU" /\ CpuReq /\ CpuLock
      BY <1>2, <2>1, <2>3, ArbiterMoves DEF FabricClock, ArbStates, Masters
    <3>2. ~CpuAck(ack) /\ ~Restart(hold)
      BY <3>1 DEF CpuAck, Restart
    <3>3. \/ seq = "WRITE_READ"
          \/ seq = "WRITE_WORD" /\ NeedsRead(field, windex)
      BY <3>1, <3>2 DEF CpuLock, WordLock, WordWe
    <3>4. seq = "WRITE_READ"
      BY <1>3, <2>3, <3>3 DEF Reservation, MergePending
    <3>5. seq' = "WRITE_READ" /\ field' = field /\ windex' = windex
      BY <1>4, <3>2, <3>4, SequencerMoves
    <3>. QED BY <1>3, <3>1, <3>4, <3>5 DEF Reservation
  <2>. QED BY <1>2, <2>2, <2>3
<1>13. seq' = "WRITE_READ" => NeedsRead(field, windex)'
  <2>1. SUFFICES ASSUME seq' = "WRITE_READ"
                 PROVE  NeedsRead(field', windex')
    BY DEF NeedsRead
  <2>. QED BY <1>2, <1>3, <1>4, <2>1, SequencerMoves DEF Reservation, SeqStates
<1>14. arb' = "CPU" => /\ \/ req'.io /\ active'
                          \/ seq' \in {"READ_WORD", "WRITE_READ", "WRITE_WORD"}
                       /\ seq' = "WRITE_READ" => rmwActive'
  <2>1. SUFFICES ASSUME arb' = "CPU"
                 PROVE  /\ \/ req'.io /\ active'
                           \/ seq' \in {"READ_WORD", "WRITE_READ", "WRITE_WORD"}
                        /\ seq' = "WRITE_READ" => rmwActive'
    OBVIOUS
  <2>2. ~CpuAck(ack) /\ (arb = "CPU" \/ (arb = "IDLE" /\ ~hold))
    BY <1>1, <1>2, <2>1, ArbiterMoves DEF FabricClock, CpuAck, Masters, ArbStates
  <2>3. ~Restart(hold)
    BY <1>7, <2>2
  <2>4. \/ req.io /\ active
        \/ seq \in {"READ_WORD", "WRITE_READ", "WRITE_WORD"}
    BY <1>3, <1>6, <2>1, <2>2, ArbiterMoves DEF FabricClock, Reservation
  <2>5. CASE seq \in {"READ_WORD", "WRITE_READ", "WRITE_WORD"}
    <3>1. seq' = seq
      BY <1>4, <2>2, <2>3, <2>5, SequencerMoves
    <3>2. seq = "WRITE_READ" => rmwActive'
      <4>1. SUFFICES ASSUME seq = "WRITE_READ" PROVE rmwActive'
        OBVIOUS
      <4>2. CASE arb = "CPU"
        BY <1>3, <2>2, <4>1, <4>2, ArbiterMoves DEF FabricClock, Reservation, CpuAck, Masters
      <4>3. CASE arb = "IDLE" /\ ~hold
        BY <1>2, <1>8, <2>1, <4>1, <4>3, ArbiterMoves DEF FabricClock, CpuLock, WordLock
      <4>. QED BY <2>2, <4>2, <4>3
    <3>. QED BY <2>5, <3>1, <3>2
  <2>6. CASE req.io /\ active
    <3>1. seq = "IDLE"
      BY <1>8, <2>6
    <3>2. seq' # "WRITE_READ"
      BY <1>4, <3>1, SequencerMoves
    <3>3. ~RequestDone(ack)
      BY <2>2, <2>6 DEF RequestDone
    <3>. QED BY <1>4, <2>6, <3>2, <3>3, RequestStays
  <2>. QED BY <2>4, <2>5, <2>6
<1>15. arb' = "HOST" => host' # NoReq
  <2>1. SUFFICES ASSUME arb' = "HOST" PROVE host' # NoReq
    OBVIOUS
  <2>2. host # NoReq /\ ~(arb = "HOST" /\ ack)
    BY <1>1, <1>2, <1>3, <2>1, ArbiterMoves DEF FabricClock, Reservation, ArbStates, Masters
  <2>. QED BY <2>2 DEF FabricClock, HostClient
<1>. QED BY <1>10, <1>11, <1>12, <1>13, <1>14, <1>15 DEF Reservation

\* The core keeps the request it was not answered, and the register keeps
\* what it serves.
LEMMA AnswerStep ==
  ASSUME FabricInv, NEW ack \in BOOLEAN, ack => CycleReq, NEW rdata \in Word,
         NEW refresh \in Rows \cup {NoRow},
         NEW ioLive \in IoValues, FabricClock(ack, rdata, refresh, ioLive)
  PROVE  AnswerMatchesRequest'
<1>1. SUFFICES ASSUME active', ~posted'
               PROVE  /\ core' # NoReq
                      /\ core'.io = req'.io /\ core'.we = req'.we
                      /\ core'.field.addr = req'.field.addr
                      /\ core'.field.off = req'.field.off
                      /\ core'.field.size = req'.field.size
  BY DEF AnswerMatchesRequest
<1>2. CoreClient(ack) /\ RequestRegister(ack, ioLive)
  BY DEF FabricClock
<1>3. /\ active \in BOOLEAN /\ posted \in BOOLEAN /\ req \in CoreRequest
      /\ core \in CoreRequests \cup {NoReq} /\ lateField \in Field
  BY DEF FabricInv, TypeOK
<1>4. CASE TakeRequest(ack, ioLive)
  <2>1. core # NoReq /\ core \in CoreRequest
    BY <1>3, <1>4, FabricAssumption DEF TakeRequest, Capture
  <2>2. ~CoreAck(ack)
    BY <1>1, <1>4 DEF TakeRequest, CoreAck, Capture, RequestDone
  <2>3. core' = core
    BY <1>2, <2>1, <2>2 DEF CoreClient
  <2>4. req' = AsPresented(core)
    BY <1>4 DEF TakeRequest
  <2>. QED BY <2>1, <2>3, <2>4 DEF AsPresented, CoreRequest, Field
<1>5. CASE ServeRequest(ack, ioLive)
  <2>1. active /\ ~posted /\ ~RequestDone(ack) /\ ~Capture(ack)
    BY <1>1, <1>5 DEF ServeRequest
  <2>2. core' = core /\ core # NoReq
    BY <1>2, <2>1 DEF CoreClient, CoreAck, FabricInv, AnswerMatchesRequest
  <2>3. /\ req'.io = req.io /\ req'.we = req.we
        /\ req'.field = ReqField
    BY <1>3, <1>5 DEF ServeRequest, CoreRequest
  <2>4. /\ ReqField.addr = req.field.addr /\ ReqField.off = req.field.off
        /\ ReqField.size = req.field.size
    BY <1>3 DEF ReqField, CoreRequest, Field
  <2>. QED BY <2>1, <2>2, <2>3, <2>4 DEF FabricInv, AnswerMatchesRequest
<1>6. CASE NoRequest(ack, ioLive)
  BY <1>1, <1>6 DEF NoRequest
<1>. QED BY <1>2, <1>4, <1>5, <1>6 DEF RequestRegister

\* In the clock after a capture neither the sequencer nor the CPU's cycle has
\* begun with the new request.
LEMMA AfterCapture ==
  ASSUME FabricInv, NEW ack \in BOOLEAN, ack => CycleReq, NEW rdata \in Word,
         NEW refresh \in Rows \cup {NoRow},
         NEW ioLive \in IoValues, FabricClock(ack, rdata, refresh, ioLive), Capture(ack)
  PROVE  seq' = "IDLE" /\ arb' # "CPU"
<1>1. ~active \/ RequestDone(ack)
  BY DEF Capture
<1>2. SequencerClock(SeqPins(ack, rdata)) /\ ArbiterClock(ArbPins(ack, refresh, ioLive))
  BY DEF FabricClock
<1>3. Reservation /\ arb \in ArbStates /\ rmwActive \in BOOLEAN /\ seq \in SeqStates
  BY DEF FabricInv, TypeOK, ArbTypeOK, SeqTypeOK
<1>4. (seq = "IDLE" /\ (~active \/ req.io)) \/ seq = "RESPONSE"
  BY <1>1, <1>3 DEF RequestDone, Reservation
<1>5. seq' = "IDLE"
  BY <1>2, <1>4, SequencerMoves
<1>6. ~rmwActive
  BY <1>3, <1>4 DEF Reservation
<1>7. arb = "CPU" => req.io /\ active /\ ack
  BY <1>1, <1>3, <1>4 DEF Reservation, RequestDone, CpuAck
<1>8. CASE arb = "CPU"
  BY <1>2, <1>5, <1>7, <1>8, ArbiterMoves DEF Masters
<1>9. CASE arb = "IDLE"
  <2>1. ~CpuAck(ack)
    BY <1>9 DEF CpuAck
  <2>2. ~CpuReq
    BY <1>1, <1>3, <1>4, <2>1 DEF CpuReq, WordReq, RequestDone, Reservation
  <2>. QED BY <1>2, <1>3, <1>5, <1>6, <1>9, <2>2, ArbiterMoves
<1>10. CASE arb \notin {"CPU", "IDLE"}
  BY <1>2, <1>3, <1>5, <1>10, ArbiterMoves DEF ArbStates, Masters
<1>. QED BY <1>5, <1>8, <1>9, <1>10

\* Late data is there one clock after the capture, before anything reads it.
LEMMA LateStep ==
  ASSUME FabricInv, NEW ack \in BOOLEAN, ack => CycleReq, NEW rdata \in Word,
         NEW refresh \in Rows \cup {NoRow},
         NEW ioLive \in IoValues, FabricClock(ack, rdata, refresh, ioLive)
  PROVE  LateDataInTime' /\ SampleBeforeCycle'
<1>1. RequestRegister(ack, ioLive) /\ FabricInv
  BY DEF FabricClock, FabricInv
<1>2. Capture(ack) => seq' = "IDLE" /\ arb' # "CPU"
  BY <1>1, AfterCapture
<1>3. SampleBeforeCycle'
  BY <1>1, <1>2 DEF RequestRegister, IoSampling, SampleBeforeCycle
<1>4. late' => TakeRequest(ack, ioLive)
  BY <1>1 DEF RequestRegister, ServeRequest, NoRequest
<1>5. late' => active' /\ req'.we /\ seq' = "IDLE" /\ arb' # "CPU"
  <2>1. SUFFICES ASSUME late' PROVE active' /\ req'.we /\ seq' = "IDLE" /\ arb' # "CPU"
    OBVIOUS
  <2>2. core \in CoreRequests /\ Capture(ack) /\ active' /\ req' = AsPresented(core) /\ core.late
    BY <1>1, <1>4, <2>1 DEF TakeRequest, Capture, FabricInv, TypeOK
  <2>3. core \in CoreRequest /\ core.we
    BY <2>2, FabricAssumption
  <2>4. req'.we
    BY <2>2, <2>3 DEF AsPresented, CoreRequest
  <2>. QED BY <1>2, <2>2, <2>4
<1>. QED BY <1>3, <1>5 DEF LateDataInTime, RequestDone, CpuAck

\* The refresh entry is taken with its row and kept until it is retired.
LEMMA RefreshStep ==
  ASSUME FabricInv, NEW ack \in BOOLEAN, ack => CycleReq, NEW rdata \in Word,
         NEW refresh \in Rows \cup {NoRow},
         NEW ioLive \in IoValues, FabricClock(ack, rdata, refresh, ioLive)
  PROVE  /\ PendingRow' /\ RefreshHasEvent'
         /\ arb = "DRAM" /\ arb' = "DRAM" => dramRow' = dramRow
<1>. DEFINE in == ArbPins(ack, refresh, ioLive)
<1>1. in.refresh = refresh /\ in.ack = ack
  BY DEF ArbPins
<1>2. Arbitrate(in) /\ RefreshCapture(in)
  BY DEF FabricClock, ArbiterClock
<1>. HIDE DEF in
<1>3. dramPending \in BOOLEAN /\ NoRow \notin Rows /\ arb \in ArbStates
  BY FabricAssumption DEF FabricInv, TypeOK, ArbTypeOK
<1>4. PendingRow'
  BY <1>1, <1>2, <1>3 DEF RefreshCapture, CaptureDram, PendingRow, FabricInv
<1>5. arb' = "DRAM" => GrantDram(in) \/ (arb = "DRAM" /\ ~ack)
  BY <1>1, <1>2 DEF Arbitrate, GrantHold, GrantReserved, GrantScreen, GrantHost, GrantCpu,
     NothingToDo, KeepHold, EndHold, CycleRuns, EndCycle, Free, Masters
<1>6. GrantDram(in) => dramPending'
  BY <1>1, <1>2 DEF GrantDram, Free, RefreshDue, RefreshCapture, CaptureDram, RetireDram
<1>7. arb = "DRAM" /\ ~ack => dramPending' /\ dramRow' = dramRow
  BY <1>1, <1>2 DEF RefreshCapture, CaptureDram, RetireDram, FabricInv, RefreshHasEvent
<1>8. RefreshHasEvent'
  BY <1>4, <1>5, <1>6, <1>7 DEF RefreshHasEvent, PendingRow
<1>9. arb = "DRAM" /\ arb' = "DRAM" => dramRow' = dramRow
  BY <1>5, <1>7 DEF GrantDram, Free
<1>. QED BY <1>4, <1>8, <1>9

\* Whoever runs the cycles, a clock edge of the fabric keeps its invariant.
LEMMA FabricStep ==
  ASSUME FabricInv, NEW ack \in BOOLEAN, ack => CycleReq, NEW rdata \in Word,
         NEW refresh \in Rows \cup {NoRow},
         NEW ioLive \in IoValues, FabricClock(ack, rdata, refresh, ioLive),
         hold' \in BOOLEAN, mem' \in [WordAddr -> Word]
  PROVE  FabricInv'
<1>1. TypeOK' /\ WindowBound'
  BY FabricTypes
<1>2. Reservation'
  BY ReservationStep
<1>3. AnswerMatchesRequest'
  BY AnswerStep
<1>4. LateDataInTime' /\ SampleBeforeCycle'
  BY LateStep
<1>5. PendingRow' /\ RefreshHasEvent'
  BY RefreshStep
<1>. QED BY <1>1, <1>2, <1>3, <1>4, <1>5 DEF FabricInv

\* So does a step in which the fabric stands still, whatever is written to memory.
LEMMA FabricStands ==
  ASSUME FabricInv, UNCHANGED <<arbVars, seqVars, fabricVars, core, host, screen, hold>>,
         mem' \in [WordAddr -> Word]
  PROVE  FabricInv'
<1>. USE DEF FabricInv, arbVars, seqVars, fabricVars
<1>1. TypeOK'
  BY DEF TypeOK, ArbTypeOK, SeqTypeOK
<1>2. WindowBound' /\ Reservation'
  BY DEF WindowBound, Reservation, MergePending, NeedsRead
<1>3. /\ AnswerMatchesRequest' /\ LateDataInTime'
      /\ PendingRow' /\ RefreshHasEvent' /\ SampleBeforeCycle'
  BY DEF AnswerMatchesRequest, LateDataInTime, RequestDone, CpuAck, PendingRow,
         RefreshHasEvent, SampleBeforeCycle
<1>. QED BY <1>1, <1>2, <1>3

-----------------------------------------------------------------------------
(* The command stands still. *)

\* What Command is made of.
LEMMA CommandStands ==
  UNCHANGED <<arbVars, seqVars, fabricVars, host, hold>> => Command' = Command
BY DEF arbVars, seqVars, fabricVars, Command, CpuWe, CpuAddr, CpuWdata, LowWord,
       ReqField, WordWe, WordAddress, WordWdata, Restart, NeedsRead

\* A CPU word cycle that is not acknowledged leaves the sequencer as it is.
LEMMA SequencerWaits ==
  ASSUME FabricInv, NEW ack \in BOOLEAN, NEW rdata \in Word, SequencerClock(SeqPins(ack, rdata)),
         seq \in {"READ_WORD", "WRITE_READ", "WRITE_WORD"},
         ~CpuAck(ack), ~Restart(hold)
  PROVE  UNCHANGED seqVars
<1>. DEFINE in == SeqPins(ack, rdata)
<1>1. in.ack = CpuAck(ack) /\ in.restart = Restart(hold)
  BY DEF SeqPins
<1>2. SequencerClock(in)
  OBVIOUS
<1>. HIDE DEF in
<1>. QED BY <1>1, <1>2 DEF SequencerClock, SeqIdle, TakeField, ReadWord, SelectWrite,
            ReadOldWord, Reread, WriteWord, SeqWait, Respond

\* The host's cycle: its request and the sampled I/O data stay.
LEMMA HostCycleWaits ==
  ASSUME FabricInv, NEW ack \in BOOLEAN, ack => CycleReq, NEW rdata \in Word,
         NEW refresh \in Rows \cup {NoRow},
         NEW ioLive \in IoValues, FabricClock(ack, rdata, refresh, ioLive),
         arb = "HOST", ~ack
  PROVE  host' = host /\ hostIoRdata' = hostIoRdata
<1>. DEFINE in == ArbPins(ack, refresh, ioLive)
<1>1. in.ack = ack
  BY DEF ArbPins
<1>2. Arbitrate(in) /\ HostClient(ack)
  BY DEF FabricClock, ArbiterClock
<1>. HIDE DEF in
<1>3. host' = host
  BY <1>2 DEF HostClient, FabricInv, Reservation
<1>4. hostIoRdata' = hostIoRdata
  BY <1>1, <1>2 DEF Arbitrate, GrantHold, GrantReserved, GrantScreen, GrantDram,
     GrantHost, GrantCpu, NothingToDo, KeepHold, EndHold, CycleRuns, EndCycle, Free
<1>. QED BY <1>3, <1>4

\* The CPU's cycle: request register, I/O data and sequencer stay.
LEMMA CpuCycleWaits ==
  ASSUME FabricInv, NEW ack \in BOOLEAN, ack => CycleReq, NEW rdata \in Word,
         NEW refresh \in Rows \cup {NoRow},
         NEW ioLive \in IoValues, FabricClock(ack, rdata, refresh, ioLive),
         arb = "CPU", arb' = "CPU", ~ack
  PROVE  Command' = Command
<1>1. /\ SequencerClock(SeqPins(ack, rdata))
      /\ RequestRegister(ack, ioLive)
  BY DEF FabricClock
<1>2. /\ FabricInv /\ Reservation /\ ~CpuAck(ack) /\ ~Restart(hold) /\ ~Restart(hold)'
      /\ Restart(hold) \in BOOLEAN
  BY DEF FabricInv, CpuAck, Restart
<1>3. /\ req \in CoreRequest /\ late \in BOOLEAN /\ active \in BOOLEAN
  BY DEF FabricInv, TypeOK
<1>4. active /\ ~RequestDone(ack) /\ ~Capture(ack)
  BY <1>2 DEF Reservation, RequestDone, Capture
<1>5. ServeRequest(ack, ioLive)
  BY <1>1, <1>4 DEF RequestRegister, TakeRequest, NoRequest
<1>6. /\ req'.io = req.io /\ req'.we = req.we /\ req'.field = ReqField
      /\ late' = FALSE /\ active'
  BY <1>3, <1>4, <1>5 DEF ServeRequest, CoreRequest
<1>7. ioRdata' = ioRdata
  BY <1>1, <1>4 DEF RequestRegister, IoSampling, FabricInv, SampleBeforeCycle
<1>8. CASE req.io
  <2>1. ~late
    BY <1>4, <1>8 DEF FabricInv, LateDataInTime, RequestDone, CpuAck
  <2>2. req'.field = req.field /\ ReqField' = ReqField
    BY <1>6, <2>1 DEF ReqField
  <2>3. /\ Command = [kind |-> IF req.we THEN "IO_WRITE" ELSE "IO_READ",
                      addr |-> req.field.addr, wdata |-> LowWord(ReqField),
                      iodata |-> ioRdata]
    BY <1>8 DEF Command, CpuWe, CpuAddr, CpuWdata
  <2>4. /\ Command' = [kind |-> IF req'.we THEN "IO_WRITE" ELSE "IO_READ",
                       addr |-> req'.field.addr, wdata |-> LowWord(ReqField)',
                       iodata |-> ioRdata']
    BY <1>6, <1>8 DEF Command, CpuWe, CpuAddr, CpuWdata
  <2>5. LowWord(ReqField)' = LowWord(ReqField)
    BY <2>2 DEF LowWord
  <2>. QED BY <1>6, <1>7, <2>2, <2>3, <2>4, <2>5
<1>9. CASE ~req.io
  <2>1. seq \in {"READ_WORD", "WRITE_READ", "WRITE_WORD"}
    BY <1>2, <1>9 DEF Reservation
  <2>2. UNCHANGED seqVars
    BY <1>1, <1>2, <2>1, SequencerWaits
  <2>3. Command = [kind |-> IF seq = "WRITE_WORD" THEN "WORD_WRITE" ELSE "WORD_READ",
                   addr |-> WordAddress, wdata |-> WordWdata, iodata |-> ioRdata]
    BY <1>2, <1>9 DEF Command, CpuWe, CpuAddr, CpuWdata, WordWe
  <2>4. Command' = [kind |-> IF seq' = "WRITE_WORD" THEN "WORD_WRITE" ELSE "WORD_READ",
                    addr |-> WordAddress', wdata |-> WordWdata', iodata |-> ioRdata']
    BY <1>2, <1>6, <1>9 DEF Command, CpuWe, CpuAddr, CpuWdata, WordWe
  <2>5. seq' = seq /\ field' = field /\ windex' = windex /\ rmwWord' = rmwWord
    BY <2>2 DEF seqVars
  <2>6. WordAddress' = WordAddress /\ WordWdata' = WordWdata
    BY <2>5 DEF WordAddress, WordWdata
  <2>. QED BY <1>7, <2>3, <2>4, <2>5, <2>6
<1>. QED BY <1>3, <1>8, <1>9 DEF CoreRequest

\* A clock edge without an acknowledgement changes nothing of the command of a
\* cycle under way.
LEMMA CommandStep ==
  ASSUME FabricInv, NEW ack \in BOOLEAN, ack => CycleReq, NEW rdata \in Word,
         NEW refresh \in Rows \cup {NoRow},
         NEW ioLive \in IoValues, FabricClock(ack, rdata, refresh, ioLive),
         CycleReq, ~ack
  PROVE  arb' = arb /\ Command' = Command
<1>1. arb \in Masters /\ arb' = arb
  BY ArbiterMoves DEF CycleReq, FabricClock, FabricInv, Masters
<1>2. CASE arb = "CPU"
  BY <1>1, <1>2, CpuCycleWaits
<1>3. CASE arb = "HOST"
  <2>1. host' = host /\ hostIoRdata' = hostIoRdata
    BY <1>1, <1>3, HostCycleWaits DEF FabricInv
  <2>. QED BY <1>1, <1>3, <2>1 DEF Command
<1>4. CASE arb = "DRAM"
  <2>1. dramRow' = dramRow
    BY <1>1, <1>4, RefreshStep
  <2>. QED BY <1>1, <1>4, <2>1 DEF Command
<1>5. CASE arb = "SCREEN"
  BY <1>1, <1>5 DEF Command
<1>. QED BY <1>1, <1>2, <1>3, <1>4, <1>5 DEF Masters

-----------------------------------------------------------------------------
(* With the memory of MemoryFabric: the freshness of the old word. *)

\* Every memory write, the external master's too, stores a word at an address.
LEMMA MemoryTypesStep ==
  ASSUME FabricInv, NEW ack \in BOOLEAN, Memory(ack)
  PROVE  mem' \in [WordAddr -> Word]
<1>. USE DEF FabricInv, TypeOK
<1>1. CASE MemoryWrite(ack)
  BY <1>1, WireTypes DEF MemoryWrite
<1>2. CASE ExternalWrite
  BY <1>2, FabricAssumption DEF ExternalWrite
<1>3. CASE MemoryKeeps(ack)
  BY <1>3 DEF MemoryKeeps
<1>. QED BY <1>1, <1>2, <1>3 DEF Memory

\* The clock of MemoryFabric is one of the clocks the lemmas above are about.
LEMMA ClockIsFabricClock ==
  ASSUME Inv, NEW ack \in BOOLEAN, NEW refresh \in Rows \cup {NoRow},
         NEW ioLive \in IoValues, Clock(ack, refresh, ioLive)
  PROVE  /\ FabricInv
         /\ ack => CycleReq
         /\ ReadData \in Word
         /\ FabricClock(ack, ReadData, refresh, ioLive)
         /\ hold' \in BOOLEAN
         /\ mem' \in [WordAddr -> Word]
<1>1. FabricInv /\ ReadData \in Word
  BY WireTypes DEF Inv
<1>2. hold' \in BOOLEAN
  BY FabricAssumption DEF Clock, HoldClient
<1>3. mem' \in [WordAddr -> Word]
  BY <1>1, MemoryTypesStep DEF Clock
<1>. QED BY <1>1, <1>2, <1>3 DEF Clock

\* While a merge is pending, the only cycle that can change memory is the
\* write that makes it.
LEMMA PendingMergeKeepsMemory ==
  ASSUME Inv, NEW ack \in BOOLEAN, NEW refresh \in Rows \cup {NoRow},
         NEW ioLive \in IoValues, Clock(ack, refresh, ioLive),
         seq \in {"WRITE_READ", "WRITE_WORD"}, NeedsRead(field, windex),
         rmwActive, ~(seq = "WRITE_WORD" /\ CpuAck(ack))
  PROVE  mem' = mem
<1>1. arb \in {"IDLE", "CPU"} /\ ~req.io
  BY DEF Inv, FabricInv, Reservation
<1>2. ~(ack /\ WriteCycle)
  <2>1. SUFFICES ASSUME ack, WriteCycle PROVE FALSE
    OBVIOUS
  <2>2. arb = "CPU" /\ CpuWe
    BY <1>1, <2>1, WriteCycles
  <2>3. seq = "WRITE_WORD"
    BY <1>1, <2>2 DEF CpuWe, WordWe
  <2>. QED BY <2>1, <2>2, <2>3 DEF CpuAck
<1>3. ~HoldAck
  BY <1>1 DEF HoldAck
<1>. QED BY <1>2, <1>3 DEF Clock, FabricClock, Memory, MemoryWrite, ExternalWrite, MemoryKeeps

\* A clock edge keeps the old word of a pending merge equal to memory.
LEMMA FreshStep ==
  ASSUME Inv, NEW ack \in BOOLEAN, NEW refresh \in Rows \cup {NoRow},
         NEW ioLive \in IoValues, Clock(ack, refresh, ioLive)
  PROVE  MergeIsFresh'
<1>1. SUFFICES ASSUME seq' = "WRITE_WORD", NeedsRead(field', windex')
               PROVE  rmwWord' = mem'[NthWord(field', windex')]
  BY DEF MergeIsFresh, MergePending, WordAddress, NeedsRead
<1>2. SequencerClock(SeqPins(ack, ReadData)) /\ FabricInv /\ ReadData \in Word
  BY ClockIsFabricClock DEF FabricClock
<1>3. field' = field /\ windex' = windex /\ NeedsRead(field, windex)
  BY <1>1, <1>2, SequencerMoves
<1>4. \/ seq = "WRITE_READ" /\ CpuAck(ack) /\ rmwWord' = ReadData
      \/ /\ seq = "WRITE_WORD" /\ ~CpuAck(ack) /\ rmwWord' = rmwWord
  BY <1>1, <1>2, <1>3, SequencerMoves DEF Inv, FabricInv, TypeOK, SeqTypeOK, SeqStates
<1>5. rmwActive
  BY <1>3, <1>4 DEF Inv, FabricInv, Reservation, MergePending, CpuAck
<1>6. mem' = mem
  BY <1>3, <1>4, <1>5, PendingMergeKeepsMemory
<1>7. CASE seq = "WRITE_READ" /\ CpuAck(ack) /\ rmwWord' = ReadData
  <2>1. arb = "CPU" /\ ~req.io /\ ~CpuWe
    BY <1>7 DEF CpuAck, CpuWe, WordWe, Inv, FabricInv, Reservation
  <2>2. ReadData = mem[WordAddress]
    BY <2>1, CommandOfCpu DEF ReadData, CycleReq, Masters
  <2>. QED BY <1>3, <1>6, <1>7, <2>2 DEF WordAddress
<1>8. CASE seq = "WRITE_WORD" /\ ~CpuAck(ack) /\ rmwWord' = rmwWord
  BY <1>3, <1>6, <1>8 DEF Inv, MergeIsFresh, MergePending, WordAddress
<1>. QED BY <1>4, <1>7, <1>8

\* A clock edge keeps the inductive invariant.
LEMMA ClockStep ==
  ASSUME Inv, NEW ack \in BOOLEAN, NEW refresh \in Rows \cup {NoRow},
         NEW ioLive \in IoValues, Clock(ack, refresh, ioLive)
  PROVE  Inv'
<1>1. FabricInv'
  BY ClockIsFabricClock, FabricStep
<1>2. MergeIsFresh'
  BY FreshStep
<1>. QED BY <1>1, <1>2 DEF Inv

-----------------------------------------------------------------------------
(* The theorems. *)

\* The inductive invariant is kept by every step.
LEMMA StepInv == Inv /\ [Next]_vars => Inv'
<1> SUFFICES ASSUME Inv, [Next]_vars PROVE Inv'
  OBVIOUS
<1>1. CASE Next
  BY <1>1, ClockStep DEF Next
<1>2. CASE UNCHANGED vars
  <2>1. FabricInv'
    BY <1>2, FabricStands DEF Inv, FabricInv, TypeOK, vars, clientVars
  <2>2. MergeIsFresh'
    BY <1>2 DEF Inv, vars, seqVars, MergeIsFresh, MergePending, WordAddress, NeedsRead
  <2>. QED BY <2>1, <2>2 DEF Inv
<1>. QED BY <1>1, <1>2

\* Every reachable state satisfies the inductive invariant.
THEOREM InvHolds == Spec => []Inv
<1>1. Init => Inv
  BY InitInv
<1>. QED BY <1>1, StepInv, PTL DEF Spec

\* Type correctness of the fabric: every register keeps to the values the
\* hardware's width allows, and every cycle addresses a word of memory.
THEOREM TypeCorrect == Spec => []TypeOK
<1>1. Inv => TypeOK
  BY DEF Inv, FabricInv
<1>. QED BY <1>1, InvHolds, PTL

\* The arbiter's reservation and the sequencer agree: from the partial read
\* to its write no other master owns the bus.
THEOREM ReservationHolds == Spec => []Reservation
<1>1. Inv => Reservation
  BY DEF Inv, FabricInv
<1>. QED BY <1>1, InvHolds, PTL

\* No lost update: the old word a partial write merges is the word memory
\* holds, for every interleaving with host, refresh and HOLD.
THEOREM NoLostUpdate == Spec => []MergeIsFresh
<1>1. Inv => MergeIsFresh
  BY DEF Inv, FabricInv
<1>. QED BY <1>1, InvHolds, PTL

\* An answer to a request that was not posted goes to the request the core
\* waits with, and never to one that queued up behind a posted write.
THEOREM AnswersMatch == Spec => []AnswerMatchesRequest
<1>1. Inv => AnswerMatchesRequest
  BY DEF Inv, FabricInv
<1>. QED BY <1>1, InvHolds, PTL

\* The simulation guard LATE DATA TOO LATE never fires.
THEOREM LateDataIsInTime == Spec => []LateDataInTime
<1>1. Inv => LateDataInTime
  BY DEF Inv, FabricInv
<1>. QED BY <1>1, InvHolds, PTL

\* No DRAM refresh cycle runs without an event, or with another event's row.
THEOREM RefreshIsCaptured == Spec => []RefreshHasEvent
<1>1. Inv => RefreshHasEvent
  BY DEF Inv, FabricInv
<1>. QED BY <1>1, InvHolds, PTL

\* The clock edge that ends a CPU word write changes only the field's lanes of
\* the word written.
LEMMA WriteStep ==
  ASSUME Inv, NEW ack \in BOOLEAN, NEW refresh \in Rows \cup {NoRow},
         NEW ioLive \in IoValues, Clock(ack, refresh, ioLive),
         seq = "WRITE_WORD", seq' # "WRITE_WORD", ~Restart(hold),
         NEW a \in WordAddr, NEW b \in Lanes, mem'[a][b] # mem[a][b]
  PROVE  a = WordAddress /\ b \in WordMask(field, windex)
<1>1. CpuAck(ack)
  BY ClockIsFabricClock, SequencerMoves DEF FabricClock
<1>2. arb = "CPU" /\ ack /\ ~req.io /\ CpuWe
  BY <1>1 DEF CpuAck, CpuWe, WordWe, Inv, FabricInv, Reservation
<1>3. mem' = [mem EXCEPT ![WordAddress] = WordWdata]
  <2>1. ack /\ WriteCycle /\ ~HoldAck
    BY <1>2, CommandOfCpu DEF WriteCycle, CycleReq, Masters, HoldAck
  <2>2. MemoryWrite(ack)
    BY <2>1 DEF Clock, FabricClock, Memory, ExternalWrite, MemoryKeeps
  <2>. QED BY <1>2, <2>2, CommandOfCpu DEF MemoryWrite
<1>4. mem \in [WordAddr -> Word] /\ field \in Field /\ windex \in 0 .. 2 /\ rmwWord \in Word
  BY DEF Inv, FabricInv, TypeOK, SeqTypeOK
<1>5. a = WordAddress
  BY <1>3, <1>4
<1>6. mem'[a] = Merge(rmwWord, field, windex)
  BY <1>3, <1>4, <1>5 DEF WordWdata
<1>7. CASE NeedsRead(field, windex)
  <2>1. rmwWord = mem[a]
    BY <1>5, <1>7 DEF Inv, MergeIsFresh, MergePending
  <2>. QED BY <1>4, <1>5, <1>6, <2>1, MergeKeeps
<1>8. CASE ~NeedsRead(field, windex)
  BY <1>5, <1>8 DEF NeedsRead
<1>. QED BY <1>7, <1>8

\* A CPU word write changes no bit outside its field: bits that other masters
\* wrote since the field was requested survive.
THEOREM OnlyFieldBitsWritten == Spec => OnlyFieldBitsChange
<1>. DEFINE A == seq = "WRITE_WORD" /\ seq' # "WRITE_WORD" /\ ~Restart(hold)
                   => \A a \in WordAddr, b \in Lanes :
                        mem'[a][b] # mem[a][b]
                          => a = WordAddress /\ b \in WordMask(field, windex)
<1>1. Inv /\ [Next]_vars => [A]_vars
  BY WriteStep DEF Next
<1>. QED BY <1>1, InvHolds, PTL DEF Spec, OnlyFieldBitsChange

\* From its grant to its acknowledgement a cycle's command does not change,
\* in either build: it may cross to the bus clock without synchronizers.
THEOREM CommandStandsStill == Spec => CommandStable
<1>. DEFINE A == CycleReq /\ arb' = arb => Command' = Command
<1>1. ASSUME Inv, NEW ack \in BOOLEAN, NEW refresh \in Rows \cup {NoRow},
             NEW ioLive \in IoValues, Clock(ack, refresh, ioLive), CycleReq, arb' = arb
      PROVE  Command' = Command
  <2>1. ~ack
    BY <1>1, ClockIsFabricClock, ArbiterMoves DEF FabricClock, CycleReq, Masters
  <2>. QED BY <1>1, <2>1, ClockIsFabricClock, CommandStep
<1>2. Inv /\ [Next]_vars => [A]_vars
  BY <1>1 DEF Next
<1>. QED BY <1>2, InvHolds, PTL DEF Spec, CommandStable

-----------------------------------------------------------------------------
(* The memory fabric implements FieldMemory, for both builds and for every  *)
(* interleaving of the core's word cycles with host, refresh and HOLD.      *)


WriteStates == {"WRITE_SELECT", "WRITE_READ", "WRITE_WORD"}

\* Late data belongs to the field it was announced for.
LateAgrees == late => /\ lateField.addr = req.field.addr
                      /\ lateField.off = req.field.off
                      /\ lateField.size = req.field.size

\* The sequencer goes the way the request asks for, and a write collects
\* nothing.
Direction == /\ seq \in WriteStates => req.we /\ frdata = ZeroData
             /\ seq = "READ_WORD" => ~req.we

JobInv == Inv /\ LateAgrees /\ Direction

-----------------------------------------------------------------------------
(* The invariant of the job. *)

\* Reset establishes it.
LEMMA InitJobInv == Init => JobInv
BY InitInv DEF JobInv, Init, SeqInit, LateAgrees, Direction, WriteStates

\* Until the sequencer answers, the request register keeps the request and
\* takes late data in.
LEMMA ServedOn ==
  ASSUME Inv, NEW ack \in BOOLEAN, NEW refresh \in Rows \cup {NoRow},
         NEW ioLive \in IoValues, Clock(ack, refresh, ioLive),
         active, ~req.io, seq # "RESPONSE"
  PROVE  /\ active' /\ ~late'
         /\ req' = [req EXCEPT !.field = ReqField]
         /\ req'.io = req.io /\ req'.we = req.we /\ req'.field = ReqField
<1>1. ~RequestDone(ack) /\ ~Capture(ack)
  BY DEF RequestDone, Capture
<1>2. RequestRegister(ack, ioLive) /\ req \in CoreRequest
  BY DEF Clock, FabricClock, Inv, FabricInv, TypeOK
<1>3. ServeRequest(ack, ioLive)
  BY <1>1, <1>2 DEF RequestRegister, TakeRequest, NoRequest
<1>. QED BY <1>1, <1>2, <1>3 DEF ServeRequest, CoreRequest

\* Late data is expected only in the clock after its request was taken.
LEMMA LateAgreesStep ==
  ASSUME Inv, NEW ack \in BOOLEAN, NEW refresh \in Rows \cup {NoRow},
         NEW ioLive \in IoValues, Clock(ack, refresh, ioLive)
  PROVE  LateAgrees'
<1>1. SUFFICES ASSUME late'
               PROVE  /\ lateField'.addr = req'.field.addr
                      /\ lateField'.off = req'.field.off
                      /\ lateField'.size = req'.field.size
  BY DEF LateAgrees
<1>2. RequestRegister(ack, ioLive)
  BY DEF Clock, FabricClock
<1>3. TakeRequest(ack, ioLive)
  BY <1>1, <1>2 DEF RequestRegister, ServeRequest, NoRequest
<1>4. core \in CoreRequest /\ req' = AsPresented(core) /\ lateField' = core.field
  BY <1>3, FabricAssumption DEF TakeRequest, Capture, Inv, FabricInv, TypeOK
<1>. QED BY <1>4 DEF AsPresented, CoreRequest, Field

\* The sequencer's direction is set with the field and kept to the answer.
LEMMA DirectionStep ==
  ASSUME JobInv, NEW ack \in BOOLEAN, NEW refresh \in Rows \cup {NoRow},
         NEW ioLive \in IoValues, Clock(ack, refresh, ioLive)
  PROVE  Direction'
<1>. DEFINE in == SeqPins(ack, ReadData)
<1>1. SequencerClock(in) /\ in.req = (active /\ ~req.io) /\ in.we = req.we
  BY DEF SeqPins, Clock, FabricClock
<1>. HIDE DEF in
<1>2. Inv /\ Reservation /\ Direction /\ req.we \in BOOLEAN
  BY DEF JobInv, Inv, FabricInv, TypeOK, CoreRequest
<1>3. seq # "IDLE" => active /\ ~req.io
  BY <1>2 DEF Reservation
<1>4. (active /\ ~req.io) /\ seq # "RESPONSE" => req'.we = req.we
  BY <1>2, ServedOn
<1>. USE DEF Direction, WriteStates
<1>5. CASE SeqIdle(in)      BY <1>5 DEF SeqIdle, seqVars
<1>6. CASE TakeField(in)    BY <1>1, <1>2, <1>4, <1>6 DEF TakeField
<1>7. CASE ReadWord(in)     BY <1>2, <1>3, <1>4, <1>7 DEF ReadWord
<1>8. CASE SelectWrite(in)  BY <1>2, <1>3, <1>4, <1>8 DEF SelectWrite
<1>9. CASE ReadOldWord(in)  BY <1>2, <1>3, <1>4, <1>9 DEF ReadOldWord
<1>10. CASE Reread(in)      BY <1>2, <1>3, <1>4, <1>10 DEF Reread
<1>11. CASE WriteWord(in)   BY <1>2, <1>3, <1>4, <1>11 DEF WriteWord
<1>12. CASE SeqWait(in)     BY <1>2, <1>3, <1>4, <1>12 DEF SeqWait, seqVars
<1>13. CASE Respond(in)     BY <1>13 DEF Respond
<1>. QED BY <1>1, <1>5, <1>6, <1>7, <1>8, <1>9, <1>10, <1>11, <1>12, <1>13
         DEF SequencerClock

\* Every clock edge keeps the invariant of the job.
LEMMA StepJobInv == JobInv /\ [Next]_vars => JobInv'
<1> SUFFICES ASSUME JobInv, [Next]_vars PROVE JobInv'
  OBVIOUS
<1>1. Inv'
  BY StepInv DEF JobInv
<1>2. CASE Next
  BY <1>1, <1>2, LateAgreesStep, DirectionStep DEF Next, JobInv
<1>3. CASE UNCHANGED vars
  BY <1>1, <1>3 DEF JobInv, vars, seqVars, fabricVars, LateAgrees, Direction
<1>. QED BY <1>2, <1>3

\* Every reachable state satisfies it.
THEOREM JobInvHolds == Spec => []JobInv
<1>1. Init => JobInv
  BY InitJobInv
<1>. QED BY <1>1, StepJobInv, PTL DEF Spec

-----------------------------------------------------------------------------
(* Fields on the line of bits. *)

\* The places the abstract job gives a field's bits are the lanes the bus
\* finds them in.
LEMMA JobPlaces ==
  ASSUME NEW f \in Field, ValidSize(f.size), NEW j,
         j.start = f.addr * W + f.off, j.size = f.size,
         NEW i \in 0 .. f.size - 1
  PROVE  LET k == (f.off + i) \div W
             b == (f.off + i) % W
         IN  /\ k \in 0 .. 2 /\ b \in Lanes
             /\ i \in FieldBits
             /\ FieldBit(f, k, b) = i
             /\ Promise!WordOf(j, i) = k
             /\ Promise!Place(j, i) = NthWord(f, k) * W + b
<1>1. (f.addr * W + f.off) % W = f.off
  BY StartOfField
<1>. QED BY <1>1, PlaceOfBit DEF Promise!WordOf, Promise!Place

\* A job has the words of its field's window.
LEMMA JobWords ==
  ASSUME NEW f \in Field, NEW j, j.start = f.addr * W + f.off, j.size = f.size
  PROVE  Promise!WordCount(j) = IF ValidSize(f.size) THEN LastWord(f) + 1 ELSE 0
<1>1. (f.addr * W + f.off) % W = f.off
  BY StartOfField
<1>2. ValidSize(f.size) => (f.off + (f.size - 1)) \div W = LastWord(f)
  BY LastBit
<1>. QED BY <1>1, <1>2 DEF Promise!WordCount, Promise!WordOf, ValidSize

\* The mask of a word names exactly the field bits an abstract write replaces
\* in it, each at its place.
LEMMA WrittenBits ==
  ASSUME NEW f \in Field, ValidSize(f.size), NEW j,
         j.start = f.addr * W + f.off, j.size = f.size, j.keep = f.keep,
         NEW k \in 0 .. 2, NEW a \in WordAddr, NEW b \in Lanes
  PROVE  LET written == {i \in Promise!BitsOf(j, k) : i \notin j.keep}
         IN  /\ a = NthWord(f, k) /\ b \in WordMask(f, k)
                   => /\ FieldBit(f, k, b) \in written
                      /\ Promise!Place(j, FieldBit(f, k, b)) = a * W + b
             /\ \A i \in written : Promise!Place(j, i) = a * W + b
                   => a = NthWord(f, k) /\ b \in WordMask(f, k) /\ i = FieldBit(f, k, b)
<1>. DEFINE written == {i \in Promise!BitsOf(j, k) : i \notin j.keep}
<1>1. /\ W \in Nat \ {0} /\ f.off \in Nat /\ f.off < W /\ f.size \in Nat
      /\ b \in 0 .. W - 1
  BY GeometryAssumption DEF Field, Lanes
<1>2. NthWord(f, k) \in WordAddr
  BY NthWordRange
<1>3. ASSUME a = NthWord(f, k), b \in WordMask(f, k)
      PROVE  /\ FieldBit(f, k, b) \in written
             /\ Promise!Place(j, FieldBit(f, k, b)) = a * W + b
  <2>. DEFINE i == FieldBit(f, k, b)
  <2>1. i \in 0 .. f.size - 1 /\ i \notin f.keep
    BY <1>3 DEF WordMask
  <2>2. f.off + i = k * W + b
    BY <1>1 DEF FieldBit
  <2>3. (k * W + b) \div W = k /\ (k * W + b) % W = b
    <3>1. k \in Int
      OBVIOUS
    <3>. QED BY <1>1, <3>1, DivideOnce, Zenon
  <2>. HIDE DEF i
  <2>4. (f.off + i) \div W = k /\ (f.off + i) % W = b
    BY <2>2, <2>3
  <2>5. Promise!WordOf(j, i) = k /\ Promise!Place(j, i) = NthWord(f, k) * W + b
    BY <2>1, <2>4, JobPlaces
  <2>. QED BY <1>3, <2>1, <2>5 DEF i, Promise!BitsOf
<1>4. ASSUME NEW i \in written, Promise!Place(j, i) = a * W + b
      PROVE  a = NthWord(f, k) /\ b \in WordMask(f, k) /\ i = FieldBit(f, k, b)
  <2>1. i \in 0 .. f.size - 1 /\ i \notin f.keep /\ Promise!WordOf(j, i) = k
    BY DEF Promise!BitsOf
  <2>. DEFINE c == (f.off + i) % W
  <2>2. /\ (f.off + i) \div W = k /\ c \in Lanes /\ FieldBit(f, k, c) = i
        /\ Promise!Place(j, i) = NthWord(f, k) * W + c
    BY <2>1, JobPlaces
  <2>. HIDE DEF c
  <2>3. NthWord(f, k) = a /\ c = b
    BY <1>2, <1>4, <2>2, LineOfLane
  <2>. QED BY <2>1, <2>2, <2>3 DEF WordMask
<1>. QED BY <1>3, <1>4

-----------------------------------------------------------------------------
(* The job's steps. *)

\* While the sequencer serves a field, the job is that field's.
LEMMA ServedJob ==
  ASSUME JobInv, seq # "IDLE"
  PROVE  /\ active /\ ~req.io /\ AbsJob.op = (IF req.we THEN "write" ELSE "read")
         /\ AbsJob.start = field.addr * W + field.off
         /\ AbsJob.size = field.size
         /\ AbsJob.data = (IF req.we THEN field.data ELSE ZeroData)
         /\ AbsJob.keep = (IF req.we THEN field.keep ELSE {})
         /\ AbsJob.got = Collected
         /\ AbsJob.next = IF seq = "RESPONSE"
                          THEN IF ValidSize(field.size) THEN LastWord(field) + 1 ELSE 0
                          ELSE windex
<1>1. active /\ ~req.io
  BY DEF JobInv, Inv, FabricInv, Reservation
<1>. QED BY <1>1 DEF AbsJob, JobField

\* A job whose words have not all been served is not finished; an answered
\* one is.
LEMMA JobProgress ==
  ASSUME JobInv, seq # "IDLE"
  PROVE  Promise!Finished(AbsJob) <=> seq = "RESPONSE"
<1>1. /\ field \in Field /\ windex \in 0 .. 2 /\ WindowBound
  BY DEF JobInv, Inv, FabricInv, TypeOK, SeqTypeOK
<1>2. Promise!WordCount(AbsJob) = IF ValidSize(field.size) THEN LastWord(field) + 1 ELSE 0
  BY <1>1, ServedJob, JobWords
<1>3. AbsJob.op # "none"
  BY ServedJob
<1>4. LastWord(field) \in 0 .. 2
  BY <1>1, LastWordRange
<1>5. CASE seq = "RESPONSE"
  BY <1>2, <1>5, ServedJob DEF Promise!Finished
<1>6. CASE seq # "RESPONSE"
  <2>1. ValidSize(field.size) /\ windex <= LastWord(field)
    BY <1>1, <1>6 DEF WindowBound
  <2>2. AbsJob.next = windex
    BY <1>6, ServedJob
  <2>. QED BY <1>1, <1>2, <1>3, <1>4, <1>6, <2>1, <2>2 DEF Promise!Finished
<1>. QED BY <1>5, <1>6

\* The clock edge that ends a CPU word write merges the field into the word
\* memory holds.
LEMMA WriteAcknowledged ==
  ASSUME Inv, NEW ack \in BOOLEAN, NEW refresh \in Rows \cup {NoRow},
         NEW ioLive \in IoValues, Clock(ack, refresh, ioLive),
         seq = "WRITE_WORD", CpuAck(ack)
  PROVE  /\ \A a \in WordAddr, b \in Lanes :
               mem'[a][b] = IF a = WordAddress /\ b \in WordMask(field, windex)
                            THEN WordData(field, windex)[b] ELSE mem[a][b]
         /\ seq' = IF AtLast THEN "RESPONSE" ELSE "WRITE_SELECT"
         /\ windex' = IF AtLast THEN windex ELSE windex + 1
         /\ field' = field /\ frdata' = frdata
<1>. DEFINE in == SeqPins(ack, ReadData)
<1>1. arb = "CPU" /\ ack /\ ~Restart(hold) /\ ~req.io /\ CpuWe
  BY DEF CpuAck, CpuWe, WordWe, Restart, Inv, FabricInv, Reservation
<1>2. mem' = [mem EXCEPT ![WordAddress] = WordWdata]
  <2>1. ack /\ WriteCycle /\ ~HoldAck
    BY <1>1, CommandOfCpu DEF WriteCycle, CycleReq, Masters, HoldAck
  <2>2. MemoryWrite(ack)
    BY <2>1 DEF Clock, FabricClock, Memory, ExternalWrite, MemoryKeeps
  <2>. QED BY <1>1, <2>2, CommandOfCpu DEF MemoryWrite
<1>3. /\ mem \in [WordAddr -> Word] /\ field \in Field /\ windex \in 0 .. 2
      /\ rmwWord \in Word /\ WordAddress \in WordAddr
  BY WireTypes DEF Inv, FabricInv, TypeOK, SeqTypeOK
<1>4. ASSUME NEW b \in Lanes
      PROVE  Merge(rmwWord, field, windex)[b] =
               IF b \in WordMask(field, windex) THEN WordData(field, windex)[b]
               ELSE mem[WordAddress][b]
  <2>1. CASE NeedsRead(field, windex)
    <3>1. rmwWord = mem[WordAddress]
      BY <2>1 DEF Inv, MergeIsFresh, MergePending
    <3>. QED BY <3>1 DEF Merge
  <2>2. CASE ~NeedsRead(field, windex)
    BY <2>2 DEF NeedsRead, Merge
  <2>. QED BY <2>1, <2>2
<1>5. \A a \in WordAddr, b \in Lanes :
        mem'[a][b] = IF a = WordAddress /\ b \in WordMask(field, windex)
                     THEN WordData(field, windex)[b] ELSE mem[a][b]
  BY <1>2, <1>3, <1>4 DEF WordWdata
<1>6. in.ack = CpuAck(ack) /\ in.restart = Restart(hold) /\ SequencerClock(in)
  BY DEF SeqPins, Clock, FabricClock
<1>. HIDE DEF in
<1>7. WriteWord(in)
  BY <1>1, <1>6 DEF SequencerClock, SeqIdle, TakeField, ReadWord, SelectWrite,
     ReadOldWord, Reread, SeqWait, Respond
<1>. QED BY <1>5, <1>7 DEF WriteWord

\* It is one step of the abstract write.
LEMMA WriteRefines ==
  ASSUME JobInv, NEW ack \in BOOLEAN, NEW refresh \in Rows \cup {NoRow},
         NEW ioLive \in IoValues, Clock(ack, refresh, ioLive),
         seq = "WRITE_WORD", CpuAck(ack)
  PROVE  Promise!WriteOneWord
<1>1. Inv /\ req.we /\ active /\ ~req.io /\ frdata = ZeroData
  BY DEF JobInv, Inv, FabricInv, Direction, WriteStates, Reservation
<1>2. /\ field \in Field /\ windex \in 0 .. 2 /\ ValidSize(field.size)
      /\ mem \in [WordAddr -> Word]
  BY <1>1 DEF Inv, FabricInv, TypeOK, SeqTypeOK, WindowBound
<1>. DEFINE job == AbsJob
            written == {i \in Promise!BitsOf(job, job.next) : i \notin job.keep}
<1>3. /\ job.op = "write" /\ job.start = field.addr * W + field.off
      /\ job.size = field.size /\ job.data = field.data /\ job.keep = field.keep
      /\ job.next = windex /\ job.got = ZeroData
  BY <1>1, ServedJob DEF Collected
<1>4. ~Promise!Finished(job)
  BY JobProgress
<1>5. /\ \A a \in WordAddr, b \in Lanes :
            mem'[a][b] = IF a = WordAddress /\ b \in WordMask(field, windex)
                         THEN WordData(field, windex)[b] ELSE mem[a][b]
      /\ seq' = IF AtLast THEN "RESPONSE" ELSE "WRITE_SELECT"
      /\ windex' = IF AtLast THEN windex ELSE windex + 1
      /\ field' = field /\ frdata' = frdata
  BY <1>1, WriteAcknowledged
<1>6. AbsLine' = [p \in Promise!LineBits |->
                    IF \E i \in written : Promise!Place(job, i) = p
                    THEN job.data[CHOOSE i \in written : Promise!Place(job, i) = p]
                    ELSE AbsLine[p]]
  <2>1. SUFFICES ASSUME NEW p \in 0 .. NWords * W - 1
                 PROVE  mem'[p \div W][p % W] =
                          IF \E i \in written : Promise!Place(job, i) = p
                          THEN job.data[CHOOSE i \in written : Promise!Place(job, i) = p]
                          ELSE mem[p \div W][p % W]
    BY DEF AbsLine, Promise!LineBits
  <2>. DEFINE a == p \div W
              b == p % W
  <2>2. a \in WordAddr /\ b \in Lanes /\ p = a * W + b
    BY LaneOfLine
  <2>3. /\ a = WordAddress /\ b \in WordMask(field, windex)
              => /\ FieldBit(field, windex, b) \in written
                 /\ Promise!Place(job, FieldBit(field, windex, b)) = p
        /\ \A i \in written : Promise!Place(job, i) = p
              => /\ a = WordAddress /\ b \in WordMask(field, windex)
                 /\ i = FieldBit(field, windex, b)
    <3>. HIDE DEF job, a, b
    <3>. QED BY <1>2, <1>3, <2>2, WrittenBits DEF WordAddress
  <2>. HIDE DEF written, job, a, b
  <2>4. CASE a = WordAddress /\ b \in WordMask(field, windex)
    <3>. DEFINE x == FieldBit(field, windex, b)
    <3>1. x \in written /\ Promise!Place(job, x) = p
      BY <2>3, <2>4
    <3>2. \A i \in written : Promise!Place(job, i) = p => i = x
      BY <2>3
    <3>. HIDE DEF x
    <3>3. (CHOOSE i \in written : Promise!Place(job, i) = p) = x
      BY <3>1, <3>2
    <3>4. x \in FieldBits
      <4>1. x \in 0 .. field.size - 1
        BY <2>4 DEF x, WordMask
      <4>2. field.size <= 2 * W /\ field.size \in Int /\ W \in Int
        BY <1>2, GeometryAssumption DEF ValidSize
      <4>. QED BY <4>1, <4>2 DEF FieldBits
    <3>5. WordData(field, windex)[b] = field.data[x]
      BY <2>2, <3>4 DEF WordData, x
    <3>. QED BY <1>3, <1>5, <2>2, <2>4, <3>1, <3>3, <3>5 DEF a, b
  <2>5. CASE ~(a = WordAddress /\ b \in WordMask(field, windex))
    <3>1. ~\E i \in written : Promise!Place(job, i) = p
      BY <2>3, <2>5
    <3>. QED BY <1>5, <2>2, <2>5, <3>1 DEF a, b
  <2>. QED BY <2>4, <2>5
<1>7. AbsJob' = [job EXCEPT !.next = @ + 1]
  <2>1. active' /\ ~req'.io /\ req'.we = req.we
    BY <1>1, ServedOn
  <2>2. LastWord(field) \in 0 .. 2
    BY <1>2, LastWordRange
  <2>3. Collected' = ZeroData
    BY <1>1, <1>5 DEF Collected
  <2>4. JobField' = field
    BY <1>5 DEF JobField
  <2>5. AbsJob' = [op |-> "write", start |-> field.addr * W + field.off,
                   size |-> field.size, data |-> field.data, keep |-> field.keep,
                   next |-> windex + 1, got |-> ZeroData]
    BY <1>1, <1>2, <1>5, <2>1, <2>3, <2>4 DEF AbsJob, AtLast
  <2>6. AbsJob = [op |-> "write", start |-> field.addr * W + field.off,
                  size |-> field.size, data |-> field.data, keep |-> field.keep,
                  next |-> windex, got |-> ZeroData]
    BY <1>1 DEF AbsJob, JobField, Collected
  <2>. QED BY <2>5, <2>6
<1>. QED BY <1>3, <1>4, <1>6, <1>7 DEF Promise!WriteOneWord

\* The clock edge that ends a CPU word read is one step of the abstract read.
LEMMA ReadRefines ==
  ASSUME JobInv, NEW ack \in BOOLEAN, NEW refresh \in Rows \cup {NoRow},
         NEW ioLive \in IoValues, Clock(ack, refresh, ioLive),
         seq = "READ_WORD", CpuAck(ack)
  PROVE  Promise!ReadOneWord
<1>. DEFINE in == SeqPins(ack, ReadData)
            job == AbsJob
<1>1. Inv /\ req.we \in BOOLEAN /\ ~req.we /\ active /\ ~req.io
  BY DEF JobInv, Inv, FabricInv, Direction, Reservation, TypeOK, CoreRequest
<1>2. /\ field \in Field /\ windex \in 0 .. 2 /\ ValidSize(field.size)
      /\ windex <= LastWord(field)
      /\ mem \in [WordAddr -> Word] /\ window \in [0 .. 2 -> Word]
  BY <1>1 DEF Inv, FabricInv, TypeOK, SeqTypeOK, WindowBound
<1>3. /\ job.op = "read" /\ job.start = field.addr * W + field.off
      /\ job.size = field.size /\ job.next = windex /\ job.got = Collected
  BY <1>1, ServedJob
<1>4. ~Promise!Finished(job)
  BY JobProgress
<1>5. arb = "CPU" /\ ack /\ ~CpuWe /\ ReadData = mem[WordAddress]
  <2>1. arb = "CPU" /\ ack /\ ~CpuWe
    BY <1>1 DEF CpuAck, CpuWe, WordWe
  <2>. QED BY <1>1, <2>1, CommandOfCpu DEF ReadData, CycleReq, Masters
<1>6. mem' = mem
  <2>1. ~WriteCycle /\ ~HoldAck
    BY <1>5, WriteCycles DEF HoldAck
  <2>. QED BY <2>1 DEF Clock, FabricClock, Memory, MemoryWrite, ExternalWrite, MemoryKeeps
<1>7. ReadWord(in) /\ in.rdata = ReadData
  <2>1. in.ack = CpuAck(ack) /\ in.rdata = ReadData /\ SequencerClock(in)
    BY DEF SeqPins, Clock, FabricClock
  <2>. HIDE DEF in
  <2>. QED BY <2>1 DEF SequencerClock, SeqIdle, TakeField, SelectWrite, ReadOldWord,
              Reread, WriteWord, SeqWait, Respond
<1>. HIDE DEF in
<1>8. window' = [window EXCEPT ![windex] = mem[WordAddress]] /\ field' = field
  BY <1>5, <1>7 DEF ReadWord
<1>9. \A i \in 0 .. field.size - 1 :
        LET k == (field.off + i) \div W
            b == (field.off + i) % W
        IN  /\ k \in 0 .. 2 /\ b \in Lanes /\ i \in FieldBits
            /\ Promise!WordOf(job, i) = k
            /\ Promise!Place(job, i) = NthWord(field, k) * W + b
  <2>. HIDE DEF job
  <2>. QED BY <1>2, <1>3, JobPlaces
<1>10. \A i \in 0 .. field.size - 1 :
         (field.off + i) \div W = windex
           => AbsLine[Promise!Place(job, i)] = mem[WordAddress][(field.off + i) % W]
  <2>. HIDE DEF job
  <2>1. SUFFICES ASSUME NEW i \in 0 .. field.size - 1, (field.off + i) \div W = windex
                 PROVE  AbsLine[Promise!Place(job, i)] = mem[WordAddress][(field.off + i) % W]
    OBVIOUS
  <2>. DEFINE b == (field.off + i) % W
  <2>2. b \in Lanes /\ Promise!Place(job, i) = WordAddress * W + b
    BY <1>9, <2>1 DEF WordAddress
  <2>3. WordAddress \in WordAddr
    BY <1>1, WireTypes DEF Inv
  <2>. HIDE DEF b
  <2>4. /\ WordAddress * W + b \in 0 .. NWords * W - 1
        /\ (WordAddress * W + b) \div W = WordAddress /\ (WordAddress * W + b) % W = b
    BY <2>2, <2>3, LineOfLane
  <2>. QED BY <2>2, <2>4 DEF AbsLine, b
<1>. DEFINE read(n) ==
       [i \in FieldBits |->
          IF i < field.size /\ (field.off + i) \div W < n
          THEN window'[(field.off + i) \div W][(field.off + i) % W] ELSE 0]
<1>11. Collected' = [i \in Promise!DataBits |->
                       IF i \in Promise!BitsOf(job, job.next)
                       THEN AbsLine[Promise!Place(job, i)] ELSE job.got[i]]
  <2>1. Collected' = read(windex + 1)
    <3>1. CASE AtLast
      <4>1. seq' = "RESPONSE" /\ frdata' = Justify(window', field)
        BY <1>7, <3>1 DEF ReadWord
      <4>2. \A i \in FieldBits : i < field.size => (field.off + i) \div W < windex + 1
        <5>1. SUFFICES ASSUME NEW i \in FieldBits, i < field.size
                       PROVE  (field.off + i) \div W < windex + 1
          OBVIOUS
        <5>2. i \in 0 .. field.size - 1
          BY <1>2, <5>1 DEF FieldBits, ValidSize
        <5>3. (field.off + i) \div W \in 0 .. 2 /\ (field.off + i) \div W <= windex
          BY <1>2, <1>9, <3>1, <5>2, WordsInOrder DEF AtLast
        <5>. QED BY <1>2, <5>3
      <4>3. Collected' = Justify(window', field)
        BY <4>1 DEF Collected
      <4>. QED BY <4>2, <4>3 DEF Justify
    <3>2. CASE ~AtLast
      <4>1. seq' = "READ_WORD" /\ windex' = windex + 1
        BY <1>7, <3>2 DEF ReadWord
      <4>. QED BY <1>8, <4>1 DEF Collected
    <3>. QED BY <3>1, <3>2
  <2>2. job.got = [i \in FieldBits |->
                     IF i < field.size /\ (field.off + i) \div W < windex
                     THEN window[(field.off + i) \div W][(field.off + i) % W] ELSE 0]
    BY <1>3 DEF Collected
  <2>3. SUFFICES ASSUME NEW i \in FieldBits
                 PROVE  read(windex + 1)[i] =
                          IF i \in Promise!BitsOf(job, job.next)
                          THEN AbsLine[Promise!Place(job, i)] ELSE job.got[i]
    BY <2>1 DEF Promise!DataBits, FieldBits
  <2>. HIDE DEF job
  <2>. DEFINE k == (field.off + i) \div W
              b == (field.off + i) % W
  <2>4. i \in 0 .. field.size - 1 <=> i < field.size
    BY <1>2, GeometryAssumption DEF FieldBits, ValidSize
  <2>5. i < field.size => k \in 0 .. 2 /\ Promise!WordOf(job, i) = k
    BY <1>9, <2>4
  <2>6. i \in Promise!BitsOf(job, job.next) <=> i < field.size /\ k = windex
    BY <1>3, <2>4, <2>5 DEF Promise!BitsOf
  <2>7. CASE i < field.size /\ k = windex
    <3>1. AbsLine[Promise!Place(job, i)] = mem[WordAddress][b]
      BY <1>10, <2>4, <2>7
    <3>2. window'[k][b] = mem[WordAddress][b]
      BY <1>2, <1>8, <2>7
    <3>. QED BY <1>2, <2>6, <2>7, <3>1, <3>2
  <2>8. CASE i < field.size /\ k # windex
    <3>1. k < windex + 1 <=> k < windex
      BY <1>2, <2>5, <2>8
    <3>2. window'[k] = window[k]
      BY <1>2, <1>8, <2>5, <2>8
    <3>. QED BY <2>2, <2>6, <2>8, <3>1, <3>2
  <2>9. CASE ~(i < field.size)
    BY <2>2, <2>6, <2>9
  <2>. QED BY <2>7, <2>8, <2>9
<1>12. AbsJob' = [job EXCEPT !.next = @ + 1,
                             !.got = [i \in Promise!DataBits |->
                                        IF i \in Promise!BitsOf(job, job.next)
                                        THEN AbsLine[Promise!Place(job, i)] ELSE @[i]]]
  <2>1. active' /\ ~req'.io /\ ~req'.we
    BY <1>1, ServedOn
  <2>2. JobField' = field /\ seq' \in {"READ_WORD", "RESPONSE"}
    BY <1>7, <1>8 DEF JobField, ReadWord
  <2>3. AbsJob' = [op |-> "read", start |-> field.addr * W + field.off,
                   size |-> field.size, data |-> ZeroData, keep |-> {},
                   next |-> windex + 1, got |-> Collected']
    BY <1>2, <1>7, <1>8, <2>1, <2>2 DEF AbsJob, AtLast, ReadWord
  <2>4. job = [op |-> "read", start |-> field.addr * W + field.off,
               size |-> field.size, data |-> ZeroData, keep |-> {},
               next |-> windex, got |-> Collected]
    BY <1>1 DEF AbsJob, JobField
  <2>. DEFINE got == [i \in Promise!DataBits |->
                        IF i \in Promise!BitsOf(job, job.next)
                        THEN AbsLine[Promise!Place(job, i)] ELSE job.got[i]]
  <2>5. Collected' = got
    BY <1>11
  <2>. HIDE DEF job, got
  <2>6. [job EXCEPT !.next = @ + 1, !.got = got]
          = [op |-> "read", start |-> field.addr * W + field.off,
             size |-> field.size, data |-> ZeroData, keep |-> {},
             next |-> windex + 1, got |-> got]
    <3>. DEFINE counted == [job EXCEPT !.next = @ + 1]
    <3>1. [job EXCEPT !.next = @ + 1, !.got = got] = [counted EXCEPT !.got = got]
      OBVIOUS
    <3>2. counted
            = [op |-> "read", start |-> field.addr * W + field.off,
               size |-> field.size, data |-> ZeroData, keep |-> {},
               next |-> windex + 1, got |-> Collected]
      BY <2>4
    <3>. HIDE DEF counted
    <3>3. [counted EXCEPT !.got = got]
            = [op |-> "read", start |-> field.addr * W + field.off,
               size |-> field.size, data |-> ZeroData, keep |-> {},
               next |-> windex + 1, got |-> got]
      BY <3>2
    <3>. QED BY <3>1, <3>3
  <2>7. AbsJob' = [job EXCEPT !.next = @ + 1, !.got = got]
    BY <2>3, <2>5, <2>6
  <2>. QED BY <2>7 DEF got
<1>13. AbsLine' = AbsLine
  BY <1>6 DEF AbsLine
<1>. QED BY <1>3, <1>4, <1>12, <1>13 DEF Promise!ReadOneWord

\* Any other clock edge writes at most one aligned word, for another master.
LEMMA OtherWrites ==
  ASSUME Inv, NEW ack \in BOOLEAN, NEW refresh \in Rows \cup {NoRow},
         NEW ioLive \in IoValues, Clock(ack, refresh, ioLive),
         ~(seq = "WRITE_WORD" /\ CpuAck(ack))
  PROVE  Promise!OtherWrite \/ AbsLine' = AbsLine
<1>1. Memory(ack) /\ mem' \in [WordAddr -> Word] /\ mem \in [WordAddr -> Word]
  BY MemoryTypesStep DEF Clock, Inv, FabricInv, TypeOK
<1>2. ASSUME NEW a \in WordAddr, NEW w \in Word, mem' = [mem EXCEPT ![a] = w]
      PROVE  Promise!OtherWrite
  <2>1. DOMAIN AbsLine' = Promise!LineBits
    BY DEF AbsLine, Promise!LineBits
  <2>2. ASSUME NEW p \in Promise!LineBits
        PROVE  AbsLine'[p] \in {0, 1} /\ (p \div W # a => AbsLine'[p] = AbsLine[p])
    <3>1. p \div W \in WordAddr /\ p % W \in Lanes
      BY LaneOfLine DEF Promise!LineBits
    <3>2. AbsLine'[p] = mem'[p \div W][p % W] /\ AbsLine[p] = mem[p \div W][p % W]
      BY DEF AbsLine, Promise!LineBits
    <3>. DEFINE d == p \div W
                m == p % W
    <3>3. d \in WordAddr /\ m \in Lanes
      BY <3>1
    <3>. HIDE DEF d, m
    <3>4. mem'[d][m] \in {0, 1}
      BY <1>1, <3>3 DEF Word, Bit
    <3>5. d # a => mem'[d] = mem[d]
      BY <1>1, <1>2, <3>3
    <3>. QED BY <3>2, <3>4, <3>5 DEF d, m
  <2>3. a \in 0 .. NWords - 1
    BY DEF WordAddr
  <2>. QED BY <2>1, <2>2, <2>3 DEF Promise!OtherWrite
<1>3. CASE MemoryWrite(ack)
  <2>1. ~(arb = "CPU" /\ ~req.io /\ CpuWe)
    BY <1>3 DEF MemoryWrite, CpuWe, WordWe, CpuAck
  <2>2. mem' = [mem EXCEPT ![Command.addr] = Command.wdata]
        /\ Command.addr \in WordAddr /\ Command.wdata \in Word
    BY <1>3, WireTypes DEF MemoryWrite, Inv
  <2>. QED BY <1>2, <2>2
<1>4. CASE ExternalWrite
  <2>1. PICK a \in WordAddr, w \in MasterWords : mem' = [mem EXCEPT ![a] = w]
    BY <1>4 DEF ExternalWrite
  <2>2. w \in Word
    BY FabricAssumption
  <2>. QED BY <1>2, <2>1, <2>2
<1>5. CASE MemoryKeeps(ack)
  BY <1>5 DEF MemoryKeeps, AbsLine
<1>. QED BY <1>1, <1>3, <1>4, <1>5 DEF Memory

\* Once the old job has ended, taking the core's next request starts a job, or
\* an I/O access, which is none.
LEMMA TakeStarts ==
  ASSUME Inv, NEW ack \in BOOLEAN, NEW refresh \in Rows \cup {NoRow},
         NEW ioLive \in IoValues, Clock(ack, refresh, ioLive),
         Capture(ack), Promise!Finished(AbsJob)
  PROVE  Promise!StartJob \/ Promise!FinishJob
<1>1. RequestRegister(ack, ioLive)
  BY DEF Clock, FabricClock
<1>2. TakeRequest(ack, ioLive)
  BY <1>1 DEF RequestRegister, ServeRequest, NoRequest
<1>3. active' /\ seq' = "IDLE"
  BY <1>2, ClockIsFabricClock, AfterCapture DEF TakeRequest
<1>4. req' \in CoreRequest /\ lateField' \in Field
  BY <1>1, RequestTypesStep DEF Inv
<1>5. CASE req'.io
  BY <1>3, <1>5 DEF AbsJob, Promise!FinishJob, Promise!NoJob
<1>6. CASE ~req'.io
  <2>. DEFINE f == JobField'
              job == AbsJob'
  <2>1. f \in Field
    BY <1>3, <1>4 DEF JobField, CoreRequest
  <2>2. job = [op    |-> IF req'.we THEN "write" ELSE "read",
               start |-> f.addr * W + f.off,
               size  |-> f.size,
               data  |-> IF req'.we THEN f.data ELSE ZeroData,
               keep  |-> IF req'.we THEN f.keep ELSE {},
               next  |-> 0,
               got   |-> ZeroData]
    BY <1>3, <1>6 DEF AbsJob, Collected
  <2>. HIDE DEF f, job
  <2>3. f.addr * W + f.off \in Promise!LineBits
    BY <2>1, StartOfField DEF Promise!LineBits
  <2>4. /\ f.size \in 0 .. 4 * W - 1
        /\ f.data \in [Promise!DataBits -> {0, 1}] /\ f.keep \in SUBSET Promise!DataBits
    BY <2>1 DEF Field, FieldData, FieldBits, Bit, Promise!DataBits
  <2>5. ZeroData \in [Promise!DataBits -> {0, 1}] /\ ZeroData = Promise!NoBits
    BY DEF ZeroData, FieldBits, Promise!DataBits, Promise!NoBits
  <2>6. job \in Promise!JobType /\ job.next = 0 /\ job.got = Promise!NoBits
    BY <2>2, <2>3, <2>4, <2>5 DEF Promise!JobType
  <2>. QED BY <2>6 DEF Promise!StartJob, job
<1>. QED BY <1>5, <1>6

\* The sequencer takes the field its job is about, late data included.
LEMMA TakeFieldKeepsJob ==
  ASSUME JobInv, NEW ack \in BOOLEAN, NEW refresh \in Rows \cup {NoRow},
         NEW ioLive \in IoValues, Clock(ack, refresh, ioLive),
         active, ~req.io, seq = "IDLE"
  PROVE  AbsJob' = AbsJob
<1>. DEFINE in == SeqPins(ack, ReadData)
<1>1. Inv /\ req \in CoreRequest /\ lateField \in Field /\ late \in BOOLEAN
  BY DEF JobInv, Inv, FabricInv, TypeOK
<1>2. TakeField(in) /\ in.field = ReqField /\ in.we = req.we
  <2>1. in.req = (active /\ ~req.io) /\ in.field = ReqField /\ in.we = req.we
        /\ SequencerClock(in)
    BY DEF SeqPins, Clock, FabricClock
  <2>. HIDE DEF in
  <2>. QED BY <2>1 DEF SequencerClock, SeqIdle, ReadWord, SelectWrite, ReadOldWord,
              Reread, WriteWord, SeqWait, Respond
<1>. HIDE DEF in
<1>3. active' /\ ~req'.io /\ req'.we = req.we
  BY <1>1, ServedOn
<1>4. ReqField \in Field
  BY <1>1, ReqFieldType DEF Inv, FabricInv
<1>5. /\ JobField.addr = ReqField.addr /\ JobField.off = ReqField.off
      /\ JobField.size = ReqField.size /\ JobField.data = ReqField.data
      /\ JobField.keep = ReqField.keep
  <2>1. CASE late
    BY <1>1, <2>1 DEF JobField, ReqField, JobInv, LateAgrees, CoreRequest, Field
  <2>2. CASE ~late
    BY <2>2 DEF JobField, ReqField
  <2>. QED BY <1>1, <2>1, <2>2
<1>6. /\ field'.addr = ReqField.addr /\ field'.off = ReqField.off
      /\ field'.size = ReqField.size /\ field'.data = ReqField.data
      /\ req.we => field'.keep = ReqField.keep
  BY <1>2, <1>4 DEF TakeField, Field
<1>7. /\ seq' = (IF ~ValidSize(ReqField.size) THEN "RESPONSE"
                 ELSE IF req.we THEN "WRITE_SELECT" ELSE "READ_WORD")
      /\ windex' = 0 /\ frdata' = ZeroData
  BY <1>2 DEF TakeField
<1>8. JobField' = field'
  BY <1>7 DEF JobField
<1>9. Collected' = ZeroData
  <2>1. CASE seq' = "READ_WORD"
    <3>1. \A i \in FieldBits :
            ~(i < field'.size /\ (field'.off + i) \div W < 0)
      <4>1. field'.off \in Lanes
        BY <1>4, <1>6 DEF Field
      <4>2. \A i \in FieldBits :
              (field'.off + i) \div W \in Int /\ (field'.off + i) \div W >= 0
        BY <4>1, WordFromZero
      <4>. QED BY <4>2
    <3>. QED BY <1>7, <2>1, <3>1 DEF Collected, ZeroData
  <2>2. CASE seq' # "READ_WORD"
    BY <1>7, <2>2 DEF Collected
  <2>. QED BY <2>1, <2>2
<1>10. AbsJob' = [op    |-> IF req.we THEN "write" ELSE "read",
                  start |-> ReqField.addr * W + ReqField.off,
                  size  |-> ReqField.size,
                  data  |-> IF req.we THEN ReqField.data ELSE ZeroData,
                  keep  |-> IF req.we THEN ReqField.keep ELSE {},
                  next  |-> 0, got |-> ZeroData]
  BY <1>3, <1>6, <1>7, <1>8, <1>9 DEF AbsJob
<1>11. AbsJob = [op    |-> IF req.we THEN "write" ELSE "read",
                 start |-> ReqField.addr * W + ReqField.off,
                 size  |-> ReqField.size,
                 data  |-> IF req.we THEN ReqField.data ELSE ZeroData,
                 keep  |-> IF req.we THEN ReqField.keep ELSE {},
                 next  |-> 0, got |-> ZeroData]
  BY <1>5 DEF AbsJob, Collected
<1>. QED BY <1>10, <1>11

\* Between its acknowledgements the sequencer leaves the job as it is.
LEMMA WaitingKeepsJob ==
  ASSUME JobInv, NEW ack \in BOOLEAN, NEW refresh \in Rows \cup {NoRow},
         NEW ioLive \in IoValues, Clock(ack, refresh, ioLive),
         seq \notin {"IDLE", "RESPONSE"},
         ~(seq \in {"READ_WORD", "WRITE_WORD"} /\ CpuAck(ack))
  PROVE  AbsJob' = AbsJob
<1>. DEFINE in == SeqPins(ack, ReadData)
<1>1. SequencerClock(in) /\ in.ack = CpuAck(ack)
  BY DEF SeqPins, Clock, FabricClock
<1>. HIDE DEF in
<1>2. Inv /\ active /\ ~req.io /\ (seq \in WriteStates \/ seq = "READ_WORD")
  BY DEF JobInv, Inv, FabricInv, Reservation, TypeOK, SeqTypeOK, SeqStates, WriteStates
<1>3. active' /\ ~req'.io /\ req'.we = req.we
  BY <1>2, ServedOn
<1>4. /\ field' = field /\ windex' = windex /\ window' = window /\ frdata' = frdata
      /\ seq \in WriteStates => seq' \in WriteStates
      /\ seq = "READ_WORD" => seq' = "READ_WORD"
  <2>. USE DEF WriteStates
  <2>1. CASE SelectWrite(in)  BY <2>1 DEF SelectWrite
  <2>2. CASE ReadOldWord(in)  BY <2>2 DEF ReadOldWord
  <2>3. CASE Reread(in)       BY <2>3 DEF Reread
  <2>4. CASE SeqWait(in)      BY <2>4 DEF SeqWait, seqVars
  <2>. QED BY <1>1, <1>2, <2>1, <2>2, <2>3, <2>4
           DEF SequencerClock, SeqIdle, TakeField, ReadWord, WriteWord, Respond
<1>5. Collected' = Collected
  <2>1. CASE seq \in WriteStates
    BY <1>4, <2>1 DEF Collected, WriteStates
  <2>2. CASE seq = "READ_WORD"
    BY <1>4, <2>2 DEF Collected
  <2>. QED BY <1>2, <2>1, <2>2
<1>6. JobField' = field /\ JobField = field
  BY <1>2, <1>4 DEF JobField, WriteStates
<1>7. seq' \notin {"IDLE", "RESPONSE"}
  BY <1>2, <1>4 DEF WriteStates
<1>. QED BY <1>2, <1>3, <1>4, <1>5, <1>6, <1>7 DEF AbsJob

\* What becomes of the job in a clock in which it is not served.
LEMMA JobWaits ==
  ASSUME JobInv, NEW ack \in BOOLEAN, NEW refresh \in Rows \cup {NoRow},
         NEW ioLive \in IoValues, Clock(ack, refresh, ioLive),
         ~(seq \in {"READ_WORD", "WRITE_WORD"} /\ CpuAck(ack))
  PROVE  Promise!StartJob \/ Promise!FinishJob \/ AbsJob' = AbsJob
<1>1. /\ Inv /\ Reservation /\ RequestRegister(ack, ioLive)
      /\ SequencerClock(SeqPins(ack, ReadData))
  BY DEF Clock, FabricClock, JobInv, Inv, FabricInv
<1>2. CASE ~active \/ req.io
  <2>1. AbsJob = Promise!NoJob /\ Promise!Finished(AbsJob)
    BY <1>2 DEF AbsJob, Promise!Finished, Promise!NoJob
  <2>2. CASE Capture(ack)
    BY <1>1, <2>1, <2>2, TakeStarts
  <2>3. CASE ~Capture(ack)
    <3>1. ~active' \/ req'.io
      BY <1>1, <1>2, <2>3 DEF RequestRegister, TakeRequest, ServeRequest, NoRequest,
         Inv, FabricInv, TypeOK, CoreRequest
    <3>. QED BY <2>1, <3>1 DEF AbsJob, Promise!NoJob
  <2>. QED BY <2>2, <2>3
<1>3. CASE active /\ ~req.io /\ seq = "RESPONSE"
  <2>1. Promise!Finished(AbsJob)
    BY <1>3, JobProgress
  <2>2. CASE Capture(ack)
    BY <1>1, <2>1, <2>2, TakeStarts
  <2>3. CASE ~Capture(ack)
    <3>1. ~active'
      BY <1>1, <1>3, <2>3 DEF RequestRegister, TakeRequest, ServeRequest, NoRequest,
         RequestDone
    <3>. QED BY <2>1, <3>1 DEF AbsJob, Promise!FinishJob, Promise!NoJob
  <2>. QED BY <2>2, <2>3
<1>4. CASE active /\ ~req.io /\ seq = "IDLE"
  BY <1>4, TakeFieldKeepsJob
<1>5. CASE active /\ ~req.io /\ seq \notin {"IDLE", "RESPONSE"}
  BY <1>5, WaitingKeepsJob
<1>. QED BY <1>2, <1>3, <1>4, <1>5

-----------------------------------------------------------------------------
(* The refinement. *)

\* Memory is clear and no job is under way after reset.
LEMMA InitRefines == Init => Promise!Init
<1>1. ASSUME Init PROVE AbsLine = [p \in Promise!LineBits |-> 0]
  <2>1. ASSUME NEW p \in 0 .. NWords * W - 1 PROVE mem[p \div W][p % W] = 0
    BY <1>1, LaneOfLine DEF Init, ZeroWord
  <2>. QED BY <2>1 DEF AbsLine, Promise!LineBits
<1>2. Init => AbsJob = Promise!NoJob
  BY DEF Init, AbsJob, Promise!NoJob
<1>. QED BY <1>1, <1>2 DEF Promise!Init

\* Every clock edge is a step of the field memory, or leaves it alone.
LEMMA StepRefines ==
  JobInv /\ [Next]_vars => [Promise!Next]_<<AbsLine, AbsJob>>
<1> SUFFICES ASSUME JobInv, [Next]_vars
             PROVE  Promise!Next \/ (AbsLine' = AbsLine /\ AbsJob' = AbsJob)
  OBVIOUS
<1>1. CASE Next
  <2>1. PICK ack \in BOOLEAN, refresh \in Rows \cup {NoRow}, ioLive \in IoValues :
          Clock(ack, refresh, ioLive)
    BY <1>1 DEF Next
  <2>2. CASE seq = "WRITE_WORD" /\ CpuAck(ack)
    BY <2>1, <2>2, WriteRefines DEF Promise!Next
  <2>3. CASE seq = "READ_WORD" /\ CpuAck(ack)
    BY <2>1, <2>3, ReadRefines DEF Promise!Next
  <2>4. CASE ~(seq \in {"READ_WORD", "WRITE_WORD"} /\ CpuAck(ack))
    <3>1. Promise!StartJob \/ Promise!FinishJob \/ AbsJob' = AbsJob
      BY <2>1, <2>4, JobWaits
    <3>2. Promise!OtherWrite \/ AbsLine' = AbsLine
      BY <2>1, <2>4, OtherWrites DEF JobInv
    <3>. QED BY <3>1, <3>2 DEF Promise!Next
  <2>. QED BY <2>2, <2>3, <2>4
<1>2. CASE UNCHANGED vars
  BY <1>2 DEF vars, seqVars, fabricVars, AbsLine, AbsJob, JobField, Collected
<1>. QED BY <1>1, <1>2

\* The memory fabric implements the abstract field memory: whatever host,
\* refresh and HOLD do between the word cycles of an access, each of them is
\* one atomic update or read of the field's bits in that word, the words come
\* in order, and the core's accesses come one after the other.
THEOREM FabricIsFieldMemory == Spec => FieldMemorySpec
<1>. QED BY InitRefines, StepRefines, JobInvHolds, PTL
         DEF Spec, FieldMemorySpec, Promise!Spec
=============================================================================
