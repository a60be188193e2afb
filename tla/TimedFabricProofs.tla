------------------------- MODULE TimedFabricProofs -------------------------
(***************************************************************************)
(* Proofs about the fabric behind the bus timer, for every width, address  *)
(* space, set of requests and length of a machine state: the timer is      *)
(* nothing but delay, and the cycles it paces end when they may.           *)
(*                                                                         *)
(* The memory of TimedFabric runs ahead of the one the fabric knows, so    *)
(* the lemmas about FabricClock are used here without MemoryFabric's own   *)
(* memory; what relates the two memories is in KeptInv.                    *)
(***************************************************************************)
EXTENDS TimedFabric, MemoryFabricProofs

-----------------------------------------------------------------------------
(* The inductive invariants. *)

\* What a read cycle would return of settled memory.
SettledRead == IF CycleReq /\ Command.kind = "WORD_READ"
               THEN settled[Command.addr] ELSE ZeroWord

TimerTypeOK ==
    /\ timed \in BOOLEAN /\ extDone \in BOOLEAN
    /\ heldData \in Word
    /\ settled \in [WordAddr -> Word]
    /\ hold \in HoldLevels

\* The timer keeps an answer only for the cycle it times.
CycleTimed == (timed => CycleReq) /\ (extDone => timed)

\* A kept answer is the one the controller would still give.
AnswerKept == extDone => heldData = SettledRead

\* Memory is ahead of what the fabric knows by the write kept back, if any.
AheadByOneWrite ==
    mem = IF extDone /\ WriteCycle THEN [settled EXCEPT ![Command.addr] = Command.wdata]
          ELSE settled

KeptInv == FabricInv /\ TimerTypeOK /\ CycleTimed /\ AnswerKept /\ AheadByOneWrite

-----------------------------------------------------------------------------
(* One clock: the answer that is kept, and the write that runs ahead. *)

\* The timer acknowledges the cycle it times, with what settled memory says.
LEMMA TimerWires ==
  ASSUME KeptInv, NEW extAck \in BOOLEAN, extAck => ExtReq(CycleReq)
  PROVE  /\ TimerAck(TimerPins(extAck)) \in BOOLEAN
         /\ TimerAck(TimerPins(extAck)) => Last /\ (extDone \/ extAck)
         /\ TimerRdata(TimerPins(extAck)) \in Word
         /\ TimerAck(TimerPins(extAck)) => TimerRdata(TimerPins(extAck)) = SettledRead
         /\ extAck => CycleReq /\ ~extDone /\ ReadData = SettledRead
<1>. DEFINE in == TimerPins(extAck)
<1>1. /\ in.req = CycleReq /\ in.extAck = extAck
      /\ in.extRdata = IF extAck THEN ReadData ELSE ZeroWord
  BY DEF TimerPins
<1>2. ReadData \in Word /\ ZeroWord \in Word /\ heldData \in Word
  BY WireTypes, ZeroTypes DEF KeptInv, TimerTypeOK
<1>3. ~extDone => ReadData = SettledRead
  BY DEF KeptInv, AheadByOneWrite, ReadData, SettledRead
<1>4. extAck => CycleReq /\ ~extDone
  BY DEF KeptInv, CycleTimed, ExtReq
<1>. HIDE DEF in
<1>5. TimerAck(in) \in BOOLEAN /\ (TimerAck(in) => Last /\ (extDone \/ extAck))
  BY <1>1 DEF TimerAck, Ready, Last
<1>6. TimerRdata(in) \in Word
  BY <1>1, <1>2 DEF TimerRdata
<1>7. TimerAck(in) => TimerRdata(in) = SettledRead
  BY <1>1, <1>3, <1>5 DEF TimerRdata, KeptInv, AnswerKept
<1>. QED BY <1>3, <1>4, <1>5, <1>6, <1>7 DEF in

\* What the timer remembers of the cycle after a clock.
LEMMA TimerMoves ==
  ASSUME KeptInv, NEW extAck \in BOOLEAN, extAck => ExtReq(CycleReq),
         TimerClock(TimerPins(extAck))
  PROVE  IF TimerAck(TimerPins(extAck))
         THEN timed' = FALSE /\ extDone' = FALSE /\ heldData' = heldData
         ELSE /\ timed' = (timed \/ (CycleReq /\ busCnt = 0))
              /\ extDone' = (extDone \/ extAck)
              /\ heldData' = IF extAck THEN ReadData ELSE heldData
<1>. DEFINE in == TimerPins(extAck)
<1>1. /\ in.req = CycleReq /\ in.extAck = extAck
      /\ in.extRdata = IF extAck THEN ReadData ELSE ZeroWord
  BY DEF TimerPins
<1>2. timed \in BOOLEAN /\ extDone \in BOOLEAN /\ (extAck => ExtReq(in.req))
  BY <1>1 DEF KeptInv, TimerTypeOK
<1>3. TimerAck(in) => timed
  BY TimerWires DEF Last
<1>4. TimerClock(in)
  OBVIOUS
<1>. HIDE DEF in
<1>5. timed' = (Start(in) \/ (timed /\ ~TimerAck(in)))
  BY <1>4 DEF TimerClock, Ownership
<1>6. /\ TimerAck(in) => timed' = FALSE
      /\ ~TimerAck(in) => timed' = (timed \/ (CycleReq /\ busCnt = 0))
  BY <1>1, <1>2, <1>3, <1>5 DEF Start
<1>7. /\ TimerAck(in) => extDone' = FALSE /\ heldData' = heldData
      /\ ~TimerAck(in) => /\ extDone' = (extDone \/ (ExtReq(in.req) /\ in.extAck))
                          /\ heldData' = IF ExtReq(in.req) /\ in.extAck THEN in.extRdata
                                         ELSE heldData
  BY <1>4 DEF TimerClock, KeepAnswer
<1>8. ~TimerAck(in) => /\ extDone' = (extDone \/ extAck)
                      /\ heldData' = IF extAck THEN ReadData ELSE heldData
  BY <1>1, <1>2, <1>7
<1>. QED BY <1>6, <1>7, <1>8 DEF in

\* While a cycle is under way memory changes by its write alone, when the
\* controller performs it.
LEMMA CycleMemory ==
  ASSUME CycleReq, NEW extAck \in BOOLEAN, Memory(extAck)
  PROVE  mem' = IF extAck /\ WriteCycle THEN [mem EXCEPT ![Command.addr] = Command.wdata]
                ELSE mem
<1>1. ~ExternalWrite
  BY DEF CycleReq, Masters, ExternalWrite, HoldAck
<1>. QED BY <1>1 DEF Memory, MemoryWrite, MemoryKeeps

\* A clock of the timed design is one of the fabric's.
LEMMA TimedClockIsFabricClock ==
  ASSUME KeptInv, NEW extAck \in BOOLEAN, NEW refresh \in Rows \cup {NoRow},
         NEW ioLive \in IoValues, TimedClock(extAck, refresh, ioLive),
         NEW ack, ack = TimerAck(TimerPins(extAck)),
         NEW rdata, rdata = TimerRdata(TimerPins(extAck))
  PROVE  /\ FabricInv
         /\ ack \in BOOLEAN /\ (ack => CycleReq)
         /\ rdata \in Word
         /\ FabricClock(ack, rdata, refresh, ioLive)
         /\ hold' \in BOOLEAN /\ hold' \in HoldLevels
         /\ mem' \in [WordAddr -> Word]
<1>1. /\ FabricClock(ack, rdata, refresh, ioLive)
      /\ HoldClient /\ (extAck => ExtReq(CycleReq)) /\ Memory(extAck)
  BY DEF TimedClock, Controller
<1>2. FabricInv
  BY DEF KeptInv
<1>3. mem' \in [WordAddr -> Word]
  BY <1>1, <1>2, MemoryTypesStep
<1>4. hold' \in BOOLEAN /\ hold' \in HoldLevels
  BY <1>1, FabricAssumption DEF HoldClient
<1>5. ack \in BOOLEAN /\ (ack => CycleReq) /\ rdata \in Word
  BY <1>1, TimerWires DEF Last, KeptInv, CycleTimed
<1>. QED BY <1>1, <1>2, <1>3, <1>4, <1>5

\* A clock keeps what relates the two memories.
LEMMA KeptStep ==
  ASSUME KeptInv, NEW extAck \in BOOLEAN, NEW refresh \in Rows \cup {NoRow},
         NEW ioLive \in IoValues, TimedClock(extAck, refresh, ioLive)
  PROVE  KeptInv'
<1>. DEFINE ack == TimerAck(TimerPins(extAck))
            rdata == TimerRdata(TimerPins(extAck))
<1>1. /\ FabricInv /\ ack \in BOOLEAN /\ (ack => CycleReq) /\ rdata \in Word
      /\ FabricClock(ack, rdata, refresh, ioLive)
      /\ hold' \in BOOLEAN /\ hold' \in HoldLevels
      /\ mem' \in [WordAddr -> Word]
  BY TimedClockIsFabricClock
<1>2. /\ extAck => ExtReq(CycleReq)
      /\ TimerClock(TimerPins(extAck)) /\ Memory(extAck)
      /\ settled' = IF CycleReq /\ ~ack THEN settled ELSE mem'
  BY DEF TimedClock, Controller, History
<1>3. IF ack THEN timed' = FALSE /\ extDone' = FALSE /\ heldData' = heldData
      ELSE /\ timed' = (timed \/ (CycleReq /\ busCnt = 0))
           /\ extDone' = (extDone \/ extAck)
           /\ heldData' = IF extAck THEN ReadData ELSE heldData
  BY <1>2, TimerMoves
<1>4. extAck => CycleReq /\ ~extDone /\ ReadData = SettledRead
  BY <1>2, TimerWires
<1>5. timed \in BOOLEAN /\ extDone \in BOOLEAN /\ heldData \in Word /\ ReadData \in Word
      /\ settled \in [WordAddr -> Word]
  BY <1>1, WireTypes DEF KeptInv, TimerTypeOK
<1>. HIDE DEF ack, rdata
<1>6. FabricInv'
  BY <1>1, FabricStep
<1>7. TimerTypeOK'
  <2>1. timed' \in BOOLEAN /\ extDone' \in BOOLEAN /\ heldData' \in Word
    BY <1>3, <1>5
  <2>. QED BY <1>1, <1>2, <1>5, <2>1 DEF TimerTypeOK
<1>8. CycleTimed' /\ AnswerKept' /\ AheadByOneWrite'
  <2>1. CASE ack
    BY <1>2, <1>3, <2>1 DEF CycleTimed, AnswerKept, AheadByOneWrite
  <2>2. CASE ~CycleReq
    <3>1. ~timed /\ ~extDone /\ ~extAck /\ ~ack
      BY <1>1, <1>4, <2>2 DEF KeptInv, CycleTimed
    <3>2. ~timed' /\ ~extDone' /\ settled' = mem'
      BY <1>2, <1>3, <2>2, <3>1
    <3>. QED BY <3>2 DEF CycleTimed, AnswerKept, AheadByOneWrite
  <2>3. CASE CycleReq /\ ~ack
    <3>1. arb' = arb /\ Command' = Command /\ settled' = settled
      BY <1>1, <1>2, <2>3, CommandStep
    <3>2. CycleReq' /\ WriteCycle' = WriteCycle /\ SettledRead' = SettledRead
      BY <2>3, <3>1 DEF CycleReq, WriteCycle, SettledRead
    <3>3. extAck => timed \/ busCnt = 0
      BY <1>2 DEF ExtReq
    <3>4. CycleTimed'
      BY <1>3, <2>3, <3>2, <3>3 DEF CycleTimed, KeptInv
    <3>5. AnswerKept'
      <4>1. CASE extAck
        BY <1>3, <1>4, <2>3, <3>2, <4>1 DEF AnswerKept
      <4>2. CASE ~extAck
        <5>1. (extDone' => extDone) /\ heldData' = heldData
          BY <1>3, <2>3, <4>2
        <5>. QED BY <3>2, <5>1 DEF AnswerKept, KeptInv
      <4>. QED BY <4>1, <4>2
    <3>6. mem' = IF extAck /\ WriteCycle THEN [mem EXCEPT ![Command.addr] = Command.wdata]
                 ELSE mem
      BY <1>2, <2>3, CycleMemory
    <3>7. AheadByOneWrite'
      BY <1>3, <1>4, <2>3, <3>1, <3>2, <3>6 DEF AheadByOneWrite, KeptInv
    <3>. QED BY <3>4, <3>5, <3>7
  <2>. QED BY <1>1, <2>1, <2>2, <2>3
<1>. QED BY <1>6, <1>7, <1>8 DEF KeptInv

\* Every reachable state of the timed design satisfies it.
LEMMA KeptInvHolds == TimedSpec => []KeptInv
<1>1. TimedInit => KeptInv
  <2>. SUFFICES ASSUME TimedInit PROVE KeptInv
    OBVIOUS
  <2>1. Inv
    BY InitInv DEF TimedInit
  <2>2. TimerTypeOK
    BY <2>1, FabricAssumption, ZeroTypes DEF TimedInit, TimerInit, Init, TimerTypeOK
  <2>3. CycleTimed /\ AnswerKept /\ AheadByOneWrite
    BY DEF TimedInit, TimerInit, CycleTimed, AnswerKept, AheadByOneWrite
  <2>. QED BY <2>1, <2>2, <2>3 DEF KeptInv, Inv
<1>2. KeptInv /\ [TimedNext]_timedVars => KeptInv'
  <2>. SUFFICES ASSUME KeptInv, [TimedNext]_timedVars PROVE KeptInv'
    OBVIOUS
  <2>1. CASE TimedNext
    BY <2>1, KeptStep DEF TimedNext
  <2>2. CASE UNCHANGED timedVars
    <3>1. FabricInv'
      BY <2>2, FabricStands DEF KeptInv, FabricInv, TypeOK, timedVars, vars, clientVars
    <3>2. UNCHANGED Command /\ UNCHANGED WriteCycle /\ UNCHANGED CycleReq
      BY <2>2, CommandStands DEF timedVars, vars, clientVars, arbVars, WriteCycle, CycleReq
    <3>3. TimerTypeOK' /\ CycleTimed' /\ AnswerKept' /\ AheadByOneWrite'
      BY <2>2, <3>2 DEF timedVars, vars, clientVars, timerVars, historyVars, KeptInv,
         TimerTypeOK, CycleTimed, AnswerKept, AheadByOneWrite, SettledRead
    <3>. QED BY <3>1, <3>3 DEF KeptInv
  <2>. QED BY <2>1, <2>2
<1>. QED BY <1>1, <1>2, PTL DEF TimedSpec

-----------------------------------------------------------------------------
(* The timed design implements the fabric without a timer.  Its blocks are  *)
(* the same; only the memory they have behind them is the settled one.      *)

\* The arbiter does not look at memory.
LEMMA SameArbiter == \A in : Untimed!ArbiterClock(in) <=> ArbiterClock(in)
BY DEF Masters, Untimed!Masters, Free, Untimed!Free, GrantHold, Untimed!GrantHold, GrantReserved,
   Untimed!GrantReserved, GrantScreen, Untimed!GrantScreen, GrantDram, Untimed!GrantDram,
   GrantHost, Untimed!GrantHost, GrantCpu, Untimed!GrantCpu, NothingToDo, Untimed!NothingToDo,
   KeepHold, Untimed!KeepHold, EndHold, Untimed!EndHold, CycleRuns, Untimed!CycleRuns,
   EndCycle, Untimed!EndCycle, Arbitrate, Untimed!Arbitrate, RefreshDue, Untimed!RefreshDue,
   RetireDram, Untimed!RetireDram, CaptureDram, Untimed!CaptureDram, RefreshCapture,
   Untimed!RefreshCapture, ArbiterClock, Untimed!ArbiterClock

\* Nor does the sequencer.
LEMMA SameSequencer == \A in : Untimed!SequencerClock(in) <=> SequencerClock(in)
BY DEF Lanes, Untimed!Lanes, FieldBits, Untimed!FieldBits, ZeroData, Untimed!ZeroData, ZeroWord,
   Untimed!ZeroWord, ValidSize, Untimed!ValidSize, LastWord, Untimed!LastWord, NthWord,
   Untimed!NthWord, FieldBit, Untimed!FieldBit, WordMask, Untimed!WordMask, WordData,
   Untimed!WordData, Merge, Untimed!Merge, NeedsRead, Untimed!NeedsRead, Justify,
   Untimed!Justify, seqVars, Untimed!seqVars, WordWe, Untimed!WordWe, AtLast, Untimed!AtLast,
   SeqIdle, Untimed!SeqIdle, TakeField, Untimed!TakeField, ReadWord, Untimed!ReadWord,
   SelectWrite, Untimed!SelectWrite, ReadOldWord, Untimed!ReadOldWord, Reread, Untimed!Reread,
   WriteWord, Untimed!WriteWord, SeqWait, Untimed!SeqWait, Respond, Untimed!Respond,
   SequencerClock, Untimed!SequencerClock

\* Nor do the request register and the clients.
LEMMA SameClients ==
  \A ack, ioLive : /\ Untimed!RequestRegister(ack, ioLive) <=> RequestRegister(ack, ioLive)
                   /\ Untimed!CoreClient(ack) <=> CoreClient(ack)
                   /\ Untimed!HostClient(ack) <=> HostClient(ack)
                   /\ Untimed!ScreenClient(ack) <=> ScreenClient(ack)
BY DEF CpuAck, Untimed!CpuAck, RequestDone, Untimed!RequestDone, Capture, Untimed!Capture, Posts,
   Untimed!Posts, CoreAck, Untimed!CoreAck, AsPresented, Untimed!AsPresented, TakeRequest,
   Untimed!TakeRequest, ServeRequest, Untimed!ServeRequest, NoRequest, Untimed!NoRequest,
   IoSampling, Untimed!IoSampling, RequestRegister, Untimed!RequestRegister, CoreClient,
   Untimed!CoreClient, HostClient, Untimed!HostClient, ScreenClient, Untimed!ScreenClient,
   ReqField, Untimed!ReqField, ZeroData, Untimed!ZeroData, FieldBits, Untimed!FieldBits

\* The wires between them are the same.
LEMMA SamePins ==
  \A ack, rdata, refresh, ioLive :
     /\ Untimed!ArbPins(ack, refresh, ioLive) = ArbPins(ack, refresh, ioLive)
     /\ Untimed!SeqPins(ack, rdata) = SeqPins(ack, rdata)
BY DEF ArbPins, Untimed!ArbPins, SeqPins, Untimed!SeqPins, CpuAck, Untimed!CpuAck, ReqField,
   Untimed!ReqField, CpuReq, Untimed!CpuReq, CpuWe, Untimed!CpuWe, CpuLock, Untimed!CpuLock,
   Restart, Untimed!Restart, WordReq, Untimed!WordReq, WordWe, Untimed!WordWe, WordLock,
   Untimed!WordLock, Lanes, Untimed!Lanes, FieldBits, Untimed!FieldBits, ZeroData,
   Untimed!ZeroData, ZeroWord, Untimed!ZeroWord, ValidSize, Untimed!ValidSize, LastWord,
   Untimed!LastWord, NthWord, Untimed!NthWord, FieldBit, Untimed!FieldBit, WordMask,
   Untimed!WordMask, WordData, Untimed!WordData, Merge, Untimed!Merge, NeedsRead,
   Untimed!NeedsRead, Justify, Untimed!Justify

\* So is the cycle on the controller interface.
LEMMA SameCommand ==
  /\ Untimed!CycleReq <=> CycleReq
  /\ Untimed!HoldAck <=> HoldAck
  /\ Untimed!Command = Command
  /\ Untimed!WriteCycle <=> WriteCycle
BY DEF Command, Untimed!Command, WriteCycle, Untimed!WriteCycle, HoldAck, Untimed!HoldAck,
   CycleReq, Untimed!CycleReq, Masters, Untimed!Masters, Restart, Untimed!Restart, ReqField,
   Untimed!ReqField, CpuReq, Untimed!CpuReq, CpuWe, Untimed!CpuWe, CpuLock, Untimed!CpuLock,
   CpuAddr, Untimed!CpuAddr, LowWord, Untimed!LowWord, CpuWdata, Untimed!CpuWdata, WordReq,
   Untimed!WordReq, WordWe, Untimed!WordWe, WordLock, Untimed!WordLock, WordAddress,
   Untimed!WordAddress, WordWdata, Untimed!WordWdata, Lanes, Untimed!Lanes, FieldBits,
   Untimed!FieldBits, ZeroData, Untimed!ZeroData, ZeroWord, Untimed!ZeroWord, ValidSize,
   Untimed!ValidSize, LastWord, Untimed!LastWord, NthWord, Untimed!NthWord, FieldBit,
   Untimed!FieldBit, WordMask, Untimed!WordMask, WordData, Untimed!WordData, Merge,
   Untimed!Merge, NeedsRead, Untimed!NeedsRead, Justify, Untimed!Justify

\* So the clock of the fabric is, but for the data it is given.
LEMMA SameFabric ==
  \A ack, rdata, refresh, ioLive :
     Untimed!FabricClock(ack, rdata, refresh, ioLive) <=> FabricClock(ack, rdata, refresh, ioLive)
BY SameArbiter, SameSequencer, SameClients, SamePins DEF Untimed!FabricClock, FabricClock

\* The sequencer looks at the data of a cycle that is acknowledged only.
LEMMA DataWithoutAck ==
  ASSUME NEW r1, NEW r2, NEW refresh, NEW ioLive, FabricClock(FALSE, r1, refresh, ioLive)
  PROVE  FabricClock(FALSE, r2, refresh, ioLive)
<1>. DEFINE in1 == SeqPins(FALSE, r1)
            in2 == SeqPins(FALSE, r2)
<1>1. /\ in1.req = in2.req /\ in1.we = in2.we /\ in1.field = in2.field
      /\ in1.restart = in2.restart /\ ~in1.ack /\ ~in2.ack
  BY DEF SeqPins, CpuAck
<1>2. SequencerClock(in1)
  BY DEF FabricClock
<1>. HIDE DEF in1, in2
<1>3. SequencerClock(in2)
  BY <1>1, <1>2 DEF SequencerClock, SeqIdle, TakeField, ReadWord, SelectWrite, ReadOldWord,
     Reread, WriteWord, SeqWait, Respond
<1>. QED BY <1>3 DEF FabricClock, in2

\* Every clock is one of the fabric without a timer, with the acknowledgement
\* and the data the timer gives.
LEMMA UntimedStep ==
  ASSUME KeptInv, NEW extAck \in BOOLEAN, NEW refresh \in Rows \cup {NoRow},
         NEW ioLive \in IoValues, TimedClock(extAck, refresh, ioLive)
  PROVE  Untimed!Next
<1>. DEFINE ack == TimerAck(TimerPins(extAck))
            rdata == TimerRdata(TimerPins(extAck))
<1>1. /\ ack \in BOOLEAN /\ (ack => CycleReq)
      /\ FabricClock(ack, rdata, refresh, ioLive)
  BY TimedClockIsFabricClock
<1>2. /\ extAck => ExtReq(CycleReq)
      /\ HoldClient /\ Memory(extAck)
      /\ settled' = IF CycleReq /\ ~ack THEN settled ELSE mem'
  BY DEF TimedClock, Controller, History
<1>3. /\ ack => extDone \/ extAck
      /\ ack => rdata = SettledRead
      /\ extAck => CycleReq /\ ~extDone
  BY <1>2, TimerWires
<1>. HIDE DEF ack, rdata
<1>4. Untimed!ReadData = SettledRead
  BY SameCommand DEF Untimed!ReadData, SettledRead, ZeroWord, Untimed!ZeroWord, Lanes, Untimed!Lanes
<1>5. Untimed!FabricClock(ack, Untimed!ReadData, refresh, ioLive)
  <2>1. CASE ack
    BY <1>1, <1>3, <1>4, <2>1, SameFabric
  <2>2. CASE ack = FALSE
    BY <1>1, <2>2, DataWithoutAck, SameFabric
  <2>. QED BY <1>1, <2>1, <2>2
<1>6. Untimed!Memory(ack)
  <2>1. CASE CycleReq /\ ack
    <3>1. mem' = IF extAck /\ WriteCycle THEN [mem EXCEPT ![Command.addr] = Command.wdata]
                 ELSE mem
      BY <1>2, <2>1, CycleMemory
    <3>2. mem' = IF WriteCycle THEN [settled EXCEPT ![Command.addr] = Command.wdata]
                 ELSE settled
      BY <1>3, <2>1, <3>1 DEF KeptInv, AheadByOneWrite
    <3>3. settled' = IF WriteCycle THEN [settled EXCEPT ![Command.addr] = Command.wdata]
                     ELSE settled
      BY <1>2, <2>1, <3>2
    <3>. QED BY <2>1, <3>3, SameCommand DEF Untimed!Memory, Untimed!MemoryWrite,
             Untimed!MemoryKeeps
  <2>2. CASE CycleReq /\ ~ack
    BY <1>2, <2>2 DEF Untimed!Memory, Untimed!MemoryKeeps
  <2>3. CASE ~CycleReq
    <3>1. ~ack /\ ~extAck /\ mem = settled /\ settled' = mem'
      BY <1>1, <1>2, <1>3, <2>3 DEF KeptInv, CycleTimed, AheadByOneWrite
    <3>2. \/ settled' = settled
          \/ /\ HoldAck
             /\ \E a \in WordAddr, w \in MasterWords : settled' = [settled EXCEPT ![a] = w]
      BY <1>2, <3>1 DEF Memory, MemoryWrite, MemoryKeeps, ExternalWrite
    <3>. QED BY <3>1, <3>2, SameCommand DEF Untimed!Memory, Untimed!MemoryKeeps,
             Untimed!ExternalWrite, Untimed!WordAddr, WordAddr
  <2>. QED BY <2>1, <2>2, <2>3
<1>7. Untimed!Clock(ack, refresh, ioLive)
  BY <1>1, <1>2, <1>5, <1>6, SameCommand DEF Untimed!Clock, Untimed!HoldClient, HoldClient
<1>. QED BY <1>1, <1>7 DEF Untimed!Next

\* To the fabric and its clients the timer is nothing but delay: with writes
\* taking effect in the clock the fabric hears of them, every behaviour of the
\* timed design is one of the fabric whose controller answers at any clock.
\* A read returns what memory held, however long its answer was kept, and a
\* write the timer keeps back is seen by nobody before its cycle is over.
THEOREM TimerOnlyDelays == TimedSpec => UntimedSpec
<1>1. TimedInit => Untimed!Init
  BY DEF TimedInit, Init, ArbInit, SeqInit, NullRequest, NoField, ZeroData, ZeroWord, FieldBits,
     Lanes, WordAddr, Untimed!Init, Untimed!ArbInit, Untimed!SeqInit, Untimed!NullRequest,
     Untimed!NoField, Untimed!ZeroData, Untimed!ZeroWord, Untimed!FieldBits, Untimed!Lanes,
     Untimed!WordAddr
<1>2. KeptInv /\ [TimedNext]_timedVars => [Untimed!Next]_(Untimed!vars)
  <2>1. KeptInv /\ TimedNext => Untimed!Next
    BY UntimedStep DEF TimedNext
  <2>2. UNCHANGED timedVars => UNCHANGED Untimed!vars
    BY DEF timedVars, historyVars, vars, arbVars, seqVars, fabricVars, clientVars,
       Untimed!vars, Untimed!arbVars, Untimed!seqVars, Untimed!fabricVars, Untimed!clientVars
  <2>. QED BY <2>1, <2>2
<1>. QED BY <1>1, <1>2, KeptInvHolds, PTL DEF TimedSpec, UntimedSpec, Untimed!Spec

\* With the timer too the command of a cycle stands still to its end.
THEOREM TimedCommandStands == TimedSpec => CommandStable
<1>. DEFINE A == CycleReq /\ arb' = arb => Command' = Command
<1>1. ASSUME KeptInv, NEW extAck \in BOOLEAN, NEW refresh \in Rows \cup {NoRow},
             NEW ioLive \in IoValues, TimedClock(extAck, refresh, ioLive),
             CycleReq, arb' = arb
      PROVE  Command' = Command
  <2>. DEFINE ack == TimerAck(TimerPins(extAck))
              rdata == TimerRdata(TimerPins(extAck))
  <2>1. /\ FabricInv /\ ack \in BOOLEAN /\ (ack => CycleReq) /\ rdata \in Word
        /\ FabricClock(ack, rdata, refresh, ioLive)
    BY <1>1, TimedClockIsFabricClock
  <2>. HIDE DEF ack, rdata
  <2>2. ~ack
    BY <1>1, <2>1, ArbiterMoves DEF FabricClock, CycleReq, Masters
  <2>. QED BY <1>1, <2>1, <2>2, CommandStep
<1>2. KeptInv /\ [TimedNext]_timedVars => [A]_vars
  BY <1>1 DEF TimedNext, timedVars
<1>. QED BY <1>2, KeptInvHolds, PTL DEF TimedSpec, CommandStable

-----------------------------------------------------------------------------
(* Cycles on time: the inductive invariant. *)

ClockTypeOK ==
    /\ phase \in 0 .. ClksPerState - 1
    /\ busCnt \in 0 .. CycleClks
    /\ idle \in 0 .. CycleClks /\ age \in 0 .. CycleClks
    /\ own \in 0 .. CycleClks /\ free \in 0 .. CycleClks
    /\ shared \in BOOLEAN

\* Nobody but the clients of the arbiter has the bus: the CPU alone so far, or
\* no external master at all.
Undisturbed == ~shared \/ HoldLevels = {FALSE}

Masterless ==
    /\ Undisturbed => arb # "HOLD"
    /\ ~shared => arb \in {"IDLE", "CPU"}

\* The timeline stands at zero between cycles; as long as HOLD is out of it, it
\* runs all through one, and the idle counter tells the clocks the bus was free.
Timelines ==
    /\ ~timed => busCnt = 0 /\ own = 0
    /\ Undisturbed => IF timed THEN busCnt # 0 /\ idle = 0 ELSE idle = free

\* The clocks a cycle still has, has had and was credited make two states.
TwoStates ==
    Undisturbed /\ timed =>
        busCnt + own + (IF arb = "CPU" THEN free ELSE 0) >= CycleClks

\* A CPU request that finds the bus free has its cycle a few clocks after the
\* state it was raised in, and later words of it soon after the cycle before:
\* so a credit never reaches to the end of the two states.
Waited(n) == idle <= n \/ age <= n
Delay == IF req.io \/ seq = "IDLE" THEN ClksPerState
         ELSE IF seq \in {"WRITE_SELECT", "READ_WORD"} THEN ClksPerState + 1
         ELSE ClksPerState + 2

CreditBound ==
    Undisturbed /\ ~timed =>
        /\ arb = "IDLE" /\ active /\ seq # "RESPONSE" => Waited(Delay)
        /\ arb = "CPU" => Waited(ClksPerState + 3)

\* Ages are counted on the state grid; so are, while the CPU is alone, idle
\* clocks and the end of its cycle.
OnGrid(n) == n \in {phase, phase + ClksPerState}

StateGrid ==
    /\ age < CycleClks => OnGrid(age)
    /\ ~shared /\ ~timed /\ idle < CycleClks => OnGrid(idle)
    /\ ~shared /\ timed => phase + busCnt \in {ClksPerState, CycleClks}

OnTimeInv ==
    /\ ClockTypeOK /\ Masterless /\ Timelines /\ TwoStates /\ CreditBound
    /\ StateGrid

-----------------------------------------------------------------------------
(* One clock of the counters. *)

\* The state counter wraps at the end of a machine state.
LEMMA PhaseWraps ==
  ASSUME NEW p \in 0 .. ClksPerState - 1
  PROVE  (p + 1) % ClksPerState = IF p = ClksPerState - 1 THEN 0 ELSE p + 1
<1>1. ClksPerState \in Nat \ {0} /\ ClksPerState \in Int /\ p + 1 \in Int
  BY TimerAssumption
<1>2. CASE p = ClksPerState - 1
  <2>1. p + 1 = 1 * ClksPerState + 0 /\ 0 \in 0 .. ClksPerState - 1
    BY <1>1, <1>2
  <2>2. (1 * ClksPerState + 0) % ClksPerState = 0
    BY <1>1, <2>1, DivideOnce
  <2>. QED BY <1>2, <2>1, <2>2
<1>3. CASE p # ClksPerState - 1
  <2>1. p + 1 = 0 * ClksPerState + (p + 1) /\ p + 1 \in 0 .. ClksPerState - 1
    BY <1>1, <1>3
  <2>2. (0 * ClksPerState + (p + 1)) % ClksPerState = p + 1
    BY <1>1, <2>1, DivideOnce
  <2>. QED BY <1>3, <2>1, <2>2
<1>. QED BY <1>2, <1>3

\* What the counters do in a clock.
LEMMA CountersMove ==
  ASSUME KeptInv, OnTimeInv, NEW extAck \in BOOLEAN, NEW refresh \in Rows \cup {NoRow},
         NEW ioLive \in IoValues, TimedClock(extAck, refresh, ioLive),
         NEW ack, ack = TimerAck(TimerPins(extAck))
  PROVE  /\ phase' = IF phase = ClksPerState - 1 THEN 0 ELSE phase + 1
         /\ age' = IF Capture(ack) THEN phase + 1 ELSE Least(age + 1, CycleClks)
         /\ own' = IF CycleReq /\ ~ack THEN Least(own + 1, CycleClks) ELSE 0
         /\ free' = IF CycleReq /\ ~ack THEN free
                    ELSE IF CycleReq \/ HoldAck THEN 0 ELSE Least(free + 1, CycleClks)
         /\ shared' = (shared \/ arb' \notin {"IDLE", "CPU"})
         /\ idle' = IF (CycleReq /\ ~timed) \/ busCnt # 0 THEN 0
                    ELSE Least(idle + 1, CycleClks)
         /\ busCnt' = IF CycleReq /\ ~timed
                      THEN CycleClks - 1 - (IF arb = "CPU"
                                            THEN Least(Least(idle, age), CycleClks - 1) ELSE 0)
                      ELSE IF Last /\ ~ack THEN ClksPerState
                      ELSE IF busCnt # 0 THEN busCnt - 1 ELSE 0
         /\ timed' = (~ack /\ (timed \/ CycleReq))
         /\ ack => timed /\ busCnt <= 1 /\ CycleReq
<1>. DEFINE in == TimerPins(extAck)
<1>1. /\ in.req = CycleReq /\ in.cpu = (arb = "CPU") /\ in.age = age
  BY DEF TimerPins
<1>2. /\ phase \in 0 .. ClksPerState - 1 /\ (~timed => busCnt = 0)
      /\ (timed => CycleReq) /\ timed \in BOOLEAN
  BY DEF OnTimeInv, ClockTypeOK, Timelines, KeptInv, CycleTimed, TimerTypeOK
<1>3. TimerClock(in) /\ PhaseClock /\ AgeClock(ack) /\ History(ack)
      /\ (extAck => ExtReq(CycleReq)) /\ ack = TimerAck(in)
  BY DEF TimedClock, Controller
<1>4. timed' = (~ack /\ (timed \/ CycleReq))
  <2>1. IF ack THEN timed' = FALSE ELSE timed' = (timed \/ (CycleReq /\ busCnt = 0))
    BY <1>3, TimerMoves
  <2>. QED BY <1>2, <2>1
<1>. HIDE DEF in
<1>5. phase' = IF phase = ClksPerState - 1 THEN 0 ELSE phase + 1
  BY <1>2, <1>3, PhaseWraps DEF PhaseClock
<1>6. Start(in) <=> CycleReq /\ ~timed
  BY <1>1, <1>2 DEF Start
<1>7. idle' = IF (CycleReq /\ ~timed) \/ busCnt # 0 THEN 0
              ELSE Least(idle + 1, CycleClks)
  BY <1>3, <1>6 DEF TimerClock, IdleClocks
<1>8. Last /\ ~ack <=> Last /\ ~Ready(in)
  BY <1>3 DEF TimerAck
<1>9. Credit(in) = IF arb = "CPU" THEN Least(Least(idle, age), CycleClks - 1) ELSE 0
  BY <1>1 DEF Credit
<1>10. busCnt' = IF CycleReq /\ ~timed
                 THEN CycleClks - 1 - (IF arb = "CPU"
                                       THEN Least(Least(idle, age), CycleClks - 1) ELSE 0)
                 ELSE IF Last /\ ~ack THEN ClksPerState
                 ELSE IF busCnt # 0 THEN busCnt - 1 ELSE 0
  BY <1>3, <1>6, <1>8, <1>9 DEF TimerClock, Timeline
<1>11. ack => timed /\ busCnt <= 1 /\ CycleReq
  BY <1>2, <1>3 DEF TimerAck, Last
<1>12. /\ own' = IF CycleReq /\ ~ack THEN Least(own + 1, CycleClks) ELSE 0
       /\ free' = IF CycleReq /\ ~ack THEN free
                  ELSE IF CycleReq \/ HoldAck THEN 0 ELSE Least(free + 1, CycleClks)
       /\ shared' = (shared \/ arb' \notin {"IDLE", "CPU"})
  BY <1>3 DEF History
<1>13. age' = IF Capture(ack) THEN phase + 1 ELSE Least(age + 1, CycleClks)
  BY <1>3 DEF AgeClock, AgeBound
<1>. QED BY <1>4, <1>5, <1>7, <1>10, <1>11, <1>12, <1>13

\* Who is given the bus when it is free.
LEMMA Grants ==
  ASSUME NEW ack \in BOOLEAN, NEW refresh, NEW ioLive, arb = "IDLE",
         ArbiterClock(ArbPins(ack, refresh, ioLive))
  PROVE  /\ arb' \in ArbStates
         /\ arb' = "HOLD" => hold
         /\ arb' = "IDLE" => ~hold /\ ~CpuReq
         /\ arb' = "CPU" => rmwActive \/ CpuReq
<1>. DEFINE in == ArbPins(ack, refresh, ioLive)
<1>1. in.hold = hold /\ in.cpu = CpuReq
  BY DEF ArbPins
<1>2. Arbitrate(in)
  BY DEF ArbiterClock
<1>. HIDE DEF in
<1>. QED BY <1>1, <1>2 DEF Arbitrate, GrantHold, GrantReserved, GrantScreen, GrantDram, GrantHost,
         GrantCpu, NothingToDo, KeepHold, EndHold, CycleRuns, EndCycle, Free, ArbStates, Masters

\* A cycle keeps the bus until its acknowledgement, and frees it then.
LEMMA BusMoves ==
  ASSUME KeptInv, OnTimeInv, NEW extAck \in BOOLEAN, NEW refresh \in Rows \cup {NoRow},
         NEW ioLive \in IoValues, TimedClock(extAck, refresh, ioLive),
         NEW ack, ack = TimerAck(TimerPins(extAck))
  PROVE  /\ CycleReq /\ ~ack => arb' = arb
         /\ ack => arb' = "IDLE"
         /\ ~CycleReq => arb \in {"IDLE", "HOLD"}
         /\ Undisturbed' => Undisturbed
         /\ Masterless'
<1>. DEFINE rdata == TimerRdata(TimerPins(extAck))
<1>1. /\ FabricInv /\ ack \in BOOLEAN /\ (ack => CycleReq) /\ rdata \in Word
      /\ FabricClock(ack, rdata, refresh, ioLive)
  BY TimedClockIsFabricClock
<1>. HIDE DEF rdata
<1>2. ArbiterClock(ArbPins(ack, refresh, ioLive)) /\ arb \in ArbStates /\ hold \in HoldLevels
  BY <1>1 DEF FabricClock, FabricInv, TypeOK, ArbTypeOK, KeptInv, TimerTypeOK
<1>3. /\ CycleReq /\ ~ack => arb' = arb
      /\ ack => arb' = "IDLE"
      /\ ~CycleReq => arb \in {"IDLE", "HOLD"}
      /\ arb = "IDLE" /\ arb' = "HOLD" => hold
  BY <1>1, <1>2, ArbiterMoves, Grants DEF CycleReq, ArbStates, Masters
<1>4. shared' = (shared \/ arb' \notin {"IDLE", "CPU"}) /\ shared \in BOOLEAN
  BY CountersMove DEF OnTimeInv, ClockTypeOK
<1>5. Undisturbed' => Undisturbed
  BY <1>4 DEF Undisturbed
<1>6. Masterless'
  <2>1. ~shared' => arb' \in {"IDLE", "CPU"}
    BY <1>4
  <2>2. HoldLevels = {FALSE} => arb' # "HOLD"
    BY <1>2, <1>3 DEF OnTimeInv, Masterless, Undisturbed, CycleReq, Masters
  <2>. QED BY <2>1, <2>2 DEF Masterless, Undisturbed
<1>. QED BY <1>3, <1>5, <1>6

\* Arithmetic of a machine state.
LEMMA StateLength == ClksPerState \in Int /\ ClksPerState >= 8 /\ CycleClks = 2 * ClksPerState
BY TimerAssumption, TimedAssumption DEF CycleClks

\* As long as HOLD is out of it, a credit stays well short of two states.
LEMMA CreditRange ==
  ASSUME OnTimeInv, Undisturbed, arb = "CPU", ~timed,
         NEW credit, credit = Least(Least(idle, age), CycleClks - 1)
  PROVE  credit \in 0 .. ClksPerState + 3 /\ credit <= free /\ credit \in {idle, age}
<1>1. idle \in 0 .. CycleClks /\ age \in 0 .. CycleClks /\ idle = free
      /\ (idle <= ClksPerState + 3 \/ age <= ClksPerState + 3)
  BY DEF OnTimeInv, ClockTypeOK, Timelines, CreditBound, Waited
<1>. QED BY <1>1, StateLength DEF Least

\* The timeline of a cycle and the clocks it was credited: a cycle that begins.
LEMMA CycleBegins ==
  ASSUME KeptInv, OnTimeInv, NEW extAck \in BOOLEAN, NEW refresh \in Rows \cup {NoRow},
         NEW ioLive \in IoValues, TimedClock(extAck, refresh, ioLive),
         NEW ack, ack = TimerAck(TimerPins(extAck)),
         Undisturbed, CycleReq, ~timed
  PROVE  /\ timed' /\ ~ack /\ idle' = 0 /\ own' = 1 /\ free' = free
         /\ \E credit \in 0 .. ClksPerState + 3 :
               /\ busCnt' = CycleClks - 1 - credit
               /\ arb = "CPU" => credit <= free /\ credit \in {idle, age}
               /\ arb # "CPU" => credit = 0
<1>1. ~ack /\ timed' /\ idle' = 0 /\ free' = free /\ own' = Least(own + 1, CycleClks)
  BY CountersMove
<1>2. own' = 1
  BY <1>1, StateLength DEF OnTimeInv, Timelines, Least
<1>3. CASE arb = "CPU"
  <2>. DEFINE credit == Least(Least(idle, age), CycleClks - 1)
  <2>1. busCnt' = CycleClks - 1 - credit
    BY <1>3, CountersMove
  <2>2. credit \in 0 .. ClksPerState + 3 /\ credit <= free /\ credit \in {idle, age}
    BY <1>3, CreditRange
  <2>. HIDE DEF credit
  <2>. QED BY <1>1, <1>2, <1>3, <2>1, <2>2
<1>4. CASE arb # "CPU"
  <2>1. busCnt' = CycleClks - 1 - 0
    BY <1>4, CountersMove
  <2>. QED BY <1>1, <1>2, <1>4, <2>1, StateLength
<1>. QED BY <1>3, <1>4

\* A cycle that goes on: one clock less, or another state for a wait.
LEMMA CycleGoesOn ==
  ASSUME KeptInv, OnTimeInv, NEW extAck \in BOOLEAN, NEW refresh \in Rows \cup {NoRow},
         NEW ioLive \in IoValues, TimedClock(extAck, refresh, ioLive),
         NEW ack, ack = TimerAck(TimerPins(extAck)),
         Undisturbed, timed, ~ack
  PROVE  /\ timed' /\ CycleReq /\ idle' = 0 /\ free' = free
         /\ own' = Least(own + 1, CycleClks)
         /\ IF busCnt = 1 THEN busCnt' = ClksPerState
            ELSE busCnt' = busCnt - 1 /\ busCnt > 1
<1>1. busCnt \in 0 .. CycleClks /\ busCnt # 0 /\ CycleReq
  BY DEF OnTimeInv, ClockTypeOK, Timelines, KeptInv, CycleTimed
<1>2. Last <=> busCnt = 1
  BY <1>1, StateLength DEF Last
<1>3. timed' /\ free' = free /\ own' = Least(own + 1, CycleClks)
  <2>1. /\ timed' = (~ack /\ (timed \/ CycleReq))
        /\ own' = IF CycleReq /\ ~ack THEN Least(own + 1, CycleClks) ELSE 0
        /\ CycleReq /\ ~ack => free' = free
    BY CountersMove
  <2>. QED BY <1>1, <2>1
<1>4. idle' = 0
  <2>1. (CycleReq /\ ~timed) \/ busCnt # 0 => idle' = 0
    BY CountersMove
  <2>. QED BY <1>1, <2>1
<1>5. busCnt' = IF Last THEN ClksPerState ELSE IF busCnt # 0 THEN busCnt - 1 ELSE 0
  BY CountersMove
<1>. QED BY <1>1, <1>2, <1>3, <1>4, <1>5, StateLength

\* A cycle that ends.
LEMMA CycleEnds ==
  ASSUME KeptInv, OnTimeInv, NEW extAck \in BOOLEAN, NEW refresh \in Rows \cup {NoRow},
         NEW ioLive \in IoValues, TimedClock(extAck, refresh, ioLive),
         NEW ack, ack = TimerAck(TimerPins(extAck)), ack
  PROVE  /\ ~timed' /\ timed /\ arb' = "IDLE" /\ busCnt' = 0 /\ own' = 0
         /\ Undisturbed => idle' = 0 /\ free' = 0 /\ busCnt = 1
<1>1. /\ timed /\ CycleReq /\ busCnt <= 1 /\ ~timed' /\ arb' = "IDLE" /\ own' = 0 /\ free' = 0
      /\ busCnt' = IF busCnt # 0 THEN busCnt - 1 ELSE 0
      /\ idle' = IF busCnt # 0 THEN 0 ELSE Least(idle + 1, CycleClks)
  BY CountersMove, BusMoves
<1>2. busCnt \in 0 .. CycleClks /\ (Undisturbed => busCnt # 0)
  BY <1>1 DEF OnTimeInv, ClockTypeOK, Timelines
<1>. QED BY <1>1, <1>2, StateLength

\* A clock without a cycle.
LEMMA NoCycle ==
  ASSUME KeptInv, OnTimeInv, NEW extAck \in BOOLEAN, NEW refresh \in Rows \cup {NoRow},
         NEW ioLive \in IoValues, TimedClock(extAck, refresh, ioLive),
         NEW ack, ack = TimerAck(TimerPins(extAck)), ~CycleReq
  PROVE  /\ ~timed' /\ ~timed /\ ~ack /\ busCnt' = 0 /\ own' = 0
         /\ idle' = Least(idle + 1, CycleClks)
         /\ Undisturbed => arb = "IDLE" /\ free' = idle'
<1>1. ~timed /\ ~ack /\ busCnt = 0
  BY CountersMove DEF KeptInv, CycleTimed, OnTimeInv, Timelines
<1>2. ~timed' /\ own' = 0 /\ idle' = Least(idle + 1, CycleClks) /\ busCnt' = 0
  BY <1>1, CountersMove DEF Last
<1>3. ASSUME Undisturbed PROVE arb = "IDLE" /\ free' = idle'
  <2>1. arb = "IDLE" /\ ~HoldAck /\ idle = free
    BY <1>1, <1>3, BusMoves DEF OnTimeInv, Masterless, Timelines, HoldAck
  <2>. QED BY <1>2, <2>1, CountersMove
<1>. QED BY <1>1, <1>2, <1>3

\* The counters keep to their ranges.
LEMMA ClockTypesStep ==
  ASSUME KeptInv, OnTimeInv, NEW extAck \in BOOLEAN, NEW refresh \in Rows \cup {NoRow},
         NEW ioLive \in IoValues, TimedClock(extAck, refresh, ioLive),
         NEW ack, ack = TimerAck(TimerPins(extAck))
  PROVE  ClockTypeOK'
<1>1. ClockTypeOK
  BY DEF OnTimeInv
<1>2. phase' \in 0 .. ClksPerState - 1
  <2>1. phase' = IF phase = ClksPerState - 1 THEN 0 ELSE phase + 1
    BY CountersMove
  <2>. QED BY <1>1, <2>1, StateLength DEF ClockTypeOK
<1>3. age' \in 0 .. CycleClks
  <2>1. age' = phase + 1 \/ age' = Least(age + 1, CycleClks)
    BY CountersMove
  <2>. QED BY <1>1, <2>1, StateLength DEF ClockTypeOK, Least
<1>4. own' \in 0 .. CycleClks /\ idle' \in 0 .. CycleClks /\ free' \in 0 .. CycleClks
  <2>1. /\ own' = Least(own + 1, CycleClks) \/ own' = 0
        /\ idle' = Least(idle + 1, CycleClks) \/ idle' = 0
        /\ free' = free \/ free' = Least(free + 1, CycleClks) \/ free' = 0
    BY CountersMove
  <2>. QED BY <1>1, <2>1, StateLength DEF ClockTypeOK, Least
<1>5. busCnt' \in 0 .. CycleClks
  <2>1. \/ busCnt' = CycleClks - 1 - (IF arb = "CPU"
                                     THEN Least(Least(idle, age), CycleClks - 1) ELSE 0)
        \/ busCnt' = ClksPerState
        \/ busCnt # 0 /\ busCnt' = busCnt - 1
        \/ busCnt' = 0
    BY CountersMove
  <2>. QED BY <1>1, <2>1, StateLength DEF ClockTypeOK, Least
<1>6. shared' \in BOOLEAN
  BY <1>1, CountersMove DEF ClockTypeOK
<1>. QED BY <1>2, <1>3, <1>4, <1>5, <1>6 DEF ClockTypeOK

\* The timelines of bus and free clocks.
LEMMA TimelinesStep ==
  ASSUME KeptInv, OnTimeInv, NEW extAck \in BOOLEAN, NEW refresh \in Rows \cup {NoRow},
         NEW ioLive \in IoValues, TimedClock(extAck, refresh, ioLive),
         NEW ack, ack = TimerAck(TimerPins(extAck))
  PROVE  Timelines' /\ TwoStates'
<1>1. /\ busCnt \in 0 .. CycleClks /\ own \in 0 .. CycleClks /\ free \in 0 .. CycleClks
      /\ ack \in BOOLEAN /\ (ack => CycleReq) /\ (timed => CycleReq)
      /\ timed' = (~ack /\ (timed \/ CycleReq))
      /\ Timelines /\ TwoStates
  BY TimedClockIsFabricClock, CountersMove
     DEF OnTimeInv, ClockTypeOK, KeptInv, CycleTimed
<1>2. (Undisturbed' => Undisturbed) /\ (CycleReq /\ ~ack => arb' = arb)
  BY BusMoves
<1>3. ~timed' => busCnt' = 0 /\ own' = 0
  BY <1>1, CycleEnds, NoCycle
<1>4. ASSUME Undisturbed' PROVE IF timed' THEN busCnt' # 0 /\ idle' = 0 ELSE idle' = free'
  <2>1. CASE ack
    BY <1>2, <1>4, <2>1, CycleEnds
  <2>2. CASE ~CycleReq
    BY <1>2, <1>4, <2>2, NoCycle
  <2>3. CASE CycleReq /\ ~timed
    BY <1>2, <1>4, <2>3, CycleBegins, StateLength
  <2>4. CASE timed /\ ~ack
    BY <1>1, <1>2, <1>4, <2>4, CycleGoesOn, StateLength
  <2>. QED BY <1>1, <2>1, <2>2, <2>3, <2>4
<1>5. ASSUME Undisturbed', timed'
      PROVE  busCnt' + own' + (IF arb' = "CPU" THEN free' ELSE 0) >= CycleClks
  <2>1. ~ack /\ CycleReq /\ arb' = arb /\ Undisturbed
    BY <1>1, <1>2, <1>5
  <2>2. CASE ~timed
    <3>1. PICK credit \in 0 .. ClksPerState + 3 :
             /\ busCnt' = CycleClks - 1 - credit
             /\ arb = "CPU" => credit <= free
             /\ arb # "CPU" => credit = 0
      BY <2>1, <2>2, CycleBegins
    <3>2. own' = 1 /\ free' = free
      BY <2>1, <2>2, CycleBegins
    <3>. QED BY <1>1, <2>1, <3>1, <3>2, StateLength
  <2>3. CASE timed
    <3>1. busCnt + own + (IF arb = "CPU" THEN free ELSE 0) >= CycleClks
      BY <1>1, <2>1, <2>3 DEF TwoStates
    <3>2. /\ own' = Least(own + 1, CycleClks) /\ free' = free
          /\ IF busCnt = 1 THEN busCnt' = ClksPerState
             ELSE busCnt' = busCnt - 1 /\ busCnt > 1
      BY <2>1, <2>3, CycleGoesOn
    <3>. QED BY <1>1, <2>1, <3>1, <3>2, StateLength DEF Least
  <2>. QED BY <1>1, <2>2, <2>3
<1>. QED BY <1>3, <1>4, <1>5 DEF Timelines, TwoStates

\* A field that is offered to an idle sequencer is taken.
LEMMA FieldTaken ==
  ASSUME NEW ack, NEW rdata, SequencerClock(SeqPins(ack, rdata)),
         seq = "IDLE", active, ~req.io
  PROVE  seq' # "IDLE"
<1>. DEFINE in == SeqPins(ack, rdata)
<1>1. in.req
  BY DEF SeqPins
<1>2. SequencerClock(in)
  OBVIOUS
<1>. HIDE DEF in
<1>. QED BY <1>1, <1>2 DEF SequencerClock, SeqIdle, TakeField, ReadWord, SelectWrite, ReadOldWord,
         Reread, WriteWord, SeqWait, Respond

\* While the bus is free, a request moves on from state to state, a clock each.
LEMMA RequestMovesOn ==
  ASSUME KeptInv, OnTimeInv, NEW extAck \in BOOLEAN, NEW refresh \in Rows \cup {NoRow},
         NEW ioLive \in IoValues, TimedClock(extAck, refresh, ioLive),
         NEW ack, ack = TimerAck(TimerPins(extAck)),
         arb = "IDLE", active', ~Capture(ack)
  PROVE  /\ active /\ req'.io = req.io
         /\ arb' = "IDLE" =>
               /\ ~req.io
               /\ \/ seq = "IDLE" /\ seq' \in {"WRITE_SELECT", "READ_WORD", "RESPONSE"}
                  \/ seq = "WRITE_SELECT" /\ seq' \in {"WRITE_READ", "WRITE_WORD"}
<1>. DEFINE rdata == TimerRdata(TimerPins(extAck))
<1>1. /\ FabricInv /\ ack \in BOOLEAN /\ (ack => CycleReq) /\ rdata \in Word
      /\ FabricClock(ack, rdata, refresh, ioLive)
  BY TimedClockIsFabricClock
<1>. HIDE DEF rdata
<1>2. /\ ArbiterClock(ArbPins(ack, refresh, ioLive)) /\ RequestRegister(ack, ioLive)
      /\ SequencerClock(SeqPins(ack, rdata))
      /\ seq \in SeqStates /\ Reservation /\ active \in BOOLEAN
  BY <1>1 DEF FabricClock, FabricInv, TypeOK, SeqTypeOK
<1>3. active /\ ~RequestDone(ack)
  BY <1>2 DEF RequestRegister, TakeRequest, ServeRequest, NoRequest
<1>4. req'.io = req.io
  BY <1>1, <1>2, <1>3, RequestStays
<1>5. ASSUME arb' = "IDLE"
      PROVE  /\ ~req.io
             /\ \/ seq = "IDLE" /\ seq' \in {"WRITE_SELECT", "READ_WORD", "RESPONSE"}
                \/ seq = "WRITE_SELECT" /\ seq' \in {"WRITE_READ", "WRITE_WORD"}
  <2>1. ~hold /\ ~CpuReq
    BY <1>1, <1>2, <1>5, Grants
  <2>2. ~req.io /\ seq \notin {"READ_WORD", "WRITE_READ", "WRITE_WORD"}
    BY <1>3, <2>1 DEF CpuReq, WordReq, Restart
  <2>3. seq # "RESPONSE"
    BY <1>3, <2>2 DEF RequestDone
  <2>4. CASE seq = "IDLE"
    BY <1>1, <1>2, <1>3, <2>2, <2>4, SequencerMoves, FieldTaken
  <2>5. CASE seq = "WRITE_SELECT"
    BY <1>1, <1>2, <2>2, <2>5, SequencerMoves
  <2>. QED BY <1>2, <2>2, <2>3, <2>4, <2>5 DEF SeqStates
<1>. QED BY <1>3, <1>4, <1>5

\* Who is given the bus as the CPU has a word or an I/O access waiting.
LEMMA CpuGranted ==
  ASSUME KeptInv, OnTimeInv, NEW extAck \in BOOLEAN, NEW refresh \in Rows \cup {NoRow},
         NEW ioLive \in IoValues, TimedClock(extAck, refresh, ioLive),
         NEW ack, ack = TimerAck(TimerPins(extAck)),
         arb = "IDLE", arb' = "CPU"
  PROVE  active /\ seq # "RESPONSE"
<1>. DEFINE rdata == TimerRdata(TimerPins(extAck))
<1>1. /\ FabricInv /\ ack \in BOOLEAN /\ FabricClock(ack, rdata, refresh, ioLive)
  BY TimedClockIsFabricClock
<1>2. ArbiterClock(ArbPins(ack, refresh, ioLive)) /\ Reservation
  BY <1>1 DEF FabricClock, FabricInv
<1>3. rmwActive \/ CpuReq
  BY <1>1, <1>2, Grants
<1>. QED BY <1>2, <1>3 DEF Reservation, CpuReq, WordReq

\* The bound on credits.
LEMMA CreditStep ==
  ASSUME KeptInv, OnTimeInv, NEW extAck \in BOOLEAN, NEW refresh \in Rows \cup {NoRow},
         NEW ioLive \in IoValues, TimedClock(extAck, refresh, ioLive),
         NEW ack, ack = TimerAck(TimerPins(extAck))
  PROVE  CreditBound'
<1>1. /\ ack \in BOOLEAN /\ (ack => CycleReq)
      /\ timed' = (~ack /\ (timed \/ CycleReq)) /\ (timed => CycleReq)
      /\ (Undisturbed' => Undisturbed)
  BY TimedClockIsFabricClock, CountersMove, BusMoves DEF KeptInv, CycleTimed
<1>2. SUFFICES ASSUME Undisturbed', ~timed'
               PROVE  /\ arb' = "IDLE" /\ active' /\ seq' # "RESPONSE" => Waited(Delay)'
                      /\ arb' = "CPU" => Waited(ClksPerState + 3)'
  BY DEF CreditBound
<1>3. Delay' >= ClksPerState /\ Delay' \in Int /\ Delay \in Int
  BY StateLength DEF Delay
<1>4. CASE ack
  <2>1. idle' = 0 /\ arb' = "IDLE"
    BY <1>1, <1>2, <1>4, CycleEnds
  <2>. QED BY <1>3, <2>1, StateLength DEF Waited
<1>5. CASE ~CycleReq
  <2>1. arb = "IDLE" /\ ~timed /\ idle' = Least(idle + 1, CycleClks)
        /\ age' = (IF Capture(ack) THEN phase + 1 ELSE Least(age + 1, CycleClks))
        /\ phase \in 0 .. ClksPerState - 1
        /\ idle \in 0 .. CycleClks /\ age \in 0 .. CycleClks
    BY <1>1, <1>2, <1>5, NoCycle, CountersMove DEF OnTimeInv, ClockTypeOK
  <2>2. CASE Capture(ack)
    <3>1. age' \in 1 .. ClksPerState
      BY <2>1, <2>2, StateLength
    <3>. QED BY <1>3, <3>1, StateLength DEF Waited
  <2>3. CASE ~Capture(ack)
    <3>1. ASSUME NEW n \in Int, Waited(n) PROVE idle' <= n + 1 \/ age' <= n + 1
      BY <2>1, <2>3, <3>1, StateLength DEF Waited, Least
    <3>2. active /\ seq # "RESPONSE" => Waited(Delay)
      BY <1>1, <1>2, <2>1 DEF OnTimeInv, CreditBound
    <3>3. ASSUME arb' = "CPU" PROVE Waited(ClksPerState + 3)'
      <4>1. Waited(Delay)
        BY <2>1, <3>2, <3>3, CpuGranted
      <4>2. idle' <= Delay + 1 \/ age' <= Delay + 1
        BY <1>3, <3>1, <4>1
      <4>3. Delay <= ClksPerState + 2
        BY StateLength DEF Delay
      <4>4. idle' \in Int /\ age' \in Int
        BY <2>1, <2>3, StateLength DEF Least
      <4>5. idle' <= ClksPerState + 3 \/ age' <= ClksPerState + 3
        BY <1>3, <4>2, <4>3, <4>4, StateLength
      <4>. QED BY <4>5 DEF Waited
    <3>4. ASSUME arb' = "IDLE", active', seq' # "RESPONSE" PROVE Waited(Delay)'
      <4>1. /\ active /\ req'.io = req.io /\ ~req.io
            /\ \/ seq = "IDLE" /\ seq' \in {"WRITE_SELECT", "READ_WORD"}
               \/ seq = "WRITE_SELECT" /\ seq' \in {"WRITE_READ", "WRITE_WORD"}
        BY <2>1, <2>3, <3>4, RequestMovesOn
      <4>2. Delay' = Delay + 1
        BY <4>1, StateLength DEF Delay
      <4>3. idle' <= Delay + 1 \/ age' <= Delay + 1
        BY <1>3, <3>1, <3>2, <4>1
      <4>. QED BY <4>2, <4>3 DEF Waited
    <3>. QED BY <3>3, <3>4
  <2>. QED BY <2>2, <2>3
<1>. QED BY <1>1, <1>2, <1>4, <1>5

\* The state grid.
LEMMA GridStep ==
  ASSUME KeptInv, OnTimeInv, NEW extAck \in BOOLEAN, NEW refresh \in Rows \cup {NoRow},
         NEW ioLive \in IoValues, TimedClock(extAck, refresh, ioLive),
         NEW ack, ack = TimerAck(TimerPins(extAck))
  PROVE  StateGrid'
<1>1. /\ phase \in 0 .. ClksPerState - 1 /\ age \in 0 .. CycleClks /\ idle \in 0 .. CycleClks
      /\ busCnt \in 0 .. CycleClks /\ shared \in BOOLEAN
      /\ StateGrid
      /\ ack \in BOOLEAN /\ (ack => CycleReq) /\ (timed => CycleReq)
      /\ timed' = (~ack /\ (timed \/ CycleReq))
  BY TimedClockIsFabricClock, CountersMove DEF OnTimeInv, ClockTypeOK, KeptInv, CycleTimed
<1>2. phase' = IF phase = ClksPerState - 1 THEN 0 ELSE phase + 1
  BY CountersMove
<1>3. ~shared' => ~shared /\ Undisturbed
  BY <1>1, CountersMove DEF Undisturbed
<1>4. ASSUME NEW n \in 0 .. CycleClks, n < CycleClks => n \in {phase, phase + ClksPerState},
             n + 1 < CycleClks
      PROVE  n + 1 \in {phase', phase' + ClksPerState}
  BY <1>1, <1>2, <1>4, StateLength
<1>5. ASSUME age' < CycleClks PROVE OnGrid(age)'
  <2>1. CASE Capture(ack)
    <3>1. age' = phase + 1
      BY <2>1, CountersMove
    <3>. QED BY <1>1, <1>2, <3>1, StateLength DEF OnGrid
  <2>2. CASE ~Capture(ack)
    <3>1. age' = Least(age + 1, CycleClks)
      BY <2>2, CountersMove
    <3>2. age' = age + 1 /\ age + 1 < CycleClks
      BY <1>1, <1>5, <3>1, StateLength DEF Least
    <3>. QED BY <1>1, <1>4, <3>2 DEF OnGrid, StateGrid
  <2>. QED BY <2>1, <2>2
<1>6. ASSUME ~shared', ~timed', idle' < CycleClks PROVE OnGrid(idle)'
  <2>1. CASE ack
    <3>1. timed /\ busCnt = 1 /\ idle' = 0
      BY <1>3, <1>6, <2>1, CycleEnds
    <3>2. phase + 1 \in {ClksPerState, CycleClks}
      BY <1>1, <1>3, <1>6, <3>1 DEF StateGrid
    <3>. QED BY <1>1, <1>2, <3>1, <3>2, StateLength DEF OnGrid
  <2>2. CASE ~CycleReq
    <3>1. ~timed /\ idle' = Least(idle + 1, CycleClks)
      BY <2>2, NoCycle
    <3>2. idle' = idle + 1 /\ idle + 1 < CycleClks
      BY <1>1, <1>6, <3>1, StateLength DEF Least
    <3>. QED BY <1>1, <1>3, <1>4, <1>6, <3>1, <3>2 DEF OnGrid, StateGrid
  <2>. QED BY <1>1, <1>6, <2>1, <2>2
<1>7. ASSUME ~shared', timed' PROVE phase' + busCnt' \in {ClksPerState, CycleClks}
  <2>1. ~ack /\ CycleReq /\ Undisturbed /\ ~shared
    BY <1>1, <1>3, <1>7
  <2>2. CASE ~timed
    <3>1. arb = "CPU"
      BY <2>1 DEF OnTimeInv, Masterless, CycleReq, Masters
    <3>2. PICK credit \in 0 .. ClksPerState + 3 :
             busCnt' = CycleClks - 1 - credit /\ credit \in {idle, age}
      BY <2>1, <2>2, <3>1, CycleBegins
    <3>3. credit < CycleClks
      BY <3>2, StateLength
    <3>4. credit \in {phase, phase + ClksPerState}
      BY <1>1, <2>1, <2>2, <3>2, <3>3 DEF StateGrid, OnGrid
    <3>. QED BY <1>1, <1>2, <3>2, <3>4, StateLength
  <2>3. CASE timed
    <3>1. IF busCnt = 1 THEN busCnt' = ClksPerState ELSE busCnt' = busCnt - 1 /\ busCnt > 1
      BY <2>1, <2>3, CycleGoesOn
    <3>2. phase + busCnt \in {ClksPerState, CycleClks}
      BY <1>1, <2>1, <2>3 DEF StateGrid
    <3>. QED BY <1>1, <1>2, <3>1, <3>2, StateLength
  <2>. QED BY <1>1, <2>2, <2>3
<1>. QED BY <1>5, <1>6, <1>7 DEF StateGrid

\* Every reachable state of the timed design satisfies the invariant.
LEMMA OnTimeInvHolds == TimedSpec => []OnTimeInv
<1>1. TimedInit => OnTimeInv
  <2>. SUFFICES ASSUME TimedInit PROVE OnTimeInv
    OBVIOUS
  <2>1. /\ phase = 0 /\ busCnt = 0 /\ idle = 0 /\ age = 0 /\ own = 0 /\ free = 0
        /\ shared = FALSE /\ timed = FALSE /\ arb = "IDLE" /\ active = FALSE
    BY DEF TimedInit, TimerInit, Init, ArbInit
  <2>2. ClockTypeOK
    <3>1. 0 \in 0 .. CycleClks /\ 0 \in 0 .. ClksPerState - 1
      BY StateLength
    <3>. QED BY <2>1, <3>1 DEF ClockTypeOK
  <2>3. Masterless /\ Timelines /\ TwoStates /\ CreditBound
    BY <2>1 DEF Masterless, Timelines, TwoStates, CreditBound
  <2>4. StateGrid
    BY <2>1 DEF StateGrid, OnGrid
  <2>. QED BY <2>2, <2>3, <2>4 DEF OnTimeInv
<1>2. KeptInv /\ OnTimeInv /\ [TimedNext]_timedVars => OnTimeInv'
  <2>. SUFFICES ASSUME KeptInv, OnTimeInv, [TimedNext]_timedVars PROVE OnTimeInv'
    OBVIOUS
  <2>1. CASE TimedNext
    <3>1. PICK extAck \in BOOLEAN, refresh \in Rows \cup {NoRow}, ioLive \in IoValues :
             TimedClock(extAck, refresh, ioLive)
      BY <2>1 DEF TimedNext
    <3>. QED BY <3>1, ClockTypesStep, BusMoves, TimelinesStep, CreditStep, GridStep DEF OnTimeInv
  <2>2. CASE UNCHANGED timedVars
    <3>. USE <2>2 DEF timedVars, vars, arbVars, seqVars, fabricVars, timerVars, historyVars
    <3>1. ClockTypeOK' /\ Masterless' /\ Timelines' /\ TwoStates'
      BY DEF OnTimeInv, ClockTypeOK, Masterless, Timelines, TwoStates, Undisturbed
    <3>2. CreditBound' /\ StateGrid'
      BY DEF OnTimeInv, CreditBound, StateGrid, Undisturbed, Waited, Delay, OnGrid
    <3>. QED BY <3>1, <3>2 DEF OnTimeInv
  <2>. QED BY <2>1, <2>2
<1>. QED BY <1>1, <1>2, KeptInvHolds, PTL DEF TimedSpec

-----------------------------------------------------------------------------
(* Cycles on time. *)

\* A cycle that ends while the CPU is alone ends with its machine state.
LEMMA EndsOnGrid == OnTimeInv => CpuOnStateGrid
<1>. SUFFICES ASSUME OnTimeInv, Last, ~shared PROVE phase = ClksPerState - 1
  BY DEF CpuOnStateGrid
<1>1. /\ timed /\ busCnt \in 0 .. CycleClks /\ busCnt # 0 /\ busCnt <= 1
      /\ phase \in 0 .. ClksPerState - 1 /\ phase + busCnt \in {ClksPerState, CycleClks}
  BY DEF Last, OnTimeInv, ClockTypeOK, Timelines, StateGrid, Undisturbed
<1>. QED BY <1>1, StateLength

\* As long as the CPU has had the bus to itself, each of its cycles ends in the
\* last clock of a machine state: the back to back words of a field, cycles
\* with wait states and cycles that begin in the middle of a state included.
THEOREM CpuEndsOnGrid == TimedSpec => []CpuOnStateGrid
<1>. QED BY EndsOnGrid, OnTimeInvHolds, PTL

\* Without an external master no cycle is shorter than two machine states that
\* no other cycle had a part in, and the CPU's end on the state grid.  With one
\* the first half does not hold: the timer counts the master's clocks as free.
THEOREM CyclesOnTimeWithoutHold ==
  ASSUME HoldLevels = {FALSE}
  PROVE  TimedSpec => []CyclesOnTime
<1>1. OnTimeInv => CycleTakesTwoStates
  <2>. SUFFICES ASSUME OnTimeInv, Last
                PROVE  own + 1 + (IF arb = "CPU" THEN free ELSE 0) >= CycleClks
    BY DEF CycleTakesTwoStates
  <2>1. /\ timed /\ busCnt \in 0 .. CycleClks /\ busCnt <= 1
        /\ own \in 0 .. CycleClks /\ free \in 0 .. CycleClks
        /\ busCnt + own + (IF arb = "CPU" THEN free ELSE 0) >= CycleClks
    BY DEF Last, OnTimeInv, ClockTypeOK, TwoStates, Undisturbed
  <2>. QED BY <2>1, StateLength
<1>2. OnTimeInv => CyclesOnTime
  BY <1>1, EndsOnGrid DEF CyclesOnTime
<1>. QED BY <1>2, OnTimeInvHolds, PTL
=============================================================================
