------------------------- MODULE IoRegistersProofs --------------------------
(***************************************************************************)
(* Proofs about the I/O registers and the stages before them, for every    *)
(* width of a word from two bits, every set of events and of the core's    *)
(* requests, both values of CYCLE_ACCURATE, and cycles of any length.      *)
(*                                                                         *)
(* The host may read and write its own port's register, but makes no       *)
(* indirect I/O writes (NoHostWrites): with them a posted write can be     *)
(* lost (CommittedApart).                                                  *)
(***************************************************************************)
EXTENDS IoRegisters, MemoryFabricProofs

NoHostWrites == \A r \in HostRequests : ~r.we

-----------------------------------------------------------------------------
(* The invariant.                                                           *)

InFlight == post[1] \/ post[2] \/ post[3]

\* The core waits for the access that is being served.
Awaited == active /\ ~posted

\* A posted write is alone in the stages, and still on its way to the bus
\* while it needs the snapshot.
InLine ==
    /\ post[1] => ~post[2] /\ ~post[3]
    /\ post[2] => ~post[3]
    /\ InFlight => CYCLE_ACCURATE
    /\ post[1] => active /\ posted /\ arb # "CPU"
    /\ post[2] => active /\ posted /\ (arb = "CPU" => age = 0)

\* What is posted.
Kinds ==
    /\ active => req.io /\ (posted <=> CYCLE_ACCURATE /\ req.we)
    /\ age \in 0 .. MinCycle

\* The field's bits are in the word to write.
BitsMerged == \A b \in WordMask(access, 0) : merged[b] = WordData(access, 0)[b]

\* A posted write has come as far as its stage says.
PostedWrite ==
    /\ InFlight => access = intended
    /\ post[1] => rdLate
    /\ post[2] /\ access.addr = PSIZE => words = psize
    /\ post[3] => BitsMerged
    /\ post[3] /\ access.addr = PSIZE => merged = Merge(psize, access, 0)

\* What the core has written is in the register, but for the write in flight.
WantedMade ==
    wanted = IF InFlight /\ access.addr = PSIZE THEN Merge(psize, access, 0) ELSE psize

Justified(w) == Justify([k \in 0 .. 2 |-> w], access)

\* So has an access the core waits for.
AwaitedAccess ==
    Awaited =>
        /\ access = core.field /\ isIo /\ ~InFlight
        /\ CYCLE_ACCURATE => rdLate
        /\ (arb = "CPU" \/ ~CYCLE_ACCURATE) /\ access.addr = PSIZE => words = psize
        /\ arb = "CPU" /\ (age > 0 \/ ~CYCLE_ACCURATE) /\ access.addr = PSIZE
             => rdata = Justified(psize)
        /\ arb = "CPU" /\ ~CYCLE_ACCURATE => BitsMerged
        /\ arb = "CPU" /\ ~CYCLE_ACCURATE /\ access.addr = PSIZE
             => merged = Merge(psize, access, 0)

PipeInv == Inv /\ InLine /\ Kinds /\ PostedWrite /\ WantedMade /\ AwaitedAccess

\* Reset establishes it.
LEMMA InitPipeInv == IoInit => PipeInv
<1> SUFFICES ASSUME IoInit PROVE PipeInv
  OBVIOUS
<1>1. Inv
  BY InitInv DEF IoInit
<1>2. ~post[1] /\ ~post[2] /\ ~post[3] /\ ~active
  BY DEF IoInit, Init
<1>3. age \in 0 .. MinCycle
  BY IoAssumption DEF IoInit
<1>. QED BY <1>1, <1>2, <1>3
     DEF PipeInv, InLine, Kinds, PostedWrite, WantedMade, AwaitedAccess, InFlight, Awaited, IoInit

-----------------------------------------------------------------------------
(* A clock of the fabric, as the stages see it.                             *)

\* A clock of the registers is one of the fabric.
LEMMA ClockIsNext ==
  ASSUME NEW ack \in BOOLEAN, NEW events, NEW direct, IoClock(ack, events, direct)
  PROVE  Next
<1>1. Clock(ack, NoRow, 0)
  BY DEF IoClock
<1>2. 0 \in IoValues /\ NoRow \in Rows \cup {NoRow}
  BY IoAssumption
<1>. SUFFICES \E a \in BOOLEAN, refresh \in Rows \cup {NoRow}, ioLive \in IoValues :
                Clock(a, refresh, ioLive)
  BY DEF Next
<1>. USE <1>2
<1>. WITNESS ack \in BOOLEAN, NoRow \in Rows \cup {NoRow}, 0 \in IoValues
<1>. QED BY <1>1

\* The bus serves the CPU only while a request is active, and grants it the
\* bus only if one was active before.
LEMMA CpuOwns ==
  ASSUME PipeInv
  PROVE  arb = "CPU" => active /\ req.io
BY DEF PipeInv, Inv, FabricInv, Reservation, Kinds

LEMMA CpuGranted ==
  ASSUME PipeInv, NEW ack \in BOOLEAN, NEW events, NEW direct, IoClock(ack, events, direct)
  PROVE  /\ arb' = "CPU" /\ arb # "CPU" => active /\ arb = "IDLE"
         /\ arb = "CPU" /\ ack => arb' = "IDLE"
         /\ arb = "CPU" /\ ~ack => arb' = "CPU"
         /\ arb' = "CPU" => age' = IF arb = "CPU" /\ age # MinCycle THEN age + 1
                                   ELSE IF arb = "CPU" THEN age ELSE 0
<1>. DEFINE in == ArbPins(ack, NoRow, 0)
<1>1. Arbitrate(in) /\ in.cpu = CpuReq /\ in.ack = ack
  BY DEF IoClock, Clock, FabricClock, ArbiterClock, ArbPins
<1>. HIDE DEF in
<1>2. seq = "IDLE" /\ ~rmwActive
  <2>1. seq # "IDLE" => active /\ ~req.io
    BY DEF PipeInv, Inv, FabricInv, Reservation
  <2>2. rmwActive => seq \in {"WRITE_READ", "WRITE_WORD"}
    BY DEF PipeInv, Inv, FabricInv, Reservation
  <2>3. rmwActive \in BOOLEAN
    BY DEF PipeInv, Inv, FabricInv, TypeOK, ArbTypeOK
  <2>. QED BY <2>1, <2>2, <2>3 DEF PipeInv, Kinds
<1>3. CpuReq => active
  BY <1>2 DEF CpuReq, WordReq
<1>4. arb' = "CPU" /\ arb # "CPU" => active /\ arb = "IDLE"
  BY <1>1, <1>2, <1>3 DEF Arbitrate, GrantHold, GrantReserved, GrantScreen, GrantDram, GrantHost,
     GrantCpu, NothingToDo, KeepHold, EndHold, CycleRuns, EndCycle, Free
<1>5. arb = "CPU" => arb' = IF ack THEN "IDLE" ELSE "CPU"
  BY <1>1 DEF Arbitrate, GrantHold, GrantReserved, GrantScreen, GrantDram, GrantHost,
     GrantCpu, NothingToDo, KeepHold, EndHold, CycleRuns, EndCycle, Free, Masters
<1>6. age' = IF arb # "IDLE" /\ ~ack THEN IF age = MinCycle THEN age ELSE age + 1 ELSE 0
  BY DEF IoClock
<1>. QED BY <1>4, <1>5, <1>6

\* No write of the host comes to the registers.
LEMMA NoHostCommit ==
  ASSUME PipeInv, NoHostWrites, NEW ack \in BOOLEAN
  PROVE  ~HostCommit(ack)
BY DEF PipeInv, Inv, FabricInv, TypeOK, HostCommit, NoHostWrites

\* Requests are of I/O registers, and taken as they are presented.
LEMMA Presented ==
  ASSUME PipeInv, core # NoReq
  PROVE  /\ core \in CoreRequests /\ core.io /\ ~core.late /\ core.we \in BOOLEAN
         /\ AsPresented(core) = core
<1>1. core \in CoreRequests
  BY DEF PipeInv, Inv, FabricInv, TypeOK
<1>. QED BY <1>1, IoAssumption, FabricAssumption DEF AsPresented, CoreRequest

\* A request that is not posted is answered when its cycle ends, a posted write
\* when it is taken; and nothing is taken while the snapshot is in use.
LEMMA Answers ==
  ASSUME PipeInv, NEW ack \in BOOLEAN, ack => age = MinCycle
  PROVE  /\ RequestDone(ack) => active /\ arb = "CPU" /\ ack
         /\ Capture(ack) => /\ core # NoReq /\ ~post[1] /\ ~post[2] /\ Snapshot
                            /\ active => CYCLE_ACCURATE /\ posted /\ arb = "CPU" /\ ack
         /\ Awaited => core # NoReq /\ (core.we <=> req.we) /\ ~Capture(ack)
         /\ core # NoReq /\ CoreAck(ack) =>
              IF CYCLE_ACCURATE /\ core.we THEN Capture(ack)
              ELSE Awaited /\ arb = "CPU" /\ ack /\ ~Capture(ack)
         /\ core # NoReq /\ CoreAck(ack) /\ Capture(ack) => CYCLE_ACCURATE /\ core.we
<1>1. /\ active => req.io /\ (posted <=> CYCLE_ACCURATE /\ req.we)
      /\ post[1] => active /\ posted /\ arb # "CPU"
      /\ post[2] => active /\ posted /\ (arb = "CPU" => age = 0)
  BY DEF PipeInv, Kinds, InLine
<1>2. Awaited => core # NoReq /\ core.we = req.we
  BY DEF Awaited, PipeInv, Inv, FabricInv, AnswerMatchesRequest
<1>3. RequestDone(ack) => active /\ arb = "CPU" /\ ack
  BY <1>1 DEF RequestDone, CpuAck
<1>4. MinCycle # 0
  BY IoAssumption
<1>5. Capture(ack) => /\ core # NoReq /\ ~post[1] /\ ~post[2]
                      /\ active => CYCLE_ACCURATE /\ posted /\ arb = "CPU" /\ ack
  BY <1>1, <1>3, <1>4 DEF Capture
<1>6. Awaited => ~Capture(ack)
  BY <1>5 DEF Awaited
<1>7. core # NoReq /\ CoreAck(ack) =>
        IF CYCLE_ACCURATE /\ core.we THEN Capture(ack)
        ELSE Awaited /\ arb = "CPU" /\ ack /\ ~Capture(ack)
  BY <1>1, <1>2, <1>3, <1>6 DEF CoreAck, Posts, Awaited
<1>8. core # NoReq /\ CoreAck(ack) /\ Capture(ack) => CYCLE_ACCURATE /\ core.we
  BY <1>7
<1>. QED BY <1>2, <1>3, <1>5, <1>6, <1>7, <1>8 DEF Snapshot

\* The request register in a clock: it takes a request, keeps it, ends it or is
\* empty.
LEMMA Registered ==
  ASSUME PipeInv, NEW ack \in BOOLEAN, NEW events, NEW direct, IoClock(ack, events, direct)
  PROVE  /\ Capture(ack) => /\ active' /\ req' = core /\ arb' # "CPU"
                            /\ posted' <=> CYCLE_ACCURATE /\ core.we
         /\ ~Capture(ack) /\ active' => /\ active /\ ~RequestDone(ack) /\ posted' = posted
                                        /\ req'.io = req.io /\ req'.we = req.we
         /\ active /\ ~RequestDone(ack) => active'
         /\ core # NoReq /\ ~CoreAck(ack) => core' = core
<1>1. RequestRegister(ack, 0) /\ CoreClient(ack) /\ (ack => age = MinCycle)
  BY DEF IoClock, Clock, FabricClock
<1>2. /\ RequestDone(ack) => active /\ arb = "CPU" /\ ack
      /\ Capture(ack) => core # NoReq /\ (active => arb = "CPU" /\ ack)
  BY <1>1, Answers
<1>3. Capture(ack) => /\ active' /\ req' = core
                      /\ posted' <=> CYCLE_ACCURATE /\ core.we
  BY <1>1, <1>2, Presented DEF RequestRegister, TakeRequest, ServeRequest, NoRequest, Capture, Posts
<1>4. Capture(ack) => arb' # "CPU"
  BY <1>2, CpuGranted, CpuOwns
<1>5. req \in CoreRequest
  BY DEF PipeInv, Inv, FabricInv, TypeOK
<1>6. ~Capture(ack) /\ active' => /\ active /\ ~RequestDone(ack) /\ posted' = posted
                                  /\ req'.io = req.io /\ req'.we = req.we
  BY <1>1, <1>5 DEF RequestRegister, TakeRequest, ServeRequest, NoRequest, CoreRequest
<1>7. active /\ ~RequestDone(ack) => active'
  BY <1>1 DEF RequestRegister, TakeRequest, ServeRequest, NoRequest
<1>8. core # NoReq /\ ~CoreAck(ack) => core' = core
  BY <1>1 DEF CoreClient
<1>. QED BY <1>3, <1>4, <1>6, <1>7, <1>8

-----------------------------------------------------------------------------
(* A clock of the stages and the registers.                                 *)

\* The stages.
LEMMA Staged ==
  ASSUME PipeInv, NEW ack \in BOOLEAN, NEW events, NEW direct, IoClock(ack, events, direct)
  PROVE  /\ post'[1] <=> CYCLE_ACCURATE /\ Capture(ack) /\ core.we
         /\ post'[2] <=> post[1]
         /\ post'[3] <=> post[2]
<1>1. post' = <<CYCLE_ACCURATE /\ core # NoReq /\ core.we /\ CoreAck(ack), post[1], post[2]>>
  BY DEF IoClock, PipelineClock
<1>2. ack => age = MinCycle
  BY DEF IoClock
<1>3. CYCLE_ACCURATE /\ core # NoReq /\ core.we /\ CoreAck(ack)
        <=> CYCLE_ACCURATE /\ Capture(ack) /\ core.we
  BY <1>2, Answers DEF CoreAck, Posts, Capture
<1>. QED BY <1>1, <1>3

\* What the CPU writes in a clock is its field, in the register's word.
LEMMA Committed ==
  ASSUME PipeInv, NEW ack \in BOOLEAN, ack => age = MinCycle, CpuCommit(ack)
  PROVE  /\ access = Made /\ BitsMerged
         /\ access.addr = PSIZE => merged = Merge(psize, access, 0)
         /\ CYCLE_ACCURATE => InFlight
         /\ ~CYCLE_ACCURATE => core # NoReq /\ core.we /\ CoreAck(ack)
<1>1. CASE CYCLE_ACCURATE
  <2>1. post[3]
    BY <1>1 DEF CpuCommit
  <2>. QED BY <1>1, <2>1 DEF PipeInv, PostedWrite, InFlight, Made
<1>2. CASE ~CYCLE_ACCURATE
  <2>1. core # NoReq /\ core.we /\ CoreAck(ack)
    BY <1>2 DEF CpuCommit
  <2>2. Awaited /\ arb = "CPU"
    BY <1>2, <2>1, Answers
  <2>. QED BY <1>2, <2>1, <2>2 DEF PipeInv, AwaitedAccess, Made
<1>. QED BY <1>1, <1>2

\* The register with no owner but the CPU.
LEMMA PlainRegister ==
  ASSUME PipeInv, NoHostWrites,
         NEW ack \in BOOLEAN, NEW events, NEW direct, IoClock(ack, events, direct)
  PROVE  psize' = IF CpuCommit(ack) /\ access.addr = PSIZE THEN Merge(psize, access, 0)
                  ELSE psize
<1>1. psize' = IF Writes(ack, PSIZE) THEN WriteData(ack) ELSE psize
  BY DEF IoClock, RegistersClock
<1>2. Writes(ack, PSIZE) <=> CpuCommit(ack) /\ access.addr = PSIZE
  BY NoHostCommit DEF Writes
<1>3. WriteData(ack) = merged
  BY NoHostCommit DEF WriteData
<1>4. ack => age = MinCycle
  BY DEF IoClock
<1>. QED BY <1>1, <1>2, <1>3, <1>4, Committed

\* The stage after the read has the register.
LEMMA ViewOfPlain == \A f : f.addr = PSIZE => Register(f.addr) = psize
BY DEF Register, PSIZE, INTPEND, HSTCTLL

\* The writes in flight keep their order.
LEMMA InLineStep ==
  ASSUME PipeInv, NEW ack \in BOOLEAN, NEW events, NEW direct, IoClock(ack, events, direct)
  PROVE  InLine'
<1>1. /\ post[1] => ~post[2] /\ ~post[3]
      /\ post[2] => ~post[3]
      /\ InFlight => CYCLE_ACCURATE
      /\ post[1] => active /\ posted /\ arb # "CPU"
  BY DEF PipeInv, InLine
<1>2. ack => age = MinCycle
  BY DEF IoClock
<1>3. Capture(ack) => ~post[1] /\ ~post[2]
  BY <1>2, Answers
<1>4. /\ post'[1] => ~post'[2] /\ ~post'[3]
      /\ post'[2] => ~post'[3]
      /\ post'[1] \/ post'[2] \/ post'[3] => CYCLE_ACCURATE
  BY <1>1, <1>3, Staged DEF InFlight
<1>5. post'[1] => active' /\ posted' /\ arb' # "CPU"
  BY Staged, Registered
<1>6. ASSUME post'[2] PROVE active' /\ posted' /\ (arb' = "CPU" => age' = 0)
  <2>1. active /\ posted /\ arb # "CPU" /\ ~Capture(ack)
    BY <1>1, <1>3, <1>6, Staged
  <2>2. ~RequestDone(ack)
    BY <1>2, <2>1, Answers
  <2>3. active' /\ posted'
    BY <2>1, <2>2, Registered
  <2>. QED BY <2>1, <2>3, CpuGranted
<1>. QED BY <1>4, <1>5, <1>6 DEF InLine, InFlight

\* What is posted stays so.
LEMMA KindsStep ==
  ASSUME PipeInv, NEW ack \in BOOLEAN, NEW events, NEW direct, IoClock(ack, events, direct)
  PROVE  Kinds'
<1>1. active => req.io /\ (posted <=> CYCLE_ACCURATE /\ req.we)
  BY DEF PipeInv, Kinds
<1>2. age \in 0 .. MinCycle /\ MinCycle \in Nat
  BY IoAssumption DEF PipeInv, Kinds
<1>3. age' = IF arb # "IDLE" /\ ~ack THEN IF age = MinCycle THEN age ELSE age + 1 ELSE 0
  BY DEF IoClock
<1>4. age' \in 0 .. MinCycle
  BY <1>2, <1>3
<1>5. CASE Capture(ack)
  <2>1. core # NoReq
    BY <1>5 DEF Capture
  <2>. QED BY <1>4, <1>5, <2>1, Registered, Presented DEF Kinds
<1>6. CASE ~Capture(ack)
  BY <1>1, <1>4, <1>6, Registered DEF Kinds
<1>. QED BY <1>5, <1>6

\* A posted write goes from stage to stage with its own snapshot.
LEMMA PostedWriteStep ==
  ASSUME PipeInv, NoHostWrites,
         NEW ack \in BOOLEAN, NEW events, NEW direct, IoClock(ack, events, direct)
  PROVE  PostedWrite'
<1>1. /\ post[1] => ~post[2] /\ ~post[3]
      /\ post[2] => ~post[3]
      /\ InFlight => CYCLE_ACCURATE
  BY DEF PipeInv, InLine
<1>2. /\ InFlight => access = intended
      /\ post[1] => rdLate
      /\ post[2] /\ access.addr = PSIZE => words = psize
  BY DEF PipeInv, PostedWrite
<1>3. ack => age = MinCycle
  BY DEF IoClock
<1>4. /\ access' = IF Snapshot THEN core.field ELSE access
      /\ rdLate' = (CYCLE_ACCURATE /\ Snapshot)
      /\ words' = IF rdLate \/ (~CYCLE_ACCURATE /\ Snapshot) THEN ReadView ELSE words
      /\ merged' = IF isIo \/ post[1] \/ post[2] THEN Merge(words, access, 0) ELSE merged
  BY DEF IoClock, PipelineClock
<1>5. Program(ack)
  BY DEF IoClock
<1>6. CASE CYCLE_ACCURATE /\ Capture(ack) /\ core.we
  <2>1. core # NoReq /\ Snapshot /\ ~post[1] /\ ~post[2] /\ CoreAck(ack)
    BY <1>3, <1>6, Answers DEF CoreAck, Posts
  <2>2. access' = core.field /\ intended' = core.field /\ rdLate'
    BY <1>4, <1>5, <1>6, <2>1 DEF Program
  <2>3. ~post'[2] /\ ~post'[3]
    BY <2>1, Staged
  <2>. QED BY <2>2, <2>3 DEF PostedWrite, InFlight
<1>7. CASE post[1]
  <2>1. CYCLE_ACCURATE /\ ~Snapshot /\ ~Capture(ack) /\ InFlight
    BY <1>1, <1>3, <1>7, Answers DEF InFlight, Snapshot
  <2>2. ~(core # NoReq /\ core.we /\ CoreAck(ack))
    BY <1>3, <2>1, Answers
  <2>3. access' = access /\ intended' = intended /\ words' = Register(access.addr)
    BY <1>2, <1>4, <1>5, <1>7, <2>1, <2>2 DEF Program, ReadView
  <2>4. psize' = psize
    BY <1>1, <1>7, <2>1, PlainRegister DEF CpuCommit
  <2>5. ~post'[1] /\ ~post'[3]
    BY <1>1, <1>7, <2>1, Staged
  <2>6. access.addr = PSIZE => words' = psize'
    BY <2>3, <2>4, ViewOfPlain
  <2>. QED BY <1>2, <2>1, <2>3, <2>5, <2>6 DEF PostedWrite, InFlight
<1>8. CASE post[2]
  <2>1. CYCLE_ACCURATE /\ ~Snapshot /\ ~Capture(ack) /\ InFlight /\ ~post[1]
    BY <1>1, <1>3, <1>8, Answers DEF InFlight, Snapshot
  <2>2. ~(core # NoReq /\ core.we /\ CoreAck(ack))
    BY <1>3, <2>1, Answers
  <2>3. access' = access /\ intended' = intended /\ merged' = Merge(words, access, 0)
    BY <1>4, <1>5, <1>8, <2>1, <2>2 DEF Program
  <2>4. psize' = psize
    BY <1>1, <1>8, <2>1, PlainRegister DEF CpuCommit
  <2>5. ~post'[1] /\ ~post'[2]
    BY <2>1, Staged
  <2>6. \A b \in WordMask(access, 0) : Merge(words, access, 0)[b] = WordData(access, 0)[b]
    BY DEF Merge, WordMask
  <2>7. BitsMerged'
    BY <2>3, <2>6 DEF BitsMerged
  <2>. QED BY <1>2, <1>8, <2>1, <2>3, <2>4, <2>5, <2>7 DEF PostedWrite, InFlight
<1>9. CASE ~(CYCLE_ACCURATE /\ Capture(ack) /\ core.we) /\ ~post[1] /\ ~post[2]
  <2>1. ~post'[1] /\ ~post'[2] /\ ~post'[3]
    BY <1>9, Staged
  <2>. QED BY <2>1 DEF PostedWrite, InFlight
<1>. QED BY <1>6, <1>7, <1>8, <1>9

\* The register and the write in flight are what the core has written.
LEMMA WantedStep ==
  ASSUME PipeInv, NoHostWrites,
         NEW ack \in BOOLEAN, NEW events, NEW direct, IoClock(ack, events, direct)
  PROVE  WantedMade'
<1>1. /\ post[1] => ~post[2] /\ ~post[3]
      /\ post[2] => ~post[3]
      /\ InFlight => CYCLE_ACCURATE
  BY DEF PipeInv, InLine
<1>2. wanted = IF InFlight /\ access.addr = PSIZE THEN Merge(psize, access, 0) ELSE psize
  BY DEF PipeInv, WantedMade
<1>3. ack => age = MinCycle
  BY DEF IoClock
<1>4. access' = IF Snapshot THEN core.field ELSE access
  BY DEF IoClock, PipelineClock
<1>5. Program(ack)
  BY DEF IoClock
<1>6. psize' = IF CpuCommit(ack) /\ access.addr = PSIZE THEN Merge(psize, access, 0) ELSE psize
  BY PlainRegister
<1>7. InFlight' <=> post'[1] \/ post'[2] \/ post'[3]
  BY DEF InFlight
<1>8. CASE CYCLE_ACCURATE
  <2>1. core # NoReq /\ core.we /\ CoreAck(ack) <=> Capture(ack) /\ core.we
    BY <1>3, <1>8, Answers DEF CoreAck, Posts
  <2>2. CASE post[1] \/ post[2]
    <3>1. ~Snapshot /\ ~Capture(ack) /\ ~CpuCommit(ack) /\ InFlight /\ InFlight'
      BY <1>1, <1>3, <1>7, <1>8, <2>2, Answers, Staged DEF Snapshot, CpuCommit, InFlight
    <3>2. access' = access /\ psize' = psize /\ wanted' = wanted
      BY <1>4, <1>5, <1>6, <2>1, <3>1 DEF Program
    <3>. QED BY <1>2, <3>1, <3>2 DEF WantedMade
  <2>3. CASE ~post[1] /\ ~post[2]
    <3>1. psize' = wanted
      BY <1>2, <1>6, <1>8, <2>3 DEF CpuCommit, InFlight
    <3>2. CASE Capture(ack) /\ core.we
      <4>1. InFlight' /\ access' = core.field
        BY <1>3, <1>4, <1>7, <1>8, <3>2, Staged, Answers
      <4>2. wanted' = IF core.field.addr = PSIZE THEN Merge(wanted, core.field, 0) ELSE wanted
        BY <1>5, <2>1, <3>2 DEF Program
      <4>. QED BY <3>1, <4>1, <4>2 DEF WantedMade
    <3>3. CASE ~(Capture(ack) /\ core.we)
      <4>1. ~InFlight'
        BY <1>7, <2>3, <3>3, Staged
      <4>2. wanted' = wanted
        BY <1>5, <2>1, <3>3 DEF Program
      <4>. QED BY <3>1, <4>1, <4>2 DEF WantedMade
    <3>. QED BY <3>2, <3>3
  <2>. QED BY <2>2, <2>3
<1>9. CASE ~CYCLE_ACCURATE
  <2>1. ~InFlight /\ ~InFlight'
    BY <1>1, <1>7, <1>9, Staged DEF InFlight
  <2>2. CASE CpuCommit(ack)
    <3>1. access = core.field /\ core # NoReq /\ core.we /\ CoreAck(ack)
      BY <1>3, <1>9, <2>2, Committed DEF Made
    <3>2. wanted' = IF core.field.addr = PSIZE THEN Merge(wanted, core.field, 0) ELSE wanted
      BY <1>5, <3>1 DEF Program
    <3>. QED BY <1>2, <1>6, <2>1, <2>2, <3>1, <3>2 DEF WantedMade
  <2>3. CASE ~CpuCommit(ack)
    <3>1. wanted' = wanted
      BY <1>5, <1>9, <2>3 DEF Program, CpuCommit
    <3>. QED BY <1>2, <1>6, <2>1, <2>3, <3>1 DEF WantedMade
  <2>. QED BY <2>2, <2>3
<1>. QED BY <1>8, <1>9

\* An access the core waits for has its snapshot before the bus can end it.
LEMMA AwaitedStep ==
  ASSUME PipeInv, NoHostWrites,
         NEW ack \in BOOLEAN, NEW events, NEW direct, IoClock(ack, events, direct)
  PROVE  AwaitedAccess'
<1>1. SUFFICES ASSUME active', ~posted' PROVE AwaitedAccess'
  BY DEF AwaitedAccess, Awaited
<1>2. ack => age = MinCycle
  BY DEF IoClock
<1>3. /\ access' = IF Snapshot THEN core.field ELSE access
      /\ rdLate' = (CYCLE_ACCURATE /\ Snapshot)
      /\ words' = IF rdLate \/ (~CYCLE_ACCURATE /\ Snapshot) THEN ReadView ELSE words
      /\ isIo' = IF core # NoReq THEN core.io ELSE isIo
      /\ rdata' = IF isIo THEN Justified(words) ELSE rdata
      /\ merged' = IF isIo \/ post[1] \/ post[2] THEN Merge(words, access, 0) ELSE merged
  BY DEF IoClock, PipelineClock, Justified
<1>4. psize' = IF CpuCommit(ack) /\ access.addr = PSIZE THEN Merge(psize, access, 0) ELSE psize
  BY PlainRegister
<1>5. CASE Capture(ack)
  <2>1. core # NoReq /\ Snapshot /\ ~post[1] /\ ~post[2] /\ ~(CYCLE_ACCURATE /\ core.we)
    BY <1>1, <1>2, <1>5, Answers, Registered
  <2>2. ~CoreAck(ack)
    BY <1>2, <1>5, <2>1, Answers
  <2>3. core' = core /\ access' = core.field /\ isIo' /\ arb' # "CPU"
        /\ (CYCLE_ACCURATE => rdLate')
    BY <1>3, <1>5, <2>1, <2>2, Registered, Presented
  <2>4. ~post'[1] /\ ~post'[2] /\ ~post'[3]
    BY <2>1, Staged
  <2>5. ~CYCLE_ACCURATE => psize' = psize /\ words' = Register(core.field.addr)
    BY <1>3, <1>4, <2>1, <2>2 DEF CpuCommit, ReadView
  <2>6. ~CYCLE_ACCURATE /\ access'.addr = PSIZE => words' = psize'
    BY <2>3, <2>5, ViewOfPlain
  <2>. QED BY <2>3, <2>4, <2>6 DEF AwaitedAccess, InFlight
<1>6. CASE ~Capture(ack)
  <2>1. active /\ ~posted /\ ~RequestDone(ack) /\ Awaited
    BY <1>1, <1>6, Registered DEF Awaited
  <2>2. core # NoReq /\ ~CoreAck(ack)
    BY <1>2, <1>6, <2>1, Answers DEF CoreAck
  <2>3. /\ access = core.field /\ isIo /\ ~InFlight
        /\ CYCLE_ACCURATE => rdLate
        /\ (arb = "CPU" \/ ~CYCLE_ACCURATE) /\ access.addr = PSIZE => words = psize
    BY <2>1 DEF PipeInv, AwaitedAccess
  <2>4. Snapshot /\ ~CpuCommit(ack)
    BY <2>2, <2>3 DEF Snapshot, CpuCommit, InFlight
  <2>5. core' = core /\ access' = access /\ isIo' /\ psize' = psize
        /\ (CYCLE_ACCURATE => rdLate')
    BY <1>3, <1>4, <2>2, <2>3, <2>4, Registered, Presented
  <2>6. ~post'[1] /\ ~post'[2] /\ ~post'[3]
    BY <1>6, <2>3, Staged DEF InFlight
  <2>7. words' = Register(access.addr)
    BY <1>3, <2>3, <2>4 DEF ReadView
  <2>8. access'.addr = PSIZE => words' = psize'
    BY <2>5, <2>7, ViewOfPlain
  <2>9. rdata' = Justified(words) /\ merged' = Merge(words, access, 0)
    BY <1>3, <2>3
  <2>10. arb' = "CPU" /\ age' > 0 => arb = "CPU"
    BY CpuGranted
  <2>11. \A w : Justified(w)' = Justified(w)
    BY <2>5 DEF Justified
  <2>12. arb' = "CPU" /\ (age' > 0 \/ ~CYCLE_ACCURATE) /\ access'.addr = PSIZE
           => rdata' = Justified(psize)'
    BY <2>3, <2>5, <2>9, <2>10, <2>11 DEF Justified
  <2>13. BitsMerged'
    <3>1. \A b \in WordMask(access, 0) : Merge(words, access, 0)[b] = WordData(access, 0)[b]
      BY DEF Merge, WordMask
    <3>. QED BY <2>5, <2>9, <3>1 DEF BitsMerged
  <2>14. ~CYCLE_ACCURATE /\ access'.addr = PSIZE => merged' = Merge(psize', access', 0)
    BY <2>3, <2>5, <2>9
  <2>. QED BY <2>3, <2>5, <2>6, <2>8, <2>12, <2>13, <2>14 DEF AwaitedAccess, InFlight
<1>. QED BY <1>5, <1>6

\* Every clock keeps the invariant.
LEMMA StepPipeInv == NoHostWrites /\ PipeInv /\ [IoNext]_ioVars => PipeInv'
<1> SUFFICES ASSUME NoHostWrites, PipeInv, [IoNext]_ioVars PROVE PipeInv'
  OBVIOUS
<1>1. ASSUME NEW ack \in BOOLEAN, NEW events \in Events, NEW direct \in Direct,
             IoClock(ack, events, direct)
      PROVE  PipeInv'
  <2>1. Inv'
    BY <1>1, ClockIsNext, StepInv DEF PipeInv
  <2>2. InLine' /\ Kinds'
    BY <1>1, InLineStep, KindsStep
  <2>3. PostedWrite' /\ WantedMade' /\ AwaitedAccess'
    BY <1>1, PostedWriteStep, WantedStep, AwaitedStep
  <2>. QED BY <2>1, <2>2, <2>3 DEF PipeInv
<1>2. CASE UNCHANGED ioVars
  <2>1. Inv'
    BY <1>2, StepInv DEF PipeInv, ioVars
  <2>2. InLine' /\ Kinds' /\ PostedWrite' /\ WantedMade' /\ AwaitedAccess'
    BY <1>2 DEF PipeInv, InLine, Kinds, PostedWrite, WantedMade, AwaitedAccess, Awaited, InFlight,
       BitsMerged, Justified, ioVars, vars, arbVars, fabricVars, clientVars, regVars, pipeVars
  <2>. QED BY <2>1, <2>2 DEF PipeInv
<1>. QED BY <1>1, <1>2 DEF IoNext

\* Where a field write is in the stages, and that it meets no other there, in
\* every reachable state.
THEOREM PipeInvHolds == NoHostWrites => (IoSpec => []PipeInv)
<1>. SUFFICES ASSUME NoHostWrites PROVE IoSpec => []PipeInv
  OBVIOUS
<1>1. PipeInv /\ [IoNext]_ioVars => PipeInv'
  BY StepPipeInv
<1>. QED BY <1>1, InitPipeInv, PTL DEF IoSpec

-----------------------------------------------------------------------------
(* The properties.                                                          *)

\* Field writes that follow each other and the reads after them see each other
\* in program order, posted or not, for cycles as short as one clock.
THEOREM WritesInOrder == NoHostWrites => (IoSpec => []ProgramOrder)
<1>. SUFFICES ASSUME NoHostWrites PROVE IoSpec => []ProgramOrder
  OBVIOUS
<1>1. PipeInv => ProgramOrder
  <2> SUFFICES ASSUME PipeInv PROVE ProgramOrder
    OBVIOUS
  <2>1. ~InFlight => psize = wanted
    BY DEF PipeInv, WantedMade
  <2>2. ASSUME NEW ack \in BOOLEAN, core # NoReq, ~core.we, core.field.addr = PSIZE,
               ack => age = MinCycle, CoreAck(ack)
        PROVE  rdata = Justify([k \in 0 .. 2 |-> wanted], core.field)
    <3>1. Awaited /\ arb = "CPU" /\ ack
      BY <2>2, Answers
    <3>2. age > 0
      BY <2>2, <3>1, IoAssumption
    <3>3. access = core.field /\ ~InFlight /\ rdata = Justified(psize)
      BY <2>2, <3>1, <3>2 DEF PipeInv, AwaitedAccess
    <3>. QED BY <2>1, <3>3 DEF Justified
  <2>. QED BY <2>1, <2>2 DEF ProgramOrder, InFlight
<1>. QED BY <1>1, PipeInvHolds, PTL

\* A latch, and what it is to show of the events in a set.
Shown(l)  == Register(LatchReg(l))[LatchBit(l)]
BitOf(l, set) == IF l \in set THEN 1 ELSE 0

LatchBits == \A l \in Latches : Shown(l) = BitOf(l, owed)

\* A word has the latches of field f's register as they stood, all of them or
\* those beside the field.
Holds(word, set, f) ==
    \A l \in Latches : LatchReg(l) = f.addr => word[LatchBit(l)] = BitOf(l, set)
HoldsRest(word, set, f) ==
    \A l \in Latches : LatchReg(l) = f.addr /\ LatchBit(l) \notin WordMask(f, 0)
                         => word[LatchBit(l)] = BitOf(l, set)

\* What a write carries through the stages is one clock old, then two.
CopiesAge ==
    /\ post[2] => Holds(words, past[1], access)
    /\ post[3] => HoldsRest(merged, past[2], access)
    /\ Awaited /\ ~CYCLE_ACCURATE => Holds(words, past[1], access)
    /\ Awaited /\ ~CYCLE_ACCURATE /\ arb = "CPU" => HoldsRest(merged, past[2], access)

LatchInv == PipeInv /\ LatchBits /\ CopiesAge

LEMMA LatchPlaces ==
  /\ \A l \in Latches : LatchBit(l) \in Lanes /\ LatchReg(l) # PSIZE
  /\ DI \in Lanes /\ INTIN \in Lanes /\ INTOUT \in Lanes /\ INTIN # INTOUT
BY IoAssumption DEF Lanes, Latches, LatchBit, LatchReg, DI, INTIN, INTOUT, INTPEND, HSTCTLL, PSIZE

\* A register is read with its latches as they stand.
LEMMA ReadHolds == ASSUME LatchBits, NEW f PROVE Holds(Register(f.addr), owed, f)
BY DEF LatchBits, Shown, Holds

\* What is read goes back beside the field.
LEMMA MergeHolds ==
  ASSUME NEW word, NEW set, NEW f, Holds(word, set, f)
  PROVE  HoldsRest(Merge(word, f, 0), set, f)
BY LatchPlaces DEF Holds, HoldsRest, Merge

\* What the CPU writes to a latch is what the core meant for it.
LEMMA CommittedBit ==
  ASSUME LatchInv, NEW ack \in BOOLEAN, ack => age = MinCycle, CpuCommit(ack),
         NEW l \in Latches, access.addr = LatchReg(l)
  PROVE  access = Made /\ merged[LatchBit(l)] = Meaning(l)
<1>1. /\ access = Made /\ BitsMerged
      /\ ~CYCLE_ACCURATE => core # NoReq /\ core.we /\ CoreAck(ack)
  BY Committed DEF LatchInv
<1>2. HoldsRest(merged, past[2], access)
  <2>1. CASE CYCLE_ACCURATE
    BY <2>1 DEF LatchInv, CopiesAge, CpuCommit
  <2>2. CASE ~CYCLE_ACCURATE
    <3>1. Awaited /\ arb = "CPU"
      BY <1>1, <2>2, Answers DEF LatchInv
    <3>. QED BY <2>2, <3>1 DEF LatchInv, CopiesAge
  <2>. QED BY <2>1, <2>2
<1>3. CASE LatchBit(l) \in WordMask(access, 0)
  BY <1>1, <1>3 DEF BitsMerged, Meaning
<1>4. CASE LatchBit(l) \notin WordMask(access, 0)
  BY <1>1, <1>2, <1>4 DEF HoldsRest, BitOf, Meaning
<1>. QED BY <1>1, <1>3, <1>4

\* The copies grow older with the history.
LEMMA CopiesStep ==
  ASSUME LatchInv, NEW ack \in BOOLEAN, NEW events, NEW direct, IoClock(ack, events, direct)
  PROVE  CopiesAge'
<1>1. PipeInv /\ LatchBits /\ CopiesAge /\ (ack => age = MinCycle)
  BY DEF LatchInv, IoClock
<1>2. /\ access' = IF Snapshot THEN core.field ELSE access
      /\ words' = IF rdLate \/ (~CYCLE_ACCURATE /\ Snapshot) THEN ReadView ELSE words
      /\ merged' = IF isIo \/ post[1] \/ post[2] THEN Merge(words, access, 0) ELSE merged
  BY DEF IoClock, PipelineClock
<1>3. Underway => past'[1] = owed /\ past'[2] = past[1]
  BY DEF IoClock, Meant
<1>4. InFlight => CYCLE_ACCURATE
  BY <1>1 DEF PipeInv, InLine
<1>5. ASSUME post'[2] PROVE Holds(words', past'[1], access')
  <2>1. post[1] /\ CYCLE_ACCURATE /\ ~Snapshot /\ rdLate
    BY <1>1, <1>4, <1>5, Staged DEF InFlight, Snapshot, PipeInv, PostedWrite
  <2>2. access' = access /\ words' = Register(access.addr) /\ past'[1] = owed
    BY <1>2, <1>3, <2>1 DEF ReadView, Underway
  <2>. QED BY <1>1, <2>2, ReadHolds
<1>6. ASSUME post'[3] PROVE HoldsRest(merged', past'[2], access')
  <2>1. post[2] /\ CYCLE_ACCURATE /\ ~Snapshot
    BY <1>1, <1>4, <1>6, Staged DEF InFlight, Snapshot
  <2>2. access' = access /\ merged' = Merge(words, access, 0) /\ past'[2] = past[1]
    BY <1>2, <1>3, <2>1 DEF Underway
  <2>. QED BY <1>1, <2>1, <2>2, MergeHolds DEF CopiesAge
<1>7. ASSUME Awaited', ~CYCLE_ACCURATE
      PROVE  /\ Holds(words', past'[1], access')
             /\ arb' = "CPU" => HoldsRest(merged', past'[2], access')
  <2>1. ~post[1] /\ ~post[2]
    BY <1>4, <1>7 DEF InFlight
  <2>2. CASE Capture(ack)
    <3>1. core # NoReq /\ Snapshot /\ arb' # "CPU"
      BY <1>1, <2>1, <2>2, Registered DEF Snapshot, Capture
    <3>2. access' = core.field /\ words' = Register(core.field.addr) /\ past'[1] = owed
      BY <1>2, <1>3, <1>7, <3>1 DEF ReadView, Underway
    <3>. QED BY <1>1, <3>1, <3>2, ReadHolds
  <2>3. CASE ~Capture(ack)
    <3>1. Awaited
      BY <1>1, <1>7, <2>3, Registered DEF Awaited
    <3>2. core # NoReq /\ Snapshot /\ access = core.field /\ isIo
      BY <1>1, <2>1, <3>1, Answers DEF Snapshot, PipeInv, AwaitedAccess
    <3>3. access' = access /\ words' = Register(access.addr) /\ merged' = Merge(words, access, 0)
      BY <1>2, <1>7, <3>2 DEF ReadView
    <3>4. past'[1] = owed /\ past'[2] = past[1]
      BY <1>3, <1>7, <3>2 DEF Underway
    <3>5. Holds(words, past[1], access)
      BY <1>1, <1>7, <3>1 DEF CopiesAge
    <3>. QED BY <1>1, <3>3, <3>4, <3>5, ReadHolds, MergeHolds
  <2>. QED BY <2>2, <2>3
<1>. QED BY <1>5, <1>6, <1>7 DEF CopiesAge

\* A clock keeps every latch in step with what has happened to it.
LEMMA LatchesStep ==
  ASSUME NoHostWrites, LatchInv,
         NEW ack \in BOOLEAN, NEW events, NEW direct, IoClock(ack, events, direct)
  PROVE  LatchBits'
<1>1. PipeInv /\ LatchBits /\ (ack => age = MinCycle) /\ ~HostCommit(ack)
  BY NoHostCommit DEF LatchInv, IoClock
<1>2. intpend' = IntpendNext(ack, events) /\ hstctll' = HstctllNext(ack, direct)
      /\ Meant(ack, events, direct)
  BY DEF IoClock, RegistersClock
<1>3. \A l \in Latches, v \in {0, 1} :
        Says(ack, l, v) <=> /\ CpuCommit(ack) /\ access.addr = LatchReg(l)
                            /\ merged[LatchBit(l)] = v
  <2>1. CpuCommit(ack) => access = Made
    BY <1>1, Committed
  <2>. QED BY <1>1, <2>1, CommittedBit DEF Says
<1>4. \A l, v : ~HostSays(ack, l, v)
  BY <1>1 DEF HostSays
<1>5. Shown("DI")' = BitOf("DI", owed')
  <2>1. intpend'[DI] = IF DI \in events THEN 1
                       ELSE IF CpuCommit(ack) /\ access.addr = INTPEND /\ merged[DI] = 0 THEN 0
                       ELSE intpend[DI]
    BY <1>1, <1>2, LatchPlaces DEF IntpendNext, Writes, WriteData
  <2>2. "DI" \in owed' <=> DI \in events \/ ("DI" \in owed /\ ~Says(ack, "DI", 0))
    BY <1>2, <1>4 DEF Meant, Raised, Cleared, Latches
  <2>3. Says(ack, "DI", 0) <=> CpuCommit(ack) /\ access.addr = INTPEND /\ merged[DI] = 0
    BY <1>3 DEF Latches, LatchReg, LatchBit
  <2>4. intpend[DI] = BitOf("DI", owed)
    BY <1>1 DEF LatchBits, Shown, Latches, LatchReg, LatchBit, Register, HSTCTLL, INTPEND
  <2>. QED BY <2>1, <2>2, <2>3, <2>4 DEF Shown, LatchReg, LatchBit, Register, BitOf, HSTCTLL, INTPEND
<1>6. Shown("INTIN")' = BitOf("INTIN", owed')
  <2>1. hstctll'[INTIN] =
          IF direct # NoHost /\ direct[INTIN] = 1 THEN 1
          ELSE IF CpuCommit(ack) /\ access.addr = HSTCTLL /\ merged[INTIN] = 0 THEN 0
          ELSE hstctll[INTIN]
    BY <1>1, <1>2, LatchPlaces DEF HstctllNext, Sets, Clears, ByCpu
  <2>2. "INTIN" \in owed' <=> \/ direct # NoHost /\ direct[INTIN] = 1
                              \/ "INTIN" \in owed /\ ~Says(ack, "INTIN", 0)
    BY <1>2, <1>4 DEF Meant, Raised, Cleared, Latches
  <2>3. Says(ack, "INTIN", 0) <=> CpuCommit(ack) /\ access.addr = HSTCTLL /\ merged[INTIN] = 0
    BY <1>3 DEF Latches, LatchReg, LatchBit
  <2>4. hstctll[INTIN] = BitOf("INTIN", owed)
    BY <1>1 DEF LatchBits, Shown, Latches, LatchReg, LatchBit, Register, HSTCTLL, INTPEND
  <2>. QED BY <2>1, <2>2, <2>3, <2>4 DEF Shown, LatchReg, LatchBit, Register, BitOf, HSTCTLL, INTPEND
<1>7. Shown("INTOUT")' = BitOf("INTOUT", owed')
  <2>1. hstctll'[INTOUT] =
          IF CpuCommit(ack) /\ access.addr = HSTCTLL /\ merged[INTOUT] = 1 THEN 1
          ELSE IF direct # NoHost /\ direct[INTOUT] = 0 THEN 0
          ELSE hstctll[INTOUT]
    BY <1>1, <1>2, LatchPlaces DEF HstctllNext, Sets, Clears, ByCpu
  <2>2. "INTOUT" \in owed' <=> \/ Says(ack, "INTOUT", 1)
                               \/ "INTOUT" \in owed /\ ~(direct # NoHost /\ direct[INTOUT] = 0)
    BY <1>2, <1>4 DEF Meant, Raised, Cleared, Latches
  <2>3. Says(ack, "INTOUT", 1) <=> CpuCommit(ack) /\ access.addr = HSTCTLL /\ merged[INTOUT] = 1
    BY <1>3 DEF Latches, LatchReg, LatchBit
  <2>4. hstctll[INTOUT] = BitOf("INTOUT", owed)
    BY <1>1 DEF LatchBits, Shown, Latches, LatchReg, LatchBit, Register, HSTCTLL, INTPEND
  <2>. QED BY <2>1, <2>2, <2>3, <2>4 DEF Shown, LatchReg, LatchBit, Register, BitOf, HSTCTLL, INTPEND
<1>. QED BY <1>5, <1>6, <1>7 DEF LatchBits, Latches

\* A latch is set exactly if an event has come that nobody has cleared since:
\* for any order and coincidence of events, the CPU's writes of whole registers
\* or of fields, posted or not, and the host's writes of its own register.  A
\* field write of another bit clears only what is younger than two clocks.
THEOREM LatchesShowEvents == NoHostWrites => (IoSpec => []LatchesExact)
<1>. SUFFICES ASSUME NoHostWrites PROVE IoSpec => []LatchesExact
  OBVIOUS
<1>1. IoInit => LatchInv
  <2> SUFFICES ASSUME IoInit PROVE LatchBits /\ CopiesAge
    BY InitPipeInv DEF LatchInv
  <2>1. ~post[2] /\ ~post[3] /\ ~Awaited
    BY DEF IoInit, Init, Awaited
  <2>2. LatchBits
    BY LatchPlaces DEF IoInit, ZeroWord, LatchBits, Shown, BitOf, Register, LatchReg,
       INTPEND, HSTCTLL
  <2>. QED BY <2>1, <2>2 DEF CopiesAge
<1>2. LatchInv /\ [IoNext]_ioVars => LatchInv'
  <2> SUFFICES ASSUME LatchInv, [IoNext]_ioVars PROVE LatchInv'
    OBVIOUS
  <2>1. PipeInv'
    BY StepPipeInv DEF LatchInv
  <2>2. CASE IoNext
    BY <2>1, <2>2, LatchesStep, CopiesStep DEF IoNext, LatchInv
  <2>3. CASE UNCHANGED ioVars
    BY <2>1, <2>3 DEF LatchInv, LatchBits, Shown, Register, CopiesAge, Awaited, Holds, HoldsRest,
       ioVars, vars, arbVars, fabricVars, regVars, pipeVars
  <2>. QED BY <2>2, <2>3
<1>3. LatchInv => LatchesExact
  BY DEF LatchInv, LatchBits, Shown, BitOf, Latches, LatchReg, LatchBit, Register, LatchesExact,
     INTPEND, HSTCTLL
<1>. QED BY <1>1, <1>2, <1>3, PTL DEF IoSpec
=============================================================================
