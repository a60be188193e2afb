------------------------------ MODULE BusProofs ------------------------------
(***************************************************************************)
(* Proofs about the two ends of the local bus: the bridge that carries one *)
(* command at a time from the core's clock to the bus clock, for every set *)
(* of commands and answers and every interleaving of the two clocks; then  *)
(* the phase engine, what HOLD and LRDY do to the cycles on the pins, for  *)
(* any number of cycles after reset, any commands and any levels of HOLD,  *)
(* its grant and LRDY in any phase; last the EMU indication on the pin it  *)
(* shares with HLDA, for core clocks of any length.                        *)
(***************************************************************************)
EXTENDS BridgeChannel, MCLocalBus, EmuPins, TLAPS

-----------------------------------------------------------------------------
(* The bridge.                                                              *)

AgeOf == 0 .. 2

ChannelTypeOK ==
    /\ SrcTypeOK(Commands \cup {NoCmd}, Answers \cup {NoData})
    /\ DstTypeOK(Commands \cup {NoCmd}, Answers \cup {NoData})
    /\ asked \in Commands \cup {NoCmd}
    /\ cmdAge \in AgeOf /\ responseAge \in AgeOf

\* A payload is as old as its toggle's way through the synchronizer is long.
Ages ==
    /\ reqSync[1] # seen => cmdAge >= 1
    /\ reqSync[2] # seen => cmdAge = 2
    /\ outstanding /\ ackSync[1] = reqToggle => responseAge >= 1
    /\ outstanding /\ ackSync[2] = reqToggle => responseAge = 2

\* Where the command and its answer are.
Payloads ==
    /\ outstanding => srcCmd \in Commands
    /\ outstanding /\ seen = reqToggle => dstCmd = srcCmd
    /\ outstanding /\ ackToggle = reqToggle => dstResponse \in Answers
    /\ srcAck => ~outstanding /\ ~armed /\ asked \in Commands

ChannelInv == ChannelTypeOK /\ OneToggleInFlight /\ Ages /\ Payloads

\* What an edge of the core clock, or none, does to the core side.
Launched  == /\ asked # NoCmd /\ armed /\ ~outstanding
             /\ srcCmd' = asked /\ reqToggle' = 1 - reqToggle
             /\ armed' = FALSE /\ outstanding' = TRUE /\ srcAck' = FALSE
             /\ srcRdata' = srcRdata
Returned  == /\ outstanding /\ ackSync[2] = reqToggle
             /\ srcRdata' = dstResponse /\ srcAck' = TRUE
             /\ outstanding' = FALSE /\ armed' = (armed \/ asked = NoCmd)
             /\ srcCmd' = srcCmd /\ reqToggle' = reqToggle
SrcWaited == /\ ~(outstanding /\ ackSync[2] = reqToggle)
             /\ outstanding \/ asked = NoCmd \/ ~armed
             /\ srcAck' = FALSE /\ armed' = (armed \/ asked = NoCmd)
             /\ srcCmd' = srcCmd /\ srcRdata' = srcRdata
             /\ reqToggle' = reqToggle /\ outstanding' = outstanding
SrcIdle   == UNCHANGED <<srcVars, asked>>

Accepted  == /\ ~dstActive /\ reqSync[2] # seen
             /\ dstCmd' = srcCmd /\ seen' = reqSync[2] /\ dstActive' = TRUE
             /\ dstResponse' = dstResponse /\ ackToggle' = ackToggle
Served    == /\ dstActive /\ dstResponse' \in Answers
             /\ ackToggle' = seen /\ dstActive' = FALSE
             /\ dstCmd' = dstCmd /\ seen' = seen
DstWaited == /\ dstActive \/ reqSync[2] = seen
             /\ dstCmd' = dstCmd /\ dstResponse' = dstResponse /\ seen' = seen
             /\ ackToggle' = ackToggle /\ dstActive' = dstActive
DstIdle   == UNCHANGED dstVars

SrcTicked == /\ Launched \/ Returned \/ SrcWaited
             /\ ackSync' = <<ackToggle, ackSync[1]>>
             /\ Requester
DstTicked == /\ Accepted \/ Served \/ DstWaited
             /\ reqSync' = <<reqToggle, reqSync[1]>>

\* An edge of the core clock is one of the moves above.
LEMMA SrcMoves == CoreEdge => SrcTicked
BY DEF CoreEdge, SrcEdge, Launch, TakeAnswer, SrcWait, Answered, Synced,
       SyncEdge, SrcTicked, Launched, Returned, SrcWaited

\* An edge of the bus clock is one of the moves above.
LEMMA DstMoves == ASSUME NEW ack \in BOOLEAN, ControllerEdge(ack) PROVE DstTicked
BY DEF ControllerEdge, DstEdge, Accept, Serve, DstWait, Synced, SyncEdge,
       DstTicked, Accepted, Served, DstWaited

-----------------------------------------------------------------------------
\* Reset establishes the invariant.
LEMMA ChannelInitInv == Init => ChannelInv
<1> SUFFICES ASSUME Init PROVE ChannelInv
  OBVIOUS
<1>. USE DEF Init, BridgeInit, SyncReset
<1>1. ChannelTypeOK
  <2>1. ackSync \in SyncPair(Toggle) /\ reqSync \in SyncPair(Toggle)
    BY DEF SyncPair, Toggle
  <2>2. reqToggle \in Toggle /\ seen \in Toggle /\ ackToggle \in Toggle
    BY DEF Toggle
  <2>3. cmdAge \in AgeOf /\ responseAge \in AgeOf
    BY DEF AgeOf
  <2>. QED BY <2>1, <2>2, <2>3 DEF ChannelTypeOK, SrcTypeOK, DstTypeOK
<1>2. OneToggleInFlight
  BY DEF OneToggleInFlight, RequestPath, AnswerPath
<1>3. Ages /\ Payloads
  BY DEF Ages, Payloads
<1>. QED BY <1>1, <1>2, <1>3 DEF ChannelInv

\* The facts of the invariant about the toggles, for the step lemmas.
LEMMA ToggleFacts ==
  ChannelInv =>
    /\ reqToggle \in {0, 1} /\ seen \in {0, 1} /\ ackToggle \in {0, 1}
    /\ reqSync[1] \in {0, 1} /\ reqSync[2] \in {0, 1}
    /\ ackSync[1] \in {0, 1} /\ ackSync[2] \in {0, 1}
    /\ ackSync = <<ackSync[1], ackSync[2]>>
BY DEF ChannelInv, ChannelTypeOK, SrcTypeOK, DstTypeOK, SyncPair, Toggle

\* One step of the channel in terms of the two sides' moves.
LEMMA StepMoves ==
  ASSUME NEW core \in BOOLEAN, NEW ticks \in BOOLEAN, NEW ack \in BOOLEAN,
         Step(core, ticks, ack)
  PROVE  /\ IF core THEN SrcTicked ELSE SrcIdle
         /\ IF ticks THEN DstTicked ELSE DstIdle
<1>1. IF core THEN CoreEdge ELSE SrcIdle
  BY DEF Step, SrcIdle
<1>2. IF ticks THEN ControllerEdge(ack) ELSE DstIdle
  BY DEF Step, DstIdle
<1>3. IF core THEN SrcTicked ELSE SrcIdle
  BY <1>1, SrcMoves
<1>4. IF ticks THEN DstTicked ELSE DstIdle
  BY <1>2, DstMoves
<1>. QED BY <1>3, <1>4

\* A step keeps every register of the core side in its range.
LEMMA SrcTypesStep ==
  ASSUME ChannelInv, SrcTicked \/ SrcIdle
  PROVE  /\ SrcTypeOK(Commands \cup {NoCmd}, Answers \cup {NoData})'
         /\ asked' \in Commands \cup {NoCmd}
<1>. USE DEF ChannelInv, ChannelTypeOK, SrcTypeOK, DstTypeOK
<1>1. CASE SrcIdle
  BY <1>1 DEF SrcIdle, srcVars
<1>2. CASE SrcTicked
  <2>1. ackSync' \in SyncPair(Toggle)
    BY <1>2 DEF SrcTicked, SyncPair
  <2>2. asked' \in Commands \cup {NoCmd}
    BY <1>2 DEF SrcTicked, Requester
  <2>3. /\ srcCmd' \in Commands \cup {NoCmd} /\ srcRdata' \in Answers \cup {NoData}
        /\ reqToggle' \in Toggle
    BY <1>2 DEF SrcTicked, Launched, Returned, SrcWaited, Toggle
  <2>4. srcAck' \in BOOLEAN /\ armed' \in BOOLEAN /\ outstanding' \in BOOLEAN
    BY <1>2 DEF SrcTicked, Launched, Returned, SrcWaited
  <2>. QED BY <2>1, <2>2, <2>3, <2>4
<1>. QED BY <1>1, <1>2

\* A step keeps every register of the bus side in its range.
LEMMA DstTypesStep ==
  ASSUME ChannelInv, DstTicked \/ DstIdle
  PROVE  DstTypeOK(Commands \cup {NoCmd}, Answers \cup {NoData})'
<1>. USE DEF ChannelInv, ChannelTypeOK, SrcTypeOK, DstTypeOK
<1>1. CASE DstIdle
  BY <1>1 DEF DstIdle, dstVars
<1>2. CASE DstTicked
  <2>1. reqSync' \in SyncPair(Toggle)
    BY <1>2 DEF DstTicked, SyncPair
  <2>2. /\ dstCmd' \in Commands \cup {NoCmd} /\ dstResponse' \in Answers \cup {NoData}
        /\ seen' \in Toggle /\ ackToggle' \in Toggle
    BY <1>2 DEF DstTicked, Accepted, Served, DstWaited, SyncPair
  <2>3. dstActive' \in BOOLEAN
    BY <1>2 DEF DstTicked, Accepted, Served, DstWaited
  <2>. QED BY <2>1, <2>2, <2>3
<1>. QED BY <1>1, <1>2

-----------------------------------------------------------------------------
\* What a move of the core side, and of the bus side, does to its synchronizer.
LEMMA SyncSteps ==
  /\ SrcTicked => ackSync'[1] = ackToggle /\ ackSync'[2] = ackSync[1]
  /\ SrcIdle   => ackSync'[1] = ackSync[1] /\ ackSync'[2] = ackSync[2]
  /\ DstTicked => reqSync'[1] = reqToggle /\ reqSync'[2] = reqSync[1]
  /\ DstIdle   => reqSync'[1] = reqSync[1] /\ reqSync'[2] = reqSync[2]
BY DEF SrcTicked, SrcIdle, DstTicked, DstIdle, srcVars, dstVars

\* When the core side launches, every copy of both toggles agrees.
LEMMA AllEqual ==
  ASSUME ChannelInv, ~outstanding
  PROVE  /\ ~dstActive /\ reqToggle = ackToggle /\ reqToggle = seen
         /\ reqSync[1] = reqToggle /\ reqSync[2] = reqToggle
         /\ ackSync[1] = reqToggle /\ ackSync[2] = reqToggle
BY ToggleFacts DEF ChannelInv, OneToggleInFlight, RequestPath, AnswerPath

\* When the core side sees its answer, every copy of both toggles agrees.
LEMMA AnsweredEqual ==
  ASSUME ChannelInv, outstanding, ackSync[2] = reqToggle
  PROVE  /\ ~dstActive /\ reqToggle = ackToggle /\ reqToggle = seen
         /\ reqSync[1] = reqToggle /\ reqSync[2] = reqToggle
         /\ ackSync[1] = reqToggle
BY ToggleFacts DEF ChannelInv, OneToggleInFlight, RequestPath, AnswerPath

-----------------------------------------------------------------------------
(* A step keeps the toggles in step with each other, move by move. *)

\* A launch finds the bus side idle: the new request is the only change.
LEMMA TogglesLaunched ==
  ASSUME ChannelInv, SrcTicked, Launched, DstTicked \/ DstIdle
  PROVE  OneToggleInFlight'
<1>. DEFINE v == reqToggle
<1>1. /\ ~outstanding /\ ~dstActive /\ v \in {0, 1}
      /\ reqSync[1] = v /\ reqSync[2] = v /\ seen = v /\ ackToggle = v
      /\ ackSync[1] = v /\ ackSync[2] = v
  BY AllEqual, ToggleFacts DEF Launched
<1>2. /\ seen' = v /\ ackToggle' = v /\ ~dstActive'
      /\ reqSync'[1] = v /\ reqSync'[2] = v
      /\ ackSync'[1] = v /\ ackSync'[2] = v
  BY <1>1, SyncSteps DEF DstTicked, DstIdle, dstVars, Accepted, Served, DstWaited
<1>3. /\ reqToggle' = 1 - v /\ outstanding' /\ ~armed' /\ ~srcAck'
      /\ srcCmd' = asked /\ asked # NoCmd
  BY DEF Launched
<1>4. asked' = asked
  BY <1>1 DEF SrcTicked, Requester, Launched, ChannelInv, Payloads
<1>. QED BY <1>1, <1>2, <1>3, <1>4 DEF OneToggleInFlight, RequestPath, AnswerPath

\* An answer finds the bus side idle: nothing is in flight after it.
LEMMA TogglesReturned ==
  ASSUME ChannelInv, SrcTicked, Returned, DstTicked \/ DstIdle
  PROVE  OneToggleInFlight'
<1>. DEFINE v == reqToggle
<1>1. /\ ~dstActive /\ v \in {0, 1}
      /\ reqSync[1] = v /\ reqSync[2] = v /\ seen = v /\ ackToggle = v
      /\ ackSync[1] = v
  BY AnsweredEqual, ToggleFacts DEF Returned
<1>2. /\ seen' = v /\ ackToggle' = v /\ ~dstActive'
      /\ reqSync'[1] = v /\ reqSync'[2] = v
      /\ ackSync'[1] = v /\ ackSync'[2] = v
  BY <1>1, SyncSteps DEF DstTicked, DstIdle, dstVars, Accepted, Served, DstWaited
<1>3. reqToggle' = v /\ ~outstanding'
  BY DEF Returned
<1>4. asked # NoCmd /\ ~srcAck
  BY ChannelAssumption DEF Returned, ChannelInv, OneToggleInFlight, Payloads
<1>5. asked' # NoCmd
  BY <1>4 DEF SrcTicked, Requester
<1>. QED BY <1>1, <1>2, <1>3, <1>5 DEF OneToggleInFlight, RequestPath, AnswerPath

\* While the core side waits, or has nothing to do, the copies move on.
LEMMA TogglesWaited ==
  ASSUME ChannelInv, (SrcTicked /\ SrcWaited) \/ SrcIdle, DstTicked \/ DstIdle
  PROVE  OneToggleInFlight'
<1>1. /\ reqToggle \in {0, 1} /\ seen \in {0, 1} /\ ackToggle \in {0, 1}
      /\ reqSync[1] \in {0, 1} /\ reqSync[2] \in {0, 1}
      /\ ackSync[1] \in {0, 1} /\ ackSync[2] \in {0, 1}
  BY ToggleFacts
<1>2. OneToggleInFlight
  BY DEF ChannelInv
<1>3. /\ reqToggle' = reqToggle /\ outstanding' = outstanding /\ srcCmd' = srcCmd
      /\ outstanding => ~armed'
  <2>1. outstanding => ~armed /\ asked # NoCmd
    BY <1>2, ChannelAssumption DEF OneToggleInFlight, ChannelInv, Payloads
  <2>2. CASE SrcIdle
    BY <2>1, <2>2 DEF SrcIdle, srcVars
  <2>3. CASE SrcTicked /\ SrcWaited
    BY <2>1, <2>3 DEF SrcWaited
  <2>. QED BY <2>2, <2>3
<1>4. \/ ackSync'[1] = ackToggle /\ ackSync'[2] = ackSync[1]
      \/ ackSync'[1] = ackSync[1] /\ ackSync'[2] = ackSync[2]
  BY SyncSteps
<1>5. \/ reqSync'[1] = reqToggle /\ reqSync'[2] = reqSync[1] /\ DstTicked
      \/ reqSync'[1] = reqSync[1] /\ reqSync'[2] = reqSync[2] /\ DstIdle
  BY SyncSteps
<1>6. RequestPath'
  BY <1>1, <1>2, <1>3, <1>5 DEF OneToggleInFlight, RequestPath, AnswerPath,
     DstTicked, DstIdle, dstVars, Accepted, Served, DstWaited
<1>7. AnswerPath'
  BY <1>1, <1>2, <1>3, <1>4, <1>5 DEF OneToggleInFlight, RequestPath, AnswerPath,
     DstTicked, DstIdle, dstVars, Accepted, Served, DstWaited
<1>8. outstanding' => asked' = srcCmd' /\ ~armed' /\ ~srcAck'
  BY <1>2, <1>3 DEF OneToggleInFlight, SrcTicked, SrcWaited, Requester, SrcIdle,
     srcVars, ChannelInv, Payloads
<1>9. srcAck' => asked' # NoCmd
  BY <1>2 DEF SrcWaited, SrcIdle, srcVars, OneToggleInFlight
<1>. QED BY <1>6, <1>7, <1>8, <1>9 DEF OneToggleInFlight

\* A step of either side, or of both, keeps the toggles in step.
LEMMA TogglesStep ==
  ASSUME ChannelInv, SrcTicked \/ SrcIdle, DstTicked \/ DstIdle
  PROVE  OneToggleInFlight'
<1>1. CASE SrcTicked /\ Launched
  BY <1>1, TogglesLaunched
<1>2. CASE SrcTicked /\ Returned
  BY <1>2, TogglesReturned
<1>3. CASE (SrcTicked /\ SrcWaited) \/ SrcIdle
  BY <1>3, TogglesWaited
<1>. QED BY <1>1, <1>2, <1>3 DEF SrcTicked

-----------------------------------------------------------------------------
(* A step keeps the payloads old enough for their toggles. *)

\* A payload's age is reset when its toggle changes, and grows with the clock
\* that will look at it.
AgesMoved ==
    /\ \/ reqToggle' # reqToggle /\ cmdAge' = 0
       \/ reqToggle' = reqToggle /\ DstTicked /\ cmdAge' = Older(cmdAge)
       \/ reqToggle' = reqToggle /\ DstIdle /\ cmdAge' = cmdAge
    /\ \/ ackToggle' # ackToggle /\ responseAge' = 0
       \/ ackToggle' = ackToggle /\ SrcTicked /\ responseAge' = Older(responseAge)
       \/ ackToggle' = ackToggle /\ SrcIdle /\ responseAge' = responseAge

\* Every step moves the ages so.
LEMMA StepAges ==
  ASSUME NEW core \in BOOLEAN, NEW ticks \in BOOLEAN, NEW ack \in BOOLEAN,
         Step(core, ticks, ack)
  PROVE  AgesMoved
BY StepMoves DEF Step, AgesMoved

\* An age grows by one up to two.
LEMMA OlderAge ==
  ASSUME NEW age \in AgeOf
  PROVE  /\ Older(age) \in AgeOf /\ Older(age) >= 1
         /\ age >= 1 => Older(age) = 2
BY DEF Older, AgeOf

\* The command has stood still long enough when its toggle arrives.
LEMMA CommandAgeStep ==
  ASSUME ChannelInv, SrcTicked \/ SrcIdle, DstTicked \/ DstIdle, AgesMoved
  PROVE  /\ cmdAge' \in AgeOf
         /\ reqSync'[1] # seen' => cmdAge' >= 1
         /\ reqSync'[2] # seen' => cmdAge' = 2
<1>1. /\ cmdAge \in AgeOf
      /\ reqSync[1] # seen => cmdAge >= 1
      /\ reqSync[2] # seen => cmdAge = 2
      /\ Older(cmdAge) \in AgeOf /\ Older(cmdAge) >= 1
      /\ cmdAge >= 1 => Older(cmdAge) = 2
  BY OlderAge DEF ChannelInv, ChannelTypeOK, Ages
<1>2. CASE reqToggle' # reqToggle /\ cmdAge' = 0
  <2>1. SrcTicked /\ Launched
    BY <1>2 DEF SrcTicked, SrcIdle, srcVars, Returned, SrcWaited
  <2>2. ~dstActive /\ seen = reqToggle /\ reqSync[1] = seen /\ reqSync[2] = seen
    BY <2>1, AllEqual DEF Launched
  <2>3. reqSync'[1] = seen' /\ reqSync'[2] = seen'
    BY <2>2, SyncSteps DEF DstTicked, DstIdle, dstVars, Accepted, Served, DstWaited
  <2>. QED BY <1>2, <2>3 DEF AgeOf
<1>3. CASE reqToggle' = reqToggle /\ DstTicked /\ cmdAge' = Older(cmdAge)
  <2>1. reqSync'[2] = reqSync[1]
    BY <1>3, SyncSteps
  <2>2. CASE seen' = seen
    BY <1>1, <1>3, <2>1, <2>2
  <2>3. CASE Accepted
    <3>1. reqSync[1] = reqSync[2]
      BY <2>3 DEF Accepted, ChannelInv, OneToggleInFlight, RequestPath
    <3>. QED BY <1>1, <1>3, <2>1, <2>3, <3>1 DEF Accepted
  <2>. QED BY <1>3, <2>2, <2>3 DEF DstTicked, Served, DstWaited
<1>4. CASE reqToggle' = reqToggle /\ DstIdle /\ cmdAge' = cmdAge
  BY <1>1, <1>4, SyncSteps DEF DstIdle, dstVars
<1>. QED BY <1>2, <1>3, <1>4 DEF AgesMoved

\* The answer has stood still long enough when its toggle arrives.
LEMMA AnswerAgeStep ==
  ASSUME ChannelInv, SrcTicked \/ SrcIdle, DstTicked \/ DstIdle, AgesMoved
  PROVE  /\ responseAge' \in AgeOf
         /\ outstanding' /\ ackSync'[1] = reqToggle' => responseAge' >= 1
         /\ outstanding' /\ ackSync'[2] = reqToggle' => responseAge' = 2
<1>1. /\ responseAge \in AgeOf
      /\ outstanding /\ ackSync[1] = reqToggle => responseAge >= 1
      /\ outstanding /\ ackSync[2] = reqToggle => responseAge = 2
      /\ Older(responseAge) \in AgeOf /\ Older(responseAge) >= 1
      /\ responseAge >= 1 => Older(responseAge) = 2
  BY OlderAge DEF ChannelInv, ChannelTypeOK, Ages
<1>2. ASSUME SrcTicked, Launched
      PROVE  ackSync'[1] # reqToggle' /\ ackSync'[2] # reqToggle'
  BY <1>2, AllEqual, ToggleFacts, SyncSteps DEF Launched
<1>3. ASSUME ~(SrcTicked /\ Launched)
      PROVE  /\ outstanding' => outstanding
             /\ reqToggle' = reqToggle
  BY <1>3 DEF SrcTicked, SrcIdle, srcVars, Returned, SrcWaited
<1>4. CASE ackToggle' # ackToggle /\ responseAge' = 0
  <2>1. DstTicked /\ Served
    BY <1>4 DEF DstTicked, DstIdle, dstVars, Accepted, DstWaited
  <2>2. dstActive /\ outstanding
    BY <2>1 DEF Served, ChannelInv, OneToggleInFlight, AnswerPath
  <2>3. ackToggle # reqToggle /\ ackToggle = ackSync[2] /\ ackToggle = ackSync[1]
    BY <2>2, ToggleFacts DEF ChannelInv, OneToggleInFlight, RequestPath, AnswerPath
  <2>4. ackSync'[1] # reqToggle /\ ackSync'[2] # reqToggle
    BY <2>3, SyncSteps
  <2>. QED BY <1>3, <1>2, <1>4, <2>4 DEF AgeOf
<1>5. CASE ackToggle' = ackToggle /\ SrcTicked /\ responseAge' = Older(responseAge)
  <2>1. ackSync'[2] = ackSync[1]
    BY <1>5, SyncSteps
  <2>. QED BY <1>1, <1>2, <1>3, <1>5, <2>1
<1>6. CASE ackToggle' = ackToggle /\ SrcIdle /\ responseAge' = responseAge
  BY <1>1, <1>6, SyncSteps DEF SrcIdle, srcVars
<1>. QED BY <1>4, <1>5, <1>6 DEF AgesMoved

-----------------------------------------------------------------------------
(* A step keeps the command and its answer where the toggles say they are. *)

\* What the bus side can do while the core side waits for nothing: wait too.
LEMMA QuietBus ==
  ASSUME ChannelInv, DstTicked \/ DstIdle,
         ~outstanding \/ (outstanding /\ ackSync[2] = reqToggle)
  PROVE  UNCHANGED <<dstCmd, dstResponse, seen, ackToggle, dstActive>>
<1>1. ~dstActive /\ reqSync[2] = seen
  BY AllEqual, AnsweredEqual
<1>. QED BY <1>1 DEF DstTicked, DstIdle, dstVars, Accepted, Served, DstWaited

\* The core side's outstanding command stays put until it is answered.
LEMMA CommandKept ==
  ASSUME ChannelInv, (SrcTicked /\ SrcWaited) \/ SrcIdle
  PROVE  /\ outstanding' = outstanding /\ reqToggle' = reqToggle
         /\ srcCmd' = srcCmd /\ srcRdata' = srcRdata
BY DEF SrcWaited, SrcIdle, srcVars

\* A step keeps the payloads.
LEMMA PayloadsStep ==
  ASSUME ChannelInv, SrcTicked \/ SrcIdle, DstTicked \/ DstIdle
  PROVE  Payloads'
<1>1. CASE SrcTicked /\ Launched
  <2>1. UNCHANGED <<seen, ackToggle>> /\ seen = reqToggle /\ ackToggle = reqToggle
    BY <1>1, QuietBus, AllEqual DEF Launched
  <2>2. seen' # reqToggle' /\ ackToggle' # reqToggle'
    BY <1>1, <2>1, ToggleFacts DEF Launched
  <2>3. srcCmd' \in Commands
    BY <1>1 DEF Launched, ChannelInv, ChannelTypeOK
  <2>. QED BY <1>1, <2>2, <2>3 DEF Launched, Payloads
<1>2. CASE SrcTicked /\ Returned
  <2>1. ~armed /\ ~srcAck /\ asked \in Commands
    BY <1>2 DEF Returned, ChannelInv, OneToggleInFlight, Payloads
  <2>2. ~armed'
    BY <1>2, <2>1, ChannelAssumption DEF Returned
  <2>3. asked' = asked
    BY <1>2, <2>1, ChannelAssumption DEF SrcTicked, Requester
  <2>. QED BY <1>2, <2>1, <2>2, <2>3 DEF Returned, Payloads
<1>3. CASE (SrcTicked /\ SrcWaited) \/ SrcIdle
  <2>1. /\ outstanding' = outstanding /\ reqToggle' = reqToggle /\ srcCmd' = srcCmd
        /\ Payloads
    BY <1>3, CommandKept DEF ChannelInv
  <2>2. outstanding' => srcCmd' \in Commands
    BY <2>1 DEF Payloads
  <2>3. outstanding' /\ seen' = reqToggle' => dstCmd' = srcCmd'
    BY <2>1 DEF Payloads, DstTicked, DstIdle, dstVars, Accepted, Served, DstWaited
  <2>4. outstanding' /\ ackToggle' = reqToggle' => dstResponse' \in Answers
    BY <2>1 DEF Payloads, DstTicked, DstIdle, dstVars, Accepted, Served, DstWaited
  <2>5. srcAck' => ~outstanding' /\ ~armed' /\ asked' \in Commands
    BY <1>3, <2>1 DEF Payloads, SrcWaited, SrcIdle, srcVars
  <2>. QED BY <2>2, <2>3, <2>4, <2>5 DEF Payloads
<1>. QED BY <1>1, <1>2, <1>3 DEF SrcTicked

\* Every step keeps the whole invariant.
LEMMA ChannelStep == ChannelInv /\ [Next]_vars => ChannelInv'
<1> SUFFICES ASSUME ChannelInv, [Next]_vars PROVE ChannelInv'
  OBVIOUS
<1>1. CASE UNCHANGED vars
  BY <1>1 DEF vars, bridgeVars, srcVars, dstVars, ChannelInv, ChannelTypeOK,
     SrcTypeOK, DstTypeOK, OneToggleInFlight, RequestPath, AnswerPath, Ages, Payloads
<1>2. CASE Next
  <2>1. PICK core \in BOOLEAN, ticks \in BOOLEAN, ack \in BOOLEAN : Step(core, ticks, ack)
    BY <1>2 DEF Next
  <2>2. SrcTicked \/ SrcIdle
    BY <2>1, StepMoves
  <2>3. DstTicked \/ DstIdle
    BY <2>1, StepMoves
  <2>4. AgesMoved
    BY <2>1, StepAges
  <2>5. ChannelTypeOK'
    BY <2>2, <2>3, <2>4, SrcTypesStep, DstTypesStep, CommandAgeStep, AnswerAgeStep
       DEF ChannelTypeOK
  <2>6. OneToggleInFlight'
    BY <2>2, <2>3, TogglesStep
  <2>7. Ages'
    BY <2>2, <2>3, <2>4, CommandAgeStep, AnswerAgeStep DEF Ages
  <2>8. Payloads'
    BY <2>2, <2>3, PayloadsStep
  <2>. QED BY <2>5, <2>6, <2>7, <2>8 DEF ChannelInv
<1>. QED BY <1>1, <1>2

-----------------------------------------------------------------------------
\* The invariant holds in every state the channel can reach.
THEOREM ChannelInvariant == Spec => []ChannelInv
<1>. QED BY ChannelInitInv, ChannelStep, PTL DEF Spec

\* The toggles never run into each other in the synchronizers, and the bus
\* side acts only on a request the core side waits for.
THEOREM TogglesInStep == Spec => []OneToggleInFlight
<1>1. ChannelInv => OneToggleInFlight
  BY DEF ChannelInv
<1>. QED BY <1>1, ChannelInvariant, PTL

\* Whoever looks at an unsynchronized payload finds it settled for two of its
\* own clock's edges.
THEOREM PayloadsSettled == Spec => PayloadSettled
<1>1. ASSUME ChannelInv, [Next]_vars
      PROVE  [/\ ~dstActive /\ dstActive' => cmdAge = 2
              /\ outstanding /\ ~outstanding' => responseAge = 2]_vars
  <2>1. CASE UNCHANGED vars
    BY <2>1
  <2>2. CASE Next
    <3>1. PICK core \in BOOLEAN, ticks \in BOOLEAN, ack \in BOOLEAN : Step(core, ticks, ack)
      BY <2>2 DEF Next
    <3>2. SrcTicked \/ SrcIdle
      BY <3>1, StepMoves
    <3>3. DstTicked \/ DstIdle
      BY <3>1, StepMoves
    <3>4. ~dstActive /\ dstActive' => reqSync[2] # seen
      BY <3>3 DEF DstTicked, DstIdle, dstVars, Accepted, Served, DstWaited
    <3>5. outstanding /\ ~outstanding' => ackSync[2] = reqToggle
      BY <3>2 DEF SrcTicked, SrcIdle, srcVars, Launched, Returned, SrcWaited
    <3>. QED BY <1>1, <3>4, <3>5 DEF ChannelInv, Ages
  <2>. QED BY <1>1, <2>1, <2>2
<1>. QED BY <1>1, ChannelInvariant, PTL DEF Spec, PayloadSettled

-----------------------------------------------------------------------------
(* The bridge implements a remote call. *)

\* The stages of a call, from the bridge's registers.
LEMMA Stages ==
  /\ ~outstanding => Stage = (IF srcAck THEN "returned" ELSE "idle")
  /\ outstanding /\ seen # reqToggle => Stage = "asked"
  /\ outstanding /\ seen = reqToggle /\ dstActive => Stage = "serving"
  /\ outstanding /\ seen = reqToggle /\ ~dstActive => Stage = "served"
BY DEF Stage

\* The same after a step.
LEMMA StagesNext ==
  /\ ~outstanding' => Stage' = (IF srcAck' THEN "returned" ELSE "idle")
  /\ outstanding' /\ seen' # reqToggle' => Stage' = "asked"
  /\ outstanding' /\ seen' = reqToggle' /\ dstActive' => Stage' = "serving"
  /\ outstanding' /\ seen' = reqToggle' /\ ~dstActive' => Stage' = "served"
BY DEF Stage

\* A launch asks, an answer returns, and what the core side does after it
\* forgets the call.
LEMMA CoreRefines ==
  ASSUME ChannelInv, SrcTicked \/ SrcIdle, DstTicked \/ DstIdle,
         ~outstanding \/ (outstanding /\ ackSync[2] = reqToggle)
  PROVE  Crossing!Next \/ UNCHANGED <<Stage, What, Result>>
<1>1. /\ UNCHANGED <<dstCmd, dstResponse, seen, ackToggle, dstActive>>
      /\ seen = reqToggle /\ ~dstActive
  BY QuietBus, AllEqual, AnsweredEqual
<1>2. CASE SrcTicked /\ Launched
  <2>1. Stage = "idle"
    BY <1>2, Stages DEF Launched, ChannelInv, Payloads
  <2>2. Stage' = "asked"
    BY <1>1, <1>2, StagesNext, ToggleFacts DEF Launched
  <2>3. What' = asked /\ asked \in Commands /\ Result = NoData /\ Result' = NoData
    BY <1>2, <2>1, <2>2 DEF What, Result, Launched, ChannelInv, ChannelTypeOK
  <2>. QED BY <2>1, <2>2, <2>3 DEF Crossing!Next, Crossing!Ask
<1>3. CASE SrcTicked /\ Returned
  <2>1. Stage = "served"
    BY <1>1, <1>3, Stages DEF Returned
  <2>2. Stage' = "returned"
    BY <1>3, StagesNext DEF Returned
  <2>3. What' = What /\ Result' = Result
    BY <1>1, <1>3, <2>1, <2>2 DEF What, Result, Returned
  <2>. QED BY <2>1, <2>2, <2>3 DEF Crossing!Next, Crossing!Return
<1>4. CASE SrcTicked /\ SrcWaited
  <2>1. ~outstanding /\ ~outstanding' /\ ~srcAck'
    BY <1>4 DEF SrcWaited
  <2>2. Stage' = "idle" /\ What' = NoCmd /\ Result' = NoData
    BY <2>1, StagesNext DEF What, Result
  <2>3. CASE srcAck
    <3>1. Stage = "returned"
      BY <2>1, <2>3, Stages
    <3>. QED BY <2>2, <3>1 DEF Crossing!Next, Crossing!Forget
  <2>4. CASE ~srcAck
    <3>1. Stage = "idle" /\ What = NoCmd /\ Result = NoData
      BY <2>1, <2>4, Stages DEF What, Result
    <3>. QED BY <2>2, <3>1
  <2>. QED BY <2>3, <2>4
<1>5. CASE SrcIdle
  BY <1>1, <1>5 DEF SrcIdle, srcVars, Stage, What, Result
<1>. QED BY <1>2, <1>3, <1>4, <1>5 DEF SrcTicked

\* While the core side waits, the bus side accepts and serves.
LEMMA BusRefines ==
  ASSUME ChannelInv, SrcTicked \/ SrcIdle, DstTicked \/ DstIdle,
         outstanding, ackSync[2] # reqToggle
  PROVE  Crossing!Next \/ UNCHANGED <<Stage, What, Result>>
<1>1. (SrcTicked /\ SrcWaited) \/ SrcIdle
  BY DEF SrcTicked, Launched, Returned
<1>2. /\ outstanding' /\ reqToggle' = reqToggle
      /\ srcCmd' = srcCmd /\ srcRdata' = srcRdata
  BY <1>1, CommandKept
<1>3. CASE DstTicked /\ Accepted
  <2>1. seen # reqToggle /\ seen' = reqToggle
    BY <1>3, ToggleFacts DEF Accepted, ChannelInv, OneToggleInFlight, RequestPath
  <2>2. Stage = "asked" /\ Stage' = "serving"
    BY <1>2, <1>3, <2>1, Stages, StagesNext DEF Accepted
  <2>3. What' = What /\ Result' = Result
    BY <1>3, <2>2 DEF What, Result, Accepted
  <2>. QED BY <2>2, <2>3 DEF Crossing!Next, Crossing!Accept
<1>4. CASE DstTicked /\ Served
  <2>1. seen = reqToggle
    BY <1>4 DEF Served, ChannelInv, OneToggleInFlight, RequestPath
  <2>2. Stage = "serving" /\ Stage' = "served"
    BY <1>2, <1>4, <2>1, Stages, StagesNext DEF Served
  <2>3. What' = What /\ Result' = dstResponse' /\ dstResponse' \in Answers
    BY <1>4, <2>2 DEF What, Result, Served
  <2>. QED BY <2>2, <2>3 DEF Crossing!Next, Crossing!Serve
<1>5. CASE (DstTicked /\ DstWaited) \/ DstIdle
  <2>1. UNCHANGED <<dstCmd, dstResponse, seen, ackToggle, dstActive>>
    BY <1>5 DEF DstWaited, DstIdle, dstVars
  <2>2. Stage' = Stage
    BY <1>2, <2>1 DEF Stage
  <2>3. Stage # "idle" /\ Stage # "returned"
    BY DEF Stage
  <2>4. What' = What /\ Result' = Result
    BY <1>2, <2>1, <2>2, <2>3 DEF What, Result
  <2>. QED BY <2>2, <2>4
<1>. QED BY <1>3, <1>4, <1>5 DEF DstTicked

\* Every command of the requester is served exactly once, as it was asked, and
\* answered with what the controller returned for it.
THEOREM ExactlyOnce == Spec => CrossingSpec
<1>1. Init => Crossing!Init
  BY DEF Init, BridgeInit, Crossing!Init, Stage, What, Result
<1>2. ASSUME ChannelInv, [Next]_vars
      PROVE  [Crossing!Next]_<<Stage, What, Result>>
  <2>1. CASE UNCHANGED vars
    BY <2>1 DEF vars, bridgeVars, srcVars, dstVars, Stage, What, Result
  <2>2. CASE Next
    <3>1. PICK core \in BOOLEAN, ticks \in BOOLEAN, ack \in BOOLEAN : Step(core, ticks, ack)
      BY <2>2 DEF Next
    <3>2. (SrcTicked \/ SrcIdle) /\ (DstTicked \/ DstIdle)
      BY <3>1, StepMoves
    <3>3. CASE outstanding /\ ackSync[2] # reqToggle
      <4>1. Crossing!Next \/ UNCHANGED <<Stage, What, Result>>
        BY <1>2, <3>2, <3>3, BusRefines
      <4>. QED BY <4>1
    <3>4. CASE ~outstanding \/ (outstanding /\ ackSync[2] = reqToggle)
      <4>1. SrcTicked \/ SrcIdle
        BY <3>2
      <4>2. DstTicked \/ DstIdle
        BY <3>2
      <4>3. Crossing!Next \/ UNCHANGED <<Stage, What, Result>>
        BY <1>2, <4>1, <4>2, <3>4, CoreRefines
      <4>. QED BY <4>3
    <3>5. CASE ~outstanding
      BY <3>4, <3>5
    <3>6. CASE outstanding
      BY <3>3, <3>4, <3>6
    <3>. QED BY <3>5, <3>6
  <2>. QED BY <1>2, <2>1, <2>2
<1>. QED BY <1>1, <1>2, ChannelInvariant, PTL DEF Spec, CrossingSpec, Crossing!Spec

-----------------------------------------------------------------------------
(* The phase engine.                                                        *)

EngineTypeOK ==
    /\ phase \in Q1A .. Q4B
    /\ bus \in {"RESET", "IDLE", "FIRST", "SECOND"}
    /\ holdState \in HoldStates
    /\ initLeft \in 0 .. InitCycles

\* The cycles after reset are counted down to the first command.
Initializing ==
    /\ initDone <=> initLeft = 0
    /\ bus = "RESET" => ~initDone
    /\ bus = "IDLE" => initDone

\* The bus is away only between cycles.
HoldBetweenCycles == holdState # "RUN" => bus = "IDLE"

\* What the three flags remember of the second local clocks of a cycle: none
\* before, LRDY's answer from its sample on, a wait from then to the end.
Waits ==
    /\ bus # "SECOND" => ~ready /\ ~extended /\ ~repeated
    /\ phase < Q2A => ~ready
    /\ repeated => extended
    /\ bus = "SECOND" /\ phase >= Q2A => ready \/ extended
    /\ bus = "SECOND" /\ phase >= Q2A /\ ActiveIsIo => ready
    /\ ActiveIsIo => ~extended /\ ~repeated

BusInv == EngineTypeOK /\ Initializing /\ HoldBetweenCycles /\ Waits

-----------------------------------------------------------------------------
(* One edge of the bus clock. *)

\* Reset establishes the invariant.
LEMMA InitBusInv == MCInit => BusInv
<1>. SUFFICES ASSUME MCInit PROVE BusInv
  OBVIOUS
<1>1. EngineTypeOK
  BY InitCyclesAssumption DEF MCInit, BusInit, EngineTypeOK, HoldStates, Q1A, Q4B
<1>2. Initializing
  BY InitCyclesAssumption DEF MCInit, BusInit, Initializing
<1>3. HoldBetweenCycles /\ Waits
  BY DEF MCInit, BusInit, HoldBetweenCycles, Waits, Q1A, Q2A
<1>. QED BY <1>1, <1>2, <1>3 DEF BusInv

\* What an edge may do to the cycle: nothing between cycles without a request,
\* a new cycle, the second local clock, LRDY's sample, a repeat, or the end.
LEMMA CycleStep ==
  ASSUME BusInv, NEW in, in.lrdy \in BOOLEAN, RunCycle(in)
  PROVE  \/ /\ bus = "RESET" /\ bus' = "FIRST"
            /\ UNCHANGED <<ready, extended, repeated, initLeft, initDone>>
         \/ /\ bus = "IDLE" /\ phase = Q4B /\ holdState = "RUN" /\ bus' = "FIRST"
            /\ UNCHANGED <<ready, extended, repeated, initLeft, initDone>>
         \/ /\ bus = "FIRST" /\ phase = Q4B /\ bus' = "SECOND"
            /\ ~ready' /\ ~extended' /\ ~repeated' /\ UNCHANGED <<initLeft, initDone>>
         \/ /\ bus = "SECOND" /\ phase = Q1B /\ (ready' <=> ActiveIsIo \/ in.lrdy)
            /\ (extended' <=> extended \/ ~ready')
            /\ UNCHANGED <<bus, repeated, initLeft, initDone>>
         \/ /\ bus = "SECOND" /\ phase = Q4B /\ ~ready /\ repeated'
            /\ UNCHANGED <<bus, ready, extended, initLeft, initDone>>
         \/ /\ CycleComplete /\ bus' \in {"FIRST", "IDLE"}
            /\ ~ready' /\ ~extended' /\ ~repeated'
            /\ initLeft' \in 0 .. InitCycles /\ (initDone' <=> initLeft' = 0)
            /\ initDone => initDone'
            /\ bus' = "IDLE" => initDone'
         \/ /\ bus = "FIRST" => phase # Q4B
            /\ bus = "SECOND" => phase \notin {Q1B, Q4B}
            /\ bus # "RESET"
            /\ UNCHANGED <<bus, ready, extended, repeated, initLeft, initDone>>
<1>. USE DEF Q1A, Q1B, Q2A, Q2B, Q3A, Q3B, Q4A, Q4B
<1>1. EngineTypeOK /\ Initializing
  BY DEF BusInv
<1>2. CASE LeaveReset
  BY <1>2 DEF LeaveReset
<1>3. CASE BeginCycle(in)
  BY <1>3 DEF BeginCycle
<1>4. CASE StayIdle(in)
  BY <1>4 DEF StayIdle
<1>5. CASE FirstPeriod
  BY <1>5 DEF FirstPeriod, ForgetWaits
<1>6. CASE SampleReady(in)
  <2>1. /\ bus = "SECOND" /\ phase = Q1B /\ (ready' <=> ActiveIsIo \/ in.lrdy)
        /\ UNCHANGED <<bus, repeated, initLeft, initDone>>
    BY <1>6 DEF SampleReady
  <2>2. (extended' <=> extended \/ ~ready')
    BY <1>6, <1>1, <2>1 DEF SampleReady, EngineTypeOK
  <2>. QED BY <2>1, <2>2
<1>7. CASE SampleData(in)
  BY <1>7 DEF SampleData
<1>8. CASE RepeatSecond
  BY <1>8 DEF RepeatSecond
<1>9. CASE EndBusCycle
  <2>1. CASE initDone
    BY <1>1, <1>9, <2>1 DEF EndBusCycle, ForgetWaits, CountInit, EngineTypeOK, Initializing
  <2>2. CASE ~initDone
    <3>1. /\ CycleComplete /\ ~ready' /\ ~extended' /\ ~repeated'
          /\ bus' = (IF initLeft # 1 THEN "FIRST" ELSE "IDLE")
          /\ initLeft' = initLeft - 1 /\ (initDone' <=> initLeft = 1)
      BY <1>9, <2>2 DEF EndBusCycle, ForgetWaits, CountInit
    <3>2. initLeft \in 1 .. InitCycles
      BY <1>1, <2>2, InitCyclesAssumption DEF EngineTypeOK, Initializing
    <3>. QED BY <2>2, <3>1, <3>2, InitCyclesAssumption
  <2>. QED BY <2>1, <2>2
<1>10. CASE SecondPeriod
  BY <1>10 DEF SecondPeriod
<1>. QED BY <1>2, <1>3, <1>4, <1>5, <1>6, <1>7, <1>8, <1>9, <1>10 DEF RunCycle

\* The command of a cycle stays to its end.
LEMMA KindKept ==
  ASSUME NEW in, LatchCommand(in), BusActive, UNCHANGED initDone
  PROVE  UNCHANGED <<ActiveKind, ActiveIsIo>>
BY DEF LatchCommand, BusActive, ActiveKind, ActiveIsIo

\* HOLD changes hands in the middle of a local clock, and leaves RUN only
\* between cycles.
LEMMA HoldStep ==
  ASSUME BusInv, NEW in, HoldChanges(in) \/ HoldStays(in)
  PROVE  /\ holdState' \in HoldStates
         /\ phase = Q4B => holdState' = holdState
         /\ holdState = "RUN" /\ holdState' # "RUN" => bus = "IDLE" /\ phase = Q1B
BY DEF BusInv, EngineTypeOK, HoldStates, HoldChanges, HoldStays, GiveBus, ConfirmHold,
   ReleaseRest, SeeHoldEnd, Resume, ResumeRest, Q1B, Q2B, Q4B

\* An edge of the bus clock keeps the invariant.
LEMMA EdgeKeepsInv ==
  ASSUME BusInv, NEW in, in.lrdy \in BOOLEAN, BusEdge(in)
  PROVE  BusInv'
<1>. USE DEF Q1A, Q1B, Q2A, Q2B, Q3A, Q3B, Q4A, Q4B
<1>1. /\ RunCycle(in) /\ LatchCommand(in) /\ (HoldChanges(in) \/ HoldStays(in))
      /\ phase' = (phase + 1) % 8
  BY DEF BusEdge
<1>2. /\ EngineTypeOK /\ Initializing /\ HoldBetweenCycles /\ Waits
  BY DEF BusInv
<1>3. /\ phase' \in Q1A .. Q4B
      /\ phase' < Q2A <=> phase \in {Q1A, Q4B}
  BY <1>1, <1>2 DEF EngineTypeOK
<1>4. /\ holdState' \in HoldStates
      /\ phase = Q4B => holdState' = holdState
      /\ holdState = "RUN" /\ holdState' # "RUN" => bus = "IDLE" /\ phase = Q1B
  BY <1>1, HoldStep
<1>5. EngineTypeOK'
  BY <1>1, <1>2, <1>3, <1>4, CycleStep DEF EngineTypeOK, CycleComplete
<1>6. Initializing'
  BY <1>1, <1>2, CycleStep DEF Initializing, CycleComplete
<1>7. HoldBetweenCycles'
  BY <1>1, <1>2, <1>4, CycleStep DEF HoldBetweenCycles, CycleComplete
<1>8. Waits'
  <2>1. CASE BusActive /\ UNCHANGED initDone
    <3>1. UNCHANGED ActiveIsIo
      BY <1>1, <2>1, KindKept
    <3>. QED BY <1>1, <1>2, <1>3, <2>1, <3>1, CycleStep DEF Waits, EngineTypeOK, CycleComplete,
             BusActive
  <2>2. CASE ~BusActive
    BY <1>1, <1>2, <2>2, CycleStep DEF Waits, EngineTypeOK, CycleComplete, BusActive
  <2>3. CASE BusActive /\ initDone' # initDone
    BY <1>1, <1>2, <2>3, CycleStep DEF Waits, EngineTypeOK, CycleComplete, BusActive
  <2>. QED BY <2>1, <2>2, <2>3
<1>. QED BY <1>5, <1>6, <1>7, <1>8 DEF BusInv

\* Every step of engine and requester keeps the invariant.
LEMMA StepBusInv == BusInv /\ [MCNext]_phaseVars => BusInv'
<1>. SUFFICES ASSUME BusInv, [MCNext]_phaseVars PROVE BusInv'
  OBVIOUS
<1>1. CASE MCNext
  BY <1>1, EdgeKeepsInv DEF MCNext
<1>2. CASE UNCHANGED phaseVars
  BY <1>2 DEF phaseVars, busVars, BusInv, EngineTypeOK, Initializing, HoldBetweenCycles, Waits,
     ActiveIsIo, ActiveKind
<1>. QED BY <1>1, <1>2

\* Every reachable state of the phase engine satisfies the invariant.
THEOREM BusInvHolds == MCSpec => []BusInv
<1>. QED BY InitBusInv, StepBusInv, PTL DEF MCSpec

-----------------------------------------------------------------------------
(* HOLD and LRDY. *)

\* HOLD never cuts a cycle, nor the cycles after reset.
THEOREM CyclesAreWhole == MCSpec => []HoldNeverCutsACycle
<1>1. BusInv => HoldNeverCutsACycle
  BY DEF BusInv, Initializing, HoldBetweenCycles, HoldNeverCutsACycle, BusActive,
     MajorityDrive, SlowDrive
<1>. QED BY <1>1, BusInvHolds, PTL

\* An I/O cycle never waits for LRDY.
THEOREM IoNeverWaits == MCSpec => []IoTakesTwoClocks
<1>1. BusInv => IoTakesTwoClocks
  BY DEF BusInv, Waits, IoTakesTwoClocks
<1>. QED BY <1>1, BusInvHolds, PTL

\* No LRDY wait lets a strobe rise before its cycle ends.
THEOREM StrobesHold == MCSpec => StrobesHeldThroughWaits
<1>. DEFINE Held == /\ Ras /\ ~Ras' => CycleComplete'
                    /\ Cas /\ ~Cas' => CycleComplete'
                    /\ Lal /\ ~Lal' => CycleComplete
                    /\ ActiveKind = "WORD_WRITE" /\ We /\ ~We' => CycleComplete'
                    /\ ActiveKind = "WORD_READ" /\ TrQe /\ ~TrQe' => CycleComplete'
<1>1. ASSUME BusInv, NEW in, in.lrdy \in BOOLEAN, BusEdge(in)
      PROVE  Held
  <2>. USE DEF Q1A, Q1B, Q2A, Q2B, Q3A, Q3B, Q4A, Q4B
  <2>1. /\ RunCycle(in) /\ LatchCommand(in) /\ phase' = (phase + 1) % 8
        /\ EngineTypeOK /\ Waits
    BY <1>1 DEF BusEdge, BusInv
  <2>2. CASE CycleComplete \/ ~BusActive
    BY <2>2 DEF Ras, Cas, Lal, We, TrQe, InFirst, InSecond, BusActive, CycleComplete
  <2>3. CASE bus = "FIRST"
    <3>1. UNCHANGED <<initDone, ActiveKind>> /\ (bus' = "FIRST" \/ (phase = Q4B /\ bus' = "SECOND"))
      BY <1>1, <2>1, <2>3, CycleStep, KindKept DEF CycleComplete, BusActive
    <3>2. phase \in 0 .. 7 /\ (bus' = "FIRST" => phase' = phase + 1) /\ (phase = Q4B => phase' = 0)
      BY <1>1, <2>1, <2>3, <3>1, CycleStep DEF EngineTypeOK, CycleComplete
    <3>3. (Ras => Ras') /\ (Lal => Lal')
      BY <2>3, <3>1, <3>2 DEF Ras, Lal, InFirst, CycleComplete
    <3>4. Cas => Cas'
      BY <2>3, <3>1, <3>2 DEF Cas, InFirst, InSecond, CycleComplete
    <3>5. /\ ActiveKind = "WORD_WRITE" => ~We
          /\ ActiveKind = "WORD_READ" => ~TrQe
      BY <2>3 DEF We, TrQe, InSecond, Transfers
    <3>. QED BY <3>3, <3>4, <3>5
  <2>4. CASE bus = "SECOND" /\ ~CycleComplete
    <3>1. UNCHANGED <<initDone, ActiveKind, bus>> /\ (extended => extended')
          /\ (phase = Q4B => extended)
      BY <1>1, <2>1, <2>4, CycleStep, KindKept DEF CycleComplete, BusActive, Waits, EngineTypeOK
    <3>. QED BY <2>1, <2>4, <3>1 DEF Ras, Cas, Lal, We, TrQe, InFirst, InSecond, EngineTypeOK,
             CycleComplete
  <2>. QED BY <2>1, <2>2, <2>3, <2>4 DEF EngineTypeOK, BusActive
<1>2. BusInv /\ [MCNext]_phaseVars => [Held]_busVars
  <2>. SUFFICES ASSUME BusInv, [MCNext]_phaseVars PROVE [Held]_busVars
    OBVIOUS
  <2>1. CASE MCNext
    BY <1>1, <2>1 DEF MCNext
  <2>2. CASE UNCHANGED phaseVars
    BY <2>2 DEF phaseVars
  <2>. QED BY <2>1, <2>2
<1>. QED BY <1>2, BusInvHolds, PTL DEF MCSpec, StrobesHeldThroughWaits

\* A read takes LAD only while the memory drives it: the waits before the
\* sample have left the strobes, the buffers and the chip's own drivers as the
\* access set them.
THEOREM DataFromMemory == MCSpec => []SampledFromMemory
<1>1. BusInv => SampledFromMemory
  <2>. SUFFICES ASSUME bus = "SECOND", phase = Q4A, ready, ActiveKind = "WORD_READ"
       PROVE  Cas /\ TrQe /\ Den /\ DataIn /\ ~LadDriven
    BY DEF SampledFromMemory
  <2>1. InSecond(Q1B) /\ InSecond(Q2A)
    BY DEF InSecond, CycleComplete, Q1B, Q2A, Q4A, Q4B
  <2>. QED BY <2>1 DEF Cas, TrQe, Den, DataIn, LadDriven, Transfers, Q1B, Q4A
<1>. QED BY <1>1, BusInvHolds, PTL
-----------------------------------------------------------------------------
(* The EMU pins.                                                            *)

EmuTypeOK ==
    /\ subphase \in 0 .. 7 /\ since \in Nat
    /\ halted \in BOOLEAN /\ begun \in BOOLEAN
    /\ pulse \in BOOLEAN /\ haltPhase \in BOOLEAN
    /\ lastHalt \in BOOLEAN /\ haltSync \in SyncPair(BOOLEAN)

\* The halt leaves with the state it indicates.  A window that has begun
\* outlives it until the next edge of the local clock only, which comes before
\* the next of the core's.
HaltIsState == halt = halted /\ (begun /\ ~halted => since = 0)

\* From the edge that began a halting event's first window the halt is on its
\* way through the synchronizer, and is through before the next window.
HaltFollows ==
    begun /\ halted =>
        /\ lastHalt = TRUE
        /\ subphase >= 1 => haltSync[1] = TRUE
        /\ subphase >= 2 => haltSync[2] = TRUE

ShownWhileBegun == begun /\ InWindow => Emua

WindowInv == EmuTypeOK /\ HaltIsState /\ HaltFollows /\ ShownWhileBegun

LEMMA InitWindowInv == EmuInit => WindowInv
<1>. SUFFICES ASSUME EmuInit PROVE WindowInv
  OBVIOUS
<1>1. haltSync = <<FALSE, FALSE>>
  BY DEF EmuInit, SyncReset
<1>2. haltSync \in SyncPair(BOOLEAN)
  BY <1>1 DEF SyncPair
<1>3. EmuTypeOK
  <2>1. /\ subphase = 0 /\ since = 0 /\ halted = FALSE /\ begun = FALSE
        /\ pulse = FALSE /\ haltPhase = FALSE /\ lastHalt = FALSE
    BY DEF EmuInit
  <2>2. subphase \in 0 .. 7 /\ since \in Nat
    BY <2>1
  <2>. QED BY <1>2, <2>1, <2>2, Zenon DEF EmuTypeOK
<1>4. HaltIsState /\ HaltFollows /\ ShownWhileBegun
  BY DEF EmuInit, HaltIsState, HaltFollows, ShownWhileBegun
<1>. QED BY <1>3, <1>4 DEF WindowInv

\* The core's edges leave the window's registers alone, and what begun stands for.
LEMMA CoreKeepsWindow ==
  ASSUME EmuAssumption, WindowInv, NEW event \in BOOLEAN, NEW takesAck \in BOOLEAN,
         EmuSrcEdge(event, takesAck)
  PROVE  WindowInv' /\ Emua' = Emua
<1>1. /\ UNCHANGED <<subphase, haltSync, lastHalt, pulse, haltPhase, begun>>
      /\ halt' = halted' /\ halted' \in BOOLEAN /\ since' = 0
  BY DEF EmuSrcEdge, HaltNext, emuDst
<1>2. begun => halted
  BY DEF EmuSrcEdge, WindowInv, HaltIsState, EmuAssumption
<1>. QED
  BY <1>1, <1>2 DEF WindowInv, EmuTypeOK, HaltIsState, HaltFollows, ShownWhileBegun, Emua,
                    InWindow

\* An edge of the local clock changes the pulse and the halt's indication at the
\* two ends of a window only.
LEMMA BusKeepsWindow ==
  ASSUME WindowInv, NEW takesRequest \in BOOLEAN, NEW takesHalt \in BOOLEAN,
         EmuDstEdge(takesRequest, takesHalt)
  PROVE  WindowInv' /\ (InWindow /\ InWindow' => Emua' = Emua)
<1>1. /\ subphase' = (subphase + 1) % 8 /\ since' = since + 1
      /\ halted' = halted /\ halt' = halt /\ lastHalt' = halt
      /\ haltSync' = <<IF takesHalt THEN halt ELSE lastHalt, haltSync[1]>>
      /\ haltPhase' = IF subphase = 7 THEN haltSync[2] ELSE haltPhase
      /\ begun' = (halted /\ (begun \/ (subphase = 7 /\ (pulse' \/ haltPhase'))))
  BY DEF EmuDstEdge, SyncEdge, Synced, HaltPhaseNext, EmuQ4B, emuSrc
<1>2. pulse' \in BOOLEAN /\ (pulse' # pulse => subphase \in {3, 7})
  BY DEF EmuDstEdge, PulseStarts, PulseEnds, EmuQ2B, EmuQ4B, WindowInv, EmuTypeOK
<1>3. EmuTypeOK'
  <2>1. halted \in BOOLEAN /\ haltPhase \in BOOLEAN /\ halt \in BOOLEAN /\ lastHalt \in BOOLEAN
        /\ haltSync[1] \in BOOLEAN /\ haltSync[2] \in BOOLEAN
    BY DEF WindowInv, EmuTypeOK, HaltIsState, SyncPair
  <2>2. subphase' \in 0 .. 7 /\ since' \in Nat
    BY <1>1 DEF WindowInv, EmuTypeOK
  <2>3. haltSync' \in SyncPair(BOOLEAN)
    BY <1>1, <2>1 DEF SyncPair
  <2>4. haltPhase' \in BOOLEAN
    BY <1>1, <2>1
  <2>5. begun' \in BOOLEAN
    BY <1>1
  <2>. QED BY <1>1, <1>2, <2>1, <2>2, <2>3, <2>4, <2>5 DEF EmuTypeOK
<1>4. HaltIsState'
  BY <1>1 DEF HaltIsState, WindowInv
<1>5. HaltFollows'
  <2>. SUFFICES ASSUME begun', halted
       PROVE  /\ lastHalt' = TRUE
              /\ subphase' >= 1 => haltSync'[1] = TRUE
              /\ subphase' >= 2 => haltSync'[2] = TRUE
    BY <1>1 DEF HaltFollows
  <2>1. halt = TRUE /\ halted = TRUE
    BY DEF WindowInv, HaltIsState, EmuTypeOK
  <2>2. CASE subphase = 7
    BY <1>1, <2>1, <2>2
  <2>3. CASE subphase # 7
    <3>1. begun /\ subphase' = subphase + 1 /\ subphase \in 0 .. 6
      BY <1>1, <2>3 DEF WindowInv, EmuTypeOK
    <3>. QED BY <1>1, <2>1, <3>1 DEF WindowInv, HaltFollows
  <2>. QED BY <2>2, <2>3
<1>6. ShownWhileBegun'
  <2>. SUFFICES ASSUME begun', InWindow' PROVE Emua'
    BY DEF ShownWhileBegun
  <2>1. CASE subphase = 7 /\ begun
    <3>1. halted
      BY <1>1
    <3>2. haltSync[2] = TRUE
      BY <2>1, <3>1 DEF WindowInv, HaltFollows
    <3>3. haltPhase' = TRUE
      BY <1>1, <2>1, <3>2
    <3>. QED BY <3>3 DEF Emua
  <2>2. CASE ~begun
    BY <1>1, <2>2 DEF Emua
  <2>3. CASE begun /\ subphase # 7
    <3>1. subphase' = subphase + 1 /\ subphase \in 0 .. 2
      BY <1>1, <2>3 DEF WindowInv, EmuTypeOK, InWindow, EmuQ2B
    <3>. QED BY <1>1, <1>2, <2>3, <3>1 DEF WindowInv, ShownWhileBegun, InWindow, EmuQ2B, Emua
  <2>. QED BY <2>1, <2>2, <2>3
<1>7. InWindow /\ InWindow' => Emua' = Emua
  <2>. SUFFICES ASSUME InWindow, InWindow' PROVE Emua' = Emua
    OBVIOUS
  <2>1. subphase' = subphase + 1 /\ subphase \in 0 .. 2
    BY <1>1 DEF WindowInv, EmuTypeOK, InWindow, EmuQ2B
  <2>. QED BY <1>1, <1>2, <2>1 DEF Emua
<1>. QED BY <1>3, <1>4, <1>5, <1>6, <1>7 DEF WindowInv

\* In a window EMUA does not change, and from the first window of a halting
\* instruction's event every window shows it until the core runs: the event's
\* and the halt's follow each other with no inactive one between, however long
\* the core's clock is and however its edges lie.
THEOREM WindowsAreWhole == EmuAssumption => (EmuSpec => WholeWindows)
<1>. SUFFICES ASSUME EmuAssumption PROVE EmuSpec => WholeWindows
  OBVIOUS
<1>. DEFINE Steady == InWindow /\ InWindow' => Emua' = Emua
<1>1. WindowInv /\ [EmuNext]_emuVars => WindowInv' /\ [Steady]_emuVars
  <2>. SUFFICES ASSUME WindowInv, [EmuNext]_emuVars PROVE WindowInv' /\ [Steady]_emuVars
    OBVIOUS
  <2>1. CASE EmuNext
    BY <2>1, CoreKeepsWindow, BusKeepsWindow DEF EmuNext
  <2>2. CASE UNCHANGED emuVars
    BY <2>2 DEF emuVars, emuCore, emuSrc, emuDst, emuLasts, WindowInv, EmuTypeOK, HaltIsState,
                HaltFollows, ShownWhileBegun, Emua, InWindow
  <2>. QED BY <2>1, <2>2
<1>2. WindowInv => (begun /\ InWindow => Emua)
  BY DEF WindowInv, ShownWhileBegun
<1>. QED BY <1>1, <1>2, InitWindowInv, PTL DEF EmuSpec, WholeWindows
=============================================================================
