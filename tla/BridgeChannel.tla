--------------------------- MODULE BridgeChannel ----------------------------
(***************************************************************************)
(* The local-bus bridge between a requester and a controller.              *)
(*                                                                         *)
(* The two clocks are independent: a step is an edge of one, of the other, *)
(* or of both at once, at any ratio.  The requester (the arbiter through   *)
(* the bus timer) holds its command until the acknowledgement and takes    *)
(* its request away for a clock after it; the controller ends the command  *)
(* it was given when it likes.                                             *)
(***************************************************************************)
EXTENDS LocalBusBridge

CONSTANTS Commands, Answers, NoCmd, NoData

ASSUME ChannelAssumption == NoCmd \notin Commands /\ NoData \notin Answers

VARIABLES
    asked,          \* the requester's command, or NoCmd
    cmdAge,         \* bus edges since srcCmd changed, up to 2 (history)
    responseAge     \* core edges since dstResponse changed, up to 2 (history)

vars == <<bridgeVars, asked, cmdAge, responseAge>>

Init ==
    /\ BridgeInit(NoCmd, NoData)
    /\ asked = NoCmd
    /\ cmdAge = 2 /\ responseAge = 2

Requester ==
    \/ asked # NoCmd /\ ~srcAck /\ UNCHANGED asked
    \/ asked # NoCmd /\ srcAck /\ asked' = NoCmd
    \/ asked = NoCmd /\ asked' \in Commands \cup {NoCmd}

CoreEdge == SrcEdge(asked # NoCmd, asked) /\ Requester
ControllerEdge(ack) == \E rdata \in Answers : DstEdge(ack /\ dstActive, rdata)

Older(age) == IF age = 2 THEN 2 ELSE age + 1

Step(core, bus, ack) ==
    /\ IF core THEN CoreEdge ELSE UNCHANGED <<srcVars, asked>>
    /\ IF bus THEN ControllerEdge(ack) ELSE UNCHANGED dstVars
    /\ cmdAge' = IF reqToggle' # reqToggle THEN 0
                 ELSE IF bus THEN Older(cmdAge) ELSE cmdAge
    /\ responseAge' = IF ackToggle' # ackToggle THEN 0
                      ELSE IF core THEN Older(responseAge) ELSE responseAge

Next == \E core, bus, ack \in BOOLEAN : (core \/ bus) /\ Step(core, bus, ack)

Spec == Init /\ [][Next]_vars

-----------------------------------------------------------------------------
(* Properties. *)

\* The multi-cycle-path contract of the file header: whoever looks at a
\* payload that is not synchronized does so only when it has stood still for
\* two of its own clock's edges, the command on the bus side and the answer on
\* the core side.
PayloadSettled ==
    [][/\ ~dstActive /\ dstActive' => cmdAge = 2
       /\ outstanding /\ ~outstanding' => responseAge = 2]_vars

\* The toggle copies along the request path, and along the answer path, are
\* never more than one change apart: a second request cannot catch up with
\* the first one inside the synchronizers, and the bus side acts only on a
\* request the core side waits for.
RequestPath ==
    /\ reqToggle # reqSync[1] => reqSync[1] = reqSync[2] /\ reqSync[2] = seen
    /\ reqSync[1] # reqSync[2] => reqSync[2] = seen
    /\ reqToggle # seen => outstanding /\ ~dstActive

AnswerPath ==
    /\ ackToggle # ackSync[1] => ackSync[1] = ackSync[2]
    /\ outstanding => ackToggle = reqToggle \/ ackToggle = ackSync[2]
    /\ ackToggle # seen <=> dstActive
    /\ ~outstanding => /\ reqToggle = ackToggle /\ ~dstActive
                       /\ ackSync[1] = ackToggle /\ ackSync[2] = ackToggle

OneToggleInFlight ==
    /\ RequestPath
    /\ AnswerPath
    /\ outstanding => asked = srcCmd /\ ~armed /\ ~srcAck
    /\ srcAck => asked # NoCmd

\* Each command of the requester is served exactly once, as it was asked, and
\* answered with what the controller returned for it.
Stage == IF ~outstanding THEN IF srcAck THEN "returned" ELSE "idle"
         ELSE IF seen # reqToggle THEN "asked"
         ELSE IF dstActive THEN "serving" ELSE "served"

What == CASE Stage = "idle"  -> NoCmd
          [] Stage = "asked" -> srcCmd
          [] OTHER           -> dstCmd

Result == CASE Stage = "served"   -> dstResponse
            [] Stage = "returned" -> srcRdata
            [] OTHER              -> NoData

Crossing == INSTANCE RemoteCall WITH stage <- Stage, what <- What,
                                     result <- Result
CrossingSpec == Crossing!Spec
=============================================================================
