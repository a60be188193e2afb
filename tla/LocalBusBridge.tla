--------------------------- MODULE LocalBusBridge ---------------------------
(***************************************************************************)
(* tms34010_local_bus_bridge: carries a command from the core clock to the *)
(* 8x local-bus clock and the answer back.                                 *)
(*                                                                         *)
(* Only two toggles are synchronized.  The command and the answer cross    *)
(* without synchronizers and have to stand still while they are looked at. *)
(* SrcEdge and DstEdge are one edge of the core and of the bus clock.      *)
(***************************************************************************)
EXTENDS SyncBit, Integers

VARIABLES
    srcCmd, srcRdata, srcAck,   \* src_cmd_q, src_rdata_o, src_ack_o
    reqToggle,                  \* src_request_toggle_q
    armed,                      \* src_request_armed_q
    outstanding,                \* src_outstanding_q
    ackSync,                    \* u_ack_sync
    dstCmd, dstResponse,        \* dst_cmd_q, dst_response_q
    seen,                       \* dst_request_seen_q
    ackToggle,                  \* dst_ack_toggle_q
    dstActive,                  \* dst_active_q, dst_req_o
    reqSync                     \* u_request_sync

srcVars == <<srcCmd, srcRdata, srcAck, reqToggle, armed, outstanding, ackSync>>
dstVars == <<dstCmd, dstResponse, seen, ackToggle, dstActive, reqSync>>
bridgeVars == <<srcVars, dstVars>>

Toggle == {0, 1}

SrcTypeOK(Command, Data) ==
    /\ srcCmd \in Command /\ srcRdata \in Data
    /\ srcAck \in BOOLEAN /\ armed \in BOOLEAN /\ outstanding \in BOOLEAN
    /\ reqToggle \in Toggle
    /\ ackSync \in SyncPair(Toggle)

DstTypeOK(Command, Data) ==
    /\ dstCmd \in Command /\ dstResponse \in Data
    /\ dstActive \in BOOLEAN
    /\ seen \in Toggle /\ ackToggle \in Toggle
    /\ reqSync \in SyncPair(Toggle)

BridgeInit(noCmd, noData) ==
    /\ srcCmd = noCmd /\ dstCmd = noCmd
    /\ srcRdata = noData /\ dstResponse = noData
    /\ srcAck = FALSE /\ armed = TRUE /\ outstanding = FALSE
    /\ dstActive = FALSE
    /\ reqToggle = 0 /\ seen = 0 /\ ackToggle = 0
    /\ ackSync = SyncReset(0) /\ reqSync = SyncReset(0)

-----------------------------------------------------------------------------
(* The core clock.  req is the requester's level, cmd its command. *)

\* Fault: a request that is still up is taken a second time.
LaunchUnarmed(req, cmd) ==
    /\ ~outstanding /\ req
    /\ srcCmd' = cmd
    /\ reqToggle' = 1 - reqToggle
    /\ armed' = FALSE
    /\ outstanding' = TRUE
    /\ srcAck' = FALSE
    /\ UNCHANGED srcRdata

Launch(req, cmd) ==
    /\ ~outstanding /\ req /\ armed
    /\ srcCmd' = cmd
    /\ reqToggle' = 1 - reqToggle
    /\ armed' = FALSE
    /\ outstanding' = TRUE
    /\ srcAck' = FALSE
    /\ UNCHANGED srcRdata

Answered == outstanding /\ Synced(ackSync) = reqToggle

TakeAnswer(req) ==
    /\ Answered
    /\ srcRdata' = dstResponse
    /\ srcAck' = TRUE
    /\ outstanding' = FALSE
    /\ armed' = (armed \/ ~req)
    /\ UNCHANGED <<srcCmd, reqToggle>>

SrcWait(req) ==
    /\ ~Answered /\ (outstanding \/ ~(req /\ armed))
    /\ srcAck' = FALSE
    /\ armed' = (armed \/ ~req)
    /\ UNCHANGED <<srcCmd, srcRdata, reqToggle, outstanding>>

SrcEdge(req, cmd) ==
    /\ Launch(req, cmd) \/ TakeAnswer(req) \/ SrcWait(req)
    /\ ackSync' = SyncEdge(ackSync, ackToggle)

-----------------------------------------------------------------------------
(* The bus clock.  ack and rdata come from the local-bus controller. *)

\* Fault: the request is seen one flip-flop early.
AcceptEarly ==
    /\ ~dstActive /\ reqSync[1] # seen
    /\ dstCmd' = srcCmd
    /\ seen' = reqSync[1]
    /\ dstActive' = TRUE
    /\ UNCHANGED <<dstResponse, ackToggle>>

Accept ==
    /\ ~dstActive /\ Synced(reqSync) # seen
    /\ dstCmd' = srcCmd
    /\ seen' = Synced(reqSync)
    /\ dstActive' = TRUE
    /\ UNCHANGED <<dstResponse, ackToggle>>

Serve(ack, rdata) ==
    /\ dstActive /\ ack
    /\ dstResponse' = rdata
    /\ ackToggle' = seen
    /\ dstActive' = FALSE
    /\ UNCHANGED <<dstCmd, seen>>

DstWait(ack) ==
    /\ IF dstActive THEN ~ack ELSE Synced(reqSync) = seen
    /\ UNCHANGED <<dstCmd, dstResponse, seen, ackToggle, dstActive>>

DstEdge(ack, rdata) ==
    /\ Accept \/ Serve(ack, rdata) \/ DstWait(ack)
    /\ reqSync' = SyncEdge(reqSync, reqToggle)
=============================================================================
