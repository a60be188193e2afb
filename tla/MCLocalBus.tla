----------------------------- MODULE MCLocalBus ------------------------------
(* The phase engine alone, with a requester that holds its command until the *)
(* acknowledgement and HOLD, grant and LRDY at any level in any phase.       *)
EXTENDS LocalBus

CONSTANTS NoKind, Undriven, Data

Kinds == {"WORD_READ", "WORD_WRITE", "IO_READ", "IO_WRITE", "SCREEN_REFRESH",
          "PIXEL_MTR", "PIXEL_RTM", "DRAM_RAS", "DRAM_CBR"}
BusCommands == [kind : Kinds]
NoBusCmd == [kind |-> NoKind]

VARIABLE busAsked      \* the requester's command, or NoBusCmd

phaseVars == <<busVars, busAsked>>

MCInit == BusInit(NoBusCmd, Undriven) /\ busAsked = NoBusCmd

BusRequester ==
    \/ busAsked # NoBusCmd /\ ~CycleAck /\ UNCHANGED busAsked
    \/ busAsked # NoBusCmd /\ CycleAck /\ busAsked' = NoBusCmd
    \/ busAsked = NoBusCmd /\ busAsked' \in BusCommands \cup {NoBusCmd}

MCNext ==
    \E hold, grant, lrdy \in BOOLEAN, lad \in Data :
        /\ BusEdge([req |-> busAsked # NoBusCmd, cmd |-> busAsked, hold |-> hold,
                    grant |-> grant, lrdy |-> lrdy, lad |-> lad,
                    ioRdata |-> Undriven, zero |-> Undriven])
        /\ BusRequester

MCSpec == MCInit /\ [][MCNext]_phaseVars
=============================================================================
