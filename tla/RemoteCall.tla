----------------------------- MODULE RemoteCall -----------------------------
(***************************************************************************)
(* What a clock crossing promises: one command at a time goes to the other *)
(* side, is served there exactly once, and its answer comes back before    *)
(* another command leaves.                                                 *)
(***************************************************************************)
CONSTANTS Commands, Answers, NoCmd, NoData

VARIABLES
    stage,      \* where the command is
    what,       \* the command, as the side that has it sees it
    result      \* its answer, as the side that has it sees it

Init == stage = "idle" /\ what = NoCmd /\ result = NoData

Ask ==
    /\ stage = "idle" /\ stage' = "asked"
    /\ what' \in Commands
    /\ UNCHANGED result

Accept ==
    /\ stage = "asked" /\ stage' = "serving"
    /\ UNCHANGED <<what, result>>

Serve ==
    /\ stage = "serving" /\ stage' = "served"
    /\ result' \in Answers
    /\ UNCHANGED what

Return ==
    /\ stage = "served" /\ stage' = "returned"
    /\ UNCHANGED <<what, result>>

Forget ==
    /\ stage = "returned" /\ stage' = "idle"
    /\ what' = NoCmd /\ result' = NoData

Next == Ask \/ Accept \/ Serve \/ Return \/ Forget

Spec == Init /\ [][Next]_<<stage, what, result>>
=============================================================================
