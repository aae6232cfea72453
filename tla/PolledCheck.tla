---------------------------- MODULE PolledCheck ----------------------------
(***************************************************************************)
(* What the checks of a document that is still being downloaded promise an *)
(* embedder that polls them: data only ever arrives, an answer is given by *)
(* a call, "available" is the answer only when nothing is missing any      *)
(* more, and it is never taken back.                                       *)
(***************************************************************************)
VARIABLES
    missing,   \* what is needed and not there yet
    answer,    \* what the last call returned
    busy       \* a call is going on

vars == <<missing, answer, busy>>

Init == ~busy /\ answer # "available"

Arrive ==
    /\ missing' \subseteq missing
    /\ UNCHANGED <<answer, busy>>

Call ==
    /\ ~busy /\ busy' = TRUE
    /\ UNCHANGED <<missing, answer>>

Answer ==
    /\ busy /\ busy' = FALSE
    /\ missing' \subseteq missing
    /\ answer' = "available" => missing' = {}
    /\ answer = "available" => answer' = "available"

Next == Arrive \/ Call \/ Answer

Spec == Init /\ [][Next]_vars
=============================================================================
