--------------------------- MODULE CleanupContract ---------------------------
(***************************************************************************)
(* What the controller relies on when it asks for a cleanup pass: owned     *)
(* resources only ever become fewer, and a pass that reports completion     *)
(* does so at a moment when none is left.  A wait or an error says nothing. *)
(***************************************************************************)
VARIABLES
    remaining,  \* owned resources that still exist
    verdict     \* how the last pass ended

Progress ==
    /\ remaining' \subseteq remaining
    /\ UNCHANGED verdict

Report ==
    /\ UNCHANGED remaining
    /\ \/ verdict' \in {"waiting", "error"}
       \/ verdict' = "complete" /\ remaining = {}

Init == verdict = "none"

Next == Progress \/ Report

Spec == Init /\ [][Next]_<<remaining, verdict>>
==============================================================================
