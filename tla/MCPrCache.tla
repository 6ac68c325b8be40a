------------------------------ MODULE MCPrCache ------------------------------
(* Model values and bounds for TLC. *)
EXTENDS PrCache

CONSTANTS p1, c1, c2

Base == [state |-> "OPEN", draft |-> FALSE, mergeable |-> "MERGEABLE",
         mergeState |-> "CLEAN", review |-> "", failed |-> FALSE, running |-> FALSE]

\* A branch without a pull request, one fit to merge, and one that looks fit
\* but for a single fact, for each rung of decide.
ReadyPr == Base
RunningPr == [Base EXCEPT !.running = TRUE, !.mergeState = "UNSTABLE"]
FailedPr == [Base EXCEPT !.failed = TRUE, !.mergeState = "UNSTABLE"]
ReviewPr == [Base EXCEPT !.review = "REVIEW_REQUIRED"]

MCPrStates == {NoPr, ReadyPr, FailedPr}
=============================================================================
