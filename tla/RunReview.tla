------------------------------ MODULE RunReview ------------------------------
(***************************************************************************)
(* Executors and reviewers over the same tables.  A task can be reviewed   *)
(* as soon as its row is stored, whatever the run is doing: review_task    *)
(* looks at the task only.                                                 *)
(***************************************************************************)
EXTENDS RunPipeline, TaskReview

allVars == <<dbVars, execVars, requestVars>>

RunReviewInit == PipelineInit /\ RequestInit

Pipeline ==
    /\ \/ \E p \in Executors, r \in Runs : Start(p, r)
       \/ \E p \in Executors : Proceed(p) \/ Raise(p) \/ Abort(p)
    /\ UNCHANGED requestVars

ReviewRequest == ReviewNext /\ UNCHANGED execVars

(* Executors and requests live in one process and die together.            *)
Die ==
    /\ Crash
    /\ at' = [q \in Requests |-> "idle"]
    /\ review' = [q \in Requests |-> NoReview]
    /\ loaded' = [q \in Requests |-> NoState]
    /\ UNCHANGED reviews

RunReviewNext == Pipeline \/ ReviewRequest \/ Die

RunReviewSpec == RunReviewInit /\ [][RunReviewNext]_allVars

=============================================================================
