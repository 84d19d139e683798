------------------------------ MODULE TaskReview ------------------------------
(***************************************************************************)
(* Human review of drafted tasks: POST /tasks/{id}/review, that is         *)
(* review_service.review_task and db.update_task_and_add_review, served by *)
(* request threads that interleave freely.                                 *)
(*                                                                         *)
(* The revision is checked twice, and each check is a SELECT outside the   *)
(* transaction that later writes: sqlite3 opens one only at the UPDATE.    *)
(* A request is idle, then passes select, write, list, load, save, mark.   *)
(* The task_<decision> audit event, which nothing reads back, is left out. *)
(***************************************************************************)
EXTENDS RunStore

CONSTANTS
    Requests,     \* threads that serve review requests
    Reviewers,    \* authenticated users with role reviewer or admin
    MayAbort,     \* steps of a request at which it may raise
    MaxRevision,  \* bound: no review of a task is requested at this revision
    NoReview      \* placeholder of an idle request

Decision == {"approve", "edit", "reject"}

(* A reviews row without its comment.  Its primary key, review_id, is a    *)
(* hash of all of these fields.                                            *)
Review == [run : Runs, article : Articles, reviewer : Reviewers,
           decision : Decision, revision : Nat]

ASSUME AbortAssumption ==
    MayAbort \subseteq {"select", "write", "list", "load", "save", "mark"}
ASSUME ReviewAssumption == MaxRevision \in Nat /\ NoReview \notin Review

VARIABLES
    reviews,  \* reviews rows
    at,       \* where the request is
    review,   \* the review it is to record
    loaded    \* the RunState it loaded

requestVars == <<reviews, at, review, loaded>>
reviewVars == <<dbVars, requestVars>>

RequestPc == {"idle", "select", "write", "list", "load", "save", "mark"}

RequestTypeOK ==
    /\ reviews \in SUBSET Review
    /\ at \in [Requests -> RequestPc]
    /\ review \in [Requests -> Review \cup {NoReview}]
    /\ \A q \in Requests : at[q] # "idle" => review[q] \in Review
    /\ loaded \in [Requests -> RunState]

ReviewTypeOK == StoreTypeOK /\ RequestTypeOK

RequestInit ==
    /\ reviews = {}
    /\ at = [q \in Requests |-> "idle"]
    /\ review = [q \in Requests |-> NoReview]
    /\ loaded = [q \in Requests |-> NoState]

(* Where RunPipeline leaves runs whose every assessable article is a gap.  *)
ReviewInit ==
    /\ runs = [r \in Runs |-> "awaiting_review"]
    /\ states = [r \in Runs |->
                    [phase |-> "awaiting_review", change_ids |-> Articles]]
    /\ changes = Articles
    /\ obligations = [r \in Runs |-> Obligated]
    /\ applicability = [r \in Runs |-> Obligated]
    /\ findings = [r \in Runs |-> [a \in Articles |->
                        IF a \in Assessable THEN "gap"
                        ELSE IF a \in Obligated THEN "other" ELSE "absent"]]
    /\ tasks = [r \in Runs |-> [a \in Articles |->
                        IF a \in Assessable THEN FreshTask ELSE NoTask]]
    /\ audits = [r \in Runs |-> Assessable]
    /\ RequestInit

-----------------------------------------------------------------------------
(* Mutant of StatusOf: an edit has a status the schema does not have.      *)
StatusWithEdited(decision) ==
    CASE decision = "approve" -> "approved"
      [] decision = "reject" -> "rejected"
      [] decision = "edit" -> "edited"

StatusOf(decision) ==
    CASE decision = "approve" -> "approved"
      [] decision = "reject" -> "rejected"
      [] decision = "edit" -> "pending_human_review"

Proceeds(q, l) == at' = [at EXCEPT ![q] = l] /\ UNCHANGED <<review, loaded>>

Answer(q) ==
    /\ at' = [at EXCEPT ![q] = "idle"]
    /\ review' = [review EXCEPT ![q] = NoReview]
    /\ loaded' = [loaded EXCEPT ![q] = NoState]

(* Mutants of WriteReview and ListDecisions, each with one mistake: an     *)
(* edit keeps the status the task had; the review is stored under the      *)
(* revision it led to; a rejected task is deleted; only approvals close    *)
(* the run.                                                                *)
WriteReviewKeepingStatus(q) ==
    LET v == review[q] IN
    /\ at[q] = "write"
    /\ IF v \in reviews
       THEN Answer(q) /\ UNCHANGED <<tasks, reviews>>
       ELSE /\ tasks' = [tasks EXCEPT ![v.run][v.article] =
                            [review_status |-> IF v.decision = "edit"
                                               THEN @.review_status
                                               ELSE StatusOf(v.decision),
                             revision |-> v.revision + 1]]
            /\ reviews' = reviews \cup {v}
            /\ Proceeds(q, "list")
    /\ UNCHANGED <<runs, states, changes, obligations, applicability, findings,
                   audits>>

WriteReviewOfNext(q) ==
    LET v == review[q] IN
    /\ at[q] = "write"
    /\ tasks' = [tasks EXCEPT ![v.run][v.article] =
                    [review_status |-> StatusOf(v.decision),
                     revision |-> v.revision + 1]]
    /\ reviews' = reviews \cup {[v EXCEPT !.revision = @ + 1]}
    /\ Proceeds(q, "list")
    /\ UNCHANGED <<runs, states, changes, obligations, applicability, findings,
                   audits>>

WriteReviewDeleting(q) ==
    LET v == review[q] IN
    /\ at[q] = "write"
    /\ IF v \in reviews
       THEN Answer(q) /\ UNCHANGED <<tasks, reviews>>
       ELSE /\ tasks' = [tasks EXCEPT ![v.run][v.article] =
                            IF v.decision = "reject" THEN NoTask
                            ELSE [review_status |-> StatusOf(v.decision),
                                  revision |-> v.revision + 1]]
            /\ reviews' = reviews \cup {v}
            /\ Proceeds(q, "list")
    /\ UNCHANGED <<runs, states, changes, obligations, applicability, findings,
                   audits>>

ListApprovals(q) ==
    /\ at[q] = "list"
    /\ IF \A a \in TaskRows(review[q].run) :
            tasks[review[q].run][a].review_status = "approved"
       THEN Proceeds(q, "load")
       ELSE Answer(q)
    /\ UNCHANGED <<dbVars, reviews>>

(* get_task and the comparison with expected_revision: a request that      *)
(* expects another revision is refused and changes nothing.                *)
ReviewTask(q, v) ==
    /\ at[q] = "idle"
    /\ tasks[v.run][v.article] # NoTask
    /\ v.revision = tasks[v.run][v.article].revision
    /\ v.revision < MaxRevision
    /\ at' = [at EXCEPT ![q] = "select"]
    /\ review' = [review EXCEPT ![q] = v]
    /\ UNCHANGED <<dbVars, reviews, loaded>>

(* The second comparison; a mismatch is reported as a conflict.            *)
SelectRevision(q) ==
    /\ at[q] = "select"
    /\ IF tasks[review[q].run][review[q].article].revision = review[q].revision
       THEN Proceeds(q, "write")
       ELSE Answer(q)
    /\ UNCHANGED <<dbVars, reviews>>

(* UPDATE task_drafts and INSERT INTO reviews in one transaction.  The     *)
(* UPDATE does not look at the revision; a second row with the same        *)
(* review_id rolls both back and is reported as a conflict.                *)
WriteReview(q) ==
    LET v == review[q] IN
    /\ at[q] = "write"
    /\ IF v \in reviews
       THEN Answer(q) /\ UNCHANGED <<tasks, reviews>>
       ELSE /\ tasks' = [tasks EXCEPT ![v.run][v.article] =
                            [review_status |-> StatusOf(v.decision),
                             revision |-> v.revision + 1]]
            /\ reviews' = reviews \cup {v}
            /\ Proceeds(q, "list")
    /\ UNCHANGED <<runs, states, changes, obligations, applicability, findings,
                   audits>>

(* Once every task of the run is decided the reviewer's request completes  *)
(* the run: it loads the state, saves it as completed and marks the run.   *)
ListDecisions(q) ==
    /\ at[q] = "list"
    /\ IF PendingTasks(review[q].run) = {}
       THEN Proceeds(q, "load")
       ELSE Answer(q)
    /\ UNCHANGED <<dbVars, reviews>>

LoadState(q) ==
    /\ at[q] = "load"
    /\ at' = [at EXCEPT ![q] = "save"]
    /\ loaded' = [loaded EXCEPT ![q] = states[review[q].run]]
    /\ UNCHANGED <<dbVars, reviews, review>>

SaveCompleted(q) ==
    /\ at[q] = "save"
    /\ SaveRunState(review[q].run, "completed", loaded[q].change_ids)
    /\ Proceeds(q, "mark")
    /\ UNCHANGED <<changes, obligations, applicability, findings, tasks, audits,
                   reviews>>

MarkCompleted(q) ==
    /\ at[q] = "mark"
    /\ UpdateRunPhase(review[q].run, "completed")
    /\ Answer(q)
    /\ UNCHANGED <<states, changes, obligations, applicability, findings, tasks,
                   audits, reviews>>

(* A database error ends the request before the step it is at commits.     *)
AbortReview(q) ==
    /\ at[q] \in MayAbort
    /\ Answer(q)
    /\ UNCHANGED <<dbVars, reviews>>

-----------------------------------------------------------------------------
(* The register of human decisions that these tables implement.            *)
Register == INSTANCE TaskRegister WITH log <- reviews

(* The reviews that can be asked for; the revision is the current one.     *)
Ask(q) ==
    \E r \in Runs, a \in Articles, who \in Reviewers, d \in Decision :
        ReviewTask(q, [run |-> r, article |-> a, reviewer |-> who,
                       decision |-> d, revision |-> tasks[r][a].revision])

ReviewStep(q) ==
    \/ Ask(q)
    \/ SelectRevision(q)
    \/ WriteReview(q)
    \/ ListDecisions(q)
    \/ LoadState(q)
    \/ SaveCompleted(q)
    \/ MarkCompleted(q)
    \/ AbortReview(q)

ReviewNext == \E q \in Requests : ReviewStep(q)

ReviewSpec == ReviewInit /\ [][ReviewNext]_reviewVars

-----------------------------------------------------------------------------
(* Properties.                                                             *)

ReviewsOf(r, a) == {v \in reviews : v.run = r /\ v.article = a}
Decided(r) == TaskRows(r) # {} /\ PendingTasks(r) = {}
NoRequest == \A q \in Requests : at[q] = "idle"

(* No task changes but by a human: the status a task shows is the decision *)
(* of a stored review of the revision before, and a task nobody reviewed   *)
(* is pending.  Races and failures do not break it.                        *)
HumanGate ==
    \A r \in Runs, a \in Articles :
        LET t == tasks[r][a] IN
        /\ t.revision = 1 => t.review_status = "pending_human_review"
        /\ t.revision > 1 =>
              \E v \in ReviewsOf(r, a) :
                  /\ v.revision = t.revision - 1
                  /\ StatusOf(v.decision) = t.review_status

(* The trail has no gap: every revision before the current one has a       *)
(* stored review.                                                          *)
ReviewTrail ==
    \A r \in Runs, a \in Articles :
        \A k \in 1 .. tasks[r][a].revision - 1 :
            \E v \in ReviewsOf(r, a) : v.revision = k

(* Whoever decides the last task completes the run, however the requests   *)
(* interleave and whichever fail before their decision is stored: once no  *)
(* request is under way, a run all of whose tasks are decided is completed.*)
DecisionsCloseRun ==
    \A r \in Runs : NoRequest /\ Decided(r) =>
        runs[r] = "completed" /\ states[r].phase = "completed"

(* The tables implement the register of human decisions: no request, in   *)
(* any interleaving and with any failure, changes a task without the       *)
(* decision that explains it entering the log in the same step, or enters  *)
(* one for a revision nobody could have seen.                              *)
ImplementsRegister == Register!RegisterSpec

(* A reviewer's decision on a revision that was already reviewed is        *)
(* refused (README.md:87, tests/test_review.py:37).                        *)
OneReviewPerRevision ==
    \A v, w \in reviews :
        /\ v.run = w.run /\ v.article = w.article /\ v.revision = w.revision
        => v = w
=============================================================================
