----------------------------- MODULE TaskRegister -----------------------------
(***************************************************************************)
(* What human review of tasks promises, however it is carried out: a       *)
(* register of tasks and the log of the decisions that made it what it is. *)
(*                                                                         *)
(* A decision enters the log in the step that applies it, it names a       *)
(* revision that was reached, and the log only grows.  That the named      *)
(* revision is the current one is not promised: of two reviewers who saw   *)
(* the same revision both may be heard.                                    *)
(***************************************************************************)
EXTENDS Naturals

CONSTANTS
    Runs, Articles,  \* a task is about an article and belongs to a run
    Reviewers

VARIABLES
    tasks,           \* status and revision of each task
    log              \* the decisions

registerVars == <<tasks, log>>

Absent == [review_status |-> "absent", revision |-> 0]
Fresh == [review_status |-> "pending_human_review", revision |-> 1]

(* An edit sends the task back to its reviewers.                           *)
Outcome == [approve |-> "approved", reject |-> "rejected",
            edit |-> "pending_human_review"]

RegisterInit ==
    /\ tasks \in [Runs -> [Articles -> {Absent, Fresh}]]
    /\ log = {}

(* The revisions a task has reached.                                       *)
Reached(r, a) ==
    {1} \cup {e.revision + 1 : e \in {d \in log : d.run = r /\ d.article = a}}

Draft(r, a) ==
    /\ tasks[r][a] = Absent
    /\ tasks' = [tasks EXCEPT ![r][a] = Fresh]
    /\ UNCHANGED log

Decide(r, a, who, decision, k) ==
    LET e == [run |-> r, article |-> a, reviewer |-> who, decision |-> decision,
              revision |-> k]
    IN
    /\ e \notin log
    /\ tasks[r][a] # Absent
    /\ log' = log \cup {e}
    /\ tasks' = [tasks EXCEPT ![r][a] = [review_status |-> Outcome[decision],
                                         revision |-> k + 1]]

RegisterNext ==
    \E r \in Runs, a \in Articles :
        \/ Draft(r, a)
        \/ \E k \in Reached(r, a), who \in Reviewers, decision \in DOMAIN Outcome :
                Decide(r, a, who, decision, k)

RegisterSpec == RegisterInit /\ [][RegisterNext]_registerVars
=============================================================================
