------------------------------ MODULE RunStore ------------------------------
(***************************************************************************)
(* The tables of src/db.py that an analysis run reads and writes, for one  *)
(* pair of regulation versions.  Every db.py function opens its own        *)
(* connection and commits it, so each operator below is one transaction.   *)
(*                                                                         *)
(* Articles are numbered in the order compare_clause_sets inserts their    *)
(* change rows.  The change rows belong to the version pair and are shared *)
(* by every run over it; all other rows carry the run's identifier.        *)
(***************************************************************************)
EXTENDS Naturals, FiniteSets

CONSTANTS
    N,            \* number of articles whose text differs between the versions
    Substantive,  \* articles classified as a substantive change
    Obligated,    \* articles whose changed clause yields an obligation
    Assessable,   \* articles whose obligation applies and carries a threshold
    Runs,         \* idempotency keys; run_id is a hash of the key
    MayFail       \* whether a step may raise (database locked, bad row)

Articles == 1..N

ASSUME NAssumption == N \in Nat
ASSUME ArticleAssumption ==
    /\ Substantive \subseteq Articles
    /\ Obligated \subseteq Substantive
    /\ Assessable \subseteq Obligated
ASSUME FailAssumption == MayFail \in BOOLEAN

VARIABLES
    runs,           \* runs.phase, per run; "absent" without a row
    states,         \* run_states row: the last checkpoint of the run
    changes,        \* regulatory_changes rows of the version pair
    obligations,    \* obligations rows, per run
    applicability,  \* applicability_results rows, per run
    findings,       \* findings.assessment_status, per run and article
    tasks,          \* task_drafts rows, per run and article
    audits          \* task_drafted rows of audit_events, per run

dbVars == <<runs, states, changes, obligations, applicability, findings,
            tasks, audits>>

Terminal == {"completed", "no_change"}

RunPhase == {"queued", "ingesting", "comparing", "extracting", "retrieving",
             "assessing", "verifying", "drafting", "awaiting_review",
             "failed"} \cup Terminal

AssessmentStatus == {"gap", "other"}
ReviewStatus == {"pending_human_review", "approved", "rejected"}

(* The fields of RunState that a later step reads: the phase and the      *)
(* change list the run's verdict is based on.                              *)
RunState == [phase : RunPhase \cup {"absent"}, change_ids : SUBSET Articles]

TaskDraft == [review_status : ReviewStatus \cup {"absent"}, revision : Nat]

NoState == [phase |-> "absent", change_ids |-> {}]
NoTask == [review_status |-> "absent", revision |-> 0]
FreshTask == [review_status |-> "pending_human_review", revision |-> 1]

(* The verdicts compare_measurements can reach on the evidence of the      *)
(* moment: only a binding, applicable obligation with a threshold can be   *)
(* a gap, and whether it is depends on evidence that may be added any time.*)
Verdicts(a) == IF a \in Assessable THEN AssessmentStatus ELSE {"other"}

TaskRows(r) == {a \in Articles : tasks[r][a] # NoTask}
PendingTasks(r) ==
    {a \in Articles : tasks[r][a].review_status = "pending_human_review"}

StoreTypeOK ==
    /\ runs \in [Runs -> RunPhase \cup {"absent"}]
    /\ states \in [Runs -> RunState]
    /\ changes \in SUBSET Articles
    /\ obligations \in [Runs -> SUBSET Articles]
    /\ applicability \in [Runs -> SUBSET Articles]
    /\ findings \in [Runs -> [Articles -> AssessmentStatus \cup {"absent"}]]
    /\ tasks \in [Runs -> [Articles -> TaskDraft]]
    /\ audits \in [Runs -> SUBSET Articles]

StoreInit ==
    /\ runs = [r \in Runs |-> "absent"]
    /\ states = [r \in Runs |-> NoState]
    /\ changes = {}
    /\ obligations = [r \in Runs |-> {}]
    /\ applicability = [r \in Runs |-> {}]
    /\ findings = [r \in Runs |-> [a \in Articles |-> "absent"]]
    /\ tasks = [r \in Runs |-> [a \in Articles |-> NoTask]]
    /\ audits = [r \in Runs |-> {}]

-----------------------------------------------------------------------------
(* Transactions.  Each constrains the tables it writes and no other.       *)

(* INSERT INTO runs, inside create_run_record.                             *)
InsertRun(r) == runs' = [runs EXCEPT ![r] = "queued"]

(* Mutants of the two that follow: the checkpoint without runs.phase, and  *)
(* INSERT OR REPLACE in place of INSERT OR IGNORE.                         *)
SaveStateOnly(r, phase, change_ids) ==
    /\ states' = [states EXCEPT ![r] =
                    [phase |-> phase, change_ids |-> change_ids]]
    /\ UNCHANGED runs

ReplaceFinding(r, a, verdict) ==
    findings' = [findings EXCEPT ![r][a] = verdict]

(* save_run_state: the checkpoint row and runs.phase in one commit.        *)
SaveRunState(r, phase, change_ids) ==
    /\ states' = [states EXCEPT ![r] =
                    [phase |-> phase, change_ids |-> change_ids]]
    /\ runs' = [runs EXCEPT ![r] = phase]

(* update_run_phase: runs.phase alone.                                     *)
UpdateRunPhase(r, phase) == runs' = [runs EXCEPT ![r] = phase]

(* The INSERT OR IGNOREs: an existing row wins.                            *)
InsertChange(a) == changes' = changes \cup {a}

InsertObligation(r, a) ==
    obligations' = [obligations EXCEPT ![r] = @ \cup {a}]

InsertApplicability(r, a) ==
    applicability' = [applicability EXCEPT ![r] = @ \cup {a}]

InsertFinding(r, a, verdict) ==
    findings' = [findings EXCEPT ![r][a] = IF @ = "absent" THEN verdict ELSE @]

InsertTask(r, a) ==
    tasks' = [tasks EXCEPT ![r][a] = IF @ = NoTask THEN FreshTask ELSE @]

AddDraftAudit(r, a) == audits' = [audits EXCEPT ![r] = @ \cup {a}]

-----------------------------------------------------------------------------
(* What the tables promise whoever reads them.                             *)

Evidenced(r, a) ==
    /\ tasks[r][a] # NoTask => findings[r][a] = "gap"
    /\ findings[r][a] # "absent" => a \in applicability[r]
    /\ findings[r][a] = "gap" => a \in Assessable
    /\ a \in applicability[r] => a \in obligations[r]
    /\ a \in obligations[r] => a \in changes \cap Obligated
    /\ a \in audits[r] => tasks[r][a] # NoTask

(* Traceability, row by row: a task stands on a finding that is a gap, the *)
(* finding on an applicability result, that on an obligation, and that on  *)
(* the row of a substantive change; a drafting event never precedes its    *)
(* task.  It must survive crashes, resumption and concurrent executors.    *)
ChainOfEvidence == \A r \in Runs, a \in Articles : Evidenced(r, a)

Kept ==
    /\ changes \subseteq changes'
    /\ \A r \in Runs :
         /\ obligations[r] \subseteq obligations'[r]
         /\ applicability[r] \subseteq applicability'[r]
         /\ \A a \in Articles :
              /\ findings[r][a] # "absent" => findings'[r][a] = findings[r][a]
              /\ tasks[r][a] # NoTask => tasks'[r][a] # NoTask

(* Stored results are never taken back: change, obligation, applicability, *)
(* finding and task rows only accumulate, and a finding keeps the verdict  *)
(* its task was drafted from.                                              *)
RowsAreKept == [][Kept]_dbVars
=============================================================================
