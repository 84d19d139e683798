----------------------------- MODULE RunPipeline -----------------------------
(***************************************************************************)
(* Creation and execution of analysis runs (src/pipeline.py), called from  *)
(* request threads that interleave freely.                                 *)
(*                                                                         *)
(* An executor is one such thread.  POST /runs creates the run and executes*)
(* it only if it was just created; seed_core_demo, called at start-up and  *)
(* by two demo endpoints, first compares the versions, then creates the    *)
(* run and executes it unless its phase is awaiting_review or completed.   *)
(* An executor is idle between requests and serves any number of them.     *)
(*                                                                         *)
(* Each action is one committed transaction, or one read whose result is   *)
(* used by a later transaction.  A checkpoint's audit event, which nothing *)
(* reads back, is a transaction of its own that can fail: that is the      *)
(* failure of the next step, and the last one has a step to fail in. The   *)
(* task_drafted event is kept.                                             *)
(***************************************************************************)
EXTENDS RunStore

CONSTANTS
    Executors,   \* request and background threads that create or run runs
    Seeded,      \* runs created by seed_core_demo; the others by POST /runs
    NoRun,       \* placeholder of an idle executor
    MaxCrashes   \* bound on process crashes

ASSUME SeededAssumption == Seeded \subseteq Runs
ASSUME NoRunAssumption == NoRun \notin Runs
ASSUME CrashAssumption == MaxCrashes \in Nat

VARIABLES
    pc,       \* where the executor is
    run,      \* run_id it works on
    ids,      \* change list compare_versions gave it; in execute_run, the
              \* change_ids of its RunState
    todo,     \* articles left in its current loop
    drafts,   \* its in-memory task list: review_status as it was read
    crashes   \* number of crashes so far

execVars == <<pc, run, ids, todo, drafts, crashes>>
pipelineVars == <<dbVars, execVars>>

BeforeTry == {"pre_compare", "pre_insert", "create", "insert_run",
              "save_queued", "begin"}
InTry == {"ingest", "compare", "insert_change", "compared", "no_change",
          "mark_no_change", "extract", "retrieve", "list_findings", "assess",
          "record", "verify", "list_tasks", "draft", "audit_draft", "finish",
          "audit_request", "mark_completed"}
InHandler == {"save_failed", "mark_failed"}
Active == BeforeTry \cup InTry \cup InHandler

NoDrafts == [a \in Articles |-> "absent"]

ExecTypeOK ==
    /\ pc \in [Executors -> Active \cup {"idle"}]
    /\ run \in [Executors -> Runs \cup {NoRun}]
    /\ \A p \in Executors : pc[p] # "idle" => run[p] \in Runs
    /\ ids \in [Executors -> SUBSET Articles]
    /\ todo \in [Executors -> SUBSET Articles]
    /\ drafts \in [Executors -> [Articles -> ReviewStatus \cup {"absent"}]]
    /\ crashes \in 0..MaxCrashes

PipelineTypeOK == StoreTypeOK /\ ExecTypeOK

PipelineInit ==
    /\ StoreInit
    /\ pc = [p \in Executors |-> "idle"]
    /\ run = [p \in Executors |-> NoRun]
    /\ ids = [p \in Executors |-> {}]
    /\ todo = [p \in Executors |-> {}]
    /\ drafts = [p \in Executors |-> NoDrafts]
    /\ crashes = 0

-----------------------------------------------------------------------------
Goto(p, l) == pc' = [pc EXCEPT ![p] = l]

(* The request returns, or ends with an error response.                    *)
Return(p) ==
    /\ pc' = [pc EXCEPT ![p] = "idle"]
    /\ run' = [run EXCEPT ![p] = NoRun]
    /\ ids' = [ids EXCEPT ![p] = {}]
    /\ todo' = [todo EXCEPT ![p] = {}]
    /\ drafts' = [drafts EXCEPT ![p] = NoDrafts]
    /\ UNCHANGED crashes

(* The loops follow the order of the change list.                          *)
IsFirst(a, S) == a \in S /\ \A b \in S : a <= b

(* Mutant of the next: no filter on substantive, binding changes.          *)
AllListed(p) == ids[p]

(* Articles of the executor's change list that yield an obligation.        *)
Affected(p) == ids[p] \cap Obligated

(* A checkpoint: save_run_state under the run's next phase.                *)
Checkpoint(p, phase) ==
    /\ SaveRunState(run[p], phase, ids[p])
    /\ UNCHANGED <<changes, obligations, applicability, findings, tasks, audits>>

-----------------------------------------------------------------------------
(* Mutants: each is an action below with one mistake in it, and some       *)
(* property fails when it takes that action's place.                       *)

(* A known run is never executed again.                                    *)
CreateReturnsKnown(p) ==
    /\ pc[p] = "create"
    /\ runs[run[p]] # "absent"
    /\ Return(p)
    /\ UNCHANGED dbVars

(* A finished run is executed again.                                       *)
BeginAnyway(p) ==
    /\ pc[p] = "begin"
    /\ IF states[run[p]].phase = "absent"
       THEN Return(p)
       ELSE /\ ids' = [ids EXCEPT ![p] = states[run[p]].change_ids]
            /\ Goto(p, "ingest")
            /\ UNCHANGED <<run, todo, drafts, crashes>>
    /\ UNCHANGED dbVars

(* A run that has compared is resumed past its extraction.                 *)
BeginPastExtraction(p) ==
    /\ pc[p] = "begin"
    /\ IF states[run[p]].phase \in Terminal \cup {"absent"}
       THEN Return(p)
       ELSE /\ ids' = [ids EXCEPT ![p] = states[run[p]].change_ids]
            /\ Goto(p, IF states[run[p]].phase = "comparing"
                       THEN "retrieve" ELSE "ingest")
            /\ UNCHANGED <<run, todo, drafts, crashes>>
    /\ UNCHANGED dbVars

(* The tasks drafted before an interruption are not listed.                *)
ListNoTasks(p) ==
    /\ pc[p] = "list_tasks"
    /\ todo' = [todo EXCEPT ![p] =
                    {a \in Affected(p) : /\ findings[run[p]][a] = "gap"
                                         /\ tasks[run[p]][a] = NoTask}]
    /\ Goto(p, "draft")
    /\ UNCHANGED <<dbVars, run, ids, drafts, crashes>>

(* The drafting loop does not advance.                                     *)
AuditDraftAgain(p, a) ==
    /\ pc[p] = "audit_draft"
    /\ IsFirst(a, todo[p])
    /\ AddDraftAudit(run[p], a)
    /\ Goto(p, "draft")
    /\ UNCHANGED <<runs, states, changes, obligations, applicability, findings,
                   tasks, run, ids, todo, drafts, crashes>>

(* The handler does not know which run failed.                             *)
RaiseForgettingRun(p) ==
    /\ MayFail
    /\ pc[p] \in InTry
    /\ Goto(p, "save_failed")
    /\ run' = [run EXCEPT ![p] = NoRun]
    /\ UNCHANGED <<dbVars, ids, todo, drafts, crashes>>

-----------------------------------------------------------------------------
(* Requests and run creation.                                              *)

Start(p, r) ==
    /\ pc[p] = "idle"
    /\ run' = [run EXCEPT ![p] = r]
    /\ Goto(p, IF r \in Seeded THEN "pre_compare" ELSE "create")
    /\ UNCHANGED <<dbVars, ids, todo, drafts, crashes>>

(* compare_versions returns the rows of the version pair if it finds any.  *)
CompareFindsRows(p, at, next) ==
    /\ pc[p] = at
    /\ changes # {} \/ Articles = {}
    /\ ids' = [ids EXCEPT ![p] = changes]
    /\ Goto(p, next)
    /\ UNCHANGED <<dbVars, run, todo, drafts, crashes>>

(* Otherwise compare_clause_sets inserts the change rows one by one.       *)
CompareFindsNone(p, at, inserting) ==
    /\ pc[p] = at
    /\ changes = {} /\ Articles # {}
    /\ todo' = [todo EXCEPT ![p] = Articles]
    /\ Goto(p, inserting)
    /\ UNCHANGED <<dbVars, run, ids, drafts, crashes>>

InsertNextChange(p, a, at, next) ==
    /\ pc[p] = at
    /\ IsFirst(a, todo[p])
    /\ InsertChange(a)
    /\ todo' = [todo EXCEPT ![p] = @ \ {a}]
    /\ IF todo[p] = {a}
       THEN /\ ids' = [ids EXCEPT ![p] = Articles]
            /\ Goto(p, next)
       ELSE UNCHANGED <<ids, pc>>
    /\ UNCHANGED <<runs, states, obligations, applicability, findings, tasks,
                   audits, run, drafts, crashes>>

(* create_run_record reads the key: a known run is executed again only by  *)
(* the seed, and only while it is neither awaiting review nor completed.   *)
CreateFindsRun(p) ==
    /\ pc[p] = "create"
    /\ runs[run[p]] # "absent"
    /\ IF run[p] \in Seeded /\ runs[run[p]] \notin {"awaiting_review", "completed"}
       THEN /\ Goto(p, "begin")
            /\ UNCHANGED <<run, ids, todo, drafts, crashes>>
       ELSE Return(p)
    /\ UNCHANGED dbVars

CreateFindsNone(p) ==
    /\ pc[p] = "create"
    /\ runs[run[p]] = "absent"
    /\ Goto(p, "insert_run")
    /\ UNCHANGED <<dbVars, run, ids, todo, drafts, crashes>>

(* The insert fails on the unique key if another request inserted first.   *)
CreateInserts(p) ==
    /\ pc[p] = "insert_run"
    /\ IF runs[run[p]] = "absent"
       THEN /\ InsertRun(run[p])
            /\ Goto(p, "save_queued")
            /\ UNCHANGED <<run, ids, todo, drafts, crashes>>
       ELSE Return(p) /\ UNCHANGED runs
    /\ UNCHANGED <<states, changes, obligations, applicability, findings,
                   tasks, audits>>

(* The run's first state is saved in a transaction of its own.             *)
CreateSavesState(p) ==
    /\ pc[p] = "save_queued"
    /\ SaveRunState(run[p], "queued", {})
    /\ Goto(p, "begin")
    /\ UNCHANGED <<changes, obligations, applicability, findings, tasks, audits,
                   run, ids, todo, drafts, crashes>>

(* execute_run loads the state; without one it raises KeyError, outside    *)
(* the try, and a finished run is returned as it is.                       *)
Begin(p) ==
    /\ pc[p] = "begin"
    /\ IF states[run[p]].phase \in Terminal \cup {"absent"}
       THEN Return(p)
       ELSE /\ ids' = [ids EXCEPT ![p] = states[run[p]].change_ids]
            /\ Goto(p, "ingest")
            /\ UNCHANGED <<run, todo, drafts, crashes>>
    /\ UNCHANGED dbVars

-----------------------------------------------------------------------------
(* The phases of execute_run.                                              *)

Ingest(p) ==
    /\ pc[p] = "ingest"
    /\ Checkpoint(p, "ingesting")
    /\ Goto(p, "compare")
    /\ UNCHANGED <<run, ids, todo, drafts, crashes>>

Compared(p) ==
    /\ pc[p] = "compared"
    /\ Checkpoint(p, "comparing")
    /\ IF ids[p] \cap Substantive = {}
       THEN Goto(p, "no_change") /\ UNCHANGED todo
       ELSE /\ Goto(p, "extract")
            /\ todo' = [todo EXCEPT ![p] = Affected(p)]
    /\ UNCHANGED <<run, ids, drafts, crashes>>

NoChange(p) ==
    /\ pc[p] = "no_change"
    /\ Checkpoint(p, "no_change")
    /\ Goto(p, "mark_no_change")
    /\ UNCHANGED <<run, ids, todo, drafts, crashes>>

Mark(p, at, phase) ==
    /\ pc[p] = at
    /\ UpdateRunPhase(run[p], phase)
    /\ Return(p)
    /\ UNCHANGED <<states, changes, obligations, applicability, findings,
                   tasks, audits>>

Extract(p, a) ==
    /\ pc[p] = "extract"
    /\ IsFirst(a, todo[p])
    /\ InsertObligation(run[p], a)
    /\ todo' = [todo EXCEPT ![p] = @ \ {a}]
    /\ UNCHANGED <<runs, states, changes, applicability, findings, tasks, audits,
                   pc, run, ids, drafts, crashes>>

Extracted(p) ==
    /\ pc[p] = "extract" /\ todo[p] = {}
    /\ Checkpoint(p, "extracting")
    /\ Goto(p, "retrieve")
    /\ UNCHANGED <<run, ids, todo, drafts, crashes>>

Retrieve(p) ==
    /\ pc[p] = "retrieve"
    /\ Checkpoint(p, "retrieving")
    /\ Goto(p, "list_findings")
    /\ UNCHANGED <<run, ids, todo, drafts, crashes>>

(* The run's findings are read once; obligations among them are skipped.   *)
ListFindings(p) ==
    /\ pc[p] = "list_findings"
    /\ todo' = [todo EXCEPT ![p] =
                    {a \in Affected(p) : findings[run[p]][a] = "absent"}]
    /\ Goto(p, "assess")
    /\ UNCHANGED <<dbVars, run, ids, drafts, crashes>>

AssessApplicability(p, a) ==
    /\ pc[p] = "assess"
    /\ IsFirst(a, todo[p])
    /\ InsertApplicability(run[p], a)
    /\ Goto(p, "record")
    /\ UNCHANGED <<runs, states, changes, obligations, findings, tasks, audits,
                   run, ids, todo, drafts, crashes>>

AnalyzeGap(p, a, verdict) ==
    /\ pc[p] = "record"
    /\ IsFirst(a, todo[p])
    /\ verdict \in Verdicts(a)
    /\ InsertFinding(run[p], a, verdict)
    /\ todo' = [todo EXCEPT ![p] = @ \ {a}]
    /\ Goto(p, "assess")
    /\ UNCHANGED <<runs, states, changes, obligations, applicability, tasks,
                   audits, run, ids, drafts, crashes>>

Assessed(p) ==
    /\ pc[p] = "assess" /\ todo[p] = {}
    /\ Checkpoint(p, "assessing")
    /\ Goto(p, "verify")
    /\ UNCHANGED <<run, ids, todo, drafts, crashes>>

Verify(p) ==
    /\ pc[p] = "verify"
    /\ Checkpoint(p, "verifying")
    /\ Goto(p, "list_tasks")
    /\ UNCHANGED <<run, ids, todo, drafts, crashes>>

(* The run's tasks are read once; gaps among them are not drafted again.   *)
ListTasks(p) ==
    /\ pc[p] = "list_tasks"
    /\ drafts' = [drafts EXCEPT ![p] =
                    [a \in Articles |-> tasks[run[p]][a].review_status]]
    /\ todo' = [todo EXCEPT ![p] =
                    {a \in Affected(p) : /\ findings[run[p]][a] = "gap"
                                         /\ tasks[run[p]][a] = NoTask}]
    /\ Goto(p, "draft")
    /\ UNCHANGED <<dbVars, run, ids, crashes>>

(* insert_task keeps an existing row and returns what is stored.           *)
GenerateTask(p, a) ==
    /\ pc[p] = "draft"
    /\ IsFirst(a, todo[p])
    /\ InsertTask(run[p], a)
    /\ drafts' = [drafts EXCEPT ![p][a] = tasks'[run[p]][a].review_status]
    /\ Goto(p, "audit_draft")
    /\ UNCHANGED <<runs, states, changes, obligations, applicability, findings,
                   audits, run, ids, todo, crashes>>

AuditDraft(p, a) ==
    /\ pc[p] = "audit_draft"
    /\ IsFirst(a, todo[p])
    /\ AddDraftAudit(run[p], a)
    /\ todo' = [todo EXCEPT ![p] = @ \ {a}]
    /\ Goto(p, "draft")
    /\ UNCHANGED <<runs, states, changes, obligations, applicability, findings,
                   tasks, run, ids, drafts, crashes>>

Drafted(p) ==
    /\ pc[p] = "draft" /\ todo[p] = {}
    /\ Checkpoint(p, "drafting")
    /\ Goto(p, "finish")
    /\ UNCHANGED <<run, ids, todo, drafts, crashes>>

(* The final phase is decided on the task list held in memory.             *)
FinalPhase(p) ==
    IF \E a \in Articles : drafts[p][a] = "pending_human_review"
    THEN "awaiting_review" ELSE "completed"

RequestReview(p) ==
    /\ pc[p] = "finish"
    /\ Checkpoint(p, FinalPhase(p))
    /\ Goto(p, IF FinalPhase(p) = "completed" THEN "mark_completed" ELSE "audit_request")
    /\ UNCHANGED <<run, ids, todo, drafts, crashes>>

(* The event of the last checkpoint.  Nothing else is left in the try, but *)
(* if it raises, a run that already awaits its review is marked failed.    *)
AuditRequest(p) ==
    /\ pc[p] = "audit_request"
    /\ Return(p)
    /\ UNCHANGED dbVars

-----------------------------------------------------------------------------
(* Failures.                                                               *)

(* A step raises before its transaction commits.                           *)
Raise(p) ==
    /\ MayFail
    /\ pc[p] \in InTry
    /\ Goto(p, "save_failed")
    /\ UNCHANGED <<dbVars, run, ids, todo, drafts, crashes>>

SaveFailed(p) ==
    /\ pc[p] = "save_failed"
    /\ Checkpoint(p, "failed")
    /\ Goto(p, "mark_failed")
    /\ UNCHANGED <<run, ids, todo, drafts, crashes>>

(* Outside the try, and inside its handler, the request just ends.         *)
Abort(p) ==
    /\ MayFail
    /\ pc[p] \in BeforeTry \cup InHandler
    /\ Return(p)
    /\ UNCHANGED dbVars

(* The process dies: every executor is gone, what was committed stays.     *)
Crash ==
    /\ crashes < MaxCrashes
    /\ \E p \in Executors : pc[p] # "idle"
    /\ pc' = [p \in Executors |-> "idle"]
    /\ run' = [p \in Executors |-> NoRun]
    /\ ids' = [p \in Executors |-> {}]
    /\ todo' = [p \in Executors |-> {}]
    /\ drafts' = [p \in Executors |-> NoDrafts]
    /\ crashes' = crashes + 1
    /\ UNCHANGED dbVars

-----------------------------------------------------------------------------
(* The next thing an executor does, if nothing goes wrong.                 *)
Proceed(p) ==
    \/ CompareFindsRows(p, "pre_compare", "create")
    \/ CompareFindsNone(p, "pre_compare", "pre_insert")
    \/ \E a \in Articles : InsertNextChange(p, a, "pre_insert", "create")
    \/ CreateFindsRun(p)
    \/ CreateFindsNone(p)
    \/ CreateInserts(p)
    \/ CreateSavesState(p)
    \/ Begin(p)
    \/ Ingest(p)
    \/ CompareFindsRows(p, "compare", "compared")
    \/ CompareFindsNone(p, "compare", "insert_change")
    \/ \E a \in Articles : InsertNextChange(p, a, "insert_change", "compared")
    \/ Compared(p)
    \/ NoChange(p)
    \/ Mark(p, "mark_no_change", "no_change")
    \/ \E a \in Articles : Extract(p, a)
    \/ Extracted(p)
    \/ Retrieve(p)
    \/ ListFindings(p)
    \/ \E a \in Articles : AssessApplicability(p, a)
    \/ \E a \in Articles, v \in AssessmentStatus : AnalyzeGap(p, a, v)
    \/ Assessed(p)
    \/ Verify(p)
    \/ ListTasks(p)
    \/ \E a \in Articles : GenerateTask(p, a)
    \/ \E a \in Articles : AuditDraft(p, a)
    \/ Drafted(p)
    \/ RequestReview(p)
    \/ AuditRequest(p)
    \/ Mark(p, "mark_completed", "completed")
    \/ SaveFailed(p)
    \/ Mark(p, "mark_failed", "failed")

PipelineNext ==
    \/ \E p \in Executors, r \in Runs : Start(p, r)
    \/ \E p \in Executors : Proceed(p) \/ Raise(p) \/ Abort(p)
    \/ Crash

PipelineSpec == PipelineInit /\ [][PipelineNext]_pipelineVars

(* Threads are scheduled; start-up seeds the demo runs and clients post    *)
(* their request again, whatever became of the previous one. The server's  *)
(* thread limiter hands threads out first come, first served, so a request *)
(* is not passed over for ever: strong fairness of Start.                  *)
PipelineFairness ==
    /\ \A p \in Executors : WF_pipelineVars(Proceed(p))
    /\ \A r \in Runs : SF_pipelineVars(\E p \in Executors : Start(p, r))

FairPipelineSpec == PipelineSpec /\ PipelineFairness

-----------------------------------------------------------------------------
(* Properties.                                                             *)

AfterExtract == {"extracting", "retrieving", "assessing", "verifying",
                 "drafting", "awaiting_review", "completed"}
AfterAssess == {"assessing", "verifying", "drafting", "awaiting_review",
                "completed"}
AfterDraft == {"drafting", "awaiting_review", "completed"}
Resting == {"awaiting_review", "completed", "no_change"}

(* Where an executor has extracted, and assessed, all it was to.           *)
Extracting == {"retrieve", "list_findings", "assess", "record", "verify",
               "list_tasks", "draft", "audit_draft", "finish", "audit_request",
               "mark_completed"}
Assessing == {"verify", "list_tasks", "draft", "audit_draft", "finish",
              "audit_request", "mark_completed"}

Covered(r) ==
    LET s == states[r]
        affected == s.change_ids \cap Obligated
    IN  /\ s.change_ids \subseteq changes
        /\ s.phase = "no_change" => s.change_ids \cap Substantive = {}
        /\ s.phase \in AfterExtract => affected \subseteq obligations[r]
        /\ s.phase \in AfterAssess =>
                \A a \in affected : findings[r][a] # "absent"
        /\ s.phase \in AfterDraft =>
                \A a \in affected : findings[r][a] = "gap" => tasks[r][a] # NoTask

(* A checkpoint never claims more than the tables hold, whichever executor *)
(* wrote it and however often the run was interrupted: the changes it      *)
(* lists are stored, from extracting on each affected one has its          *)
(* obligation, from assessing on its finding, from drafting on a task for  *)
(* each gap; a no_change verdict lists no substantive change.              *)
CheckpointIsCovered == \A r \in Runs : Covered(r)

Progress(p) ==
    LET r == run[p] IN
    /\ ids[p] \subseteq changes
    /\ pc[p] \in {"pre_insert", "insert_change"} =>
            Articles \ todo[p] \subseteq changes
    /\ pc[p] \in {"no_change", "mark_no_change"} =>
            ids[p] \cap Substantive = {}
    /\ pc[p] \in {"extract", "assess", "record", "draft", "audit_draft"} =>
            todo[p] \subseteq Affected(p)
    /\ pc[p] = "extract" => Affected(p) \ todo[p] \subseteq obligations[r]
    /\ pc[p] \in Extracting => Affected(p) \subseteq obligations[r]
    /\ pc[p] = "record" =>
            \A a \in todo[p] : IsFirst(a, todo[p]) => a \in applicability[r]
    /\ pc[p] \in {"assess", "record"} =>
            \A a \in Affected(p) \ todo[p] : findings[r][a] # "absent"
    /\ pc[p] \in Assessing => \A a \in Affected(p) : findings[r][a] # "absent"
    /\ pc[p] \in {"draft", "audit_draft"} =>
            /\ \A a \in todo[p] : findings[r][a] = "gap"
            /\ \A a \in Affected(p) \ todo[p] :
                    findings[r][a] = "gap" => tasks[r][a] # NoTask
    /\ pc[p] = "audit_draft" =>
            \A a \in todo[p] : IsFirst(a, todo[p]) => tasks[r][a] # NoTask
    /\ pc[p] \in {"finish", "audit_request", "mark_completed"} =>
            \A a \in Affected(p) : findings[r][a] = "gap" => tasks[r][a] # NoTask

(* What an executor relies on between its steps.  Its lists may be old, as *)
(* other executors write meanwhile, but everything it has ticked off is in *)
(* the tables, so its next checkpoint is covered too.                      *)
ExecutorProgress == \A p \in Executors : Progress(p)

(* Execution closes a run without a human only if nothing is left for one: *)
(* a run the pipeline completed has no task at all.                        *)
CompletedWithoutTasks ==
    \A r \in Runs : states[r].phase = "completed" => TaskRows(r) = {}

(* A run whose state was saved survives crashes and failures: start-up     *)
(* seeds it again, and unless the steps fail for ever it comes to rest.    *)
FailuresCease ==
    <>[][\A p \in Executors : Raise(p) \/ Abort(p) => Proceed(p)]_pipelineVars

CheckpointedRunsResume ==
    FailuresCease =>
        \A r \in Seeded : states[r].phase # "absent" ~> runs[r] \in Resting

(* The pipeline implements the lifecycle of a run, as long as one executor *)
(* works on it at a time: failures, crashes, restarts and repeated requests*)
(* never skip a phase, or take up a run anywhere but at its start, or one  *)
(* that has come to rest unless it has failed since.                       *)
Lifecycle == INSTANCE RunLifecycle WITH phase <- runs
ImplementsLifecycle == Lifecycle!LifecycleSpec

(* The phase GET /runs shows and the phase of the checkpoint agree.        *)
PhasesAgree ==
    \A r \in Runs : states[r].phase # "absent" => runs[r] = states[r].phase

(* Every request is answered.                                              *)
RequestsEnd == \A p \in Executors : pc[p] # "idle" ~> pc[p] = "idle"

(* pipeline.py:126 reports "no substantive change" on a no_change verdict. *)
NoChangeIsTrue ==
    \A r \in Runs : states[r].phase = "no_change" => Substantive = {}
=============================================================================
