---------------------------- MODULE RunReviewProofs ----------------------------
(***************************************************************************)
(* Proofs about RunReview: what executors and reviewers promise each for   *)
(* themselves, they keep when they share the tables.                       *)
(***************************************************************************)
EXTENDS RunReview, RunPipelineProofs, TaskReviewProofs

(* The change list a request has loaded is a stored one.                   *)
LoadedStored == \A q \in Requests : loaded[q].change_ids \subseteq changes

RunReviewInv ==
    /\ PipelineInv
    /\ RequestTypeOK
    /\ LoadedStored
    /\ GateInv

(* Executors seen from the reviews: a task is drafted once, pending and    *)
(* with revision 1, and otherwise left alone.                              *)
LEMMA ProceedTasks ==
    ASSUME PipelineTypeOK, NEW p \in Executors, Proceed(p),
           NEW r \in Runs, NEW a \in Articles
    PROVE  \/ tasks'[r][a] = tasks[r][a]
           \/ tasks[r][a] = NoTask /\ tasks'[r][a] = FreshTask
<1>1. CASE \E b \in Articles : GenerateTask(p, b)
  <2>1. tasks \in [Runs -> [Articles -> TaskDraft]] /\ run[p] \in Runs
    BY <1>1 DEF GenerateTask, PipelineTypeOK, StoreTypeOK, ExecTypeOK
  <2> QED BY <1>1, <2>1 DEF GenerateTask, InsertTask
<1>2. CASE tasks' = tasks
  BY <1>2
<1> QED
  BY <1>1, <1>2
  DEF Proceed, CompareFindsRows, CompareFindsNone, InsertNextChange, CreateFindsRun,
      CreateFindsNone, CreateInserts, CreateSavesState, Begin, Ingest, Compared,
      NoChange, Mark, Extract, Extracted, Retrieve, ListFindings,
      AssessApplicability, AnalyzeGap, Assessed, Verify, ListTasks, AuditDraft,
      Drafted, RequestReview, AuditRequest, SaveFailed, Checkpoint, dbVars

(* A step of the pipeline keeps the human gate.                            *)
LEMMA PipelineGate ==
    ASSUME RunReviewInv, [PipelineNext]_pipelineVars, UNCHANGED requestVars
    PROVE  GateInv'
<1>1. PipelineTypeOK /\ ReviewTypeOK
  BY DEF RunReviewInv, PipelineInv, PipelineTypeOK, ReviewTypeOK
<1>2. ASSUME NEW q \in Requests PROVE HoldsRevision(q)'
  BY <1>1, NextKept, HoldingStays DEF RunReviewInv, GateInv, requestVars
<1>3. ASSUME NEW r \in Runs, NEW a \in Articles
      PROVE  \/ tasks'[r][a] = tasks[r][a]
             \/ tasks'[r][a] = FreshTask
  BY <1>1, NextCases, ProceedTasks DEF dbVars
<1>4. \A r \in Runs, a \in Articles : ReviewsOf(r, a)' = ReviewsOf(r, a)
  BY DEF ReviewsOf, requestVars
<1>5. RevisionsStart' /\ HumanGate' /\ ReviewTrail'
  BY <1>3, <1>4
  DEF RunReviewInv, GateInv, RevisionsStart, HumanGate, ReviewTrail, FreshTask
<1> QED BY <1>2, <1>5 DEF GateInv

(* A step of a request keeps what the executors rely on.                   *)
LEMMA RequestKeepsPipeline ==
    ASSUME RunReviewInv, NEW q \in Requests, ReviewStep(q), UNCHANGED execVars
    PROVE  PipelineInv' /\ RequestTypeOK' /\ LoadedStored'
<1>1. PipelineTypeOK /\ ReviewTypeOK /\ GateInv
  BY DEF RunReviewInv, PipelineInv, PipelineTypeOK, ReviewTypeOK
<1>2. Kept
  BY <1>1, StepKeeps
<1>3. PipelineTypeOK' /\ RequestTypeOK'
  BY <1>1, StepTypeOK
  DEF ReviewTypeOK, PipelineTypeOK, ExecTypeOK, execVars
<1>4. ExecutorProgress'
  BY <1>1, <1>2, ProgressKept
  DEF RunReviewInv, PipelineInv, ExecutorProgress, execVars
<1>5. UNCHANGED <<changes, obligations, applicability, findings, audits>>
  BY DEF ReviewStep, Ask, ReviewTask, SelectRevision, WriteReview, ListDecisions,
         LoadState, SaveCompleted, MarkCompleted, AbortReview, dbVars
<1>6. ChainOfEvidence'
  <2> SUFFICES ASSUME NEW r \in Runs, NEW a \in Articles, tasks'[r][a] # NoTask
               PROVE  tasks[r][a] # NoTask
    BY <1>2, <1>5 DEF RunReviewInv, PipelineInv, ChainOfEvidence, Evidenced, Kept
  <2>1. CASE tasks' = tasks
    BY <2>1
  <2>2. CASE WriteReview(q) /\ review[q] \notin reviews
    <3>1. /\ tasks[review[q].run][review[q].article] # NoTask
          /\ review[q].run \in Runs /\ review[q].article \in Articles
      BY <1>1, <2>2
      DEF WriteReview, GateInv, HoldsRevision, ReviewTypeOK, RequestTypeOK, Review
    <3>2. tasks \in [Runs -> [Articles -> TaskDraft]]
      BY <1>1 DEF PipelineTypeOK, StoreTypeOK
    <3>3. CASE r = review[q].run /\ a = review[q].article
      BY <3>1, <3>3
    <3>4. CASE ~(r = review[q].run /\ a = review[q].article)
      BY <2>2, <3>1, <3>2, <3>4 DEF WriteReview
    <3> QED BY <3>3, <3>4
  <2> QED BY <1>1, <2>1, <2>2, StepKeeps
<1>7. ListsStored' /\ LoadedStored'
  <2>1. /\ at[q] # "idle" => review[q].run \in Runs
        /\ states \in [Runs -> RunState]
        /\ loaded \in [Requests -> RunState]
    BY <1>1 DEF ReviewTypeOK, RequestTypeOK, StoreTypeOK, Review
  <2>2. CASE LoadState(q)
    BY <1>5, <2>1, <2>2
    DEF LoadState, RunReviewInv, PipelineInv, ListsStored, LoadedStored, dbVars
  <2>3. CASE SaveCompleted(q)
    BY <1>5, <2>1, <2>3
    DEF SaveCompleted, SaveRunState, Proceeds, RunReviewInv, PipelineInv,
        ListsStored, LoadedStored
  <2>4. CASE ~LoadState(q) /\ ~SaveCompleted(q)
    <3>1. states' = states
      BY <2>4 DEF ReviewStep, Ask, ReviewTask, SelectRevision, WriteReview,
                  ListDecisions, MarkCompleted, AbortReview, dbVars
    <3>2. \A s \in Requests : loaded'[s] = loaded[s] \/ loaded'[s] = NoState
      BY <2>1, <2>4
      DEF ReviewStep, Ask, ReviewTask, SelectRevision, WriteReview, ListDecisions,
          MarkCompleted, AbortReview, Proceeds, Answer
    <3> QED BY <1>5, <3>1, <3>2
            DEF RunReviewInv, PipelineInv, ListsStored, LoadedStored, NoState
  <2> QED BY <2>2, <2>3, <2>4
<1> QED BY <1>3, <1>4, <1>6, <1>7 DEF PipelineInv

(* The invariant holds initially.                                          *)
LEMMA RunReviewInitInv == RunReviewInit => RunReviewInv
<1> SUFFICES ASSUME RunReviewInit PROVE RunReviewInv
  OBVIOUS
<1>1. PipelineInv
  BY InitInv DEF RunReviewInit
<1>2. RequestTypeOK /\ LoadedStored
  BY DEF RunReviewInit, RequestInit, RequestTypeOK, RequestPc, LoadedStored, NoState,
         RunState
<1>3. GateInv
  BY DEF RunReviewInit, PipelineInit, StoreInit, RequestInit, GateInv,
         RevisionsStart, HoldsRevision, HumanGate, ReviewTrail, NoTask
<1> QED BY <1>1, <1>2, <1>3 DEF RunReviewInv

(* The invariant is inductive.                                             *)
LEMMA RunReviewNextInv ==
    ASSUME RunReviewInv, [RunReviewNext]_allVars
    PROVE  RunReviewInv'
<1>1. CASE UNCHANGED allVars
  <2>1. [PipelineNext]_pipelineVars /\ UNCHANGED requestVars
    BY <1>1 DEF allVars, pipelineVars
  <2>2. PipelineInv' /\ GateInv'
    BY <2>1, NextInv, PipelineGate DEF RunReviewInv
  <2>3. UNCHANGED <<changes, reviews, at, review, loaded>>
    BY <1>1 DEF allVars, dbVars, requestVars
  <2>4. RequestTypeOK' /\ LoadedStored'
    BY <2>3 DEF RunReviewInv, RequestTypeOK, LoadedStored
  <2> QED BY <2>2, <2>4 DEF RunReviewInv
<1>2. CASE Pipeline
  <2>1. PipelineNext /\ UNCHANGED requestVars
    BY <1>2 DEF Pipeline, PipelineNext
  <2>2. PipelineInv' /\ GateInv' /\ Kept
    BY <2>1, NextInv, NextKept, PipelineGate DEF RunReviewInv, PipelineInv
  <2> QED BY <2>1, <2>2
          DEF RunReviewInv, RequestTypeOK, LoadedStored, requestVars, Kept
<1>3. CASE ReviewRequest
  BY <1>3, RequestKeepsPipeline, StepGate
  DEF ReviewRequest, ReviewNext, RunReviewInv, PipelineInv, PipelineTypeOK,
      ReviewTypeOK
<1>4. CASE Die
  <2>1. PipelineInv' /\ UNCHANGED dbVars
    BY <1>4, NextInv DEF Die, Crash, PipelineNext, RunReviewInv
  <2>2. RequestTypeOK' /\ LoadedStored'
    BY <1>4 DEF Die, RunReviewInv, RequestTypeOK, RequestPc, LoadedStored, NoState,
                RunState
  <2>3. GateInv'
    BY <1>4, <2>1
    DEF Die, RunReviewInv, GateInv, RevisionsStart, HoldsRevision, HumanGate,
        ReviewTrail, ReviewsOf, dbVars
  <2> QED BY <2>1, <2>2, <2>3 DEF RunReviewInv
<1> QED BY <1>1, <1>2, <1>3, <1>4 DEF RunReviewNext

(* Traceability holds while tasks are drafted and reviewed concurrently.   *)
THEOREM SharedTraceability == RunReviewSpec => []ChainOfEvidence
<1>1. RunReviewInv => ChainOfEvidence
  BY DEF RunReviewInv, PipelineInv
<1> QED BY <1>1, RunReviewInitInv, RunReviewNextInv, PTL DEF RunReviewSpec

(* No task is decided but by a stored human review, although executors     *)
(* draft, fail, crash and resume while reviewers decide.                   *)
THEOREM SharedHumanGate == RunReviewSpec => [](HumanGate /\ ReviewTrail)
<1>1. RunReviewInv => HumanGate /\ ReviewTrail
  BY DEF RunReviewInv, GateInv
<1> QED BY <1>1, RunReviewInitInv, RunReviewNextInv, PTL DEF RunReviewSpec

(* Neither executors nor reviewers take back a stored result.              *)
THEOREM SharedRowsKept == RunReviewSpec => RowsAreKept
<1>1. ASSUME RunReviewInv, [RunReviewNext]_allVars
      PROVE  [Kept]_dbVars
  <2>1. PipelineTypeOK /\ ReviewTypeOK /\ GateInv
    BY <1>1 DEF RunReviewInv, PipelineInv, PipelineTypeOK, ReviewTypeOK
  <2> QED
    BY <1>1, <2>1, NextKept, StepKeeps
    DEF RunReviewNext, Pipeline, PipelineNext, ReviewRequest, ReviewNext, Die,
        Crash, allVars, dbVars
<1> QED BY <1>1, RunReviewInitInv, RunReviewNextInv, PTL DEF RunReviewSpec, RowsAreKept

-----------------------------------------------------------------------------
(* The register of human decisions, while tasks are still being drafted.   *)

(* A step of the pipeline drafts one task of the register, or none.        *)
LEMMA PipelineDrafts ==
    ASSUME PipelineTypeOK, [PipelineNext]_pipelineVars, UNCHANGED reviews
    PROVE  UNCHANGED <<tasks, reviews>> \/ Register!RegisterNext
<1>1. CASE \E p \in Executors, a \in Articles : GenerateTask(p, a)
  <2> PICK p \in Executors, a \in Articles : GenerateTask(p, a)
    BY <1>1
  <2>1. /\ run[p] \in Runs
        /\ tasks \in [Runs -> [Articles -> TaskDraft]]
    BY DEF GenerateTask, PipelineTypeOK, StoreTypeOK, ExecTypeOK
  <2>2. tasks' = tasks \/ (/\ tasks[run[p]][a] = NoTask
                          /\ tasks' = [tasks EXCEPT ![run[p]][a] = FreshTask])
    BY <2>1 DEF GenerateTask, InsertTask
  <2>3. tasks' # tasks => Register!Draft(run[p], a)
    BY <2>2 DEF Register!Draft, Register!Absent, Register!Fresh, NoTask, FreshTask
  <2> QED BY <2>1, <2>3 DEF Register!RegisterNext
<1>2. CASE ~\E p \in Executors, a \in Articles : GenerateTask(p, a)
  <2>1. tasks' = tasks
    BY <1>2, NextCases
    DEF Proceed, CompareFindsRows, CompareFindsNone, InsertNextChange,
        CreateFindsRun, CreateFindsNone, CreateInserts, CreateSavesState, Begin,
        Ingest, Compared, NoChange, Mark, Extract, Extracted, Retrieve,
        ListFindings, AssessApplicability, AnalyzeGap, Assessed, Verify, ListTasks,
        AuditDraft, Drafted, RequestReview, AuditRequest, SaveFailed, Checkpoint,
        dbVars
  <2> QED BY <2>1
<1> QED BY <1>1, <1>2

(* Executors and reviewers together implement the register: whatever fails *)
(* or crashes, tasks change only by being drafted once and by decisions    *)
(* that enter the log in the same step.                                    *)
THEOREM SharedRegister == RunReviewSpec => ImplementsRegister
<1>1. RunReviewInit => Register!RegisterInit
  BY DEF RunReviewInit, PipelineInit, StoreInit, RequestInit,
         Register!RegisterInit, NoTask, Register!Absent
<1>2. ASSUME RunReviewInv, [RunReviewNext]_allVars
      PROVE  [Register!RegisterNext]_(Register!registerVars)
  <2>1. PipelineTypeOK /\ ReviewTypeOK /\ GateInv
    BY <1>2 DEF RunReviewInv, PipelineInv, PipelineTypeOK, ReviewTypeOK
  <2>2. UNCHANGED <<tasks, reviews>> \/ Register!RegisterNext
    BY <1>2, <2>1, PipelineDrafts, StepDecides
    DEF RunReviewNext, Pipeline, PipelineNext, ReviewRequest, ReviewNext, Die,
        Crash, allVars, dbVars, requestVars
  <2> QED BY <2>2 DEF Register!registerVars
<1> QED BY <1>1, <1>2, RunReviewInitInv, RunReviewNextInv, PTL
        DEF RunReviewSpec, ImplementsRegister, Register!RegisterSpec
=============================================================================
