--------------------------- MODULE RunPipelineProofs ---------------------------
(***************************************************************************)
(* Proofs about RunPipeline, for any number of articles, runs, executors   *)
(* and crashes.                                                            *)
(***************************************************************************)
EXTENDS RunPipeline, WellFoundedInduction, TLAPS

-----------------------------------------------------------------------------
(* Types.                                                                  *)

(* A request that ends leaves its executor well typed.                     *)
LEMMA ReturnTypeOK ==
    ASSUME ExecTypeOK, NEW p \in Executors, Return(p)
    PROVE  ExecTypeOK'
BY DEF ExecTypeOK, Return, NoDrafts

(* An executor that moves on keeps its run, and new lists of articles are  *)
(* lists of articles.                                                      *)
LEMMA GotoTypeOK ==
    ASSUME ExecTypeOK, NEW p \in Executors, pc[p] # "idle",
           NEW l \in Active, Goto(p, l), UNCHANGED <<run, drafts, crashes>>,
           ids' \in [Executors -> SUBSET Articles],
           todo' \in [Executors -> SUBSET Articles]
    PROVE  ExecTypeOK'
BY DEF ExecTypeOK, Goto

(* A checkpoint leaves the tables well typed.                              *)
LEMMA CheckpointTypeOK ==
    ASSUME PipelineTypeOK, NEW p \in Executors, pc[p] # "idle",
           NEW phase \in RunPhase, Checkpoint(p, phase)
    PROVE  StoreTypeOK'
BY DEF PipelineTypeOK, StoreTypeOK, ExecTypeOK, Checkpoint, SaveRunState,
       RunState

(* No step of an executor takes any variable out of its type.              *)
LEMMA ProceedTypeOK ==
    ASSUME PipelineTypeOK, NEW p \in Executors, Proceed(p)
    PROVE  PipelineTypeOK'
<1> USE DEF PipelineTypeOK, Active, BeforeTry, InTry, InHandler
<1> DEFINE Types == StoreTypeOK /\ ExecTypeOK
<1>1. Types
  OBVIOUS
<1>2. ASSUME UNCHANGED dbVars PROVE StoreTypeOK'
  BY <1>1, <1>2 DEF StoreTypeOK, dbVars
<1>3. ASSUME NEW at, NEW next \in Active, CompareFindsRows(p, at, next), at # "idle"
      PROVE  PipelineTypeOK'
  BY <1>1, <1>2, <1>3, GotoTypeOK DEF CompareFindsRows, StoreTypeOK, ExecTypeOK
<1>4. ASSUME NEW at, NEW ins \in Active, CompareFindsNone(p, at, ins), at # "idle"
      PROVE  PipelineTypeOK'
  BY <1>1, <1>2, <1>4, GotoTypeOK DEF CompareFindsNone, ExecTypeOK
<1>5. ASSUME NEW at, NEW next \in Active, NEW a \in Articles,
             InsertNextChange(p, a, at, next), at # "idle"
      PROVE  PipelineTypeOK'
  <2>1. StoreTypeOK'
    BY <1>1, <1>5 DEF InsertNextChange, InsertChange, StoreTypeOK
  <2>2. CASE todo[p] = {a}
    BY <1>1, <1>5, <2>1, <2>2, GotoTypeOK DEF InsertNextChange, ExecTypeOK
  <2>3. CASE todo[p] # {a}
    BY <1>1, <1>5, <2>1, <2>3 DEF InsertNextChange, ExecTypeOK
  <2> QED BY <2>2, <2>3
<1>6. CASE CreateFindsRun(p) \/ CreateFindsNone(p) \/ Begin(p)
  <2>1. StoreTypeOK'
    BY <1>2, <1>6 DEF CreateFindsRun, CreateFindsNone, Begin, dbVars
  <2>2. CASE Return(p)
    BY <1>1, <2>1, <2>2, ReturnTypeOK
  <2>3. CASE ~Return(p)
    <3>1. /\ \E l \in Active : Goto(p, l)
          /\ pc[p] # "idle"
          /\ UNCHANGED <<run, todo, drafts, crashes>>
      BY <1>6, <2>3 DEF CreateFindsRun, CreateFindsNone, Begin
    <3>2. states[run[p]].change_ids \in SUBSET Articles
      BY <1>1, <3>1 DEF StoreTypeOK, ExecTypeOK, RunState
    <3>3. ids' \in [Executors -> SUBSET Articles]
      BY <1>1, <1>6, <2>3, <3>2
      DEF CreateFindsRun, CreateFindsNone, Begin, ExecTypeOK
    <3> QED BY <1>1, <2>1, <3>1, <3>3, GotoTypeOK DEF ExecTypeOK
  <2> QED BY <2>2, <2>3
<1>7. CASE CreateInserts(p)
  <2>1. StoreTypeOK'
    BY <1>1, <1>7 DEF CreateInserts, InsertRun, StoreTypeOK, RunPhase
  <2>2. CASE Return(p)
    BY <1>1, <2>1, <2>2, ReturnTypeOK
  <2>3. CASE ~Return(p)
    BY <1>1, <1>7, <2>1, <2>3, GotoTypeOK DEF CreateInserts, ExecTypeOK
  <2> QED BY <2>2, <2>3
<1>8. CASE CreateSavesState(p)
  <2>1. StoreTypeOK'
    BY <1>1, <1>8 DEF CreateSavesState, SaveRunState, StoreTypeOK, RunState,
                      RunPhase, ExecTypeOK
  <2> QED BY <1>1, <1>8, <2>1, GotoTypeOK DEF CreateSavesState, ExecTypeOK
<1>9. ASSUME \/ Ingest(p) \/ NoChange(p) \/ Extracted(p) \/ Retrieve(p)
             \/ Assessed(p) \/ Verify(p) \/ Drafted(p) \/ SaveFailed(p)
      PROVE  PipelineTypeOK'
  <2>1. /\ pc[p] # "idle"
        /\ \E phase \in RunPhase : Checkpoint(p, phase)
        /\ \E l \in Active : Goto(p, l)
        /\ UNCHANGED <<run, ids, todo, drafts, crashes>>
    BY <1>9 DEF Ingest, NoChange, Extracted, Retrieve, Assessed, Verify,
                Drafted, SaveFailed, RunPhase, Terminal
  <2> QED BY <1>1, <2>1, CheckpointTypeOK, GotoTypeOK DEF ExecTypeOK
<1>10. CASE Compared(p)
  <2>1. /\ pc[p] # "idle"
        /\ \E phase \in RunPhase : Checkpoint(p, phase)
        /\ \E l \in Active : Goto(p, l)
        /\ UNCHANGED <<run, ids, drafts, crashes>>
    BY <1>10 DEF Compared, RunPhase
  <2>2. todo' \in [Executors -> SUBSET Articles]
    BY <1>1, <1>10 DEF Compared, Affected, ExecTypeOK
  <2> QED BY <1>1, <2>1, <2>2, CheckpointTypeOK, GotoTypeOK DEF ExecTypeOK
<1>11. ASSUME NEW at, NEW phase \in RunPhase, Mark(p, at, phase), at # "idle"
       PROVE  PipelineTypeOK'
  BY <1>1, <1>11, ReturnTypeOK DEF Mark, UpdateRunPhase, StoreTypeOK
<1>12. CASE \E a \in Articles : Extract(p, a)
  BY <1>1, <1>12 DEF Extract, InsertObligation, StoreTypeOK, ExecTypeOK
<1>13. CASE \E a \in Articles : AssessApplicability(p, a)
  <2>1. StoreTypeOK'
    BY <1>1, <1>13 DEF AssessApplicability, InsertApplicability, StoreTypeOK,
                      ExecTypeOK
  <2> QED BY <1>1, <1>13, <2>1, GotoTypeOK DEF AssessApplicability, ExecTypeOK
<1>14. CASE \E a \in Articles, v \in AssessmentStatus : AnalyzeGap(p, a, v)
  <2>1. StoreTypeOK'
    BY <1>1, <1>14 DEF AnalyzeGap, InsertFinding, StoreTypeOK, ExecTypeOK
  <2> QED BY <1>1, <1>14, <2>1, GotoTypeOK DEF AnalyzeGap, ExecTypeOK
<1>15. CASE \E a \in Articles : AuditDraft(p, a)
  <2>1. StoreTypeOK'
    BY <1>1, <1>15 DEF AuditDraft, AddDraftAudit, StoreTypeOK, ExecTypeOK
  <2> QED BY <1>1, <1>15, <2>1, GotoTypeOK DEF AuditDraft, ExecTypeOK
<1>16. CASE ListFindings(p)
  BY <1>1, <1>2, <1>16, GotoTypeOK DEF ListFindings, Affected, ExecTypeOK
<1>17. CASE ListTasks(p)
  <2>1. [a \in Articles |-> tasks[run[p]][a].review_status]
            \in [Articles -> ReviewStatus \cup {"absent"}]
    BY <1>1, <1>17 DEF ListTasks, StoreTypeOK, ExecTypeOK, TaskDraft
  <2> QED BY <1>1, <1>2, <1>17, <2>1 DEF ListTasks, Goto, Affected, ExecTypeOK
<1>18. CASE \E a \in Articles : GenerateTask(p, a)
  <2> PICK a \in Articles : GenerateTask(p, a)
    BY <1>18
  <2>1. StoreTypeOK'
    BY <1>1 DEF GenerateTask, InsertTask, StoreTypeOK, TaskDraft, FreshTask,
                ReviewStatus
  <2>2. tasks'[run[p]][a].review_status \in ReviewStatus \cup {"absent"}
    BY <1>1, <2>1 DEF GenerateTask, StoreTypeOK, ExecTypeOK, TaskDraft
  <2> QED BY <1>1, <2>1, <2>2 DEF GenerateTask, Goto, ExecTypeOK
<1>19. CASE RequestReview(p)
  <2>1. pc[p] # "idle" /\ \E phase \in RunPhase : Checkpoint(p, phase)
    BY <1>19 DEF RequestReview, FinalPhase, RunPhase, Terminal
  <2>2. StoreTypeOK'
    BY <2>1, CheckpointTypeOK
  <2> QED BY <1>1, <1>19, <2>1, <2>2, GotoTypeOK
          DEF RequestReview, ExecTypeOK, Active, InTry
<1>20. CASE AuditRequest(p)
  BY <1>1, <1>20, ReturnTypeOK DEF AuditRequest, StoreTypeOK, dbVars
<1> QED
  BY <1>3, <1>4, <1>5, <1>6, <1>7, <1>8, <1>9, <1>10, <1>11, <1>12, <1>13,
     <1>14, <1>15, <1>16, <1>17, <1>18, <1>19, <1>20
  DEF Proceed, RunPhase, Terminal

(* No step, an interruption included, takes any variable out of its type.  *)
LEMMA NextTypeOK ==
    ASSUME PipelineTypeOK, [PipelineNext]_pipelineVars
    PROVE  PipelineTypeOK'
<1>0. StoreTypeOK /\ ExecTypeOK
  BY DEF PipelineTypeOK
<1>1. ASSUME NEW p \in Executors, NEW r \in Runs, Start(p, r)
      PROVE  PipelineTypeOK'
  BY <1>0, <1>1 DEF Start, Goto, PipelineTypeOK, StoreTypeOK, ExecTypeOK, dbVars,
                    Active, BeforeTry
<1>2. ASSUME NEW p \in Executors, Raise(p)
      PROVE  PipelineTypeOK'
  <2>1. pc[p] # "idle"
    BY <1>2 DEF Raise, InTry
  <2>2. StoreTypeOK'
    BY <1>0, <1>2 DEF Raise, StoreTypeOK, dbVars
  <2> QED BY <1>0, <1>2, <2>1, <2>2, GotoTypeOK
          DEF Raise, PipelineTypeOK, ExecTypeOK, Active, InHandler
<1>3. ASSUME NEW p \in Executors, Abort(p)
      PROVE  PipelineTypeOK'
  BY <1>0, <1>3, ReturnTypeOK DEF Abort, PipelineTypeOK, StoreTypeOK, dbVars
<1>4. CASE Crash
  BY <1>0, <1>4, CrashAssumption
  DEF Crash, PipelineTypeOK, StoreTypeOK, ExecTypeOK, dbVars, NoDrafts
<1>5. CASE UNCHANGED pipelineVars
  BY <1>0, <1>5
  DEF pipelineVars, execVars, dbVars, PipelineTypeOK, StoreTypeOK, ExecTypeOK
<1> QED
  BY <1>1, <1>2, <1>3, <1>4, <1>5, ProceedTypeOK DEF PipelineNext

(* The initial tables are empty and every executor is idle.                *)
LEMMA InitTypeOK == PipelineInit => PipelineTypeOK
BY CrashAssumption
DEF PipelineInit, StoreInit, PipelineTypeOK, StoreTypeOK, ExecTypeOK, NoState,
    NoTask, NoDrafts, RunState, TaskDraft

(* Type correctness of the pipeline.                                       *)
THEOREM TypeCorrect == PipelineSpec => []PipelineTypeOK
BY InitTypeOK, NextTypeOK, PTL DEF PipelineSpec

-----------------------------------------------------------------------------
(* What a step leaves alone.                                               *)

(* Rows only accumulate and a stored verdict stays: every insert of the    *)
(* pipeline is an INSERT OR IGNORE.                                        *)
LEMMA NextKept ==
    ASSUME PipelineTypeOK, [PipelineNext]_pipelineVars
    PROVE  Kept
<1> USE DEF PipelineTypeOK, StoreTypeOK, ExecTypeOK, Kept
<1>1. CASE UNCHANGED dbVars
  BY <1>1 DEF dbVars
<1>2. ASSUME NEW p \in Executors, NEW phase, Checkpoint(p, phase)
      PROVE  Kept
  BY <1>2 DEF Checkpoint
<1>3. ASSUME NEW p \in Executors, Proceed(p), ~UNCHANGED dbVars,
             \A phase : ~Checkpoint(p, phase)
      PROVE  Kept
  <2>1. ASSUME NEW at, NEW next, NEW a \in Articles,
               InsertNextChange(p, a, at, next)
        PROVE  Kept
    BY <2>1 DEF InsertNextChange, InsertChange
  <2>2. CASE CreateInserts(p) \/ CreateSavesState(p)
    BY <2>2 DEF CreateInserts, CreateSavesState
  <2>3. ASSUME NEW at, NEW phase, Mark(p, at, phase)
        PROVE  Kept
    BY <2>3 DEF Mark
  <2>4. CASE \E a \in Articles : Extract(p, a)
    BY <2>4 DEF Extract, InsertObligation
  <2>5. CASE \E a \in Articles : AssessApplicability(p, a)
    BY <2>5 DEF AssessApplicability, InsertApplicability
  <2>6. CASE \E a \in Articles, v \in AssessmentStatus : AnalyzeGap(p, a, v)
    BY <2>6 DEF AnalyzeGap, InsertFinding
  <2>7. CASE \E a \in Articles : GenerateTask(p, a)
    BY <2>7 DEF GenerateTask, InsertTask, NoTask, FreshTask
  <2>8. CASE \E a \in Articles : AuditDraft(p, a)
    BY <2>8 DEF AuditDraft
  <2> QED
    BY <1>3, <2>1, <2>2, <2>3, <2>4, <2>5, <2>6, <2>7, <2>8
    DEF Proceed, CompareFindsRows, CompareFindsNone, CreateFindsRun,
        CreateFindsNone, Begin, Ingest, Compared, NoChange, Extracted, Retrieve,
        ListFindings, Assessed, Verify, ListTasks, Drafted, RequestReview,
        AuditRequest, SaveFailed
<1> QED
  BY <1>1, <1>2, <1>3
  DEF PipelineNext, Start, Raise, Abort, Crash, pipelineVars

(* Stored results are never taken back by the pipeline, whatever the       *)
(* executors, failures and crashes.                                        *)
THEOREM PipelineKeepsRows == PipelineSpec => RowsAreKept
<1>1. PipelineTypeOK /\ [PipelineNext]_pipelineVars => [Kept]_dbVars
  BY NextKept
<1> QED BY <1>1, TypeCorrect, PTL DEF PipelineSpec, RowsAreKept

-----------------------------------------------------------------------------
(* The invariant.  A checkpoint is resumed from its change list, so what   *)
(* an executor may rely on starts with the list being stored.              *)

ListsStored == \A r \in Runs : states[r].change_ids \subseteq changes

PipelineInv == /\ PipelineTypeOK
               /\ ListsStored
               /\ ExecutorProgress
               /\ ChainOfEvidence

(* The other executors' variables.                                         *)
Elsewhere(p) ==
    \A q \in Executors \ {p} :
        pc'[q] = pc[q] /\ run'[q] = run[q] /\ ids'[q] = ids[q] /\ todo'[q] = todo[q]

(* An executor writes no variable of another executor.                     *)
LEMMA ProceedElsewhere ==
    ASSUME PipelineTypeOK, NEW p \in Executors, Proceed(p)
    PROVE  Elsewhere(p)
<1> USE DEF PipelineTypeOK, ExecTypeOK, Elsewhere, Goto
<1>1. ASSUME Return(p) PROVE Elsewhere(p)
  BY <1>1 DEF Return
<1>2. CASE \/ CompareFindsRows(p, "pre_compare", "create")
           \/ CompareFindsNone(p, "pre_compare", "pre_insert")
           \/ \E a \in Articles : InsertNextChange(p, a, "pre_insert", "create")
           \/ CompareFindsRows(p, "compare", "compared")
           \/ CompareFindsNone(p, "compare", "insert_change")
           \/ \E a \in Articles : InsertNextChange(p, a, "insert_change", "compared")
  BY <1>2 DEF CompareFindsRows, CompareFindsNone, InsertNextChange
<1>3. CASE CreateFindsRun(p) \/ CreateFindsNone(p) \/ CreateInserts(p)
           \/ CreateSavesState(p) \/ Begin(p)
  BY <1>1, <1>3 DEF CreateFindsRun, CreateFindsNone, CreateInserts,
                    CreateSavesState, Begin
<1>4. CASE Ingest(p) \/ Compared(p) \/ NoChange(p) \/ Extracted(p)
           \/ Retrieve(p) \/ Assessed(p) \/ Verify(p) \/ Drafted(p)
           \/ SaveFailed(p) \/ ListFindings(p) \/ ListTasks(p)
           \/ RequestReview(p) \/ AuditRequest(p)
  BY <1>1, <1>4 DEF Ingest, Compared, NoChange, Extracted, Retrieve, Assessed,
                    Verify, Drafted, SaveFailed, ListFindings, ListTasks,
                    RequestReview, AuditRequest
<1>5. CASE \/ \E a \in Articles : Extract(p, a)
           \/ \E a \in Articles : AssessApplicability(p, a)
           \/ \E a \in Articles, v \in AssessmentStatus : AnalyzeGap(p, a, v)
           \/ \E a \in Articles : GenerateTask(p, a)
           \/ \E a \in Articles : AuditDraft(p, a)
  BY <1>5 DEF Extract, AssessApplicability, AnalyzeGap, GenerateTask, AuditDraft
<1>6. CASE \/ Mark(p, "mark_no_change", "no_change")
           \/ Mark(p, "mark_completed", "completed")
           \/ Mark(p, "mark_failed", "failed")
  BY <1>1, <1>6 DEF Mark
<1> QED BY <1>2, <1>3, <1>4, <1>5, <1>6 DEF Proceed

(* Progress survives the steps of others: rows only accumulate.            *)
LEMMA ProgressKept ==
    ASSUME PipelineTypeOK, NEW p \in Executors, Progress(p), Kept,
           pc'[p] = pc[p], run'[p] = run[p], ids'[p] = ids[p], todo'[p] = todo[p]
    PROVE  Progress(p)'
<1>1. /\ ids[p] \in SUBSET Articles /\ todo[p] \in SUBSET Articles
      /\ pc[p] # "idle" => run[p] \in Runs
  BY DEF PipelineTypeOK, ExecTypeOK
<1>2. CASE pc[p] = "idle"
  BY <1>2 DEF Progress, Kept, Extracting, Assessing
<1>3. CASE pc[p] # "idle"
  BY <1>1, <1>3 DEF Progress, Kept, Affected, IsFirst, Extracting, Assessing
<1> QED BY <1>2, <1>3

(* An idle executor relies on nothing.                                     *)
LEMMA ReturnProgress ==
    ASSUME PipelineTypeOK, NEW p \in Executors, Return(p)
    PROVE  Progress(p)'
BY DEF PipelineTypeOK, ExecTypeOK, Return, Progress, Affected, Extracting, Assessing

(* Progress survives the executor's own steps: it ticks off what it wrote, *)
(* and starts each loop from the articles it has to do.                    *)
LEMMA ProceedProgress ==
    ASSUME PipelineTypeOK, ListsStored, NEW p \in Executors, Progress(p),
           Proceed(p)
    PROVE  Progress(p)'
<1> USE DEF Extracting, Assessing, Affected, Goto
<1>1. /\ pc \in [Executors -> Active \cup {"idle"}]
      /\ ids \in [Executors -> SUBSET Articles]
      /\ todo \in [Executors -> SUBSET Articles]
      /\ run \in [Executors -> Runs \cup {NoRun}]
      /\ pc[p] # "idle" => run[p] \in Runs
  BY DEF PipelineTypeOK, ExecTypeOK
<1>2. /\ findings \in [Runs -> [Articles -> AssessmentStatus \cup {"absent"}]]
      /\ tasks \in [Runs -> [Articles -> TaskDraft]]
      /\ obligations \in [Runs -> SUBSET Articles]
      /\ applicability \in [Runs -> SUBSET Articles]
      /\ audits \in [Runs -> SUBSET Articles]
  BY DEF PipelineTypeOK, StoreTypeOK
<1>3. Articles \subseteq Nat
  BY DEF Articles
<1>4. Kept
  BY NextKept DEF PipelineNext
<1>5. CASE \/ CompareFindsRows(p, "pre_compare", "create")
           \/ CompareFindsRows(p, "compare", "compared")
  BY <1>1, <1>5 DEF CompareFindsRows, Progress, dbVars
<1>6. ASSUME NEW l \in {"create", "compared"},
              NEW at \in {"pre_insert", "insert_change"},
              NEW a \in Articles, InsertNextChange(p, a, at, l)
       PROVE  Progress(p)'
  BY <1>1, <1>6 DEF InsertNextChange, InsertChange, IsFirst, Progress
<1>7. CASE \/ CompareFindsNone(p, "pre_compare", "pre_insert")
           \/ CompareFindsNone(p, "compare", "insert_change")
  BY <1>1, <1>7 DEF CompareFindsNone, Progress, dbVars
<1>8. CASE Return(p)
  BY <1>8, ReturnProgress
<1>9. CASE CreateFindsRun(p) \/ CreateFindsNone(p) \/ CreateInserts(p)
           \/ CreateSavesState(p) \/ Begin(p)
  <2>1. CASE Begin(p)
    BY <1>1, <1>8, <2>1 DEF Begin, Progress, ListsStored, dbVars
  <2>2. CASE CreateFindsRun(p) \/ CreateFindsNone(p) \/ CreateInserts(p)
             \/ CreateSavesState(p)
    BY <1>1, <1>8, <2>2
    DEF CreateFindsRun, CreateFindsNone, CreateInserts, CreateSavesState,
        Progress, dbVars
  <2> QED BY <1>9, <2>1, <2>2
<1>10. CASE \/ Ingest(p) \/ Compared(p) \/ NoChange(p) \/ Extracted(p)
           \/ Retrieve(p) \/ Assessed(p) \/ Verify(p) \/ Drafted(p)
           \/ SaveFailed(p)
  <2>1. CASE Ingest(p) \/ NoChange(p) \/ SaveFailed(p)
    BY <1>1, <2>1 DEF Ingest, NoChange, SaveFailed, Checkpoint, Progress
  <2>2. CASE Compared(p)
    <3>1. CASE ids[p] \cap Substantive = {}
      BY <1>1, <2>2, <3>1 DEF Compared, Checkpoint, Progress
    <3>2. CASE ids[p] \cap Substantive # {}
      BY <1>1, <2>2, <3>2 DEF Compared, Checkpoint, Progress
    <3> QED BY <3>1, <3>2
  <2>3. CASE Extracted(p) \/ Retrieve(p)
    BY <1>1, <2>3 DEF Extracted, Retrieve, Checkpoint, Progress
  <2>4. CASE Assessed(p) \/ Verify(p) \/ Drafted(p)
    BY <1>1, <2>4 DEF Assessed, Verify, Drafted, Checkpoint, Progress
  <2> QED BY <1>10, <2>1, <2>2, <2>3, <2>4
<1>11. CASE \E a \in Articles : Extract(p, a)
  BY <1>1, <1>2, <1>11 DEF Extract, InsertObligation, IsFirst, Progress
<1>12. CASE ListFindings(p)
  BY <1>1, <1>2, <1>12 DEF ListFindings, Progress, dbVars
<1>13. CASE \E a \in Articles : AssessApplicability(p, a)
  <2> PICK a \in Articles : AssessApplicability(p, a)
    BY <1>13
  <2>1. \A b \in todo[p] : IsFirst(b, todo[p]) => b = a
    BY <1>1, <1>3 DEF AssessApplicability, IsFirst
  <2> QED
    BY <1>1, <1>2, <2>1 DEF AssessApplicability, InsertApplicability, Progress, IsFirst
<1>14. CASE \E a \in Articles, v \in AssessmentStatus : AnalyzeGap(p, a, v)
  BY <1>1, <1>2, <1>14
  DEF AnalyzeGap, InsertFinding, IsFirst, Progress, AssessmentStatus, Verdicts
<1>15. CASE ListTasks(p)
  BY <1>1, <1>2, <1>15 DEF ListTasks, Progress, dbVars
<1>16. CASE \E a \in Articles : GenerateTask(p, a)
  <2> PICK a \in Articles : GenerateTask(p, a)
    BY <1>16
  <2>1. \A b \in todo[p] : IsFirst(b, todo[p]) => b = a
    BY <1>1, <1>3 DEF GenerateTask, IsFirst
  <2>2. tasks'[run[p]][a] # NoTask
    BY <1>1, <1>2 DEF GenerateTask, InsertTask, FreshTask, NoTask
  <2> QED
    BY <1>1, <1>2, <1>4, <2>1, <2>2 DEF GenerateTask, Progress, Kept, IsFirst
<1>17. CASE \E a \in Articles : AuditDraft(p, a)
  BY <1>1, <1>2, <1>17 DEF AuditDraft, AddDraftAudit, IsFirst, Progress
<1>18. CASE RequestReview(p)
  BY <1>1, <1>18 DEF RequestReview, Checkpoint, Progress
<1>19. CASE \/ Mark(p, "mark_no_change", "no_change")
            \/ Mark(p, "mark_completed", "completed")
            \/ Mark(p, "mark_failed", "failed")
            \/ AuditRequest(p)
  BY <1>8, <1>19 DEF Mark, AuditRequest
<1> QED
  BY <1>5, <1>7, <1>9, <1>10, <1>11, <1>12, <1>13, <1>14, <1>15, <1>16, <1>17,
     <1>18, <1>19, <1>6 DEF Proceed

(* A step of the pipeline preserves every executor's progress.             *)
LEMMA NextProgress ==
    ASSUME PipelineTypeOK, ListsStored, ExecutorProgress,
           [PipelineNext]_pipelineVars
    PROVE  ExecutorProgress'
<1> SUFFICES ASSUME NEW q \in Executors PROVE Progress(q)'
  BY DEF ExecutorProgress
<1>1. Kept /\ Progress(q)
  BY NextKept DEF ExecutorProgress
<1>2. ASSUME pc'[q] = pc[q], run'[q] = run[q], ids'[q] = ids[q], todo'[q] = todo[q]
      PROVE  Progress(q)'
  BY <1>1, <1>2, ProgressKept
<1>3. CASE UNCHANGED pipelineVars
  BY <1>2, <1>3 DEF pipelineVars, execVars
<1>4. ASSUME NEW p \in Executors, Proceed(p)
      PROVE  Progress(q)'
  BY <1>1, <1>2, <1>4, ProceedProgress, ProceedElsewhere DEF Elsewhere
<1>5. ASSUME NEW p \in Executors, NEW r \in Runs, Start(p, r)
      PROVE  Progress(q)'
  <2>1. CASE q = p
    BY <1>1, <1>5, <2>1
    DEF Start, Goto, Progress, PipelineTypeOK, ExecTypeOK, dbVars, Affected,
        Extracting, Assessing
  <2>2. CASE q # p
    BY <1>2, <1>5, <2>2 DEF Start, Goto, PipelineTypeOK, ExecTypeOK
  <2> QED BY <2>1, <2>2
<1>6. ASSUME NEW p \in Executors, Raise(p)
      PROVE  Progress(q)'
  <2>1. CASE q = p
    BY <1>1, <1>6, <2>1
    DEF Raise, Goto, Progress, PipelineTypeOK, ExecTypeOK, dbVars, Affected,
        Extracting, Assessing
  <2>2. CASE q # p
    BY <1>2, <1>6, <2>2 DEF Raise, Goto, PipelineTypeOK, ExecTypeOK
  <2> QED BY <2>1, <2>2
<1>7. ASSUME NEW p \in Executors, Abort(p)
      PROVE  Progress(q)'
  <2>1. CASE q = p
    BY <1>7, <2>1, ReturnProgress DEF Abort
  <2>2. CASE q # p
    BY <1>2, <1>7, <2>2 DEF Abort, Return, PipelineTypeOK, ExecTypeOK
  <2> QED BY <2>1, <2>2
<1>8. CASE Crash
  BY <1>8 DEF Crash, Progress, Affected, Extracting, Assessing
<1> QED BY <1>3, <1>4, <1>5, <1>6, <1>7, <1>8 DEF PipelineNext

-----------------------------------------------------------------------------
(* Traceability.                                                           *)

(* An executor writes a row only when the row it stands on is stored.      *)
LEMMA ProceedEvidence ==
    ASSUME PipelineTypeOK, ChainOfEvidence, NEW p \in Executors, Progress(p),
           Proceed(p)
    PROVE  ChainOfEvidence'
<1> USE DEF ChainOfEvidence, Evidenced
<1>1. pc[p] # "idle" => run[p] \in Runs
  BY DEF PipelineTypeOK, ExecTypeOK
<1>2. /\ findings \in [Runs -> [Articles -> AssessmentStatus \cup {"absent"}]]
      /\ tasks \in [Runs -> [Articles -> TaskDraft]]
      /\ obligations \in [Runs -> SUBSET Articles]
      /\ applicability \in [Runs -> SUBSET Articles]
      /\ audits \in [Runs -> SUBSET Articles]
  BY DEF PipelineTypeOK, StoreTypeOK
<1>3. ASSUME UNCHANGED <<changes, obligations, applicability, findings, tasks, audits>>
      PROVE  ChainOfEvidence'
  BY <1>3
<1>4. ASSUME NEW at, NEW next, NEW a \in Articles, InsertNextChange(p, a, at, next)
      PROVE  ChainOfEvidence'
  BY <1>4 DEF InsertNextChange, InsertChange
<1>5. CASE \E a \in Articles : Extract(p, a)
  BY <1>1, <1>2, <1>5 DEF Extract, InsertObligation, IsFirst, Progress, Affected
<1>6. CASE \E a \in Articles : AssessApplicability(p, a)
  BY <1>1, <1>2, <1>6
  DEF AssessApplicability, InsertApplicability, IsFirst, Progress, Affected, Extracting
<1>7. CASE \E a \in Articles, v \in AssessmentStatus : AnalyzeGap(p, a, v)
  <2> PICK a \in Articles, v \in AssessmentStatus : AnalyzeGap(p, a, v)
    BY <1>7
  <2>1. a \in applicability[run[p]]
    BY DEF AnalyzeGap, IsFirst, Progress
  <2>2. v = "gap" => a \in Assessable
    BY DEF AnalyzeGap, Verdicts
  <2> QED
    BY <1>1, <1>2, <2>1, <2>2 DEF AnalyzeGap, InsertFinding, AssessmentStatus
<1>8. CASE \E a \in Articles : GenerateTask(p, a)
  <2> PICK a \in Articles : GenerateTask(p, a)
    BY <1>8
  <2>1. findings[run[p]][a] = "gap"
    BY DEF GenerateTask, IsFirst, Progress
  <2> QED
    BY <1>1, <1>2, <2>1 DEF GenerateTask, InsertTask, FreshTask, NoTask
<1>9. CASE \E a \in Articles : AuditDraft(p, a)
  <2> PICK a \in Articles : AuditDraft(p, a)
    BY <1>9
  <2>1. tasks[run[p]][a] # NoTask
    BY DEF AuditDraft, IsFirst, Progress
  <2> QED BY <1>1, <1>2, <2>1 DEF AuditDraft, AddDraftAudit
<1> QED
  BY <1>3, <1>4, <1>5, <1>6, <1>7, <1>8, <1>9
  DEF Proceed, CompareFindsRows, CompareFindsNone, CreateFindsRun,
      CreateFindsNone, CreateInserts, CreateSavesState, Begin, Ingest, Compared,
      NoChange, Mark, Extracted, Retrieve, ListFindings, Assessed, Verify,
      ListTasks, Drafted, RequestReview, AuditRequest, SaveFailed, Checkpoint,
      dbVars

(* The checkpoints an executor takes, by the place it takes them at.       *)
TakesCheckpoint(p) ==
    \/ states' = states
    \/ states' = [states EXCEPT ![run[p]] =
                    [phase |-> "queued", change_ids |-> {}]]
    \/ \E phase \in RunPhase :
        /\ states' = [states EXCEPT ![run[p]] =
                        [phase |-> phase, change_ids |-> ids[p]]]
        /\ phase = "no_change" => pc[p] = "no_change"
        /\ phase \in AfterExtract =>
              pc[p] \in Extracting \/ (pc[p] = "extract" /\ todo[p] = {})
        /\ phase \in AfterAssess =>
              pc[p] \in Assessing \/ (pc[p] = "assess" /\ todo[p] = {})
        /\ phase \in AfterDraft =>
              pc[p] = "finish" \/ (pc[p] = "draft" /\ todo[p] = {})

(* Every step of an executor is one of these as far as states goes.        *)
LEMMA ProceedCheckpoints ==
    ASSUME NEW p \in Executors, Proceed(p)
    PROVE  TakesCheckpoint(p)
<1> USE DEF TakesCheckpoint
<1>1. CASE UNCHANGED states
  BY <1>1
<1>2. CASE CreateSavesState(p)
  BY <1>2 DEF CreateSavesState, SaveRunState
<1>3. CASE \/ Ingest(p) \/ Compared(p) \/ NoChange(p) \/ SaveFailed(p)
  BY <1>3 DEF Ingest, Compared, NoChange, SaveFailed, Checkpoint, SaveRunState,
              RunPhase, Terminal, AfterExtract, AfterAssess, AfterDraft
<1>4. CASE \/ Extracted(p) \/ Retrieve(p) \/ Assessed(p) \/ Verify(p)
           \/ Drafted(p)
  BY <1>4 DEF Extracted, Retrieve, Assessed, Verify, Drafted, Checkpoint,
              SaveRunState, RunPhase, Terminal, AfterExtract, AfterAssess,
              AfterDraft, Extracting, Assessing
<1>5. CASE RequestReview(p)
  <2>1. PICK phase \in {"awaiting_review", "completed"} :
            /\ pc[p] = "finish"
            /\ states' = [states EXCEPT ![run[p]] =
                            [phase |-> phase, change_ids |-> ids[p]]]
    BY <1>5 DEF RequestReview, FinalPhase, Checkpoint, SaveRunState
  <2>2. phase \in RunPhase
    BY DEF RunPhase, Terminal
  <2> QED BY <2>1, <2>2 DEF Extracting, Assessing
<1> QED
  BY <1>1, <1>2, <1>3, <1>4, <1>5
  DEF Proceed, CompareFindsRows, CompareFindsNone, InsertNextChange,
      CreateFindsRun, CreateFindsNone, CreateInserts, Begin, Mark, Extract,
      ListFindings, AssessApplicability, AnalyzeGap, ListTasks, GenerateTask,
      AuditDraft, AuditRequest, dbVars

(* Whoever else writes, the steps of an executor keep checkpoints covered. *)
LEMMA ProceedCovered ==
    ASSUME PipelineTypeOK, CheckpointIsCovered, NEW p \in Executors, Progress(p),
           Proceed(p)
    PROVE  CheckpointIsCovered'
<1> SUFFICES ASSUME NEW r \in Runs PROVE Covered(r)'
  BY DEF CheckpointIsCovered
<1>1. Kept
  BY NextKept DEF PipelineNext
<1>2. /\ Covered(r)
      /\ states[r].change_ids \subseteq Articles
      /\ ids[p] \subseteq Articles
      /\ states \in [Runs -> RunState]
      /\ Substantive \subseteq Articles
  BY ArticleAssumption
  DEF CheckpointIsCovered, PipelineTypeOK, StoreTypeOK, ExecTypeOK, RunState
<1>3. CASE states'[r] = states[r]
  BY <1>1, <1>2, <1>3 DEF Covered, Kept, AfterDraft, AfterAssess
<1>4. ASSUME r = run[p],
             states'[r] = [phase |-> "queued", change_ids |-> {}]
      PROVE  Covered(r)'
  BY <1>4 DEF Covered
<1>5. ASSUME r = run[p], NEW phase \in RunPhase,
             states'[r] = [phase |-> phase, change_ids |-> ids[p]],
             phase = "no_change" => pc[p] = "no_change",
             phase \in AfterExtract =>
                pc[p] \in Extracting \/ (pc[p] = "extract" /\ todo[p] = {}),
             phase \in AfterAssess =>
                pc[p] \in Assessing \/ (pc[p] = "assess" /\ todo[p] = {}),
             phase \in AfterDraft =>
                pc[p] = "finish" \/ (pc[p] = "draft" /\ todo[p] = {})
      PROVE  Covered(r)'
  <2>1. ids[p] \subseteq changes'
    BY <1>1 DEF Progress, Kept
  <2>2. phase = "no_change" => ids[p] \cap Substantive = {}
    BY <1>5 DEF Progress
  <2>3. phase \in AfterExtract => Affected(p) \subseteq obligations'[r]
    BY <1>1, <1>5 DEF Progress, Kept
  <2>4. phase \in AfterAssess =>
            \A a \in Affected(p) : findings[r][a] # "absent"
    BY <1>5 DEF Progress
  <2>5. phase \in AfterDraft =>
            \A a \in Affected(p) : findings[r][a] = "gap" => tasks[r][a] # NoTask
    BY <1>5 DEF Progress
  <2>6. AfterDraft \subseteq AfterAssess
    BY DEF AfterDraft, AfterAssess
  <2> QED
    BY <1>1, <1>2, <1>5, <2>1, <2>2, <2>3, <2>4, <2>5, <2>6
    DEF Covered, Kept, Affected
<1>6. CASE r # run[p]
  <2>1. states'[r] = states[r]
    BY <1>2, <1>6, ProceedCheckpoints DEF TakesCheckpoint
  <2> QED BY <1>3, <2>1
<1>7. CASE r = run[p]
  <2>1. CASE states' = states
    BY <1>3, <2>1
  <2>2. CASE states' = [states EXCEPT ![run[p]] =
                            [phase |-> "queued", change_ids |-> {}]]
    BY <1>2, <1>4, <1>7, <2>2
  <2>3. ASSUME NEW phase \in RunPhase,
               states' = [states EXCEPT ![run[p]] =
                            [phase |-> phase, change_ids |-> ids[p]]]
        PROVE  states'[r] = [phase |-> phase, change_ids |-> ids[p]]
    BY <1>2, <1>7, <2>3
  <2> QED BY <1>5, <1>7, <2>1, <2>2, <2>3, ProceedCheckpoints DEF TakesCheckpoint
<1> QED BY <1>6, <1>7

-----------------------------------------------------------------------------
(* The theorems.                                                           *)

(* Change lists in checkpoints are stored lists, since an executor only    *)
(* checkpoints its own.                                                    *)
LEMMA ProceedListsStored ==
    ASSUME PipelineTypeOK, ListsStored, NEW p \in Executors, Progress(p),
           Proceed(p)
    PROVE  ListsStored'
<1> SUFFICES ASSUME NEW r \in Runs PROVE states'[r].change_ids \subseteq changes'
  BY DEF ListsStored
<1>1. changes \subseteq changes'
  BY NextKept DEF PipelineNext, Kept
<1>2. states[r].change_ids \subseteq changes /\ ids[p] \subseteq changes
  BY DEF ListsStored, Progress
<1>3. states \in [Runs -> RunState]
  BY DEF PipelineTypeOK, StoreTypeOK
<1>4. ASSUME NEW phase, NEW list \in {{}, ids[p]},
             states' = [states EXCEPT ![run[p]] =
                          [phase |-> phase, change_ids |-> list]]
      PROVE  states'[r].change_ids \subseteq changes'
  BY <1>1, <1>2, <1>3, <1>4
<1> QED BY <1>1, <1>2, <1>4, ProceedCheckpoints DEF TakesCheckpoint

(* The invariant holds initially, with empty tables.                       *)
LEMMA InitInv == PipelineInit => PipelineInv /\ CheckpointIsCovered
<1> SUFFICES ASSUME PipelineInit PROVE PipelineInv /\ CheckpointIsCovered
  OBVIOUS
<1>1. PipelineTypeOK
  BY InitTypeOK
<1>2. ListsStored /\ CheckpointIsCovered
  BY DEF PipelineInit, StoreInit, NoState, ListsStored, CheckpointIsCovered,
         Covered, AfterExtract, AfterAssess, AfterDraft
<1>3. ExecutorProgress
  BY DEF PipelineInit, ExecutorProgress, Progress, Affected, Extracting, Assessing
<1>4. ChainOfEvidence
  BY DEF PipelineInit, StoreInit, NoTask, ChainOfEvidence, Evidenced
<1> QED BY <1>1, <1>2, <1>3, <1>4 DEF PipelineInv

(* Only Proceed writes the tables.                                         *)
LEMMA NextCases ==
    ASSUME [PipelineNext]_pipelineVars
    PROVE  (\E p \in Executors : Proceed(p)) \/ UNCHANGED dbVars
BY DEF PipelineNext, Start, Raise, Abort, Crash, pipelineVars

(* The invariant is inductive.                                             *)
LEMMA NextInv ==
    ASSUME PipelineInv, [PipelineNext]_pipelineVars
    PROVE  PipelineInv'
<1>1. PipelineTypeOK'
  BY NextTypeOK DEF PipelineInv
<1>2. ExecutorProgress'
  BY NextProgress DEF PipelineInv
<1>3. CASE UNCHANGED dbVars
  BY <1>1, <1>2, <1>3
  DEF PipelineInv, ListsStored, ChainOfEvidence, Evidenced, dbVars
<1>4. ASSUME NEW p \in Executors, Proceed(p)
      PROVE  PipelineInv'
  BY <1>1, <1>2, <1>4, ProceedListsStored, ProceedEvidence
  DEF PipelineInv, ExecutorProgress
<1> QED BY <1>3, <1>4, NextCases

(* Traceability: whatever executors, failures and crashes do, each task    *)
(* stands on a gap, each finding on an applicability result, each of those *)
(* on an obligation, and that on the row of a substantive change.          *)
THEOREM Traceability == PipelineSpec => []ChainOfEvidence
<1>1. PipelineInv => ChainOfEvidence
  BY DEF PipelineInv
<1> QED BY <1>1, InitInv, NextInv, PTL DEF PipelineSpec

(* What executors rely on between their steps holds.                       *)
THEOREM ProgressIsSound == PipelineSpec => []ExecutorProgress
<1>1. PipelineInv => ExecutorProgress
  BY DEF PipelineInv
<1> QED BY <1>1, InitInv, NextInv, PTL DEF PipelineSpec

(* A checkpoint never claims more than the tables hold.                    *)
THEOREM CheckpointsAreSound == PipelineSpec => []CheckpointIsCovered
<1>1. ASSUME PipelineInv, CheckpointIsCovered, [PipelineNext]_pipelineVars
      PROVE  CheckpointIsCovered'
  <2>1. CASE UNCHANGED dbVars
    BY <1>1, <2>1 DEF CheckpointIsCovered, Covered, dbVars
  <2>2. ASSUME NEW p \in Executors, Proceed(p)
        PROVE  CheckpointIsCovered'
    BY <1>1, <2>2, ProceedCovered DEF PipelineInv, ExecutorProgress
  <2> QED BY <1>1, <2>1, <2>2, NextCases
<1> QED BY <1>1, InitInv, NextInv, PTL DEF PipelineSpec

-----------------------------------------------------------------------------
(* One executor at a time on a run.  Nothing in the code sees to it, but   *)
(* as long as it is so, the phases of a run are those of its life cycle.   *)

OneAtATime ==
    \A p, q \in Executors : run[p] = run[q] /\ run[p] # NoRun => p = q

(* The phase of the checkpoint, by where the executor is.                  *)
PhaseAt == [compare |-> "ingesting", insert_change |-> "ingesting",
            compared |-> "ingesting", no_change |-> "comparing",
            mark_no_change |-> "no_change", extract |-> "comparing",
            retrieve |-> "extracting", list_findings |-> "retrieving",
            assess |-> "retrieving", record |-> "retrieving",
            verify |-> "assessing", list_tasks |-> "verifying",
            draft |-> "verifying", audit_draft |-> "verifying",
            finish |-> "drafting", audit_request |-> "awaiting_review",
            mark_completed |-> "completed",
            mark_failed |-> "failed"]

PlaceInv(p) ==
    LET r == run[p] IN
    /\ pc[p] = "insert_run" => runs[r] = "absent"
    /\ pc[p] = "save_queued" => runs[r] = "queued" /\ states[r].phase = "absent"
    /\ pc[p] = "begin" => runs[r] \notin {"absent", "awaiting_review", "completed"}
    /\ pc[p] = "ingest" =>
            states[r].phase \notin Terminal \cup {"absent", "awaiting_review"}
    /\ pc[p] \in DOMAIN PhaseAt => states[r].phase = PhaseAt[pc[p]]
    /\ pc[p] = "save_failed" => states[r].phase # "absent"
    /\ pc[p] \in {"draft", "audit_draft", "finish"} =>
            \A a \in Articles : drafts[p][a] = tasks[r][a].review_status

RunInv(r) ==
    /\ states[r].phase # "absent" => runs[r] = states[r].phase
    /\ runs[r] = "absent" => states[r].phase = "absent"
    /\ \A a \in Articles : tasks[r][a] \in {NoTask, FreshTask}
    /\ states[r].phase = "completed" => TaskRows(r) = {}

LifecycleInv ==
    /\ \A p \in Executors : PlaceInv(p)
    /\ \A r \in Runs : RunInv(r)

(* An executor writes only the rows of its own run, and its own lists.     *)
LEMMA ProceedOwnRun ==
    ASSUME PipelineTypeOK, NEW p \in Executors, Proceed(p)
    PROVE  /\ \A r \in Runs : r # run[p] =>
                runs'[r] = runs[r] /\ states'[r] = states[r] /\ tasks'[r] = tasks[r]
           /\ \A q \in Executors : q # p => drafts'[q] = drafts[q]
<1> USE DEF PipelineTypeOK, StoreTypeOK, ExecTypeOK
<1> DEFINE Own == /\ \A r \in Runs : r # run[p] => /\ runs'[r] = runs[r]
                                                   /\ states'[r] = states[r]
                                                   /\ tasks'[r] = tasks[r]
                  /\ \A q \in Executors : q # p => drafts'[q] = drafts[q]
<1>1. CASE \/ CompareFindsRows(p, "pre_compare", "create")
           \/ CompareFindsNone(p, "pre_compare", "pre_insert")
           \/ \E a \in Articles : InsertNextChange(p, a, "pre_insert", "create")
           \/ CompareFindsRows(p, "compare", "compared")
           \/ CompareFindsNone(p, "compare", "insert_change")
           \/ \E a \in Articles : InsertNextChange(p, a, "insert_change", "compared")
  BY <1>1 DEF CompareFindsRows, CompareFindsNone, InsertNextChange, dbVars
<1>2. CASE CreateFindsRun(p) \/ CreateFindsNone(p) \/ Begin(p)
  BY <1>2 DEF CreateFindsRun, CreateFindsNone, Begin, dbVars, Return
<1>3. CASE CreateInserts(p) \/ CreateSavesState(p)
  BY <1>3 DEF CreateInserts, CreateSavesState, InsertRun, SaveRunState, Return
<1>4. CASE Ingest(p) \/ Compared(p) \/ NoChange(p) \/ Extracted(p)
  BY <1>4 DEF Ingest, Compared, NoChange, Extracted, Checkpoint, SaveRunState
<1>5. CASE Retrieve(p) \/ Assessed(p) \/ Verify(p) \/ Drafted(p) \/ SaveFailed(p)
  BY <1>5 DEF Retrieve, Assessed, Verify, Drafted, SaveFailed, Checkpoint, SaveRunState
<1>6. CASE RequestReview(p) \/ AuditRequest(p)
  BY <1>6 DEF RequestReview, AuditRequest, Checkpoint, SaveRunState, Return, dbVars
<1>7. CASE ListFindings(p) \/ ListTasks(p)
  BY <1>7 DEF ListFindings, ListTasks, dbVars
<1>8. CASE \/ \E a \in Articles : Extract(p, a)
           \/ \E a \in Articles : AssessApplicability(p, a)
           \/ \E a \in Articles, v \in AssessmentStatus : AnalyzeGap(p, a, v)
           \/ \E a \in Articles : AuditDraft(p, a)
  BY <1>8 DEF Extract, AssessApplicability, AnalyzeGap, AuditDraft
<1>9. CASE \E a \in Articles : GenerateTask(p, a)
  BY <1>9 DEF GenerateTask, InsertTask
<1>10. CASE \/ Mark(p, "mark_no_change", "no_change")
            \/ Mark(p, "mark_completed", "completed")
            \/ Mark(p, "mark_failed", "failed")
  BY <1>10 DEF Mark, UpdateRunPhase, Return
<1> QED BY <1>1, <1>2, <1>3, <1>4, <1>5, <1>6, <1>7, <1>8, <1>9, <1>10 DEF Proceed

(* A step of the life cycle, or none.                                      *)
PhaseStep == Lifecycle!LifecycleNext \/ UNCHANGED runs

(* A step that leaves phases and tasks alone.                              *)
LEMMA PhasesStay ==
    ASSUME NEW r \in Runs, RunInv(r), UNCHANGED <<runs, states, tasks>>
    PROVE  RunInv(r)' /\ PhaseStep
BY DEF PhaseStep, RunInv, TaskRows

(* A checkpoint under a phase the life cycle has next.                     *)
LEMMA PhaseSaved ==
    ASSUME PipelineTypeOK, NEW r \in Runs, RunInv(r), NEW phase \in RunPhase, NEW list,
           SaveRunState(r, phase, list), UNCHANGED tasks,
           \/ runs[r] = phase
           \/ runs[r] \in DOMAIN Lifecycle!Following /\ phase = Lifecycle!Following[runs[r]]
           \/ runs[r] = "comparing" /\ phase = "no_change"
           \/ runs[r] = "drafting" /\ phase \in {"awaiting_review", "completed"}
           \/ phase = "failed" /\ runs[r] # "absent"
           \/ phase = "ingesting"
              /\ runs[r] \notin {"absent", "awaiting_review", "completed", "no_change"},
           phase = "completed" => TaskRows(r) = {}
    PROVE  /\ RunInv(r)' /\ PhaseStep
           /\ states'[r].phase = phase /\ runs'[r] = phase
<1>1. /\ states' = [states EXCEPT ![r] = [phase |-> phase, change_ids |-> list]]
      /\ runs' = [runs EXCEPT ![r] = phase]
  BY DEF SaveRunState
<1>2. states'[r].phase = phase /\ runs'[r] = phase /\ phase # "absent"
  BY <1>1 DEF PipelineTypeOK, StoreTypeOK, RunPhase, Terminal
<1>3. RunInv(r)'
  BY <1>2 DEF RunInv, TaskRows
<1>4. CASE runs[r] = phase
  BY <1>1, <1>2, <1>3, <1>4 DEF PhaseStep, PipelineTypeOK, StoreTypeOK
<1>5. CASE runs[r] # phase
  <2>1. \/ Lifecycle!Advance(r) \/ Lifecycle!ComeToRest(r)
        \/ Lifecycle!FailRun(r) \/ Lifecycle!Resume(r)
    BY <1>1, <1>5 DEF Lifecycle!Advance, Lifecycle!ComeToRest, Lifecycle!FailRun,
                      Lifecycle!Resume, Lifecycle!Enter
  <2>2. Lifecycle!LifecycleNext
    BY <2>1 DEF Lifecycle!LifecycleNext
  <2> QED BY <1>2, <1>3, <2>2 DEF PhaseStep
<1> QED BY <1>2, <1>3, <1>4, <1>5

(* An executor that returns has nothing to keep.                           *)
LEMMA PlaceLeft ==
    ASSUME PipelineTypeOK, NEW p \in Executors, Return(p)
    PROVE  PlaceInv(p)'
<1>1. pc'[p] = "idle"
  BY DEF PipelineTypeOK, ExecTypeOK, Return
<1> QED BY <1>1 DEF PlaceInv, PhaseAt

(* A place that goes with a phase.                                         *)
LEMMA PlaceReached ==
    ASSUME PipelineTypeOK, NEW p \in Executors, NEW l \in DOMAIN PhaseAt, Goto(p, l),
           UNCHANGED run, states'[run[p]].phase = PhaseAt[l],
           l \in {"draft", "audit_draft", "finish"} =>
             \A a \in Articles : drafts'[p][a] = tasks'[run[p]][a].review_status
    PROVE  PlaceInv(p)'
<1>1. pc'[p] = l /\ run'[p] = run[p]
  BY DEF PipelineTypeOK, ExecTypeOK, Goto
<1> QED BY <1>1 DEF PlaceInv, PhaseAt

(* The steps of an executor follow the life cycle of its run.              *)
LEMMA ProceedLifecycle ==
    ASSUME PipelineTypeOK, NEW p \in Executors, NEW r \in Runs, r = run[p],
           PlaceInv(p), RunInv(r), Proceed(p)
    PROVE  PlaceInv(p)' /\ RunInv(r)' /\ PhaseStep
<1>1. /\ pc \in [Executors -> Active \cup {"idle"}]
      /\ run \in [Executors -> Runs \cup {NoRun}]
      /\ drafts \in [Executors -> [Articles -> ReviewStatus \cup {"absent"}]]
      /\ tasks \in [Runs -> [Articles -> TaskDraft]]
      /\ runs \in [Runs -> RunPhase \cup {"absent"}]
  BY DEF PipelineTypeOK, StoreTypeOK, ExecTypeOK
<1>2. ASSUME NEW at \in {"pre_compare", "compare"}, NEW l \in {"create", "compared"},
             at = "compare" => l = "compared",
             at = "pre_compare" => l = "create",
             CompareFindsRows(p, at, l)
      PROVE  PlaceInv(p)' /\ RunInv(r)' /\ PhaseStep
  <2>1. UNCHANGED <<runs, states, tasks, run>> /\ pc'[p] = l /\ pc[p] = at
    BY <1>1, <1>2 DEF CompareFindsRows, dbVars, Goto
  <2> QED BY <1>2, <2>1, PhasesStay DEF PlaceInv, PhaseAt
<1>3. ASSUME NEW at \in {"pre_compare", "compare"}, NEW l \in {"pre_insert", "insert_change"},
             at = "compare" => l = "insert_change",
             at = "pre_compare" => l = "pre_insert",
             CompareFindsNone(p, at, l)
      PROVE  PlaceInv(p)' /\ RunInv(r)' /\ PhaseStep
  <2>1. UNCHANGED <<runs, states, tasks, run>> /\ pc'[p] = l /\ pc[p] = at
    BY <1>1, <1>3 DEF CompareFindsNone, dbVars, Goto
  <2> QED BY <1>3, <2>1, PhasesStay DEF PlaceInv, PhaseAt
<1>4. ASSUME NEW at \in {"pre_insert", "insert_change"}, NEW l \in {"create", "compared"},
             at = "insert_change" => l = "compared",
             at = "pre_insert" => l = "create",
             NEW a \in Articles, InsertNextChange(p, a, at, l)
      PROVE  PlaceInv(p)' /\ RunInv(r)' /\ PhaseStep
  <2>1. UNCHANGED <<runs, states, tasks, run>> /\ pc'[p] \in {at, l} /\ pc[p] = at
    BY <1>1, <1>4 DEF InsertNextChange, Goto
  <2> QED BY <1>4, <2>1, PhasesStay DEF PlaceInv, PhaseAt
<1>5. CASE CreateFindsRun(p) \/ CreateFindsNone(p) \/ Begin(p)
  <2>1. UNCHANGED <<runs, states, tasks>>
    BY <1>5 DEF CreateFindsRun, CreateFindsNone, Begin, dbVars
  <2>2. CASE Return(p)
    BY <2>1, <2>2, PlaceLeft, PhasesStay
  <2>3. CASE ~Return(p)
    <3>1. CASE CreateFindsRun(p)
      <4>1. pc'[p] = "begin" /\ UNCHANGED run
            /\ runs[r] \notin {"absent", "awaiting_review", "completed"}
        BY <1>1, <2>3, <3>1 DEF CreateFindsRun, Goto
      <4> QED BY <2>1, <4>1, PhasesStay DEF PlaceInv, PhaseAt
    <3>2. CASE CreateFindsNone(p)
      <4>1. pc'[p] = "insert_run" /\ UNCHANGED run /\ runs[r] = "absent"
        BY <1>1, <3>2 DEF CreateFindsNone, Goto
      <4> QED BY <2>1, <4>1, PhasesStay DEF PlaceInv, PhaseAt
    <3>3. CASE Begin(p)
      <4>1. pc'[p] = "ingest" /\ UNCHANGED run /\ pc[p] = "begin"
            /\ states[r].phase \notin Terminal \cup {"absent"}
        BY <1>1, <2>3, <3>3 DEF Begin, Goto
      <4>2. states[r].phase # "awaiting_review"
        BY <4>1 DEF PlaceInv, RunInv, Terminal
      <4> QED BY <2>1, <4>1, <4>2, PhasesStay DEF PlaceInv, PhaseAt
    <3> QED BY <1>5, <3>1, <3>2, <3>3
  <2> QED BY <2>2, <2>3
<1>6. CASE CreateInserts(p)
  <2>1. CASE runs[r] = "absent"
    <3>1. /\ runs' = [runs EXCEPT ![r] = "queued"] /\ pc'[p] = "save_queued"
          /\ UNCHANGED <<run, states, tasks>>
      BY <1>1, <1>6, <2>1 DEF CreateInserts, InsertRun, Goto
    <3>2. states[r].phase = "absent" /\ runs'[r] = "queued"
      BY <1>1, <2>1, <3>1 DEF RunInv
    <3>3. Lifecycle!Advance(r)
      BY <2>1, <3>1 DEF Lifecycle!Advance, Lifecycle!Enter, Lifecycle!Following
    <3>4. PhaseStep
      BY <3>3 DEF PhaseStep, Lifecycle!LifecycleNext
    <3>5. RunInv(r)'
      BY <3>1, <3>2 DEF RunInv
    <3>6. PlaceInv(p)'
      BY <3>1, <3>2 DEF PlaceInv, PhaseAt
    <3> QED BY <3>4, <3>5, <3>6
  <2>2. CASE runs[r] # "absent"
    <3>1. Return(p) /\ UNCHANGED <<runs, states, tasks>>
      BY <1>6, <2>2 DEF CreateInserts
    <3> QED BY <3>1, PlaceLeft, PhasesStay
  <2> QED BY <2>1, <2>2
<1>7. CASE CreateSavesState(p)
  <2>1. /\ SaveRunState(r, "queued", {}) /\ pc'[p] = "begin" /\ pc[p] = "save_queued"
        /\ UNCHANGED <<run, tasks>>
    BY <1>1, <1>7 DEF CreateSavesState, Goto
  <2>2. runs[r] = "queued" /\ "queued" \in RunPhase
    BY <2>1 DEF PlaceInv, RunPhase
  <2>3. RunInv(r)' /\ PhaseStep /\ runs'[r] = "queued"
    BY <2>1, <2>2, PhaseSaved
  <2> QED BY <2>1, <2>3 DEF PlaceInv, PhaseAt
<1>8. ASSUME NEW l \in DOMAIN PhaseAt, NEW phase \in RunPhase,
             Checkpoint(p, phase), Goto(p, l), UNCHANGED <<run, drafts>>,
             phase = PhaseAt[l], l \notin {"draft", "audit_draft"},
             l = "finish" =>
               \A a \in Articles : drafts[p][a] = tasks[r][a].review_status,
             \/ runs[r] = phase
             \/ runs[r] \in DOMAIN Lifecycle!Following /\ phase = Lifecycle!Following[runs[r]]
             \/ runs[r] = "comparing" /\ phase = "no_change"
             \/ phase = "failed" /\ runs[r] # "absent"
             \/ phase = "ingesting"
                /\ runs[r] \notin {"absent", "awaiting_review", "completed", "no_change"},
             phase # "completed"
      PROVE  PlaceInv(p)' /\ RunInv(r)' /\ PhaseStep
  <2>1. SaveRunState(r, phase, ids[p]) /\ UNCHANGED tasks
    BY <1>8 DEF Checkpoint
  <2>2. RunInv(r)' /\ PhaseStep /\ states'[r].phase = phase
    BY <1>8, <2>1, PhaseSaved
  <2> QED BY <1>8, <2>1, <2>2, PlaceReached
<1>9. states[r].phase # "absent" => runs[r] = states[r].phase
  BY DEF RunInv
<1>10. CASE Ingest(p)
  <2>1. runs[r] \notin {"absent", "awaiting_review", "completed", "no_change"}
    BY <1>9, <1>10 DEF Ingest, PlaceInv, Terminal
  <2> QED BY <1>8, <1>10, <2>1 DEF Ingest, PhaseAt, RunPhase
<1>11. CASE Compared(p)
  <2>1. runs[r] = "ingesting"
    BY <1>9, <1>11 DEF Compared, PlaceInv, PhaseAt
  <2>2. runs[r] \in DOMAIN Lifecycle!Following /\ "comparing" = Lifecycle!Following[runs[r]]
    BY <2>1 DEF Lifecycle!Following
  <2>3. PICK l \in {"no_change", "extract"} : Goto(p, l)
    BY <1>11 DEF Compared
  <2> QED BY <1>8, <1>11, <2>2, <2>3 DEF Compared, PhaseAt, RunPhase
<1>12. CASE NoChange(p)
  <2>1. runs[r] = "comparing"
    BY <1>9, <1>12 DEF NoChange, PlaceInv, PhaseAt
  <2> QED BY <1>8, <1>12, <2>1 DEF NoChange, PhaseAt, RunPhase, Terminal
<1>13. CASE Extracted(p) \/ Retrieve(p) \/ Assessed(p) \/ Verify(p)
  <2>1. /\ Extracted(p) => runs[r] = "comparing"
        /\ Retrieve(p) => runs[r] = "extracting"
        /\ Assessed(p) => runs[r] = "retrieving"
        /\ Verify(p) => runs[r] = "assessing"
    BY <1>9 DEF Extracted, Retrieve, Assessed, Verify, PlaceInv, PhaseAt
  <2>2. CASE Extracted(p)
    BY <1>8, <2>1, <2>2 DEF Extracted, PhaseAt, RunPhase, Lifecycle!Following
  <2>3. CASE Retrieve(p)
    BY <1>8, <2>1, <2>3 DEF Retrieve, PhaseAt, RunPhase, Lifecycle!Following
  <2>4. CASE Assessed(p)
    BY <1>8, <2>1, <2>4 DEF Assessed, PhaseAt, RunPhase, Lifecycle!Following
  <2>5. CASE Verify(p)
    BY <1>8, <2>1, <2>5 DEF Verify, PhaseAt, RunPhase, Lifecycle!Following
  <2> QED BY <1>13, <2>2, <2>3, <2>4, <2>5
<1>14. CASE Drafted(p)
  <2>1. /\ runs[r] = "verifying"
        /\ \A a \in Articles : drafts[p][a] = tasks[r][a].review_status
    BY <1>9, <1>14 DEF Drafted, PlaceInv, PhaseAt
  <2> QED BY <1>8, <1>14, <2>1 DEF Drafted, PhaseAt, RunPhase, Lifecycle!Following
<1>15. CASE SaveFailed(p)
  <2>1. runs[r] # "absent"
    BY <1>9, <1>15 DEF SaveFailed, PlaceInv, RunInv
  <2> QED BY <1>8, <1>15, <2>1 DEF SaveFailed, PhaseAt, RunPhase
<1>16. CASE RequestReview(p)
  <2>1. /\ pc[p] = "finish" /\ runs[r] = "drafting"
        /\ \A a \in Articles : drafts[p][a] = tasks[r][a].review_status
    BY <1>9, <1>16 DEF RequestReview, PlaceInv, PhaseAt
  <2>2. PICK phase \in {"awaiting_review", "completed"} : phase = FinalPhase(p)
    BY DEF FinalPhase
  <2>3. phase = "completed" => TaskRows(r) = {}
    BY <2>1, <2>2 DEF FinalPhase, RunInv, TaskRows, FreshTask, NoTask
  <2>4. SaveRunState(r, phase, ids[p]) /\ UNCHANGED tasks /\ phase \in RunPhase
    BY <1>16, <2>2 DEF RequestReview, Checkpoint, RunPhase, Terminal
  <2>5. RunInv(r)' /\ PhaseStep /\ states'[r].phase = phase
    BY <2>1, <2>3, <2>4, PhaseSaved
  <2>6. CASE phase = "completed"
    <3>1. Goto(p, "mark_completed") /\ UNCHANGED run
      BY <1>16, <2>2, <2>6 DEF RequestReview
    <3>2. PlaceInv(p)'
      BY <2>5, <2>6, <3>1, PlaceReached DEF PhaseAt
    <3> QED BY <2>5, <3>2
  <2>7. CASE phase = "awaiting_review"
    <3>1. Goto(p, "audit_request") /\ UNCHANGED run
      BY <1>16, <2>2, <2>7 DEF RequestReview
    <3>2. PlaceInv(p)'
      BY <2>5, <2>7, <3>1, PlaceReached DEF PhaseAt
    <3> QED BY <2>5, <3>2
  <2> QED BY <2>6, <2>7
<1>17. ASSUME NEW at \in DOMAIN PhaseAt, NEW phase \in RunPhase, phase = PhaseAt[at],
              Mark(p, at, phase)
       PROVE  PlaceInv(p)' /\ RunInv(r)' /\ PhaseStep
  <2>1. /\ states[r].phase = phase /\ runs' = [runs EXCEPT ![r] = phase]
        /\ UNCHANGED <<states, tasks>> /\ Return(p)
    BY <1>17 DEF Mark, UpdateRunPhase, PlaceInv
  <2>2. phase # "absent"
    BY DEF RunPhase, Terminal
  <2>3. runs' = runs
    BY <1>1, <1>9, <2>1, <2>2
  <2> QED BY <2>1, <2>3, PlaceLeft, PhasesStay
<1>18. CASE \/ Mark(p, "mark_no_change", "no_change")
            \/ Mark(p, "mark_completed", "completed")
            \/ Mark(p, "mark_failed", "failed")
  BY <1>17, <1>18 DEF PhaseAt, RunPhase, Terminal
<1>19. CASE \/ \E a \in Articles : Extract(p, a)
            \/ \E a \in Articles : AssessApplicability(p, a)
            \/ \E a \in Articles, v \in AssessmentStatus : AnalyzeGap(p, a, v)
            \/ ListFindings(p)
  <2>1. UNCHANGED <<runs, states, tasks, run>>
    BY <1>19 DEF Extract, AssessApplicability, AnalyzeGap, ListFindings, dbVars
  <2>2. \/ pc[p] = "extract" /\ pc'[p] = "extract"
        \/ pc[p] \in {"list_findings", "assess", "record"} /\ pc'[p] \in {"assess", "record"}
    BY <1>1, <1>19 DEF Extract, AssessApplicability, AnalyzeGap, ListFindings, Goto
  <2> QED BY <2>1, <2>2, PhasesStay DEF PlaceInv, PhaseAt
<1>20. CASE ListTasks(p)
  <2>1. /\ UNCHANGED <<runs, states, tasks, run>> /\ pc[p] = "list_tasks"
        /\ Goto(p, "draft")
        /\ \A a \in Articles : drafts'[p][a] = tasks[r][a].review_status
    BY <1>1, <1>20 DEF ListTasks, dbVars
  <2>2. states[r].phase = "verifying"
    BY <2>1 DEF PlaceInv, PhaseAt
  <2>3. PlaceInv(p)'
    BY <2>1, <2>2, PlaceReached DEF PhaseAt
  <2> QED BY <2>1, <2>3, PhasesStay
<1>21. CASE \E a \in Articles : AuditDraft(p, a)
  <2>1. /\ UNCHANGED <<runs, states, tasks, run, drafts>> /\ pc[p] = "audit_draft"
        /\ Goto(p, "draft")
    BY <1>21 DEF AuditDraft
  <2>2. states[r].phase = "verifying"
        /\ \A a \in Articles : drafts[p][a] = tasks[r][a].review_status
    BY <2>1 DEF PlaceInv, PhaseAt
  <2>3. PlaceInv(p)'
    BY <2>1, <2>2, PlaceReached DEF PhaseAt
  <2> QED BY <2>1, <2>3, PhasesStay
<1>22. CASE \E a \in Articles : GenerateTask(p, a)
  <2>1. PICK a \in Articles : GenerateTask(p, a)
    BY <1>22
  <2>2. /\ UNCHANGED <<runs, states, run>> /\ pc[p] = "draft"
        /\ Goto(p, "audit_draft")
        /\ tasks' = [tasks EXCEPT ![r][a] = IF @ = NoTask THEN FreshTask ELSE @]
        /\ drafts' = [drafts EXCEPT ![p][a] = tasks'[r][a].review_status]
    BY <2>1 DEF GenerateTask, InsertTask
  <2>3. states[r].phase = "verifying"
        /\ \A b \in Articles : drafts[p][b] = tasks[r][b].review_status
    BY <2>2 DEF PlaceInv, PhaseAt
  <2>4. /\ \A b \in Articles : b # a => tasks'[r][b] = tasks[r][b]
        /\ tasks'[r][a] \in {FreshTask, tasks[r][a]}
    BY <1>1, <2>2
  <2>5. \A b \in Articles : drafts'[p][b] = tasks'[r][b].review_status
    BY <1>1, <2>2, <2>3, <2>4
  <2>6. PlaceInv(p)'
    BY <2>2, <2>3, <2>5, PlaceReached DEF PhaseAt
  <2>7. RunInv(r)'
    BY <2>2, <2>3, <2>4 DEF RunInv
  <2>8. PhaseStep
    BY <2>2 DEF PhaseStep
  <2> QED BY <2>6, <2>7, <2>8
<1>24. CASE AuditRequest(p)
  BY <1>24, PlaceLeft, PhasesStay DEF AuditRequest, dbVars
<1>23. CASE \/ CompareFindsRows(p, "pre_compare", "create")
            \/ CompareFindsNone(p, "pre_compare", "pre_insert")
            \/ \E a \in Articles : InsertNextChange(p, a, "pre_insert", "create")
            \/ CompareFindsRows(p, "compare", "compared")
            \/ CompareFindsNone(p, "compare", "insert_change")
            \/ \E a \in Articles : InsertNextChange(p, a, "insert_change", "compared")
  BY <1>2, <1>3, <1>4, <1>23
<1> QED
  BY <1>5, <1>6, <1>7, <1>10, <1>11, <1>12, <1>13, <1>14, <1>15, <1>16, <1>18,
     <1>19, <1>20, <1>21, <1>22, <1>23, <1>24 DEF Proceed

(* The other executors are on other runs, so none of them is disturbed.    *)
LEMMA NextLifecycle ==
    ASSUME PipelineTypeOK, OneAtATime, LifecycleInv, [PipelineNext]_pipelineVars
    PROVE  LifecycleInv' /\ PhaseStep
<1>1. /\ pc \in [Executors -> Active \cup {"idle"}]
      /\ run \in [Executors -> Runs \cup {NoRun}]
      /\ \A p \in Executors : pc[p] # "idle" => run[p] \in Runs
  BY DEF PipelineTypeOK, ExecTypeOK
<1>2. CASE UNCHANGED pipelineVars
  <2>1. UNCHANGED <<runs, states, tasks, pc, run, drafts>>
    BY <1>2 DEF pipelineVars, dbVars, execVars
  <2>2. \A p \in Executors : PlaceInv(p)'
    BY <2>1 DEF LifecycleInv, PlaceInv
  <2>3. \A r \in Runs : RunInv(r)'
    BY <2>1 DEF LifecycleInv, RunInv, TaskRows
  <2> QED BY <2>1, <2>2, <2>3 DEF LifecycleInv, PhaseStep
<1>3. ASSUME NEW p \in Executors, Proceed(p)
      PROVE  LifecycleInv' /\ PhaseStep
  <2>1. pc[p] # "idle" /\ run[p] \in Runs
    <3>1. pc[p] # "idle"
      BY <1>3
      DEF Proceed, CompareFindsRows, CompareFindsNone, InsertNextChange,
          CreateFindsRun, CreateFindsNone, CreateInserts, CreateSavesState, Begin,
          Ingest, Compared, NoChange, Mark, Extract, Extracted, Retrieve,
          ListFindings, AssessApplicability, AnalyzeGap, Assessed, Verify,
          ListTasks, GenerateTask, AuditDraft, Drafted, RequestReview, AuditRequest,
          SaveFailed
    <3> QED BY <1>1, <3>1
  <2>2. PICK r \in Runs : r = run[p]
    BY <2>1
  <2>3. PlaceInv(p)' /\ RunInv(r)' /\ PhaseStep
    BY <1>3, <2>2, ProceedLifecycle DEF LifecycleInv
  <2>4. \A s \in Runs : s # r =>
          runs'[s] = runs[s] /\ states'[s] = states[s] /\ tasks'[s] = tasks[s]
    BY <1>3, <2>2, ProceedOwnRun
  <2>5. \A s \in Runs : RunInv(s)'
    BY <2>3, <2>4 DEF LifecycleInv, RunInv, TaskRows
  <2>6. ASSUME NEW q \in Executors, q # p PROVE PlaceInv(q)'
    <3>1. PlaceInv(q) /\ pc'[q] = pc[q] /\ run'[q] = run[q] /\ drafts'[q] = drafts[q]
      BY <1>3, <2>6, ProceedElsewhere, ProceedOwnRun DEF Elsewhere, LifecycleInv
    <3>2. CASE pc[q] = "idle"
      BY <3>1, <3>2 DEF PlaceInv, PhaseAt
    <3>3. CASE pc[q] # "idle"
      <4>1. run[q] \in Runs /\ run[q] # r
        BY <1>1, <2>2, <2>6, <3>3, NoRunAssumption DEF OneAtATime
      <4>2. runs'[run[q]] = runs[run[q]] /\ states'[run[q]] = states[run[q]]
            /\ tasks'[run[q]] = tasks[run[q]]
        BY <2>4, <4>1
      <4> QED BY <3>1, <4>2 DEF PlaceInv
    <3> QED BY <3>2, <3>3
  <2> QED BY <2>3, <2>5, <2>6 DEF LifecycleInv
<1>4. CASE \/ \E p \in Executors, r \in Runs : Start(p, r)
           \/ \E p \in Executors : Raise(p) \/ Abort(p)
           \/ Crash
  <2>1. UNCHANGED <<runs, states, tasks>>
    BY <1>4 DEF Start, Raise, Abort, Crash, dbVars
  <2>2. \A r \in Runs : RunInv(r)'
    BY <2>1 DEF LifecycleInv, RunInv, TaskRows
  <2>3. ASSUME NEW q \in Executors, pc'[q] = pc[q], run'[q] = run[q],
               drafts'[q] = drafts[q]
        PROVE  PlaceInv(q)'
    BY <2>1, <2>3 DEF LifecycleInv, PlaceInv
  <2>4. ASSUME NEW q \in Executors, pc'[q] \in {"idle", "create", "pre_compare"}
        PROVE  PlaceInv(q)'
    BY <2>4 DEF PlaceInv, PhaseAt
  <2>5. ASSUME NEW p \in Executors, NEW r \in Runs, Start(p, r), NEW q \in Executors
        PROVE  PlaceInv(q)'
    <3>1. CASE q = p
      BY <1>1, <2>4, <2>5, <3>1 DEF Start, Goto
    <3>2. CASE q # p
      BY <1>1, <2>3, <2>5, <3>2 DEF Start, Goto
    <3> QED BY <3>1, <3>2
  <2>6. ASSUME NEW p \in Executors, Raise(p), NEW q \in Executors
        PROVE  PlaceInv(q)'
    <3>1. CASE q = p
      <4>1. pc[p] \in InTry /\ pc'[p] = "save_failed" /\ run'[p] = run[p]
        BY <1>1, <2>6 DEF Raise, Goto
      <4>2. states[run[p]].phase # "absent"
        BY <4>1 DEF LifecycleInv, PlaceInv, PhaseAt, InTry
      <4> QED BY <2>1, <3>1, <4>1, <4>2 DEF PlaceInv, PhaseAt
    <3>2. CASE q # p
      BY <1>1, <2>3, <2>6, <3>2 DEF Raise, Goto
    <3> QED BY <3>1, <3>2
  <2>7. ASSUME NEW p \in Executors, Abort(p), NEW q \in Executors
        PROVE  PlaceInv(q)'
    <3>1. CASE q = p
      BY <1>1, <2>4, <2>7, <3>1 DEF Abort, Return
    <3>2. CASE q # p
      <4>1. drafts'[q] = drafts[q]
        BY <2>7, <3>2 DEF Abort, Return, PipelineTypeOK, ExecTypeOK
      <4> QED BY <1>1, <2>3, <2>7, <3>2, <4>1 DEF Abort, Return
    <3> QED BY <3>1, <3>2
  <2>8. ASSUME Crash, NEW q \in Executors PROVE PlaceInv(q)'
    BY <2>4, <2>8 DEF Crash
  <2> QED BY <1>4, <2>1, <2>2, <2>5, <2>6, <2>7, <2>8 DEF LifecycleInv, PhaseStep
<1> QED BY <1>2, <1>3, <1>4 DEF PipelineNext

LEMMA InitLifecycle == PipelineInit => LifecycleInv /\ Lifecycle!LifecycleInit
BY DEF PipelineInit, StoreInit, LifecycleInv, PlaceInv, PhaseAt, RunInv, NoState,
       Lifecycle!LifecycleInit

(* As long as one executor at a time works on a run, its rows and the      *)
(* executors' places go with its phase.                                    *)
THEOREM LifecycleInvariant ==
    PipelineSpec /\ []OneAtATime => []LifecycleInv
<1>1. PipelineTypeOK /\ OneAtATime /\ LifecycleInv /\ [PipelineNext]_pipelineVars
        => LifecycleInv'
  BY NextLifecycle
<1> QED BY <1>1, InitLifecycle, TypeCorrect, PTL DEF PipelineSpec

(* Then the phase GET /runs shows and the phase of the checkpoint agree.   *)
THEOREM PhasesAgreeAlone ==
    PipelineSpec /\ []OneAtATime => []PhasesAgree
<1>1. LifecycleInv => PhasesAgree
  BY DEF LifecycleInv, RunInv, PhasesAgree
<1> QED BY <1>1, LifecycleInvariant, PTL

(* Then a run the pipeline completed has no task a human should have seen. *)
THEOREM CompletedAloneLeavesNoTask ==
    PipelineSpec /\ []OneAtATime => []CompletedWithoutTasks
<1>1. LifecycleInv => CompletedWithoutTasks
  BY DEF LifecycleInv, RunInv, CompletedWithoutTasks
<1> QED BY <1>1, LifecycleInvariant, PTL

(* Then every step is one of the life cycle's, or changes no phase: no     *)
(* failure, crash, restart or repeated request makes a run skip a phase or *)
(* go on anywhere but at its start, and a run that came to rest is taken   *)
(* up again only after a failure was recorded on it.                       *)
THEOREM PipelineImplementsLifecycle ==
    PipelineSpec /\ []OneAtATime => ImplementsLifecycle
<1>1. PipelineTypeOK /\ OneAtATime /\ LifecycleInv /\ [PipelineNext]_pipelineVars
        => [Lifecycle!LifecycleNext]_runs
  BY NextLifecycle DEF PhaseStep
<1> QED BY <1>1, InitLifecycle, LifecycleInvariant, TypeCorrect, PTL
        DEF PipelineSpec, ImplementsLifecycle, Lifecycle!LifecycleSpec

(* A service with one executor, which is what one client and the seed at   *)
(* start-up amount to, has one at a time on every run.                     *)
THEOREM OneExecutorFollowsLifecycle ==
    ASSUME \A p, q \in Executors : p = q
    PROVE  PipelineSpec => /\ []PhasesAgree /\ []CompletedWithoutTasks
                           /\ ImplementsLifecycle
<1>1. OneAtATime
  BY DEF OneAtATime
<1>2. []OneAtATime
  BY <1>1, PTL
<1> QED BY <1>2, PhasesAgreeAlone, CompletedAloneLeavesNoTask,
           PipelineImplementsLifecycle, PTL

-----------------------------------------------------------------------------
(* Why a request ends.                                                     *)

(* Where an executor is on its way; the two places of a loop's body share  *)
(* the loop's.                                                             *)
PlaceRank == [pre_compare |-> 0, pre_insert |-> 1, create |-> 2,
              insert_run |-> 3, save_queued |-> 4, begin |-> 5, ingest |-> 6,
              compare |-> 7, insert_change |-> 8, compared |-> 9,
              no_change |-> 10, mark_no_change |-> 11, extract |-> 12,
              retrieve |-> 13, list_findings |-> 14, assess |-> 15,
              record |-> 15, verify |-> 16, list_tasks |-> 17, draft |-> 18,
              audit_draft |-> 18, finish |-> 19, audit_request |-> 20,
              mark_completed |-> 20,
              save_failed |-> 21, mark_failed |-> 22]

(* A step takes an executor further on its way, or, where it loops, through*)
(* its list, or into the second half of the loop's body.                   *)
GoesOn(p) ==
    /\ run'[p] = run[p] /\ pc'[p] # "idle"
    /\ \/ PlaceRank[pc[p]] < PlaceRank[pc'[p]]
       \/ /\ PlaceRank[pc[p]] = PlaceRank[pc'[p]]
          /\ todo'[p] \subseteq todo[p] /\ todo'[p] # todo[p]
       \/ /\ \/ pc[p] = "assess" /\ pc'[p] = "record"
             \/ pc[p] = "draft" /\ pc'[p] = "audit_draft"
          /\ todo'[p] = todo[p]

Advances(p) == pc'[p] = "idle" \/ GoesOn(p)

Rests(p) == /\ pc'[p] = pc[p] /\ run'[p] = run[p]
            /\ ids'[p] = ids[p] /\ todo'[p] = todo[p]

(* Inside a loop's body there is an article in hand.                       *)
InLoop == {"pre_insert", "insert_change", "record", "audit_draft"}

LEMMA PlaceRanks ==
    /\ PlaceRank["pre_compare"] = 0 /\ PlaceRank["pre_insert"] = 1
    /\ PlaceRank["create"] = 2 /\ PlaceRank["insert_run"] = 3
    /\ PlaceRank["save_queued"] = 4 /\ PlaceRank["begin"] = 5
    /\ PlaceRank["ingest"] = 6 /\ PlaceRank["compare"] = 7
    /\ PlaceRank["insert_change"] = 8 /\ PlaceRank["compared"] = 9
    /\ PlaceRank["no_change"] = 10 /\ PlaceRank["mark_no_change"] = 11
    /\ PlaceRank["extract"] = 12 /\ PlaceRank["retrieve"] = 13
    /\ PlaceRank["list_findings"] = 14 /\ PlaceRank["assess"] = 15
    /\ PlaceRank["record"] = 15 /\ PlaceRank["verify"] = 16
    /\ PlaceRank["list_tasks"] = 17 /\ PlaceRank["draft"] = 18
    /\ PlaceRank["audit_draft"] = 18 /\ PlaceRank["finish"] = 19
    /\ PlaceRank["audit_request"] = 20
    /\ PlaceRank["mark_completed"] = 20 /\ PlaceRank["save_failed"] = 21
    /\ PlaceRank["mark_failed"] = 22
BY DEF PlaceRank

LoopInv(p) == pc[p] \in InLoop => \E a \in Articles : a \in todo[p]

(* The executor's own step, and what it finds in hand after it.            *)
MovesOn(p) == Advances(p) /\ LoopInv(p)'

(* A step to a later place, which no loop's body is.                       *)
LEMMA PlaceStep ==
    ASSUME NEW p \in Executors, run'[p] = run[p], pc'[p] # "idle",
           pc'[p] \notin InLoop, PlaceRank[pc[p]] < PlaceRank[pc'[p]]
    PROVE  MovesOn(p)
BY DEF MovesOn, Advances, GoesOn, LoopInv

LEMMA ReturnMovesOn ==
    ASSUME PipelineTypeOK, NEW p \in Executors, Return(p)
    PROVE  MovesOn(p)
<1>1. pc'[p] = "idle"
  BY DEF PipelineTypeOK, ExecTypeOK, Return
<1> QED BY <1>1 DEF MovesOn, Advances, LoopInv, InLoop

(* An article is ticked off: the loop ends, or goes on with the others.    *)
LEMMA TickStep ==
    ASSUME PipelineTypeOK, NEW p \in Executors, NEW a \in Articles, a \in todo[p],
           run'[p] = run[p], todo'[p] = todo[p] \ {a},
           pc'[p] # "idle",
           \/ PlaceRank[pc[p]] < PlaceRank[pc'[p]]
           \/ PlaceRank[pc[p]] = PlaceRank[pc'[p]],
           pc'[p] \in InLoop => todo[p] # {a}
    PROVE  MovesOn(p)
<1>1. GoesOn(p)
  BY DEF GoesOn
<1>2. todo[p] \in SUBSET Articles
  BY DEF PipelineTypeOK, ExecTypeOK
<1>3. LoopInv(p)'
  BY <1>2 DEF LoopInv
<1> QED BY <1>1, <1>3 DEF MovesOn, Advances

LEMMA ProceedMovesOn ==
    ASSUME PipelineTypeOK, NEW p \in Executors, Proceed(p)
    PROVE  MovesOn(p)
<1>1. /\ pc \in [Executors -> Active \cup {"idle"}]
      /\ todo \in [Executors -> SUBSET Articles]
  BY DEF PipelineTypeOK, ExecTypeOK
<1>2. CASE \/ CompareFindsRows(p, "pre_compare", "create")
           \/ CompareFindsRows(p, "compare", "compared")
  <2>1. /\ run' = run
        /\ \/ pc[p] = "pre_compare" /\ pc'[p] = "create"
           \/ pc[p] = "compare" /\ pc'[p] = "compared"
    BY <1>1, <1>2 DEF CompareFindsRows, Goto
  <2> QED BY <2>1, PlaceRanks, PlaceStep DEF InLoop
<1>3. CASE \/ CompareFindsNone(p, "pre_compare", "pre_insert")
           \/ CompareFindsNone(p, "compare", "insert_change")
  <2>1. /\ run' = run /\ todo'[p] = Articles /\ Articles # {}
        /\ \/ pc[p] = "pre_compare" /\ pc'[p] = "pre_insert"
           \/ pc[p] = "compare" /\ pc'[p] = "insert_change"
    BY <1>1, <1>3 DEF CompareFindsNone, Goto
  <2>2. GoesOn(p)
    BY <2>1, PlaceRanks DEF GoesOn
  <2> QED BY <2>1, <2>2 DEF MovesOn, Advances, LoopInv
<1>4. ASSUME NEW a \in Articles,
             \/ InsertNextChange(p, a, "pre_insert", "create")
             \/ InsertNextChange(p, a, "insert_change", "compared")
      PROVE  MovesOn(p)
  <2>1. /\ run' = run /\ a \in todo[p] /\ todo'[p] = todo[p] \ {a}
        /\ \/ pc'[p] = pc[p] /\ todo[p] # {a} /\ pc[p] \in {"pre_insert", "insert_change"}
           \/ pc[p] = "pre_insert" /\ pc'[p] = "create"
           \/ pc[p] = "insert_change" /\ pc'[p] = "compared"
    BY <1>1, <1>4 DEF InsertNextChange, IsFirst, Goto
  <2> QED BY <2>1, PlaceRanks, TickStep DEF InLoop
<1>5. CASE CreateFindsRun(p) \/ CreateInserts(p) \/ Begin(p) \/ RequestReview(p)
  <2>1. CASE Return(p)
    BY <2>1, ReturnMovesOn
  <2>2. CASE ~ Return(p)
    <3>1. /\ run' = run
          /\ \/ pc[p] = "create" /\ pc'[p] = "begin"
             \/ pc[p] = "insert_run" /\ pc'[p] = "save_queued"
             \/ pc[p] = "begin" /\ pc'[p] = "ingest"
             \/ pc[p] = "finish" /\ pc'[p] \in {"audit_request", "mark_completed"}
      BY <1>1, <1>5, <2>2 DEF CreateFindsRun, CreateInserts, Begin, RequestReview, Goto
    <3> QED BY <3>1, PlaceRanks, PlaceStep DEF InLoop
  <2> QED BY <2>1, <2>2
<1>6. CASE CreateFindsNone(p) \/ CreateSavesState(p) \/ Ingest(p) \/ Compared(p)
           \/ NoChange(p) \/ Extracted(p) \/ Retrieve(p)
  <2>1. /\ run' = run
        /\ \/ pc[p] = "create" /\ pc'[p] = "insert_run"
           \/ pc[p] = "save_queued" /\ pc'[p] = "begin"
           \/ pc[p] = "ingest" /\ pc'[p] = "compare"
           \/ pc[p] = "compared" /\ pc'[p] \in {"no_change", "extract"}
           \/ pc[p] = "no_change" /\ pc'[p] = "mark_no_change"
           \/ pc[p] = "extract" /\ pc'[p] = "retrieve"
           \/ pc[p] = "retrieve" /\ pc'[p] = "list_findings"
    BY <1>1, <1>6 DEF CreateFindsNone, CreateSavesState, Ingest, Compared, NoChange,
                      Extracted, Retrieve, Goto
  <2> QED BY <2>1, PlaceRanks, PlaceStep DEF InLoop
<1>7. CASE ListFindings(p) \/ Assessed(p) \/ Verify(p) \/ ListTasks(p) \/ Drafted(p)
           \/ SaveFailed(p)
  <2>1. /\ run' = run
        /\ \/ pc[p] = "list_findings" /\ pc'[p] = "assess"
           \/ pc[p] = "assess" /\ pc'[p] = "verify"
           \/ pc[p] = "verify" /\ pc'[p] = "list_tasks"
           \/ pc[p] = "list_tasks" /\ pc'[p] = "draft"
           \/ pc[p] = "draft" /\ pc'[p] = "finish"
           \/ pc[p] = "save_failed" /\ pc'[p] = "mark_failed"
    BY <1>1, <1>7 DEF ListFindings, Assessed, Verify, ListTasks, Drafted, SaveFailed, Goto
  <2> QED BY <2>1, PlaceRanks, PlaceStep DEF InLoop
<1>8. CASE \/ Mark(p, "mark_no_change", "no_change")
           \/ Mark(p, "mark_completed", "completed")
           \/ Mark(p, "mark_failed", "failed")
           \/ AuditRequest(p)
  BY <1>8, ReturnMovesOn DEF Mark, AuditRequest
<1>9. ASSUME NEW a \in Articles,
             \/ Extract(p, a)
             \/ \E v \in AssessmentStatus : AnalyzeGap(p, a, v)
             \/ AuditDraft(p, a)
      PROVE  MovesOn(p)
  <2>1. /\ run' = run /\ a \in todo[p] /\ todo'[p] = todo[p] \ {a}
        /\ \/ pc[p] = "extract" /\ pc'[p] = "extract"
           \/ pc[p] = "record" /\ pc'[p] = "assess"
           \/ pc[p] = "audit_draft" /\ pc'[p] = "draft"
    BY <1>1, <1>9 DEF Extract, AnalyzeGap, AuditDraft, IsFirst, Goto
  <2> QED BY <2>1, PlaceRanks, TickStep DEF InLoop
<1>10. ASSUME NEW a \in Articles, AssessApplicability(p, a) \/ GenerateTask(p, a)
       PROVE  MovesOn(p)
  <2>1. /\ run' = run /\ a \in todo[p] /\ todo' = todo
        /\ \/ pc[p] = "assess" /\ pc'[p] = "record"
           \/ pc[p] = "draft" /\ pc'[p] = "audit_draft"
    BY <1>1, <1>10 DEF AssessApplicability, GenerateTask, IsFirst, Goto
  <2>2. GoesOn(p)
    BY <2>1 DEF GoesOn
  <2> QED BY <2>1, <2>2 DEF MovesOn, Advances, LoopInv
<1> QED BY <1>2, <1>3, <1>4, <1>5, <1>6, <1>7, <1>8, <1>9, <1>10 DEF Proceed

LEMMA NextMovesOn ==
    ASSUME PipelineTypeOK, [PipelineNext]_pipelineVars
    PROVE  \A p \in Executors :
             /\ Rests(p) \/ pc[p] = "idle" \/ Advances(p)
             /\ LoopInv(p) => LoopInv(p)'
<1>1. ASSUME NEW p \in Executors, Rests(p)
      PROVE  LoopInv(p) => LoopInv(p)'
  BY <1>1 DEF Rests, LoopInv
<1>2. ASSUME NEW p \in Executors, Proceed(p),
             NEW q \in Executors
      PROVE  (Rests(q) \/ Advances(q)) /\ (LoopInv(q) => LoopInv(q)')
  <2>1. CASE q = p
    BY <1>2, <2>1, ProceedMovesOn DEF MovesOn
  <2>2. CASE q # p
    BY <1>1, <1>2, <2>2, ProceedElsewhere DEF Elsewhere, Rests
  <2> QED BY <2>1, <2>2
<1>3. ASSUME NEW p \in Executors, NEW r \in Runs, Start(p, r),
             NEW q \in Executors
      PROVE  (Rests(q) \/ pc[q] = "idle") /\ (LoopInv(q) => LoopInv(q)')
  <2>1. /\ pc[p] = "idle" /\ pc'[p] \notin InLoop
        /\ q # p => Rests(q)
    BY <1>3 DEF Start, Goto, PipelineTypeOK, ExecTypeOK, Rests, InLoop
  <2> QED BY <1>1, <2>1 DEF LoopInv
<1>4. ASSUME NEW p \in Executors, Raise(p) \/ Abort(p),
             NEW q \in Executors
      PROVE  (Rests(q) \/ Advances(q)) /\ (LoopInv(q) => LoopInv(q)')
  <2>1. CASE q # p
    <3>1. Rests(q)
      BY <1>4, <2>1 DEF Raise, Abort, Goto, Return, PipelineTypeOK, ExecTypeOK, Rests
    <3> QED BY <1>1, <3>1
  <2>2. CASE q = p /\ Abort(p)
    BY <2>2, ReturnMovesOn DEF Abort, MovesOn
  <2>3. CASE q = p /\ Raise(p)
    <3>1. pc[p] \in InTry /\ pc'[p] = "save_failed" /\ run' = run
      BY <2>3 DEF Raise, Goto, PipelineTypeOK, ExecTypeOK
    <3>2. PlaceRank[pc[p]] < PlaceRank[pc'[p]]
      BY <3>1, PlaceRanks DEF InTry
    <3> QED BY <2>3, <3>1, <3>2, PlaceStep DEF InLoop, MovesOn
  <2> QED BY <1>4, <2>1, <2>2, <2>3
<1>5. CASE Crash
  <2>1. \A p \in Executors : pc'[p] = "idle"
    BY <1>5 DEF Crash
  <2> QED BY <2>1 DEF Advances, LoopInv, InLoop
<1>6. CASE UNCHANGED pipelineVars
  <2>1. \A p \in Executors : Rests(p)
    BY <1>6 DEF pipelineVars, execVars, Rests
  <2> QED BY <1>1, <2>1
<1> QED BY <1>2, <1>3, <1>4, <1>5, <1>6 DEF PipelineNext

(* A request makes its way: whatever else runs, fails or dies, each step of*)
(* an executor ends the request, takes it to a later place, ticks an       *)
(* article off the list of its loop, or takes up the article it is then to *)
(* tick off.  With N articles that bounds what a request can do.           *)
THEOREM RequestsAdvance ==
    PipelineSpec =>
      [][\A p \in Executors : Rests(p) \/ pc[p] = "idle" \/ Advances(p)]_pipelineVars
<1>1. PipelineTypeOK /\ [PipelineNext]_pipelineVars =>
        [\A p \in Executors : Rests(p) \/ pc[p] = "idle" \/ Advances(p)]_pipelineVars
  BY NextMovesOn
<1> QED BY <1>1, TypeCorrect, PTL DEF PipelineSpec

(* Of a list of articles one is the first.                                 *)
LEMMA FirstExists ==
    ASSUME NEW S \in SUBSET Articles, S # {}
    PROVE  \E a \in S : IsFirst(a, S)
<1>1. S \subseteq Nat
  BY DEF Articles
<1>2. PICK a \in S : \A b \in S : <<b, a>> \notin OpToRel(<, Nat)
  BY <1>1, NatLessThanWellFounded, WFMin
<1>3. \A b \in S : a <= b
  <2> SUFFICES ASSUME NEW b \in S PROVE ~ (b < a)
    BY <1>1
  <2> QED BY <1>1, <1>2 DEF OpToRel
<1> QED BY <1>3 DEF IsFirst

(* An executor inside a loop's body has an article in hand, so that its    *)
(* next step is there to be taken: no list is found empty halfway.         *)
THEOREM LoopsHaveArticles ==
    PipelineSpec => [](\A p \in Executors :
                         pc[p] \in InLoop => \E a \in Articles : IsFirst(a, todo[p]))
<1> DEFINE Loops == \A p \in Executors : LoopInv(p)
<1>1. PipelineInit => Loops
  BY DEF PipelineInit, LoopInv, InLoop
<1>2. PipelineTypeOK /\ Loops /\ [PipelineNext]_pipelineVars => Loops'
  BY NextMovesOn
<1>3. PipelineTypeOK /\ Loops =>
        \A p \in Executors : pc[p] \in InLoop => \E a \in Articles : IsFirst(a, todo[p])
  <2> SUFFICES ASSUME PipelineTypeOK, Loops, NEW p \in Executors, pc[p] \in InLoop
               PROVE  \E a \in Articles : IsFirst(a, todo[p])
    OBVIOUS
  <2>1. todo[p] \in SUBSET Articles /\ todo[p] # {}
    BY DEF LoopInv, PipelineTypeOK, ExecTypeOK
  <2> QED BY <2>1, FirstExists DEF IsFirst
<1> HIDE DEF Loops
<1> QED BY <1>1, <1>2, <1>3, TypeCorrect, PTL DEF PipelineSpec
=============================================================================
