--------------------------- MODULE TaskReviewProofs ---------------------------
(***************************************************************************)
(* Proofs about TaskReview, for any number of tasks, reviewers, requests   *)
(* and revisions.                                                          *)
(***************************************************************************)
EXTENDS TaskReview, TLAPS

-----------------------------------------------------------------------------
(* Types.                                                                  *)

(* A request that is answered leaves the requests well typed.              *)
LEMMA AnswerTypeOK ==
    ASSUME RequestTypeOK, NEW q \in Requests, Answer(q), UNCHANGED reviews
    PROVE  RequestTypeOK'
BY DEF RequestTypeOK, Answer, RequestPc, NoState, RunState

(* A request that goes on keeps its review.                                *)
LEMMA ProceedsTypeOK ==
    ASSUME RequestTypeOK, NEW q \in Requests, at[q] # "idle",
           NEW l \in RequestPc, Proceeds(q, l), UNCHANGED reviews
    PROVE  RequestTypeOK'
BY DEF RequestTypeOK, Proceeds

(* No step of a request takes any variable out of its type.                *)
LEMMA StepTypeOK ==
    ASSUME ReviewTypeOK, NEW q \in Requests, ReviewStep(q)
    PROVE  ReviewTypeOK'
<1>0. /\ StoreTypeOK /\ RequestTypeOK
      /\ at[q] # "idle" => review[q] \in Review
  BY DEF ReviewTypeOK, RequestTypeOK
<1>1. ASSUME UNCHANGED dbVars PROVE StoreTypeOK'
  BY <1>0, <1>1 DEF StoreTypeOK, dbVars
<1>2. CASE Ask(q)
  <2> PICK r \in Runs, a \in Articles, who \in Reviewers, d \in Decision :
        ReviewTask(q, [run |-> r, article |-> a, reviewer |-> who,
                       decision |-> d, revision |-> tasks[r][a].revision])
    BY <1>2 DEF Ask
  <2> DEFINE v == [run |-> r, article |-> a, reviewer |-> who, decision |-> d,
                   revision |-> tasks[r][a].revision]
  <2>1. tasks[r][a].revision \in Nat
    BY <1>0 DEF StoreTypeOK, TaskDraft
  <2>2. v \in Review
    BY <2>1 DEF Review
  <2>3. RequestTypeOK'
    BY <1>0, <2>2 DEF ReviewTask, RequestTypeOK, RequestPc
  <2> QED BY <1>1, <2>3 DEF ReviewTask, ReviewTypeOK
<1>3. CASE SelectRevision(q) \/ ListDecisions(q) \/ AbortReview(q)
  BY <1>0, <1>1, <1>3, AnswerTypeOK, ProceedsTypeOK
  DEF SelectRevision, ListDecisions, AbortReview, ReviewTypeOK, RequestPc
<1>4. CASE WriteReview(q)
  <2>1. at[q] # "idle" /\ review[q] \in Review
    BY <1>0, <1>4 DEF WriteReview
  <2>2. CASE review[q] \in reviews
    BY <1>0, <1>4, <2>2, AnswerTypeOK
    DEF WriteReview, ReviewTypeOK, StoreTypeOK
  <2>3. CASE review[q] \notin reviews
    <3> DEFINE t == [review_status |-> StatusOf(review[q].decision),
                     revision |-> review[q].revision + 1]
    <3>1. t \in TaskDraft
      BY <2>1 DEF Review, Decision, StatusOf, TaskDraft, ReviewStatus
    <3>2. StoreTypeOK'
      <4>1. tasks' = [tasks EXCEPT ![review[q].run][review[q].article] = t]
        BY <1>4, <2>3 DEF WriteReview
      <4>2. review[q].run \in Runs /\ review[q].article \in Articles
        BY <2>1 DEF Review
      <4> HIDE DEF t
      <4>3. tasks' \in [Runs -> [Articles -> TaskDraft]]
        BY <1>0, <3>1, <4>1, <4>2 DEF StoreTypeOK
      <4> QED BY <1>0, <1>4, <4>3 DEF WriteReview, StoreTypeOK
    <3>3. /\ reviews' = reviews \cup {review[q]}
          /\ Proceeds(q, "list")
      BY <1>4, <2>3 DEF WriteReview
    <3>4. reviews' \in SUBSET Review
      BY <1>0, <2>1, <3>3 DEF RequestTypeOK
    <3>5. RequestTypeOK'
      BY <1>0, <2>1, <3>3, <3>4 DEF Proceeds, RequestTypeOK, RequestPc
    <3> QED BY <3>2, <3>5 DEF ReviewTypeOK
  <2> QED BY <2>2, <2>3
<1>5. CASE LoadState(q)
  <2>1. states[review[q].run] \in RunState
    BY <1>0, <1>5 DEF LoadState, StoreTypeOK, Review
  <2> QED BY <1>0, <1>1, <1>5, <2>1
          DEF LoadState, RequestTypeOK, RequestPc, ReviewTypeOK
<1>6. CASE SaveCompleted(q)
  <2>1. [phase |-> "completed", change_ids |-> loaded[q].change_ids] \in RunState
    BY <1>0 DEF RequestTypeOK, RunState, RunPhase, Terminal
  <2>2. StoreTypeOK'
    BY <1>0, <1>6, <2>1
    DEF SaveCompleted, SaveRunState, StoreTypeOK, RunPhase, Terminal
  <2> QED BY <1>0, <1>6, <2>2, ProceedsTypeOK
          DEF SaveCompleted, RequestPc, ReviewTypeOK
<1>7. CASE MarkCompleted(q)
  BY <1>0, <1>7, AnswerTypeOK
  DEF MarkCompleted, UpdateRunPhase, StoreTypeOK, RunPhase, Terminal, ReviewTypeOK
<1> QED BY <1>2, <1>3, <1>4, <1>5, <1>6, <1>7 DEF ReviewStep

(* Initially every run awaits its reviewers.                               *)
LEMMA ReviewInitTypeOK == ReviewInit => ReviewTypeOK
BY ArticleAssumption
DEF ReviewInit, RequestInit, ReviewTypeOK, StoreTypeOK, RequestTypeOK, RunState,
    RunPhase, AssessmentStatus, TaskDraft, ReviewStatus, FreshTask, NoTask,
    NoState, RequestPc

(* A stuttering step changes no type.                                      *)
LEMMA StutterTypeOK ==
    ASSUME ReviewTypeOK, UNCHANGED reviewVars
    PROVE  ReviewTypeOK'
BY DEF ReviewTypeOK, StoreTypeOK, RequestTypeOK, reviewVars, requestVars, dbVars

(* Type correctness of reviews.                                            *)
THEOREM ReviewTypeCorrect == ReviewSpec => []ReviewTypeOK
<1>1. ReviewTypeOK /\ [ReviewNext]_reviewVars => ReviewTypeOK'
  BY StepTypeOK, StutterTypeOK DEF ReviewNext
<1> QED BY <1>1, ReviewInitTypeOK, PTL DEF ReviewSpec

-----------------------------------------------------------------------------
(* The human gate.                                                         *)

(* Every revision of the task below k has a stored review.                 *)
ReviewedBelow(r, a, k) ==
    \A j \in 1 .. k - 1 : \E v \in ReviewsOf(r, a) : v.revision = j

(* A request that may still write holds a revision its task has had: the   *)
(* revision may be old by now, but everything below it was reviewed.       *)
HoldsRevision(q) ==
    at[q] \in {"select", "write"} =>
        /\ tasks[review[q].run][review[q].article] # NoTask
        /\ review[q].revision >= 1
        /\ ReviewedBelow(review[q].run, review[q].article, review[q].revision)

(* A stored task has been given a revision.                                *)
RevisionsStart ==
    \A r \in Runs, a \in Articles :
        tasks[r][a] # NoTask => tasks[r][a].revision >= 1

GateInv ==
    /\ RevisionsStart
    /\ \A q \in Requests : HoldsRevision(q)
    /\ HumanGate
    /\ ReviewTrail

(* A drafted task has revision 1 and waits for a human.                    *)
LEMMA ReviewInitGate == ReviewInit => GateInv
BY DEF ReviewInit, RequestInit, GateInv, RevisionsStart, HoldsRevision, HumanGate,
       ReviewTrail, FreshTask, NoTask

(* Reviews and tasks are never deleted, by a request's step.               *)
LEMMA StepKeeps ==
    ASSUME ReviewTypeOK, GateInv, NEW q \in Requests, ReviewStep(q)
    PROVE  /\ reviews \subseteq reviews'
           /\ Kept
           /\ \/ tasks' = tasks
              \/ WriteReview(q) /\ review[q] \notin reviews
<1> USE DEF Kept
<1>1. CASE WriteReview(q)
  <2>1. /\ review[q] \in Review
        /\ tasks \in [Runs -> [Articles -> TaskDraft]]
    BY <1>1 DEF WriteReview, ReviewTypeOK, RequestTypeOK, StoreTypeOK
  <2>2. review[q].revision + 1 # 0
    BY <2>1 DEF Review
  <2> QED BY <1>1, <2>1, <2>2 DEF WriteReview, NoTask, Review
<1>2. CASE ~WriteReview(q)
  BY <1>2 DEF ReviewStep, Ask, ReviewTask, SelectRevision, ListDecisions, LoadState,
              SaveCompleted, MarkCompleted, AbortReview, dbVars
<1> QED BY <1>1, <1>2

(* The other requests' variables.                                          *)
OtherRequests(q) ==
    \A p \in Requests \ {q} : at'[p] = at[p] /\ review'[p] = review[p]

(* A request writes no variable of another request.                        *)
LEMMA StepElsewhere ==
    ASSUME ReviewTypeOK, NEW q \in Requests, ReviewStep(q)
    PROVE  OtherRequests(q)
BY DEF ReviewStep, Ask, ReviewTask, SelectRevision, WriteReview, ListDecisions,
       LoadState, SaveCompleted, MarkCompleted, AbortReview, Answer, Proceeds,
       OtherRequests, ReviewTypeOK, RequestTypeOK

(* What is below a revision stays reviewed.                                *)
LEMMA ReviewedStays ==
    ASSUME NEW r, NEW a, NEW k, ReviewedBelow(r, a, k), reviews \subseteq reviews'
    PROVE  ReviewedBelow(r, a, k)'
BY DEF ReviewedBelow, ReviewsOf

(* A request keeps holding its revision while others review.               *)
LEMMA HoldingStays ==
    ASSUME ReviewTypeOK, NEW q \in Requests, HoldsRevision(q),
           reviews \subseteq reviews', Kept, at'[q] = at[q], review'[q] = review[q]
    PROVE  HoldsRevision(q)'
BY ReviewedStays DEF HoldsRevision, Kept, ReviewTypeOK, RequestTypeOK, Review

(* A request's own step keeps what it holds: it enters with the revision   *)
(* it has just read.                                                       *)
LEMMA StepHolds ==
    ASSUME ReviewTypeOK, GateInv, NEW q \in Requests, ReviewStep(q)
    PROVE  HoldsRevision(q)'
<1>1. CASE Ask(q)
  <2> PICK r \in Runs, a \in Articles, who \in Reviewers, d \in Decision :
        ReviewTask(q, [run |-> r, article |-> a, reviewer |-> who,
                       decision |-> d, revision |-> tasks[r][a].revision])
    BY <1>1 DEF Ask
  <2>1. /\ review'[q].run = r /\ review'[q].article = a
        /\ review'[q].revision = tasks[r][a].revision
        /\ tasks[r][a] # NoTask
        /\ UNCHANGED <<tasks, reviews>>
    BY DEF ReviewTask, ReviewTypeOK, RequestTypeOK, dbVars
  <2>2. tasks[r][a].revision >= 1
    BY <2>1 DEF GateInv, RevisionsStart
  <2>3. ReviewedBelow(r, a, tasks[r][a].revision)
    BY DEF GateInv, ReviewTrail, ReviewedBelow
  <2> QED BY <2>1, <2>2, <2>3 DEF HoldsRevision, ReviewedBelow, ReviewsOf
<1>2. CASE SelectRevision(q)
  BY <1>2
  DEF SelectRevision, Proceeds, Answer, GateInv, HoldsRevision, ReviewedBelow,
      ReviewsOf, dbVars, ReviewTypeOK, RequestTypeOK
<1>3. CASE ~Ask(q) /\ ~SelectRevision(q)
  <2>1. at'[q] \notin {"select", "write"}
    BY <1>3 DEF ReviewStep, WriteReview, ListDecisions, LoadState, SaveCompleted,
                MarkCompleted, AbortReview, Answer, Proceeds, ReviewTypeOK,
                RequestTypeOK
  <2> QED BY <2>1 DEF HoldsRevision
<1> QED BY <1>1, <1>2, <1>3

(* The task a request writes shows the review it stores.                   *)
LEMMA WriteReviewGate ==
    ASSUME ReviewTypeOK, GateInv, NEW q \in Requests, WriteReview(q),
           review[q] \notin reviews
    PROVE  RevisionsStart' /\ HumanGate' /\ ReviewTrail'
<1>0. PICK v \in Review : v = review[q]
  BY DEF WriteReview, ReviewTypeOK, RequestTypeOK
<1> DEFINE t == [review_status |-> StatusOf(v.decision), revision |-> v.revision + 1]
<1>1. /\ v.revision \in Nat /\ v.revision >= 1
      /\ v.run \in Runs /\ v.article \in Articles
      /\ ReviewedBelow(v.run, v.article, v.revision)
  BY <1>0 DEF WriteReview, GateInv, HoldsRevision, Review
<1>2. /\ tasks' = [tasks EXCEPT ![v.run][v.article] = t]
      /\ reviews' = reviews \cup {v}
  BY <1>0 DEF WriteReview
<1>3. /\ tasks \in [Runs -> [Articles -> TaskDraft]]
      /\ \A r \in Runs, a \in Articles : tasks[r][a].revision \in Nat
  BY DEF ReviewTypeOK, StoreTypeOK, TaskDraft
<1>4. ASSUME NEW r \in Runs, NEW a \in Articles, ~(r = v.run /\ a = v.article)
      PROVE  tasks'[r][a] = tasks[r][a]
  BY <1>1, <1>2, <1>3, <1>4
<1>5. tasks'[v.run][v.article] = t
  BY <1>1, <1>2, <1>3
<1>6. v \in ReviewsOf(v.run, v.article)'
  BY <1>2 DEF ReviewsOf
<1>7. \A r \in Runs, a \in Articles : ReviewsOf(r, a) \subseteq ReviewsOf(r, a)'
  BY <1>2 DEF ReviewsOf
<1>8. RevisionsStart'
  BY <1>1, <1>4, <1>5 DEF GateInv, RevisionsStart
<1>9. HumanGate'
  <2> SUFFICES ASSUME NEW r \in Runs, NEW a \in Articles
               PROVE  /\ tasks'[r][a].revision = 1 =>
                            tasks'[r][a].review_status = "pending_human_review"
                      /\ tasks'[r][a].revision > 1 =>
                            \E w \in ReviewsOf(r, a)' :
                                /\ w.revision = tasks'[r][a].revision - 1
                                /\ StatusOf(w.decision) = tasks'[r][a].review_status
    BY DEF HumanGate
  <2>1. CASE r = v.run /\ a = v.article
    BY <1>1, <1>5, <1>6, <2>1
  <2>2. CASE ~(r = v.run /\ a = v.article)
    BY <1>4, <1>7, <2>2 DEF GateInv, HumanGate
  <2> QED BY <2>1, <2>2
<1>10. ReviewTrail'
  <2> SUFFICES ASSUME NEW r \in Runs, NEW a \in Articles,
                      NEW k \in 1 .. tasks'[r][a].revision - 1
               PROVE  \E w \in ReviewsOf(r, a)' : w.revision = k
    BY DEF ReviewTrail
  <2>1. CASE r = v.run /\ a = v.article
    <3>1. CASE k = v.revision
      BY <1>6, <2>1, <3>1
    <3>2. CASE k # v.revision
      <4>1. k \in 1 .. v.revision - 1
        BY <1>1, <1>5, <2>1, <3>2
      <4> QED BY <1>1, <1>7, <2>1, <4>1 DEF ReviewedBelow
    <3> QED BY <3>1, <3>2
  <2>2. CASE ~(r = v.run /\ a = v.article)
    BY <1>4, <1>7, <2>2 DEF GateInv, ReviewTrail
  <2> QED BY <2>1, <2>2
<1> QED BY <1>8, <1>9, <1>10

(* A step of any request keeps the gate.                                   *)
LEMMA StepGate ==
    ASSUME ReviewTypeOK, GateInv, NEW q \in Requests, ReviewStep(q)
    PROVE  GateInv'
<1>1. /\ reviews \subseteq reviews' /\ Kept
      /\ tasks' = tasks \/ (WriteReview(q) /\ review[q] \notin reviews)
  BY StepKeeps
<1>2. ASSUME NEW p \in Requests PROVE HoldsRevision(p)'
  BY <1>1, HoldingStays, StepHolds, StepElsewhere DEF OtherRequests, GateInv
<1>3. CASE tasks' = tasks
  <2>1. \A r \in Runs, a \in Articles : ReviewsOf(r, a) \subseteq ReviewsOf(r, a)'
    BY <1>1 DEF ReviewsOf
  <2> QED BY <1>2, <1>3, <2>1 DEF GateInv, RevisionsStart, HumanGate, ReviewTrail
<1>4. CASE WriteReview(q) /\ review[q] \notin reviews
  BY <1>2, <1>4, WriteReviewGate DEF GateInv
<1> QED BY <1>1, <1>3, <1>4

(* A stuttering step keeps the gate.                                       *)
LEMMA StutterGate ==
    ASSUME GateInv, UNCHANGED reviewVars
    PROVE  GateInv'
BY DEF GateInv, RevisionsStart, HoldsRevision, ReviewedBelow, ReviewsOf, HumanGate,
       ReviewTrail, reviewVars, dbVars, requestVars

(* The gate holds in every reachable state.                                *)
LEMMA GateHolds == ReviewSpec => [](ReviewTypeOK /\ GateInv)
<1>1. ReviewTypeOK /\ GateInv /\ [ReviewNext]_reviewVars => GateInv'
  BY StepGate, StutterGate DEF ReviewNext
<1> QED BY <1>1, ReviewTypeCorrect, ReviewInitGate, PTL DEF ReviewSpec

(* No task is approved or rejected but by a stored human review, although  *)
(* reviews that race can overwrite one another.                            *)
THEOREM HumanGateHolds == ReviewSpec => []HumanGate
<1>1. GateInv => HumanGate
  BY DEF GateInv
<1> QED BY <1>1, GateHolds, PTL

(* Every revision a task has had, but the current one, has its review.     *)
THEOREM ReviewTrailHolds == ReviewSpec => []ReviewTrail
<1>1. GateInv => ReviewTrail
  BY DEF GateInv
<1> QED BY <1>1, GateHolds, PTL

(* Reviews take back no stored result: only a task's status and revision   *)
(* are ever updated.                                                       *)
THEOREM ReviewKeepsRows == ReviewSpec => RowsAreKept
<1>1. ReviewTypeOK /\ GateInv /\ [ReviewNext]_reviewVars => [Kept]_dbVars
  BY StepKeeps DEF ReviewNext, reviewVars, dbVars
<1> QED BY <1>1, GateHolds, PTL DEF ReviewSpec, RowsAreKept

-----------------------------------------------------------------------------
(* The register of human decisions.                                        *)

(* A revision a request holds is one the task has reached.                 *)
LEMMA HeldIsReached ==
    ASSUME ReviewTypeOK, GateInv, NEW q \in Requests, at[q] = "write"
    PROVE  review[q].revision \in
                Register!Reached(review[q].run, review[q].article)
<1> DEFINE v == review[q]
           k == v.revision
<1>1. /\ v \in Review /\ k \in Nat /\ k >= 1
      /\ ReviewedBelow(v.run, v.article, k)
  BY DEF ReviewTypeOK, RequestTypeOK, Review, GateInv, HoldsRevision
<1>2. CASE k = 1
  BY <1>2 DEF Register!Reached
<1>3. CASE k # 1
  <2>1. k - 1 \in 1 .. k - 1
    BY <1>1, <1>3
  <2>2. PICK w \in ReviewsOf(v.run, v.article) : w.revision = k - 1
    BY <1>1, <2>1 DEF ReviewedBelow
  <2>3. w \in {e \in reviews : e.run = v.run /\ e.article = v.article}
    BY <2>2 DEF ReviewsOf
  <2>4. w.revision + 1 = k
    BY <1>1, <2>2
  <2> QED BY <2>3, <2>4 DEF Register!Reached
<1> QED BY <1>2, <1>3

(* A decision that is stored is a decision of the register.                *)
LEMMA WriteReviewDecides ==
    ASSUME ReviewTypeOK, GateInv, NEW q \in Requests, WriteReview(q),
           review[q] \notin reviews
    PROVE  Register!RegisterNext
<1> DEFINE v == review[q]
<1>1. /\ v \in Review
      /\ v.run \in Runs /\ v.article \in Articles /\ v.reviewer \in Reviewers
      /\ v.decision \in Decision
      /\ v = [run |-> v.run, article |-> v.article, reviewer |-> v.reviewer,
              decision |-> v.decision, revision |-> v.revision]
  BY DEF WriteReview, ReviewTypeOK, RequestTypeOK, Review
<1>2. v.decision \in DOMAIN Register!Outcome
      /\ StatusOf(v.decision) = Register!Outcome[v.decision]
  BY <1>1 DEF Decision, StatusOf, Register!Outcome
<1>3. tasks[v.run][v.article] # Register!Absent
  BY DEF WriteReview, GateInv, HoldsRevision, NoTask, Register!Absent
<1>4. Register!Decide(v.run, v.article, v.reviewer, v.decision, v.revision)
  BY <1>1, <1>2, <1>3 DEF WriteReview, Register!Decide
<1>5. v.revision \in Register!Reached(v.run, v.article)
  BY HeldIsReached DEF WriteReview
<1> QED BY <1>1, <1>2, <1>4, <1>5 DEF Register!RegisterNext

(* A step of a request is a decision of the register, or none of its.      *)
LEMMA StepDecides ==
    ASSUME ReviewTypeOK, GateInv, NEW q \in Requests, ReviewStep(q)
    PROVE  UNCHANGED <<tasks, reviews>> \/ Register!RegisterNext
<1>1. CASE WriteReview(q) /\ review[q] \notin reviews
  BY <1>1, WriteReviewDecides
<1>2. CASE ~(WriteReview(q) /\ review[q] \notin reviews)
  BY <1>2
  DEF ReviewStep, Ask, ReviewTask, SelectRevision, WriteReview, ListDecisions,
      LoadState, SaveCompleted, MarkCompleted, AbortReview, dbVars
<1> QED BY <1>1, <1>2

(* Review of tasks implements the register of human decisions, for any     *)
(* number of requests, whichever race or fail.                             *)
THEOREM ReviewsImplementRegister == ReviewSpec => ImplementsRegister
<1>1. ReviewInit => Register!RegisterInit
  BY DEF ReviewInit, RequestInit, Register!RegisterInit, FreshTask, NoTask,
         Register!Fresh, Register!Absent
<1>2. ReviewTypeOK /\ GateInv /\ [ReviewNext]_reviewVars
      => [Register!RegisterNext]_(Register!registerVars)
  BY StepDecides DEF ReviewNext, reviewVars, requestVars, dbVars,
                     Register!registerVars
<1> QED
  BY <1>1, <1>2, GateHolds, PTL DEF ReviewSpec, ImplementsRegister,
                                    Register!RegisterSpec

-----------------------------------------------------------------------------
(* Closing the run.                                                        *)

(* A request is about to complete the run: it has yet to look whether all  *)
(* tasks are decided, or has seen it.  At "mark" its checkpoint is stored. *)
Closing(q, r) ==
    /\ at[q] \in {"list", "load", "save", "mark"}
    /\ review[q].run = r
    /\ at[q] = "mark" => states[r].phase = "completed"

Closed(r) == runs[r] = "completed" /\ states[r].phase = "completed"

(* A run whose tasks are all decided is completed or somebody is about to  *)
(* complete it; and a request that marks the run has stored the checkpoint.*)
ClosingInv ==
    /\ \A r \in Runs : Decided(r) => Closed(r) \/ \E q \in Requests : Closing(q, r)
    /\ \A q \in Requests : at[q] = "mark" => states[review[q].run].phase = "completed"

(* The runs start with pending tasks, or none.                             *)
LEMMA ReviewInitCloses == ReviewInit => ClosingInv
<1> SUFFICES ASSUME ReviewInit PROVE ClosingInv
  OBVIOUS
<1>1. \A q \in Requests : at[q] = "idle"
  BY DEF ReviewInit, RequestInit
<1>2. ASSUME NEW r \in Runs, NEW a \in TaskRows(r) PROVE a \in PendingTasks(r)
  BY <1>2 DEF ReviewInit, TaskRows, PendingTasks, FreshTask, NoTask
<1> QED BY <1>1, <1>2 DEF ClosingInv, Decided

(* A request that leaves the tables alone, and is not the one to complete  *)
(* the run, changes nothing about who is.                                  *)
LEMMA OthersClose ==
    ASSUME ReviewTypeOK, ClosingInv, NEW q \in Requests, OtherRequests(q),
           UNCHANGED dbVars, at'[q] # "mark",
           \A r \in Runs : Decided(r) /\ Closing(q, r) => Closing(q, r)'
    PROVE  ClosingInv'
<1>1. \A r \in Runs : Decided(r)' = Decided(r) /\ Closed(r)' = Closed(r)
  BY DEF Decided, TaskRows, PendingTasks, Closed, dbVars
<1>2. \A p \in Requests \ {q}, r \in Runs : Closing(p, r) => Closing(p, r)'
  BY DEF Closing, OtherRequests, dbVars
<1>3. \A p \in Requests : at'[p] = "mark" => states'[review'[p].run].phase = "completed"
  BY DEF ClosingInv, OtherRequests, dbVars
<1> QED BY <1>1, <1>2, <1>3 DEF ClosingInv

(* If no request can fail once its decision is stored, each hands the duty *)
(* to complete the run to itself, and lays it down only when some task of  *)
(* the run is pending or the run is completed.                             *)
LEMMA StepCloses ==
    ASSUME ReviewTypeOK, GateInv, ClosingInv, NEW q \in Requests, ReviewStep(q),
           MayAbort \subseteq {"select", "write"}
    PROVE  ClosingInv'
<1>0. OtherRequests(q)
  BY StepElsewhere
<1>t. /\ at \in [Requests -> RequestPc]
      /\ at[q] # "idle" => review[q] \in Review /\ review[q].run \in Runs
      /\ runs \in [Runs -> RunPhase \cup {"absent"}]
      /\ states \in [Runs -> RunState]
      /\ review \in [Requests -> Review \cup {NoReview}]
  BY DEF ReviewTypeOK, RequestTypeOK, StoreTypeOK, Review
<1>1. CASE Ask(q) \/ SelectRevision(q) \/ AbortReview(q)
  <2>1. at[q] \in {"idle", "select", "write"} /\ UNCHANGED dbVars
    <3>1. CASE Ask(q)
      BY <3>1 DEF Ask, ReviewTask
    <3>2. CASE SelectRevision(q)
      BY <3>2 DEF SelectRevision
    <3>3. CASE AbortReview(q)
      BY <3>3 DEF AbortReview
    <3> QED BY <1>1, <3>1, <3>2, <3>3
  <2>2. at'[q] # "mark"
    <3>1. CASE Ask(q)
      BY <3>1, <1>t DEF Ask, ReviewTask
    <3>2. CASE SelectRevision(q) \/ AbortReview(q)
      BY <3>2, <1>t DEF SelectRevision, AbortReview, Proceeds, Answer
    <3> QED BY <1>1, <3>1, <3>2
  <2> QED BY <2>1, <2>2, <1>0, OthersClose DEF Closing
<1>2. CASE ListDecisions(q)
  <2>1. /\ UNCHANGED dbVars
        /\ at'[q] # "mark"
        /\ PendingTasks(review[q].run) = {} => at'[q] = "load" /\ review'[q] = review[q]
    BY <1>2, <1>t DEF ListDecisions, Proceeds, Answer
  <2>2. \A r \in Runs : Decided(r) /\ Closing(q, r) => Closing(q, r)'
    BY <2>1 DEF Decided, Closing
  <2> QED BY <2>1, <2>2, <1>0, OthersClose
<1>3. CASE LoadState(q)
  <2>1. UNCHANGED dbVars /\ at'[q] = "save" /\ review'[q] = review[q]
    BY <1>3, <1>t DEF LoadState
  <2>2. \A r \in Runs : Closing(q, r) => Closing(q, r)'
    BY <2>1 DEF Closing
  <2> QED BY <2>1, <2>2, <1>0, OthersClose
<1>4. CASE WriteReview(q)
  <2>1. CASE review[q] \in reviews
    <3>1. UNCHANGED dbVars /\ at'[q] # "mark" /\ at[q] = "write"
      BY <1>4, <2>1, <1>t DEF WriteReview, Answer, dbVars
    <3> QED BY <3>1, <1>0, OthersClose DEF Closing
  <2>2. CASE review[q] \notin reviews
    <3> PICK s \in Runs : s = review[q].run
      BY <1>4, <1>t DEF WriteReview
    <3>1. /\ at'[q] = "list" /\ review'[q] = review[q]
          /\ at[q] = "write"
          /\ UNCHANGED <<runs, states>>
          /\ \A r \in Runs \ {s} : tasks'[r] = tasks[r]
      BY <1>4, <2>2, <1>t DEF WriteReview, Proceeds, ReviewTypeOK, StoreTypeOK
    <3>2. Closing(q, s)'
      BY <3>1 DEF Closing
    <3>3. ASSUME NEW r \in Runs \ {s}, Decided(r)'
          PROVE  Closed(r)' \/ \E p \in Requests : Closing(p, r)'
      <4>1. Decided(r)
        BY <3>1, <3>3 DEF Decided, TaskRows, PendingTasks
      <4>2. CASE Closed(r)
        BY <3>1, <4>2 DEF Closed
      <4>3. CASE \E p \in Requests : Closing(p, r)
        <5> PICK p \in Requests : Closing(p, r)
          BY <4>3
        <5>1. p # q
          BY <3>1 DEF Closing
        <5>2. Closing(p, r)'
          BY <5>1, <3>1, <1>0 DEF Closing, OtherRequests
        <5> QED BY <5>2
      <4> QED BY <4>1, <4>2, <4>3 DEF ClosingInv
    <3>4. \A p \in Requests : at'[p] = "mark" => states'[review'[p].run].phase = "completed"
      BY <3>1, <1>0 DEF ClosingInv, OtherRequests
    <3>5. ASSUME NEW r \in Runs, Decided(r)'
          PROVE  Closed(r)' \/ \E p \in Requests : Closing(p, r)'
      <4>1. CASE r = s
        BY <3>2, <4>1
      <4>2. CASE r # s
        BY <3>3, <3>5, <4>2
      <4> QED BY <4>1, <4>2
    <3> QED BY <3>4, <3>5 DEF ClosingInv
  <2> QED BY <2>1, <2>2
<1>5. CASE SaveCompleted(q) \/ MarkCompleted(q)
  <2> DEFINE s == review[q].run
  <2>1. /\ s \in Runs
        /\ runs'[s] = "completed" /\ states'[s].phase = "completed"
        /\ \A r \in Runs \ {s} : runs'[r] = runs[r] /\ states'[r] = states[r]
        /\ UNCHANGED tasks
        /\ at'[q] = "mark" => review'[q] = review[q]
    BY <1>5, <1>t DEF SaveCompleted, MarkCompleted, SaveRunState, UpdateRunPhase,
                      Proceeds, Answer, ClosingInv
  <2>2. at'[q] = "mark" \/ at'[q] = "idle"
    BY <1>5, <1>t DEF SaveCompleted, MarkCompleted, Proceeds, Answer
  <2>3. ASSUME NEW p \in Requests, at'[p] = "mark"
        PROVE  states'[review'[p].run].phase = "completed"
    <3>1. CASE p = q
      BY <2>1, <2>3, <3>1
    <3>2. CASE p # q
      <4>1. /\ at[p] = "mark" /\ review'[p] = review[p]
            /\ states[review[p].run].phase = "completed"
        BY <2>3, <3>2, <1>0 DEF OtherRequests, ClosingInv
      <4>2. review[p].run \in Runs
        BY <4>1 DEF ReviewTypeOK, RequestTypeOK, Review
      <4> QED BY <2>1, <4>1, <4>2
    <3> QED BY <3>1, <3>2
  <2>4. ASSUME NEW r \in Runs, Decided(r)'
        PROVE  Closed(r)' \/ \E p \in Requests : Closing(p, r)'
    <3>1. CASE r = s
      BY <2>1, <3>1 DEF Closed
    <3>2. CASE r # s
      <4>1. Decided(r)
        BY <2>1, <2>4 DEF Decided, TaskRows, PendingTasks
      <4>2. CASE Closed(r)
        BY <2>1, <3>2, <4>2 DEF Closed
      <4>3. CASE \E p \in Requests : Closing(p, r)
        <5> PICK p \in Requests : Closing(p, r)
          BY <4>3
        <5>1. p # q
          BY <3>2 DEF Closing
        <5>2. Closing(p, r)'
          BY <5>1, <2>1, <3>2, <1>0 DEF Closing, OtherRequests
        <5> QED BY <5>2
      <4> QED BY <4>1, <4>2, <4>3 DEF ClosingInv
    <3> QED BY <3>1, <3>2
  <2> QED BY <2>3, <2>4 DEF ClosingInv
<1> QED BY <1>1, <1>2, <1>3, <1>4, <1>5 DEF ReviewStep

(* A stuttering step changes nobody's duty.                                *)
LEMMA StutterCloses ==
    ASSUME ClosingInv, UNCHANGED reviewVars
    PROVE  ClosingInv'
BY DEF ClosingInv, Closing, Closed, Decided, TaskRows, PendingTasks, reviewVars,
       dbVars, requestVars

(* Whoever decides the last task completes the run, whatever the requests  *)
(* do at the same time, unless one is cut off after its decision is stored.*)
THEOREM LastDecisionClosesRun ==
    ASSUME MayAbort \subseteq {"select", "write"}
    PROVE  ReviewSpec => []DecisionsCloseRun
<1>1. ReviewTypeOK /\ GateInv /\ ClosingInv /\ [ReviewNext]_reviewVars => ClosingInv'
  BY StepCloses, StutterCloses DEF ReviewNext
<1>2. ClosingInv => DecisionsCloseRun
  BY DEF ClosingInv, DecisionsCloseRun, NoRequest, Closing, Closed
<1> QED BY <1>1, <1>2, ReviewInitCloses, GateHolds, PTL DEF ReviewSpec
=============================================================================
