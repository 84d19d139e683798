------------------------- MODULE RegulatoryScanProofs -------------------------
(***************************************************************************)
(* Proofs about RegulatoryScan, for any number of scans, sources and       *)
(* documents, any contents and any number of publications and crashes.     *)
(***************************************************************************)
EXTENDS RegulatoryScan, WellFoundedInduction, TLAPS

-----------------------------------------------------------------------------
(* The inductive invariant.                                                *)

(* Where a thread has a document in hand.                                  *)
Handling == {"select", "insert", "analyse", "record", "match", "record_error"}

(* What the thread knows of a source goes with where it is.                *)
ProgressInv(s) ==
    /\ scans[s] = "absent" => pc[s] = "idle"
    /\ scans[s] \in Finished => pc[s] = "idle"
    /\ pc[s] = "idle" => scans[s] \in Finished \cup {"absent"}
    /\ scans[s] = "absent" \/ pc[s] = "start" =>
         \A d \in Documents : /\ job[s][d].stage = "unlisted"
                              /\ results[s][d].outcome = "absent"
    /\ pc[s] \notin Handling => current[s] = {}
    /\ \A d, e \in current[s] : d = e
    /\ \A d \in Documents :
         SourceOf[d] \in sources[s] => job[s][d].stage = "unlisted"

(* An error is counted when it is recorded, and stays so.                  *)
ErrorInv(s) ==
    /\ pc[s] = "record_error" => failed[s]
    /\ \A d \in Documents : results[s][d].outcome = "error" =>
         /\ pc[s] \notin {"idle", "gone"} => failed[s]
         /\ pc[s] = "idle" => scans[s] = "completed_with_errors"

StageInv(s, d) ==
    LET stage == job[s][d].stage IN
    /\ pc[s] \notin Downloading \cup {"classify"} =>
         stage \in {"unlisted", "dropped", "handled"}
    /\ pc[s] = "classify" => stage \notin {"fetched", "broken"}
    /\ pc[s] \in Downloading => stage \notin {"listed", "relevant"}
    /\ d \in current[s] => stage = "handled"
    /\ stage = "dropped" => results[s][d].outcome # "absent"
    /\ stage = "handled" /\ (d \in current[s] => pc[s] = "match") =>
         results[s][d].outcome # "absent"
    /\ d \in current[s] /\ pc[s] \in {"select", "insert", "analyse", "record"} =>
         results[s][d].outcome = "absent"
    /\ stage \notin {"dropped", "handled"} /\ pc[s] # "gone" =>
         results[s][d].outcome = "absent"

(* A download is the previous version, or one with another content.        *)
Differs(j) == j.previous # NoVersion => j.previous.content # j.fetched.content

FetchInv(s, d) ==
    LET j == job[s][d] IN
    /\ j.previous \in versions \cup {NoVersion}
    /\ j.previous # NoVersion => j.previous.document = d
    /\ j.fetched # NoVersion =>
         /\ j.fetched.retrieved_at < clock
         /\ SourceOf[j.fetched.document] = SourceOf[d]
    /\ j.stage = "fetched" =>
         /\ j.fetched # NoVersion
         /\ j.fetched = j.previous \/ Differs(j)
    /\ d \in current[s] /\ pc[s] \in {"select", "insert"} =>
         j.fetched # NoVersion /\ Differs(j)
    /\ d \in current[s] /\ pc[s] = "analyse" => j.fetched \in versions /\ Differs(j)
    /\ d \in current[s] /\ pc[s] = "record" =>
         j.fetched \in versions /\ (j.fetched = j.previous \/ Differs(j))

(* OutcomesAreGrounded, for one result.                                    *)
ResultInv(s, d) ==
    LET r == results[s][d] IN
    /\ {r.version, r.previous} \subseteq versions \cup {NoVersion}
    /\ r.previous # NoVersion => r.previous.document = d
    /\ r.version # NoVersion => SourceOf[r.version.document] = SourceOf[d]
    /\ r.outcome = "unchanged" => r.version = r.previous
    /\ r.outcome = "new" => r.version # NoVersion /\ r.previous = NoVersion
    /\ r.outcome = "changed" =>
            /\ NoVersion \notin {r.version, r.previous}
            /\ r.version.content # r.previous.content

(* ImpactIsGated, for one run; and while its scan lives, its document is   *)
(* still the applicable one it was created for.                            *)
RunInv(run) ==
    /\ {run.old, run.new} \subseteq versions
    /\ run.old.document = run.document
    /\ TextOf[run.old.content] # TextOf[run.new.content]
    /\ results[run.scan][run.document].outcome # "absent" =>
            results[run.scan][run.document].applicability = "applicable"
    /\ pc[run.scan] # "gone" =>
            /\ job[run.scan][run.document].stage = "handled"
            /\ job[run.scan][run.document].applicability = "applicable"

ScanInv ==
    /\ \A v \in versions : v.retrieved_at < clock
    /\ \A s \in Scans : ProgressInv(s) /\ ErrorInv(s)
    /\ \A s \in Scans, d \in Documents :
         StageInv(s, d) /\ FetchInv(s, d) /\ ResultInv(s, d)
    /\ \A run \in analyses : RunInv(run)

-----------------------------------------------------------------------------
(* Operators.                                                              *)

(* The latest version of a document is a stored one of that document: there*)
(* is one retrieved last, for retrieval times stay below the clock.        *)
LEMMA LatestIsStored ==
    ASSUME ScanTypeOK, ScanInv, NEW d \in Documents
    PROVE  /\ Latest(d) \in versions \cup {NoVersion}
           /\ Latest(d) # NoVersion => Latest(d).document = d
<1> DEFINE rows == {v \in versions : v.document = d}
<1>1. CASE rows = {}
  BY <1>1 DEF Latest
<1>2. CASE rows # {}
  <2> DEFINE age(v) == clock - v.retrieved_at
             ages == {age(v) : v \in rows}
  <2>1. /\ clock \in Nat
        /\ \A v \in rows : v.retrieved_at \in Nat /\ v.retrieved_at < clock
    BY DEF ScanTypeOK, ScanInv, Version
  <2>2. ages \in SUBSET Nat /\ ages # {}
    BY <1>2, <2>1
  <2>3. PICK a \in ages : \A b \in ages : <<b, a>> \notin OpToRel(<, Nat)
    BY <2>2, NatLessThanWellFounded, WFMin
  <2>4. PICK v \in rows : a = age(v)
    BY <2>3
  <2>5. \A w \in rows : w.retrieved_at <= v.retrieved_at
    <3> SUFFICES ASSUME NEW w \in rows PROVE ~ (age(w) < age(v))
      BY <2>1
    <3> QED BY <2>2, <2>3, <2>4 DEF OpToRel
  <2>6. Latest(d) \in rows
    <3> HIDE DEF rows
    <3>1. Latest(d) = CHOOSE u \in rows : \A w \in rows : w.retrieved_at <= u.retrieved_at
      BY <1>2 DEF Latest, rows
    <3> QED BY <2>5, <3>1
  <2> QED BY <2>6
<1> QED BY <1>1, <1>2

(* A job that changes, and the jobs that do not.                           *)
JobBecomes(s, d, j) == job' = [job EXCEPT ![s][d] = j]

(* One job changes, to this stage, applicability, previous and fetched     *)
(* version.                                                                *)
JobChanges(s, d, st, a, p, f) ==
    /\ job' \in [Scans -> [Documents -> Job]]
    /\ job'[s][d].stage = st /\ job'[s][d].applicability = a
    /\ job'[s][d].previous = p /\ job'[s][d].fetched = f
    /\ \A t \in Scans, e \in Documents :
         t # s \/ e # d => job'[t][e] = job[t][e]

LEMMA JobTypes ==
    ASSUME ScanTypeOK, NEW s \in Scans, NEW d \in Documents
    PROVE  /\ job[s][d] \in Job
           /\ job[s][d].stage \in Stage
           /\ job[s][d].applicability \in Applicability
           /\ job[s][d].previous \in Version \cup {NoVersion}
           /\ job[s][d].fetched \in Version \cup {NoVersion}
BY DEF ScanTypeOK, Job

LEMMA JobUpdate ==
    ASSUME ScanTypeOK, NEW s \in Scans, NEW d \in Documents, NEW j \in Job,
           JobBecomes(s, d, j)
    PROVE  JobChanges(s, d, j.stage, j.applicability, j.previous, j.fetched)
<1>1. job \in [Scans -> [Documents -> Job]]
  BY DEF ScanTypeOK
<1>2. [job[s] EXCEPT ![d] = j] \in [Documents -> Job]
  BY <1>1
<1>3. /\ job' \in [Scans -> [Documents -> Job]]
      /\ job'[s][d] = j
      /\ \A t \in Scans, e \in Documents :
           t # s \/ e # d => job'[t][e] = job[t][e]
  BY <1>1, <1>2 DEF JobBecomes
<1> QED BY <1>3 DEF JobChanges

(* A result that is written, and the results that are not.                 *)
LEMMA ResultUpdate ==
    ASSUME ScanTypeOK, NEW s \in Scans, NEW d \in Documents, NEW r \in Result,
           results' = [results EXCEPT ![s][d] = r]
    PROVE  /\ results' \in [Scans -> [Documents -> Result]]
           /\ results'[s][d] = r
           /\ \A t \in Scans, e \in Documents :
                t # s \/ e # d => results'[t][e] = results[t][e]
<1>1. results \in [Scans -> [Documents -> Result]]
  BY DEF ScanTypeOK
<1>2. [results[s] EXCEPT ![d] = r] \in [Documents -> Result]
  BY <1>1
<1> QED BY <1>1, <1>2

-----------------------------------------------------------------------------
(* Types.                                                                  *)

LEMMA InitTypeOK == ScanInit => ScanTypeOK
BY BoundAssumption
DEF ScanInit, ScanTypeOK, NoJob, NoResult, Job, Result, Stage, Applicability, Outcome,
    ThreadPc

(* Where a thread goes is where it can be.                                 *)
LEMMA GotoTypeOK ==
    ASSUME ScanTypeOK, NEW s \in Scans, NEW l \in ThreadPc, Goto(s, l)
    PROVE  pc' \in [Scans -> ThreadPc]
BY DEF ScanTypeOK, Goto

LEMMA ForgetTypeOK ==
    ASSUME ScanTypeOK, NEW S, Forget(S)
    PROVE  /\ pc' \in [Scans -> ThreadPc]
           /\ sources' \in [Scans -> SUBSET Sources]
           /\ job' \in [Scans -> [Documents -> Job]]
           /\ current' \in [Scans -> SUBSET Documents]
           /\ failed' \in [Scans -> BOOLEAN]
<1>1. NoJob \in Job /\ "gone" \in ThreadPc
  BY DEF NoJob, Job, Stage, Applicability, ThreadPc
<1> QED BY <1>1 DEF Forget, ScanTypeOK

(* A document that is listed by its source, or stays as it was.            *)
LEMMA DiscoverTypeOK ==
    ASSUME ScanTypeOK, NEW s \in Scans, NEW source \in Sources,
           NEW listed \in SUBSET Documents, Discover(s, source, listed)
    PROVE  ScanTypeOK'
<1>1. \A d \in Documents : [job[s][d] EXCEPT !.stage = "listed"] \in Job
  BY JobTypes DEF Job, Stage
<1>2. job' = [job EXCEPT ![s] = [d \in Documents |->
                IF d \in listed THEN [job[s][d] EXCEPT !.stage = "listed"] ELSE job[s][d]]]
  BY DEF Discover, ScanTypeOK
<1>3. job' \in [Scans -> [Documents -> Job]]
  BY <1>1, <1>2, JobTypes DEF ScanTypeOK
<1>4. pc' \in [Scans -> ThreadPc]
  BY GotoTypeOK DEF Discover, ThreadPc
<1> QED BY <1>3, <1>4 DEF Discover, ScanTypeOK, environment, tables

(* What each action makes of a job.                                        *)
LEMMA StageChanges ==
    ASSUME ScanTypeOK, NEW s \in Scans, NEW d \in Documents, NEW st \in Stage,
           job' = [job EXCEPT ![s][d].stage = st]
    PROVE  JobChanges(s, d, st, job[s][d].applicability, job[s][d].previous,
                      job[s][d].fetched)
<1> DEFINE j == [job[s][d] EXCEPT !.stage = st]
<1>1. JobBecomes(s, d, j)
  BY DEF ScanTypeOK, JobBecomes
<1>2. /\ j \in Job /\ j.stage = st /\ j.applicability = job[s][d].applicability
      /\ j.previous = job[s][d].previous /\ j.fetched = job[s][d].fetched
  BY JobTypes DEF Job
<1> HIDE DEF j
<1> QED BY <1>1, <1>2, JobUpdate

LEMMA ClassifyChanges ==
    ASSUME ScanTypeOK, NEW s \in Scans, NEW d \in Documents, NEW a \in Applicability,
           Classify(s, d, a), a # "not_applicable"
    PROVE  JobChanges(s, d, "relevant", a, job[s][d].previous, job[s][d].fetched)
<1> DEFINE j == [job[s][d] EXCEPT !.stage = "relevant", !.applicability = a]
<1>1. JobBecomes(s, d, j)
  BY DEF Classify, ScanTypeOK, JobBecomes
<1>2. /\ j \in Job /\ j.stage = "relevant" /\ j.applicability = a
      /\ j.previous = job[s][d].previous /\ j.fetched = job[s][d].fetched
  BY JobTypes DEF Job, Stage
<1> HIDE DEF j
<1> QED BY <1>1, <1>2, JobUpdate

LEMMA ReadLatestChanges ==
    ASSUME ScanTypeOK, ScanInv, NEW s \in Scans, NEW d \in Documents, ReadLatest(s, d)
    PROVE  JobChanges(s, d, "submitted", job[s][d].applicability, Latest(d),
                      job[s][d].fetched)
<1> DEFINE v == Latest(d)
           j == [job[s][d] EXCEPT !.stage = "submitted", !.previous = v]
<1>1. v \in Version \cup {NoVersion}
  BY LatestIsStored DEF ScanTypeOK
<1>2. job' = [job EXCEPT ![s][d].stage = "submitted", ![s][d].previous = v]
  BY DEF ReadLatest
<1> HIDE DEF v
<1>3. JobBecomes(s, d, j)
  BY <1>2 DEF ScanTypeOK, JobBecomes
<1>4. /\ j \in Job /\ j.stage = "submitted" /\ j.applicability = job[s][d].applicability
      /\ j.previous = v /\ j.fetched = job[s][d].fetched
  BY <1>1, JobTypes DEF Job, Stage
<1> HIDE DEF j
<1>5. JobChanges(s, d, j.stage, j.applicability, j.previous, j.fetched)
  BY <1>3, <1>4, JobUpdate
<1> QED BY <1>4, <1>5 DEF v

(* What a worker brings.                                                   *)
Fetched(s, d) ==
    LET previous == job[s][d].previous IN
    IF previous # NoVersion /\ previous.content = served[d] THEN previous
    ELSE [document |-> d, content |-> served[d], retrieved_at |-> clock]

LEMMA RetrieveChanges ==
    ASSUME ScanTypeOK, NEW s \in Scans, NEW d \in Documents, Retrieve(s, d)
    PROVE  /\ Fetched(s, d) \in Version
           /\ JobChanges(s, d, "fetched", job[s][d].applicability, job[s][d].previous,
                         Fetched(s, d))
<1> DEFINE v == Fetched(s, d)
           j == [job[s][d] EXCEPT !.stage = "fetched", !.fetched = v]
<1>1. v \in Version
  BY JobTypes DEF Fetched, Version, ScanTypeOK
<1>2. job' = [job EXCEPT ![s][d].stage = "fetched", ![s][d].fetched = v]
  BY DEF Retrieve, Fetched
<1> HIDE DEF v
<1>3. JobBecomes(s, d, j)
  BY <1>2 DEF ScanTypeOK, JobBecomes
<1>4. /\ j \in Job /\ j.stage = "fetched" /\ j.applicability = job[s][d].applicability
      /\ j.previous = job[s][d].previous /\ j.fetched = v
  BY <1>1, JobTypes DEF Job, Stage
<1> HIDE DEF j
<1>5. JobChanges(s, d, j.stage, j.applicability, j.previous, j.fetched)
  BY <1>3, <1>4, JobUpdate
<1> QED BY <1>1, <1>4, <1>5 DEF v

(* What the thread uses in place of a download whose key is stored.        *)
StoredVersion(s, d) == CHOOSE v \in SameKey(job[s][d].fetched) : TRUE

LEMMA SelectVersionChanges ==
    ASSUME ScanTypeOK, NEW s \in Scans, NEW d \in Documents, SelectVersion(s, d),
           SameKey(job[s][d].fetched) # {}
    PROVE  /\ StoredVersion(s, d) \in SameKey(job[s][d].fetched)
           /\ JobChanges(s, d, job[s][d].stage, job[s][d].applicability,
                         job[s][d].previous, StoredVersion(s, d))
<1> DEFINE v == StoredVersion(s, d)
           j == [job[s][d] EXCEPT !.fetched = v]
<1>1. v \in SameKey(job[s][d].fetched)
  BY DEF StoredVersion
<1>2. v \in Version
  BY <1>1 DEF SameKey, ScanTypeOK
<1>3. job' = [job EXCEPT ![s][d].fetched = v]
  BY DEF SelectVersion, StoredVersion
<1> HIDE DEF v
<1>4. JobBecomes(s, d, j)
  BY <1>3 DEF ScanTypeOK, JobBecomes
<1>5. /\ j \in Job /\ j.stage = job[s][d].stage
      /\ j.applicability = job[s][d].applicability
      /\ j.previous = job[s][d].previous /\ j.fetched = v
  BY <1>2, JobTypes DEF Job
<1> HIDE DEF j
<1>6. JobChanges(s, d, j.stage, j.applicability, j.previous, j.fetched)
  BY <1>4, <1>5, JobUpdate
<1> QED BY <1>1, <1>5, <1>6 DEF v

LEMMA ResultTypes ==
    ASSUME ScanTypeOK, NEW s \in Scans, NEW d \in Documents, NEW o \in Outcome,
           NEW v \in Version \cup {NoVersion}, NEW b \in BOOLEAN
    PROVE  [outcome |-> o, applicability |-> job[s][d].applicability, version |-> v,
            previous |-> job[s][d].previous, analysed |-> b] \in Result
BY JobTypes DEF Result

(* No step takes any variable out of its type.                             *)
LEMMA NextTypeOK ==
    ASSUME ScanTypeOK, ScanInv, [ScanNext]_scanVars
    PROVE  ScanTypeOK'
<1> USE DEF environment, tables, thread
<1>1. ASSUME NEW d \in Documents, NEW c \in Contents, Publish(d, c)
      PROVE  ScanTypeOK'
  BY <1>1, BoundAssumption DEF Publish, ScanTypeOK
<1>2. ASSUME NEW s \in Scans, Create(s) PROVE ScanTypeOK'
  BY <1>2, GotoTypeOK DEF Create, ScanTypeOK, ThreadPc, ScanStatus
<1>3. ASSUME NEW s \in Scans, NEW b \in BOOLEAN, Start(s, b) PROVE ScanTypeOK'
  BY <1>3, GotoTypeOK DEF Start, ScanTypeOK, ThreadPc, ScanStatus
<1>4. ASSUME NEW s \in Scans, NEW source \in Sources, DiscoverFails(s, source)
      PROVE  ScanTypeOK'
  BY <1>4 DEF DiscoverFails, ScanTypeOK
<1>5. ASSUME NEW s \in Scans, NEW d \in Documents, NEW a \in Applicability,
             Classify(s, d, a)
      PROVE  ScanTypeOK'
  <2>1. CASE a = "not_applicable"
    <3> DEFINE r == [NoResult EXCEPT !.outcome = "filtered"]
    <3>1. r \in Result
      BY DEF NoResult, Result, Outcome, Applicability
    <3>2. results' = [results EXCEPT ![s][d] = r]
      BY <1>5, <2>1 DEF Classify
    <3> HIDE DEF r
    <3>3. results' \in [Scans -> [Documents -> Result]]
      BY <3>1, <3>2, ResultUpdate
    <3>4. job' \in [Scans -> [Documents -> Job]]
      BY <1>5, <2>1, StageChanges DEF Classify, JobChanges, Stage
    <3> QED BY <1>5, <3>3, <3>4 DEF Classify, ScanTypeOK
  <2>2. CASE a # "not_applicable"
    BY <1>5, <2>2, ClassifyChanges DEF Classify, JobChanges, ScanTypeOK
  <2> QED BY <2>1, <2>2
<1>6. ASSUME NEW s \in Scans, NEW d \in Documents, ReadLatest(s, d)
      PROVE  ScanTypeOK'
  BY <1>6, ReadLatestChanges DEF ReadLatest, JobChanges, ScanTypeOK
<1>7. ASSUME NEW s \in Scans, Submitted(s) \/ SourceDone(s) \/ Match(s)
      PROVE  ScanTypeOK'
  BY <1>7, GotoTypeOK DEF Submitted, SourceDone, Match, ScanTypeOK, ThreadPc
<1>8. ASSUME NEW s \in Scans, NEW d \in Documents, Retrieve(s, d)
      PROVE  ScanTypeOK'
  <2>1. clock' \in Nat
    BY <1>8 DEF Retrieve, ScanTypeOK
  <2> QED BY <1>8, <2>1, RetrieveChanges DEF Retrieve, JobChanges, ScanTypeOK
<1>9. ASSUME NEW s \in Scans, NEW d \in Documents, RetrieveFails(s, d)
      PROVE  ScanTypeOK'
  BY <1>9, StageChanges DEF RetrieveFails, JobChanges, ScanTypeOK, Stage
<1>10. ASSUME NEW s \in Scans, NEW d \in Documents, TakeReady(s, d)
       PROVE  ScanTypeOK'
  <2>1. job' \in [Scans -> [Documents -> Job]]
    BY <1>10, StageChanges DEF TakeReady, JobChanges, Stage
  <2>2. pc' \in [Scans -> ThreadPc]
    BY <1>10 DEF TakeReady, Goto, ScanTypeOK, ThreadPc
  <2> QED BY <1>10, <2>1, <2>2 DEF TakeReady, ScanTypeOK
<1>11. ASSUME NEW s \in Scans, NEW d \in Documents, SelectVersion(s, d)
       PROVE  ScanTypeOK'
  <2>1. CASE SameKey(job[s][d].fetched) = {}
    BY <1>11, <2>1, GotoTypeOK DEF SelectVersion, ScanTypeOK, ThreadPc
  <2>2. CASE SameKey(job[s][d].fetched) # {}
    BY <1>11, <2>2, GotoTypeOK, SelectVersionChanges
    DEF SelectVersion, JobChanges, ScanTypeOK, ThreadPc
  <2> QED BY <2>1, <2>2
<1>12. ASSUME NEW s \in Scans, NEW d \in Documents, InsertVersion(s, d)
       PROVE  ScanTypeOK'
  <2>1. job[s][d].fetched \in Version
    BY <1>12, JobTypes DEF InsertVersion, ScanInv, FetchInv
  <2>2. pc' \in [Scans -> ThreadPc]
    BY <1>12 DEF InsertVersion, Goto, ScanTypeOK, ThreadPc
  <2> QED BY <1>12, <2>1, <2>2 DEF InsertVersion, ScanTypeOK
<1>13. ASSUME NEW s \in Scans, NEW d \in Documents, Analyse(s, d)
       PROVE  ScanTypeOK'
  <2>1. job[s][d].fetched \in Version
    BY <1>13 DEF Analyse, ScanInv, FetchInv, ScanTypeOK
  <2>2. job[s][d].previous # NoVersion => job[s][d].previous \in Version
    BY JobTypes
  <2>3. analyses' \in SUBSET [scan : Scans, document : Documents,
                              old : Version, new : Version]
    BY <1>13, <2>1, <2>2 DEF Analyse, ScanTypeOK
  <2>4. pc' \in [Scans -> ThreadPc]
    BY <1>13, GotoTypeOK DEF Analyse, ThreadPc
  <2> QED BY <1>13, <2>3, <2>4 DEF Analyse, ScanTypeOK
<1>14. ASSUME NEW s \in Scans, NEW d \in Documents, Record(s, d)
       PROVE  ScanTypeOK'
  <2> DEFINE o == OutcomeOf(job[s][d])
             v == job[s][d].fetched
             b == RunsOf(s, d) # {}
             r == [outcome |-> o, applicability |-> job[s][d].applicability,
                   version |-> v, previous |-> job[s][d].previous, analysed |-> b]
  <2>1. o \in Outcome /\ v \in Version \cup {NoVersion} /\ b \in BOOLEAN
    BY JobTypes DEF OutcomeOf, Outcome
  <2>2. results' = [results EXCEPT ![s][d] = r]
    BY <1>14 DEF Record
  <2> HIDE DEF o, v, b
  <2>3. r \in Result
    BY <2>1, ResultTypes
  <2> HIDE DEF r
  <2>4. results' \in [Scans -> [Documents -> Result]]
    BY <2>2, <2>3, ResultUpdate
  <2>5. pc' \in [Scans -> ThreadPc] /\ current' \in [Scans -> SUBSET Documents]
    BY <1>14 DEF Record, Goto, ScanTypeOK, ThreadPc
  <2> QED BY <1>14, <2>4, <2>5 DEF Record, ScanTypeOK
<1>15. ASSUME NEW s \in Scans, NEW d \in Documents, RecordError(s, d)
       PROVE  ScanTypeOK'
  <2> DEFINE v == job[s][d].previous
             r == [outcome |-> "error", applicability |-> job[s][d].applicability,
                   version |-> v, previous |-> job[s][d].previous, analysed |-> FALSE]
  <2>1. v \in Version \cup {NoVersion}
    BY JobTypes
  <2>2. results' = [results EXCEPT ![s][d] = r]
    BY <1>15 DEF RecordError
  <2> HIDE DEF v
  <2>3. r \in Result
    BY <2>1, ResultTypes DEF Outcome
  <2> HIDE DEF r
  <2>4. results' \in [Scans -> [Documents -> Result]]
    BY <2>2, <2>3, ResultUpdate
  <2>5. pc' \in [Scans -> ThreadPc]
    BY <1>15, GotoTypeOK DEF RecordError, ThreadPc
  <2> QED BY <1>15, <2>4, <2>5 DEF RecordError, ScanTypeOK
<1>16. ASSUME NEW s \in Scans, Finish(s) PROVE ScanTypeOK'
  BY <1>16, GotoTypeOK DEF Finish, ScanTypeOK, ThreadPc, ScanStatus
<1>17. ASSUME NEW s \in Scans, Break(s) PROVE ScanTypeOK'
  BY <1>17, GotoTypeOK DEF Break, ScanTypeOK, ThreadPc
<1>18. ASSUME NEW s \in Scans, Die(s) PROVE ScanTypeOK'
  BY <1>18, ForgetTypeOK DEF Die, ScanTypeOK
<1>19. CASE Crash
  <2>1. crashes' \in 0..MaxCrashes
    BY <1>19, BoundAssumption DEF Crash, ScanTypeOK
  <2> QED BY <1>19, <2>1, ForgetTypeOK DEF Crash, ScanTypeOK
<1>20. CASE UNCHANGED scanVars
  BY <1>20 DEF scanVars, ScanTypeOK
<1> QED
  BY <1>1, <1>2, <1>3, <1>4, <1>5, <1>6, <1>7, <1>8, <1>9, <1>10, <1>11, <1>12, <1>13,
     <1>14, <1>15, <1>16, <1>17, <1>18, <1>19, <1>20, DiscoverTypeOK
  DEF ScanNext, Step, Fault

-----------------------------------------------------------------------------
(* The invariant.                                                          *)

LEMMA InitInv == ScanInit => ScanInv
BY DEF ScanInit, ScanInv, ProgressInv, ErrorInv, StageInv, FetchInv, ResultInv,
       NoJob, NoResult, Downloading, Handling, Finished

(* A step of one scan: the others keep what they had; versions are added   *)
(* and time passes.                                                        *)
Elsewhere(s) ==
    /\ \A t \in Scans \ {s} :
         /\ scans'[t] = scans[t] /\ pc'[t] = pc[t] /\ sources'[t] = sources[t]
         /\ current'[t] = current[t] /\ failed'[t] = failed[t]
         /\ \A d \in Documents : job'[t][d] = job[t][d] /\ results'[t][d] = results[t][d]
    /\ versions \subseteq versions'
    /\ clock <= clock'

LEMMA OtherScanKept ==
    ASSUME ScanTypeOK, ScanTypeOK', ScanInv, NEW s \in Scans, Elsewhere(s),
           NEW t \in Scans \ {s}
    PROVE  /\ ProgressInv(t)' /\ ErrorInv(t)'
           /\ \A d \in Documents : StageInv(t, d)' /\ FetchInv(t, d)' /\ ResultInv(t, d)'
<1>1. ProgressInv(t)' /\ ErrorInv(t)'
  BY DEF ScanInv, ProgressInv, ErrorInv, Elsewhere
<1>2. ASSUME NEW d \in Documents PROVE StageInv(t, d)' /\ ResultInv(t, d)'
  BY DEF ScanInv, StageInv, ResultInv, Elsewhere
<1>3. ASSUME NEW d \in Documents PROVE FetchInv(t, d)'
  <2>1. /\ job'[t][d] = job[t][d] /\ pc'[t] = pc[t] /\ current'[t] = current[t]
        /\ FetchInv(t, d) /\ versions \subseteq versions'
    BY DEF ScanInv, Elsewhere
  <2>2. job[t][d].fetched # NoVersion /\ job[t][d].fetched.retrieved_at < clock =>
            job[t][d].fetched.retrieved_at < clock'
    BY JobTypes DEF Elsewhere, ScanTypeOK, Version
  <2> QED BY <2>1, <2>2 DEF FetchInv, Differs
<1> QED BY <1>1, <1>2, <1>3

LEMMA ScanStep ==
    ASSUME ScanTypeOK, ScanTypeOK', ScanInv, NEW s \in Scans, Elsewhere(s),
           \A v \in versions' : v \in versions \/ v.retrieved_at < clock',
           ProgressInv(s)', ErrorInv(s)',
           \A d \in Documents : StageInv(s, d)' /\ FetchInv(s, d)' /\ ResultInv(s, d)',
           \A run \in analyses' : RunInv(run)'
    PROVE  ScanInv'
<1>1. \A v \in versions' : v.retrieved_at < clock'
  BY DEF ScanInv, Elsewhere, ScanTypeOK, Version
<1>2. \A t \in Scans :
        /\ ProgressInv(t)' /\ ErrorInv(t)'
        /\ \A d \in Documents : StageInv(t, d)' /\ FetchInv(t, d)' /\ ResultInv(t, d)'
  BY OtherScanKept
<1> QED BY <1>1, <1>2 DEF ScanInv

(* A run stays warranted while its job stays handled and its result is     *)
(* left alone.                                                             *)
LEMMA RunsKept ==
    ASSUME ScanTypeOK, ScanInv, NEW s \in Scans, Elsewhere(s),
           \A d \in Documents : results'[s][d] = results[s][d],
           \/ pc'[s] = "gone"
           \/ /\ pc[s] # "gone"
              /\ \A d \in Documents : job[s][d].stage = "handled" =>
                    /\ job'[s][d].stage = "handled"
                    /\ job'[s][d].applicability = job[s][d].applicability
    PROVE  \A run \in analyses : RunInv(run)'
<1> SUFFICES ASSUME NEW run \in analyses PROVE RunInv(run)'
  OBVIOUS
<1>1. run.scan \in Scans /\ run.document \in Documents /\ RunInv(run)
  BY DEF ScanTypeOK, ScanInv
<1>2. CASE run.scan = s
  BY <1>1, <1>2 DEF RunInv, Elsewhere
<1>3. CASE run.scan # s
  BY <1>1, <1>3 DEF RunInv, Elsewhere
<1> QED BY <1>2, <1>3

(* Results that are left alone stay grounded.                              *)
LEMMA ResultsKept ==
    ASSUME ScanInv, NEW s \in Scans, Elsewhere(s), NEW d \in Documents,
           results'[s][d] = results[s][d]
    PROVE  ResultInv(s, d)'
BY DEF ScanInv, ResultInv, Elsewhere

(* A step that goes on without touching jobs, results or runs.             *)
LEMMA JobsKept ==
    ASSUME ScanTypeOK, ScanTypeOK', ScanInv, NEW s \in Scans, Elsewhere(s),
           UNCHANGED <<versions, analyses, clock, job, results>>, pc[s] # "gone",
           ProgressInv(s)', ErrorInv(s)',
           \A d \in Documents : StageInv(s, d)' /\ FetchInv(s, d)'
    PROVE  ScanInv'
<1>1. \A run \in analyses' : RunInv(run)'
  BY RunsKept
<1>2. \A d \in Documents : ResultInv(s, d)'
  BY ResultsKept
<1> QED BY <1>1, <1>2, ScanStep

(* A step that moves the thread on, with nothing in hand before and after. *)
LEMMA MoveKept ==
    ASSUME ScanTypeOK, ScanTypeOK', ScanInv, NEW s \in Scans, Elsewhere(s),
           UNCHANGED <<versions, analyses, clock, job, results>>, pc[s] # "gone",
           ProgressInv(s)', ErrorInv(s)',
           current'[s] = {},
           \A d \in Documents : StageInv(s, d)'
    PROVE  ScanInv'
<1>1. \A d \in Documents : FetchInv(s, d)'
  BY DEF ScanInv, FetchInv, Differs
<1> QED BY <1>1, JobsKept

LEMMA InvAfterCreate ==
    ASSUME ScanTypeOK, ScanTypeOK', ScanInv, NEW s \in Scans, Create(s)
    PROVE  ScanInv'
<1>1. /\ scans[s] = "absent" /\ scans'[s] = "queued" /\ pc'[s] = "start"
      /\ UNCHANGED <<versions, analyses, clock, job, results, sources, current, failed>>
      /\ Elsewhere(s)
  BY DEF Create, Goto, Elsewhere, environment, ScanTypeOK
<1>2. ProgressInv(s) /\ ErrorInv(s)
  BY DEF ScanInv
<1>3. pc[s] = "idle" /\ current[s] = {}
  BY <1>1, <1>2 DEF ProgressInv, Handling
<1>4. ProgressInv(s)' /\ ErrorInv(s)'
  BY <1>1, <1>2, <1>3 DEF ProgressInv, ErrorInv, Finished, Handling
<1>5. \A d \in Documents : StageInv(s, d)'
  BY <1>1, <1>2, <1>3 DEF StageInv, ProgressInv, Downloading
<1> QED BY <1>1, <1>3, <1>4, <1>5, MoveKept

LEMMA InvAfterStart ==
    ASSUME ScanTypeOK, ScanTypeOK', ScanInv, NEW s \in Scans, NEW b \in BOOLEAN,
           Start(s, b)
    PROVE  ScanInv'
<1>1. /\ pc[s] = "start" /\ pc'[s] = "next_source" /\ scans'[s] = "running"
      /\ UNCHANGED <<versions, analyses, clock, job, results, current>>
      /\ Elsewhere(s)
  BY DEF Start, Goto, Elsewhere, environment, ScanTypeOK
<1>2. ProgressInv(s) /\ ErrorInv(s) /\ current[s] = {}
  BY <1>1 DEF ScanInv, ProgressInv, Handling
<1>3. ProgressInv(s)' /\ ErrorInv(s)'
  BY <1>1, <1>2 DEF ProgressInv, ErrorInv, Finished, Handling
<1>4. \A d \in Documents : StageInv(s, d)'
  BY <1>1, <1>2 DEF StageInv, ProgressInv, Downloading
<1> QED BY <1>1, <1>2, <1>3, <1>4, MoveKept

LEMMA InvAfterDiscoverFails ==
    ASSUME ScanTypeOK, ScanTypeOK', ScanInv, NEW s \in Scans, NEW source \in Sources,
           DiscoverFails(s, source)
    PROVE  ScanInv'
<1>1. /\ pc[s] = "next_source" /\ UNCHANGED pc /\ failed'[s] = TRUE
      /\ UNCHANGED <<versions, analyses, clock, job, results, current, scans>>
      /\ sources'[s] \subseteq sources[s] /\ Elsewhere(s)
  BY DEF DiscoverFails, Elsewhere, environment, tables, ScanTypeOK
<1>2. ProgressInv(s) /\ ErrorInv(s) /\ current[s] = {}
  BY <1>1 DEF ScanInv, ProgressInv, Handling
<1>3. ProgressInv(s)' /\ ErrorInv(s)'
  BY <1>1, <1>2 DEF ProgressInv, ErrorInv
<1>4. \A d \in Documents : StageInv(s, d)'
  BY <1>1 DEF ScanInv, StageInv
<1> QED BY <1>1, <1>2, <1>3, <1>4, MoveKept

LEMMA InvAfterSubmitted ==
    ASSUME ScanTypeOK, ScanTypeOK', ScanInv, NEW s \in Scans, Submitted(s)
    PROVE  ScanInv'
<1>1. /\ pc[s] = "classify" /\ pc'[s] = "download"
      /\ UNCHANGED <<versions, analyses, clock, job, results, current, scans, sources,
                     failed>>
      /\ \A d \in Documents : job[s][d].stage \notin {"listed", "relevant"}
      /\ Elsewhere(s)
  BY DEF Submitted, Goto, At, Elsewhere, environment, tables, ScanTypeOK
<1>2. ProgressInv(s) /\ ErrorInv(s) /\ current[s] = {}
  BY <1>1 DEF ScanInv, ProgressInv, Handling
<1>3. ProgressInv(s)' /\ ErrorInv(s)'
  BY <1>1, <1>2 DEF ProgressInv, ErrorInv
<1>4. \A d \in Documents : StageInv(s, d)'
  BY <1>1, <1>2 DEF ScanInv, StageInv, Downloading
<1> QED BY <1>1, <1>2, <1>3, <1>4, MoveKept

LEMMA InvAfterSourceDone ==
    ASSUME ScanTypeOK, ScanTypeOK', ScanInv, NEW s \in Scans, SourceDone(s)
    PROVE  ScanInv'
<1>1. /\ pc[s] = "download" /\ pc'[s] = "next_source"
      /\ UNCHANGED <<versions, analyses, clock, job, results, current, scans, sources,
                     failed>>
      /\ \A d \in Documents : job[s][d].stage \notin {"submitted", "fetched", "broken"}
      /\ Elsewhere(s)
  BY DEF SourceDone, Goto, At, Elsewhere, environment, tables, ScanTypeOK
<1>2. ProgressInv(s) /\ ErrorInv(s) /\ current[s] = {}
  BY <1>1 DEF ScanInv, ProgressInv, Handling
<1>3. ProgressInv(s)' /\ ErrorInv(s)'
  BY <1>1, <1>2 DEF ProgressInv, ErrorInv
<1>4. \A d \in Documents : StageInv(s, d)'
  BY <1>1, <1>2, JobTypes DEF ScanInv, StageInv, Downloading, Stage
<1> QED BY <1>1, <1>2, <1>3, <1>4, MoveKept

LEMMA InvAfterFinish ==
    ASSUME ScanTypeOK, ScanTypeOK', ScanInv, NEW s \in Scans, Finish(s)
    PROVE  ScanInv'
<1>1. /\ pc[s] = "next_source" /\ pc'[s] = "idle"
      /\ scans'[s] = IF failed[s] THEN "completed_with_errors" ELSE "completed"
      /\ UNCHANGED <<versions, analyses, clock, job, results, current, sources, failed>>
      /\ Elsewhere(s)
  BY DEF Finish, Goto, Elsewhere, environment, ScanTypeOK
<1>2. ProgressInv(s) /\ ErrorInv(s) /\ current[s] = {}
  BY <1>1 DEF ScanInv, ProgressInv, Handling
<1>3. ProgressInv(s)' /\ ErrorInv(s)'
  BY <1>1, <1>2 DEF ProgressInv, ErrorInv, Finished, Handling
<1>4. \A d \in Documents : StageInv(s, d)'
  BY <1>1, <1>2 DEF ScanInv, StageInv, Downloading
<1> QED BY <1>1, <1>2, <1>3, <1>4, MoveKept

LEMMA InvAfterMatch ==
    ASSUME ScanTypeOK, ScanTypeOK', ScanInv, NEW s \in Scans, Match(s)
    PROVE  ScanInv'
<1>1. /\ pc[s] = "match" /\ pc'[s] = "download" /\ current'[s] = {}
      /\ UNCHANGED <<versions, analyses, clock, job, results, scans, sources, failed>>
      /\ Elsewhere(s)
  BY DEF Match, Goto, Elsewhere, environment, tables, ScanTypeOK
<1>2. ProgressInv(s) /\ ErrorInv(s)
  BY DEF ScanInv
<1>3. ProgressInv(s)' /\ ErrorInv(s)'
  BY <1>1, <1>2 DEF ProgressInv, ErrorInv, Finished
<1>4. \A d \in Documents : StageInv(s, d)'
  BY <1>1, <1>2 DEF ScanInv, StageInv, Downloading
<1> QED BY <1>1, <1>3, <1>4, MoveKept

LEMMA InvAfterBreak ==
    ASSUME ScanTypeOK, ScanTypeOK', ScanInv, NEW s \in Scans, Break(s)
    PROVE  ScanInv'
<1>1. /\ pc[s] \in {"select", "insert", "analyse", "record", "match"}
      /\ pc'[s] = "record_error" /\ failed'[s] = TRUE
      /\ UNCHANGED <<versions, analyses, clock, job, results, scans, sources, current>>
      /\ Elsewhere(s)
  BY DEF Break, Goto, Elsewhere, environment, tables, ScanTypeOK
<1>2. ProgressInv(s) /\ ErrorInv(s)
  BY DEF ScanInv
<1>3. ProgressInv(s)' /\ ErrorInv(s)'
  BY <1>1, <1>2 DEF ProgressInv, ErrorInv, Finished, Handling
<1>4. \A d \in Documents : StageInv(s, d)'
  BY <1>1, <1>2 DEF ScanInv, StageInv, Downloading
<1>5. \A d \in Documents : FetchInv(s, d)'
  BY <1>1 DEF ScanInv, FetchInv, Differs
<1> QED BY <1>1, <1>3, <1>4, <1>5, JobsKept

(* A step that changes jobs, and neither results nor runs.                 *)
LEMMA JobsMoved ==
    ASSUME ScanTypeOK, ScanTypeOK', ScanInv, NEW s \in Scans, Elsewhere(s),
           UNCHANGED <<versions, analyses, results>>, pc[s] # "gone",
           ProgressInv(s)', ErrorInv(s)',
           \A d \in Documents : StageInv(s, d)' /\ FetchInv(s, d)',
           \A d \in Documents : job[s][d].stage = "handled" =>
                /\ job'[s][d].stage = "handled"
                /\ job'[s][d].applicability = job[s][d].applicability
    PROVE  ScanInv'
<1>1. \A run \in analyses' : RunInv(run)'
  BY RunsKept
<1>2. \A d \in Documents : ResultInv(s, d)'
  BY ResultsKept
<1> QED BY <1>1, <1>2, ScanStep

(* One job of a scan changes: the others of every scan do not.             *)
LEMMA OneJobElsewhere ==
    ASSUME NEW s \in Scans, NEW d \in Documents, NEW st, NEW a, NEW p, NEW f,
           JobChanges(s, d, st, a, p, f),
           \A t \in Scans \ {s} :
              /\ scans'[t] = scans[t] /\ pc'[t] = pc[t] /\ sources'[t] = sources[t]
              /\ current'[t] = current[t] /\ failed'[t] = failed[t]
              /\ \A e \in Documents : results'[t][e] = results[t][e],
           versions \subseteq versions', clock <= clock'
    PROVE  /\ Elsewhere(s)
           /\ \A e \in Documents \ {d} : job'[s][e] = job[s][e]
           /\ job'[s][d].stage = st /\ job'[s][d].applicability = a
           /\ job'[s][d].previous = p /\ job'[s][d].fetched = f
BY DEF JobChanges, Elsewhere

LEMMA InvAfterDiscover ==
    ASSUME ScanTypeOK, ScanTypeOK', ScanInv, NEW s \in Scans, NEW source \in Sources,
           NEW listed \in SUBSET Documents, Discover(s, source, listed)
    PROVE  ScanInv'
<1>1. /\ pc[s] = "next_source" /\ pc'[s] = "classify"
      /\ UNCHANGED <<versions, analyses, clock, results, current, scans, failed>>
      /\ source \in sources[s] /\ sources'[s] = sources[s] \ {source}
      /\ \A d \in listed : SourceOf[d] = source
      /\ \A t \in Scans \ {s} : pc'[t] = pc[t] /\ sources'[t] = sources[t]
  BY DEF Discover, Goto, environment, tables, ScanTypeOK
<1>2. job' = [job EXCEPT ![s] = [d \in Documents |->
                IF d \in listed THEN [job[s][d] EXCEPT !.stage = "listed"] ELSE job[s][d]]]
  BY DEF Discover, ScanTypeOK
<1>3. /\ \A d \in Documents : job'[s][d] =
           IF d \in listed THEN [job[s][d] EXCEPT !.stage = "listed"] ELSE job[s][d]
      /\ \A t \in Scans \ {s} : job'[t] = job[t]
  BY <1>2 DEF ScanTypeOK
<1>4. \A d \in Documents :
        IF d \in listed
        THEN /\ job'[s][d].stage = "listed"
             /\ job'[s][d].previous = job[s][d].previous
             /\ job'[s][d].fetched = job[s][d].fetched
        ELSE job'[s][d] = job[s][d]
  BY <1>3, JobTypes DEF Job
<1>5. Elsewhere(s)
  BY <1>1, <1>3 DEF Elsewhere, ScanTypeOK
<1>6. ProgressInv(s) /\ ErrorInv(s) /\ current[s] = {}
  BY <1>1 DEF ScanInv, ProgressInv, Handling
<1>7. \A d \in listed : job[s][d].stage = "unlisted"
  BY <1>1, <1>6 DEF ProgressInv
<1>8. ProgressInv(s)' /\ ErrorInv(s)'
  BY <1>1, <1>4, <1>6 DEF ProgressInv, ErrorInv
<1>9. ASSUME NEW d \in Documents PROVE StageInv(s, d)' /\ FetchInv(s, d)'
  <2>1. StageInv(s, d)'
    BY <1>1, <1>4, <1>6, <1>7 DEF ScanInv, StageInv, Downloading
  <2>2. FetchInv(s, d)'
    BY <1>1, <1>4, <1>6 DEF ScanInv, FetchInv, Differs
  <2> QED BY <2>1, <2>2
<1> QED BY <1>1, <1>4, <1>5, <1>7, <1>8, <1>9, JobsMoved

LEMMA InvAfterReadLatest ==
    ASSUME ScanTypeOK, ScanTypeOK', ScanInv, NEW s \in Scans, NEW d \in Documents,
           ReadLatest(s, d)
    PROVE  ScanInv'
<1>1. /\ pc[s] = "classify" /\ job[s][d].stage = "relevant"
      /\ UNCHANGED <<versions, analyses, clock, results, current, scans, failed, pc,
                     sources>>
  BY DEF ReadLatest, environment, tables
<1>2. /\ Elsewhere(s)
      /\ \A e \in Documents \ {d} : job'[s][e] = job[s][e]
      /\ job'[s][d].stage = "submitted" /\ job'[s][d].previous = Latest(d)
      /\ job'[s][d].fetched = job[s][d].fetched
  BY <1>1, ReadLatestChanges, OneJobElsewhere DEF ScanTypeOK
<1>3. ProgressInv(s) /\ ErrorInv(s) /\ current[s] = {}
  BY <1>1 DEF ScanInv, ProgressInv, Handling
<1>4. ProgressInv(s)' /\ ErrorInv(s)'
  BY <1>1, <1>2, <1>3 DEF ProgressInv, ErrorInv
<1>5. ASSUME NEW e \in Documents PROVE StageInv(s, e)' /\ FetchInv(s, e)'
  <2>1. StageInv(s, e)'
    BY <1>1, <1>2, <1>3 DEF ScanInv, StageInv, Downloading
  <2>2. FetchInv(s, e)'
    BY <1>1, <1>2, <1>3, LatestIsStored DEF ScanInv, FetchInv, Differs
  <2> QED BY <2>1, <2>2
<1> QED BY <1>1, <1>2, <1>4, <1>5, JobsMoved

LEMMA InvAfterRetrieve ==
    ASSUME ScanTypeOK, ScanTypeOK', ScanInv, NEW s \in Scans, NEW d \in Documents,
           Retrieve(s, d)
    PROVE  ScanInv'
<1>1. /\ pc[s] \in Downloading /\ job[s][d].stage = "submitted"
      /\ UNCHANGED <<versions, analyses, results, current, scans, failed, pc, sources>>
      /\ clock <= clock'
  BY DEF Retrieve, tables, ScanTypeOK
<1>2. /\ Elsewhere(s)
      /\ \A e \in Documents \ {d} : job'[s][e] = job[s][e]
      /\ job'[s][d].stage = "fetched" /\ job'[s][d].previous = job[s][d].previous
      /\ job'[s][d].fetched = Fetched(s, d)
  BY <1>1, RetrieveChanges, OneJobElsewhere
<1>3. ProgressInv(s) /\ ErrorInv(s) /\ StageInv(s, d) /\ FetchInv(s, d)
  BY DEF ScanInv
<1>4. d \notin current[s]
  BY <1>1, <1>3 DEF StageInv
<1>5. ProgressInv(s)' /\ ErrorInv(s)'
  BY <1>1, <1>2, <1>3 DEF ProgressInv, ErrorInv
<1>6. /\ Fetched(s, d) # NoVersion
      /\ Fetched(s, d).retrieved_at < clock'
      /\ SourceOf[Fetched(s, d).document] = SourceOf[d]
      /\ \/ Fetched(s, d) = job[s][d].previous
         \/ /\ job[s][d].previous # NoVersion =>
                    job[s][d].previous.content # Fetched(s, d).content
  <2>1. Fetched(s, d) \in Version
    BY RetrieveChanges
  <2>2. CASE job[s][d].previous # NoVersion /\ job[s][d].previous.content = served[d]
    BY <1>3, <2>2 DEF Retrieve, Fetched, FetchInv, ScanInv
  <2>3. CASE ~ (job[s][d].previous # NoVersion /\ job[s][d].previous.content = served[d])
    BY <2>1, <2>3, NoVersionAssumption DEF Retrieve, Fetched, ScanTypeOK
  <2> QED BY <2>2, <2>3
<1>7. ASSUME NEW e \in Documents PROVE StageInv(s, e)' /\ FetchInv(s, e)'
  <2>1. StageInv(s, e)'
    BY <1>1, <1>2, <1>4 DEF ScanInv, StageInv, Downloading
  <2>2. CASE e = d
    BY <1>1, <1>2, <1>3, <1>4, <1>6, <2>1, <2>2 DEF FetchInv, Differs
  <2>3. CASE e # d
    <3>1. job[s][e].fetched # NoVersion => job[s][e].fetched.retrieved_at < clock'
      BY <1>1, JobTypes DEF ScanInv, FetchInv, ScanTypeOK, Version
    <3> QED BY <1>1, <1>2, <2>1, <2>3, <3>1 DEF ScanInv, FetchInv, Differs
  <2> QED BY <2>1, <2>2, <2>3
<1> QED BY <1>1, <1>2, <1>5, <1>7, JobsMoved DEF Downloading

LEMMA InvAfterRetrieveFails ==
    ASSUME ScanTypeOK, ScanTypeOK', ScanInv, NEW s \in Scans, NEW d \in Documents,
           RetrieveFails(s, d)
    PROVE  ScanInv'
<1>1. /\ pc[s] \in Downloading /\ job[s][d].stage = "submitted"
      /\ UNCHANGED <<versions, analyses, clock, results, current, scans, failed, pc,
                     sources>>
  BY DEF RetrieveFails, environment, tables
<1>2. /\ Elsewhere(s)
      /\ \A e \in Documents \ {d} : job'[s][e] = job[s][e]
      /\ job'[s][d].stage = "broken" /\ job'[s][d].previous = job[s][d].previous
      /\ job'[s][d].fetched = job[s][d].fetched
  <2>1. JobChanges(s, d, "broken", job[s][d].applicability, job[s][d].previous,
                   job[s][d].fetched)
    BY StageChanges DEF RetrieveFails, Stage
  <2> QED BY <1>1, <2>1, OneJobElsewhere DEF ScanTypeOK
<1>3. ProgressInv(s) /\ ErrorInv(s) /\ StageInv(s, d)
  BY DEF ScanInv
<1>4. d \notin current[s]
  BY <1>1, <1>3 DEF StageInv
<1>5. ProgressInv(s)' /\ ErrorInv(s)'
  BY <1>1, <1>2, <1>3 DEF ProgressInv, ErrorInv
<1>6. ASSUME NEW e \in Documents PROVE StageInv(s, e)' /\ FetchInv(s, e)'
  <2>1. StageInv(s, e)'
    BY <1>1, <1>2, <1>4 DEF ScanInv, StageInv, Downloading
  <2>2. FetchInv(s, e)'
    BY <1>1, <1>2, <1>4 DEF ScanInv, FetchInv, Differs
  <2> QED BY <2>1, <2>2
<1> QED BY <1>1, <1>2, <1>5, <1>6, JobsMoved DEF Downloading

LEMMA InvAfterClassify ==
    ASSUME ScanTypeOK, ScanTypeOK', ScanInv, NEW s \in Scans, NEW d \in Documents,
           NEW a \in Applicability, Classify(s, d, a)
    PROVE  ScanInv'
<1>1. /\ pc[s] = "classify" /\ job[s][d].stage = "listed"
      /\ UNCHANGED <<versions, analyses, clock, current, scans, failed, pc, sources>>
  BY DEF Classify, environment
<1>2. ProgressInv(s) /\ ErrorInv(s) /\ current[s] = {}
  BY <1>1 DEF ScanInv, ProgressInv, Handling
<1>3. CASE a # "not_applicable"
  <2>1. UNCHANGED results
    BY <1>3 DEF Classify
  <2>2. /\ Elsewhere(s)
        /\ \A e \in Documents \ {d} : job'[s][e] = job[s][e]
        /\ job'[s][d].stage = "relevant" /\ job'[s][d].previous = job[s][d].previous
        /\ job'[s][d].fetched = job[s][d].fetched
    BY <1>1, <1>3, <2>1, ClassifyChanges, OneJobElsewhere DEF ScanTypeOK
  <2>3. ProgressInv(s)' /\ ErrorInv(s)'
    BY <1>1, <1>2, <2>1, <2>2 DEF ProgressInv, ErrorInv
  <2>4. ASSUME NEW e \in Documents PROVE StageInv(s, e)' /\ FetchInv(s, e)'
    <3>1. StageInv(s, e)'
      BY <1>1, <1>2, <2>1, <2>2 DEF ScanInv, StageInv, Downloading
    <3>2. FetchInv(s, e)'
      BY <1>1, <1>2, <2>2 DEF ScanInv, FetchInv, Differs
    <3> QED BY <3>1, <3>2
  <2> QED BY <1>1, <2>1, <2>2, <2>3, <2>4, JobsMoved
<1>4. CASE a = "not_applicable"
  <2> DEFINE r == [NoResult EXCEPT !.outcome = "filtered"]
  <2>1. /\ r \in Result /\ r.outcome = "filtered"
        /\ r.version = NoVersion /\ r.previous = NoVersion
    BY DEF NoResult, Result, Outcome, Applicability
  <2>2. results' = [results EXCEPT ![s][d] = r]
    BY <1>4 DEF Classify
  <2> HIDE DEF r
  <2>3. /\ results'[s][d] = r
        /\ \A t \in Scans, e \in Documents :
             t # s \/ e # d => results'[t][e] = results[t][e]
    BY <2>1, <2>2, ResultUpdate
  <2>4. /\ Elsewhere(s)
        /\ \A e \in Documents \ {d} : job'[s][e] = job[s][e]
        /\ job'[s][d].stage = "dropped" /\ job'[s][d].previous = job[s][d].previous
        /\ job'[s][d].fetched = job[s][d].fetched
    <3>1. JobChanges(s, d, "dropped", job[s][d].applicability, job[s][d].previous,
                     job[s][d].fetched)
      BY <1>4, StageChanges DEF Classify, Stage
    <3>2. \A t \in Scans \ {s} :
             /\ scans'[t] = scans[t] /\ pc'[t] = pc[t] /\ sources'[t] = sources[t]
             /\ current'[t] = current[t] /\ failed'[t] = failed[t]
             /\ \A e \in Documents : results'[t][e] = results[t][e]
      BY <1>1, <2>3
    <3>3. versions \subseteq versions' /\ clock <= clock'
      BY <1>1 DEF ScanTypeOK
    <3> QED BY <3>1, <3>2, <3>3, OneJobElsewhere
  <2>5. ProgressInv(s)' /\ ErrorInv(s)'
    BY <1>1, <1>2, <2>1, <2>3, <2>4 DEF ProgressInv, ErrorInv
  <2>6. ASSUME NEW e \in Documents
        PROVE  StageInv(s, e)' /\ FetchInv(s, e)' /\ ResultInv(s, e)'
    <3>1. StageInv(s, e)'
      BY <1>1, <1>2, <2>1, <2>3, <2>4 DEF ScanInv, StageInv, Downloading
    <3>2. FetchInv(s, e)'
      BY <1>1, <1>2, <2>4 DEF ScanInv, FetchInv, Differs
    <3>3. ResultInv(s, e)'
      BY <1>1, <2>1, <2>3, ResultsKept, <2>4 DEF ResultInv
    <3> QED BY <3>1, <3>2, <3>3
  <2>7. ASSUME NEW run \in analyses PROVE RunInv(run)'
    <3>1. run.scan \in Scans /\ run.document \in Documents /\ RunInv(run)
      BY DEF ScanTypeOK, ScanInv
    <3>2. ~ (run.scan = s /\ run.document = d)
      BY <1>1, <3>1 DEF RunInv
    <3> QED BY <1>1, <2>3, <2>4, <3>1, <3>2 DEF RunInv, Elsewhere
  <2> QED BY <1>1, <2>4, <2>5, <2>6, <2>7, ScanStep
<1> QED BY <1>3, <1>4

LEMMA InvAfterTakeReady ==
    ASSUME ScanTypeOK, ScanTypeOK', ScanInv, NEW s \in Scans, NEW d \in Documents,
           TakeReady(s, d)
    PROVE  ScanInv'
<1>1. /\ pc[s] = "download" /\ job[s][d].stage \in {"fetched", "broken"}
      /\ current'[s] = {d}
      /\ failed'[s] = (failed[s] \/ job[s][d].stage = "broken")
      /\ pc'[s] = IF job[s][d].stage = "broken" THEN "record_error"
                  ELSE IF job[s][d].fetched = job[s][d].previous THEN "record"
                  ELSE "select"
      /\ UNCHANGED <<versions, analyses, clock, results, scans, sources>>
      /\ \A t \in Scans \ {s} : /\ pc'[t] = pc[t] /\ current'[t] = current[t]
                                /\ failed'[t] = failed[t]
  BY DEF TakeReady, Goto, environment, tables, ScanTypeOK
<1>2. /\ Elsewhere(s)
      /\ \A e \in Documents \ {d} : job'[s][e] = job[s][e]
      /\ job'[s][d].stage = "handled" /\ job'[s][d].previous = job[s][d].previous
      /\ job'[s][d].fetched = job[s][d].fetched
  <2>1. JobChanges(s, d, "handled", job[s][d].applicability, job[s][d].previous,
                   job[s][d].fetched)
    BY StageChanges DEF TakeReady, Stage
  <2> QED BY <1>1, <2>1, OneJobElsewhere DEF ScanTypeOK
<1>3. ProgressInv(s) /\ ErrorInv(s) /\ StageInv(s, d) /\ FetchInv(s, d) /\ current[s] = {}
  BY <1>1 DEF ScanInv, ProgressInv, Handling
<1>4. ProgressInv(s)' /\ ErrorInv(s)'
  BY <1>1, <1>2, <1>3 DEF ProgressInv, ErrorInv, Handling, Finished
<1>5. ASSUME NEW e \in Documents PROVE StageInv(s, e)' /\ FetchInv(s, e)'
  <2>1. StageInv(s, e)'
    BY <1>1, <1>2, <1>3 DEF ScanInv, StageInv, Downloading
  <2>2. CASE e = d
    <3>1. /\ pc'[s] \notin {"insert", "analyse"}
          /\ pc'[s] \in {"select", "record"} => job[s][d].stage = "fetched"
          /\ pc'[s] = "select" => job[s][d].fetched # job[s][d].previous
          /\ pc'[s] = "record" => job[s][d].fetched = job[s][d].previous
          /\ UNCHANGED <<versions, clock>>
      BY <1>1
    <3> QED BY <1>2, <1>3, <2>1, <2>2, <3>1 DEF FetchInv, Differs
  <2>3. CASE e # d
    <3>1. /\ FetchInv(s, e) /\ e \notin current'[s] /\ job'[s][e] = job[s][e]
          /\ UNCHANGED <<versions, clock>>
      BY <1>1, <1>2, <2>3 DEF ScanInv
    <3> QED BY <2>1, <3>1 DEF FetchInv, Differs
  <2> QED BY <2>1, <2>2, <2>3
<1> QED BY <1>1, <1>2, <1>4, <1>5, JobsMoved

(* What a step on the document in hand finds.                              *)
LEMMA InHand ==
    ASSUME ScanTypeOK, ScanInv, NEW s \in Scans, NEW d \in current[s]
    PROVE  /\ current[s] = {d} /\ d \in Documents
           /\ pc[s] \in Handling /\ scans[s] \notin Finished \cup {"absent"}
           /\ job[s][d].stage = "handled"
           /\ ProgressInv(s) /\ ErrorInv(s) /\ StageInv(s, d) /\ FetchInv(s, d)
<1>1. current[s] \subseteq Documents
  BY DEF ScanTypeOK
<1>2. ProgressInv(s) /\ ErrorInv(s) /\ StageInv(s, d) /\ FetchInv(s, d)
  BY <1>1 DEF ScanInv
<1>3. current[s] = {d} /\ pc[s] \in Handling /\ scans[s] \notin Finished \cup {"absent"}
  BY <1>2 DEF ProgressInv, Handling, Finished
<1>4. job[s][d].stage = "handled"
  BY <1>2 DEF StageInv
<1> QED BY <1>1, <1>2, <1>3, <1>4

LEMMA InvAfterSelectVersion ==
    ASSUME ScanTypeOK, ScanTypeOK', ScanInv, NEW s \in Scans, NEW d \in Documents,
           SelectVersion(s, d)
    PROVE  ScanInv'
<1>1. /\ pc[s] = "select" /\ d \in current[s]
      /\ UNCHANGED <<versions, analyses, clock, results, scans, sources, current, failed>>
      /\ \A t \in Scans \ {s} : pc'[t] = pc[t]
  BY DEF SelectVersion, Goto, environment, tables, ScanTypeOK
<1>2. /\ current[s] = {d} /\ job[s][d].stage = "handled"
      /\ ProgressInv(s) /\ ErrorInv(s) /\ StageInv(s, d) /\ FetchInv(s, d)
  BY <1>1, InHand
<1>3. CASE SameKey(job[s][d].fetched) = {}
  <2>1. pc'[s] = "insert" /\ UNCHANGED job /\ Elsewhere(s)
    BY <1>1, <1>3 DEF SelectVersion, Goto, Elsewhere, ScanTypeOK
  <2>2. ProgressInv(s)' /\ ErrorInv(s)'
    BY <1>1, <1>2, <2>1 DEF ProgressInv, ErrorInv, Handling, Finished
  <2>3. ASSUME NEW e \in Documents PROVE StageInv(s, e)' /\ FetchInv(s, e)'
    <3>1. StageInv(s, e)'
      BY <1>1, <2>1 DEF ScanInv, StageInv, Downloading
    <3>2. FetchInv(s, e)'
      BY <1>1, <2>1 DEF ScanInv, FetchInv, Differs
    <3> QED BY <3>1, <3>2
  <2> QED BY <1>1, <2>1, <2>2, <2>3, JobsKept
<1>4. CASE SameKey(job[s][d].fetched) # {}
  <2>1. /\ StoredVersion(s, d) \in SameKey(job[s][d].fetched)
        /\ JobChanges(s, d, job[s][d].stage, job[s][d].applicability,
                      job[s][d].previous, StoredVersion(s, d))
    BY <1>4, SelectVersionChanges
  <2>2. /\ Elsewhere(s)
        /\ \A e \in Documents \ {d} : job'[s][e] = job[s][e]
        /\ job'[s][d].stage = job[s][d].stage
        /\ job'[s][d].applicability = job[s][d].applicability
        /\ job'[s][d].previous = job[s][d].previous
        /\ job'[s][d].fetched = StoredVersion(s, d)
    BY <1>1, <2>1, OneJobElsewhere DEF ScanTypeOK
  <2>3. pc'[s] = "analyse"
    BY <1>4 DEF SelectVersion, Goto, ScanTypeOK
  <2>4. /\ StoredVersion(s, d) \in versions
        /\ StoredVersion(s, d).content = job[s][d].fetched.content
        /\ StoredVersion(s, d).retrieved_at < clock
        /\ SourceOf[StoredVersion(s, d).document]
             = SourceOf[job[s][d].fetched.document]
    BY <2>1 DEF SameKey, ScanInv
  <2>5. ProgressInv(s)' /\ ErrorInv(s)'
    BY <1>1, <1>2, <2>2, <2>3 DEF ProgressInv, ErrorInv, Handling, Finished
  <2>6. ASSUME NEW e \in Documents PROVE StageInv(s, e)' /\ FetchInv(s, e)'
    <3>1. StageInv(s, e)'
      BY <1>1, <1>2, <2>2, <2>3 DEF ScanInv, StageInv, Downloading
    <3>2. CASE e = d
      BY <1>1, <1>2, <2>2, <2>3, <2>4, <3>1, <3>2 DEF FetchInv, Differs
    <3>3. CASE e # d
      <4>1. /\ FetchInv(s, e) /\ e \notin current'[s] /\ job'[s][e] = job[s][e]
            /\ UNCHANGED <<versions, clock>>
        BY <1>1, <1>2, <2>2, <3>3 DEF ScanInv
      <4> QED BY <3>1, <4>1 DEF FetchInv, Differs
    <3> QED BY <3>1, <3>2, <3>3
  <2>7. \A e \in Documents : job[s][e].stage = "handled" =>
            /\ job'[s][e].stage = "handled"
            /\ job'[s][e].applicability = job[s][e].applicability
    BY <2>2
  <2> QED BY <1>1, <2>2, <2>5, <2>6, <2>7, JobsMoved
<1> QED BY <1>3, <1>4

LEMMA InvAfterInsertVersion ==
    ASSUME ScanTypeOK, ScanTypeOK', ScanInv, NEW s \in Scans, NEW d \in Documents,
           InsertVersion(s, d)
    PROVE  ScanInv'
<1> DEFINE v == job[s][d].fetched
<1>1. /\ pc[s] = "insert" /\ d \in current[s]
      /\ UNCHANGED <<analyses, clock, job, results, scans, sources, current>>
      /\ \A t \in Scans \ {s} : pc'[t] = pc[t] /\ failed'[t] = failed[t]
      /\ \/ versions' = versions \cup {v} /\ pc'[s] = "analyse" /\ UNCHANGED failed
         \/ pc'[s] = "record_error" /\ failed'[s] = TRUE /\ UNCHANGED versions
  BY DEF InsertVersion, Goto, environment, ScanTypeOK
<1>2. /\ current[s] = {d} /\ job[s][d].stage = "handled"
      /\ ProgressInv(s) /\ ErrorInv(s) /\ StageInv(s, d) /\ FetchInv(s, d)
  BY <1>1, InHand
<1>3. v # NoVersion /\ v.retrieved_at < clock /\ Differs(job[s][d])
  BY <1>1, <1>2 DEF FetchInv
<1>4. Elsewhere(s)
  BY <1>1 DEF Elsewhere, ScanTypeOK
<1>5. ProgressInv(s)' /\ ErrorInv(s)'
  BY <1>1, <1>2 DEF ProgressInv, ErrorInv, Handling, Finished
<1>6. ASSUME NEW e \in Documents
      PROVE  StageInv(s, e)' /\ FetchInv(s, e)' /\ ResultInv(s, e)'
  <2>1. StageInv(s, e)'
    BY <1>1 DEF ScanInv, StageInv, Downloading
  <2>2. FetchInv(s, e)'
    <3>1. /\ FetchInv(s, e) /\ UNCHANGED <<job, clock, current>>
          /\ versions \subseteq versions'
          /\ \/ pc'[s] = "analyse" /\ v \in versions'
             \/ pc'[s] = "record_error"
          /\ e \in current[s] => e = d
      BY <1>1, <1>2 DEF ScanInv
    <3> QED BY <1>3, <3>1 DEF FetchInv, Differs
  <2>3. ResultInv(s, e)'
    BY <1>1, <1>4, ResultsKept
  <2> QED BY <2>1, <2>2, <2>3
<1>7. \A run \in analyses' : RunInv(run)'
  BY <1>1, <1>4, RunsKept
<1>8. \A w \in versions' : w \in versions \/ w.retrieved_at < clock'
  BY <1>1, <1>3
<1> QED BY <1>4, <1>5, <1>6, <1>7, <1>8, ScanStep

LEMMA InvAfterAnalyse ==
    ASSUME ScanTypeOK, ScanTypeOK', ScanInv, NEW s \in Scans, NEW d \in Documents,
           Analyse(s, d)
    PROVE  ScanInv'
<1> DEFINE new == [scan |-> s, document |-> d, old |-> job[s][d].previous,
                   new |-> job[s][d].fetched]
<1>1. /\ pc[s] = "analyse" /\ d \in current[s] /\ pc'[s] = "record"
      /\ UNCHANGED <<versions, clock, job, results, scans, sources, current, failed>>
      /\ \A t \in Scans \ {s} : pc'[t] = pc[t]
      /\ \/ UNCHANGED analyses
         \/ /\ analyses' = analyses \cup {new}
            /\ job[s][d].previous # NoVersion
            /\ TextOf[job[s][d].previous.content] # TextOf[job[s][d].fetched.content]
            /\ job[s][d].applicability = "applicable"
  BY DEF Analyse, Goto, environment, ScanTypeOK
<1>2. /\ current[s] = {d} /\ job[s][d].stage = "handled"
      /\ ProgressInv(s) /\ ErrorInv(s) /\ StageInv(s, d) /\ FetchInv(s, d)
  BY <1>1, InHand
<1>3. Elsewhere(s)
  BY <1>1 DEF Elsewhere, ScanTypeOK
<1>4. ProgressInv(s)' /\ ErrorInv(s)'
  BY <1>1, <1>2 DEF ProgressInv, ErrorInv, Handling, Finished
<1>5. ASSUME NEW e \in Documents
      PROVE  StageInv(s, e)' /\ FetchInv(s, e)' /\ ResultInv(s, e)'
  <2>1. StageInv(s, e)'
    BY <1>1 DEF ScanInv, StageInv, Downloading
  <2>2. FetchInv(s, e)'
    BY <1>1 DEF ScanInv, FetchInv, Differs
  <2>3. ResultInv(s, e)'
    BY <1>1, <1>3, ResultsKept
  <2> QED BY <2>1, <2>2, <2>3
<1>6. \A run \in analyses : RunInv(run)'
  BY <1>1, <1>3, RunsKept
<1>7. ASSUME analyses' = analyses \cup {new},
             job[s][d].previous # NoVersion,
             TextOf[job[s][d].previous.content] # TextOf[job[s][d].fetched.content],
             job[s][d].applicability = "applicable"
      PROVE  RunInv(new)'
  <2>1. /\ job[s][d].fetched \in versions /\ job[s][d].previous \in versions
        /\ job[s][d].previous.document = d
    BY <1>1, <1>2, <1>7 DEF FetchInv
  <2>2. results[s][d].outcome # "absent" => results[s][d].applicability = "applicable"
    BY <1>1, <1>2 DEF ScanInv, StageInv
  <2> QED BY <1>1, <1>2, <1>7, <2>1, <2>2 DEF RunInv
<1>8. \A run \in analyses' : RunInv(run)'
  BY <1>1, <1>6, <1>7
<1> QED BY <1>1, <1>3, <1>4, <1>5, <1>8, ScanStep

LEMMA InvAfterRecord ==
    ASSUME ScanTypeOK, ScanTypeOK', ScanInv, NEW s \in Scans, NEW d \in Documents,
           Record(s, d)
    PROVE  ScanInv'
<1> DEFINE o == OutcomeOf(job[s][d])
           b == RunsOf(s, d) # {}
           r == [outcome |-> o, applicability |-> job[s][d].applicability,
                 version |-> job[s][d].fetched, previous |-> job[s][d].previous,
                 analysed |-> b]
<1>1. /\ pc[s] = "record" /\ d \in current[s]
      /\ UNCHANGED <<versions, analyses, clock, job, scans, sources, failed>>
      /\ \A t \in Scans \ {s} : pc'[t] = pc[t] /\ current'[t] = current[t]
      /\ \/ pc'[s] = "match" /\ current'[s] = current[s]
         \/ pc'[s] = "download" /\ current'[s] = {}
  BY DEF Record, Goto, environment, ScanTypeOK
<1>2. /\ current[s] = {d} /\ job[s][d].stage = "handled"
      /\ ProgressInv(s) /\ ErrorInv(s) /\ StageInv(s, d) /\ FetchInv(s, d)
  BY <1>1, InHand
<1>3. results' = [results EXCEPT ![s][d] = r]
  BY DEF Record
<1>4. o \in {"unchanged", "new", "changed"} /\ b \in BOOLEAN
  BY DEF OutcomeOf
<1>5. /\ o = "unchanged" => job[s][d].fetched = job[s][d].previous
      /\ o = "new" => job[s][d].previous = NoVersion
      /\ o = "changed" => /\ job[s][d].fetched # job[s][d].previous
                          /\ job[s][d].previous # NoVersion
  BY DEF OutcomeOf
<1> HIDE DEF o, b
<1>6. /\ r \in Result /\ r.outcome = o /\ r.applicability = job[s][d].applicability
      /\ r.version = job[s][d].fetched /\ r.previous = job[s][d].previous
  BY <1>4, ResultTypes, JobTypes DEF Outcome
<1> HIDE DEF r
<1>7. /\ results'[s][d] = r
      /\ \A t \in Scans, e \in Documents :
           t # s \/ e # d => results'[t][e] = results[t][e]
  BY <1>3, <1>6, ResultUpdate
<1>8. Elsewhere(s)
  BY <1>1, <1>7 DEF Elsewhere, ScanTypeOK
<1>9. ProgressInv(s)' /\ ErrorInv(s)'
  BY <1>1, <1>2, <1>4, <1>6, <1>7 DEF ProgressInv, ErrorInv, Handling, Finished
<1>10. /\ job[s][d].fetched \in versions
       /\ job[s][d].fetched = job[s][d].previous \/ Differs(job[s][d])
       /\ job[s][d].previous \in versions \cup {NoVersion}
       /\ job[s][d].previous # NoVersion => job[s][d].previous.document = d
       /\ job[s][d].fetched # NoVersion
       /\ SourceOf[job[s][d].fetched.document] = SourceOf[d]
  BY <1>1, <1>2, NoVersionAssumption DEF FetchInv, ScanTypeOK
<1>11. ResultInv(s, d)'
  BY <1>1, <1>5, <1>6, <1>7, <1>10 DEF ResultInv, Differs
<1>12. ASSUME NEW e \in Documents
       PROVE  StageInv(s, e)' /\ FetchInv(s, e)' /\ ResultInv(s, e)'
  <2>1. StageInv(s, e)'
    BY <1>1, <1>2, <1>4, <1>6, <1>7 DEF ScanInv, StageInv, Downloading
  <2>2. FetchInv(s, e)'
    BY <1>1 DEF ScanInv, FetchInv, Differs
  <2>3. ResultInv(s, e)'
    BY <1>7, <1>8, <1>11, ResultsKept
  <2> QED BY <2>1, <2>2, <2>3
<1>13. ASSUME NEW run \in analyses PROVE RunInv(run)'
  <2>1. run.scan \in Scans /\ run.document \in Documents /\ RunInv(run)
    BY DEF ScanTypeOK, ScanInv
  <2>2. CASE run.scan = s /\ run.document = d
    BY <1>1, <1>2, <1>6, <1>7, <2>1, <2>2 DEF RunInv
  <2>3. CASE run.scan = s /\ run.document # d
    BY <1>1, <1>7, <2>1, <2>3 DEF RunInv
  <2>4. CASE run.scan # s
    BY <1>1, <1>7, <2>1, <2>4 DEF RunInv
  <2> QED BY <2>2, <2>3, <2>4
<1> QED BY <1>1, <1>8, <1>9, <1>12, <1>13, ScanStep

LEMMA InvAfterRecordError ==
    ASSUME ScanTypeOK, ScanTypeOK', ScanInv, NEW s \in Scans, NEW d \in Documents,
           RecordError(s, d)
    PROVE  ScanInv'
<1> DEFINE r == [outcome |-> "error", applicability |-> job[s][d].applicability,
                 version |-> job[s][d].previous, previous |-> job[s][d].previous,
                 analysed |-> FALSE]
<1>1. /\ pc[s] = "record_error" /\ d \in current[s]
      /\ pc'[s] = "download" /\ current'[s] = {}
      /\ UNCHANGED <<versions, analyses, clock, job, scans, sources, failed>>
      /\ \A t \in Scans \ {s} : pc'[t] = pc[t] /\ current'[t] = current[t]
  BY DEF RecordError, Goto, environment, ScanTypeOK
<1>2. /\ current[s] = {d} /\ job[s][d].stage = "handled"
      /\ ProgressInv(s) /\ ErrorInv(s) /\ StageInv(s, d) /\ FetchInv(s, d)
  BY <1>1, InHand
<1>3. results' = [results EXCEPT ![s][d] = r]
  BY DEF RecordError
<1>4. /\ r \in Result /\ r.outcome = "error" /\ r.applicability = job[s][d].applicability
      /\ r.version = job[s][d].previous /\ r.previous = job[s][d].previous
  BY ResultTypes, JobTypes DEF Outcome
<1> HIDE DEF r
<1>5. /\ results'[s][d] = r
      /\ \A t \in Scans, e \in Documents :
           t # s \/ e # d => results'[t][e] = results[t][e]
  BY <1>3, <1>4, ResultUpdate
<1>6. Elsewhere(s)
  BY <1>1, <1>5 DEF Elsewhere, ScanTypeOK
<1>7. ProgressInv(s)' /\ ErrorInv(s)'
  BY <1>1, <1>2, <1>4, <1>5 DEF ProgressInv, ErrorInv, Handling, Finished
<1>8. ResultInv(s, d)'
  BY <1>1, <1>2, <1>4, <1>5 DEF ResultInv, FetchInv
<1>9. ASSUME NEW e \in Documents
      PROVE  StageInv(s, e)' /\ FetchInv(s, e)' /\ ResultInv(s, e)'
  <2>1. StageInv(s, e)'
    BY <1>1, <1>2, <1>4, <1>5 DEF ScanInv, StageInv, Downloading
  <2>2. FetchInv(s, e)'
    BY <1>1 DEF ScanInv, FetchInv, Differs
  <2>3. ResultInv(s, e)'
    BY <1>5, <1>6, <1>8, ResultsKept
  <2> QED BY <2>1, <2>2, <2>3
<1>10. ASSUME NEW run \in analyses PROVE RunInv(run)'
  <2>1. run.scan \in Scans /\ run.document \in Documents /\ RunInv(run)
    BY DEF ScanTypeOK, ScanInv
  <2>2. CASE run.scan = s /\ run.document = d
    BY <1>1, <1>2, <1>4, <1>5, <2>1, <2>2 DEF RunInv
  <2>3. CASE run.scan = s /\ run.document # d
    BY <1>1, <1>5, <2>1, <2>3 DEF RunInv
  <2>4. CASE run.scan # s
    BY <1>1, <1>5, <2>1, <2>4 DEF RunInv
  <2> QED BY <2>2, <2>3, <2>4
<1> QED BY <1>1, <1>6, <1>7, <1>9, <1>10, ScanStep

(* Threads die, one or all of them: their scans stay as they are for good. *)
LEMMA InvAfterForget ==
    ASSUME ScanTypeOK, ScanInv, NEW S, Forget(S), UNCHANGED <<tables, clock>>,
           \A s \in Scans : s \in S => pc[s] # "idle"
    PROVE  ScanInv'
<1>1. /\ UNCHANGED <<scans, versions, results, analyses, clock>>
      /\ \A s \in Scans : IF s \in S
           THEN /\ pc'[s] = "gone" /\ sources'[s] = {} /\ current'[s] = {}
                /\ \A d \in Documents : job'[s][d] = NoJob
           ELSE /\ pc'[s] = pc[s] /\ sources'[s] = sources[s]
                /\ current'[s] = current[s] /\ failed'[s] = failed[s]
                /\ \A d \in Documents : job'[s][d] = job[s][d]
  BY DEF Forget, tables
<1>2. ASSUME NEW s \in Scans, s \in S
      PROVE  /\ ProgressInv(s)' /\ ErrorInv(s)'
             /\ \A d \in Documents : StageInv(s, d)' /\ FetchInv(s, d)'
  <2>1. ProgressInv(s) /\ pc[s] # "idle"
    BY <1>2 DEF ScanInv
  <2>2. ProgressInv(s)' /\ ErrorInv(s)'
    BY <1>1, <1>2, <2>1 DEF ProgressInv, ErrorInv, Handling, Finished
  <2>3. \A d \in Documents : StageInv(s, d)' /\ FetchInv(s, d)'
    BY <1>1, <1>2 DEF StageInv, FetchInv, NoJob, Downloading
  <2> QED BY <2>2, <2>3
<1>3. ASSUME NEW s \in Scans, s \notin S
      PROVE  /\ ProgressInv(s)' /\ ErrorInv(s)'
             /\ \A d \in Documents : StageInv(s, d)' /\ FetchInv(s, d)'
  <2>1. ProgressInv(s)' /\ ErrorInv(s)'
    BY <1>1, <1>3 DEF ScanInv, ProgressInv, ErrorInv
  <2>2. ASSUME NEW d \in Documents PROVE StageInv(s, d)' /\ FetchInv(s, d)'
    <3>1. StageInv(s, d)'
      BY <1>1, <1>3 DEF ScanInv, StageInv
    <3>2. FetchInv(s, d)'
      BY <1>1, <1>3 DEF ScanInv, FetchInv, Differs
    <3> QED BY <3>1, <3>2
  <2> QED BY <2>1, <2>2
<1>4. \A s \in Scans, d \in Documents : ResultInv(s, d)'
  BY <1>1 DEF ScanInv, ResultInv
<1>5. ASSUME NEW run \in analyses PROVE RunInv(run)'
  <2>1. run.scan \in Scans /\ run.document \in Documents /\ RunInv(run)
    BY DEF ScanTypeOK, ScanInv
  <2> QED BY <1>1, <2>1 DEF RunInv
<1>6. \A v \in versions' : v.retrieved_at < clock'
  BY <1>1 DEF ScanInv
<1> QED BY <1>1, <1>2, <1>3, <1>4, <1>5, <1>6 DEF ScanInv

(* No step breaks the invariant.                                           *)
LEMMA NextInv ==
    ASSUME ScanTypeOK, ScanTypeOK', ScanInv, [ScanNext]_scanVars
    PROVE  ScanInv'
<1>1. CASE UNCHANGED <<clock, tables, thread>>
  BY <1>1
  DEF tables, thread, ScanInv, ProgressInv, ErrorInv, StageInv, FetchInv, Differs,
      ResultInv, RunInv
<1>2. ASSUME NEW d \in Documents, NEW c \in Contents, Publish(d, c) PROVE ScanInv'
  BY <1>1, <1>2 DEF Publish
<1>3. ASSUME NEW s \in Scans, Die(s) PROVE ScanInv'
  BY <1>3, InvAfterForget DEF Die, environment
<1>4. CASE Crash
  BY <1>4, InvAfterForget DEF Crash
<1>5. CASE UNCHANGED scanVars
  BY <1>1, <1>5 DEF scanVars, environment
<1> QED
  BY <1>2, <1>3, <1>4, <1>5, InvAfterCreate, InvAfterStart, InvAfterDiscover,
     InvAfterDiscoverFails, InvAfterClassify, InvAfterReadLatest, InvAfterSubmitted,
     InvAfterRetrieve, InvAfterRetrieveFails, InvAfterTakeReady, InvAfterSelectVersion,
     InvAfterInsertVersion, InvAfterAnalyse, InvAfterRecord, InvAfterMatch,
     InvAfterRecordError, InvAfterSourceDone, InvAfterFinish, InvAfterBreak
  DEF ScanNext, Step, Fault

(* The invariant of the scans, and with it every variable's type: that a   *)
(* stored version is a version depends on what a thread has in hand.       *)
THEOREM ScanInvariant == ScanSpec => [](ScanTypeOK /\ ScanInv)
<1>1. ScanInit => ScanTypeOK /\ ScanInv
  BY InitTypeOK, InitInv
<1>2. ScanTypeOK /\ ScanInv /\ [ScanNext]_scanVars => (ScanTypeOK /\ ScanInv)'
  BY NextTypeOK, NextInv
<1> QED BY <1>1, <1>2, PTL DEF ScanSpec

(* Every variable keeps its type, whatever scans race, fail or die.        *)
THEOREM ScanTypeCorrect == ScanSpec => []ScanTypeOK
BY ScanInvariant, PTL

(* A scan that finished has a result for every document it found, and says *)
(* so if one of them is an error, whatever failed and however its downloads*)
(* were ordered.                                                           *)
THEOREM FinishedScansReport == ScanSpec => []FinishedScansReportAll
<1>1. ScanTypeOK /\ ScanInv => FinishedScansReportAll
  <2> SUFFICES ASSUME ScanTypeOK, ScanInv, NEW s \in Scans, NEW d \in Documents,
                      scans[s] \in Finished
               PROVE  /\ job[s][d].stage # "unlisted" => results[s][d].outcome # "absent"
                      /\ results[s][d].outcome = "error" =>
                           scans[s] = "completed_with_errors"
    BY DEF FinishedScansReportAll
  <2>1. pc[s] = "idle" /\ current[s] = {} /\ ErrorInv(s) /\ StageInv(s, d)
    BY DEF ScanInv, ProgressInv, Handling
  <2> QED BY <2>1 DEF ErrorInv, StageInv, Downloading
<1> QED BY <1>1, ScanInvariant, PTL

(* A result names stored versions, and its outcome tells them apart, even  *)
(* when two scans race to store the same version.                          *)
THEOREM ResultsAreGrounded == ScanSpec => []OutcomesAreGrounded
<1>1. ScanInv => OutcomesAreGrounded
  BY DEF ScanInv, ResultInv, OutcomesAreGrounded
<1> QED BY <1>1, ScanInvariant, PTL

(* A run is created only for two stored texts that differ, in a document   *)
(* that affirmatively applies.                                             *)
THEOREM AnalysisIsGated == ScanSpec => []ImpactIsGated
<1>1. ScanInv => ImpactIsGated
  BY DEF ScanInv, RunInv, ImpactIsGated
<1> QED BY <1>1, ScanInvariant, PTL

-----------------------------------------------------------------------------
(* Why a scan ends.                                                        *)

(* What a scan has done, from the broadest to the finest: its status, the  *)
(* sources it visited, the stages its documents reached, and where it is   *)
(* with the document in hand.                                              *)
StatusRank == [absent |-> 0, queued |-> 1, running |-> 2, completed |-> 3,
               completed_with_errors |-> 3]
StageRank == [unlisted |-> 0, listed |-> 1, dropped |-> 2, relevant |-> 2,
              submitted |-> 3, fetched |-> 4, broken |-> 4, handled |-> 5]
PlaceRank == [classify |-> 0, select |-> 1, insert |-> 2, analyse |-> 3,
              record |-> 4, match |-> 5, record_error |-> 6, download |-> 7,
              next_source |-> 8, start |-> 9, idle |-> 9, gone |-> 9]

StageOf(s, d) == StageRank[job[s][d].stage]

(* A step takes a scan further: the broadest of these that changes grows.  *)
StatusRises(s) == StatusRank[scans[s]] < StatusRank[scans'[s]]

SourceVisited(s) ==
    /\ scans'[s] = scans[s]
    /\ sources'[s] \subseteq sources[s] /\ sources'[s] # sources[s]

StageReached(s) ==
    /\ scans'[s] = scans[s] /\ sources'[s] = sources[s]
    /\ \A d \in Documents : StageOf(s, d) <= StageOf(s, d)'
    /\ \E d \in Documents : StageOf(s, d) < StageOf(s, d)'

PlaceReached(s) ==
    /\ scans'[s] = scans[s] /\ sources'[s] = sources[s]
    /\ \A d \in Documents : job'[s][d].stage = job[s][d].stage
    /\ PlaceRank[pc[s]] < PlaceRank[pc'[s]]

Died(s) == pc[s] \notin {"idle", "gone"} /\ pc'[s] = "gone"

Advances(s) ==
    \/ Died(s)
    \/ /\ pc[s] # "gone"
       /\ StatusRises(s) \/ SourceVisited(s) \/ StageReached(s) \/ PlaceReached(s)

(* Nothing of the scan changes.                                            *)
Rests(s) ==
    /\ scans'[s] = scans[s] /\ results'[s] = results[s] /\ pc'[s] = pc[s]
    /\ sources'[s] = sources[s] /\ job'[s] = job[s] /\ current'[s] = current[s]
    /\ failed'[s] = failed[s]

(* A thread has a document in hand where it handles one, a scan's status   *)
(* goes with where its thread is, and a thread that died left nothing.     *)
PlaceInv(s) ==
    /\ pc[s] \in Handling => \E d \in Documents : d \in current[s]
    /\ pc[s] = "start" => scans[s] = "queued"
    /\ pc[s] \notin {"idle", "start", "gone"} => scans[s] = "running"
    /\ pc[s] = "gone" => /\ sources[s] = {} /\ current[s] = {} /\ failed[s] = FALSE
                         /\ job[s] = [d \in Documents |-> NoJob]

(* A step of one scan: the others rest.                                    *)
MovesOn(s) ==
    /\ \A t \in Scans \ {s} : Rests(t)
    /\ Advances(s)
    /\ PlaceInv(s)'

LEMMA Ranks ==
    /\ StatusRank["absent"] = 0 /\ StatusRank["queued"] = 1
    /\ StatusRank["running"] = 2 /\ StatusRank["completed"] = 3
    /\ StatusRank["completed_with_errors"] = 3
    /\ StageRank["unlisted"] = 0 /\ StageRank["listed"] = 1
    /\ StageRank["dropped"] = 2 /\ StageRank["relevant"] = 2
    /\ StageRank["submitted"] = 3 /\ StageRank["fetched"] = 4
    /\ StageRank["broken"] = 4 /\ StageRank["handled"] = 5
    /\ PlaceRank["classify"] = 0 /\ PlaceRank["select"] = 1
    /\ PlaceRank["insert"] = 2 /\ PlaceRank["analyse"] = 3
    /\ PlaceRank["record"] = 4 /\ PlaceRank["match"] = 5
    /\ PlaceRank["record_error"] = 6 /\ PlaceRank["download"] = 7
    /\ PlaceRank["next_source"] = 8 /\ PlaceRank["start"] = 9
    /\ PlaceRank["idle"] = 9 /\ PlaceRank["gone"] = 9
BY DEF StatusRank, StageRank, PlaceRank

LEMMA StageRanks == \A st \in Stage : StageRank[st] \in Nat
BY Ranks DEF Stage

(* The two ways of most steps: the thread goes on and leaves the jobs'     *)
(* stages, or one job's stage rises.                                       *)
LEMMA PlaceStep ==
    ASSUME NEW s \in Scans, pc[s] # "gone",
           scans'[s] = scans[s], sources'[s] = sources[s],
           \A d \in Documents : job'[s][d].stage = job[s][d].stage,
           PlaceRank[pc[s]] < PlaceRank[pc'[s]]
    PROVE  Advances(s)
BY DEF Advances, PlaceReached

LEMMA StageStep ==
    ASSUME ScanTypeOK, NEW s \in Scans, NEW d \in Documents, pc[s] # "gone",
           scans'[s] = scans[s], sources'[s] = sources[s],
           \A e \in Documents \ {d} : job'[s][e] = job[s][e],
           job'[s][d].stage \in Stage,
           StageRank[job[s][d].stage] < StageRank[job'[s][d].stage]
    PROVE  Advances(s)
<1>1. /\ \A e \in Documents : StageRank[job[s][e].stage] \in Nat
      /\ StageRank[job'[s][d].stage] \in Nat
  BY JobTypes, StageRanks
<1>2. \A e \in Documents : StageOf(s, e) <= StageOf(s, e)'
  <2> SUFFICES ASSUME NEW e \in Documents PROVE StageOf(s, e) <= StageOf(s, e)'
    OBVIOUS
  <2>1. CASE e = d
    BY <2>1, <1>1 DEF StageOf
  <2>2. CASE e # d
    BY <2>2, <1>1 DEF StageOf
  <2> QED BY <2>1, <2>2
<1>3. StageOf(s, d) < StageOf(s, d)'
  BY DEF StageOf
<1>4. StageReached(s)
  BY <1>2, <1>3 DEF StageReached
<1> QED BY <1>4 DEF Advances

(* The other scans rest.                                                   *)
LEMMA OthersRest ==
    ASSUME NEW s \in Scans,
           \A t \in Scans \ {s} :
             /\ scans'[t] = scans[t] /\ results'[t] = results[t] /\ pc'[t] = pc[t]
             /\ sources'[t] = sources[t] /\ job'[t] = job[t]
             /\ current'[t] = current[t] /\ failed'[t] = failed[t]
    PROVE  \A t \in Scans \ {s} : Rests(t)
BY DEF Rests

(* A status that changes.                                                  *)
LEMMA CreateMovesOn ==
    ASSUME ScanTypeOK, ScanInv, NEW s \in Scans, Create(s)
    PROVE  MovesOn(s)
<1>1. /\ scans[s] = "absent" /\ scans'[s] = "queued" /\ pc'[s] = "start"
      /\ \A t \in Scans \ {s} : Rests(t)
  BY DEF Create, Goto, Rests, ScanTypeOK
<1>2. pc[s] = "idle"
  BY <1>1 DEF ScanInv, ProgressInv
<1>3. Advances(s)
  BY <1>1, <1>2, Ranks DEF Advances, StatusRises
<1>4. PlaceInv(s)'
  BY <1>1 DEF PlaceInv, Handling
<1> QED BY <1>1, <1>3, <1>4 DEF MovesOn

LEMMA StartMovesOn ==
    ASSUME ScanTypeOK, NEW s \in Scans, PlaceInv(s), NEW b \in BOOLEAN, Start(s, b)
    PROVE  MovesOn(s)
<1>1. /\ pc[s] = "start" /\ pc'[s] = "next_source" /\ scans'[s] = "running"
      /\ \A t \in Scans \ {s} : Rests(t)
  BY DEF Start, Goto, Rests, ScanTypeOK
<1>2. scans[s] = "queued"
  BY <1>1 DEF PlaceInv
<1>3. Advances(s)
  BY <1>1, <1>2, Ranks DEF Advances, StatusRises
<1>4. PlaceInv(s)'
  BY <1>1 DEF PlaceInv, Handling
<1> QED BY <1>1, <1>3, <1>4 DEF MovesOn

LEMMA FinishMovesOn ==
    ASSUME ScanTypeOK, NEW s \in Scans, PlaceInv(s), Finish(s)
    PROVE  MovesOn(s)
<1>1. /\ pc[s] = "next_source" /\ pc'[s] = "idle"
      /\ scans'[s] \in {"completed", "completed_with_errors"}
      /\ \A t \in Scans \ {s} : Rests(t)
  BY DEF Finish, Goto, Rests, ScanTypeOK
<1>2. scans[s] = "running"
  BY <1>1 DEF PlaceInv
<1>3. Advances(s)
  BY <1>1, <1>2, Ranks DEF Advances, StatusRises
<1>4. PlaceInv(s)'
  BY <1>1 DEF PlaceInv, Handling
<1> QED BY <1>1, <1>3, <1>4 DEF MovesOn

(* A source that is visited.                                               *)
LEMMA DiscoverMovesOn ==
    ASSUME ScanTypeOK, NEW s \in Scans, PlaceInv(s), NEW source \in Sources,
           NEW listed \in SUBSET Documents, Discover(s, source, listed)
    PROVE  MovesOn(s)
<1>1. /\ pc[s] = "next_source" /\ pc'[s] = "classify" /\ scans'[s] = scans[s]
      /\ source \in sources[s] /\ sources'[s] = sources[s] \ {source}
      /\ \A t \in Scans \ {s} : Rests(t)
  BY DEF Discover, Goto, Rests, tables, ScanTypeOK
<1>2. Advances(s)
  BY <1>1 DEF Advances, SourceVisited
<1>3. PlaceInv(s)'
  BY <1>1 DEF PlaceInv, Handling
<1> QED BY <1>1, <1>2, <1>3 DEF MovesOn

LEMMA DiscoverFailsMovesOn ==
    ASSUME ScanTypeOK, NEW s \in Scans, PlaceInv(s), NEW source \in Sources,
           DiscoverFails(s, source)
    PROVE  MovesOn(s)
<1>1. /\ pc[s] = "next_source" /\ pc'[s] = "next_source" /\ scans'[s] = scans[s]
      /\ source \in sources[s] /\ sources'[s] = sources[s] \ {source}
      /\ \A t \in Scans \ {s} : Rests(t)
  BY DEF DiscoverFails, Rests, tables, ScanTypeOK
<1>2. Advances(s)
  BY <1>1 DEF Advances, SourceVisited
<1>3. PlaceInv(s)'
  BY <1>1 DEF PlaceInv, Handling
<1> QED BY <1>1, <1>2, <1>3 DEF MovesOn

(* A stage that is reached.                                                *)
LEMMA JobMovesOn ==
    ASSUME ScanTypeOK, NEW s \in Scans, NEW d \in Documents, PlaceInv(s),
           NEW st \in Stage, NEW a, NEW p, NEW f, JobChanges(s, d, st, a, p, f),
           StageRank[job[s][d].stage] < StageRank[st],
           scans' = scans, sources' = sources,
           \A t \in Scans \ {s} : results'[t] = results[t] /\ failed'[t] = failed[t]
                                  /\ pc'[t] = pc[t] /\ current'[t] = current[t],
           pc[s] \notin {"idle", "start", "gone"},
           pc'[s] \notin {"idle", "start", "gone"},
           pc'[s] \in Handling => \E e \in Documents : e \in current'[s]
    PROVE  MovesOn(s)
<1>1. /\ job'[s][d].stage = st
      /\ \A e \in Documents \ {d} : job'[s][e] = job[s][e]
      /\ \A t \in Scans \ {s}, e \in Documents : job'[t][e] = job[t][e]
      /\ job' \in [Scans -> [Documents -> Job]]
  BY DEF JobChanges
<1>2. \A t \in Scans \ {s} : job'[t] = job[t]
  BY <1>1 DEF ScanTypeOK
<1>3. \A t \in Scans \ {s} : Rests(t)
  BY <1>2, OthersRest
<1>4. Advances(s)
  BY <1>1, StageStep
<1>5. PlaceInv(s)'
  BY DEF PlaceInv
<1> QED BY <1>3, <1>4, <1>5 DEF MovesOn

LEMMA ClassifyMovesOn ==
    ASSUME ScanTypeOK, NEW s \in Scans, PlaceInv(s), NEW d \in Documents,
           NEW a \in Applicability, Classify(s, d, a)
    PROVE  MovesOn(s)
<1>1. /\ pc[s] = "classify" /\ job[s][d].stage = "listed"
      /\ UNCHANGED <<pc, scans, sources, current, failed>>
      /\ \A t \in Scans \ {s} : results'[t] = results[t]
  BY DEF Classify, ScanTypeOK
<1>2. CASE a # "not_applicable"
  <2>1. JobChanges(s, d, "relevant", a, job[s][d].previous, job[s][d].fetched)
    BY <1>2, ClassifyChanges
  <2> QED BY <1>1, <2>1, Ranks, JobMovesOn DEF Handling, Stage
<1>3. CASE a = "not_applicable"
  <2>1. JobChanges(s, d, "dropped", job[s][d].applicability, job[s][d].previous,
                   job[s][d].fetched)
    BY <1>3, StageChanges DEF Classify, Stage
  <2> QED BY <1>1, <2>1, Ranks, JobMovesOn DEF Handling, Stage
<1> QED BY <1>2, <1>3

LEMMA ReadLatestMovesOn ==
    ASSUME ScanTypeOK, ScanInv, NEW s \in Scans, PlaceInv(s), NEW d \in Documents,
           ReadLatest(s, d)
    PROVE  MovesOn(s)
<1>1. /\ pc[s] = "classify" /\ job[s][d].stage = "relevant"
      /\ UNCHANGED <<pc, scans, sources, current, failed, results>>
  BY DEF ReadLatest, tables
<1>2. JobChanges(s, d, "submitted", job[s][d].applicability, Latest(d),
                 job[s][d].fetched)
  BY ReadLatestChanges
<1> QED BY <1>1, <1>2, Ranks, JobMovesOn DEF Handling, Stage

LEMMA RetrieveMovesOn ==
    ASSUME ScanTypeOK, NEW s \in Scans, PlaceInv(s), NEW d \in Documents,
           Retrieve(s, d) \/ RetrieveFails(s, d)
    PROVE  MovesOn(s)
<1>1. /\ pc[s] \notin {"idle", "start", "gone"} /\ job[s][d].stage = "submitted"
      /\ UNCHANGED <<pc, scans, sources, current, failed, results>>
      /\ pc'[s] \in Handling => \E e \in Documents : e \in current'[s]
  BY DEF Retrieve, RetrieveFails, Downloading, tables, PlaceInv
<1>2. CASE Retrieve(s, d)
  <2>1. JobChanges(s, d, "fetched", job[s][d].applicability, job[s][d].previous,
                   Fetched(s, d))
    BY <1>2, RetrieveChanges
  <2> QED BY <1>1, <2>1, Ranks, JobMovesOn DEF Stage
<1>3. CASE RetrieveFails(s, d)
  <2>1. JobChanges(s, d, "broken", job[s][d].applicability, job[s][d].previous,
                   job[s][d].fetched)
    BY <1>3, StageChanges DEF RetrieveFails, Stage
  <2> QED BY <1>1, <2>1, Ranks, JobMovesOn DEF Stage
<1> QED BY <1>2, <1>3

LEMMA TakeReadyMovesOn ==
    ASSUME ScanTypeOK, NEW s \in Scans, PlaceInv(s), NEW d \in Documents,
           TakeReady(s, d)
    PROVE  MovesOn(s)
<1>1. /\ pc[s] = "download" /\ job[s][d].stage \in {"fetched", "broken"}
      /\ pc'[s] \in {"record_error", "record", "select"} /\ current'[s] = {d}
      /\ UNCHANGED <<scans, sources, results>>
      /\ \A t \in Scans \ {s} : /\ pc'[t] = pc[t] /\ current'[t] = current[t]
                                /\ failed'[t] = failed[t]
  BY DEF TakeReady, Goto, tables, ScanTypeOK
<1>2. JobChanges(s, d, "handled", job[s][d].applicability, job[s][d].previous,
                 job[s][d].fetched)
  BY StageChanges DEF TakeReady, Stage
<1>3. StageRank[job[s][d].stage] < StageRank["handled"]
  BY <1>1, Ranks
<1> QED BY <1>1, <1>2, <1>3, JobMovesOn DEF Stage

(* A thread that goes on.                                                  *)
LEMMA ThreadMovesOn ==
    ASSUME ScanTypeOK, NEW s \in Scans, PlaceInv(s),
           scans' = scans, sources' = sources,
           \A d \in Documents : job'[s][d].stage = job[s][d].stage,
           \A t \in Scans \ {s} :
              /\ results'[t] = results[t] /\ failed'[t] = failed[t]
              /\ pc'[t] = pc[t] /\ current'[t] = current[t] /\ job'[t] = job[t],
           pc[s] \notin {"idle", "start", "gone"},
           pc'[s] \notin {"idle", "start", "gone"},
           PlaceRank[pc[s]] < PlaceRank[pc'[s]],
           pc'[s] \in Handling => \E e \in Documents : e \in current'[s]
    PROVE  MovesOn(s)
<1>1. \A t \in Scans \ {s} : Rests(t)
  BY OthersRest
<1>2. Advances(s)
  BY PlaceStep
<1>3. PlaceInv(s)'
  BY DEF PlaceInv
<1> QED BY <1>1, <1>2, <1>3 DEF MovesOn

LEMMA TurnMovesOn ==
    ASSUME ScanTypeOK, NEW s \in Scans, PlaceInv(s), Submitted(s) \/ SourceDone(s)
    PROVE  MovesOn(s)
<1>1. /\ \/ pc[s] = "classify" /\ pc'[s] = "download"
         \/ pc[s] = "download" /\ pc'[s] = "next_source"
      /\ UNCHANGED <<scans, sources, job, results, current, failed>>
      /\ \A t \in Scans \ {s} : pc'[t] = pc[t]
  BY DEF Submitted, SourceDone, Goto, tables, ScanTypeOK
<1> QED BY <1>1, Ranks, ThreadMovesOn DEF Handling

LEMMA SelectVersionMovesOn ==
    ASSUME ScanTypeOK, NEW s \in Scans, PlaceInv(s), NEW d \in Documents,
           SelectVersion(s, d)
    PROVE  MovesOn(s)
<1>1. /\ pc[s] = "select" /\ pc'[s] \in {"insert", "analyse"} /\ d \in current'[s]
      /\ UNCHANGED <<scans, sources, results, current, failed>>
      /\ \A t \in Scans \ {s} : pc'[t] = pc[t]
  BY DEF SelectVersion, Goto, tables, ScanTypeOK
<1>2. PlaceRank[pc[s]] < PlaceRank[pc'[s]]
  BY <1>1, Ranks
<1>3. /\ \A e \in Documents : job'[s][e].stage = job[s][e].stage
      /\ \A t \in Scans \ {s} : job'[t] = job[t]
  <2>1. CASE SameKey(job[s][d].fetched) = {}
    BY <2>1 DEF SelectVersion
  <2>2. CASE SameKey(job[s][d].fetched) # {}
    <3>1. JobChanges(s, d, job[s][d].stage, job[s][d].applicability,
                     job[s][d].previous, StoredVersion(s, d))
      BY <2>2, SelectVersionChanges
    <3>2. /\ job'[s][d].stage = job[s][d].stage
          /\ \A e \in Documents \ {d} : job'[s][e] = job[s][e]
          /\ \A t \in Scans \ {s}, e \in Documents : job'[t][e] = job[t][e]
          /\ job' \in [Scans -> [Documents -> Job]]
      BY <3>1 DEF JobChanges
    <3>3. ASSUME NEW t \in Scans \ {s} PROVE job'[t] = job[t]
      BY <3>2 DEF ScanTypeOK
    <3> QED BY <3>2, <3>3
  <2> QED BY <2>1, <2>2
<1> QED BY <1>1, <1>2, <1>3, ThreadMovesOn

LEMMA HandlingMovesOn ==
    ASSUME ScanTypeOK, NEW s \in Scans, PlaceInv(s),
           \/ \E d \in Documents : \/ InsertVersion(s, d) \/ Analyse(s, d)
                                   \/ Record(s, d) \/ RecordError(s, d)
           \/ Match(s)
           \/ Break(s)
    PROVE  MovesOn(s)
<1>1. /\ UNCHANGED <<scans, sources, job>>
      /\ \A t \in Scans \ {s} :
           /\ results'[t] = results[t] /\ failed'[t] = failed[t]
           /\ pc'[t] = pc[t] /\ current'[t] = current[t]
  BY DEF InsertVersion, Analyse, Record, RecordError, Match, Break, Goto, tables,
         ScanTypeOK
<1>2. /\ pc[s] \in {"select", "insert", "analyse", "record", "match", "record_error"}
      /\ \/ pc[s] = "insert" /\ pc'[s] = "analyse" /\ current'[s] = current[s]
         \/ pc[s] = "analyse" /\ pc'[s] = "record" /\ current'[s] = current[s]
         \/ pc[s] = "record" /\ pc'[s] = "match" /\ current'[s] = current[s]
         \/ pc[s] # "record_error" /\ pc'[s] = "record_error" /\ current'[s] = current[s]
         \/ pc'[s] = "download"
  BY DEF InsertVersion, Analyse, Record, RecordError, Match, Break, Goto, ScanTypeOK
<1>3. PlaceRank[pc[s]] < PlaceRank[pc'[s]]
  BY <1>2, Ranks
<1>4. /\ pc'[s] \notin {"idle", "start", "gone"}
      /\ pc'[s] \in Handling => \E e \in Documents : e \in current'[s]
  BY <1>2 DEF PlaceInv, Handling
<1> QED BY <1>1, <1>2, <1>3, <1>4, ThreadMovesOn

(* Threads that die, one or all of them: the dead ones among them rest.    *)
LEMMA ForgetMovesOn ==
    ASSUME ScanTypeOK, NEW S, Forget(S), UNCHANGED tables,
           \A s \in Scans : PlaceInv(s) /\ (s \in S => pc[s] # "idle"),
           NEW s \in Scans
    PROVE  (Advances(s) \/ Rests(s)) /\ PlaceInv(s)'
<1>1. UNCHANGED <<scans, results>>
  BY DEF tables
<1>2. CASE s \notin S
  <2>1. Rests(s)
    BY <1>1, <1>2 DEF Forget, Rests
  <2> QED BY <2>1 DEF Rests, PlaceInv
<1>3. CASE s \in S
  <2>1. /\ pc'[s] = "gone" /\ sources'[s] = {} /\ current'[s] = {}
        /\ failed'[s] = FALSE /\ job'[s] = [d \in Documents |-> NoJob]
    BY <1>3 DEF Forget
  <2>2. PlaceInv(s)'
    BY <2>1 DEF PlaceInv, Handling
  <2>3. CASE pc[s] = "gone"
    BY <1>1, <2>1, <2>3 DEF PlaceInv, Rests
  <2>4. CASE pc[s] # "gone"
    <3>1. pc[s] # "idle"
      BY <1>3
    <3>2. Died(s)
      BY <2>1, <2>4, <3>1 DEF Died
    <3> QED BY <2>2, <3>2 DEF Advances
  <2> QED BY <2>2, <2>3, <2>4
<1> QED BY <1>2, <1>3

LEMMA InitPlace == ScanInit => \A s \in Scans : PlaceInv(s)
BY DEF ScanInit, PlaceInv, Handling

(* Every step takes each scan further or leaves it alone.                  *)
LEMMA NextMovesOn ==
    ASSUME ScanTypeOK, ScanInv, \A s \in Scans : PlaceInv(s), [ScanNext]_scanVars
    PROVE  \A s \in Scans : (Advances(s) \/ Rests(s)) /\ PlaceInv(s)'
<1>1. ASSUME NEW s \in Scans, MovesOn(s)
      PROVE  \A t \in Scans : (Advances(t) \/ Rests(t)) /\ PlaceInv(t)'
  <2>1. \A t \in Scans : Rests(t) => PlaceInv(t)'
    BY DEF Rests, PlaceInv
  <2> QED BY <1>1, <2>1 DEF MovesOn
<1>2. CASE UNCHANGED <<tables, thread>>
  BY <1>2 DEF tables, thread, Rests, PlaceInv
<1>3. ASSUME NEW d \in Documents, NEW c \in Contents, Publish(d, c)
      PROVE  UNCHANGED <<tables, thread>>
  BY <1>3 DEF Publish
<1>4. ASSUME NEW s \in Scans, Create(s) \/ Step(s) \/ Fault(s), ~ Die(s)
      PROVE  MovesOn(s)
  BY <1>4, CreateMovesOn, StartMovesOn, FinishMovesOn, DiscoverMovesOn,
     DiscoverFailsMovesOn, ClassifyMovesOn, ReadLatestMovesOn, RetrieveMovesOn,
     TakeReadyMovesOn, TurnMovesOn, SelectVersionMovesOn, HandlingMovesOn
  DEF Step, Fault
<1>5. ASSUME NEW s \in Scans, Die(s)
      PROVE  \A t \in Scans : (Advances(t) \/ Rests(t)) /\ PlaceInv(t)'
  BY <1>5, ForgetMovesOn DEF Die
<1>6. CASE Crash
  BY <1>6, ForgetMovesOn DEF Crash
<1>7. CASE UNCHANGED scanVars
  BY <1>2, <1>7 DEF scanVars
<1> QED BY <1>1, <1>2, <1>3, <1>4, <1>5, <1>6, <1>7 DEF ScanNext

(* The invariant of a thread's place.                                      *)
THEOREM PlaceInvariant ==
    ScanSpec => [](ScanTypeOK /\ ScanInv /\ \A s \in Scans : PlaceInv(s))
<1>1. ScanInit => \A s \in Scans : PlaceInv(s)
  BY InitPlace
<1>2. ScanTypeOK /\ ScanInv /\ (\A s \in Scans : PlaceInv(s)) /\ [ScanNext]_scanVars
      => (\A s \in Scans : PlaceInv(s))'
  BY NextMovesOn
<1> QED BY <1>1, <1>2, ScanInvariant, PTL DEF ScanSpec

(* No scan goes round in circles: whatever fails, races or crashes, a step *)
(* that touches a scan raises its status, takes a source off its list, or, *)
(* with both the same, moves documents on, or, with these too the same,    *)
(* moves the thread on with the document in hand; or the thread dies, and  *)
(* then nothing touches the scan again.  For finitely many sources and     *)
(* documents that is a bound on what a scan can do.                        *)
THEOREM ScansAdvance ==
    ScanSpec => [][\A s \in Scans : Advances(s) \/ Rests(s)]_scanVars
<1>1. ScanTypeOK /\ ScanInv /\ (\A s \in Scans : PlaceInv(s)) /\ [ScanNext]_scanVars
      => [\A s \in Scans : Advances(s) \/ Rests(s)]_scanVars
  BY NextMovesOn
<1> QED BY <1>1, PlaceInvariant, PTL DEF ScanSpec

(* A thread that selects, stores, analyses, records or matches a document, *)
(* or records its error, has exactly one in hand, whatever raised before:  *)
(* the guard of Step that does not hold by a distinction of cases.         *)
HasDocument(s) ==
    pc[s] \in Handling => \E d \in Documents : current[s] = {d}

THEOREM HandlersHaveDocuments == ScanSpec => [](\A s \in Scans : HasDocument(s))
<1>1. ScanTypeOK /\ ScanInv /\ (\A s \in Scans : PlaceInv(s))
      => \A s \in Scans : HasDocument(s)
  BY InHand DEF PlaceInv, HasDocument
<1> QED BY <1>1, PlaceInvariant, PTL
=============================================================================
