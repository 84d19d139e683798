--------------------------- MODULE RegulatoryScan ---------------------------
(***************************************************************************)
(* Scans of the official sources: regulatory/discovery.py and the tables   *)
(* regulatory_scan_runs, document_versions and scan_document_results.      *)
(*                                                                         *)
(* POST /regulatory-scans creates the scan and, only if it was just        *)
(* created, hands it to a background thread.  The thread visits the        *)
(* sources one by one; the documents that pass the applicability filter    *)
(* are fetched by a pool of workers, and the thread stores and analyses    *)
(* what they bring in the order in which they finish.  Any number of scans *)
(* run at once.  Every scan here is for the same company snapshot.         *)
(*                                                                         *)
(* Progress reports, fetch events and last-checked times are left out: no  *)
(* scan reads them back.  create_run and execute_run are RunPipeline's;    *)
(* here a run is the record of the pair of versions it was created for.    *)
(***************************************************************************)
EXTENDS Naturals, FiniteSets

CONSTANTS
    Scans,        \* idempotency keys of scans, one background thread each
    Documents,    \* documents the sources' indexes may list
    Sources,      \* enabled sources with a connector
    SourceOf,     \* the source of each document
    Listable,     \* bound: the documents a scan may find listed
    Contents,     \* fingerprints of what a document's address may serve
    TextOf,       \* the text extracted from it: two files may share a text
    NoVersion,    \* placeholder: no version stored or fetched
    MaxUpdates,   \* bound on publications during a behaviour
    MaxCrashes,   \* bound on process crashes
    MayFail       \* whether requests, extraction or the database may fail

ASSUME SourceAssumption == SourceOf \in [Documents -> Sources]
ASSUME ListableAssumption == Listable \in [Scans -> SUBSET Documents]
ASSUME TextAssumption == TextOf \in [Contents -> Contents]
ASSUME BoundAssumption == MaxUpdates \in Nat /\ MaxCrashes \in Nat
ASSUME MayFailAssumption == MayFail \in BOOLEAN

(* A document_versions row.  Its key is a hash of document and content.    *)
Version == [document : Documents, content : Contents, retrieved_at : Nat]

ASSUME NoVersionAssumption == NoVersion \notin Version

VARIABLES
    served,    \* what each document's address serves now
    updates,   \* number of publications so far
    clock,     \* retrieved_at of the next prepared version
    crashes,   \* number of crashes so far
    scans,     \* regulatory_scan_runs.status; "absent" without a row
    versions,  \* document_versions rows
    results,   \* scan_document_results rows, per scan and document
    analyses,  \* runs created by scans
    pc,        \* where the scan's thread is
    sources,   \* sources it has not visited yet
    job,       \* what it knows of each document
    current,   \* the document whose download it is handling
    failed     \* error_count > 0

environment == <<served, updates, clock, crashes>>
tables == <<scans, versions, results, analyses>>
thread == <<pc, sources, job, current, failed>>
scanVars == <<environment, tables, thread>>

ScanStatus == {"queued", "running", "completed", "completed_with_errors"}
Finished == {"completed", "completed_with_errors"}
Outcome == {"filtered", "unchanged", "new", "changed", "error"}
Applicability == {"not_applicable", "potentially_applicable", "applicable"}

(* A result row: what was decided, on which version, compared with which,  *)
(* and whether it names an analysis run.                                   *)
Result == [outcome : Outcome \cup {"absent"}, applicability : Applicability,
           version : Version \cup {NoVersion},
           previous : Version \cup {NoVersion}, analysed : BOOLEAN]

(* A document passes: unlisted, listed, relevant or dropped, submitted,    *)
(* then fetched or broken, and is handled.                                 *)
Stage == {"unlisted", "listed", "dropped", "relevant", "submitted",
          "fetched", "broken", "handled"}
Job == [stage : Stage, applicability : Applicability,
        previous : Version \cup {NoVersion}, fetched : Version \cup {NoVersion}]

NoResult == [outcome |-> "absent", applicability |-> "not_applicable",
             version |-> NoVersion, previous |-> NoVersion, analysed |-> FALSE]
NoJob == [stage |-> "unlisted", applicability |-> "not_applicable",
          previous |-> NoVersion, fetched |-> NoVersion]

ThreadPc == {"idle", "start", "next_source", "classify", "download",
             "select", "insert", "analyse", "record", "match", "record_error",
             "gone"}

ScanTypeOK ==
    /\ served \in [Documents -> Contents]
    /\ updates \in 0..MaxUpdates /\ clock \in Nat /\ crashes \in 0..MaxCrashes
    /\ scans \in [Scans -> ScanStatus \cup {"absent"}]
    /\ versions \in SUBSET Version
    /\ results \in [Scans -> [Documents -> Result]]
    /\ analyses \in SUBSET [scan : Scans, document : Documents,
                            old : Version, new : Version]
    /\ pc \in [Scans -> ThreadPc]
    /\ sources \in [Scans -> SUBSET Sources]
    /\ job \in [Scans -> [Documents -> Job]]
    /\ current \in [Scans -> SUBSET Documents]
    /\ failed \in [Scans -> BOOLEAN]

ScanInit ==
    /\ served \in [Documents -> Contents]
    /\ updates = 0 /\ clock = 0 /\ crashes = 0
    /\ scans = [s \in Scans |-> "absent"]
    /\ versions = {}
    /\ results = [s \in Scans |-> [d \in Documents |-> NoResult]]
    /\ analyses = {}
    /\ pc = [s \in Scans |-> "idle"]
    /\ sources = [s \in Scans |-> {}]
    /\ job = [s \in Scans |-> [d \in Documents |-> NoJob]]
    /\ current = [s \in Scans |-> {}]
    /\ failed = [s \in Scans |-> FALSE]

-----------------------------------------------------------------------------
(* The environment: an authority publishes, and may publish what it had    *)
(* published before.                                                       *)
Publish(d, c) ==
    /\ updates < MaxUpdates
    /\ c # served[d]
    /\ served' = [served EXCEPT ![d] = c]
    /\ updates' = updates + 1
    /\ UNCHANGED <<clock, crashes, tables, thread>>

-----------------------------------------------------------------------------
Goto(s, l) == pc' = [pc EXCEPT ![s] = l]

At(s, stages) == {d \in Documents : job[s][d].stage \in stages}

(* The thread is gone, and with it what it had in memory.                  *)
Forget(S) ==
    /\ pc' = [s \in Scans |-> IF s \in S THEN "gone" ELSE pc[s]]
    /\ sources' = [s \in Scans |-> IF s \in S THEN {} ELSE sources[s]]
    /\ job' = [s \in Scans |->
                 IF s \in S THEN [d \in Documents |-> NoJob] ELSE job[s]]
    /\ current' = [s \in Scans |-> IF s \in S THEN {} ELSE current[s]]
    /\ failed' = [s \in Scans |-> IF s \in S THEN FALSE ELSE failed[s]]

(* latest_document_version: the row of the document retrieved last.        *)
Latest(d) ==
    LET rows == {v \in versions : v.document = d}
    IN  IF rows = {} THEN NoVersion
        ELSE CHOOSE v \in rows : \A w \in rows : w.retrieved_at <= v.retrieved_at

(* Rows with the unique key of v: its source and its fingerprint.  They may*)
(* belong to another document of the source.                               *)
SameKey(v) ==
    {w \in versions : /\ SourceOf[w.document] = SourceOf[v.document]
                      /\ w.content = v.content}

-----------------------------------------------------------------------------
(* The request: a known key returns the scan and starts nothing.           *)
Create(s) ==
    /\ scans[s] = "absent"
    /\ scans' = [scans EXCEPT ![s] = "queued"]
    /\ Goto(s, "start")
    /\ UNCHANGED <<environment, versions, results, analyses, sources, job,
                   current, failed>>

(* The scan is published as running, the company's evidence is prepared,   *)
(* each file that cannot be counting as an error, and the sources selected.*)
Start(s, evidence_failed) ==
    /\ pc[s] = "start"
    /\ evidence_failed => MayFail
    /\ scans' = [scans EXCEPT ![s] = "running"]
    /\ sources' = [sources EXCEPT ![s] = Sources]
    /\ failed' = [failed EXCEPT ![s] = evidence_failed]
    /\ Goto(s, "next_source")
    /\ UNCHANGED <<environment, versions, results, analyses, job, current>>

(* A source lists some of its documents.                                   *)
Discover(s, source, listed) ==
    /\ pc[s] = "next_source"
    /\ source \in sources[s]
    /\ \A d \in listed : d \in Listable[s] /\ SourceOf[d] = source
    /\ sources' = [sources EXCEPT ![s] = @ \ {source}]
    /\ job' = [job EXCEPT ![s] = [d \in Documents |->
                    IF d \in listed THEN [@[d] EXCEPT !.stage = "listed"] ELSE @[d]]]
    /\ Goto(s, "classify")
    /\ UNCHANGED <<environment, tables, current, failed>>

(* A source that cannot be read is counted and skipped.                    *)
DiscoverFails(s, source) ==
    /\ MayFail
    /\ pc[s] = "next_source"
    /\ source \in sources[s]
    /\ sources' = [sources EXCEPT ![s] = @ \ {source}]
    /\ failed' = [failed EXCEPT ![s] = TRUE]
    /\ UNCHANGED <<environment, tables, pc, job, current>>

(* The filter's answer follows the document, the snapshot and the latest   *)
(* reviewer feedback, which may come at any time: any answer.              *)
(* "not_applicable" stands for needs_review too: neither is fetched.       *)
Classify(s, d, applicability) ==
    /\ pc[s] = "classify"
    /\ job[s][d].stage = "listed"
    /\ IF applicability = "not_applicable"
       THEN /\ results' = [results EXCEPT ![s][d] =
                                [NoResult EXCEPT !.outcome = "filtered"]]
            /\ job' = [job EXCEPT ![s][d].stage = "dropped"]
       ELSE /\ job' = [job EXCEPT ![s][d].stage = "relevant",
                                  ![s][d].applicability = applicability]
            /\ UNCHANGED results
    /\ UNCHANGED <<environment, scans, versions, analyses, pc, sources, current,
                   failed>>

(* The latest stored version of each is read before any is fetched.        *)
ReadLatest(s, d) ==
    /\ pc[s] = "classify" /\ At(s, {"listed"}) = {}
    /\ job[s][d].stage = "relevant"
    /\ job' = [job EXCEPT ![s][d].stage = "submitted",
                          ![s][d].previous = Latest(d)]
    /\ UNCHANGED <<environment, tables, pc, sources, current, failed>>

Submitted(s) ==
    /\ pc[s] = "classify" /\ At(s, {"listed", "relevant"}) = {}
    /\ Goto(s, "download")
    /\ UNCHANGED <<environment, tables, sources, job, current, failed>>

Downloading == {"download", "select", "insert", "analyse", "record", "match",
                "record_error"}

(* A worker: what it fetched is the previous version, or a new one.        *)
Retrieve(s, d) ==
    LET previous == job[s][d].previous IN
    /\ pc[s] \in Downloading
    /\ job[s][d].stage = "submitted"
    /\ IF previous # NoVersion /\ previous.content = served[d]
       THEN /\ job' = [job EXCEPT ![s][d].stage = "fetched",
                                  ![s][d].fetched = previous]
            /\ UNCHANGED clock
       ELSE /\ job' = [job EXCEPT ![s][d].stage = "fetched",
                                  ![s][d].fetched = [document |-> d,
                                                     content |-> served[d],
                                                     retrieved_at |-> clock]]
            /\ clock' = clock + 1
    /\ UNCHANGED <<served, updates, crashes, tables, pc, sources, current, failed>>

RetrieveFails(s, d) ==
    /\ MayFail
    /\ pc[s] \in Downloading
    /\ job[s][d].stage = "submitted"
    /\ job' = [job EXCEPT ![s][d].stage = "broken"]
    /\ UNCHANGED <<environment, tables, pc, sources, current, failed>>

(* Mutant of TakeReady: broken downloads are never taken.                  *)
TakeFetched(s, d) ==
    LET j == job[s][d] IN
    /\ pc[s] = "download"
    /\ j.stage = "fetched"
    /\ current' = [current EXCEPT ![s] = {d}]
    /\ job' = [job EXCEPT ![s][d].stage = "handled"]
    /\ Goto(s, IF j.fetched = j.previous THEN "record" ELSE "select")
    /\ UNCHANGED <<environment, tables, sources, failed>>

(* The thread takes the next download that is ready.                       *)
TakeReady(s, d) ==
    LET j == job[s][d] IN
    /\ pc[s] = "download"
    /\ j.stage \in {"fetched", "broken"}
    /\ current' = [current EXCEPT ![s] = {d}]
    /\ job' = [job EXCEPT ![s][d].stage = "handled"]
    /\ failed' = [failed EXCEPT ![s] = @ \/ j.stage = "broken"]
    /\ Goto(s, IF j.stage = "broken" THEN "record_error"
               ELSE IF j.fetched = j.previous THEN "record" ELSE "select")
    /\ UNCHANGED <<environment, tables, sources>>

-----------------------------------------------------------------------------
(* Mutants of the actions that follow: the prepared version is used in     *)
(* place of the stored one; the analysis does not ask for applicability; a *)
(* failure leaves no row; and an outcome the rest of the system does not   *)
(* know.                                                                   *)
SelectIgnoringStored(s, d) ==
    /\ pc[s] = "select" /\ d \in current[s]
    /\ Goto(s, IF SameKey(job[s][d].fetched) # {} THEN "analyse" ELSE "insert")
    /\ UNCHANGED <<environment, tables, sources, job, current, failed>>

AnalyseUngated(s, d) ==
    LET j == job[s][d] IN
    /\ pc[s] = "analyse" /\ d \in current[s]
    /\ analyses' = IF j.previous = NoVersion THEN analyses
                   ELSE analyses \cup {[scan |-> s, document |-> d,
                                        old |-> j.previous, new |-> j.fetched]}
    /\ Goto(s, "record")
    /\ UNCHANGED <<environment, scans, versions, results, sources, job, current,
                   failed>>

DropError(s, d) ==
    /\ pc[s] = "record_error" /\ d \in current[s]
    /\ current' = [current EXCEPT ![s] = {}]
    /\ Goto(s, "download")
    /\ UNCHANGED <<environment, tables, sources, job, failed>>

OutcomeUpdated(j) ==
    IF j.fetched = j.previous THEN "unchanged"
    ELSE IF j.previous = NoVersion THEN "new" ELSE "updated"

-----------------------------------------------------------------------------
(* insert_document_version: a SELECT by the unique key, whose row is used  *)
(* if there is one, and an INSERT in a transaction of its own, which fails *)
(* if another scan inserted the same key meanwhile.                        *)
SelectVersion(s, d) ==
    LET stored == SameKey(job[s][d].fetched) IN
    /\ pc[s] = "select" /\ d \in current[s]
    /\ IF stored = {}
       THEN Goto(s, "insert") /\ UNCHANGED job
       ELSE /\ job' = [job EXCEPT ![s][d].fetched = CHOOSE v \in stored : TRUE]
            /\ Goto(s, "analyse")
    /\ UNCHANGED <<environment, tables, sources, current, failed>>

InsertVersion(s, d) ==
    LET v == job[s][d].fetched IN
    /\ pc[s] = "insert" /\ d \in current[s]
    /\ IF SameKey(v) = {}
       THEN /\ versions' = versions \cup {v}
            /\ Goto(s, "analyse")
            /\ UNCHANGED failed
       ELSE /\ failed' = [failed EXCEPT ![s] = TRUE]
            /\ Goto(s, "record_error")
            /\ UNCHANGED versions
    /\ UNCHANGED <<environment, scans, results, analyses, sources, job, current>>

(* The versions are compared if there is a previous one; a run is created  *)
(* and executed for changes in a document that affirmatively applies.  Its *)
(* key names the scan, so it is always a new one.                          *)
Analyse(s, d) ==
    LET j == job[s][d] IN
    /\ pc[s] = "analyse" /\ d \in current[s]
    /\ analyses' =
            IF /\ j.previous # NoVersion
               /\ TextOf[j.previous.content] # TextOf[j.fetched.content]
               /\ j.applicability = "applicable"
            THEN analyses \cup {[scan |-> s, document |-> d,
                                 old |-> j.previous, new |-> j.fetched]}
            ELSE analyses
    /\ Goto(s, "record")
    /\ UNCHANGED <<environment, scans, versions, results, sources, job, current,
                   failed>>

OutcomeOf(j) ==
    IF j.fetched = j.previous THEN "unchanged"
    ELSE IF j.previous = NoVersion THEN "new" ELSE "changed"

RunsOf(s, d) == {run \in analyses : run.scan = s /\ run.document = d}

Record(s, d) ==
    LET j == job[s][d] IN
    /\ pc[s] = "record" /\ d \in current[s]
    /\ results' = [results EXCEPT ![s][d] =
            [outcome |-> OutcomeOf(j), applicability |-> j.applicability,
             version |-> j.fetched, previous |-> j.previous,
             analysed |-> RunsOf(s, d) # {}]]
    /\ IF j.applicability = "applicable"
       THEN Goto(s, "match") /\ UNCHANGED current
       ELSE /\ Goto(s, "download")
            /\ current' = [current EXCEPT ![s] = {}]
    /\ UNCHANGED <<environment, scans, versions, analyses, sources, job, failed>>

(* The version's requirements are matched with the company's documents.    *)
Match(s) ==
    /\ pc[s] = "match"
    /\ current' = [current EXCEPT ![s] = {}]
    /\ Goto(s, "download")
    /\ UNCHANGED <<environment, tables, sources, job, failed>>

(* Whatever was recorded for the document gives way to the error.          *)
RecordError(s, d) ==
    LET j == job[s][d] IN
    /\ pc[s] = "record_error" /\ d \in current[s]
    /\ results' = [results EXCEPT ![s][d] =
            [outcome |-> "error", applicability |-> j.applicability,
             version |-> j.previous, previous |-> j.previous,
             analysed |-> FALSE]]
    /\ current' = [current EXCEPT ![s] = {}]
    /\ Goto(s, "download")
    /\ UNCHANGED <<environment, scans, versions, analyses, sources, job, failed>>

SourceDone(s) ==
    /\ pc[s] = "download" /\ At(s, {"submitted", "fetched", "broken"}) = {}
    /\ Goto(s, "next_source")
    /\ UNCHANGED <<environment, tables, sources, job, current, failed>>

Finish(s) ==
    /\ pc[s] = "next_source" /\ sources[s] = {}
    /\ scans' = [scans EXCEPT ![s] =
                    IF failed[s] THEN "completed_with_errors" ELSE "completed"]
    /\ Goto(s, "idle")
    /\ UNCHANGED <<environment, versions, results, analyses, sources, job, current,
                   failed>>

-----------------------------------------------------------------------------
(* Failures.                                                               *)

(* Storing, comparing, analysing, recording or matching raises: the        *)
(* document is recorded as an error.                                       *)
Break(s) ==
    /\ MayFail
    /\ pc[s] \in {"select", "insert", "analyse", "record", "match"}
    /\ failed' = [failed EXCEPT ![s] = TRUE]
    /\ Goto(s, "record_error")
    /\ UNCHANGED <<environment, tables, sources, job, current>>

(* Anywhere else an exception ends the thread, and the scan stays as it is.*)
Die(s) ==
    /\ MayFail
    /\ pc[s] \in {"start", "next_source", "classify", "download",
                  "record_error"}
    /\ Forget({s})
    /\ UNCHANGED <<environment, tables>>

(* The process dies with every scan that was under way.                    *)
Crash ==
    /\ crashes < MaxCrashes
    /\ \E s \in Scans : pc[s] \notin {"idle", "gone"}
    /\ Forget({s \in Scans : pc[s] # "idle"})
    /\ crashes' = crashes + 1
    /\ UNCHANGED <<served, updates, clock, tables>>

-----------------------------------------------------------------------------
(* The thread's next step, and its workers', if nothing goes wrong.        *)
Step(s) ==
    \/ Start(s, FALSE)
    \/ \E source \in Sources, listed \in SUBSET Documents :
            Discover(s, source, listed)
    \/ \E d \in Documents, a \in Applicability : Classify(s, d, a)
    \/ \E d \in Documents : ReadLatest(s, d)
    \/ Submitted(s)
    \/ \E d \in Documents :
            \/ Retrieve(s, d)
            \/ TakeReady(s, d)
            \/ SelectVersion(s, d)
            \/ InsertVersion(s, d)
            \/ Analyse(s, d)
            \/ Record(s, d)
            \/ RecordError(s, d)
    \/ Match(s)
    \/ SourceDone(s)
    \/ Finish(s)

Fault(s) ==
    \/ Start(s, TRUE)
    \/ \E source \in Sources : DiscoverFails(s, source)
    \/ \E d \in Documents : RetrieveFails(s, d)
    \/ Break(s)
    \/ Die(s)

ScanNext ==
    \/ \E d \in Documents, c \in Contents : Publish(d, c)
    \/ \E s \in Scans : Create(s) \/ Step(s) \/ Fault(s)
    \/ Crash

ScanSpec == ScanInit /\ [][ScanNext]_scanVars

-----------------------------------------------------------------------------
(* Properties.                                                             *)

(* Every discovered document is visible in the result of a finished scan,  *)
(* also when its download, extraction or storage failed                    *)
(* (discovery.py:344-347), and a scan with a failed document says so.      *)
FinishedScansReportAll ==
    \A s \in Scans, d \in Documents : scans[s] \in Finished =>
        /\ job[s][d].stage # "unlisted" => results[s][d].outcome # "absent"
        /\ results[s][d].outcome = "error" => scans[s] = "completed_with_errors"

(* A result names stored versions: the previous one is a row of its own    *)
(* document, the new one a row of its source, which another document may   *)
(* share.  The outcome tells them apart: unchanged names one twice, changed*)
(* names two with different contents, new has none to compare with.  Races *)
(* with other scans and failures do not break it.                          *)
OutcomesAreGrounded ==
    \A s \in Scans, d \in Documents :
        LET r == results[s][d] IN
        /\ {r.version, r.previous} \subseteq versions \cup {NoVersion}
        /\ r.previous # NoVersion => r.previous.document = d
        /\ r.version # NoVersion => SourceOf[r.version.document] = SourceOf[d]
        /\ r.outcome = "unchanged" => r.version = r.previous
        /\ r.outcome = "new" => r.version # NoVersion /\ r.previous = NoVersion
        /\ r.outcome = "changed" =>
                /\ NoVersion \notin {r.version, r.previous}
                /\ r.version.content # r.previous.content

(* Impact analysis is gated on affirmative applicability                   *)
(* (discovery.py:300-302) and on a difference between two stored texts.    *)
ImpactIsGated ==
    \A run \in analyses :
        /\ {run.old, run.new} \subseteq versions
        /\ run.old.document = run.document
        /\ TextOf[run.old.content] # TextOf[run.new.content]
        /\ results[run.scan][run.document].outcome # "absent" =>
                results[run.scan][run.document].applicability = "applicable"

(* No scan waits for what never comes: while its thread is alive it, or    *)
(* one of its workers, has something left to do, whatever failed before.   *)
ScansProceed ==
    \A s \in Scans : pc[s] \notin {"idle", "gone"} => ENABLED Step(s)

(* README.md:10 treats a scan that finds nothing changed as a no-op, so a  *)
(* change from one version to another is reported by one scan only.        *)
ChangeReportedOnce ==
    \A s, t \in Scans, d \in Documents :
        /\ results[s][d].outcome = "changed" /\ results[t][d].outcome = "changed"
        /\ results[s][d].version = results[t][d].version
        /\ results[s][d].previous = results[t][d].previous
        => s = t
=============================================================================
