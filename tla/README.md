# Maal: TLA+ specifications, checks and proofs

Maal tracks regulations, compares their versions, derives obligations, looks
for gaps in a company's evidence, drafts remediation tasks and puts each one to
a human; it also keeps a company's profile and reviews its documents against
the regulations it found. It is one Python process: FastAPI request threads and
background tasks over one SQLite file. Every function of `src/db.py` opens its
own connection and commits it, so a handler is a sequence of small
transactions, and much of what can go wrong lies between two of them; the rest
lies in the rules and conversions it calls, at their boundaries. These modules
are about both. Paths below are relative to the repository; `pipeline.py` and
the like are in `src/`.

## 1. Inventory

| Component | State | Operations | Here |
|---|---|---|---|
| Run store (`db.py`, `migrations/001`) | rows of a run: phase, checkpoint, changes, obligations, applicability, findings, tasks, events | one transaction per function | `RunStore` |
| Run pipeline (`pipeline.py`) | `RunState`, in memory and as a checkpoint row | `create_run`, `execute_run`; callers `POST /runs`, `seed_core_demo` | `RunPipeline`, `RunLifecycle` |
| Human review (`review_service.py`) | task status and revision, `reviews` | `review_task`, `update_task_and_add_review` | `TaskReview`, `TaskRegister` |
| Regulatory scan (`regulatory/discovery.py`) | scan row, versions, document results | `create_regulatory_scan`, `execute_regulatory_scan`, `retrieve` | `RegulatoryScan` |
| Change detection (`change_detection.py`, `ingestion.py`, `arabic_processing.py`) | none | clauses of a text, pairing, classification | `ClauseComparison`; order of the inserts in `RunPipeline` |
| Obligation, applicability, gap, task rules | none | extraction, checks, threshold comparison, risk, drafting | `DecisionRules` |
| Source connectors (`regulatory/connectors`) | none | `discover`, `fetch_document`, retries | `OfficialSources`; content or failure in `RegulatoryScan` |
| Scan filter (`regulatory/applicability.py`) | none | `classify_discovered_document` | `OfficialSources`; a choice in `RegulatoryScan` |
| Onboarding (`onboarding.py`) | profile, versions, scope, snapshots, evidence, status | upload, remove, approve, materialise | `Onboarding`, `CompanyFacts` |
| Company documents (`document_processing.py`, `company_documents.py`) | stored files, chunks | parsing by format | `DocumentText` |
| Compliance review (`compliance_review.py`) | review rows, findings, dependencies, exposures | create a review | `ComplianceReview` |
| Requirement matching, reviewer feedback (`requirement_matching.py`, `app.py`) | assessments, feedback | match a version, correct an assessment | `ComplianceReview`, `RequirementRules` |
| Temporal engine (`temporal_engine.py`) | none | calendars, dates, status on a day | `TemporalEngine` |
| Users and sessions, GRC adapter, language-model client, reports, web page, scripts | own tables or none | | not modelled, section 5 |

How they interact. `seed_core_demo` (at start-up and from two endpoints) and
`POST /runs` create and execute runs; a run compares two versions and walks
through its phases, saving a checkpoint after each. `POST /tasks/{id}/review`
changes the tasks of a run at any time, also while the run executes, and closes
the run with the last decision. `POST /regulatory-scans` starts a background
scan that lists its sources, stores versions and, for changed and applicable
documents, creates and executes runs of its own and matches the version with
the company's documents. Onboarding hands evidence to matching when a profile
is approved, and two endpoints add documents to that of any snapshot. `POST /compliance-reviews` matches one document with the versions
of the latest finished scan, in the same tables the scans' matchings rewrite and
reviewers correct.

What is hard: executors, reviewers, scans, uploads, approvals and matchings
share rows without locks; checks are made in one transaction and relied on in
another; lists are read once and used later; the process can die between any
two steps; a retry must not repeat or skip what was done; and the rules have
boundaries (limits, ordinals, calendars, ratios, column names) no test visits.
`PROJECT.json` lists these hazards line by line.

What makes each part correct:

* run store and pipeline: every task can be traced to a substantive change; a
  checkpoint never claims work the tables do not hold; stored results are not
  taken back; an interrupted run is resumed and finished; a run at rest is taken
  up again only after a failure was recorded on it.
* human review: a task is a register that only stored human decisions change,
  and the last decision closes the run.
* scan: every discovered document is reported; the report names stored versions;
  analysis needs affirmative applicability and a real difference.
* onboarding: the current profile is never half built, an approved one has its
  evidence and keeps it, a removed document is gone.
* compliance review and matching: a finished review adds up and covers every
  version that was applicable when it read the latest scan; a verdict is what the
  texts give or a correction says; overlapping matchings lose nothing.
* rules: the comparison finds the articles that differ and calls substantive
  those whose words or digits do; tasks answer shown breaches, compliance is
  never found in silence; dates are real days; text that is read keeps its place;
  a listing leaves out nothing of the pages it had to read, or fails.

## 2. Modules

```
RunStore ---- RunPipeline ---- RunReview      RegulatoryScan   Onboarding   ComplianceReview
     \            :               /
      \           : implements   /
       \      RunLifecycle      /             ClauseComparison  DecisionRules  TemporalEngine
        \                      /              RequirementRules  DocumentText
         ------ TaskReview ----               OfficialSources   CompanyFacts
                    : implements                        \           |          /
                TaskRegister                               Calculations
```

Each module that is run has an MC module for TLC, and a module of proofs:
`RunPipelineProofs`, `TaskReviewProofs`, `RunReviewProofs`, `OnboardingProofs`,
`RegulatoryScanProofs`, `ComplianceReviewProofs` and `CalculationProofs`. The
lemmas on sums and finite sets they share are in `FoldLemmas`; those on
sequences, which only the calculations need, open `CalculationProofs`.

**RunStore.** One variable per table, a function of run and article. Articles
are numbered in the order in which `compare_clause_sets` inserts their change
rows. The constants `Substantive`, `Obligated` and `Assessable` say what the
comparison and the rules make of each article; `ClauseComparison` and
`DecisionRules` model those rules. One operator per transaction: `INSERT OR
IGNORE` keeps an existing row, `SaveRunState` writes the checkpoint and
`runs.phase` in one commit, `UpdateRunPhase` the phase alone.

**RunPipeline.** An executor is a request thread with a program counter. Each
action is one transaction, or one read that a later transaction uses:

| Action | Code |
|---|---|
| `Start` | `POST /runs` (`app.py:569`), `seed_core_demo` (`compliance_review.py:61`) |
| `CompareFindsRows`, `CompareFindsNone`, `InsertNextChange` | `compare_versions`, `compare_clause_sets`; before `create_run` in the seed, in `execute_run` otherwise |
| `CreateFindsRun`, `CreateFindsNone`, `CreateInserts`, `CreateSavesState` | `create_run`, `create_run_record` |
| `Begin`, `Ingest`, `Compared`, `NoChange` | `execute_run` to its first exit |
| `Extract`, `Extracted`, `Retrieve` | obligations |
| `ListFindings`, `AssessApplicability`, `AnalyzeGap`, `Assessed` | findings, skipping those stored |
| `Verify`, `ListTasks`, `GenerateTask`, `AuditDraft`, `Drafted` | task drafts, skipping those stored |
| `RequestReview`, `AuditRequest`, `Mark` | final phase, decided on the in-memory list; its audit event; the run row of a completed run |
| `Raise`, `SaveFailed`, `Abort`, `Crash` | the exception handler, errors outside the try, process death |

The verdict of `AnalyzeGap` is a choice among those the article can have, as
evidence may be added between two executions. Of `RunState` the model keeps the
phase and the change list; the other identifier lists are never read back.

**RunLifecycle** is what the phase of a run means to whoever polls it: the
phases in order, failing and resuming, and rest, which is waiting for reviewers,
completed or no change. Rest is not final: the audit event of the last checkpoint
is inserted after its commit, in the same `try` (`pipeline.py:45`, `:201`), so its
failure marks the run failed. What the life cycle does promise is that a run at
rest is not taken up again unless a failure was recorded on it.
`ImplementsLifecycle` maps its one variable to `runs.phase`.

**TaskReview.** A request holds the review it is to record and passes `select`,
`write`, `list`, `load`, `save`, `mark`. Both revision checks are reads;
`WriteReview` is the transaction of UPDATE and INSERT, which does not look at
the revision. A review is identified by the fields its key hashes.

**TaskRegister** is what reviews promise: tasks and a log of decisions that
grows, each entering in the step that applies it and naming a revision that was
reached. It does not promise that this is the current revision, because the code
does not (LostReview). `ImplementsRegister` maps `reviews` to the log.

**RunReview** composes executors and reviewers over the same tables, in one
process that dies as a whole.

**RegulatoryScan.** A scan is a background thread with workers. `job` is what it
knows of each document: listed, dropped or relevant, submitted with the version
read before the pool starts, fetched or broken, handled. The thread handles
downloads in any order of completion: `SelectVersion` and `InsertVersion` (two
transactions of `insert_document_version`, with its unique key over source and
fingerprint), `Analyse`, `Record`, `Match`, and `RecordError` when one of them
raises. `Die` is an exception outside the per-document handler. `Publish` is the
authority, which may restore what it had published before.

**Onboarding.** One company, requests as threads. `Upload` and `Remove` read the
current documents and then pass `ReadNumber`, `InsertVersion`, `StoreDocument`,
`BuildScope`, `Publish`; `Approve` compares the version once and passes
`UpdateScope`, `InsertSnapshot`, `Materialize`, `Approved`. Each is a step of
its own, and `Fail` may end a request before any of them. An approval names some
of the domains and a status for each; the others stay (`UpdateScope`).
`AddDocument` is `ingest_company_document` behind the two upload endpoints, for
any snapshot that exists. The rows of one
document, and of one scope, are written in a step each although they commit one
by one: nobody reads a version before it is the current one.

**ComplianceReview.** Threads of scans match a version with all documents
(`BeginMatch`, `Clear`, `Assess`, `Store`, `Matched`); requests review one
document under an idempotency key (`Post`, `InsertReview`, `ReadChanges`,
`CiteChange`, `ReadScan`, then a matching per version with `RecordFinding` and
`NextVersion`, `Finish`, `Expose`); `GiveFeedback` corrects an assessment. `Clear`
deletes in one transaction what `Store` writes again row by row. Scores are
kept in halves, for STATUS_FACTOR's 0.5.

**The calculations** are operators, written against abstract texts: a clause
is its heading, the kinds of words the rules look for, its numbers with their
signs and decimal points, and its other marks, of which the comparison sees
words and digits only (`Tokens`); a file is its units and their numbers of words.
`Calculations` calls each with every input
of a set, so that a behaviour is one call and its answer.

| Module | Code |
|---|---|
| `ClauseComparison` | `ingestion.extract_clauses`, `arabic_processing` (article numbers, equivalence), `change_detection` (pairing, `_classify`, change keys) |
| `DecisionRules` | `extract_obligations`, `check_applicability`, `retrieval`, `gap_analysis`, `risk_rules`, `generate_task`, composed as `execute_run` does |
| `RequirementRules` | `compare_requirement` |
| `TemporalEngine` | Hijri to Gregorian, `parse_date_string`, `evaluate_temporal_status` |
| `DocumentText` | the parsers of PDF, DOCX, XLSX, PPTX, text and CSV: chunks, locators, quality |
| `OfficialSources` | `discover` of the NCA and SASO connectors, `_request`, `_primary_pdf`, `classify_discovered_document` |
| `CompanyFacts` | `_fact_matches`, `_merged_facts`, `_build_scope` |
| `Positions` | what a loop that passes some items over leaves, in order; used by the comparison, the parsers and the SASO listing |

Left out on purpose: audit events other than `task_drafted`, error and time
columns, progress counters, fetch events, payload texts; nothing modelled reads
them. `stop_after` is only passed by tests.

## 3. Runs

| Run | Instance | What it shows |
|---|---|---|
| PipelineFaults | 2 executors, 1 seeded run, 3 articles (one editorial), any step may raise, 1 crash | types, traceability, checkpoints, stored rows |
| PipelineRestarts | 1 executor, a seeded and a posted run, failures, 2 crashes, fairness | the life cycle, phase columns agree, execution completes only runs without tasks, requests end, checkpointed runs come to rest |
| ReviewRaces | 2 requests, 2 tasks, revisions up to 3, failures before a decision is stored | the register of decisions, the last decision closes the run |
| RunReviewFaults | 1 executor, 1 reviewer, failures, 1 crash | human gate and review trail while drafting goes on; no result is taken back |
| ScanFaults | 2 scans, a source with 2 documents of which both scans see one, 1 publication, failures, 1 crash | reports complete and grounded, analysis gated, no scan hangs |
| OnboardingRaces | 2 requests, 3 documents of which one unreadable, one of them also added by an endpoint, 2 domains, an approval that names one of them or none, 2 edits, 2 versions, failures | current, approved and removed mean what they say |
| ComplianceRaces | 2 requests on 1 key, 1 scan thread, 2 documents, 2 regulations with one version, 2 clauses, 1 change, 1 correction, failures | reviews add up and cover every version they were to go through, verdicts are grounded, overlapping matchings lose nothing |
| Rules | about 610,000 calls | every calculation against a reference definition |
| FalseNoChange, LostReview, PhantomChange, OrdinalArticles | the smallest instance each | disagreements of code and documentation, section 6 |

Bounds and why they are enough. Three articles give an editorial change and two
that can be gaps, so a loop can be interrupted before, between and after its
rows. Two executors are the least that race, and a third would add only another
reader of the same lists. One crash after any step, and a second during the
recovery, are the cases of restarting; more crashes repeat them. `MaxRevision` 3
allows a decision, an edit and a decision again on each of two tasks. For scans,
two contents are one change, `MaxUpdates` 1 (2 in PhantomChange, to restore a
text) places it anywhere; the second document meets the first in the pool and
under the unique key. `Listable` keeps it from the second scan, to bound the
state space. In Onboarding two versions let each request create one while the
other uploads, removes or approves; a third (in which a removal meets two
uploads) multiplies the states and differs by one more racer of the same kind. In ComplianceReview two requests with one key, one of which replays
the other, run against one matching; the two clauses differ in whether the
shortlist leaves a document out and in whether two documents share a passage.
`Rules` takes every boundary from both sides: limits below, at and above; all
month lengths of two centuries of the Hijri calendar; columns 26, 27, 52, 53
and 703; two articles, in either order, in every form of heading.

Some properties hold only in the instance named. With two executors,
`CompletedWithoutTasks`, `PhasesAgree` and `ImplementsLifecycle` fail: nothing
stops two threads from executing one run, and each decides on its own list. This
is why they are checked with one executor, which is what a single client and the
start-up seed amount to; section 4 proves them as long as executors do not meet
on a run. `ComparisonIsExact` asks for references that tell the
articles of a text apart, which OrdinalArticles shows is not always so.

`CHECK_DEADLOCK FALSE` is set where the bounds end a behaviour: revisions in
the review runs, scans and publications, profile versions, review keys, and a
calculation's one answer.

**Fairness.** `WF` of each executor's `Proceed`: the operating system schedules
threads and no step waits for another actor. `SF` of starting each run by some
executor: start-up seeds, clients post again, and the server's thread limiter
hands its threads out first come, first served, so a request that keeps asking
is not passed over for ever although the one executor is busy in between. There
is no fairness on failures, crashes or human decisions. `CheckpointedRunsResume`
has the premise `FailuresCease`, that steps do not fail for ever, and starts
from the state row, because a crash between the run row and its state is never
repaired (`pipeline.py:80`: `execute_run` raises `KeyError` at each start-up).

`ScansProceed` is the safety form of "no scan hangs": a thread that is alive
always has an enabled step. That no step leads back is a theorem, `ScansAdvance`,
so a scan of finitely many sources and documents comes to an end.

**Mutants.** Beside the actions, each module keeps named variants with one
plausible mistake; `PROJECT.json` pairs each property with one that breaks it.

## 4. Proofs

All for every number of articles, runs, executors, requests, documents, clauses
and crashes. Every safety property that a run checks is a theorem here, of the
tables and of the calculations, except `ScansProceed`; and that the work of a
request, a scan, a review and a matching never goes round in circles is one too.

* `RunPipelineProofs`. `PipelineInv` is the conjunction of `PipelineTypeOK`,
  `ListsStored` (a checkpoint's change list is stored), `ExecutorProgress` and
  `ChainOfEvidence`. None is inductive alone: a task's gap follows from the
  drafting executor's list being of gaps (`Progress`), that its list is of
  affected articles from where the list was made, and that those changes are
  stored from the checkpoint it was loaded from. One lemma per group of actions;
  an executor's step leaves the others' progress alone because rows are only
  added (`RowsAreKept`). `CheckpointIsCovered` follows on top, `PipelineKeepsRows`
  is the action property.

  `RequestsAdvance` is what a step of an executor may never do: go back. Between
  its start and its return it only reaches later places (`PlaceRank`, in the
  order of `pipeline.py`) or, within a loop, has fewer articles left, under every
  failure, crash and race. `LoopsHaveArticles` adds that inside a loop's body
  there is a first article, so the body has something to do.

  The life cycle has a second invariant, `LifecycleInv`: the phase of the
  checkpoint is that of the executor's place (`PhaseAt`), and its task list says
  what the tables say. It holds while `OneAtATime` does (no two executors on one
  run), which nothing in the code ensures; so the theorems read `PipelineSpec /\
  []OneAtATime => ...`. `OneExecutorFollowsLifecycle` drops the premise
  for a service with one executor, where it is true by itself.
* `TaskReviewProofs`. `GateInv` adds to `HumanGate` and `ReviewTrail` that
  revisions start at 1 and that a request under way holds a revision the task
  has or had; so even the write of a lost race is that of a stored decision.
  `ReviewsImplementRegister` is the refinement: `HeldIsReached` shows that the
  revision a request holds is one the register has reached (by the review trail,
  each earlier revision has its review in the log), `WriteReviewDecides` maps
  the write of a new review to `Decide`, and of a review stored before, like
  every other step of a request, to a stutter. `LastDecisionClosesRun` says with
  `ClosingInv` who owes the end of a decided run: the request that wrote last.
  It assumes `MayAbort \subseteq {"select", "write"}`, no failure after the
  decision is stored, since such a failure does leave the run open (section 6).
* `RunReviewProofs`. The invariants over the composed specification, for which
  each side's steps are shown to leave the other's invariant alone. In
  `SharedRegister` an executor's `GenerateTask` is the register's `Draft`.
* `OnboardingProofs`. A version belongs to the request that inserted it until it
  is published (`SoleOwner`), so what that request has built of it
  (`CreationInv`) nobody disturbs; that is why the published one is `Built`. What
  an approval relies on (`ApprovalInv`) survives because its version is built,
  owned by nobody, and evidence is only added (`AllIngested`), also by
  endpoints that know nothing of approvals.
* `RegulatoryScanProofs`. A thread's knowledge of a document (`StageInv`,
  `FetchInv`) goes with its place, with at most one download in hand. Versions
  are only added and retrieved before the clock, so there is a latest one
  (`LatestIsStored`) and a result that names one stays grounded. Other scans
  enter only by adding versions.

  `ScansAdvance` orders what a scan has done from the broadest to the finest: its
  status, the sources visited, the stages its documents reached, and its place
  with the one in hand. Of these the first that a step changes moves forward,
  or the thread dies and nothing touches the scan again; the other scans do not
  move. It needs `PlaceInv`: status and place of a thread go together, and where
  one handles a document it has it, which `HandlersHaveDocuments` states.
* `ComplianceReviewProofs`. A review belongs to one request from its INSERT to
  its last UPDATE (`OwnerInv`), which is what the unique key gives. Coverage is of
  the documents the latest scan had found applicable when the review read it,
  which `due` remembers. Each of them (`CoverageInv`) is still in the request's
  list, or each of its related requirements is still to assess, assessed but not
  recorded, or has its finding, whatever scans delete meanwhile.
  For `MatchingsKeepEvidence` a missing assessment is in the hands of some
  matching that has yet to write it, and the last to overlap writes it. A
  correction is only ever appended, so a verdict grounded in one stays so.
  `ReviewTotals` is about the counters the loop adds up: `TallyInv` makes them
  sums over the findings so far, and `FindingAdds` adds one.

  `ThreadsAdvance`: although matchings delete each other's assessments none
  starts over. A step ends its thread, takes it to a later place (the loop over
  versions counts as one) or shortens the first of its lists that changes:
  changes, versions, places of the loop, passages, verdict in hand, assessments
  to record. `MatchingsHaveVersions` says a matching has the version it clears.
* `FoldLemmas`. The sums of the model are folds over sets, defined by CHOOSE over
  recursive functions. `FoldsExist` constructs such a function cardinality by
  cardinality, `SumsAgree` shows that the order of choosing does not matter, and
  `SumsAdd` that one element adds its weight. Induction is by the least
  counterexample (`LeastNatural`, `SmallestSet`).
* `CalculationProofs`. A behaviour is a call and its answer (`AnswerInv`); the
  rest are facts of the rules for every input of their types, which need not be
  those `Rules` enumerates. Rounding up is shown to be the comparison of
  fractions; up to `MaxEvidence` items retrieval returns every item of a score
  above zero; the first candidate of a sort is a least element; the number of
  distinct addresses is that of the rows kept; and the scope of a company
  depends only on the set of facts some chunk affirms. `RulesNest` is what
  `RunStore` assumes of its articles: a gap needs a binding, applicable
  obligation with a threshold, whatever the evidence.

  Its first part is about sequences. `InOrder` lists a set of numbers
  (`InOrderIs`, by counting the members up to each), `FoldLeft` is a function of
  the prefixes folded so far (`RunsExist`), and `FlattenSeq` a concatenation of
  runs (`FlattenedRuns`). The first two of the longest arguments rest on these:

  - `TextIsKept`: the parts with words are those a loop leaves of a unit
    (`Filled`), each found again at its locator, and the words of the chunks add
    up to those of the file whatever was passed over. `Readable` takes from a
    workbook what is never read, its sheets with an absolute target and later
    runs of inline text; where a cell has no reference its locator is shared, so
    what is said of locators is said of workbooks with references. A table's
    locator names a column by letters, which tell its number (`ColumnNameIs`).
  - `DifferencesAreExact`: `TakingKeeps` shows of each step of the matching
    that what was paired and what is left are, clause by clause and counting
    repetitions, what there was; so no clause is lost or met twice. With
    references that tell articles apart (no ordinals past ten, no number twice:
    OrdinalArticles says why) a clause has one counterpart at most
    (`ArticlesArePaired`), so a pair is an article of both texts, and the
    classes of `_classify` say how it differs (`DifferencesFound`): substantive
    if headings, words or digits do, editorial if only an operator, a sign or a
    decimal point does.
  - `CalendarsAgree`: the conversion's divisions take centuries, years of 365
    or 366 days and months, all counted from March, off the Julian day
    (`DaysInCenturies`, `DaysInYears`, `DaysInMonths`), which gives a day of
    the calendar for every Julian day and the next for the next
    (`GregorianDays`); and leap years of the Hijri cycle counted one by one are
    the `(11 y + 3) \div 30` of the formula (`HijriLeapYears`, by induction on
    the year).

Assumptions are those of the modules. `RunStore`: `N` natural, `Assessable`
within `Obligated` within `Substantive` within the articles, seeded runs are
runs, placeholders are not values. `ComplianceReview`: requirement and change
identifiers differ, for they have prefixes of their own; a request's thread is
no scan's; the shortlist keeps at least one document (`top_k` is a positive
literal); tables of texts are functions of the kinds they are used at.
`Calculations`: inputs are of the types the functions are called with: limits
are of the seven comparators the patterns yield, counts and days are natural,
a control is tried `MAX_RETRIES` times and once more, a text is a sequence of
headed sections, in which an article in two levels shares its number with none of
one level (`ComparisonAssumption`), a file has the units its format has (`FileAssumption`), Hijri
years are those whose days `datetime.date` can hold, and a written date has the
months and days the patterns let through. Finiteness of the
constants is not assumed; the theorems about steps going forward give an end
only where the lists are finite, as the code's are.

Only model-checked: `CheckpointedRunsResume` and `RequestsEnd`, which are
liveness, and `ScansProceed`, which says ENABLED; this prover reaches neither.
Their safety part is proved. Behind `RequestsEnd` stands `RequestsAdvance`: with
finitely many articles an executor that keeps taking steps returns, so what is
left to TLC is that it is never without a step, of which `LoopsHaveArticles` is
the part that is not a distinction of cases. Behind `ScansProceed` stands
`HandlersHaveDocuments` in the same way, and `ScansAdvance` adds that the
steps lead to an end. The step from these to the temporal formulas needs fairness
and ENABLED. `CheckpointedRunsResume` depends on who executes a run again after
a crash and has no proved part of its own. The four runs that show a disagreement are
TLC's alone, as a counterexample is.

## 5. What is not modelled

Not modelled, and why:

* users and sessions (`auth.py`): single statements on single rows beside
  password hashing and cookies. The one race, two first set-ups at once, is two
  statements long and listed as a hazard.
* GRC adapter (`grc.py`): a stand-in for an external system, six updates of one
  row, of which one reads before it writes; listed as a hazard.
* language-model client and policy: no module calls the client; the rules decide.
* reports, web page, scripts, evaluation data: presentation and tools.

Inside the modelled components: error columns, progress counters, fetch events,
stored files, HTML parsing, wording. A ratio with denominator zero, for which
`compare_requirement` raises `ZeroDivisionError` (`requirement_matching.py:125`,
`:133`), is not an input of `RequirementRules`; the failure it causes is `Fail`
of `ComplianceReview`.

The plan is carried out: what was to be modelled is, and what this prover can
prove of the properties is proved. A next step would need other means: liveness
with fairness beyond TLC's instances, or the ranking of passages and the HTML of
the authorities, of which only the outcomes are modelled.

## 6. Where code and documentation disagree

* **FalseNoChange.** A run that compares while another request inserts the
  change rows takes the partial list for the whole and ends as `no_change`.
* **LostReview.** Two reviews of one revision are both accepted.
* **PhantomChange.** After an authority restores an earlier text every scan
  reports the same change again.
* **OrdinalArticles.** Articles 12 to 19 written as ordinals get the references
  of articles 2 to 9 and are compared with them; those from 22 on likewise.

Known behaviour, which the models have and no run of its own shows:

* Runs. A posted run whose process dies is never executed again
  (`app.py:579`). A run whose last audit event cannot be inserted is marked
  failed although it awaits its reviewers, or they completed it meanwhile
  (`pipeline.py:206`); start-up takes a seeded one up again, a posted one stays
  failed, with its pending tasks. A task decided while its run executes leaves the run awaiting
  a review nobody owes (`pipeline.py:200`). The last decision so far completes a
  run whose later gaps are not drafted yet (`review_service.py:83`). An edit of
  an approved task makes it pending again in a completed run
  (`review_service.py:48`). A crash between a task and its event leaves the
  event out (`pipeline.py:192`). A review that fails after its decision is
  stored does not close the run, which waits for the next review of one of its
  tasks; `MayAbort` says where a review may fail: before the write in
  ReviewRaces, anywhere in RunReviewFaults.
* Scans. An error after a version is stored makes the next scan find it
  unchanged, so its change is never analysed (`discovery.py:293`). A scan whose
  thread dies stays `running` (`app.py:594`). A link without a trailing slash
  lists a control twice; a link to another host, or one failing page of five,
  fails the whole NCA listing. The SASO connector does not know whether its list
  is whole: without the page-size control it is the first page, a page without
  items succeeds, and the hosts of items are looked at when they are downloaded
  only. Facts are looked for as parts of words ("ics", "ot").
* Onboarding. Two concurrent uploads each retain only the documents they saw,
  and the later `Publish` drops what the other added; it may also move the
  current version back. An upload during an approval opens the dashboard for a
  draft (`onboarding.py:482`). An approval repeated with other attributes keeps
  the first snapshot while the version's payload takes the new ones, although
  `docs/MAAL_SYSTEM_DETAILED_REPORT_AR.md:69` calls approved versions immutable.
* Compliance. A failure leaves a review `running`, and its key returns it for
  ever (`compliance_review.py:178`). A failed matching leaves assessments
  deleted until the next one. A correction given between look-up and write is
  overwritten until the next matching. A crash after the last update leaves no
  exposure.
* Calculations. "المادة الأولى" with its hamza and ordinals of tens alone are no
  headings, and an ordinal past twenty with a unit from two on is read as that
  unit (22 as 2, `ingestion.py:18`). Where a clause changes in an operator, a sign
  or a decimal point alone, "<50" to ">50", the change is recorded as editorial
  and nothing is derived from it (`change_detection.py:17`); articles 4.1.2 and 4.1.3 share the reference 4.1; two clauses with
  one reference collide on `change_id`, and the first is kept
  (`change_detection.py:103`). Four Hijri months are never recognised by name
  (`temporal_engine.py:37`). Conflicting measurements of one asset hide an
  exceedance of another, and retrieval stops at eight items (`retrieval.py:66`).
  A status of draft, expired or superseded is not looked at, nor is grace after
  the effective date. A workbook's sheet is passed over if its part is missing,
  and also if it is there but addressed from the root of the archive
  (`document_processing.py:193`), and the file may still count as a success; of
  an inline text the first run is read; cells without references share one
  locator. A Hijri mark glued to a date that names its month, or to a Gregorian
  one, keeps it from being read (`temporal_engine.py:106`). No module calls the
  temporal engine.
