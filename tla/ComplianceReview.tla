--------------------------- MODULE ComplianceReview ---------------------------
(***************************************************************************)
(* Requirement matching, reviewer feedback and compliance reviews          *)
(* (src/requirement_matching.py, src/compliance_review.py and their tables *)
(* in src/db.py), for one company snapshot whose documents are stored.     *)
(*                                                                         *)
(* A scan's thread matches a version with every document; a request that   *)
(* reviews one document matches the versions of the latest finished scan   *)
(* with that one.  Both clear the assessments they replace, in one         *)
(* transaction, and write the new ones one by one; nothing keeps them      *)
(* apart.  Texts are compared by constant functions: how a clause and a    *)
(* passage compare is RequirementRules'.                                   *)
(***************************************************************************)
EXTENDS Naturals, Sequences, FiniteSetsExt

CONSTANTS
    Keys,          \* idempotency keys of reviews
    Requests,      \* threads that serve POST /compliance-reviews
    Matchers,      \* threads of scans that match a version
    Documents,     \* documents of the company snapshot
    Regulations,   \* documents a finished scan reports with a version
    Clauses,       \* obligations in those versions
    RegulationOf,  \* regulations whose version holds the clause: two
                   \* documents of a source may share a version
    Verdict,       \* status of a document's best passage; "none" unrelated
    Exact,         \* whether it matches by reference, ratio or headcount
    Place,         \* its place among a clause's candidates, best first
    Evidence,      \* fingerprint of the clause's and the passage's texts
    Ratios,        \* clauses that require a ratio
    Changes,       \* changes with a watch window
    Citation,      \* how a document cites the article of a change
    Heavy,         \* changes of a threshold, a deadline or the scope
    Shortlist,     \* inexact candidates kept per clause (3)
    Decisions,     \* what a reviewer may answer: a correction, or "confirm"
    HasCosts,      \* whether the snapshot has a financial input
    MaxFeedback,   \* bound on feedback rows
    MayFail        \* whether a step may raise, or the process die

Status == {"compliant", "partially_compliant", "non_compliant",
           "needs_review", "insufficient_evidence"}

ASSUME MatchingAssumption ==
    /\ RegulationOf \in [Clauses -> SUBSET Regulations]
    /\ Verdict \in [Clauses -> [Documents -> Status \cup {"none"}]]
    /\ Exact \in [Clauses -> [Documents -> BOOLEAN]]
    /\ Place \in [Clauses -> [Documents -> Nat]]
    /\ Ratios \subseteq Clauses
ASSUME ChangeAssumption ==
    /\ Citation \in [Changes -> [Documents -> {"none", "superseded", "current", "other"}]]
    /\ Heavy \subseteq Changes
    /\ Changes \cap Clauses = {}    \* requirement ids have a prefix of their own
ASSUME DecisionAssumption == Decisions \subseteq Status \cup {"confirm"}
ASSUME ThreadAssumption == Requests \cap Matchers = {}
ASSUME ReviewBounds == Shortlist \in Nat \ {0} /\ MaxFeedback \in Nat
ASSUME ReviewSwitches == HasCosts \in BOOLEAN /\ MayFail \in BOOLEAN

Threads == Requests \cup Matchers
Fingerprints == {Evidence[c][d] : c \in Clauses, d \in Documents}

VARIABLES
    assessments,   \* status in requirement_assessments, per clause, document
    feedback,      \* analysis_feedback rows on a requirement and its evidence
    reviews,       \* compliance_reviews row of a key
    findings,      \* compliance_review_findings of a review
    dependencies,  \* superseded references in document_dependencies
    exposures,     \* reviews with a financial_exposures row
    pc,            \* where the thread is
    work,          \* what it has in memory
    matched,       \* history: clauses' regulations matched in full
    disturbed,     \* history: matchings another one failed during
    due            \* history: documents whose versions a review is to go through

reviewTables == <<reviews, findings, dependencies, exposures>>
matchTables == <<assessments, feedback>>
history == <<matched, disturbed, due>>
complianceVars == <<matchTables, reviewTables, pc, work, history>>

(* A review's row: the totals are those its score is computed from, with   *)
(* factors counted in halves.                                              *)
Review == [status : {"absent", "running", "completed", "needs_review"},
           document : Documents \cup {"none"}, weighted : Nat, assessed : Nat,
           warning : BOOLEAN]

(* about: the change, or the clause, a finding is about.                   *)
Finding == [about : Changes \cup Clauses, status : Status, weight : {2, 3}]
Assessment == [clause : Clauses, document : Documents, status : Status]

NoReview == [status |-> "absent", document |-> "none", weighted |-> 0,
             assessed |-> 0, warning |-> FALSE]
Idle == [key |-> "none", document |-> "none", changes |-> {}, regulations |-> {},
         matching |-> {}, left |-> {}, pending |-> {}, stored |-> {},
         found |-> {}, weighted |-> 0, assessed |-> 0]

(* STATUS_FACTOR, in halves; the other two do not count.                   *)
Scored == {"compliant", "partially_compliant", "non_compliant"}
Factor(status) == CASE status = "compliant" -> 2
                    [] status = "partially_compliant" -> 1
                    [] OTHER -> 0

ComplianceTypeOK ==
    /\ assessments \in [Clauses -> [Documents -> Status \cup {"none"}]]
    /\ \A c \in Clauses, f \in Fingerprints :
         feedback[c][f] \in Seq(Decisions)
    /\ reviews \in [Keys -> Review]
    /\ findings \in [Keys -> SUBSET Finding]
    /\ dependencies \subseteq Changes \X Documents
    /\ exposures \subseteq Keys
    /\ due \in [Keys -> SUBSET Regulations]
    /\ pc \in [Threads -> {"idle", "insert", "changes", "cite", "scan", "version",
                           "match", "record", "finish", "expose"}]
    /\ \A t \in Threads :
         /\ work[t].left \subseteq Clauses \X Documents
         /\ work[t].pending \cup work[t].stored \subseteq Assessment
         /\ work[t].found \subseteq Finding

ComplianceInit ==
    /\ assessments = [c \in Clauses |-> [d \in Documents |-> "none"]]
    /\ feedback = [c \in Clauses |-> [f \in Fingerprints |-> <<>>]]
    /\ reviews = [k \in Keys |-> NoReview]
    /\ findings = [k \in Keys |-> {}]
    /\ dependencies = {} /\ exposures = {}
    /\ pc = [t \in Threads |-> "idle"]
    /\ work = [t \in Threads |-> Idle]
    /\ matched = {} /\ disturbed = {}
    /\ due = [k \in Keys |-> {}]

-----------------------------------------------------------------------------
Goto(t, l) == pc' = [pc EXCEPT ![t] = l]

Return(t) ==
    /\ Goto(t, "idle")
    /\ work' = [work EXCEPT ![t] = Idle]

ClausesOf(r) == {c \in Clauses : r \in RegulationOf[c]}

(* A request's matching is with its document, a scan's with all.           *)
Scope(t) == IF t \in Requests THEN {work[t].document} ELSE Documents

(* Per clause the best passage of each related document; of those that do  *)
(* not match exactly only the first few.                                   *)
Selected(c, scope) ==
    LET related == {d \in scope : Verdict[c][d] # "none"}
        ahead(d) == {e \in related : ~Exact[c][e] /\ Place[c][e] < Place[c][d]}
    IN  {d \in related : Exact[c][d] \/ Cardinality(ahead(d)) < Shortlist}

(* Mutants of Judged: a correction is looked up without the fingerprint; a *)
(* status without a meaning.                                               *)
JudgedByClause(c, d) ==
    LET rows == UNION {{feedback[c][f][Len(feedback[c][f])]} :
                         f \in {g \in Fingerprints : feedback[c][g] # <<>>}}
    IN  IF rows \ {"confirm"} = {} THEN Verdict[c][d]
        ELSE CHOOSE s \in rows \ {"confirm"} : TRUE

VerdictPending(c, d) == "pending"

(* latest_analysis_feedback decides, if it is a rejection: its correction  *)
(* replaces the status the texts give.                                     *)
Judged(c, d) ==
    LET rows == feedback[c][Evidence[c][d]]
    IN  IF rows = <<>> \/ rows[Len(rows)] = "confirm" THEN Verdict[c][d]
        ELSE rows[Len(rows)]

-----------------------------------------------------------------------------
(* POST /analysis-feedback on a requirement: the assessment exists and has *)
(* the fingerprint the reviewer saw.                                       *)
GiveFeedback(c, d, decision) ==
    /\ assessments[c][d] # "none"
    /\ FoldSet(LAMBDA x, n : n + Len(feedback[x[1]][x[2]]), 0,
               Clauses \X Fingerprints) < MaxFeedback
    /\ feedback' = [feedback EXCEPT ![c][Evidence[c][d]] = Append(@, decision)]
    /\ UNCHANGED <<assessments, reviewTables, pc, work, history>>

-----------------------------------------------------------------------------

(* Mutants, each an action below with one mistake: the score counts a      *)
(* finding that was ignored; findings are read back from the table; a      *)
(* request clears the assessments of every document.                       *)
RecordCounting(q, a) ==
    LET f == [about |-> a.clause, status |-> a.status,
              weight |-> IF a.clause \in Ratios THEN 3 ELSE 2]
        w == work[q]
    IN
    /\ pc[q] = "record" /\ a \in w.stored
    /\ findings' = [findings EXCEPT ![w.key] =
            IF \E g \in @ : g.about = f.about THEN @ ELSE @ \cup {f}]
    /\ work' = [work EXCEPT ![q].stored = @ \ {a}, ![q].found = @ \cup {f},
            ![q].weighted = @ + f.weight * Factor(f.status),
            ![q].assessed = @ + IF f.status \in Scored THEN f.weight ELSE 0]
    /\ UNCHANGED <<matchTables, reviews, dependencies, exposures, pc,
                   history>>

MatchedReadingBack(t) ==
    LET w == work[t] IN
    /\ pc[t] = "match" /\ w.left = {} /\ w.pending = {}
    /\ IF t \in Requests
       THEN /\ work' = [work EXCEPT ![t].matching = {}, ![t].stored =
                  {a \in @ : assessments[a.clause][a.document] # "none"}]
            /\ Goto(t, "record")
       ELSE Return(t)
    /\ matched' = IF t \in Requests \cup disturbed THEN matched
                  ELSE matched \cup w.matching
    /\ UNCHANGED <<matchTables, reviewTables, disturbed, due>>

ClearAllDocuments(t, r) ==
    /\ pc[t] = "version" /\ r \in work[t].regulations
    /\ assessments' = [c \in Clauses |->
            IF c \in ClausesOf(r) THEN [d \in Documents |-> "none"] ELSE assessments[c]]
    /\ work' = [work EXCEPT ![t].regulations = @ \ {r},
            ![t].matching = ClausesOf(r),
            ![t].left = {p \in ClausesOf(r) \X Scope(t) : p[2] \in Selected(p[1], Scope(t))}]
    /\ disturbed' = disturbed \ {t}
    /\ Goto(t, "match")
    /\ UNCHANGED <<feedback, reviewTables, matched, due>>

-----------------------------------------------------------------------------
(* A review.  A key that has a row with another request hash is refused,   *)
(* with the same one its row is returned as it is, and nothing happens.    *)
Post(q, k, d) ==
    /\ pc[q] = "idle"
    /\ reviews[k].status = "absent"
    /\ work' = [work EXCEPT ![q] = [Idle EXCEPT !.key = k, !.document = d]]
    /\ Goto(q, "insert")
    /\ UNCHANGED <<matchTables, reviewTables, history>>

(* The key is unique: of two requests that found no row one fails.         *)
InsertReview(q) ==
    LET w == work[q] IN
    /\ pc[q] = "insert"
    /\ IF reviews[w.key].status = "absent"
       THEN /\ reviews' = [reviews EXCEPT ![w.key] = [NoReview EXCEPT
                                !.status = "running", !.document = w.document]]
            /\ Goto(q, "changes")
            /\ UNCHANGED work
       ELSE Return(q) /\ UNCHANGED reviews
    /\ UNCHANGED <<matchTables, findings, dependencies, exposures,
                   history>>

(* _active_changes: windows open and expire at any time.  Only the changes *)
(* the document cites leave a trace.                                       *)
ReadChanges(q, active) ==
    /\ pc[q] = "changes"
    /\ \A ch \in active : Citation[ch][work[q].document] # "none"
    /\ work' = [work EXCEPT ![q].changes = active]
    /\ Goto(q, "cite")
    /\ UNCHANGED <<matchTables, reviewTables, history>>

(* A finding, counted, and for a superseded value the dependency.  The two *)
(* rows commit one after the other.                                        *)
CiteChange(q, ch) ==
    LET w == work[q]
        cited == Citation[ch][w.document]
        f == [about |-> ch, weight |-> IF ch \in Heavy THEN 3 ELSE 2,
              status |-> CASE cited = "superseded" -> "non_compliant"
                           [] cited = "current" -> "compliant"
                           [] OTHER -> "partially_compliant"]
    IN
    /\ pc[q] = "cite" /\ ch \in w.changes
    /\ findings' = [findings EXCEPT ![w.key] = @ \cup {f}]
    /\ dependencies' = IF cited = "superseded"
                       THEN dependencies \cup {<<ch, w.document>>} ELSE dependencies
    /\ work' = [work EXCEPT ![q].changes = @ \ {ch}, ![q].found = @ \cup {f},
                            ![q].weighted = @ + f.weight * Factor(f.status),
                            ![q].assessed = @ + f.weight]
    /\ UNCHANGED <<matchTables, reviews, exposures, pc, history>>

(* What the latest finished scan found applicable: scans finish at any time*)
(* and may find anything; there may be none.                               *)
ReadScan(q, applicable) ==
    /\ pc[q] = "cite" /\ work[q].changes = {}
    /\ work' = [work EXCEPT ![q].regulations = applicable]
    /\ due' = [due EXCEPT ![work[q].key] = applicable]
    /\ Goto(q, "version")
    /\ UNCHANGED <<matchTables, reviewTables, matched, disturbed>>

(* A finding per assessment, unless its requirement has one already: then  *)
(* it is not counted either.                                               *)
RecordFinding(q, a) ==
    LET f == [about |-> a.clause, status |-> a.status,
              weight |-> IF a.clause \in Ratios THEN 3 ELSE 2]
        w == work[q]
        ignored == \E g \in findings[w.key] : g.about = f.about
    IN
    /\ pc[q] = "record" /\ a \in w.stored
    /\ IF ignored
       THEN /\ work' = [work EXCEPT ![q].stored = @ \ {a}]
            /\ UNCHANGED findings
       ELSE /\ findings' = [findings EXCEPT ![w.key] = @ \cup {f}]
            /\ work' = [work EXCEPT ![q].stored = @ \ {a}, ![q].found = @ \cup {f},
                  ![q].weighted = @ + f.weight * Factor(f.status),
                  ![q].assessed = @ + IF f.status \in Scored THEN f.weight ELSE 0]
    /\ UNCHANGED <<matchTables, reviews, dependencies, exposures, pc,
                   history>>

(* The version is done, or no version is left.                             *)
NextVersion(q) ==
    \/ /\ pc[q] = "record" /\ work[q].stored = {}
       /\ Goto(q, "version")
       /\ UNCHANGED <<matchTables, reviewTables, work, history>>
    \/ /\ q \in Requests /\ pc[q] = "version" /\ work[q].regulations = {}
       /\ Goto(q, "finish")
       /\ UNCHANGED <<matchTables, reviewTables, work, history>>

Finish(q) ==
    LET w == work[q] IN
    /\ pc[q] = "finish"
    /\ reviews' = [reviews EXCEPT ![w.key] = [@ EXCEPT
            !.status = IF w.found = {} THEN "needs_review" ELSE "completed",
            !.weighted = w.weighted, !.assessed = w.assessed,
            !.warning = \E f \in w.found : f.status = "non_compliant"]]
    /\ IF \E f \in w.found : f.status \in {"non_compliant", "partially_compliant"}
       THEN Goto(q, "expose") /\ UNCHANGED work
       ELSE Return(q)
    /\ UNCHANGED <<matchTables, findings, dependencies, exposures,
                   history>>

(* _financial_exposure: without a financial input there is not enough data.*)
Expose(q) ==
    /\ pc[q] = "expose"
    /\ exposures' = IF HasCosts THEN exposures \cup {work[q].key} ELSE exposures
    /\ Return(q)
    /\ UNCHANGED <<matchTables, reviews, findings, dependencies,
                   history>>

-----------------------------------------------------------------------------
(* Matching: assess_version_against_company.                               *)

(* A scan that stored a result for an applicable document.                 *)
BeginMatch(m, r) ==
    /\ pc[m] = "idle"
    /\ work' = [work EXCEPT ![m].regulations = {r}]
    /\ Goto(m, "version")
    /\ UNCHANGED <<matchTables, reviewTables, history>>

(* The assessments of the version are deleted, a request's only those of   *)
(* its document.                                                           *)
Clear(t, r) ==
    /\ pc[t] = "version" /\ r \in work[t].regulations
    /\ assessments' = [c \in Clauses |-> [d \in Documents |->
            IF c \in ClausesOf(r) /\ d \in Scope(t) THEN "none" ELSE assessments[c][d]]]
    /\ work' = [work EXCEPT ![t].regulations = @ \ {r},
            ![t].matching = ClausesOf(r),
            ![t].left = {p \in ClausesOf(r) \X Scope(t) : p[2] \in Selected(p[1], Scope(t))}]
    /\ disturbed' = disturbed \ {t}
    /\ Goto(t, "match")
    /\ UNCHANGED <<feedback, reviewTables, matched, due>>

(* Clause by clause; nothing here depends on their order.                  *)
Assess(t, c, d) ==
    /\ pc[t] = "match" /\ work[t].pending = {}
    /\ <<c, d>> \in work[t].left
    /\ work' = [work EXCEPT ![t].left = @ \ {<<c, d>>}, ![t].pending =
                    {[clause |-> c, document |-> d, status |-> Judged(c, d)]}]
    /\ UNCHANGED <<matchTables, reviewTables, pc, history>>

(* Inserted, or over a row another matching inserted meanwhile.            *)
Store(t) ==
    /\ pc[t] = "match"
    /\ \E a \in work[t].pending :
         /\ assessments' = [assessments EXCEPT ![a.clause][a.document] = a.status]
         /\ work' = [work EXCEPT ![t].pending = {}, ![t].stored = @ \cup {a}]
    /\ UNCHANGED <<feedback, reviewTables, pc, history>>

(* The list built in memory is returned, not what the table now holds.     *)
Matched(t) ==
    LET w == work[t] IN
    /\ pc[t] = "match" /\ w.left = {} /\ w.pending = {}
    /\ IF t \in Requests
       THEN /\ work' = [work EXCEPT ![t].matching = {}]
            /\ Goto(t, "record")
       ELSE Return(t)
    /\ matched' = IF t \in Requests \cup disturbed THEN matched
                  ELSE matched \cup w.matching
    /\ UNCHANGED <<matchTables, reviewTables, disturbed, due>>

-----------------------------------------------------------------------------
(* A step raises, and the thread gives up where it is.  The process dies   *)
(* with all of them, which is the failure of each.                         *)
Fail(t) ==
    /\ MayFail
    /\ pc[t] # "idle"
    /\ Return(t)
    /\ matched' = matched \ work[t].matching
    /\ disturbed' = disturbed \cup
            {u \in Threads : work[u].matching \cap work[t].matching # {}}
    /\ UNCHANGED <<matchTables, reviewTables, due>>

ComplianceNext ==
    \/ \E c \in Clauses, d \in Documents, s \in Decisions : GiveFeedback(c, d, s)
    \/ \E q \in Requests :
            \/ \E k \in Keys, d \in Documents : Post(q, k, d)
            \/ InsertReview(q)
            \/ \E active \in SUBSET Changes : ReadChanges(q, active)
            \/ \E ch \in Changes : CiteChange(q, ch)
            \/ \E applicable \in SUBSET Regulations : ReadScan(q, applicable)
            \/ \E a \in work[q].stored : RecordFinding(q, a)
            \/ NextVersion(q)
            \/ Finish(q)
            \/ Expose(q)
    \/ \E m \in Matchers, r \in Regulations : BeginMatch(m, r)
    \/ \E t \in Threads :
            \/ \E r \in Regulations : Clear(t, r)
            \/ \E c \in Clauses, d \in Documents : Assess(t, c, d)
            \/ Store(t)
            \/ Matched(t)
            \/ Fail(t)

ComplianceSpec == ComplianceInit /\ [][ComplianceNext]_complianceVars

-----------------------------------------------------------------------------
(* Properties.                                                             *)

Finished(k) == reviews[k].status \in {"completed", "needs_review"}

Total(k, amount(_)) == MapThenSumSet(amount, {f \in findings[k] : f.status \in Scored})

(* A finished review adds up: its totals count every stored finding that   *)
(* has a factor once, a requirement has one finding, the status and the    *)
(* warning follow from them, and each superseded reference is known to the *)
(* impact graph - whichever requests used its key at once.                 *)
ReviewAddsUp ==
    \A k \in Keys : Finished(k) =>
        /\ reviews[k].weighted = Total(k, LAMBDA f : f.weight * Factor(f.status))
        /\ reviews[k].assessed = Total(k, LAMBDA f : f.weight)
        /\ (reviews[k].status = "needs_review") = (findings[k] = {})
        /\ reviews[k].warning = (\E f \in findings[k] : f.status = "non_compliant")
        /\ \A f, g \in findings[k] : f.about = g.about => f = g
        /\ \A f \in findings[k] :
             f.about \in Changes /\ f.status = "non_compliant" =>
                <<f.about, reviews[k].document>> \in dependencies

(* A finished review is complete, although scans delete the assessments it *)
(* works on: for each version the latest finished scan had found applicable*)
(* when the review asked, it has a finding on every requirement its        *)
(* document says something about.                                          *)
ReviewCoversVersion ==
    \A k \in Keys : Finished(k) =>
        \A r \in due[k], c \in Clauses :
            c \in ClausesOf(r) /\ Verdict[c][reviews[k].document] # "none" =>
                \E g \in findings[k] : g.about = c

(* An assessment says what the texts give, or what a reviewer put in its   *)
(* place for the same evidence ("reused only for matching evidence         *)
(* fingerprints", app.py:495), and so does a finding of a review.          *)
StatusIsGrounded ==
    LET grounded(c, d, s) ==
            \/ s = Verdict[c][d]
            \/ \E i \in 1..Len(feedback[c][Evidence[c][d]]) :
                    s = feedback[c][Evidence[c][d]][i]
    IN  /\ \A c \in Clauses, d \in Documents :
             assessments[c][d] # "none" => grounded(c, d, assessments[c][d])
        /\ \A k \in Keys : \A f \in findings[k] : f.about \in Clauses =>
             grounded(f.about, reviews[k].document, f.status)

(* Matchings that overlap lose nothing: once a scan has matched a version  *)
(* and no matching of it is under way, every passage it selects has its    *)
(* assessment - unless a matching failed halfway and none was complete     *)
(* since.                                                                  *)
MatchingsKeepEvidence ==
    \A c \in matched :
        (\A t \in Threads : c \notin work[t].matching) =>
            \A d \in Selected(c, Documents) : assessments[c][d] # "none"

=============================================================================
