------------------------ MODULE ComplianceReviewProofs ------------------------
(***************************************************************************)
(* Proofs about ComplianceReview, for any number of requests, scans,       *)
(* reviews, documents and clauses, and any outcome of comparing texts.     *)
(***************************************************************************)
EXTENDS ComplianceReview, FoldLemmas, FiniteSetTheorems, TLAPS

-----------------------------------------------------------------------------
(* Types, in full.                                                         *)

Work == [key : Keys \cup {"none"}, document : Documents \cup {"none"},
         changes : SUBSET Changes, regulations : SUBSET Regulations,
         matching : SUBSET Clauses, left : SUBSET (Clauses \X Documents),
         pending : SUBSET Assessment, stored : SUBSET Assessment,
         found : SUBSET Finding, weighted : Nat, assessed : Nat]

TypesInv ==
    /\ ComplianceTypeOK
    /\ feedback \in [Clauses -> [Fingerprints -> Seq(Decisions)]]
    /\ work \in [Threads -> Work]
    /\ matched \subseteq Clauses /\ disturbed \subseteq Threads

-----------------------------------------------------------------------------
(* The inductive invariant.                                                *)

(* From its INSERT to its last UPDATE a review belongs to a request.       *)
Reviewing == {"changes", "cite", "version", "match", "record", "finish"}

Grounded(c, d, s) ==
    \/ s = Verdict[c][d]
    \/ \E i \in 1..Len(feedback[c][Evidence[c][d]]) :
            s = feedback[c][Evidence[c][d]][i]

(* What a matching has in hand, and only while it is under way.            *)
MatchingInv(t) ==
    /\ pc[t] # "match" =>
         work[t].matching = {} /\ work[t].left = {} /\ work[t].pending = {}
    /\ pc[t] \notin {"match", "record"} /\ t \in Requests => work[t].stored = {}
    /\ \A p \in work[t].left : Verdict[p[1]][p[2]] # "none"
    /\ \A a, b \in work[t].pending : a = b
    /\ \A a \in work[t].pending \cup work[t].stored :
         Grounded(a.clause, a.document, a.status)
    /\ t \in Matchers => pc[t] \in {"idle", "version", "match"}

(* A review under way is its request's, and holds what it has found.       *)
OwnerInv(q) ==
    LET w == work[q] IN
    /\ pc[q] # "idle" => w.key \in Keys /\ w.document \in Documents
    /\ pc[q] = "insert" => w.found = {}
    /\ pc[q] \in Reviewing =>
         /\ reviews[w.key].status = "running"
         /\ reviews[w.key].document = w.document
         /\ findings[w.key] = w.found
    /\ \A p \in w.left : p[2] = w.document
    /\ \A a \in w.pending \cup w.stored : a.document = w.document

SoleOwner ==
    \A p, q \in Requests :
        /\ pc[p] \in Reviewing /\ pc[q] \in Reviewing
        /\ work[p].key = work[q].key
        => p = q

(* Every requirement of r the document says something about has a finding. *)
Covered(found, d, r) ==
    \A c \in ClausesOf(r) : Verdict[c][d] # "none" => \E g \in found : g.about = c

(* Or will have: its assessment is still to be made, stored or recorded.   *)
Coming(w, r) ==
    \A c \in ClausesOf(r) : Verdict[c][w.document] # "none" =>
        \/ <<c, w.document>> \in w.left
        \/ \E a \in w.pending \cup w.stored : a.clause = c
        \/ \E g \in w.found : g.about = c

(* Of the versions a review is to go through, the ones it has not come to  *)
(* are still in its list, and the findings on the others are there or will *)
(* be.                                                                     *)
CoverageInv(q) ==
    /\ pc[q] \in {"version", "match", "record", "finish"} =>
         \A r \in due[work[q].key] :
            r \in work[q].regulations \/ Coming(work[q], r)
    /\ pc[q] = "finish" => work[q].regulations = {}

(* A review that was finished, or left halfway.                            *)
ReviewInv(k) ==
    /\ IF reviews[k].status = "absent" THEN findings[k] = {}
       ELSE reviews[k].document \in Documents
    /\ Finished(k) => \A r \in due[k] : Covered(findings[k], reviews[k].document, r)
    /\ \A f \in findings[k] : f.about \in Clauses =>
         Grounded(f.about, reviews[k].document, f.status)

(* A passage that should have its assessment has one, or a thread is about *)
(* to write it.                                                            *)
Kept(c) ==
    \A d \in Selected(c, Documents) :
        \/ assessments[c][d] # "none"
        \/ \E t \in Threads : /\ c \in work[t].matching
                              /\ \/ <<c, d>> \in work[t].left
                                 \/ \E a \in work[t].pending :
                                        a.clause = c /\ a.document = d

EvidenceInv ==
    /\ \A c \in matched : Kept(c)
    /\ \A t \in Matchers \ disturbed : \A c \in work[t].matching : Kept(c)

ComplianceInv ==
    /\ \A c \in Clauses, d \in Documents :
         assessments[c][d] # "none" => Grounded(c, d, assessments[c][d])
    /\ \A t \in Threads : MatchingInv(t)
    /\ \A q \in Requests : OwnerInv(q) /\ CoverageInv(q)
    /\ SoleOwner
    /\ \A k \in Keys : ReviewInv(k)
    /\ EvidenceInv

-----------------------------------------------------------------------------
(* What each action does to the memory of its thread.                      *)

(* A thread and its memory change, the others' do not.                     *)
Only(t) == \A u \in Threads : u # t => pc'[u] = pc[u] /\ work'[u] = work[u]

(* The thread is at l, for a review of key k and document d.               *)
Goes(t, l, k, d) ==
    Only(t) /\ pc'[t] = l /\ work'[t].key = k /\ work'[t].document = d

(* It holds these documents, clauses, pairs, assessments and findings.     *)
Holds(t, n, m, l, p, s, f) ==
    /\ work'[t].regulations = n
    /\ work'[t].matching = m /\ work'[t].left = l /\ work'[t].pending = p
    /\ work'[t].stored = s /\ work'[t].found = f

(* It holds what it held.                                                  *)
HoldsSame(t) ==
    Holds(t, work[t].regulations, work[t].matching, work[t].left,
          work[t].pending, work[t].stored, work[t].found)

LEMMA FactorIsNatural ==
    ASSUME NEW s
    PROVE  Factor(s) \in {0, 1, 2}
BY DEF Factor

(* The new memory of a thread, given as a record.                          *)
LEMMA MemoryChanges ==
    ASSUME TypesInv, NEW t \in Threads, NEW w \in Work,
           work' = [work EXCEPT ![t] = w]
    PROVE  /\ work' \in [Threads -> Work]
           /\ work'[t] = w
           /\ \A u \in Threads : u # t => work'[u] = work[u]
BY DEF TypesInv

LEMMA ThreadMoves ==
    ASSUME TypesInv, NEW t \in Threads, NEW l, Goto(t, l)
    PROVE  pc'[t] = l /\ \A u \in Threads : u # t => pc'[u] = pc[u]
BY DEF Goto, TypesInv, ComplianceTypeOK

LEMMA IdleIsWork == Idle \in Work
BY DEF Idle, Work

LEMMA Returned ==
    ASSUME TypesInv, NEW t \in Threads, Return(t)
    PROVE  /\ work' \in [Threads -> Work]
           /\ Goes(t, "idle", "none", "none")
           /\ Holds(t, {}, {}, {}, {}, {}, {})
<1>1. work' \in [Threads -> Work] /\ work'[t] = Idle
      /\ \A u \in Threads : u # t => work'[u] = work[u]
  BY IdleIsWork, MemoryChanges DEF Return
<1>2. pc'[t] = "idle" /\ \A u \in Threads : u # t => pc'[u] = pc[u]
  BY ThreadMoves DEF Return
<1> QED BY <1>1, <1>2 DEF Idle, Goes, Only, Holds

(* The types of the places and the memory follow from those of the tables. *)
Places == {"idle", "insert", "changes", "cite", "scan", "version", "match",
           "record", "finish", "expose"}

LEMMA PlacesTyped ==
    ASSUME TypesInv, NEW t \in Threads, NEW l \in Places, Goto(t, l)
    PROVE  pc' \in [Threads -> Places]
BY DEF Goto, TypesInv, ComplianceTypeOK, Places

LEMMA TypesKept ==
    ASSUME work' \in [Threads -> Work], pc' \in [Threads -> Places],
           assessments' \in [Clauses -> [Documents -> Status \cup {"none"}]],
           feedback' \in [Clauses -> [Fingerprints -> Seq(Decisions)]],
           reviews' \in [Keys -> Review],
           findings' \in [Keys -> SUBSET Finding],
           dependencies' \subseteq Changes \X Documents,
           exposures' \subseteq Keys,
           matched' \subseteq Clauses, disturbed' \subseteq Threads,
           due' \in [Keys -> SUBSET Regulations]
    PROVE  TypesInv'
<1>1. \A t \in Threads :
        /\ work'[t].left \subseteq Clauses \X Documents
        /\ work'[t].pending \cup work'[t].stored \subseteq Assessment
        /\ work'[t].found \subseteq Finding
  BY DEF Work
<1>2. \A c \in Clauses, f \in Fingerprints : feedback'[c][f] \in Seq(Decisions)
  OBVIOUS
<1>3. ComplianceTypeOK'
  BY <1>1, <1>2 DEF ComplianceTypeOK, Places
<1> QED BY <1>3 DEF TypesInv

-----------------------------------------------------------------------------
(* Types and memory, action by action.                                     *)

LEMMA PostEffect ==
    ASSUME TypesInv, NEW q \in Requests, NEW k \in Keys, NEW d \in Documents,
           Post(q, k, d)
    PROVE  TypesInv' /\ Goes(q, "insert", k, d) /\ Holds(q, {}, {}, {}, {}, {}, {})
<1> DEFINE w == [Idle EXCEPT !.key = k, !.document = d]
<1>1. /\ w \in Work /\ w.key = k /\ w.document = d /\ w.regulations = {}
      /\ w.matching = {}
      /\ w.left = {} /\ w.pending = {} /\ w.stored = {} /\ w.found = {}
  BY DEF Idle, Work
<1>2. work' = [work EXCEPT ![q] = w] /\ Goto(q, "insert")
  BY DEF Post
<1> HIDE DEF w
<1>3. q \in Threads
  BY DEF Threads
<1>4. /\ work' \in [Threads -> Work] /\ work'[q] = w
      /\ \A u \in Threads : u # q => work'[u] = work[u]
  BY <1>1, <1>2, <1>3, MemoryChanges
<1>5. /\ pc' \in [Threads -> Places] /\ pc'[q] = "insert"
      /\ \A u \in Threads : u # q => pc'[u] = pc[u]
  BY <1>2, <1>3, PlacesTyped, ThreadMoves DEF Places
<1>6. TypesInv'
  <2> USE <1>4, <1>5
  <2> SUFFICES /\ UNCHANGED <<assessments, feedback, reviews, findings,
                              dependencies, exposures, matched, disturbed, due>>
    BY TypesKept DEF TypesInv, ComplianceTypeOK
  <2> QED BY DEF Post, matchTables, reviewTables, history
<1> QED BY <1>1, <1>4, <1>5, <1>6 DEF Goes, Only, Holds

LEMMA InsertEffect ==
    ASSUME TypesInv, NEW q \in Requests, InsertReview(q),
           work[q].key \in Keys, work[q].document \in Documents
    PROVE  /\ TypesInv'
           /\ \/ /\ Goes(q, "idle", "none", "none")
                 /\ Holds(q, {}, {}, {}, {}, {}, {})
                 /\ UNCHANGED reviews
              \/ /\ Goes(q, "changes", work[q].key, work[q].document)
                 /\ HoldsSame(q)
                 /\ reviews[work[q].key].status = "absent"
                 /\ reviews'[work[q].key].status = "running"
                 /\ reviews'[work[q].key].document = work[q].document
                 /\ \A k \in Keys : k # work[q].key => reviews'[k] = reviews[k]
<1>1. q \in Threads
  BY DEF Threads
<1>2. UNCHANGED <<assessments, feedback, findings, dependencies, exposures,
                  matched, disturbed, due>>
  BY DEF InsertReview, matchTables, history
<1>3. CASE reviews[work[q].key].status = "absent"
  <2> DEFINE row == [NoReview EXCEPT !.status = "running",
                                     !.document = work[q].document]
  <2>1. row \in Review /\ row.status = "running" /\ row.document = work[q].document
    BY DEF NoReview, Review
  <2>2. reviews' = [reviews EXCEPT ![work[q].key] = row]
        /\ Goto(q, "changes") /\ UNCHANGED work
    BY <1>3 DEF InsertReview
  <2> HIDE DEF row
  <2>3. /\ reviews' \in [Keys -> Review] /\ reviews'[work[q].key] = row
        /\ \A k \in Keys : k # work[q].key => reviews'[k] = reviews[k]
    BY <2>1, <2>2 DEF TypesInv, ComplianceTypeOK
  <2>4. /\ pc' \in [Threads -> Places] /\ pc'[q] = "changes"
        /\ \A u \in Threads : u # q => pc'[u] = pc[u]
    BY <1>1, <2>2, PlacesTyped, ThreadMoves DEF Places
  <2>5. TypesInv'
    BY <1>2, <2>2, <2>3, <2>4, TypesKept DEF TypesInv, ComplianceTypeOK
  <2> QED BY <1>3, <2>1, <2>2, <2>3, <2>4, <2>5 DEF Goes, Only, Holds, HoldsSame
<1>4. CASE reviews[work[q].key].status # "absent"
  <2>1. Return(q) /\ UNCHANGED reviews
    BY <1>4 DEF InsertReview
  <2>2. pc' \in [Threads -> Places]
    BY <1>1, <2>1, PlacesTyped DEF Return, Places
  <2>3. TypesInv'
    BY <1>1, <1>2, <2>1, <2>2, Returned, TypesKept DEF TypesInv, ComplianceTypeOK
  <2> QED BY <1>1, <2>1, <2>3, Returned
<1> QED BY <1>3, <1>4

LEMMA ReadChangesEffect ==
    ASSUME TypesInv, NEW q \in Requests, NEW active \in SUBSET Changes,
           ReadChanges(q, active)
    PROVE  /\ TypesInv' /\ HoldsSame(q)
           /\ Goes(q, "cite", work[q].key, work[q].document)
<1> DEFINE w == [work[q] EXCEPT !.changes = active]
<1>1. q \in Threads
  BY DEF Threads
<1>2. work[q] \in Work
  BY <1>1 DEF TypesInv
<1>3. /\ w \in Work /\ w.key = work[q].key /\ w.document = work[q].document
      /\ w.regulations = work[q].regulations
      /\ w.matching = work[q].matching /\ w.left = work[q].left
      /\ w.pending = work[q].pending /\ w.stored = work[q].stored
      /\ w.found = work[q].found
  BY <1>2 DEF Work
<1>4. work' = [work EXCEPT ![q] = w] /\ Goto(q, "cite")
  BY DEF ReadChanges
<1> HIDE DEF w
<1>5. /\ work' \in [Threads -> Work] /\ work'[q] = w
      /\ \A u \in Threads : u # q => work'[u] = work[u]
  BY <1>1, <1>3, <1>4, MemoryChanges
<1>6. /\ pc' \in [Threads -> Places] /\ pc'[q] = "cite"
      /\ \A u \in Threads : u # q => pc'[u] = pc[u]
  BY <1>1, <1>4, PlacesTyped, ThreadMoves DEF Places
<1>7. TypesInv'
  <2> SUFFICES UNCHANGED <<assessments, feedback, reviews, findings,
                           dependencies, exposures, matched, disturbed, due>>
    BY <1>5, <1>6, TypesKept DEF TypesInv, ComplianceTypeOK
  <2> QED BY DEF ReadChanges, matchTables, reviewTables, history
<1> QED BY <1>3, <1>5, <1>6, <1>7 DEF Goes, Only, Holds, HoldsSame

LEMMA CiteEffect ==
    ASSUME TypesInv, NEW q \in Requests, NEW ch \in Changes, CiteChange(q, ch),
           work[q].key \in Keys, work[q].document \in Documents
    PROVE  /\ TypesInv' /\ Goes(q, "cite", work[q].key, work[q].document)
           /\ \A k \in Keys : k # work[q].key => findings'[k] = findings[k]
           /\ \E f \in Finding :
                /\ f.about = ch
                /\ Holds(q, work[q].regulations, work[q].matching,
                         work[q].left, work[q].pending, work[q].stored, work[q].found \cup {f})
                /\ findings'[work[q].key] = findings[work[q].key] \cup {f}
<1> DEFINE cited == Citation[ch][work[q].document]
           f == [about |-> ch, weight |-> IF ch \in Heavy THEN 3 ELSE 2,
                 status |-> CASE cited = "superseded" -> "non_compliant"
                              [] cited = "current" -> "compliant"
                              [] OTHER -> "partially_compliant"]
           more == f.weight * Factor(f.status)
           w == [work[q] EXCEPT !.changes = @ \ {ch}, !.found = @ \cup {f},
                    !.weighted = @ + more, !.assessed = @ + f.weight]
<1>1. q \in Threads
  BY DEF Threads
<1>2. work[q] \in Work
  BY <1>1 DEF TypesInv
<1>3. f \in Finding /\ f.about = ch
  BY DEF Finding, Status
<1>4. /\ work' = [work EXCEPT ![q] = w]
      /\ findings' = [findings EXCEPT ![work[q].key] = @ \cup {f}]
      /\ dependencies' \in {dependencies, dependencies \cup {<<ch, work[q].document>>}}
      /\ pc' = pc /\ pc[q] = "cite"
      /\ UNCHANGED <<assessments, feedback, reviews, exposures, matched, disturbed, due>>
  BY DEF CiteChange, matchTables, history
<1>5. f.weight \in {2, 3} /\ Factor(f.status) \in {0, 1, 2}
  BY <1>3, FactorIsNatural DEF Finding
<1> HIDE DEF f
<1>6. more \in Nat /\ f.weight \in Nat
  BY <1>5
<1> HIDE DEF more
<1>7. /\ w \in Work /\ w.key = work[q].key /\ w.document = work[q].document
      /\ w.regulations = work[q].regulations
      /\ w.matching = work[q].matching /\ w.left = work[q].left
      /\ w.pending = work[q].pending /\ w.stored = work[q].stored
      /\ w.found = work[q].found \cup {f}
  <2>1. /\ work[q].changes \ {ch} \in SUBSET Changes
        /\ work[q].found \cup {f} \in SUBSET Finding
        /\ work[q].weighted + more \in Nat
        /\ work[q].assessed + f.weight \in Nat
    BY <1>2, <1>3, <1>6 DEF Work
  <2> QED BY <1>2, <2>1 DEF Work
<1> HIDE DEF w
<1>8. /\ work' \in [Threads -> Work] /\ work'[q] = w
      /\ \A u \in Threads : u # q => work'[u] = work[u]
  BY <1>1, <1>4, <1>7, MemoryChanges
<1>9. /\ findings' \in [Keys -> SUBSET Finding]
      /\ findings'[work[q].key] = findings[work[q].key] \cup {f}
      /\ \A k \in Keys : k # work[q].key => findings'[k] = findings[k]
  BY <1>3, <1>4 DEF TypesInv, ComplianceTypeOK
<1>10. dependencies' \subseteq Changes \X Documents
  BY <1>4 DEF TypesInv, ComplianceTypeOK
<1>11. TypesInv'
  BY <1>4, <1>8, <1>9, <1>10, TypesKept DEF TypesInv, ComplianceTypeOK, Places
<1> QED BY <1>3, <1>4, <1>7, <1>8, <1>9, <1>11 DEF Goes, Only, Holds

LEMMA ReadScanEffect ==
    ASSUME TypesInv, NEW q \in Requests, NEW applicable \in SUBSET Regulations,
           ReadScan(q, applicable)
    PROVE  /\ TypesInv'
           /\ Holds(q, applicable, work[q].matching, work[q].left, work[q].pending,
                    work[q].stored, work[q].found)
           /\ work[q].key \in Keys => due'[work[q].key] = applicable
           /\ \A k \in Keys : k # work[q].key => due'[k] = due[k]
           /\ Goes(q, "version", work[q].key, work[q].document)
<1> DEFINE w == [work[q] EXCEPT !.regulations = applicable]
<1>1. q \in Threads
  BY DEF Threads
<1>2. work[q] \in Work
  BY <1>1 DEF TypesInv
<1>3. /\ w \in Work /\ w.key = work[q].key /\ w.document = work[q].document
      /\ w.regulations = applicable
      /\ w.matching = work[q].matching /\ w.left = work[q].left
      /\ w.pending = work[q].pending /\ w.stored = work[q].stored
      /\ w.found = work[q].found
  BY <1>2 DEF Work
<1>4. work' = [work EXCEPT ![q] = w] /\ Goto(q, "version")
  BY DEF ReadScan
<1> HIDE DEF w
<1>5. /\ work' \in [Threads -> Work] /\ work'[q] = w
      /\ \A u \in Threads : u # q => work'[u] = work[u]
  BY <1>1, <1>3, <1>4, MemoryChanges
<1>6. /\ pc' \in [Threads -> Places] /\ pc'[q] = "version"
      /\ \A u \in Threads : u # q => pc'[u] = pc[u]
  BY <1>1, <1>4, PlacesTyped, ThreadMoves DEF Places
<1>7. /\ due' \in [Keys -> SUBSET Regulations]
      /\ work[q].key \in Keys => due'[work[q].key] = applicable
      /\ \A k \in Keys : k # work[q].key => due'[k] = due[k]
  BY DEF ReadScan, TypesInv, ComplianceTypeOK
<1>8. TypesInv'
  <2> SUFFICES UNCHANGED <<assessments, feedback, reviews, findings,
                           dependencies, exposures, matched, disturbed>>
    BY <1>5, <1>6, <1>7, TypesKept DEF TypesInv, ComplianceTypeOK
  <2> QED BY DEF ReadScan, matchTables, reviewTables
<1> QED BY <1>3, <1>5, <1>6, <1>7, <1>8 DEF Goes, Only, Holds

LEMMA BeginMatchEffect ==
    ASSUME TypesInv, NEW m \in Matchers, NEW r \in Regulations, BeginMatch(m, r)
    PROVE  /\ TypesInv'
           /\ Holds(m, {r}, work[m].matching, work[m].left, work[m].pending,
                    work[m].stored, work[m].found)
           /\ Goes(m, "version", work[m].key, work[m].document)
<1> DEFINE w == [work[m] EXCEPT !.regulations = {r}]
<1>1. m \in Threads
  BY DEF Threads
<1>2. work[m] \in Work
  BY <1>1 DEF TypesInv
<1>3. /\ w \in Work /\ w.key = work[m].key /\ w.document = work[m].document
      /\ w.regulations = {r}
      /\ w.matching = work[m].matching /\ w.left = work[m].left
      /\ w.pending = work[m].pending /\ w.stored = work[m].stored
      /\ w.found = work[m].found
  BY <1>2 DEF Work
<1>4. work' = [work EXCEPT ![m] = w] /\ Goto(m, "version")
  BY DEF BeginMatch
<1> HIDE DEF w
<1>5. /\ work' \in [Threads -> Work] /\ work'[m] = w
      /\ \A u \in Threads : u # m => work'[u] = work[u]
  BY <1>1, <1>3, <1>4, MemoryChanges
<1>6. /\ pc' \in [Threads -> Places] /\ pc'[m] = "version"
      /\ \A u \in Threads : u # m => pc'[u] = pc[u]
  BY <1>1, <1>4, PlacesTyped, ThreadMoves DEF Places
<1>7. TypesInv'
  <2> SUFFICES UNCHANGED <<assessments, feedback, reviews, findings,
                           dependencies, exposures, matched, disturbed, due>>
    BY <1>5, <1>6, TypesKept DEF TypesInv, ComplianceTypeOK
  <2> QED BY DEF BeginMatch, matchTables, reviewTables, history
<1> QED BY <1>3, <1>5, <1>6, <1>7 DEF Goes, Only, Holds

(* A finding for an assessment, or none when its requirement has one.      *)
LEMMA RecordEffect ==
    ASSUME TypesInv, NEW q \in Requests, NEW a \in work[q].stored,
           RecordFinding(q, a),
           work[q].key \in Keys, work[q].document \in Documents
    PROVE  /\ TypesInv' /\ Goes(q, "record", work[q].key, work[q].document)
           /\ \A k \in Keys : k # work[q].key => findings'[k] = findings[k]
           /\ \/ /\ \E g \in findings[work[q].key] : g.about = a.clause
                 /\ Holds(q, work[q].regulations, work[q].matching,
                          work[q].left, work[q].pending, work[q].stored \ {a}, work[q].found)
                 /\ findings'[work[q].key] = findings[work[q].key]
              \/ \E f \in Finding :
                   /\ f.about = a.clause /\ f.status = a.status
                   /\ Holds(q, work[q].regulations, work[q].matching,
                            work[q].left, work[q].pending, work[q].stored \ {a}, work[q].found \cup {f})
                   /\ findings'[work[q].key] = findings[work[q].key] \cup {f}
<1> DEFINE f == [about |-> a.clause, status |-> a.status,
                 weight |-> IF a.clause \in Ratios THEN 3 ELSE 2]
           more == f.weight * Factor(f.status)
           counted == IF f.status \in Scored THEN f.weight ELSE 0
           ignored == \E g \in findings[work[q].key] : g.about = f.about
           w == [work[q] EXCEPT !.stored = @ \ {a}, !.found = @ \cup {f},
                    !.weighted = @ + more, !.assessed = @ + counted]
           v == [work[q] EXCEPT !.stored = @ \ {a}]
<1>1. q \in Threads
  BY DEF Threads
<1>2. work[q] \in Work /\ a \in Assessment
  BY <1>1 DEF TypesInv, Work
<1>3. f \in Finding /\ f.about = a.clause /\ f.status = a.status
  BY <1>2 DEF Finding, Assessment
<1>4. /\ pc' = pc /\ pc[q] = "record"
      /\ UNCHANGED <<assessments, feedback, reviews, dependencies, exposures,
                     matched, disturbed, due>>
  BY DEF RecordFinding, matchTables, history
<1>5. f.weight \in {2, 3} /\ Factor(f.status) \in {0, 1, 2}
  BY <1>3, FactorIsNatural DEF Finding
<1>6. pc' \in [Threads -> Places]
  BY <1>4 DEF TypesInv, ComplianceTypeOK, Places
<1>7. CASE ignored
  <2>1. work' = [work EXCEPT ![q] = v] /\ UNCHANGED findings
    BY <1>7 DEF RecordFinding
  <2>2. /\ v \in Work /\ v.key = work[q].key /\ v.document = work[q].document
        /\ v.regulations = work[q].regulations
        /\ v.matching = work[q].matching /\ v.left = work[q].left
        /\ v.pending = work[q].pending /\ v.stored = work[q].stored \ {a}
        /\ v.found = work[q].found
    <3>1. work[q].stored \ {a} \in SUBSET Assessment
      BY <1>2 DEF Work
    <3> QED BY <1>2, <3>1 DEF Work
  <2> HIDE DEF v
  <2>3. /\ work' \in [Threads -> Work] /\ work'[q] = v
        /\ \A u \in Threads : u # q => work'[u] = work[u]
    BY <1>1, <2>1, <2>2, MemoryChanges
  <2>4. TypesInv'
    BY <1>4, <1>6, <2>1, <2>3, TypesKept DEF TypesInv, ComplianceTypeOK
  <2> QED BY <1>3, <1>4, <1>7, <2>1, <2>2, <2>3, <2>4 DEF Goes, Only, Holds
<1>8. CASE ~ignored
  <2>1. /\ work' = [work EXCEPT ![q] = w]
        /\ findings' = [findings EXCEPT ![work[q].key] = @ \cup {f}]
    BY <1>8 DEF RecordFinding
  <2> HIDE DEF f
  <2>2. more \in Nat /\ counted \in Nat
    BY <1>5
  <2> HIDE DEF more, counted
  <2>3. /\ w \in Work /\ w.key = work[q].key /\ w.document = work[q].document
        /\ w.regulations = work[q].regulations
        /\ w.matching = work[q].matching /\ w.left = work[q].left
        /\ w.pending = work[q].pending /\ w.stored = work[q].stored \ {a}
        /\ w.found = work[q].found \cup {f}
    <3>1. /\ work[q].stored \ {a} \in SUBSET Assessment
          /\ work[q].found \cup {f} \in SUBSET Finding
          /\ work[q].weighted + more \in Nat
          /\ work[q].assessed + counted \in Nat
      BY <1>2, <1>3, <2>2 DEF Work
    <3> QED BY <1>2, <3>1 DEF Work
  <2> HIDE DEF w
  <2>4. /\ work' \in [Threads -> Work] /\ work'[q] = w
        /\ \A u \in Threads : u # q => work'[u] = work[u]
    BY <1>1, <2>1, <2>3, MemoryChanges
  <2>5. /\ findings' \in [Keys -> SUBSET Finding]
        /\ findings'[work[q].key] = findings[work[q].key] \cup {f}
        /\ \A k \in Keys : k # work[q].key => findings'[k] = findings[k]
    BY <1>3, <2>1 DEF TypesInv, ComplianceTypeOK
  <2>6. TypesInv'
    BY <1>4, <1>6, <2>4, <2>5, TypesKept DEF TypesInv, ComplianceTypeOK
  <2> QED BY <1>3, <1>4, <2>3, <2>4, <2>5, <2>6 DEF Goes, Only, Holds
<1> QED BY <1>7, <1>8

LEMMA NextVersionEffect ==
    ASSUME TypesInv, NEW q \in Requests, NextVersion(q)
    PROVE  /\ TypesInv' /\ HoldsSame(q)
           /\ \/ /\ pc[q] = "record" /\ work[q].stored = {}
                 /\ Goes(q, "version", work[q].key, work[q].document)
              \/ /\ pc[q] = "version" /\ work[q].regulations = {}
                 /\ Goes(q, "finish", work[q].key, work[q].document)
<1>1. q \in Threads
  BY DEF Threads
<1>2. UNCHANGED <<assessments, feedback, reviews, findings, dependencies,
                  exposures, work, matched, disturbed, due>>
  BY DEF NextVersion, matchTables, reviewTables, history
<1>3. PICK l \in {"version", "finish"} :
        /\ Goto(q, l)
        /\ l = "version" => pc[q] = "record" /\ work[q].stored = {}
        /\ l = "finish" => pc[q] = "version" /\ work[q].regulations = {}
  BY DEF NextVersion
<1>4. /\ pc' \in [Threads -> Places] /\ pc'[q] = l
      /\ \A u \in Threads : u # q => pc'[u] = pc[u]
  BY <1>1, <1>3, PlacesTyped, ThreadMoves DEF Places
<1>5. TypesInv'
  BY <1>2, <1>4, TypesKept DEF TypesInv, ComplianceTypeOK
<1> QED BY <1>2, <1>3, <1>4, <1>5 DEF Goes, Only, Holds, HoldsSame

LEMMA FinishEffect ==
    ASSUME TypesInv, NEW q \in Requests, Finish(q), work[q].key \in Keys
    PROVE  /\ TypesInv'
           /\ reviews'[work[q].key].status \in {"needs_review", "completed"}
           /\ reviews'[work[q].key].document = reviews[work[q].key].document
           /\ \A k \in Keys : k # work[q].key => reviews'[k] = reviews[k]
           /\ \/ Goes(q, "idle", "none", "none") /\ Holds(q, {}, {}, {}, {}, {}, {})
              \/ Goes(q, "expose", work[q].key, work[q].document) /\ HoldsSame(q)
<1> DEFINE row == [reviews[work[q].key] EXCEPT
                     !.status = IF work[q].found = {} THEN "needs_review" ELSE "completed",
                     !.weighted = work[q].weighted, !.assessed = work[q].assessed,
                     !.warning = \E f \in work[q].found : f.status = "non_compliant"]
<1>1. q \in Threads
  BY DEF Threads
<1>2. UNCHANGED <<assessments, feedback, findings, dependencies,
                  exposures, matched, disturbed, due>>
  BY DEF Finish, matchTables, history
<1>3. reviews' = [reviews EXCEPT ![work[q].key] = row]
  BY DEF Finish
<1>4. /\ row \in Review /\ row.status \in {"needs_review", "completed"}
      /\ row.document = reviews[work[q].key].document
  <2>1. work[q].weighted \in Nat /\ work[q].assessed \in Nat
    BY <1>1 DEF TypesInv, Work
  <2>2. reviews[work[q].key] \in Review
    BY DEF TypesInv, ComplianceTypeOK
  <2> DEFINE warned == \E f \in work[q].found : f.status = "non_compliant"
  <2>3. warned \in BOOLEAN
    OBVIOUS
  <2> HIDE DEF warned
  <2> QED BY <2>1, <2>2, <2>3 DEF Review
<1> HIDE DEF row
<1>5. /\ reviews' \in [Keys -> Review] /\ reviews'[work[q].key] = row
      /\ \A k \in Keys : k # work[q].key => reviews'[k] = reviews[k]
  BY <1>3, <1>4 DEF TypesInv, ComplianceTypeOK
<1>6. CASE Goto(q, "expose") /\ UNCHANGED work
  <2>1. /\ pc' \in [Threads -> Places] /\ pc'[q] = "expose"
        /\ \A u \in Threads : u # q => pc'[u] = pc[u]
    BY <1>1, <1>6, PlacesTyped, ThreadMoves DEF Places
  <2>2. TypesInv'
    BY <1>2, <1>5, <1>6, <2>1, TypesKept DEF TypesInv, ComplianceTypeOK
  <2> QED BY <1>4, <1>5, <1>6, <2>1, <2>2 DEF Goes, Only, Holds, HoldsSame
<1>7. CASE Return(q)
  <2>1. pc' \in [Threads -> Places]
    BY <1>1, <1>7, PlacesTyped DEF Return, Places
  <2>2. TypesInv'
    BY <1>1, <1>2, <1>5, <1>7, <2>1, Returned, TypesKept DEF TypesInv, ComplianceTypeOK
  <2> QED BY <1>1, <1>4, <1>5, <1>7, <2>2, Returned
<1> QED BY <1>6, <1>7 DEF Finish

LEMMA ExposeEffect ==
    ASSUME TypesInv, NEW q \in Requests, Expose(q), work[q].key \in Keys
    PROVE  /\ TypesInv' /\ Goes(q, "idle", "none", "none")
           /\ Holds(q, {}, {}, {}, {}, {}, {})
<1>1. q \in Threads /\ Return(q)
  BY DEF Threads, Expose
<1>2. UNCHANGED <<assessments, feedback, reviews, findings, dependencies,
                  matched, disturbed, due>>
      /\ exposures' \subseteq Keys
  BY DEF Expose, matchTables, history, TypesInv, ComplianceTypeOK
<1>3. pc' \in [Threads -> Places]
  BY <1>1, PlacesTyped DEF Return, Places
<1>4. TypesInv'
  BY <1>1, <1>2, <1>3, Returned, TypesKept DEF TypesInv, ComplianceTypeOK
<1> QED BY <1>1, <1>4, Returned

LEMMA ClearEffect ==
    ASSUME TypesInv, NEW t \in Threads, NEW r \in Regulations, Clear(t, r),
           t \in Requests => work[t].document \in Documents
    PROVE  /\ TypesInv'
           /\ Goes(t, "match", work[t].key, work[t].document)
           /\ Holds(t, work[t].regulations \ {r}, ClausesOf(r),
                    {p \in ClausesOf(r) \X Scope(t) : p[2] \in Selected(p[1], Scope(t))},
                    work[t].pending, work[t].stored, work[t].found)
           /\ \A c \in Clauses, d \in Documents : assessments'[c][d] =
                IF c \in ClausesOf(r) /\ d \in Scope(t) THEN "none"
                ELSE assessments[c][d]
           /\ pc[t] = "version" /\ disturbed' = disturbed \ {t}
           /\ UNCHANGED <<feedback, reviews, findings, matched, due>>
<1> DEFINE pairs == {p \in ClausesOf(r) \X Scope(t) : p[2] \in Selected(p[1], Scope(t))}
           w == [work[t] EXCEPT !.regulations = @ \ {r},
                                !.matching = ClausesOf(r), !.left = pairs]
<1>1. /\ work' = [work EXCEPT ![t] = w] /\ Goto(t, "match")
      /\ pc[t] = "version" /\ disturbed' = disturbed \ {t}
      /\ assessments' = [c \in Clauses |-> [d \in Documents |->
            IF c \in ClausesOf(r) /\ d \in Scope(t) THEN "none" ELSE assessments[c][d]]]
      /\ UNCHANGED <<feedback, reviews, findings, dependencies, exposures, matched, due>>
  BY DEF Clear, reviewTables
<1>2. work[t] \in Work
  BY DEF TypesInv
<1>3. ClausesOf(r) \subseteq Clauses /\ Scope(t) \subseteq Documents
  BY DEF ClausesOf, Scope
<1>4. pairs \in SUBSET (Clauses \X Documents)
  <2> HIDE DEF pairs
  <2>1. pairs \subseteq ClausesOf(r) \X Scope(t)
    BY DEF pairs
  <2> QED BY <1>3, <2>1
<1> HIDE DEF pairs
<1>5. /\ w \in Work /\ w.key = work[t].key /\ w.document = work[t].document
      /\ w.regulations = work[t].regulations \ {r}
      /\ w.matching = ClausesOf(r) /\ w.left = pairs
      /\ w.pending = work[t].pending /\ w.stored = work[t].stored
      /\ w.found = work[t].found
  <2>1. work[t].regulations \ {r} \in SUBSET Regulations
    BY <1>2 DEF Work
  <2> QED BY <1>2, <1>3, <1>4, <2>1 DEF Work
<1> HIDE DEF w
<1>6. /\ work' \in [Threads -> Work] /\ work'[t] = w
      /\ \A u \in Threads : u # t => work'[u] = work[u]
  BY <1>1, <1>5, MemoryChanges
<1>7. /\ pc' \in [Threads -> Places] /\ pc'[t] = "match"
      /\ \A u \in Threads : u # t => pc'[u] = pc[u]
  BY <1>1, PlacesTyped, ThreadMoves DEF Places
<1>8. assessments' \in [Clauses -> [Documents -> Status \cup {"none"}]]
  BY <1>1 DEF TypesInv, ComplianceTypeOK
<1>9. TypesInv'
  BY <1>1, <1>6, <1>7, <1>8, TypesKept DEF TypesInv, ComplianceTypeOK
<1>10. \A c \in Clauses, d \in Documents : assessments'[c][d] =
                IF c \in ClausesOf(r) /\ d \in Scope(t) THEN "none"
                ELSE assessments[c][d]
  BY <1>1
<1> QED BY <1>1, <1>5, <1>6, <1>7, <1>9, <1>10 DEF Goes, Only, Holds, pairs

(* A correction or the verdict on the texts, which is a status.            *)
LEMMA JudgedIsStatus ==
    ASSUME TypesInv, NEW c \in Clauses, NEW d \in Documents,
           Verdict[c][d] # "none"
    PROVE  Judged(c, d) \in Status /\ Grounded(c, d, Judged(c, d))
<1> DEFINE rows == feedback[c][Evidence[c][d]]
<1>1. rows \in Seq(Decisions)
  <2>1. Evidence[c][d] \in Fingerprints
    BY DEF Fingerprints
  <2>2. feedback \in [Clauses -> [Fingerprints -> Seq(Decisions)]]
    BY DEF TypesInv
  <2> QED BY <2>1, <2>2
<1>2. Verdict[c][d] \in Status
  BY MatchingAssumption
<1>3. CASE rows = <<>> \/ rows[Len(rows)] = "confirm"
  BY <1>2, <1>3 DEF Judged, Grounded
<1>4. CASE rows # <<>> /\ rows[Len(rows)] # "confirm"
  <2>1. Judged(c, d) = rows[Len(rows)]
    BY <1>4 DEF Judged
  <2> HIDE DEF rows
  <2>2. Len(rows) \in 1..Len(rows) /\ rows[Len(rows)] \in Decisions
    BY <1>1, <1>4
  <2> QED BY <1>4, <2>1, <2>2, DecisionAssumption DEF Grounded, rows
<1> QED BY <1>3, <1>4

LEMMA AssessEffect ==
    ASSUME TypesInv, NEW t \in Threads, NEW c \in Clauses, NEW d \in Documents,
           Assess(t, c, d), Verdict[c][d] # "none"
    PROVE  /\ TypesInv'
           /\ Goes(t, "match", work[t].key, work[t].document)
           /\ pc[t] = "match" /\ <<c, d>> \in work[t].left /\ work[t].pending = {}
           /\ \E a \in Assessment :
                /\ a.clause = c /\ a.document = d /\ Grounded(c, d, a.status)
                /\ Holds(t, work[t].regulations, work[t].matching,
                         work[t].left \ {<<c, d>>}, {a},
                         work[t].stored, work[t].found)
           /\ UNCHANGED <<assessments, feedback, reviews, findings, matched, disturbed, due>>
<1> DEFINE a == [clause |-> c, document |-> d, status |-> Judged(c, d)]
           w == [work[t] EXCEPT !.left = @ \ {<<c, d>>}, !.pending = {a}]
<1>1. /\ work' = [work EXCEPT ![t] = w] /\ pc' = pc /\ pc[t] = "match"
      /\ <<c, d>> \in work[t].left /\ work[t].pending = {}
      /\ UNCHANGED <<assessments, feedback, reviews, findings, dependencies,
                     exposures, matched, disturbed, due>>
  BY DEF Assess, matchTables, reviewTables, history
<1>2. work[t] \in Work
  BY DEF TypesInv
<1>3. a \in Assessment /\ a.clause = c /\ a.document = d /\ Grounded(c, d, a.status)
  BY JudgedIsStatus DEF Assessment
<1> HIDE DEF a
<1>4. /\ w \in Work /\ w.key = work[t].key /\ w.document = work[t].document
      /\ w.regulations = work[t].regulations
      /\ w.matching = work[t].matching /\ w.left = work[t].left \ {<<c, d>>}
      /\ w.pending = {a} /\ w.stored = work[t].stored
      /\ w.found = work[t].found
  <2>1. /\ work[t].left \ {<<c, d>>} \in SUBSET (Clauses \X Documents)
        /\ {a} \in SUBSET Assessment
    BY <1>2, <1>3 DEF Work
  <2> QED BY <1>2, <2>1 DEF Work
<1> HIDE DEF w
<1>5. /\ work' \in [Threads -> Work] /\ work'[t] = w
      /\ \A u \in Threads : u # t => work'[u] = work[u]
  BY <1>1, <1>4, MemoryChanges
<1>6. pc' \in [Threads -> Places]
  BY <1>1 DEF TypesInv, ComplianceTypeOK, Places
<1>7. TypesInv'
  BY <1>1, <1>5, <1>6, TypesKept DEF TypesInv, ComplianceTypeOK
<1> QED BY <1>1, <1>3, <1>4, <1>5, <1>7 DEF Goes, Only, Holds

LEMMA StoreEffect ==
    ASSUME TypesInv, NEW t \in Threads, Store(t)
    PROVE  /\ TypesInv'
           /\ Goes(t, "match", work[t].key, work[t].document) /\ pc[t] = "match"
           /\ \E a \in work[t].pending :
                /\ Holds(t, work[t].regulations, work[t].matching, work[t].left, {},
                         work[t].stored \cup {a}, work[t].found)
                /\ a.clause \in Clauses /\ a.document \in Documents
                /\ a.status \in Status
                /\ \A c \in Clauses, d \in Documents : assessments'[c][d] =
                     IF c = a.clause /\ d = a.document THEN a.status
                     ELSE assessments[c][d]
           /\ UNCHANGED <<feedback, reviews, findings, matched, disturbed, due>>
<1>1. PICK a \in work[t].pending :
        /\ assessments' = [assessments EXCEPT ![a.clause][a.document] = a.status]
        /\ work' = [work EXCEPT ![t].pending = {}, ![t].stored = @ \cup {a}]
  BY DEF Store
<1> DEFINE w == [work[t] EXCEPT !.pending = {}, !.stored = @ \cup {a}]
<1>2. /\ work' = [work EXCEPT ![t] = w] /\ pc' = pc /\ pc[t] = "match"
      /\ UNCHANGED <<feedback, reviews, findings, dependencies,
                     exposures, matched, disturbed, due>>
  BY <1>1 DEF Store, reviewTables, history
<1>3. work[t] \in Work /\ a \in Assessment
  BY DEF TypesInv, Work
<1>4. a.clause \in Clauses /\ a.document \in Documents /\ a.status \in Status
  BY <1>3 DEF Assessment
<1>5. /\ w \in Work /\ w.key = work[t].key /\ w.document = work[t].document
      /\ w.regulations = work[t].regulations
      /\ w.matching = work[t].matching /\ w.left = work[t].left
      /\ w.pending = {} /\ w.stored = work[t].stored \cup {a}
      /\ w.found = work[t].found
  <2>1. work[t].stored \cup {a} \in SUBSET Assessment
    BY <1>3 DEF Work
  <2> QED BY <1>3, <2>1 DEF Work
<1> HIDE DEF w
<1>6. /\ work' \in [Threads -> Work] /\ work'[t] = w
      /\ \A u \in Threads : u # t => work'[u] = work[u]
  BY <1>2, <1>5, MemoryChanges
<1>7. pc' \in [Threads -> Places]
  BY <1>2 DEF TypesInv, ComplianceTypeOK, Places
<1>8. /\ assessments' \in [Clauses -> [Documents -> Status \cup {"none"}]]
      /\ \A c \in Clauses, d \in Documents : assessments'[c][d] =
                     IF c = a.clause /\ d = a.document THEN a.status
                     ELSE assessments[c][d]
  BY <1>1, <1>4 DEF TypesInv, ComplianceTypeOK
<1>9. TypesInv'
  BY <1>2, <1>6, <1>7, <1>8, TypesKept DEF TypesInv, ComplianceTypeOK
<1> QED BY <1>2, <1>4, <1>5, <1>6, <1>8, <1>9 DEF Goes, Only, Holds

LEMMA MatchedEffect ==
    ASSUME TypesInv, NEW t \in Threads, Matched(t)
    PROVE  /\ TypesInv'
           /\ pc[t] = "match" /\ work[t].left = {} /\ work[t].pending = {}
           /\ t \in Requests =>
                /\ Goes(t, "record", work[t].key, work[t].document)
                /\ Holds(t, work[t].regulations, {}, {}, {}, work[t].stored, work[t].found)
           /\ t \notin Requests =>
                /\ Goes(t, "idle", "none", "none")
                /\ Holds(t, {}, {}, {}, {}, {}, {})
           /\ matched' = IF t \in Requests \cup disturbed THEN matched
                         ELSE matched \cup work[t].matching
           /\ UNCHANGED <<assessments, feedback, reviews, findings, disturbed, due>>
<1> DEFINE w == [work[t] EXCEPT !.matching = {}]
<1>1. /\ pc[t] = "match" /\ work[t].left = {} /\ work[t].pending = {}
      /\ matched' = IF t \in Requests \cup disturbed THEN matched
                    ELSE matched \cup work[t].matching
      /\ UNCHANGED <<assessments, feedback, reviews, findings, dependencies,
                     exposures, disturbed, due>>
  BY DEF Matched, matchTables, reviewTables
<1>2. work[t] \in Work
  BY DEF TypesInv
<1>3. matched' \subseteq Clauses
  BY <1>1, <1>2 DEF TypesInv, Work
<1>4. CASE t \in Requests
  <2>1. work' = [work EXCEPT ![t] = w] /\ Goto(t, "record")
    BY <1>4 DEF Matched
  <2>2. /\ w \in Work /\ w.key = work[t].key /\ w.document = work[t].document
        /\ w.regulations = work[t].regulations
        /\ w.matching = {} /\ w.left = {}
        /\ w.pending = {} /\ w.stored = work[t].stored
        /\ w.found = work[t].found
    BY <1>1, <1>2 DEF Work
  <2> HIDE DEF w
  <2>3. /\ work' \in [Threads -> Work] /\ work'[t] = w
        /\ \A u \in Threads : u # t => work'[u] = work[u]
    BY <2>1, <2>2, MemoryChanges
  <2>4. /\ pc' \in [Threads -> Places] /\ pc'[t] = "record"
        /\ \A u \in Threads : u # t => pc'[u] = pc[u]
    BY <2>1, PlacesTyped, ThreadMoves DEF Places
  <2>5. TypesInv'
    BY <1>1, <1>3, <2>3, <2>4, TypesKept DEF TypesInv, ComplianceTypeOK
  <2> QED BY <1>1, <1>4, <2>2, <2>3, <2>4, <2>5 DEF Goes, Only, Holds
<1>5. CASE t \notin Requests
  <2>1. Return(t)
    BY <1>5 DEF Matched
  <2>2. pc' \in [Threads -> Places]
    BY <2>1, PlacesTyped DEF Return, Places
  <2>3. TypesInv'
    BY <1>1, <1>3, <2>1, <2>2, Returned, TypesKept DEF TypesInv, ComplianceTypeOK
  <2> QED BY <1>1, <1>5, <2>1, <2>3, Returned
<1> QED BY <1>4, <1>5

LEMMA FailEffect ==
    ASSUME TypesInv, NEW t \in Threads, Fail(t)
    PROVE  /\ TypesInv' /\ Goes(t, "idle", "none", "none")
           /\ Holds(t, {}, {}, {}, {}, {}, {})
           /\ matched' = matched \ work[t].matching
           /\ disturbed' = disturbed \cup
                {u \in Threads : work[u].matching \cap work[t].matching # {}}
           /\ UNCHANGED <<assessments, feedback, reviews, findings, due>>
<1>1. /\ Return(t) /\ matched' = matched \ work[t].matching
      /\ disturbed' = disturbed \cup
                {u \in Threads : work[u].matching \cap work[t].matching # {}}
      /\ UNCHANGED <<assessments, feedback, reviews, findings, dependencies,
                     exposures, due>>
  BY DEF Fail, matchTables, reviewTables
<1>2. pc' \in [Threads -> Places]
  BY <1>1, PlacesTyped DEF Return, Places
<1>3. matched' \subseteq Clauses /\ disturbed' \subseteq Threads
  BY <1>1 DEF TypesInv
<1>4. TypesInv'
  BY <1>1, <1>2, <1>3, Returned, TypesKept DEF TypesInv, ComplianceTypeOK
<1> QED BY <1>1, <1>4, Returned

(* What reviewers said before stays said.                                  *)
FeedbackGrows ==
    \A c \in Clauses, d \in Documents :
        LET f == Evidence[c][d] IN
        /\ Len(feedback[c][f]) <= Len(feedback'[c][f])
        /\ \A i \in 1..Len(feedback[c][f]) : feedback'[c][f][i] = feedback[c][f][i]

LEMMA FeedbackEffect ==
    ASSUME TypesInv, NEW c \in Clauses, NEW d \in Documents, NEW s \in Decisions,
           GiveFeedback(c, d, s)
    PROVE  /\ TypesInv' /\ FeedbackGrows
           /\ UNCHANGED <<assessments, reviews, findings, pc, work, matched, disturbed, due>>
<1>1. /\ feedback' = [feedback EXCEPT ![c][Evidence[c][d]] = Append(@, s)]
      /\ UNCHANGED <<assessments, reviews, findings, dependencies, exposures,
                     pc, work, matched, disturbed, due>>
  BY DEF GiveFeedback, reviewTables, history
<1>2. \A x \in Clauses, e \in Documents : Evidence[x][e] \in Fingerprints
  BY DEF Fingerprints
<1>3. feedback \in [Clauses -> [Fingerprints -> Seq(Decisions)]]
  BY DEF TypesInv
<1>4. Append(feedback[c][Evidence[c][d]], s) \in Seq(Decisions)
  BY <1>2, <1>3
<1>5. feedback' \in [Clauses -> [Fingerprints -> Seq(Decisions)]]
  BY <1>1, <1>2, <1>3, <1>4
<1>6. FeedbackGrows
  <2> SUFFICES ASSUME NEW x \in Clauses, NEW e \in Documents
               PROVE  /\ Len(feedback[x][Evidence[x][e]]) <= Len(feedback'[x][Evidence[x][e]])
                      /\ \A i \in 1..Len(feedback[x][Evidence[x][e]]) :
                           feedback'[x][Evidence[x][e]][i] = feedback[x][Evidence[x][e]][i]
    BY DEF FeedbackGrows
  <2>1. feedback[x][Evidence[x][e]] \in Seq(Decisions)
    BY <1>2, <1>3
  <2>2. CASE x = c /\ Evidence[x][e] = Evidence[c][d]
    <3>1. feedback'[x][Evidence[x][e]] = Append(feedback[x][Evidence[x][e]], s)
      BY <1>1, <1>2, <1>3, <2>2
    <3> QED BY <2>1, <3>1
  <2>3. CASE ~(x = c /\ Evidence[x][e] = Evidence[c][d])
    <3>1. feedback'[x][Evidence[x][e]] = feedback[x][Evidence[x][e]]
      BY <1>1, <1>2, <1>3, <2>3
    <3> QED BY <2>1, <3>1
  <2> QED BY <2>2, <2>3
<1>7. TypesInv'
  BY <1>1, <1>5, TypesKept DEF TypesInv, ComplianceTypeOK, Places
<1> QED BY <1>1, <1>6, <1>7

-----------------------------------------------------------------------------
(* What reviewers said.                                                    *)

LEMMA FeedbackStays ==
    ASSUME TypesInv, UNCHANGED feedback
    PROVE  FeedbackGrows
<1> SUFFICES ASSUME NEW c \in Clauses, NEW d \in Documents
             PROVE  Len(feedback[c][Evidence[c][d]]) <= Len(feedback[c][Evidence[c][d]])
  BY DEF FeedbackGrows
<1>1. Evidence[c][d] \in Fingerprints
  BY DEF Fingerprints
<1>2. feedback \in [Clauses -> [Fingerprints -> Seq(Decisions)]]
  BY DEF TypesInv
<1>3. feedback[c][Evidence[c][d]] \in Seq(Decisions)
  BY <1>1, <1>2
<1> QED BY <1>3

(* A status that was grounded stays grounded.                              *)
LEMMA GroundedKept ==
    ASSUME TypesInv, TypesInv', FeedbackGrows,
           NEW c \in Clauses, NEW d \in Documents, NEW s, Grounded(c, d, s)
    PROVE  Grounded(c, d, s)'
<1> DEFINE f == Evidence[c][d]
<1>1. f \in Fingerprints
  BY DEF Fingerprints
<1>2. feedback \in [Clauses -> [Fingerprints -> Seq(Decisions)]]
      /\ feedback' \in [Clauses -> [Fingerprints -> Seq(Decisions)]]
  BY DEF TypesInv
<1>3. Len(feedback[c][f]) \in Nat /\ Len(feedback'[c][f]) \in Nat
  BY <1>1, <1>2
<1>4. /\ Len(feedback[c][f]) <= Len(feedback'[c][f])
      /\ \A i \in 1..Len(feedback[c][f]) : feedback'[c][f][i] = feedback[c][f][i]
  BY DEF FeedbackGrows
<1> QED BY <1>3, <1>4 DEF Grounded

-----------------------------------------------------------------------------
(* What a step of a thread leaves alone.                                   *)

SameReview(k) ==
    reviews'[k] = reviews[k] /\ findings'[k] = findings[k] /\ due'[k] = due[k]

(* Of the reviews, it changes at most one that has no row or is its own.   *)
OwnReview(t) ==
    \A k \in Keys :
        \/ SameReview(k)
        \/ reviews[k].status = "absent"
        \/ t \in Requests /\ pc[t] \in Reviewing /\ work[t].key = k

(* The other threads' matchings, and the reviews they own.                 *)
LEMMA OthersKept ==
    ASSUME TypesInv, TypesInv', ComplianceInv, NEW t \in Threads, Only(t),
           FeedbackGrows, OwnReview(t)
    PROVE  /\ \A u \in Threads : u # t => MatchingInv(u)'
           /\ \A q \in Requests : q # t => OwnerInv(q)' /\ CoverageInv(q)'
<1>1. ASSUME NEW u \in Threads, u # t PROVE MatchingInv(u)'
  <2>1. MatchingInv(u) /\ pc'[u] = pc[u] /\ work'[u] = work[u]
    BY <1>1 DEF ComplianceInv, Only
  <2>2. \A a \in work[u].pending \cup work[u].stored :
          a.clause \in Clauses /\ a.document \in Documents
    BY DEF TypesInv, ComplianceTypeOK, Assessment
  <2>3. \A a \in work[u].pending \cup work[u].stored :
          Grounded(a.clause, a.document, a.status)'
    BY <2>1, <2>2, GroundedKept DEF MatchingInv
  <2> QED BY <2>1, <2>3 DEF MatchingInv
<1>2. ASSUME NEW q \in Requests, q # t PROVE OwnerInv(q)' /\ CoverageInv(q)'
  <2>1. /\ OwnerInv(q) /\ CoverageInv(q) /\ pc'[q] = pc[q] /\ work'[q] = work[q]
        /\ q \in Threads
    BY <1>2 DEF ComplianceInv, Only, Threads
  <2>2. ASSUME pc[q] \in Reviewing
        PROVE  /\ reviews'[work[q].key] = reviews[work[q].key]
               /\ findings'[work[q].key] = findings[work[q].key]
               /\ due'[work[q].key] = due[work[q].key]
    <3>1. work[q].key \in Keys /\ reviews[work[q].key].status = "running"
      BY <2>1, <2>2 DEF OwnerInv, Reviewing
    <3>2. ~ (t \in Requests /\ pc[t] \in Reviewing /\ work[t].key = work[q].key)
      BY <1>2, <2>2 DEF ComplianceInv, SoleOwner
    <3> QED BY <3>1, <3>2 DEF OwnReview, SameReview
  <2>3. OwnerInv(q)'
    BY <2>1, <2>2 DEF OwnerInv
  <2>4. CoverageInv(q)'
    BY <2>1, <2>2 DEF CoverageInv, Coming, Reviewing
  <2> QED BY <2>3, <2>4
<1> QED BY <1>1, <1>2

(* A review no thread has changed.                                         *)
LEMMA ReviewKept ==
    ASSUME TypesInv, TypesInv', FeedbackGrows, NEW k \in Keys, ReviewInv(k),
           SameReview(k)
    PROVE  ReviewInv(k)'
<1>1. \A f \in findings[k] : f.about \in Clauses =>
        Grounded(f.about, reviews[k].document, f.status)'
  <2> SUFFICES ASSUME NEW f \in findings[k], f.about \in Clauses
               PROVE  Grounded(f.about, reviews[k].document, f.status)'
    OBVIOUS
  <2>1. reviews[k].document \in Documents
    BY DEF ReviewInv
  <2>2. Grounded(f.about, reviews[k].document, f.status)
    BY DEF ReviewInv
  <2> DEFINE d == reviews[k].document
             s == f.status
             c == f.about
  <2>3. d \in Documents /\ c \in Clauses /\ Grounded(c, d, s)
        /\ reviews'[k].document = d
    BY <2>1, <2>2 DEF SameReview
  <2>4. PICK e \in Documents : e = d
    BY <2>3
  <2>5. Grounded(c, e, s)
    BY <2>3, <2>4
  <2> QED BY <2>3, <2>4, <2>5, GroundedKept
<1> QED BY <1>1 DEF ReviewInv, Finished, Covered, SameReview

(* A key has one owner, if the one that steps has it already or finds no   *)
(* row of it.                                                              *)
LEMMA StillSoleOwner ==
    ASSUME ComplianceInv, NEW t \in Threads, Only(t),
           pc'[t] \in Reviewing /\ t \in Requests =>
                /\ work'[t].key = work[t].key
                /\ pc[t] \in Reviewing \/ reviews[work[t].key].status = "absent"
    PROVE  SoleOwner'
<1> SUFFICES ASSUME NEW p \in Requests, NEW q \in Requests,
                    pc'[p] \in Reviewing, pc'[q] \in Reviewing,
                    work'[p].key = work'[q].key
             PROVE  p = q
  BY DEF SoleOwner
<1>1. /\ p \in Threads /\ q \in Threads
      /\ p # t => pc'[p] = pc[p] /\ work'[p] = work[p]
      /\ q # t => pc'[q] = pc[q] /\ work'[q] = work[q]
  BY DEF Threads, Only
<1>2. \A u \in Requests : pc[u] \in Reviewing => reviews[work[u].key].status = "running"
  BY DEF ComplianceInv, OwnerInv
<1>3. \A u, v \in Requests : pc[u] \in Reviewing /\ pc[v] \in Reviewing
        /\ work[u].key = work[v].key => u = v
  BY DEF ComplianceInv, SoleOwner
<1> QED BY <1>1, <1>2, <1>3

(* Assessments in the table, if it does not change.                        *)
LEMMA TableKept ==
    ASSUME TypesInv, TypesInv', ComplianceInv, FeedbackGrows, UNCHANGED assessments
    PROVE  \A c \in Clauses, d \in Documents :
             assessments'[c][d] # "none" => Grounded(c, d, assessments[c][d])'
BY GroundedKept DEF ComplianceInv

(* Evidence, if nothing about a matching changes.                          *)
LEMMA EvidenceStays ==
    ASSUME ComplianceInv, UNCHANGED <<assessments, matched, disturbed>>,
           \A t \in Threads : /\ work'[t].matching = work[t].matching
                              /\ work'[t].left = work[t].left
                              /\ work'[t].pending = work[t].pending
    PROVE  EvidenceInv'
<1>1. \A c : Kept(c) => Kept(c)'
  BY DEF Kept
<1>2. Matchers \subseteq Threads
  BY DEF Threads
<1> QED BY <1>1, <1>2 DEF ComplianceInv, EvidenceInv

(* What is left to show of a step of a thread: what it does to itself, to  *)
(* the reviews it changes, and to the assessments.                         *)
LEMMA StepKeeps ==
    ASSUME TypesInv, TypesInv', ComplianceInv, NEW t \in Threads, Only(t),
           FeedbackGrows, OwnReview(t),
           pc'[t] \in Reviewing /\ t \in Requests =>
                /\ work'[t].key = work[t].key
                /\ pc[t] \in Reviewing \/ reviews[work[t].key].status = "absent",
           MatchingInv(t)',
           t \in Requests => OwnerInv(t)' /\ CoverageInv(t)',
           \A k \in Keys : \/ SameReview(k)
                           \/ ReviewInv(k)',
           \A c \in Clauses, d \in Documents :
             assessments'[c][d] # "none" => Grounded(c, d, assessments[c][d])',
           EvidenceInv'
    PROVE  ComplianceInv'
<1>1. \A u \in Threads : MatchingInv(u)'
  BY OthersKept
<1>2. \A q \in Requests : OwnerInv(q)' /\ CoverageInv(q)'
  BY OthersKept
<1>3. SoleOwner'
  BY StillSoleOwner
<1>4. \A k \in Keys : ReviewInv(k)'
  BY ReviewKept DEF ComplianceInv
<1> QED BY <1>1, <1>2, <1>3, <1>4 DEF ComplianceInv

-----------------------------------------------------------------------------
(* Reviews.                                                                *)

(* A thread that is not in a matching holds nothing of one.                *)
LEMMA NothingInHand ==
    ASSUME ComplianceInv, NEW t \in Threads, pc[t] # "match"
    PROVE  work[t].matching = {} /\ work[t].left = {} /\ work[t].pending = {}
BY DEF ComplianceInv, MatchingInv

LEMMA FeedbackKeeps ==
    ASSUME TypesInv, ComplianceInv,
           NEW c \in Clauses, NEW d \in Documents, NEW s \in Decisions,
           GiveFeedback(c, d, s)
    PROVE  ComplianceInv'
<1>1. /\ TypesInv' /\ FeedbackGrows
      /\ UNCHANGED <<assessments, reviews, findings, pc, work, matched, disturbed, due>>
  BY FeedbackEffect
<1>2. \A t \in Threads : MatchingInv(t)'
  <2> SUFFICES ASSUME NEW t \in Threads PROVE MatchingInv(t)'
    OBVIOUS
  <2>1. MatchingInv(t)
    BY DEF ComplianceInv
  <2>2. \A a \in work[t].pending \cup work[t].stored :
          a.clause \in Clauses /\ a.document \in Documents
    BY DEF TypesInv, ComplianceTypeOK, Assessment
  <2>3. \A a \in work[t].pending \cup work[t].stored :
          Grounded(a.clause, a.document, a.status)'
    BY <1>1, <2>1, <2>2, GroundedKept DEF MatchingInv
  <2> QED BY <1>1, <2>1, <2>3 DEF MatchingInv
<1>3. \A q \in Requests : OwnerInv(q)' /\ CoverageInv(q)'
  BY <1>1 DEF ComplianceInv, OwnerInv, CoverageInv, Coming
<1>4. SoleOwner'
  BY <1>1 DEF ComplianceInv, SoleOwner
<1>5. \A k \in Keys : ReviewInv(k)'
  BY <1>1, ReviewKept DEF ComplianceInv, SameReview
<1>6. EvidenceInv'
  BY <1>1, EvidenceStays
<1> QED BY <1>1, <1>2, <1>3, <1>4, <1>5, <1>6, TableKept DEF ComplianceInv

LEMMA PostKeeps ==
    ASSUME TypesInv, ComplianceInv, NEW q \in Requests, NEW k \in Keys,
           NEW d \in Documents, Post(q, k, d)
    PROVE  ComplianceInv'
<1>1. TypesInv' /\ Goes(q, "insert", k, d) /\ Holds(q, {}, {}, {}, {}, {}, {})
  BY PostEffect
<1>2. /\ q \in Threads /\ pc[q] = "idle" /\ FeedbackGrows
      /\ UNCHANGED <<assessments, feedback, reviews, findings, matched, disturbed, due>>
  BY FeedbackStays DEF Post, Threads, matchTables, reviewTables, history
<1>3. Only(q) /\ OwnReview(q)
  BY <1>1, <1>2 DEF Goes, OwnReview, SameReview
<1>4. MatchingInv(q)'
  BY <1>1, ThreadAssumption DEF Goes, Holds, MatchingInv
<1>5. OwnerInv(q)' /\ CoverageInv(q)'
  BY <1>1 DEF Goes, Holds, OwnerInv, CoverageInv, Reviewing
<1>6. EvidenceInv'
  BY <1>1, <1>2, NothingInHand, EvidenceStays DEF Goes, Only, Holds
<1>7. pc'[q] \notin Reviewing
  BY <1>1 DEF Goes, Reviewing
<1> QED BY <1>1, <1>2, <1>3, <1>4, <1>5, <1>6, <1>7, TableKept, StepKeeps DEF SameReview

LEMMA InsertKeeps ==
    ASSUME TypesInv, ComplianceInv, NEW q \in Requests, InsertReview(q)
    PROVE  ComplianceInv'
<1>1. /\ q \in Threads /\ pc[q] = "insert" /\ FeedbackGrows
      /\ UNCHANGED <<assessments, feedback, findings, matched, disturbed, due>>
  BY FeedbackStays DEF InsertReview, Threads, matchTables, history
<1>2. /\ OwnerInv(q) /\ MatchingInv(q) /\ q \notin Matchers
      /\ work[q].key \in Keys /\ work[q].document \in Documents
  BY <1>1, ThreadAssumption DEF ComplianceInv, OwnerInv
<1>3. TypesInv'
  BY <1>2, InsertEffect
<1>4. CASE /\ Goes(q, "idle", "none", "none") /\ Holds(q, {}, {}, {}, {}, {}, {})
           /\ UNCHANGED reviews
  <2>1. Only(q) /\ OwnReview(q)
    BY <1>1, <1>4 DEF Goes, OwnReview, SameReview
  <2>2. MatchingInv(q)'
    BY <1>2, <1>4 DEF Goes, Holds, MatchingInv
  <2>3. OwnerInv(q)' /\ CoverageInv(q)'
    BY <1>4 DEF Goes, Holds, OwnerInv, CoverageInv, Reviewing
  <2>4. EvidenceInv'
    BY <1>1, <1>4, NothingInHand, EvidenceStays DEF Goes, Only, Holds
  <2>5. pc'[q] \notin Reviewing
    BY <1>4 DEF Goes, Reviewing
  <2> QED BY <1>1, <1>3, <1>4, <2>1, <2>2, <2>3, <2>4, <2>5,
           TableKept, StepKeeps DEF SameReview
<1>5. CASE /\ Goes(q, "changes", work[q].key, work[q].document) /\ HoldsSame(q)
           /\ reviews[work[q].key].status = "absent"
           /\ reviews'[work[q].key].status = "running"
           /\ reviews'[work[q].key].document = work[q].document
           /\ \A k \in Keys : k # work[q].key => reviews'[k] = reviews[k]
  <2>1. Only(q) /\ OwnReview(q)
    BY <1>1, <1>5 DEF Goes, OwnReview, SameReview
  <2>2. MatchingInv(q)'
    <3>1. \A a \in work[q].pending \cup work[q].stored : FALSE
      BY <1>1, <1>2 DEF MatchingInv
    <3> QED BY <1>1, <1>2, <1>5, <3>1 DEF Goes, Holds, HoldsSame, MatchingInv
  <2>3. findings[work[q].key] = {} /\ work[q].found = {}
    BY <1>1, <1>2, <1>5 DEF ComplianceInv, ReviewInv, OwnerInv
  <2>4. OwnerInv(q)'
    BY <1>1, <1>2, <1>5, <2>3 DEF Goes, Holds, HoldsSame, OwnerInv, Reviewing
  <2>5. CoverageInv(q)'
    BY <1>5, <2>3 DEF Goes, Holds, HoldsSame, CoverageInv, Reviewing
  <2>6. EvidenceInv'
    BY <1>1, <1>5, EvidenceStays DEF Goes, Only, Holds, HoldsSame
  <2>7. PICK key \in Keys : key = work[q].key
    BY <1>2
  <2>8. ReviewInv(key)'
    BY <1>1, <1>2, <1>5, <2>3, <2>7 DEF ReviewInv, Finished
  <2>9. \A k \in Keys : \/ SameReview(k)
                        \/ ReviewInv(k)'
    BY <1>1, <1>5, <2>7, <2>8 DEF SameReview
  <2>10. work'[q].key = work[q].key
    BY <1>5 DEF Goes
  <2> QED BY <1>1, <1>3, <1>5, <2>1, <2>2, <2>4, <2>5, <2>6, <2>9, <2>10,
             TableKept, StepKeeps
<1> QED BY <1>2, <1>4, <1>5, InsertEffect

(* Where a request knows what it is reviewing.                             *)
LEMMA KnowsReview ==
    ASSUME ComplianceInv, NEW q \in Requests, pc[q] # "idle"
    PROVE  /\ q \in Threads /\ q \notin Matchers
           /\ OwnerInv(q) /\ MatchingInv(q) /\ CoverageInv(q)
           /\ work[q].key \in Keys /\ work[q].document \in Documents
BY ThreadAssumption DEF ComplianceInv, OwnerInv, Threads

(* A step of a review that finds nothing and goes on, outside a matching.  *)
LEMMA MovingOn ==
    ASSUME TypesInv, TypesInv', ComplianceInv, NEW q \in Requests,
           NEW l \in {"cite", "finish"}, pc[q] \in {"changes", "version"},
           l = "finish" => pc[q] = "version" /\ work[q].regulations = {},
           Goes(q, l, work[q].key, work[q].document), HoldsSame(q),
           UNCHANGED <<assessments, feedback, reviews, findings, matched, disturbed, due>>
    PROVE  ComplianceInv'
<1>1. /\ q \in Threads /\ q \notin Matchers
      /\ OwnerInv(q) /\ MatchingInv(q) /\ CoverageInv(q)
  BY KnowsReview
<1>2. Only(q) /\ OwnReview(q) /\ FeedbackGrows
  BY FeedbackStays DEF Goes, OwnReview, SameReview
<1>3. \A a \in work[q].pending \cup work[q].stored : FALSE
  BY <1>1 DEF MatchingInv
<1>4. MatchingInv(q)'
  BY <1>1, <1>3 DEF Goes, Holds, HoldsSame, MatchingInv
<1>5. OwnerInv(q)'
  BY <1>1 DEF Goes, Holds, HoldsSame, OwnerInv, Reviewing
<1>6. CoverageInv(q)'
  BY <1>1 DEF Goes, Holds, HoldsSame, CoverageInv, Coming
<1>7. EvidenceInv'
  BY EvidenceStays DEF Goes, Only, Holds, HoldsSame
<1>8. work'[q].key = work[q].key /\ pc[q] \in Reviewing
  BY DEF Goes, Reviewing
<1> QED BY <1>1, <1>2, <1>4, <1>5, <1>6, <1>7, <1>8, TableKept, StepKeeps DEF SameReview

LEMMA ReadChangesKeeps ==
    ASSUME TypesInv, ComplianceInv, NEW q \in Requests,
           NEW active \in SUBSET Changes, ReadChanges(q, active)
    PROVE  ComplianceInv'
<1>1. pc[q] = "changes"
      /\ UNCHANGED <<assessments, feedback, reviews, findings, matched, disturbed, due>>
  BY DEF ReadChanges, matchTables, reviewTables, history
<1> QED BY <1>1, ReadChangesEffect, MovingOn

LEMMA ReadScanKeeps ==
    ASSUME TypesInv, ComplianceInv, NEW q \in Requests,
           NEW applicable \in SUBSET Regulations, ReadScan(q, applicable)
    PROVE  ComplianceInv'
<1>1. /\ pc[q] = "cite" /\ FeedbackGrows
      /\ UNCHANGED <<assessments, feedback, reviews, findings, matched, disturbed>>
  BY FeedbackStays DEF ReadScan, matchTables, reviewTables
<1>2. /\ q \in Threads /\ q \notin Matchers
      /\ OwnerInv(q) /\ MatchingInv(q)
      /\ work[q].key \in Keys /\ work[q].document \in Documents
  BY <1>1, KnowsReview
<1>3. /\ TypesInv' /\ Goes(q, "version", work[q].key, work[q].document)
      /\ Holds(q, applicable, work[q].matching, work[q].left, work[q].pending,
               work[q].stored, work[q].found)
      /\ due'[work[q].key] = applicable
      /\ \A k \in Keys : k # work[q].key => due'[k] = due[k]
  BY <1>2, ReadScanEffect
<1>4. Only(q) /\ OwnReview(q)
  BY <1>1, <1>3 DEF Goes, OwnReview, SameReview, Reviewing
<1>5. \A a \in work[q].pending \cup work[q].stored : FALSE
  BY <1>1, <1>2 DEF MatchingInv
<1>6. MatchingInv(q)'
  BY <1>1, <1>2, <1>3, <1>5 DEF Goes, Holds, MatchingInv
<1>7. OwnerInv(q)'
  BY <1>1, <1>2, <1>3 DEF Goes, Holds, OwnerInv, Reviewing
<1>8. CoverageInv(q)'
  BY <1>3 DEF Goes, Holds, CoverageInv
<1>9. EvidenceInv'
  <2>1. \A t \in Threads : /\ work'[t].matching = work[t].matching
                           /\ work'[t].left = work[t].left
                           /\ work'[t].pending = work[t].pending
    BY <1>3 DEF Goes, Only, Holds
  <2> QED BY <1>1, <2>1, EvidenceStays
<1>10. PICK key \in Keys : key = work[q].key
  BY <1>2
<1>11. ReviewInv(key)'
  <2>1. reviews[key].status = "running"
    BY <1>1, <1>2, <1>10 DEF OwnerInv, Reviewing
  <2> QED BY <1>1, <2>1 DEF ComplianceInv, ReviewInv, Finished, Grounded
<1>12. \A k \in Keys : \/ SameReview(k)
                       \/ ReviewInv(k)'
  BY <1>1, <1>3, <1>10, <1>11 DEF SameReview
<1>13. work'[q].key = work[q].key /\ pc[q] \in Reviewing
  BY <1>1, <1>3 DEF Goes, Reviewing
<1> QED BY <1>1, <1>2, <1>3, <1>4, <1>6, <1>7, <1>8, <1>9, <1>12, <1>13,
           TableKept, StepKeeps

(* The finding on a change is no requirement's.                            *)
LEMMA CiteKeeps ==
    ASSUME TypesInv, ComplianceInv, NEW q \in Requests, NEW ch \in Changes,
           CiteChange(q, ch)
    PROVE  ComplianceInv'
<1>1. /\ pc[q] = "cite" /\ FeedbackGrows
      /\ UNCHANGED <<assessments, feedback, reviews, matched, disturbed, due>>
  BY FeedbackStays DEF CiteChange, matchTables, history
<1>2. /\ q \in Threads /\ q \notin Matchers
      /\ OwnerInv(q) /\ MatchingInv(q) /\ CoverageInv(q)
      /\ work[q].key \in Keys /\ work[q].document \in Documents
  BY <1>1, KnowsReview
<1>3. /\ TypesInv' /\ Goes(q, "cite", work[q].key, work[q].document)
      /\ \A k \in Keys : k # work[q].key => findings'[k] = findings[k]
  BY <1>2, CiteEffect
<1>4. PICK f \in Finding :
        /\ f.about = ch
        /\ Holds(q, work[q].regulations, work[q].matching,
                 work[q].left, work[q].pending, work[q].stored, work[q].found \cup {f})
        /\ findings'[work[q].key] = findings[work[q].key] \cup {f}
  BY <1>2, CiteEffect
<1>5. f.about \notin Clauses
  BY <1>4, ChangeAssumption
<1>6. /\ work'[q].key = work[q].key /\ work'[q].document = work[q].document
      /\ pc'[q] = "cite" /\ work'[q].found = work[q].found \cup {f}
      /\ work'[q].matching = work[q].matching /\ work'[q].left = work[q].left
      /\ work'[q].pending = work[q].pending /\ work'[q].stored = work[q].stored
  BY <1>3, <1>4 DEF Goes, Holds
<1>7. Only(q) /\ OwnReview(q)
  BY <1>1, <1>3 DEF Goes, OwnReview, SameReview, Reviewing
<1>8. \A a \in work[q].pending \cup work[q].stored : FALSE
  BY <1>1, <1>2 DEF MatchingInv
<1>9. MatchingInv(q)'
  BY <1>1, <1>2, <1>6, <1>8 DEF MatchingInv
<1>10. OwnerInv(q)'
  BY <1>1, <1>2, <1>4, <1>6 DEF OwnerInv, Reviewing
<1>11. CoverageInv(q)'
  BY <1>6 DEF CoverageInv
<1>12. EvidenceInv'
  BY <1>1, <1>3, <1>6, EvidenceStays DEF Goes, Only
<1>13. PICK key \in Keys : key = work[q].key
  BY <1>2
<1>14. ReviewInv(key)'
  <2>1. /\ reviews[key].status = "running" /\ reviews'[key] = reviews[key]
        /\ reviews[key].document \in Documents
        /\ findings'[key] = findings[key] \cup {f}
    BY <1>1, <1>2, <1>4, <1>13 DEF OwnerInv, Reviewing
  <2>2. \A g \in findings[key] : g.about \in Clauses =>
          Grounded(g.about, reviews[key].document, g.status)
    BY DEF ComplianceInv, ReviewInv
  <2>3. \A g \in findings'[key] : g.about \in Clauses =>
          Grounded(g.about, reviews[key].document, g.status)'
    BY <1>1, <1>5, <2>1, <2>2 DEF Grounded
  <2> QED BY <2>1, <2>3 DEF ReviewInv, Finished
<1>15. \A k \in Keys : \/ SameReview(k)
                       \/ ReviewInv(k)'
  BY <1>1, <1>3, <1>13, <1>14 DEF SameReview
<1> QED BY <1>1, <1>2, <1>3, <1>6, <1>7, <1>9, <1>10, <1>11, <1>12, <1>15,
           TableKept, StepKeeps DEF Reviewing

(* The finding is the assessment's, and a requirement of the version.      *)
LEMMA RecordKeeps ==
    ASSUME TypesInv, ComplianceInv, NEW q \in Requests,
           NEW a \in work[q].stored, RecordFinding(q, a)
    PROVE  ComplianceInv'
<1>1. /\ pc[q] = "record" /\ FeedbackGrows
      /\ UNCHANGED <<assessments, feedback, reviews, matched, disturbed, due>>
  BY FeedbackStays DEF RecordFinding, matchTables, history
<1>2. /\ q \in Threads /\ q \notin Matchers
      /\ OwnerInv(q) /\ MatchingInv(q) /\ CoverageInv(q)
      /\ work[q].key \in Keys /\ work[q].document \in Documents
  BY <1>1, KnowsReview
<1>3. /\ TypesInv' /\ Goes(q, "record", work[q].key, work[q].document)
      /\ \A k \in Keys : k # work[q].key => findings'[k] = findings[k]
  BY <1>2, RecordEffect
<1>4. PICK key \in Keys : key = work[q].key
  BY <1>2
<1>5. /\ reviews[key].status = "running" /\ findings[key] = work[q].found
      /\ reviews[key].document = work[q].document
      /\ a.document = work[q].document /\ Grounded(a.clause, a.document, a.status)
  BY <1>1, <1>2, <1>4 DEF OwnerInv, MatchingInv, Reviewing
<1>6. PICK F \in SUBSET Finding :
        /\ \A f \in F : f.about = a.clause /\ f.status = a.status
        /\ \E f \in work[q].found \cup F : f.about = a.clause
        /\ Holds(q, work[q].regulations, work[q].matching,
                 work[q].left, work[q].pending, work[q].stored \ {a}, work[q].found \cup F)
        /\ findings'[key] = findings[key] \cup F
  <2>1. CASE /\ \E g \in findings[work[q].key] : g.about = a.clause
             /\ Holds(q, work[q].regulations, work[q].matching,
                      work[q].left, work[q].pending, work[q].stored \ {a}, work[q].found)
             /\ findings'[work[q].key] = findings[work[q].key]
    <3>1. work[q].found \cup {} = work[q].found /\ findings[key] \cup {} = findings[key]
      OBVIOUS
    <3> QED BY <1>4, <1>5, <2>1, <3>1
  <2>2. CASE \E f \in Finding :
                /\ f.about = a.clause /\ f.status = a.status
                /\ Holds(q, work[q].regulations, work[q].matching,
                         work[q].left, work[q].pending, work[q].stored \ {a}, work[q].found \cup {f})
                /\ findings'[work[q].key] = findings[work[q].key] \cup {f}
    <3>1. PICK f \in Finding :
                /\ f.about = a.clause /\ f.status = a.status
                /\ Holds(q, work[q].regulations, work[q].matching,
                         work[q].left, work[q].pending, work[q].stored \ {a}, work[q].found \cup {f})
                /\ findings'[work[q].key] = findings[work[q].key] \cup {f}
      BY <2>2
    <3>2. {f} \in SUBSET Finding
      OBVIOUS
    <3> QED BY <1>4, <3>1, <3>2
  <2> QED BY <1>2, <2>1, <2>2, RecordEffect
<1>7. /\ work'[q].key = work[q].key /\ work'[q].document = work[q].document
      /\ pc'[q] = "record" /\ work'[q].found = work[q].found \cup F
      /\ work'[q].matching = work[q].matching /\ work'[q].left = work[q].left
      /\ work'[q].pending = work[q].pending /\ work'[q].stored = work[q].stored \ {a}
  BY <1>3, <1>6 DEF Goes, Holds
<1>8. Only(q) /\ OwnReview(q)
  BY <1>1, <1>3 DEF Goes, OwnReview, SameReview, Reviewing
<1>9. \A b \in work[q].pending \cup work[q].stored :
        b.clause \in Clauses /\ b.document \in Documents
  BY <1>2 DEF TypesInv, ComplianceTypeOK, Assessment
<1>10. MatchingInv(q)'
  <2>1. \A b \in work[q].pending \cup work[q].stored :
          Grounded(b.clause, b.document, b.status)'
    BY <1>1, <1>2, <1>3, <1>9, GroundedKept DEF MatchingInv
  <2> QED BY <1>1, <1>2, <1>7, <2>1 DEF MatchingInv
<1>11. OwnerInv(q)'
  BY <1>1, <1>2, <1>4, <1>5, <1>6, <1>7 DEF OwnerInv, Reviewing
<1>12. CoverageInv(q)'
  <2>1. ASSUME NEW r, Coming(work[q], r)
        PROVE  Coming(work'[q], r)
    <3> SUFFICES ASSUME NEW c \in ClausesOf(r), Verdict[c][work[q].document] # "none"
                 PROVE  \/ <<c, work[q].document>> \in work[q].left
                        \/ \E b \in work[q].pending \cup (work[q].stored \ {a}) :
                                b.clause = c
                        \/ \E g \in work[q].found \cup F : g.about = c
      BY <1>7 DEF Coming
    <3>1. \/ <<c, work[q].document>> \in work[q].left
          \/ \E b \in work[q].pending \cup work[q].stored : b.clause = c
          \/ \E g \in work[q].found : g.about = c
      BY <2>1 DEF Coming
    <3> QED BY <1>6, <3>1
  <2>2. work'[q].regulations = work[q].regulations /\ due'[key] = due[key]
    BY <1>1, <1>6 DEF Holds
  <2> QED BY <1>1, <1>2, <1>4, <1>7, <2>1, <2>2 DEF CoverageInv
<1>13. EvidenceInv'
  BY <1>1, <1>3, <1>7, EvidenceStays DEF Goes, Only
<1>14. ReviewInv(key)'
  <2>1. reviews'[key] = reviews[key]
    BY <1>1
  <2>2. reviews[key].document \in Documents
    BY <1>2, <1>5
  <2>3. \A g \in findings[key] : g.about \in Clauses =>
          Grounded(g.about, reviews[key].document, g.status)
    BY DEF ComplianceInv, ReviewInv
  <2>4. \A g \in findings'[key] : g.about \in Clauses =>
          Grounded(g.about, reviews[key].document, g.status)
    BY <1>5, <1>6, <2>3
  <2>5. \A g \in findings'[key] : g.about \in Clauses =>
          Grounded(g.about, reviews[key].document, g.status)'
    BY <1>1, <2>1, <2>4 DEF Grounded
  <2> QED BY <1>5, <2>1, <2>2, <2>5 DEF ReviewInv, Finished
<1>15. \A k \in Keys : \/ SameReview(k)
                       \/ ReviewInv(k)'
  BY <1>1, <1>3, <1>4, <1>14 DEF SameReview
<1>16. work'[q].key = work[q].key /\ pc[q] \in Reviewing
  BY <1>1, <1>7 DEF Reviewing
<1> QED BY <1>1, <1>2, <1>3, <1>8, <1>10, <1>11, <1>12, <1>13, <1>15, <1>16,
           TableKept, StepKeeps

(* When the last assessment is recorded, the version is covered.           *)
LEMMA NextVersionKeeps ==
    ASSUME TypesInv, ComplianceInv, NEW q \in Requests, NextVersion(q)
    PROVE  ComplianceInv'
<1>1. /\ UNCHANGED <<assessments, feedback, reviews, findings, matched, disturbed, due>>
      /\ TypesInv' /\ HoldsSame(q)
  BY NextVersionEffect DEF NextVersion, matchTables, reviewTables, history
<1>2. CASE /\ pc[q] = "version" /\ work[q].regulations = {}
           /\ Goes(q, "finish", work[q].key, work[q].document)
  BY <1>1, <1>2, MovingOn
<1>3. CASE /\ pc[q] = "record" /\ work[q].stored = {}
           /\ Goes(q, "version", work[q].key, work[q].document)
  <2>1. /\ q \in Threads /\ q \notin Matchers
        /\ OwnerInv(q) /\ MatchingInv(q) /\ CoverageInv(q)
    BY <1>3, KnowsReview
  <2>2. Only(q) /\ OwnReview(q) /\ FeedbackGrows
    BY <1>1, <1>3, FeedbackStays DEF Goes, OwnReview, SameReview
  <2>3. /\ work'[q].key = work[q].key /\ work'[q].document = work[q].document
        /\ pc'[q] = "version" /\ work'[q].found = work[q].found
        /\ work'[q].matching = {} /\ work'[q].left = {}
        /\ work'[q].pending = {} /\ work'[q].stored = {}
        /\ work[q].left = {} /\ work[q].pending = {} /\ work[q].matching = {}
    BY <1>1, <1>3, <2>1 DEF Goes, Holds, HoldsSame, MatchingInv
  <2>4. MatchingInv(q)'
    BY <2>1, <2>3 DEF MatchingInv
  <2>5. OwnerInv(q)'
    BY <1>1, <1>3, <2>1, <2>3 DEF OwnerInv, Reviewing
  <2>6. CoverageInv(q)'
    <3>1. \A r : Coming(work[q], r) => Coming(work'[q], r)
      BY <1>3, <2>3 DEF Coming
    <3>2. work'[q].regulations = work[q].regulations /\ due' = due
      BY <1>1 DEF Holds, HoldsSame
    <3> QED BY <1>3, <2>1, <2>3, <3>1, <3>2 DEF CoverageInv
  <2>7. EvidenceInv'
    BY <1>1, <1>3, <2>3, EvidenceStays DEF Goes, Only
  <2>8. work'[q].key = work[q].key /\ pc[q] \in Reviewing
    BY <1>3, <2>3 DEF Reviewing
  <2> QED BY <1>1, <2>1, <2>2, <2>4, <2>5, <2>6, <2>7, <2>8,
           TableKept, StepKeeps DEF SameReview
<1> QED BY <1>2, <1>3, NextVersionEffect

(* A finished review covers what it looked at.                             *)
LEMMA FinishKeeps ==
    ASSUME TypesInv, ComplianceInv, NEW q \in Requests, Finish(q)
    PROVE  ComplianceInv'
<1>1. /\ pc[q] = "finish" /\ FeedbackGrows
      /\ UNCHANGED <<assessments, feedback, findings, matched, disturbed, due>>
  BY FeedbackStays DEF Finish, matchTables, history
<1>2. /\ q \in Threads /\ q \notin Matchers
      /\ OwnerInv(q) /\ MatchingInv(q) /\ CoverageInv(q)
      /\ work[q].key \in Keys /\ work[q].document \in Documents
  BY <1>1, KnowsReview
<1>3. PICK key \in Keys : key = work[q].key
  BY <1>2
<1>4. /\ TypesInv'
      /\ reviews'[key].status \in {"needs_review", "completed"}
      /\ reviews'[key].document = reviews[key].document
      /\ \A k \in Keys : k # key => reviews'[k] = reviews[k]
  BY <1>2, <1>3, FinishEffect
<1>5. /\ reviews[key].status = "running" /\ findings[key] = work[q].found
      /\ reviews[key].document = work[q].document
  BY <1>1, <1>2, <1>3 DEF OwnerInv, Reviewing
<1>6. /\ Only(q) /\ pc'[q] \in {"idle", "expose"}
      /\ work'[q].matching = {} /\ work'[q].left = {} /\ work'[q].pending = {}
      /\ work'[q].stored = {}
      /\ pc'[q] = "expose" => work'[q].key = work[q].key
                              /\ work'[q].document = work[q].document
  <2>1. work[q].matching = {} /\ work[q].left = {} /\ work[q].pending = {}
        /\ work[q].stored = {}
    BY <1>1, <1>2 DEF MatchingInv
  <2>2. CASE Goes(q, "idle", "none", "none") /\ Holds(q, {}, {}, {}, {}, {}, {})
    BY <2>2 DEF Goes, Holds
  <2>3. CASE Goes(q, "expose", work[q].key, work[q].document) /\ HoldsSame(q)
    BY <2>1, <2>3 DEF Goes, Holds, HoldsSame
  <2> QED BY <1>2, <2>2, <2>3, FinishEffect
<1>7. OwnReview(q)
  BY <1>1, <1>3, <1>4 DEF OwnReview, SameReview, Reviewing
<1>8. MatchingInv(q)'
  BY <1>2, <1>6 DEF MatchingInv
<1>9. OwnerInv(q)' /\ CoverageInv(q)'
  BY <1>2, <1>6 DEF OwnerInv, CoverageInv, Reviewing
<1>10. EvidenceInv'
  <2>1. work[q].matching = {} /\ work[q].left = {} /\ work[q].pending = {}
    BY <1>1, <1>2 DEF MatchingInv
  <2> QED BY <1>1, <1>6, <2>1, EvidenceStays DEF Only
<1>11. ReviewInv(key)'
  <2>1. /\ work[q].left = {} /\ work[q].pending \cup work[q].stored = {}
        /\ work[q].regulations = {}
    BY <1>1, <1>2 DEF MatchingInv, CoverageInv
  <2>2. \A r \in due[key] : Covered(findings[key], reviews[key].document, r)
    BY <1>1, <1>2, <1>3, <1>5, <2>1 DEF CoverageInv, Coming, Covered
  <2>3. \A g \in findings[key] : g.about \in Clauses =>
          Grounded(g.about, reviews[key].document, g.status)
    BY DEF ComplianceInv, ReviewInv
  <2>4. findings'[key] = findings[key] /\ reviews'[key].document = reviews[key].document
        /\ reviews'[key].status # "absent" /\ reviews[key].document \in Documents
    BY <1>1, <1>2, <1>4, <1>5
  <2>5. \A g \in findings[key] : g.about \in Clauses =>
          Grounded(g.about, reviews[key].document, g.status)'
    BY <1>1, <2>3, <2>4 DEF Grounded
  <2> QED BY <1>1, <2>2, <2>4, <2>5 DEF ReviewInv, Covered
<1>12. \A k \in Keys : \/ SameReview(k)
                       \/ ReviewInv(k)'
  BY <1>1, <1>4, <1>11 DEF SameReview
<1>13. pc'[q] \notin Reviewing
  BY <1>6 DEF Reviewing
<1> QED BY <1>1, <1>2, <1>4, <1>6, <1>7, <1>8, <1>9, <1>10, <1>12, <1>13,
           TableKept, StepKeeps

LEMMA ExposeKeeps ==
    ASSUME TypesInv, ComplianceInv, NEW q \in Requests, Expose(q)
    PROVE  ComplianceInv'
<1>1. /\ pc[q] = "expose" /\ FeedbackGrows
      /\ UNCHANGED <<assessments, feedback, reviews, findings, matched, disturbed, due>>
  BY FeedbackStays DEF Expose, matchTables, history
<1>2. q \in Threads /\ q \notin Matchers /\ work[q].key \in Keys
  BY <1>1, KnowsReview
<1>3. TypesInv' /\ Goes(q, "idle", "none", "none") /\ Holds(q, {}, {}, {}, {}, {}, {})
  BY <1>2, ExposeEffect
<1>4. Only(q) /\ OwnReview(q)
  BY <1>1, <1>3 DEF Goes, OwnReview, SameReview
<1>5. MatchingInv(q)' /\ OwnerInv(q)' /\ CoverageInv(q)'
  BY <1>2, <1>3 DEF Goes, Holds, MatchingInv, OwnerInv, CoverageInv, Reviewing
<1>6. EvidenceInv'
  BY <1>1, <1>2, <1>3, NothingInHand, EvidenceStays DEF Goes, Only, Holds
<1>7. pc'[q] \notin Reviewing
  BY <1>3 DEF Goes, Reviewing
<1> QED BY <1>1, <1>2, <1>3, <1>4, <1>5, <1>6, <1>7, TableKept, StepKeeps DEF SameReview

-----------------------------------------------------------------------------
(* Matchings.                                                              *)

(* What is selected is related.                                            *)
LEMMA SelectedIsRelated ==
    ASSUME NEW c, NEW scope, NEW d \in Selected(c, scope)
    PROVE  d \in scope /\ Verdict[c][d] # "none"
BY DEF Selected

(* Of one document, it is selected if it is related: nothing is ahead of it*)
(* and the shortlist is not empty.                                         *)
LEMMA OneDocumentIsSelected ==
    ASSUME NEW c \in Clauses, NEW d \in Documents, Verdict[c][d] # "none"
    PROVE  d \in Selected(c, {d})
<1> DEFINE related == {x \in {d} : Verdict[c][x] # "none"}
           ahead(x) == {e \in related : ~Exact[c][e] /\ Place[c][e] < Place[c][x]}
<1>1. Place[c][d] \in Nat
  BY MatchingAssumption
<1>2. ahead(d) = {}
  BY <1>1
<1>3. Cardinality(ahead(d)) = 0
  <2> HIDE DEF ahead
  <2> QED BY <1>2, FS_EmptySet
<1>4. Cardinality(ahead(d)) < Shortlist
  <2> HIDE DEF ahead
  <2> QED BY <1>3, ReviewBounds
<1>5. d \in related
  OBVIOUS
<1>6. Selected(c, {d}) = {x \in related : Exact[c][x] \/ Cardinality(ahead(x)) < Shortlist}
  BY DEF Selected
<1> HIDE DEF related, ahead
<1> QED BY <1>4, <1>5, <1>6

(* A passage selected among all documents is selected in a thread's scope, *)
(* if it is there.                                                         *)
LEMMA SelectedInScope ==
    ASSUME NEW t \in Threads, NEW c \in Clauses,
           NEW d \in Selected(c, Documents), d \in Scope(t)
    PROVE  d \in Selected(c, Scope(t))
<1>1. d \in Documents /\ Verdict[c][d] # "none"
  BY SelectedIsRelated
<1>2. CASE Scope(t) = Documents
  BY <1>2
<1>3. CASE Scope(t) = {work[t].document}
  <2>1. Scope(t) = {d}
    BY <1>3
  <2> QED BY <1>1, <2>1, OneDocumentIsSelected
<1> QED BY <1>2, <1>3 DEF Scope

LEMMA BeginMatchKeeps ==
    ASSUME TypesInv, ComplianceInv, NEW m \in Matchers, NEW r \in Regulations,
           BeginMatch(m, r)
    PROVE  ComplianceInv'
<1>1. /\ pc[m] = "idle" /\ FeedbackGrows
      /\ UNCHANGED <<assessments, feedback, reviews, findings, matched, disturbed, due>>
  BY FeedbackStays DEF BeginMatch, matchTables, reviewTables, history
<1>2. /\ TypesInv' /\ Goes(m, "version", work[m].key, work[m].document)
      /\ Holds(m, {r}, work[m].matching, work[m].left, work[m].pending,
               work[m].stored, work[m].found)
  BY BeginMatchEffect
<1>3. m \in Threads /\ m \notin Requests /\ MatchingInv(m)
  BY ThreadAssumption DEF Threads, ComplianceInv
<1>4. Only(m) /\ OwnReview(m)
  BY <1>1, <1>2 DEF Goes, OwnReview, SameReview
<1>5. MatchingInv(m)'
  <2>1. \A a \in work[m].pending \cup work[m].stored :
          Grounded(a.clause, a.document, a.status)'
    BY <1>1, <1>3 DEF MatchingInv, Grounded
  <2> QED BY <1>1, <1>2, <1>3, <2>1 DEF Goes, Holds, MatchingInv
<1>6. EvidenceInv'
  BY <1>1, <1>2, EvidenceStays DEF Goes, Only, Holds
<1> QED BY <1>1, <1>2, <1>3, <1>4, <1>5, <1>6, TableKept, StepKeeps DEF SameReview

(* The passages whose assessments are deleted are left to assess.          *)
LEMMA ClearKeeps ==
    ASSUME TypesInv, ComplianceInv, NEW t \in Threads, NEW r \in Regulations,
           Clear(t, r)
    PROVE  ComplianceInv'
<1> DEFINE pairs == {p \in ClausesOf(r) \X Scope(t) : p[2] \in Selected(p[1], Scope(t))}
<1>1. /\ MatchingInv(t) /\ pc[t] = "version"
      /\ t \in Requests => /\ OwnerInv(t) /\ CoverageInv(t)
                           /\ work[t].key \in Keys /\ work[t].document \in Documents
  BY DEF Clear, ComplianceInv, OwnerInv
<1>2. /\ TypesInv' /\ Goes(t, "match", work[t].key, work[t].document)
      /\ Holds(t, work[t].regulations \ {r}, ClausesOf(r), pairs,
               work[t].pending, work[t].stored, work[t].found)
      /\ \A c \in Clauses, d \in Documents : assessments'[c][d] =
                IF c \in ClausesOf(r) /\ d \in Scope(t) THEN "none"
                ELSE assessments[c][d]
      /\ disturbed' = disturbed \ {t}
      /\ UNCHANGED <<feedback, reviews, findings, matched, due>>
  BY <1>1, ClearEffect
<1>3. work[t].matching = {} /\ work[t].left = {} /\ work[t].pending = {}
      /\ (t \in Requests => work[t].stored = {})
  BY <1>1 DEF MatchingInv
<1>4. \A p \in pairs : /\ p[1] \in ClausesOf(r) /\ p[2] \in Scope(t)
                       /\ p[2] \in Selected(p[1], Scope(t))
  OBVIOUS
<1>5. \A c \in ClausesOf(r), d \in Scope(t) : d \in Selected(c, Scope(t)) =>
        <<c, d>> \in pairs
  OBVIOUS
<1> HIDE DEF pairs
<1>6. /\ work'[t].key = work[t].key /\ work'[t].document = work[t].document
      /\ pc'[t] = "match" /\ work'[t].found = work[t].found
      /\ work'[t].matching = ClausesOf(r) /\ work'[t].left = pairs
      /\ work'[t].pending = {} /\ work'[t].stored = work[t].stored
  BY <1>2, <1>3 DEF Goes, Holds
<1>7. Only(t) /\ OwnReview(t) /\ FeedbackGrows
  BY <1>2, FeedbackStays DEF Goes, OwnReview, SameReview
<1>8. MatchingInv(t)'
  <2>1. \A p \in pairs : Verdict[p[1]][p[2]] # "none"
    BY <1>4, SelectedIsRelated
  <2>2. \A a \in work[t].stored : Grounded(a.clause, a.document, a.status)'
    BY <1>1, <1>2 DEF MatchingInv, Grounded
  <2> QED BY <1>6, <2>1, <2>2 DEF MatchingInv
<1>9. ASSUME t \in Requests PROVE OwnerInv(t)' /\ CoverageInv(t)'
  <2>1. Scope(t) = {work[t].document} /\ ClausesOf(r) \subseteq Clauses
    BY <1>9 DEF Scope, ClausesOf
  <2>2. OwnerInv(t)'
    BY <1>1, <1>2, <1>3, <1>4, <1>6, <1>9, <2>1 DEF OwnerInv, Reviewing
  <2>3. \A c \in ClausesOf(r) : Verdict[c][work[t].document] # "none" =>
          <<c, work[t].document>> \in pairs
    BY <1>1, <1>5, <1>9, <2>1, OneDocumentIsSelected
  <2>4. Coming(work'[t], r)
    BY <1>6, <2>3 DEF Coming
  <2>5. \A s : Coming(work[t], s) => Coming(work'[t], s)
    BY <1>3, <1>6, <1>9 DEF Coming
  <2>6. work'[t].regulations = work[t].regulations \ {r} /\ due' = due
    BY <1>2 DEF Holds
  <2>7. CoverageInv(t)'
    BY <1>1, <1>6, <1>9, <2>4, <2>5, <2>6 DEF CoverageInv
  <2> QED BY <2>2, <2>7
<1>10. ASSUME NEW c \in Clauses, Kept(c) PROVE Kept(c)'
  <2> SUFFICES ASSUME NEW d \in Selected(c, Documents)
               PROVE  \/ assessments'[c][d] # "none"
                      \/ \E u \in Threads : /\ c \in work'[u].matching
                              /\ \/ <<c, d>> \in work'[u].left
                                 \/ \E a \in work'[u].pending :
                                        a.clause = c /\ a.document = d
    BY DEF Kept, Selected
  <2>1. d \in Documents
    BY SelectedIsRelated
  <2>2. CASE c \in ClausesOf(r) /\ d \in Scope(t)
    <3>1. <<c, d>> \in pairs
      BY <1>5, <2>2, SelectedInScope
    <3> QED BY <1>6, <2>2, <3>1
  <2>3. CASE ~(c \in ClausesOf(r) /\ d \in Scope(t))
    <3>1. assessments'[c][d] = assessments[c][d]
      BY <1>2, <2>1, <2>3
    <3>2. CASE assessments[c][d] # "none"
      BY <3>1, <3>2
    <3>3. CASE assessments[c][d] = "none"
      <4>1. PICK u \in Threads : /\ c \in work[u].matching
                              /\ \/ <<c, d>> \in work[u].left
                                 \/ \E a \in work[u].pending :
                                        a.clause = c /\ a.document = d
        BY <1>10, <3>3 DEF Kept
      <4>2. u # t
        BY <1>3, <4>1
      <4>3. work'[u] = work[u]
        BY <1>7, <4>2 DEF Only
      <4> QED BY <4>1, <4>3
    <3> QED BY <3>2, <3>3
  <2> QED BY <2>2, <2>3
<1>11. ASSUME t \in Matchers, NEW c \in ClausesOf(r) PROVE Kept(c)'
  <2> SUFFICES ASSUME NEW d \in Selected(c, Documents)
               PROVE  \E u \in Threads : /\ c \in work'[u].matching
                                         /\ <<c, d>> \in work'[u].left
    BY DEF Kept, Selected
  <2>1. d \in Scope(t) /\ c \in Clauses
    BY <1>11, SelectedIsRelated, ThreadAssumption DEF Scope, ClausesOf
  <2>2. <<c, d>> \in pairs
    BY <1>5, <2>1, SelectedInScope
  <2> QED BY <1>6, <2>2
<1>12. EvidenceInv'
  <2>1. \A c \in matched' : Kept(c)'
    BY <1>2, <1>10 DEF ComplianceInv, EvidenceInv, TypesInv
  <2>2. ASSUME NEW u \in Matchers \ disturbed', NEW c \in work'[u].matching
        PROVE  Kept(c)'
    <3>1. CASE u = t
      BY <1>6, <1>11, <2>2, <3>1
    <3>2. CASE u # t
      <4>1. u \in Threads /\ work'[u] = work[u] /\ u \notin disturbed
        BY <1>2, <1>7, <3>2 DEF Only, Threads
      <4>2. c \in Clauses
        BY <2>2, <4>1 DEF TypesInv, Work
      <4> QED BY <1>10, <2>2, <4>1, <4>2 DEF ComplianceInv, EvidenceInv
    <3> QED BY <3>1, <3>2
  <2> QED BY <2>1, <2>2 DEF EvidenceInv
<1>13. \A c \in Clauses, d \in Documents :
         assessments'[c][d] # "none" => Grounded(c, d, assessments[c][d])'
  BY <1>2 DEF ComplianceInv, Grounded
<1>14. \A k \in Keys : SameReview(k)
  BY <1>2 DEF SameReview
<1>15. work'[t].key = work[t].key /\ pc[t] \in Reviewing
  BY <1>1, <1>6 DEF Reviewing
<1> QED BY <1>2, <1>7, <1>8, <1>9, <1>12, <1>13, <1>14, <1>15, StepKeeps

LEMMA AssessKeeps ==
    ASSUME TypesInv, ComplianceInv, NEW t \in Threads,
           NEW c \in Clauses, NEW d \in Documents, Assess(t, c, d)
    PROVE  ComplianceInv'
<1>1. /\ MatchingInv(t) /\ pc[t] = "match" /\ <<c, d>> \in work[t].left
      /\ t \in Requests => OwnerInv(t) /\ CoverageInv(t)
  BY DEF Assess, ComplianceInv
<1>2. Verdict[c][d] # "none"
  BY <1>1 DEF MatchingInv
<1>3. /\ TypesInv' /\ Goes(t, "match", work[t].key, work[t].document)
      /\ work[t].pending = {}
      /\ UNCHANGED <<assessments, feedback, reviews, findings, matched, disturbed, due>>
  BY <1>2, AssessEffect
<1>4. PICK a \in Assessment :
        /\ a.clause = c /\ a.document = d /\ Grounded(c, d, a.status)
        /\ Holds(t, work[t].regulations, work[t].matching,
                 work[t].left \ {<<c, d>>}, {a},
                 work[t].stored, work[t].found)
  BY <1>2, AssessEffect
<1>5. /\ work'[t].key = work[t].key /\ work'[t].document = work[t].document
      /\ pc'[t] = "match" /\ work'[t].found = work[t].found
      /\ work'[t].matching = work[t].matching
      /\ work'[t].left = work[t].left \ {<<c, d>>}
      /\ work'[t].pending = {a} /\ work'[t].stored = work[t].stored
  BY <1>3, <1>4 DEF Goes, Holds
<1>6. Only(t) /\ OwnReview(t) /\ FeedbackGrows
  BY <1>3, FeedbackStays DEF Goes, OwnReview, SameReview
<1>7. MatchingInv(t)'
  <2>1. \A b \in {a} \cup work[t].stored : Grounded(b.clause, b.document, b.status)'
    BY <1>1, <1>3, <1>4 DEF MatchingInv, Grounded
  <2> QED BY <1>1, <1>5, <2>1 DEF MatchingInv
<1>8. ASSUME t \in Requests PROVE OwnerInv(t)' /\ CoverageInv(t)'
  <2>1. d = work[t].document
    BY <1>1, <1>8 DEF OwnerInv
  <2>2. OwnerInv(t)'
    BY <1>1, <1>3, <1>4, <1>5, <1>8, <2>1 DEF OwnerInv, Reviewing
  <2>3. ASSUME NEW r, Coming(work[t], r) PROVE Coming(work'[t], r)
    <3> SUFFICES ASSUME NEW x \in ClausesOf(r), Verdict[x][work[t].document] # "none"
                 PROVE  \/ <<x, work[t].document>> \in work[t].left \ {<<c, d>>}
                        \/ \E b \in {a} \cup work[t].stored : b.clause = x
                        \/ \E g \in work[t].found : g.about = x
      BY <1>5 DEF Coming
    <3>1. \/ <<x, work[t].document>> \in work[t].left
          \/ \E b \in work[t].stored : b.clause = x
          \/ \E g \in work[t].found : g.about = x
      BY <1>3, <2>3 DEF Coming
    <3> QED BY <1>4, <3>1
  <2>4. work'[t].regulations = work[t].regulations /\ due' = due
    BY <1>3, <1>4 DEF Holds
  <2>8. CoverageInv(t)'
    BY <1>1, <1>5, <1>8, <2>3, <2>4 DEF CoverageInv
  <2> QED BY <2>2, <2>8
<1>9. ASSUME NEW x \in Clauses, Kept(x) PROVE Kept(x)'
  <2> SUFFICES ASSUME NEW e \in Selected(x, Documents), assessments[x][e] = "none"
               PROVE  \E u \in Threads : /\ x \in work'[u].matching
                              /\ \/ <<x, e>> \in work'[u].left
                                 \/ \E b \in work'[u].pending :
                                        b.clause = x /\ b.document = e
    BY <1>3 DEF Kept, Selected
  <2>1. PICK u \in Threads : /\ x \in work[u].matching
                             /\ \/ <<x, e>> \in work[u].left
                                \/ \E b \in work[u].pending :
                                        b.clause = x /\ b.document = e
    BY <1>9 DEF Kept
  <2>2. CASE u = t
    BY <1>3, <1>4, <1>5, <2>1, <2>2
  <2>3. CASE u # t
    BY <1>6, <2>1, <2>3 DEF Only
  <2> QED BY <2>2, <2>3
<1>10. EvidenceInv'
  <2>1. \A u \in Threads : work'[u].matching = work[u].matching
    BY <1>5, <1>6 DEF Only
  <2>2. \A u \in Threads : work[u].matching \subseteq Clauses
    BY DEF TypesInv, Work
  <2> QED BY <1>3, <1>9, <2>1, <2>2 DEF ComplianceInv, EvidenceInv, TypesInv, Threads
<1>11. \A k \in Keys : SameReview(k)
  BY <1>3 DEF SameReview
<1>12. work'[t].key = work[t].key /\ pc[t] \in Reviewing
  BY <1>1, <1>5 DEF Reviewing
<1> QED BY <1>3, <1>6, <1>7, <1>8, <1>10, <1>11, <1>12, TableKept, StepKeeps

(* What is written is what was assessed, with the feedback of that moment. *)
LEMMA StoreKeeps ==
    ASSUME TypesInv, ComplianceInv, NEW t \in Threads, Store(t)
    PROVE  ComplianceInv'
<1>1. /\ TypesInv' /\ pc[t] = "match"
      /\ Goes(t, "match", work[t].key, work[t].document)
      /\ UNCHANGED <<feedback, reviews, findings, matched, disturbed, due>>
  BY StoreEffect
<1>2. PICK a \in work[t].pending :
        /\ Holds(t, work[t].regulations, work[t].matching, work[t].left, {},
                 work[t].stored \cup {a}, work[t].found)
        /\ a.clause \in Clauses /\ a.document \in Documents
        /\ a.status \in Status
        /\ \A c \in Clauses, d \in Documents : assessments'[c][d] =
             IF c = a.clause /\ d = a.document THEN a.status
             ELSE assessments[c][d]
  BY StoreEffect
<1>3. /\ MatchingInv(t)
      /\ t \in Requests => OwnerInv(t) /\ CoverageInv(t)
  BY DEF ComplianceInv
<1>4. work[t].pending = {a} /\ Grounded(a.clause, a.document, a.status)
  BY <1>3 DEF MatchingInv
<1>5. /\ work'[t].key = work[t].key /\ work'[t].document = work[t].document
      /\ pc'[t] = "match" /\ work'[t].found = work[t].found
      /\ work'[t].matching = work[t].matching /\ work'[t].left = work[t].left
      /\ work'[t].pending = {} /\ work'[t].stored = work[t].stored \cup {a}
  BY <1>1, <1>2 DEF Goes, Holds
<1>6. Only(t) /\ OwnReview(t) /\ FeedbackGrows
  BY <1>1, FeedbackStays DEF Goes, OwnReview, SameReview
<1>7. MatchingInv(t)'
  <2>1. \A b \in work[t].stored \cup {a} : Grounded(b.clause, b.document, b.status)'
    BY <1>1, <1>3, <1>4 DEF MatchingInv, Grounded
  <2> QED BY <1>1, <1>3, <1>5, <2>1 DEF MatchingInv
<1>8. ASSUME t \in Requests PROVE OwnerInv(t)' /\ CoverageInv(t)'
  <2>1. OwnerInv(t)'
    BY <1>1, <1>3, <1>5, <1>8 DEF OwnerInv, Reviewing
  <2>2. work[t].pending \cup work[t].stored = {} \cup (work[t].stored \cup {a})
    BY <1>4
  <2>4. \A r : Coming(work[t], r) => Coming(work'[t], r)
    BY <1>4, <1>5, <2>2 DEF Coming
  <2>5. work'[t].regulations = work[t].regulations /\ due' = due
    BY <1>1, <1>2 DEF Holds
  <2>3. CoverageInv(t)'
    BY <1>1, <1>3, <1>5, <1>8, <2>4, <2>5 DEF CoverageInv
  <2> QED BY <2>1, <2>3
<1>9. ASSUME NEW x \in Clauses, Kept(x) PROVE Kept(x)'
  <2> SUFFICES ASSUME NEW e \in Selected(x, Documents), assessments'[x][e] = "none"
               PROVE  \E u \in Threads : /\ x \in work'[u].matching
                              /\ \/ <<x, e>> \in work'[u].left
                                 \/ \E b \in work'[u].pending :
                                        b.clause = x /\ b.document = e
    BY DEF Kept, Selected
  <2>1. e \in Documents
    BY SelectedIsRelated
  <2>2. a.status # "none"
    BY <1>2 DEF Status
  <2>3. assessments[x][e] = "none" /\ ~(x = a.clause /\ e = a.document)
    BY <1>2, <2>1, <2>2
  <2>4. PICK u \in Threads : /\ x \in work[u].matching
                             /\ \/ <<x, e>> \in work[u].left
                                \/ \E b \in work[u].pending :
                                        b.clause = x /\ b.document = e
    BY <1>9, <2>3 DEF Kept
  <2>5. CASE u = t
    BY <1>4, <1>5, <2>3, <2>4, <2>5
  <2>6. CASE u # t
    BY <1>6, <2>4, <2>6 DEF Only
  <2> QED BY <2>5, <2>6
<1>10. EvidenceInv'
  <2>1. \A u \in Threads : work'[u].matching = work[u].matching
    BY <1>5, <1>6 DEF Only
  <2>2. \A u \in Threads : work[u].matching \subseteq Clauses
    BY DEF TypesInv, Work
  <2> QED BY <1>1, <1>9, <2>1, <2>2 DEF ComplianceInv, EvidenceInv, TypesInv, Threads
<1>11. \A c \in Clauses, d \in Documents :
         assessments'[c][d] # "none" => Grounded(c, d, assessments[c][d])'
  BY <1>1, <1>2, <1>4 DEF ComplianceInv, Grounded
<1>12. \A k \in Keys : SameReview(k)
  BY <1>1 DEF SameReview
<1>13. work'[t].key = work[t].key /\ pc[t] \in Reviewing
  BY <1>1, <1>5 DEF Reviewing
<1> QED BY <1>1, <1>6, <1>7, <1>8, <1>10, <1>11, <1>12, <1>13, StepKeeps

(* A matching that is done has nothing left, so nothing depends on it.     *)
LEMMA MatchedKeeps ==
    ASSUME TypesInv, ComplianceInv, NEW t \in Threads, Matched(t)
    PROVE  ComplianceInv'
<1>1. /\ TypesInv' /\ pc[t] = "match" /\ work[t].left = {} /\ work[t].pending = {}
      /\ t \in Requests => /\ Goes(t, "record", work[t].key, work[t].document)
                           /\ Holds(t, work[t].regulations, {}, {}, {},
                                    work[t].stored, work[t].found)
      /\ t \notin Requests => /\ Goes(t, "idle", "none", "none")
                              /\ Holds(t, {}, {}, {}, {}, {}, {})
      /\ matched' = IF t \in Requests \cup disturbed THEN matched
                    ELSE matched \cup work[t].matching
      /\ UNCHANGED <<assessments, feedback, reviews, findings, disturbed, due>>
  BY MatchedEffect
<1>2. /\ MatchingInv(t)
      /\ t \in Requests => OwnerInv(t) /\ CoverageInv(t) /\ t \notin Matchers
      /\ t \notin Requests => t \in Matchers
  BY ThreadAssumption DEF ComplianceInv, Threads
<1>3. Only(t) /\ OwnReview(t) /\ FeedbackGrows
  BY <1>1, FeedbackStays DEF Goes, OwnReview, SameReview
<1>4. MatchingInv(t)'
  <2>1. \A b \in work[t].stored : Grounded(b.clause, b.document, b.status)'
    BY <1>1, <1>2 DEF MatchingInv, Grounded
  <2> QED BY <1>1, <1>2, <2>1 DEF Goes, Holds, MatchingInv
<1>5. ASSUME t \in Requests PROVE OwnerInv(t)' /\ CoverageInv(t)'
  <2>1. /\ work'[t].key = work[t].key /\ work'[t].document = work[t].document
        /\ pc'[t] = "record" /\ work'[t].found = work[t].found
        /\ work'[t].left = {} /\ work'[t].pending = {}
        /\ work'[t].stored = work[t].stored
    BY <1>1, <1>5 DEF Goes, Holds
  <2>2. OwnerInv(t)'
    BY <1>1, <1>2, <1>5, <2>1 DEF OwnerInv, Reviewing
  <2>3. \A r : Coming(work[t], r) => Coming(work'[t], r)
    BY <1>1, <2>1 DEF Coming
  <2>4. work'[t].regulations = work[t].regulations /\ due' = due
    BY <1>1, <1>5 DEF Holds
  <2>5. CoverageInv(t)'
    BY <1>1, <1>2, <1>5, <2>1, <2>3, <2>4 DEF CoverageInv
  <2> QED BY <2>2, <2>5
<1>6. ASSUME NEW x \in Clauses, Kept(x) PROVE Kept(x)'
  <2> SUFFICES ASSUME NEW e \in Selected(x, Documents), assessments[x][e] = "none"
               PROVE  \E u \in Threads : /\ x \in work'[u].matching
                              /\ \/ <<x, e>> \in work'[u].left
                                 \/ \E b \in work'[u].pending :
                                        b.clause = x /\ b.document = e
    BY <1>1 DEF Kept, Selected
  <2>1. PICK u \in Threads : /\ x \in work[u].matching
                             /\ \/ <<x, e>> \in work[u].left
                                \/ \E b \in work[u].pending :
                                        b.clause = x /\ b.document = e
    BY <1>6 DEF Kept
  <2>2. u # t
    BY <1>1, <2>1
  <2> QED BY <1>3, <2>1, <2>2 DEF Only
<1>7. EvidenceInv'
  <2>1. \A u \in Threads : work[u].matching \subseteq Clauses
    BY DEF TypesInv, Work
  <2>2. \A c \in matched' : c \in Clauses /\ Kept(c)
    <3>1. \A c \in matched : c \in Clauses /\ Kept(c)
      BY DEF ComplianceInv, EvidenceInv, TypesInv
    <3>2. t \notin Requests \cup disturbed =>
            \A c \in work[t].matching : c \in Clauses /\ Kept(c)
      BY <1>2, <2>1 DEF ComplianceInv, EvidenceInv
    <3> QED BY <1>1, <3>1, <3>2
  <2>3. ASSUME NEW u \in Matchers \ disturbed', NEW c \in work'[u].matching
        PROVE  c \in Clauses /\ Kept(c)
    <3>1. u # t
      BY <1>1, <1>2, <2>3 DEF Holds
    <3>2. u \in Threads /\ u \in Matchers \ disturbed /\ c \in work[u].matching
      BY <1>1, <1>3, <2>3, <3>1 DEF Only, Threads
    <3> QED BY <2>1, <3>2 DEF ComplianceInv, EvidenceInv
  <2>4. \A c \in matched' : Kept(c)'
    BY <1>6, <2>2
  <2>5. \A u \in Matchers \ disturbed' : \A c \in work'[u].matching : Kept(c)'
    BY <1>6, <2>3
  <2> QED BY <2>4, <2>5 DEF EvidenceInv
<1>8. \A k \in Keys : SameReview(k)
  BY <1>1 DEF SameReview
<1>9. /\ t \in Requests => work'[t].key = work[t].key
      /\ pc[t] \in Reviewing
  BY <1>1 DEF Goes, Reviewing
<1> QED BY <1>1, <1>3, <1>4, <1>5, <1>7, <1>8, <1>9, TableKept, StepKeeps

(* A failure gives up what depended on it.                                 *)
LEMMA FailKeeps ==
    ASSUME TypesInv, ComplianceInv, NEW t \in Threads, Fail(t)
    PROVE  ComplianceInv'
<1>1. /\ TypesInv' /\ Goes(t, "idle", "none", "none")
      /\ Holds(t, {}, {}, {}, {}, {}, {})
      /\ matched' = matched \ work[t].matching
      /\ disturbed' = disturbed \cup
           {u \in Threads : work[u].matching \cap work[t].matching # {}}
      /\ UNCHANGED <<assessments, feedback, reviews, findings, due>>
  BY FailEffect
<1>2. Only(t) /\ OwnReview(t) /\ FeedbackGrows
  BY <1>1, FeedbackStays DEF Goes, OwnReview, SameReview
<1>3. MatchingInv(t)' /\ OwnerInv(t)' /\ CoverageInv(t)'
  BY <1>1 DEF Goes, Holds, MatchingInv, OwnerInv, CoverageInv, Reviewing
<1>4. ASSUME NEW x \in Clauses, Kept(x), x \notin work[t].matching PROVE Kept(x)'
  <2> SUFFICES ASSUME NEW e \in Selected(x, Documents), assessments[x][e] = "none"
               PROVE  \E u \in Threads : /\ x \in work'[u].matching
                              /\ \/ <<x, e>> \in work'[u].left
                                 \/ \E b \in work'[u].pending :
                                        b.clause = x /\ b.document = e
    BY <1>1 DEF Kept, Selected
  <2>1. PICK u \in Threads : /\ x \in work[u].matching
                             /\ \/ <<x, e>> \in work[u].left
                                \/ \E b \in work[u].pending :
                                        b.clause = x /\ b.document = e
    BY <1>4 DEF Kept
  <2>2. u # t
    BY <1>4, <2>1
  <2> QED BY <1>2, <2>1, <2>2 DEF Only
<1>5. EvidenceInv'
  <2>1. \A u \in Threads : work[u].matching \subseteq Clauses
    BY DEF TypesInv, Work
  <2>2. \A c \in matched' : c \in Clauses /\ Kept(c) /\ c \notin work[t].matching
    BY <1>1 DEF ComplianceInv, EvidenceInv, TypesInv
  <2>3. ASSUME NEW u \in Matchers \ disturbed', NEW c \in work'[u].matching
        PROVE  c \in Clauses /\ Kept(c) /\ c \notin work[t].matching
    <3>1. u # t /\ u \in Threads
      BY <1>1, <2>3 DEF Holds, Threads
    <3>2. u \in Matchers \ disturbed /\ c \in work[u].matching
      BY <1>1, <1>2, <2>3, <3>1 DEF Only
    <3>3. work[u].matching \cap work[t].matching = {}
      BY <1>1, <2>3, <3>1
    <3> QED BY <2>1, <3>1, <3>2, <3>3 DEF ComplianceInv, EvidenceInv
  <2>4. \A c \in matched' : Kept(c)'
    BY <1>4, <2>2
  <2>5. \A u \in Matchers \ disturbed' : \A c \in work'[u].matching : Kept(c)'
    BY <1>4, <2>3
  <2> QED BY <2>4, <2>5 DEF EvidenceInv
<1>6. \A k \in Keys : SameReview(k)
  BY <1>1 DEF SameReview
<1>7. pc'[t] \notin Reviewing
  BY <1>1 DEF Goes, Reviewing
<1> QED BY <1>1, <1>2, <1>3, <1>5, <1>6, <1>7, TableKept, StepKeeps

-----------------------------------------------------------------------------
(* The theorems.                                                           *)

LEMMA ComplianceStarts ==
    ComplianceInit => TypesInv /\ ComplianceInv
<1> SUFFICES ASSUME ComplianceInit PROVE TypesInv /\ ComplianceInv
  OBVIOUS
<1>1. \A t \in Threads : pc[t] = "idle" /\ work[t] = Idle
  BY DEF ComplianceInit
<1>2. \A k \in Keys : reviews[k] = NoReview /\ findings[k] = {}
  BY DEF ComplianceInit
<1>3. Idle \in Work /\ NoReview \in Review
  BY IdleIsWork DEF NoReview, Review
<1>4. TypesInv
  <2>1. \A t \in Threads : /\ work[t].left = {} /\ work[t].found = {}
                           /\ work[t].pending \cup work[t].stored = {}
    BY <1>1 DEF Idle
  <2>2. feedback \in [Clauses -> [Fingerprints -> Seq(Decisions)]]
    BY DEF ComplianceInit
  <2>3. \A c \in Clauses, f \in Fingerprints : feedback[c][f] \in Seq(Decisions)
    BY <2>2
  <2> QED BY <1>3, <2>1, <2>2, <2>3 DEF ComplianceInit, TypesInv, ComplianceTypeOK
<1>5. \A t \in Threads : MatchingInv(t)
  BY <1>1 DEF MatchingInv, Idle
<1>6. \A q \in Requests : OwnerInv(q) /\ CoverageInv(q)
  BY <1>1 DEF Threads, OwnerInv, CoverageInv, Idle, Reviewing
<1>7. SoleOwner
  BY <1>1 DEF Threads, SoleOwner, Reviewing
<1>8. \A k \in Keys : ReviewInv(k)
  BY <1>2 DEF ReviewInv, Finished, NoReview
<1>9. EvidenceInv
  <2>1. \A t \in Matchers : work[t].matching = {}
    BY <1>1 DEF Threads, Idle
  <2> QED BY <2>1 DEF ComplianceInit, EvidenceInv
<1>10. \A c \in Clauses, d \in Documents : assessments[c][d] = "none"
  BY DEF ComplianceInit
<1> QED BY <1>4, <1>5, <1>6, <1>7, <1>8, <1>9, <1>10 DEF ComplianceInv

(* A step of some thread, or of a reviewer.                                *)
LEMMA ComplianceStepKeeps ==
    ASSUME TypesInv, ComplianceInv, ComplianceNext
    PROVE  TypesInv' /\ ComplianceInv'
<1>1. CASE \E c \in Clauses, d \in Documents, s \in Decisions : GiveFeedback(c, d, s)
  BY <1>1, FeedbackEffect, FeedbackKeeps
<1>2. ASSUME NEW q \in Requests, NEW k \in Keys, NEW d \in Documents, Post(q, k, d)
      PROVE  TypesInv' /\ ComplianceInv'
  BY <1>2, PostEffect, PostKeeps
<1>3. ASSUME NEW q \in Requests, InsertReview(q)
      PROVE  TypesInv' /\ ComplianceInv'
  <2>1. pc[q] # "idle"
    BY <1>3 DEF InsertReview
  <2> QED BY <1>3, <2>1, KnowsReview, InsertEffect, InsertKeeps
<1>4. ASSUME NEW q \in Requests, NEW active \in SUBSET Changes, ReadChanges(q, active)
      PROVE  TypesInv' /\ ComplianceInv'
  BY <1>4, ReadChangesEffect, ReadChangesKeeps
<1>5. ASSUME NEW q \in Requests, NEW ch \in Changes, CiteChange(q, ch)
      PROVE  TypesInv' /\ ComplianceInv'
  <2>1. pc[q] # "idle"
    BY <1>5 DEF CiteChange
  <2> QED BY <1>5, <2>1, KnowsReview, CiteEffect, CiteKeeps
<1>6. ASSUME NEW q \in Requests, NEW applicable \in SUBSET Regulations,
             ReadScan(q, applicable)
      PROVE  TypesInv' /\ ComplianceInv'
  BY <1>6, ReadScanEffect, ReadScanKeeps
<1>7. ASSUME NEW q \in Requests, NEW a \in work[q].stored, RecordFinding(q, a)
      PROVE  TypesInv' /\ ComplianceInv'
  <2>1. pc[q] # "idle"
    BY <1>7 DEF RecordFinding
  <2> QED BY <1>7, <2>1, KnowsReview, RecordEffect, RecordKeeps
<1>8. ASSUME NEW q \in Requests, NextVersion(q)
      PROVE  TypesInv' /\ ComplianceInv'
  BY <1>8, NextVersionEffect, NextVersionKeeps
<1>9. ASSUME NEW q \in Requests, Finish(q) \/ Expose(q)
      PROVE  TypesInv' /\ ComplianceInv'
  <2>1. pc[q] # "idle"
    BY <1>9 DEF Finish, Expose
  <2> QED BY <1>9, <2>1, KnowsReview, FinishEffect, FinishKeeps, ExposeEffect, ExposeKeeps
<1>10. ASSUME NEW m \in Matchers, NEW r \in Regulations, BeginMatch(m, r)
       PROVE  TypesInv' /\ ComplianceInv'
  BY <1>10, BeginMatchEffect, BeginMatchKeeps
<1>11. ASSUME NEW t \in Threads, NEW r \in Regulations, Clear(t, r)
       PROVE  TypesInv' /\ ComplianceInv'
  <2>1. pc[t] # "idle"
    BY <1>11 DEF Clear
  <2> QED BY <1>11, <2>1, KnowsReview, ClearEffect, ClearKeeps
<1>12. ASSUME NEW t \in Threads, NEW c \in Clauses, NEW d \in Documents, Assess(t, c, d)
       PROVE  TypesInv' /\ ComplianceInv'
  <2>1. Verdict[c][d] # "none"
    BY <1>12 DEF Assess, ComplianceInv, MatchingInv
  <2> QED BY <1>12, <2>1, AssessEffect, AssessKeeps
<1>13. ASSUME NEW t \in Threads, Store(t) \/ Matched(t) \/ Fail(t)
       PROVE  TypesInv' /\ ComplianceInv'
  BY <1>13, StoreEffect, StoreKeeps, MatchedEffect, MatchedKeeps, FailEffect, FailKeeps
<1> QED BY <1>1, <1>2, <1>3, <1>4, <1>5, <1>6, <1>7, <1>8, <1>9, <1>10, <1>11,
           <1>12, <1>13 DEF ComplianceNext

LEMMA ComplianceStutters ==
    ASSUME TypesInv, ComplianceInv, UNCHANGED complianceVars
    PROVE  TypesInv' /\ ComplianceInv'
<1>1. UNCHANGED <<assessments, feedback, reviews, findings, dependencies,
                  exposures, pc, work, matched, disturbed, due>>
  BY DEF complianceVars, matchTables, reviewTables, history
<1>2. TypesInv'
  BY <1>1 DEF TypesInv, ComplianceTypeOK
<1>3. ComplianceInv'
  <2>1. \A t \in Threads : MatchingInv(t)'
    BY <1>1 DEF ComplianceInv, MatchingInv, Grounded
  <2>2. \A q \in Requests : OwnerInv(q)' /\ CoverageInv(q)'
    BY <1>1 DEF ComplianceInv, OwnerInv, CoverageInv, Coming
  <2>3. SoleOwner'
    BY <1>1 DEF ComplianceInv, SoleOwner
  <2>4. \A k \in Keys : ReviewInv(k)'
    BY <1>1 DEF ComplianceInv, ReviewInv, Finished, Covered, Grounded
  <2>5. EvidenceInv'
    BY <1>1, EvidenceStays
  <2>6. \A c \in Clauses, d \in Documents :
          assessments'[c][d] # "none" => Grounded(c, d, assessments[c][d])'
    BY <1>1 DEF ComplianceInv, Grounded
  <2> QED BY <2>1, <2>2, <2>3, <2>4, <2>5, <2>6 DEF ComplianceInv
<1> QED BY <1>2, <1>3

(* The inductive invariant: whoever reviews, matches, fails or comments.   *)
THEOREM ComplianceInvariant == ComplianceSpec => [](TypesInv /\ ComplianceInv)
<1>1. TypesInv /\ ComplianceInv /\ [ComplianceNext]_complianceVars
        => (TypesInv /\ ComplianceInv)'
  BY ComplianceStepKeeps, ComplianceStutters
<1> QED BY ComplianceStarts, <1>1, PTL DEF ComplianceSpec

(* The tables and the threads' memory have the types the code gives them.  *)
THEOREM ComplianceTypeCorrect == ComplianceSpec => []ComplianceTypeOK
<1>1. TypesInv => ComplianceTypeOK
  BY DEF TypesInv
<1> QED BY <1>1, ComplianceInvariant, PTL

(* An assessment, and a review's finding on a requirement, say what the    *)
(* texts give or what a reviewer put in its place for the same evidence,   *)
(* although both outlive the moment the feedback was looked up.            *)
THEOREM StatusGrounded == ComplianceSpec => []StatusIsGrounded
<1>1. ComplianceInv => StatusIsGrounded
  BY DEF ComplianceInv, ReviewInv, Grounded, StatusIsGrounded
<1> QED BY <1>1, ComplianceInvariant, PTL

(* A finished review has a finding on every requirement, of each version   *)
(* that was applicable when it read the latest finished scan, that its     *)
(* document says something about - although scans delete the assessments   *)
(* it is computed from.                                                    *)
THEOREM ReviewCovers == ComplianceSpec => []ReviewCoversVersion
<1>1. ComplianceInv => ReviewCoversVersion
  <2> SUFFICES ASSUME ComplianceInv, NEW k \in Keys, Finished(k),
                      NEW r \in due[k], NEW c \in Clauses, c \in ClausesOf(r),
                      Verdict[c][reviews[k].document] # "none"
               PROVE  \E g \in findings[k] : g.about = c
    BY DEF ReviewCoversVersion
  <2> QED BY DEF ComplianceInv, ReviewInv, Covered
<1> QED BY <1>1, ComplianceInvariant, PTL

(* Matchings that delete each other's assessments lose none: what one      *)
(* deletes, it or another that overlaps it writes again, unless one fails. *)
THEOREM EvidenceKept == ComplianceSpec => []MatchingsKeepEvidence
<1>1. ComplianceInv => MatchingsKeepEvidence
  BY DEF ComplianceInv, EvidenceInv, Kept, MatchingsKeepEvidence
<1> QED BY <1>1, ComplianceInvariant, PTL

-----------------------------------------------------------------------------
(* The totals of a set of findings.                                        *)

Counted(F) == {f \in F : f.status \in Scored}

Weighted(F) == MapThenSumSet(LAMBDA f : f.weight * Factor(f.status), Counted(F))
Assessed(F) == MapThenSumSet(LAMBDA f : f.weight, Counted(F))

LEMMA WeightedIsSum ==
    ASSUME NEW F, NEW v, v = [f \in Counted(F) |-> f.weight * Factor(f.status)],
           \E g : SumsUp(g, v, Counted(F))
    PROVE  \E g : SumsUp(g, v, Counted(F)) /\ Weighted(F) = g[Counted(F)]
<1> DEFINE S == Counted(F)
           up(g) == g = [s \in SUBSET S |-> IF s = {} THEN 0
                          ELSE (CHOOSE x \in s : TRUE).weight
                                 * Factor((CHOOSE x \in s : TRUE).status)
                               + g[s \ {CHOOSE x \in s : TRUE}]]
<1>1. ASSUME NEW g PROVE up(g) <=> SumsUp(g, v, S)
  <2>1. \A s \in SUBSET S : s # {} =>
          /\ (CHOOSE x \in s : TRUE) \in S
          /\ v[CHOOSE x \in s : TRUE] = (CHOOSE x \in s : TRUE).weight
                                          * Factor((CHOOSE x \in s : TRUE).status)
    OBVIOUS
  <2> DEFINE one(s) == IF s = {} THEN 0
                    ELSE (CHOOSE x \in s : TRUE).weight * Factor((CHOOSE x \in s : TRUE).status)
                         + g[s \ {CHOOSE x \in s : TRUE}]
             two(s) == IF s = {} THEN 0 ELSE v[Pick(s)] + g[s \ {Pick(s)}]
  <2>2. \A s \in SUBSET S : one(s) = two(s)
    BY <2>1 DEF Pick
  <2>3. (g = [s \in SUBSET S |-> one(s)]) <=> (g = [s \in SUBSET S |-> two(s)])
    <3> HIDE DEF one, two
    <3> QED BY <2>2
  <2> QED BY <2>3 DEF SumsUp
<1>2. \E g : up(g)
  <2> HIDE DEF up
  <2> QED BY <1>1
<1>3. \E g : up(g) /\ Weighted(F) = g[S]
  <2> HIDE DEF S
  <2> SUFFICES \E g : up(g) /\ MapThenSumSet(LAMBDA f : f.weight * Factor(f.status), S) = g[S]
    BY DEF Weighted, S
  <2> QED BY <1>2 DEF MapThenSumSet, MapThenFoldSet
<1> HIDE DEF up
<1> QED BY <1>1, <1>3

LEMMA AssessedIsSum ==
    ASSUME NEW F, NEW v, v = [f \in Counted(F) |-> f.weight],
           \E g : SumsUp(g, v, Counted(F))
    PROVE  \E g : SumsUp(g, v, Counted(F)) /\ Assessed(F) = g[Counted(F)]
<1> DEFINE S == Counted(F)
           up(g) == g = [s \in SUBSET S |-> IF s = {} THEN 0
                          ELSE (CHOOSE x \in s : TRUE).weight
                               + g[s \ {CHOOSE x \in s : TRUE}]]
<1>1. ASSUME NEW g PROVE up(g) <=> SumsUp(g, v, S)
  <2>1. \A s \in SUBSET S : s # {} =>
          /\ (CHOOSE x \in s : TRUE) \in S
          /\ v[CHOOSE x \in s : TRUE] = (CHOOSE x \in s : TRUE).weight
    OBVIOUS
  <2> DEFINE one(s) == IF s = {} THEN 0
                    ELSE (CHOOSE x \in s : TRUE).weight + g[s \ {CHOOSE x \in s : TRUE}]
             two(s) == IF s = {} THEN 0 ELSE v[Pick(s)] + g[s \ {Pick(s)}]
  <2>2. \A s \in SUBSET S : one(s) = two(s)
    BY <2>1 DEF Pick
  <2>3. (g = [s \in SUBSET S |-> one(s)]) <=> (g = [s \in SUBSET S |-> two(s)])
    <3> HIDE DEF one, two
    <3> QED BY <2>2
  <2> QED BY <2>3 DEF SumsUp
<1>2. \E g : up(g)
  <2> HIDE DEF up
  <2> QED BY <1>1
<1>3. \E g : up(g) /\ Assessed(F) = g[S]
  <2> HIDE DEF S
  <2> SUFFICES \E g : up(g) /\ MapThenSumSet(LAMBDA f : f.weight, S) = g[S]
    BY DEF Assessed, S
  <2> QED BY <1>2 DEF MapThenSumSet, MapThenFoldSet
<1> HIDE DEF up
<1> QED BY <1>1, <1>3

(* A finding adds what it weighs, if its status counts.                    *)
LEMMA ScoredCounts ==
    ASSUME NEW f \in Finding
    PROVE  /\ f.weight \in Nat /\ f.weight * Factor(f.status) \in Nat
           /\ f.status \notin Scored => f.weight * Factor(f.status) = 0
<1>1. f.weight \in {2, 3}
  BY DEF Finding
<1>2. Factor(f.status) \in {0, 1, 2}
  BY FactorIsNatural
<1>3. f.status \notin Scored => Factor(f.status) = 0
  BY DEF Factor, Scored
<1> QED BY <1>1, <1>2, <1>3

LEMMA CountedOf ==
    ASSUME NEW F, IsFiniteSet(F), NEW f
    PROVE  /\ IsFiniteSet(Counted(F)) /\ Counted(F) \subseteq F
           /\ Counted(F \cup {f}) = IF f.status \in Scored THEN Counted(F) \cup {f}
                                    ELSE Counted(F)
<1>1. Counted(F) \subseteq F
  BY DEF Counted
<1>2. Counted(F \cup {f}) = IF f.status \in Scored THEN Counted(F) \cup {f}
                            ELSE Counted(F)
  BY DEF Counted
<1> QED BY <1>1, <1>2, FS_Subset

LEMMA NothingWeighs ==
    Weighted({}) = 0 /\ Assessed({}) = 0
<1>1. Counted({}) = {} /\ IsFiniteSet({}) /\ {} \in SUBSET {}
  BY FS_EmptySet DEF Counted
<1> DEFINE v == [f \in Counted({}) |-> f.weight * Factor(f.status)]
           u == [f \in Counted({}) |-> f.weight]
<1>2. v \in [Counted({}) -> Nat] /\ u \in [Counted({}) -> Nat]
  BY <1>1
<1>3. PICK g : SumsUp(g, v, Counted({})) /\ Weighted({}) = g[Counted({})]
  <2> HIDE DEF v
  <2>1. \E g : SumsUp(g, v, Counted({}))
    BY <1>1, <1>2, SumsExist
  <2> QED BY <2>1, WeightedIsSum DEF v
<1>4. PICK h : SumsUp(h, u, Counted({})) /\ Assessed({}) = h[Counted({})]
  <2> HIDE DEF u
  <2>1. \E k : SumsUp(k, u, Counted({}))
    BY <1>1, <1>2, SumsExist
  <2> QED BY <2>1, AssessedIsSum DEF u
<1> HIDE DEF v, u
<1> QED BY <1>1, <1>2, <1>3, <1>4, SumsAdd

LEMMA FindingAdds ==
    ASSUME NEW F \in SUBSET Finding, IsFiniteSet(F), NEW f \in Finding, f \notin F
    PROVE  /\ Weighted(F \cup {f}) = Weighted(F) + f.weight * Factor(f.status)
           /\ Assessed(F \cup {f}) = Assessed(F)
                                     + IF f.status \in Scored THEN f.weight ELSE 0
           /\ Weighted(F) \in Nat /\ Assessed(F) \in Nat
<1> DEFINE S == Counted(F)
           T == Counted(F \cup {f})
           vS == [x \in S |-> x.weight * Factor(x.status)]
           vT == [x \in T |-> x.weight * Factor(x.status)]
           uS == [x \in S |-> x.weight]
           uT == [x \in T |-> x.weight]
<1>1. /\ IsFiniteSet(S) /\ S \subseteq F
      /\ T = IF f.status \in Scored THEN S \cup {f} ELSE S
  BY CountedOf
<1>2. f \notin S /\ IsFiniteSet(T) /\ S \in SUBSET T /\ T \subseteq Finding
  <2> HIDE DEF S, T
  <2>1. f \notin S /\ S \in SUBSET T /\ T \subseteq Finding
    BY <1>1
  <2>2. IsFiniteSet(S \cup {f})
    BY <1>1, FS_AddElement
  <2> QED BY <1>1, <2>1, <2>2
<1>3. \A x \in T : x.weight \in Nat /\ x.weight * Factor(x.status) \in Nat
  BY <1>2, ScoredCounts
<1>4. /\ vS \in [S -> Nat] /\ vT \in [T -> Nat]
      /\ uS \in [S -> Nat] /\ uT \in [T -> Nat]
      /\ \A x \in S : vT[x] = vS[x] /\ uT[x] = uS[x]
      /\ f \in T => vT[f] = f.weight * Factor(f.status) /\ uT[f] = f.weight
  BY <1>2, <1>3
<1>5. /\ \E g : SumsUp(g, vS, S) /\ Weighted(F) = g[S]
      /\ \E g : SumsUp(g, vT, T) /\ Weighted(F \cup {f}) = g[T]
      /\ \E g : SumsUp(g, uS, S) /\ Assessed(F) = g[S]
      /\ \E g : SumsUp(g, uT, T) /\ Assessed(F \cup {f}) = g[T]
  <2>1. /\ (\E g : SumsUp(g, vS, S)) /\ (\E g : SumsUp(g, vT, T))
        /\ (\E g : SumsUp(g, uS, S)) /\ (\E g : SumsUp(g, uT, T))
    <3> HIDE DEF S, T, vS, vT, uS, uT
    <3> QED BY <1>1, <1>2, <1>4, SumsExist
  <2>2. /\ \E g : SumsUp(g, vS, S) /\ Weighted(F) = g[S]
        /\ \E g : SumsUp(g, uS, S) /\ Assessed(F) = g[S]
    BY <2>1, WeightedIsSum, AssessedIsSum
  <2>3. /\ \E g : SumsUp(g, vT, T) /\ Weighted(F \cup {f}) = g[T]
        /\ \E g : SumsUp(g, uT, T) /\ Assessed(F \cup {f}) = g[T]
    BY <2>1, WeightedIsSum, AssessedIsSum
  <2> QED BY <2>2, <2>3
<1> HIDE DEF S, T, vS, vT, uS, uT
<1>6. /\ Weighted(F) \in Nat
      /\ Weighted(F \cup {f}) = Weighted(F) + f.weight * Factor(f.status)
  <2>1. PICK g : SumsUp(g, vS, S) /\ Weighted(F) = g[S]
    BY <1>5
  <2>2. PICK h : SumsUp(h, vT, T) /\ Weighted(F \cup {f}) = h[T]
    BY <1>5
  <2>3. h[S] = g[S] /\ h[S] \in Nat
    BY <1>2, <1>4, <2>1, <2>2, SumsAgree, SumsAdd
  <2>4. f.status \in Scored => h[T] = vT[f] + h[S]
    BY <1>1, <1>2, <1>4, <2>2, SumsAdd
  <2>5. CASE f.status \in Scored
    BY <1>1, <1>3, <1>4, <2>1, <2>2, <2>3, <2>4, <2>5
  <2>6. CASE f.status \notin Scored
    BY <1>1, <2>1, <2>2, <2>3, <2>6, ScoredCounts
  <2> QED BY <2>1, <2>3, <2>5, <2>6
<1>7. /\ Assessed(F) \in Nat
      /\ Assessed(F \cup {f}) = Assessed(F) + IF f.status \in Scored THEN f.weight ELSE 0
  <2>1. PICK g : SumsUp(g, uS, S) /\ Assessed(F) = g[S]
    BY <1>5
  <2>2. PICK h : SumsUp(h, uT, T) /\ Assessed(F \cup {f}) = h[T]
    BY <1>5
  <2>3. h[S] = g[S] /\ h[S] \in Nat
    BY <1>2, <1>4, <2>1, <2>2, SumsAgree, SumsAdd
  <2>4. f.status \in Scored => h[T] = uT[f] + h[S]
    BY <1>1, <1>2, <1>4, <2>2, SumsAdd
  <2>5. CASE f.status \in Scored
    BY <1>1, <1>3, <1>4, <2>1, <2>2, <2>3, <2>4, <2>5
  <2>6. CASE f.status \notin Scored
    BY <1>1, <2>1, <2>2, <2>3, <2>6
  <2> QED BY <2>1, <2>3, <2>5, <2>6
<1> QED BY <1>6, <1>7

-----------------------------------------------------------------------------
(* The inductive invariant: what a request has added up so far is what it  *)
(* has found, one finding on each subject, and the changes it still has to *)
(* look at have none.                                                      *)

Tally(w) ==
    /\ IsFiniteSet(w.found)
    /\ w.weighted = Weighted(w.found) /\ w.assessed = Assessed(w.found)
    /\ \A f, g \in w.found : f.about = g.about => f = g

(* The impact graph knows the superseded references among the findings.    *)
Referenced(found, d) ==
    \A f \in found : f.about \in Changes /\ f.status = "non_compliant" =>
        <<f.about, d>> \in dependencies

TallyInv(q) ==
    pc[q] \in Reviewing \cup {"insert"} =>
        /\ Tally(work[q]) /\ Referenced(work[q].found, work[q].document)
        /\ pc[q] \in {"insert", "changes"} => work[q].found = {}
        /\ pc[q] = "cite" =>
             \A f \in work[q].found : f.about \in Changes \ work[q].changes

AddsUp(k) ==
    /\ reviews[k].weighted = Weighted(findings[k])
    /\ reviews[k].assessed = Assessed(findings[k])
    /\ (reviews[k].status = "needs_review") = (findings[k] = {})
    /\ reviews[k].warning = (\E f \in findings[k] : f.status = "non_compliant")
    /\ \A f, g \in findings[k] : f.about = g.about => f = g
    /\ Referenced(findings[k], reviews[k].document)

TotalsInv ==
    /\ \A q \in Requests : TallyInv(q)
    /\ \A k \in Keys : Finished(k) => AddsUp(k)

LEMMA TotalsAddUp == TotalsInv => ReviewAddsUp
BY DEF TotalsInv, AddsUp, ReviewAddsUp, Total, Weighted, Assessed, Counted, Referenced

-----------------------------------------------------------------------------
(* Steps.  References are only added, and a step changes one thread.       *)

LEMMA TotalsKept ==
    ASSUME TypesInv, TotalsInv, NEW t \in Threads, Only(t),
           dependencies \subseteq dependencies',
           t \in Requests => TallyInv(t)',
           \A k \in Keys : \/ reviews'[k] = reviews[k] /\ findings'[k] = findings[k]
                           \/ Finished(k)' => AddsUp(k)'
    PROVE  TotalsInv'
<1>1. ASSUME NEW q \in Requests PROVE TallyInv(q)'
  <2>1. CASE q = t
    BY <2>1
  <2>2. CASE q # t
    <3>1. pc'[q] = pc[q] /\ work'[q] = work[q] /\ TallyInv(q)
      BY <2>2 DEF Only, Threads, TotalsInv
    <3> QED BY <3>1 DEF TallyInv, Tally, Referenced
  <2> QED BY <2>1, <2>2
<1>2. ASSUME NEW k \in Keys, Finished(k)' PROVE AddsUp(k)'
  <2>1. CASE reviews'[k] = reviews[k] /\ findings'[k] = findings[k]
    <3>1. AddsUp(k)
      BY <1>2, <2>1 DEF TotalsInv, Finished
    <3> QED BY <2>1, <3>1 DEF AddsUp, Referenced
  <2> QED BY <1>2, <2>1
<1> QED BY <1>1, <1>2 DEF TotalsInv

(* A step that neither finds nor finishes anything: the thread goes on with*)
(* what it has, or ends.                                                   *)
LEMMA NothingCounted ==
    ASSUME TypesInv, TotalsInv, NEW t \in Threads, Only(t),
           UNCHANGED <<reviews, findings, dependencies>>,
           \/ pc'[t] \in {"idle", "expose"}
           \/ /\ pc[t] \in Reviewing
              /\ pc'[t] \in Reviewing \ {"changes", "cite"}
              /\ work'[t].found = work[t].found /\ work'[t].document = work[t].document
              /\ work'[t].weighted = work[t].weighted
              /\ work'[t].assessed = work[t].assessed
    PROVE  TotalsInv'
<1>1. ASSUME t \in Requests PROVE TallyInv(t)'
  <2>1. CASE pc'[t] \in {"idle", "expose"}
    BY <2>1 DEF TallyInv, Reviewing
  <2>2. CASE pc'[t] \notin {"idle", "expose"}
    <3>1. TallyInv(t)
      BY <1>1 DEF TotalsInv
    <3>2. /\ Tally(work'[t]) /\ Referenced(work[t].found, work[t].document)
          /\ pc'[t] \in Reviewing \ {"changes", "cite"}
          /\ work'[t].found = work[t].found /\ work'[t].document = work[t].document
      BY <2>2, <3>1 DEF TallyInv, Tally
    <3> QED BY <3>2 DEF TallyInv, Tally, Referenced, Reviewing
  <2> QED BY <2>1, <2>2
<1> QED BY <1>1, TotalsKept

LEMMA PostCounts ==
    ASSUME TypesInv, TotalsInv, NEW q \in Requests, NEW k \in Keys,
           NEW d \in Documents, Post(q, k, d)
    PROVE  TotalsInv'
<1>1. q \in Threads /\ Goes(q, "insert", k, d)
      /\ UNCHANGED <<reviews, findings, dependencies>>
  BY PostEffect DEF Threads, Post, reviewTables
<1>2. /\ work'[q].found = {} /\ work'[q].weighted = 0 /\ work'[q].assessed = 0
      /\ pc'[q] = "insert" /\ Only(q)
  <2>1. work' = [work EXCEPT ![q] = [Idle EXCEPT !.key = k, !.document = d]]
    BY DEF Post
  <2>2. work \in [Threads -> Work]
    BY DEF TypesInv
  <2>3. work'[q] = [Idle EXCEPT !.key = k, !.document = d]
    BY <1>1, <2>1, <2>2
  <2> QED BY <1>1, <2>3 DEF Goes, Idle
<1>3. IsFiniteSet({})
  BY FS_EmptySet
<1>4. TallyInv(q)'
  BY <1>2, <1>3, NothingWeighs DEF TallyInv, Tally, Referenced
<1> QED BY <1>1, <1>2, <1>4, TotalsKept

(* The new row is running, and a key that had one is left alone.           *)
LEMMA InsertCounts ==
    ASSUME TypesInv, ComplianceInv, TotalsInv, NEW q \in Requests, InsertReview(q)
    PROVE  TotalsInv'
<1>1. /\ q \in Threads /\ pc[q] = "insert" /\ UNCHANGED <<findings, dependencies>>
  BY DEF InsertReview, Threads
<1>2. work[q].key \in Keys /\ work[q].document \in Documents
  BY <1>1, KnowsReview
<1>3. CASE Goes(q, "idle", "none", "none") /\ UNCHANGED reviews
  BY <1>1, <1>3, NothingCounted DEF Goes
<1>4. CASE /\ Goes(q, "changes", work[q].key, work[q].document)
           /\ reviews[work[q].key].status = "absent"
           /\ reviews'[work[q].key].status = "running"
           /\ \A k \in Keys : k # work[q].key => reviews'[k] = reviews[k]
  <2>1. UNCHANGED work
    BY <1>4 DEF InsertReview
  <2>2. TallyInv(q) /\ Only(q) /\ pc'[q] = "changes"
    BY <1>4 DEF TotalsInv, Goes
  <2>3. TallyInv(q)'
    BY <1>1, <2>1, <2>2 DEF TallyInv, Tally, Referenced
  <2>4. \A k \in Keys : \/ reviews'[k] = reviews[k] /\ findings'[k] = findings[k]
                        \/ ~ Finished(k)'
    BY <1>1, <1>4 DEF Finished
  <2> QED BY <1>1, <2>2, <2>3, <2>4, TotalsKept
<1> QED BY <1>2, <1>3, <1>4, InsertEffect

LEMMA ReadChangesCounts ==
    ASSUME TypesInv, TotalsInv, NEW q \in Requests, NEW active \in SUBSET Changes,
           ReadChanges(q, active)
    PROVE  TotalsInv'
<1>1. /\ q \in Threads /\ pc[q] = "changes"
      /\ UNCHANGED <<reviews, findings, dependencies>>
  BY DEF ReadChanges, Threads, reviewTables
<1>2. Goes(q, "cite", work[q].key, work[q].document) /\ work'[q].found = work[q].found
  BY ReadChangesEffect DEF HoldsSame, Holds
<1>3. work'[q].weighted = work[q].weighted /\ work'[q].assessed = work[q].assessed
  BY <1>1 DEF ReadChanges, TypesInv, Work
<1>4. TallyInv(q) /\ Only(q) /\ pc'[q] = "cite" /\ work'[q].document = work[q].document
  BY <1>2 DEF TotalsInv, Goes
<1>5. TallyInv(q)'
  BY <1>1, <1>2, <1>3, <1>4 DEF TallyInv, Tally, Referenced, Reviewing
<1> QED BY <1>1, <1>4, <1>5, TotalsKept

LEMMA ReadScanCounts ==
    ASSUME TypesInv, TotalsInv, NEW q \in Requests,
           NEW applicable \in SUBSET Regulations, ReadScan(q, applicable)
    PROVE  TotalsInv'
<1>1. /\ q \in Threads /\ pc[q] = "cite"
      /\ UNCHANGED <<reviews, findings, dependencies>>
  BY DEF ReadScan, Threads, reviewTables
<1>2. /\ Goes(q, "version", work[q].key, work[q].document)
      /\ Holds(q, applicable, work[q].matching, work[q].left, work[q].pending,
               work[q].stored, work[q].found)
  BY ReadScanEffect
<1>3. work'[q].weighted = work[q].weighted /\ work'[q].assessed = work[q].assessed
  BY <1>1 DEF ReadScan, TypesInv, Work
<1> QED BY <1>1, <1>2, <1>3, NothingCounted DEF Goes, Holds, Reviewing

(* The request's key has been running since its row was inserted, so what  *)
(* it finds is not part of a finished review.                              *)
LEMMA OwnKeyRuns ==
    ASSUME ComplianceInv, NEW q \in Requests, pc[q] \in Reviewing
    PROVE  /\ reviews[work[q].key].status = "running"
           /\ reviews[work[q].key].document = work[q].document
           /\ findings[work[q].key] = work[q].found
           /\ work[q].key \in Keys /\ work[q].document \in Documents
BY DEF ComplianceInv, OwnerInv, Reviewing

(* What a finding adds to the sums is what it adds to the totals.          *)
LEMMA TallyGrows ==
    ASSUME NEW w \in Work, Tally(w), NEW f \in Finding,
           \A g \in w.found : g.about # f.about,
           NEW v, v.found = w.found \cup {f},
           v.weighted = w.weighted + f.weight * Factor(f.status),
           v.assessed = w.assessed + IF f.status \in Scored THEN f.weight ELSE 0
    PROVE  Tally(v)
<1>1. f \notin w.found /\ w.found \in SUBSET Finding
  BY DEF Work
<1>2. IsFiniteSet(w.found \cup {f})
  BY FS_AddElement DEF Tally
<1>3. /\ Weighted(w.found \cup {f}) = Weighted(w.found) + f.weight * Factor(f.status)
      /\ Assessed(w.found \cup {f}) = Assessed(w.found)
                                      + IF f.status \in Scored THEN f.weight ELSE 0
  BY <1>1, FindingAdds DEF Tally
<1> QED BY <1>2, <1>3 DEF Tally

LEMMA CiteCounts ==
    ASSUME TypesInv, ComplianceInv, TotalsInv, NEW q \in Requests, NEW ch \in Changes,
           CiteChange(q, ch)
    PROVE  TotalsInv'
<1> DEFINE d == work[q].document
           cited == Citation[ch][d]
           f == [about |-> ch, weight |-> IF ch \in Heavy THEN 3 ELSE 2,
                 status |-> CASE cited = "superseded" -> "non_compliant"
                              [] cited = "current" -> "compliant"
                              [] OTHER -> "partially_compliant"]
<1>1. /\ q \in Threads /\ pc[q] = "cite" /\ ch \in work[q].changes
      /\ findings' = [findings EXCEPT ![work[q].key] = @ \cup {f}]
      /\ dependencies' = IF cited = "superseded" THEN dependencies \cup {<<ch, d>>}
                         ELSE dependencies
      /\ UNCHANGED <<reviews, pc>>
  BY DEF CiteChange, Threads
<1>2. /\ reviews[work[q].key].status = "running"
      /\ work[q].key \in Keys /\ d \in Documents
  BY <1>1, OwnKeyRuns DEF Reviewing
<1>3. /\ f \in Finding /\ f.about = ch /\ f.status \in Scored
      /\ f.status = "non_compliant" => cited = "superseded"
  BY DEF Finding, Status, Scored
<1>4. work[q] \in Work /\ work \in [Threads -> Work]
  BY <1>1 DEF TypesInv
<1>5. /\ work'[q].found = work[q].found \cup {f} /\ work'[q].document = d
      /\ work'[q].changes = work[q].changes \ {ch}
      /\ work'[q].weighted = work[q].weighted + f.weight * Factor(f.status)
      /\ work'[q].assessed = work[q].assessed + f.weight
      /\ \A u \in Threads : u # q => work'[u] = work[u]
  <2>1. work' = [work EXCEPT ![q].changes = @ \ {ch}, ![q].found = @ \cup {f},
                             ![q].weighted = @ + f.weight * Factor(f.status),
                             ![q].assessed = @ + f.weight]
    BY DEF CiteChange
  <2> HIDE DEF f
  <2> QED BY <1>1, <1>4, <2>1 DEF Work
<1> HIDE DEF f
<1>6. /\ Tally(work[q]) /\ Referenced(work[q].found, d)
      /\ \A g \in work[q].found : g.about \in Changes \ work[q].changes
  BY <1>1 DEF TotalsInv, TallyInv, Reviewing
<1>7. Tally(work'[q])
  <2>1. \A g \in work[q].found : g.about # f.about
    BY <1>1, <1>3, <1>6
  <2> QED BY <1>3, <1>4, <1>5, <1>6, <2>1, TallyGrows
<1>8. \A g \in work'[q].found : g.about \in Changes /\ g.status = "non_compliant" =>
        <<g.about, d>> \in dependencies'
  BY <1>1, <1>3, <1>5, <1>6 DEF Referenced
<1>9. \A g \in work'[q].found : g.about \in Changes \ work'[q].changes
  BY <1>1, <1>3, <1>5, <1>6
<1>10. TallyInv(q)'
  BY <1>1, <1>5, <1>7, <1>8, <1>9 DEF TallyInv, Tally, Referenced, Reviewing
<1>11. \A k \in Keys : \/ reviews'[k] = reviews[k] /\ findings'[k] = findings[k]
                       \/ ~ Finished(k)'
  BY <1>1, <1>2 DEF Finished, TypesInv, ComplianceTypeOK
<1>12. Only(q) /\ dependencies \subseteq dependencies'
  BY <1>1, <1>5 DEF Only
<1> QED BY <1>1, <1>10, <1>11, <1>12, TotalsKept

(* A requirement that has a finding gets no other, and is not counted      *)
(* again.                                                                  *)
LEMMA RecordCounts ==
    ASSUME TypesInv, ComplianceInv, TotalsInv, NEW q \in Requests,
           NEW a \in work[q].stored, RecordFinding(q, a)
    PROVE  TotalsInv'
<1> DEFINE d == work[q].document
           f == [about |-> a.clause, status |-> a.status,
                 weight |-> IF a.clause \in Ratios THEN 3 ELSE 2]
           ignored == \E g \in findings[work[q].key] : g.about = f.about
<1>1. /\ q \in Threads /\ pc[q] = "record"
      /\ UNCHANGED <<reviews, pc, dependencies>>
  BY DEF RecordFinding, Threads
<1>2. /\ reviews[work[q].key].status = "running"
      /\ findings[work[q].key] = work[q].found
      /\ work[q].key \in Keys /\ d \in Documents
  BY <1>1, OwnKeyRuns DEF Reviewing
<1>3. work[q] \in Work /\ work \in [Threads -> Work] /\ a \in Assessment
  BY <1>1 DEF TypesInv, Work
<1>4. f \in Finding /\ f.about = a.clause
  BY <1>3 DEF Finding, Assessment
<1>5. /\ TallyInv(q) /\ Tally(work[q]) /\ Referenced(work[q].found, d)
  BY <1>1 DEF TotalsInv, TallyInv, Reviewing
<1>6. /\ Only(q) /\ Tally(work'[q]) /\ work'[q].document = d
      /\ Referenced(work'[q].found, d)
      /\ \A k \in Keys : k = work[q].key \/ findings'[k] = findings[k]
  <2>1. CASE ignored
    <3>1. work' = [work EXCEPT ![q].stored = @ \ {a}] /\ UNCHANGED findings
      BY <2>1 DEF RecordFinding
    <3>2. /\ work'[q].found = work[q].found /\ work'[q].document = d
          /\ work'[q].weighted = work[q].weighted
          /\ work'[q].assessed = work[q].assessed
          /\ \A u \in Threads : u # q => work'[u] = work[u]
      BY <1>1, <1>3, <3>1 DEF Work
    <3> QED BY <1>1, <1>5, <3>1, <3>2 DEF Only, Tally
  <2>2. CASE ~ ignored
    <3>1. /\ findings' = [findings EXCEPT ![work[q].key] = @ \cup {f}]
          /\ work' = [work EXCEPT ![q].stored = @ \ {a}, ![q].found = @ \cup {f},
                  ![q].weighted = @ + f.weight * Factor(f.status),
                  ![q].assessed = @ + IF f.status \in Scored THEN f.weight ELSE 0]
      BY <2>2 DEF RecordFinding
    <3> HIDE DEF f
    <3>2. /\ work'[q].found = work[q].found \cup {f} /\ work'[q].document = d
          /\ work'[q].weighted = work[q].weighted + f.weight * Factor(f.status)
          /\ work'[q].assessed = work[q].assessed
                                 + IF f.status \in Scored THEN f.weight ELSE 0
          /\ \A u \in Threads : u # q => work'[u] = work[u]
      BY <1>1, <1>3, <3>1 DEF Work
    <3>3. Tally(work'[q])
      BY <1>2, <1>3, <1>4, <1>5, <2>2, <3>2, TallyGrows
    <3>4. Referenced(work'[q].found, d)
      <4>1. f.about \notin Changes
        BY <1>3, <1>4, ChangeAssumption DEF Assessment
      <4> QED BY <1>5, <3>2, <4>1 DEF Referenced
    <3>5. \A k \in Keys : k = work[q].key \/ findings'[k] = findings[k]
      BY <1>2, <3>1 DEF TypesInv, ComplianceTypeOK
    <3> QED BY <1>1, <3>2, <3>3, <3>4, <3>5 DEF Only
  <2> QED BY <2>1, <2>2
<1>7. TallyInv(q)'
  BY <1>1, <1>6 DEF TallyInv, Tally, Referenced, Reviewing
<1>8. \A k \in Keys : \/ reviews'[k] = reviews[k] /\ findings'[k] = findings[k]
                      \/ ~ Finished(k)'
  BY <1>1, <1>2, <1>6 DEF Finished
<1> QED BY <1>1, <1>6, <1>7, <1>8, TotalsKept

(* The row takes the totals of what was found.                             *)
LEMMA FinishCounts ==
    ASSUME TypesInv, ComplianceInv, TotalsInv, NEW q \in Requests, Finish(q)
    PROVE  TotalsInv'
<1>1. /\ q \in Threads /\ pc[q] = "finish" /\ UNCHANGED <<findings, dependencies>>
  BY DEF Finish, Threads
<1>2. PICK k \in Keys : k = work[q].key
  BY <1>1, OwnKeyRuns DEF Reviewing
<1>3. findings[k] = work[q].found /\ reviews[k].document = work[q].document
  BY <1>1, <1>2, OwnKeyRuns DEF Reviewing
<1>4. /\ reviews'[k].document = reviews[k].document
      /\ \A j \in Keys : j # k => reviews'[j] = reviews[j]
      /\ Only(q) /\ pc'[q] \in {"idle", "expose"}
  BY <1>2, FinishEffect DEF Goes
<1>5. /\ reviews'[k].weighted = work[q].weighted
      /\ reviews'[k].assessed = work[q].assessed
      /\ reviews'[k].status = IF work[q].found = {} THEN "needs_review" ELSE "completed"
      /\ reviews'[k].warning = (\E f \in work[q].found : f.status = "non_compliant")
  <2> DEFINE warned == \E f \in work[q].found : f.status = "non_compliant"
  <2>1. reviews' = [reviews EXCEPT ![k] = [@ EXCEPT
            !.status = IF work[q].found = {} THEN "needs_review" ELSE "completed",
            !.weighted = work[q].weighted, !.assessed = work[q].assessed,
            !.warning = warned]]
    BY <1>2 DEF Finish
  <2> HIDE DEF warned
  <2>2. reviews \in [Keys -> Review] /\ reviews[k] \in Review
    BY DEF TypesInv, ComplianceTypeOK
  <2>3. /\ reviews'[k].weighted = work[q].weighted
        /\ reviews'[k].assessed = work[q].assessed
        /\ reviews'[k].status = IF work[q].found = {} THEN "needs_review" ELSE "completed"
        /\ reviews'[k].warning = warned
    BY <2>1, <2>2 DEF Review
  <2> QED BY <2>3 DEF warned
<1>6. Tally(work[q]) /\ Referenced(work[q].found, work[q].document)
  BY <1>1 DEF TotalsInv, TallyInv, Reviewing
<1>7. AddsUp(k)'
  <2>1. (reviews'[k].status = "needs_review") = (work[q].found = {})
    BY <1>5
  <2>2. Referenced(findings[k], reviews[k].document)'
    BY <1>1, <1>3, <1>4, <1>6 DEF Referenced
  <2> QED BY <1>1, <1>3, <1>4, <1>5, <1>6, <2>1, <2>2 DEF AddsUp, Tally
<1>8. TallyInv(q)'
  BY <1>4 DEF TallyInv, Reviewing
<1> QED BY <1>1, <1>2, <1>4, <1>7, <1>8, TotalsKept

(* A matching is not about totals, and a thread that ends leaves none.     *)
LEMMA MatchingCounts ==
    ASSUME TypesInv, ComplianceInv, TotalsInv, NEW t \in Threads,
           \/ \E r \in Regulations : Clear(t, r)
           \/ \E c \in Clauses, d \in Documents : Assess(t, c, d)
           \/ Store(t)
           \/ Matched(t)
    PROVE  TotalsInv'
<1>1. /\ pc[t] \in {"version", "match"} /\ work \in [Threads -> Work]
      /\ UNCHANGED <<reviews, findings, dependencies>>
  BY DEF Clear, Assess, Store, Matched, reviewTables, TypesInv
<1>2. pc[t] # "idle" /\ pc[t] \in Reviewing
  BY <1>1 DEF Reviewing
<1>3. t \in Requests => work[t].document \in Documents
  BY <1>2, KnowsReview
<1>4. /\ Only(t)
      /\ pc'[t] # "idle" => /\ pc'[t] \in {"match", "record"}
                            /\ work'[t].found = work[t].found
                            /\ work'[t].document = work[t].document
                            /\ work'[t].weighted = work[t].weighted
                            /\ work'[t].assessed = work[t].assessed
  <2>1. CASE \E r \in Regulations : Clear(t, r)
    <3>1. Only(t) /\ pc'[t] = "match"
      BY <1>3, <2>1, ClearEffect DEF Goes
    <3>2. /\ work'[t].found = work[t].found /\ work'[t].document = work[t].document
          /\ work'[t].weighted = work[t].weighted
          /\ work'[t].assessed = work[t].assessed
      <4>1. PICK r, pairs : work' = [work EXCEPT ![t].regulations = @ \ {r},
                                       ![t].matching = ClausesOf(r), ![t].left = pairs]
        BY <2>1 DEF Clear
      <4> QED BY <1>1, <4>1 DEF Work
    <3> QED BY <3>1, <3>2
  <2>2. CASE \E c \in Clauses, d \in Documents : Assess(t, c, d)
    <3>1. PICK c \in Clauses, d \in Documents : Assess(t, c, d)
      BY <2>2
    <3>2. Verdict[c][d] # "none"
      BY <3>1 DEF Assess, ComplianceInv, MatchingInv
    <3>3. Only(t) /\ pc'[t] = "match"
      BY <3>1, <3>2, AssessEffect DEF Goes
    <3>4. /\ work'[t].found = work[t].found /\ work'[t].document = work[t].document
          /\ work'[t].weighted = work[t].weighted
          /\ work'[t].assessed = work[t].assessed
      BY <1>1, <3>1 DEF Assess, Work
    <3> QED BY <3>3, <3>4
  <2>3. CASE Store(t)
    <3>1. Only(t) /\ pc'[t] = "match"
      BY <2>3, StoreEffect DEF Goes
    <3>2. /\ work'[t].found = work[t].found /\ work'[t].document = work[t].document
          /\ work'[t].weighted = work[t].weighted
          /\ work'[t].assessed = work[t].assessed
      <4>1. PICK a : work' = [work EXCEPT ![t].pending = {}, ![t].stored = @ \cup {a}]
        BY <2>3 DEF Store
      <4> QED BY <1>1, <4>1 DEF Work
    <3> QED BY <3>1, <3>2
  <2>4. CASE Matched(t)
    <3>1. Only(t) /\ pc'[t] \in {"record", "idle"}
          /\ (t \notin Requests => pc'[t] = "idle")
      BY <2>4, MatchedEffect DEF Goes
    <3>2. t \in Requests =>
            /\ work'[t].found = work[t].found /\ work'[t].document = work[t].document
            /\ work'[t].weighted = work[t].weighted
            /\ work'[t].assessed = work[t].assessed
      BY <1>1, <2>4 DEF Matched, Work
    <3> QED BY <3>1, <3>2
  <2> QED BY <2>1, <2>2, <2>3, <2>4
<1> QED BY <1>1, <1>2, <1>4, NothingCounted DEF Reviewing

LEMMA OtherCounts ==
    ASSUME TypesInv, ComplianceInv, TotalsInv, NEW t \in Threads,
           \/ t \in Requests /\ (NextVersion(t) \/ Expose(t))
           \/ t \in Matchers /\ \E r \in Regulations : BeginMatch(t, r)
           \/ Fail(t)
    PROVE  TotalsInv'
<1>1. UNCHANGED <<reviews, findings, dependencies>>
  BY DEF NextVersion, Expose, BeginMatch, Fail, reviewTables
<1>2. CASE t \in Requests /\ NextVersion(t)
  <2>1. pc[t] \in {"record", "version"} /\ UNCHANGED work
    BY <1>2 DEF NextVersion
  <2>2. Only(t) /\ pc'[t] \in {"version", "finish"}
    BY <1>2, NextVersionEffect DEF Goes
  <2> QED BY <1>1, <2>1, <2>2, NothingCounted DEF Reviewing
<1>3. CASE t \in Requests /\ Expose(t)
  <2>1. pc[t] = "expose"
    BY <1>3 DEF Expose
  <2>2. work[t].key \in Keys
    BY <1>3, <2>1, KnowsReview
  <2>3. Only(t) /\ pc'[t] = "idle"
    BY <1>3, <2>2, ExposeEffect DEF Goes
  <2> QED BY <1>1, <2>3, NothingCounted
<1>4. CASE t \in Matchers /\ \E r \in Regulations : BeginMatch(t, r)
  <2>1. Only(t) /\ t \notin Requests
    BY <1>4, BeginMatchEffect, ThreadAssumption DEF Goes
  <2> QED BY <1>1, <2>1, TotalsKept
<1>5. CASE Fail(t)
  <2>1. Only(t) /\ pc'[t] = "idle"
    BY <1>5, FailEffect DEF Goes
  <2> QED BY <1>1, <2>1, NothingCounted
<1> QED BY <1>2, <1>3, <1>4, <1>5

LEMMA TotalsStay ==
    ASSUME TotalsInv, UNCHANGED <<reviews, findings, dependencies, pc, work>>
    PROVE  TotalsInv'
<1>1. \A q \in Requests : TallyInv(q)'
  BY DEF TotalsInv, TallyInv, Tally, Referenced
<1>2. \A k \in Keys : Finished(k)' => AddsUp(k)'
  BY DEF TotalsInv, Finished, AddsUp, Referenced
<1> QED BY <1>1, <1>2 DEF TotalsInv

LEMMA StepCounts ==
    ASSUME TypesInv, ComplianceInv, TotalsInv, [ComplianceNext]_complianceVars
    PROVE  TotalsInv'
<1>1. Requests \subseteq Threads /\ Matchers \subseteq Threads
  BY DEF Threads
<1>2. CASE UNCHANGED complianceVars
  BY <1>2, TotalsStay DEF complianceVars, reviewTables
<1>3. ASSUME NEW c \in Clauses, NEW d \in Documents, NEW s \in Decisions,
             GiveFeedback(c, d, s)
      PROVE  TotalsInv'
  BY <1>3, TotalsStay DEF GiveFeedback, reviewTables
<1>4. ASSUME NEW q \in Requests, NEW k \in Keys, NEW d \in Documents, Post(q, k, d)
      PROVE  TotalsInv'
  BY <1>4, PostCounts
<1>5. ASSUME NEW q \in Requests, NEW active \in SUBSET Changes, ReadChanges(q, active)
      PROVE  TotalsInv'
  BY <1>5, ReadChangesCounts
<1>6. ASSUME NEW q \in Requests, NEW ch \in Changes, CiteChange(q, ch)
      PROVE  TotalsInv'
  BY <1>6, CiteCounts
<1>7. ASSUME NEW q \in Requests, NEW applicable \in SUBSET Regulations,
             ReadScan(q, applicable)
      PROVE  TotalsInv'
  BY <1>7, ReadScanCounts
<1>8. ASSUME NEW q \in Requests, NEW a \in work[q].stored, RecordFinding(q, a)
      PROVE  TotalsInv'
  BY <1>8, RecordCounts
<1>9. ASSUME NEW q \in Requests, InsertReview(q) \/ Finish(q)
      PROVE  TotalsInv'
  BY <1>9, InsertCounts, FinishCounts
<1>10. ASSUME NEW q \in Requests, NextVersion(q) \/ Expose(q)
       PROVE  TotalsInv'
  BY <1>1, <1>10, OtherCounts
<1>11. ASSUME NEW m \in Matchers, NEW r \in Regulations, BeginMatch(m, r)
       PROVE  TotalsInv'
  BY <1>1, <1>11, OtherCounts
<1>12. ASSUME NEW t \in Threads,
              \/ \E r \in Regulations : Clear(t, r)
              \/ \E c \in Clauses, d \in Documents : Assess(t, c, d)
              \/ Store(t)
              \/ Matched(t)
       PROVE  TotalsInv'
  BY <1>12, MatchingCounts
<1>13. ASSUME NEW t \in Threads, Fail(t) PROVE TotalsInv'
  BY <1>13, OtherCounts
<1> QED BY <1>2, <1>3, <1>4, <1>5, <1>6, <1>7, <1>8, <1>9, <1>10, <1>11, <1>12,
           <1>13 DEF ComplianceNext

LEMMA TotalsStart == ComplianceInit => TotalsInv
<1> SUFFICES ASSUME ComplianceInit PROVE TotalsInv
  OBVIOUS
<1>1. \A q \in Requests : pc[q] = "idle"
  BY DEF ComplianceInit, Threads
<1>2. \A k \in Keys : ~ Finished(k)
  BY DEF ComplianceInit, Finished, NoReview
<1> QED BY <1>1, <1>2 DEF TotalsInv, TallyInv, Reviewing

(* A finished review adds up: its totals are the sums over its findings,   *)
(* each subject has one finding, status and warning follow from them, and  *)
(* the impact graph knows each superseded reference - for any number of    *)
(* requests on one key, of scans that match meanwhile, and of findings.    *)
THEOREM ReviewTotals == ComplianceSpec => []ReviewAddsUp
<1>1. TypesInv /\ ComplianceInv /\ TotalsInv /\ [ComplianceNext]_complianceVars
        => TotalsInv'
  BY StepCounts
<1>2. ComplianceSpec => []TotalsInv
  BY TotalsStart, ComplianceInvariant, <1>1, PTL DEF ComplianceSpec
<1> QED BY <1>2, TotalsAddUp, PTL

-----------------------------------------------------------------------------
(* Why reviews and matchings end.                                          *)

(* Where a thread is on its way; the places of the loop over versions share*)
(* one, and have an order within it.                                       *)
PlaceRank == [insert |-> 0, changes |-> 1, cite |-> 2, match |-> 3,
              record |-> 3, version |-> 3, finish |-> 4, expose |-> 5]
LoopRank == [match |-> 0, record |-> 1, version |-> 2]

Shorter(new, old) == new \subseteq old /\ new # old

(* A step within a place: the first of these lists that changes gets       *)
(* shorter, the places within the loop coming after the list of versions.  *)
TicksOff(old, new, from, to) ==
    \/ Shorter(new.changes, old.changes)
    \/ /\ new.changes = old.changes
       /\ \/ Shorter(new.regulations, old.regulations)
          \/ /\ new.regulations = old.regulations
             /\ \/ LoopRank[from] < LoopRank[to]
                \/ /\ from = to
                   /\ \/ Shorter(new.left, old.left)
                      \/ /\ new.left = old.left
                         /\ \/ Shorter(new.pending, old.pending)
                            \/ /\ new.pending = old.pending
                               /\ Shorter(new.stored, old.stored)

Advances(t) ==
    \/ pc'[t] = "idle"
    \/ PlaceRank[pc[t]] < PlaceRank[pc'[t]]
    \/ /\ PlaceRank[pc[t]] = PlaceRank[pc'[t]]
       /\ TicksOff(work[t], work'[t], pc[t], pc'[t])

Rests(t) == pc'[t] = pc[t] /\ work'[t] = work[t]

(* A scan's matching has its version until it clears its assessments.      *)
HasVersion(m) ==
    pc[m] = "version" => \E r \in Regulations : r \in work[m].regulations

LEMMA PlaceRanks ==
    /\ PlaceRank["insert"] = 0 /\ PlaceRank["changes"] = 1 /\ PlaceRank["cite"] = 2
    /\ PlaceRank["match"] = 3 /\ PlaceRank["record"] = 3 /\ PlaceRank["version"] = 3
    /\ PlaceRank["finish"] = 4 /\ PlaceRank["expose"] = 5
    /\ LoopRank["match"] = 0 /\ LoopRank["record"] = 1 /\ LoopRank["version"] = 2
BY DEF PlaceRank, LoopRank

(* A thread's own step: the others rest, it advances unless it was idle,   *)
(* and a matching that begins has its version.                             *)
MovesOn(t) ==
    /\ \A u \in Threads : u # t => Rests(u)
    /\ pc[t] = "idle" \/ Advances(t)
    /\ t \in Matchers => HasVersion(t)'

LEMMA ReturnMovesOn ==
    ASSUME TypesInv, NEW t \in Threads, Return(t)
    PROVE  MovesOn(t)
<1>1. Goes(t, "idle", "none", "none")
  BY Returned
<1> QED BY <1>1 DEF Goes, Only, MovesOn, Rests, Advances, HasVersion

(* A request goes to a later place.                                        *)
LEMMA PlaceStep ==
    ASSUME TypesInv, NEW q \in Requests, NEW l, Goto(q, l), l # "idle",
           NEW w, work' = [work EXCEPT ![q] = w],
           PlaceRank[pc[q]] < PlaceRank[l]
    PROVE  MovesOn(q)
<1>1. q \in Threads /\ q \notin Matchers
  BY ThreadAssumption DEF Threads
<1>2. pc'[q] = l /\ \A u \in Threads : u # q => pc'[u] = pc[u] /\ work'[u] = work[u]
  BY <1>1, ThreadMoves DEF TypesInv
<1> QED BY <1>1, <1>2 DEF MovesOn, Advances, Rests

(* A thread that stays in its place, or in its loop, has less to do.       *)
LEMMA TickStep ==
    ASSUME TypesInv, NEW t \in Threads, NEW l, NEW w,
           pc'[t] = l, \A u \in Threads : u # t => pc'[u] = pc[u],
           work' = [work EXCEPT ![t] = w],
           PlaceRank[pc[t]] = PlaceRank[l], TicksOff(work[t], w, pc[t], l),
           t \in Matchers => l # "version"
    PROVE  MovesOn(t)
<1>1. work'[t] = w /\ \A u \in Threads : u # t => work'[u] = work[u]
  BY DEF TypesInv
<1> QED BY <1>1 DEF MovesOn, Advances, Rests, HasVersion

LEMMA ReviewMovesOn ==
    ASSUME TypesInv, NEW q \in Requests,
           \/ \E k \in Keys, d \in Documents : Post(q, k, d)
           \/ InsertReview(q)
           \/ \E active \in SUBSET Changes : ReadChanges(q, active)
           \/ \E applicable \in SUBSET Regulations : ReadScan(q, applicable)
           \/ Finish(q)
           \/ Expose(q)
    PROVE  MovesOn(q)
<1>1. q \in Threads /\ q \notin Matchers /\ work \in [Threads -> Work]
  BY ThreadAssumption DEF Threads, TypesInv
<1>2. ASSUME NEW k \in Keys, NEW d \in Documents, Post(q, k, d) PROVE MovesOn(q)
  <2>1. /\ pc[q] = "idle"
        /\ \A u \in Threads : u # q => pc'[u] = pc[u] /\ work'[u] = work[u]
    BY <1>1, <1>2, ThreadMoves DEF Post
  <2> QED BY <1>1, <2>1 DEF MovesOn, Rests
<1>3. CASE Return(q)
  BY <1>1, <1>3, ReturnMovesOn
<1>4. ASSUME NEW l, Goto(q, l), l # "idle", UNCHANGED work,
             PlaceRank[pc[q]] < PlaceRank[l]
      PROVE  MovesOn(q)
  <2>1. work' = [work EXCEPT ![q] = work[q]]
    BY <1>1, <1>4
  <2> QED BY <1>4, <2>1, PlaceStep
<1>5. CASE InsertReview(q) /\ ~ Return(q)
  BY <1>4, <1>5, PlaceRanks DEF InsertReview
<1>6. CASE Finish(q) /\ ~ Return(q)
  BY <1>4, <1>6, PlaceRanks DEF Finish
<1>7. ASSUME NEW active \in SUBSET Changes, ReadChanges(q, active) PROVE MovesOn(q)
  <2> DEFINE w == [work[q] EXCEPT !.changes = active]
  <2>1. work' = [work EXCEPT ![q] = w] /\ Goto(q, "cite") /\ pc[q] = "changes"
    BY <1>7 DEF ReadChanges
  <2> HIDE DEF w
  <2>2. PlaceRank[pc[q]] < PlaceRank["cite"]
    BY <2>1, PlaceRanks
  <2> QED BY <2>1, <2>2, PlaceStep
<1>8. ASSUME NEW applicable \in SUBSET Regulations, ReadScan(q, applicable)
      PROVE  MovesOn(q)
  <2> DEFINE w == [work[q] EXCEPT !.regulations = applicable]
  <2>1. work' = [work EXCEPT ![q] = w] /\ Goto(q, "version") /\ pc[q] = "cite"
    BY <1>8 DEF ReadScan
  <2> HIDE DEF w
  <2>2. PlaceRank[pc[q]] < PlaceRank["version"]
    BY <2>1, PlaceRanks
  <2> QED BY <2>1, <2>2, PlaceStep
<1>9. CASE Expose(q)
  BY <1>3, <1>9 DEF Expose
<1> QED BY <1>2, <1>3, <1>5, <1>6, <1>7, <1>8, <1>9

LEMMA CiteMovesOn ==
    ASSUME TypesInv, NEW q \in Requests, NEW ch \in Changes, CiteChange(q, ch)
    PROVE  MovesOn(q)
<1>1. q \in Threads /\ q \notin Matchers
  BY ThreadAssumption DEF Threads
<1> DEFINE cited == Citation[ch][work[q].document]
           f == [about |-> ch, weight |-> IF ch \in Heavy THEN 3 ELSE 2,
                 status |-> CASE cited = "superseded" -> "non_compliant"
                              [] cited = "current" -> "compliant"
                              [] OTHER -> "partially_compliant"]
           more == f.weight * Factor(f.status)
           w == [work[q] EXCEPT !.changes = @ \ {ch}, !.found = @ \cup {f},
                    !.weighted = @ + more, !.assessed = @ + f.weight]
<1>3. /\ work' = [work EXCEPT ![q] = w]
      /\ pc[q] = "cite" /\ pc' = pc /\ ch \in work[q].changes
  BY DEF CiteChange
<1> HIDE DEF f, more
<1>4. w.changes = work[q].changes \ {ch}
  BY <1>1 DEF TypesInv, Work
<1>5. work' = [work EXCEPT ![q] = w]
  BY <1>3
<1> HIDE DEF w
<1>6. TicksOff(work[q], w, pc[q], pc'[q])
  BY <1>3, <1>4 DEF TicksOff, Shorter
<1> QED BY <1>1, <1>3, <1>5, <1>6, TickStep

LEMMA RecordMovesOn ==
    ASSUME TypesInv, NEW q \in Requests, NEW a \in work[q].stored, RecordFinding(q, a)
    PROVE  MovesOn(q)
<1>1. q \in Threads /\ q \notin Matchers
  BY ThreadAssumption DEF Threads
<1>2. pc[q] = "record" /\ pc' = pc
  BY DEF RecordFinding
<1> DEFINE f == [about |-> a.clause, status |-> a.status,
                 weight |-> IF a.clause \in Ratios THEN 3 ELSE 2]
           more == f.weight * Factor(f.status)
           counted == IF f.status \in Scored THEN f.weight ELSE 0
           ignored == \E g \in findings[work[q].key] : g.about = f.about
           w == [work[q] EXCEPT !.stored = @ \ {a}, !.found = @ \cup {f},
                    !.weighted = @ + more, !.assessed = @ + counted]
           v == [work[q] EXCEPT !.stored = @ \ {a}]
<1>3. work' = [work EXCEPT ![q] = v] \/ work' = [work EXCEPT ![q] = w]
  BY DEF RecordFinding
<1> HIDE DEF f, more, counted
<1>4. ASSUME NEW new \in {v, w}, work' = [work EXCEPT ![q] = new] PROVE MovesOn(q)
  <2>1. /\ new.changes = work[q].changes /\ new.regulations = work[q].regulations
        /\ new.left = work[q].left /\ new.pending = work[q].pending
        /\ new.stored = work[q].stored \ {a}
    BY <1>1, <1>4 DEF TypesInv, Work
  <2> HIDE DEF v, w
  <2>2. TicksOff(work[q], new, pc[q], pc[q])
    BY <2>1 DEF TicksOff, Shorter
  <2> QED BY <1>1, <1>2, <1>4, <2>2, TickStep
<1> HIDE DEF v, w
<1> QED BY <1>3, <1>4

LEMMA NextVersionMovesOn ==
    ASSUME TypesInv, NEW q \in Requests, NextVersion(q)
    PROVE  MovesOn(q)
<1>1. q \in Threads /\ q \notin Matchers /\ work \in [Threads -> Work]
  BY ThreadAssumption DEF Threads, TypesInv
<1>2. work' = [work EXCEPT ![q] = work[q]]
  BY <1>1 DEF NextVersion
<1>3. CASE pc[q] = "record" /\ Goto(q, "version")
  <2>1. TicksOff(work[q], work[q], "record", "version")
    BY PlaceRanks DEF TicksOff
  <2>2. pc'[q] = "version" /\ \A u \in Threads : u # q => pc'[u] = pc[u]
    BY <1>1, <1>3, ThreadMoves
  <2> QED BY <1>1, <1>2, <1>3, <2>1, <2>2, PlaceRanks, TickStep
<1>4. CASE pc[q] = "version" /\ Goto(q, "finish")
  <2>1. PlaceRank[pc[q]] < PlaceRank["finish"]
    BY <1>4, PlaceRanks
  <2> QED BY <1>2, <1>4, <2>1, PlaceStep
<1> QED BY <1>3, <1>4 DEF NextVersion

LEMMA BeginMatchMovesOn ==
    ASSUME TypesInv, NEW m \in Matchers, NEW r \in Regulations, BeginMatch(m, r)
    PROVE  MovesOn(m)
<1>1. m \in Threads /\ work \in [Threads -> Work]
  BY DEF Threads, TypesInv
<1>2. /\ pc[m] = "idle" /\ r \in work'[m].regulations
      /\ \A u \in Threads : u # m => pc'[u] = pc[u] /\ work'[u] = work[u]
  BY <1>1, ThreadMoves DEF BeginMatch, Work
<1> QED BY <1>2 DEF MovesOn, Rests, HasVersion

LEMMA MatchMovesOn ==
    ASSUME TypesInv, NEW t \in Threads,
           \/ \E r \in Regulations : Clear(t, r)
           \/ \E c \in Clauses, d \in Documents : Assess(t, c, d)
           \/ Store(t)
           \/ Matched(t)
    PROVE  MovesOn(t)
<1>1. work[t] \in Work
  BY DEF TypesInv
<1>2. ASSUME NEW r \in Regulations, Clear(t, r) PROVE MovesOn(t)
  <2> DEFINE left == {p \in ClausesOf(r) \X Scope(t) : p[2] \in Selected(p[1], Scope(t))}
             w == [work[t] EXCEPT !.regulations = @ \ {r}, !.matching = ClausesOf(r),
                                  !.left = left]
  <2>1. /\ work' = [work EXCEPT ![t] = w] /\ Goto(t, "match")
        /\ pc[t] = "version" /\ r \in work[t].regulations
    BY <1>2 DEF Clear
  <2> HIDE DEF left
  <2>2. w.changes = work[t].changes /\ w.regulations = work[t].regulations \ {r}
    BY <1>1 DEF Work
  <2> HIDE DEF w
  <2>3. TicksOff(work[t], w, "version", "match")
    BY <2>1, <2>2 DEF TicksOff, Shorter
  <2>4. pc'[t] = "match" /\ \A u \in Threads : u # t => pc'[u] = pc[u]
    BY <2>1, ThreadMoves
  <2> QED BY <2>1, <2>3, <2>4, PlaceRanks, TickStep
<1>3. ASSUME NEW c \in Clauses, NEW d \in Documents, Assess(t, c, d) PROVE MovesOn(t)
  <2> DEFINE a == [clause |-> c, document |-> d, status |-> Judged(c, d)]
             w == [work[t] EXCEPT !.left = @ \ {<<c, d>>}, !.pending = {a}]
  <2>1. /\ work' = [work EXCEPT ![t] = w] /\ pc' = pc
        /\ pc[t] = "match" /\ <<c, d>> \in work[t].left
    BY <1>3 DEF Assess
  <2> HIDE DEF a
  <2>2. /\ w.changes = work[t].changes /\ w.regulations = work[t].regulations
        /\ w.left = work[t].left \ {<<c, d>>}
    BY <1>1 DEF Work
  <2> HIDE DEF w
  <2>3. TicksOff(work[t], w, "match", "match")
    BY <2>1, <2>2 DEF TicksOff, Shorter
  <2> QED BY <2>1, <2>3, TickStep
<1>4. ASSUME Store(t) PROVE MovesOn(t)
  <2>1. PICK a \in work[t].pending :
          work' = [work EXCEPT ![t].pending = {}, ![t].stored = @ \cup {a}]
    BY <1>4 DEF Store
  <2> DEFINE w == [work[t] EXCEPT !.pending = {}, !.stored = @ \cup {a}]
  <2>2. work' = [work EXCEPT ![t] = w] /\ pc' = pc /\ pc[t] = "match"
    BY <1>4, <2>1 DEF Store
  <2>3. /\ w.changes = work[t].changes /\ w.regulations = work[t].regulations
        /\ w.left = work[t].left /\ w.pending = {}
    BY <1>1 DEF Work
  <2> HIDE DEF w
  <2>4. TicksOff(work[t], w, "match", "match")
    BY <2>3 DEF TicksOff, Shorter
  <2> QED BY <2>2, <2>4, TickStep
<1>5. CASE Matched(t) /\ Return(t)
  BY <1>5, ReturnMovesOn
<1>6. CASE Matched(t) /\ ~ Return(t)
  <2> DEFINE w == [work[t] EXCEPT !.matching = {}]
  <2>1. /\ work' = [work EXCEPT ![t] = w] /\ Goto(t, "record") /\ pc[t] = "match"
    BY <1>6 DEF Matched
  <2>2. w.changes = work[t].changes /\ w.regulations = work[t].regulations
    BY <1>1 DEF Work
  <2> HIDE DEF w
  <2>3. TicksOff(work[t], w, "match", "record")
    BY <2>2, PlaceRanks DEF TicksOff
  <2>4. pc'[t] = "record" /\ \A u \in Threads : u # t => pc'[u] = pc[u]
    BY <2>1, ThreadMoves
  <2> QED BY <2>1, <2>3, <2>4, PlaceRanks, TickStep
<1> QED BY <1>2, <1>3, <1>4, <1>5, <1>6

LEMMA ComplianceMovesOn ==
    ASSUME TypesInv, \A m \in Matchers : HasVersion(m), [ComplianceNext]_complianceVars
    PROVE  /\ \A t \in Threads : Rests(t) \/ pc[t] = "idle" \/ Advances(t)
           /\ \A m \in Matchers : HasVersion(m)'
<1> USE DEF Threads
<1>1. ASSUME NEW t \in Threads, MovesOn(t)
      PROVE  /\ \A u \in Threads : Rests(u) \/ pc[u] = "idle" \/ Advances(u)
             /\ \A m \in Matchers : HasVersion(m)'
  BY <1>1 DEF MovesOn, Rests, HasVersion
<1>2. CASE UNCHANGED <<pc, work>>
  BY <1>2 DEF Rests, HasVersion
<1>3. CASE \E c \in Clauses, d \in Documents, s \in Decisions : GiveFeedback(c, d, s)
  BY <1>2, <1>3 DEF GiveFeedback
<1>4. CASE UNCHANGED complianceVars
  BY <1>2, <1>4 DEF complianceVars
<1>5. ASSUME ComplianceNext,
             ~ \E c \in Clauses, d \in Documents, s \in Decisions : GiveFeedback(c, d, s)
      PROVE  \E t \in Threads : MovesOn(t)
  BY <1>5, ReviewMovesOn, CiteMovesOn, RecordMovesOn, NextVersionMovesOn,
     BeginMatchMovesOn, MatchMovesOn, ReturnMovesOn
  DEF ComplianceNext, Fail
<1> QED BY <1>1, <1>3, <1>4, <1>5

(* Reviews and matchings do not wait for each other and do not go round in *)
(* circles, although they clear each other's assessments: each step of a   *)
(* thread ends it, takes it to a later place, or makes the first of its    *)
(* lists that changes shorter.  The lists are of changes, versions and     *)
(* passages, so for finitely many of them a review or a matching ends.     *)
THEOREM ThreadsAdvance ==
    ComplianceSpec =>
      [][\A t \in Threads : Rests(t) \/ pc[t] = "idle" \/ Advances(t)]_complianceVars
<1> DEFINE Versions == \A m \in Matchers : HasVersion(m)
<1>1. ComplianceInit => Versions
  BY DEF ComplianceInit, HasVersion, Threads
<1>2. TypesInv /\ Versions /\ [ComplianceNext]_complianceVars =>
        /\ Versions'
        /\ [\A t \in Threads : Rests(t) \/ pc[t] = "idle" \/ Advances(t)]_complianceVars
  BY ComplianceMovesOn
<1> HIDE DEF Versions
<1> QED BY <1>1, <1>2, ComplianceInvariant, PTL DEF ComplianceSpec

(* A scan's matching never looks for a version it does not have.           *)
THEOREM MatchingsHaveVersions ==
    ComplianceSpec => [](\A m \in Matchers : HasVersion(m))
<1>1. ComplianceInit => \A m \in Matchers : HasVersion(m)
  BY DEF ComplianceInit, HasVersion, Threads
<1>2. TypesInv /\ (\A m \in Matchers : HasVersion(m)) /\ [ComplianceNext]_complianceVars
        => (\A m \in Matchers : HasVersion(m))'
  BY ComplianceMovesOn
<1> QED BY <1>1, <1>2, ComplianceInvariant, PTL DEF ComplianceSpec
=============================================================================
