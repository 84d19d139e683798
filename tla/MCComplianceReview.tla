-------------------------- MODULE MCComplianceReview --------------------------
(* Small instances of ComplianceReview for TLC.                            *)
EXTENDS ComplianceReview, TLC

CONSTANTS q1, q2, m1, k1, d1, d2, r1, r2, c1, c2, ch1

(* r1 and r2 are published with the same content, so share one version.    *)
Shared == [c \in Clauses |-> {r1, r2}]

(* c1: d1 meets the ratio by its own, d2 is related without numbers.       *)
(* c2: both are related, d2 more; d1 is the one the shortlist leaves out.  *)
Verdicts == [c \in Clauses |-> [d \in Documents |->
    IF c = c1 THEN (IF d = d1 THEN "compliant" ELSE "insufficient_evidence")
    ELSE "needs_review"]]
Exactly == [c \in Clauses |-> [d \in Documents |-> c = c1 /\ d = d1]]
Order == [c \in Clauses |-> [d \in Documents |-> IF d = d2 THEN 1 ELSE 2]]

(* The two documents say the same about c2.                                *)
Texts == [c \in Clauses |-> [d \in Documents |-> IF c = c2 THEN "same" ELSE
                                IF d = d1 THEN "first" ELSE "second"]]
Cited == [ch \in Changes |-> [d \in Documents |->
            IF d = d1 THEN "superseded" ELSE "current"]]

Symmetry == Permutations({q1, q2}) \cup Permutations({r1, r2})
=============================================================================
