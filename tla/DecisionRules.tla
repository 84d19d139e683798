--------------------------- MODULE DecisionRules ---------------------------
(* What the pipeline computes for one change: its obligation, whether it   *)
(* applies to the company, the verdict and the task (extract_obligations,  *)
(* retrieval, check_applicability, risk_rules, gap_analysis,               *)
(* generate_task).                                                         *)
(*                                                                         *)
(* A clause is [markers, topic, limit]: the modal words it holds, the      *)
(* activity it speaks of, and the limit it states, [raw, value, basis] or  *)
(* NoLimit. A company is [inScope, fact, assets]: does its text name an    *)
(* activity of the authority in the Kingdom, what does the snapshot record *)
(* of the topic (TRUE, FALSE or nothing), has it assets of the topic. An   *)
(* item of evidence is [type, matches, about, value, valid, score]:        *)
(* "matches" says how pollutant, unit and basis compare with the limit's,  *)
(* "about" is its asset and day, and a score of 0 is no word in common.    *)
EXTENDS Integers, Sequences, FiniteSets

CONSTANT MaxEvidence    \* items a retrieval returns (retrieval.py:66)

ASSUME MaxEvidenceAssumption == MaxEvidence \in Nat \ {0}

NoLimit == [raw |-> "none", value |-> 0, basis |-> FALSE]

-----------------------------------------------------------------------------
(* Obligations.                                                            *)

Modality(markers) ==
    IF "may allow" \in markers THEN "permission_option"
    ELSE IF "prohibited" \in markers THEN "prohibited"
    ELSE IF "required" \in markers THEN "required"
    ELSE IF "must" \in markers THEN "must"
    ELSE "unknown"

Operator(raw) ==
    CASE raw \in {"not exceeding", "maximum", "<="} -> "<="
      [] raw = "minimum" -> ">="
      [] OTHER -> raw

Obligated(change_type, clause) ==
    /\ change_type \notin {"editorial", "deleted"}
    /\ Modality(clause.markers) = "unknown" =>
            change_type \in {"numeric_threshold", "deadline", "scope"}

-----------------------------------------------------------------------------
(* Evidence.                                                               *)

(* What a clause with a limit, on publication or on discharge looks at;    *)
(* a measurement of another pollutant is no answer to a limit.             *)
Eligible(clause, item) ==
    /\ item.score > 0
    /\ IF clause.limit # NoLimit
       THEN item.type = "measurement" /\ item.matches # "other pollutant"
       ELSE CASE clause.topic = "publish" -> item.type = "permission"
              [] clause.topic = "marine discharge" -> item.type = "activity_record"
              [] OTHER -> TRUE

(* The best scored items, the later identifier first among equals.         *)
Retrieve(clause, evidence) ==
    LET eligible == {k \in DOMAIN evidence : Eligible(clause, evidence[k])}
        Before(j, k) == \/ evidence[j].score > evidence[k].score
                        \/ evidence[j].score = evidence[k].score /\ j > k
    IN  {evidence[k] : k \in {i \in eligible :
            Cardinality({j \in eligible : Before(j, i)}) < MaxEvidence}}

Comparable(limit, items) ==
    {m \in items : /\ m.type = "measurement"
                   /\ m.matches = "all" \/ (m.matches = "not basis" /\ ~limit.basis)}

IsGapAtLimit(limit, m) ==
    CASE Operator(limit.raw) = "<=" -> m.value >= limit.value
      [] Operator(limit.raw) = "<" -> m.value >= limit.value
      [] Operator(limit.raw) = ">=" -> m.value < limit.value
      [] Operator(limit.raw) = ">" -> m.value <= limit.value

IsGap(limit, m) ==
    CASE Operator(limit.raw) = "<=" -> m.value > limit.value
      [] Operator(limit.raw) = "<" -> m.value >= limit.value
      [] Operator(limit.raw) = ">=" -> m.value < limit.value
      [] Operator(limit.raw) = ">" -> m.value <= limit.value

Conflicting(items) == \E m, n \in items : m.about = n.about /\ m.value # n.value

CompareMeasurements(limit, items) ==
    LET measured == Comparable(limit, items)
    IN  IF measured = {} THEN "insufficient_evidence"
        ELSE IF Conflicting(measured) THEN "conflicting_evidence"
        ELSE IF \E m \in measured : IsGap(limit, m) THEN "gap"
        ELSE "supported_compliant"

-----------------------------------------------------------------------------
(* Applicability, verdict and task.                                        *)

CheckAssumingScope(authority, clause, company) ==
    IF company.fact = "false" THEN "not_applicable" ELSE "applicable"

(* NCA and SASO go by the company's activities, the other topics by the    *)
(* recorded fact; stationary sources by the assets first.                  *)
CheckApplicability(authority, clause, company) ==
    IF authority \in {"NCA", "SASO"}
    THEN IF company.inScope THEN "applicable" ELSE "needs_review"
    ELSE IF clause.topic = "stationary" /\ company.assets THEN "applicable"
    ELSE IF clause.topic = "stationary"
    THEN IF company.fact = "false" THEN "not_applicable" ELSE "unknown"
    ELSE IF clause.topic \in {"marine discharge", "publish"}
    THEN CASE company.fact = "true" -> "applicable"
           [] company.fact = "false" -> "not_applicable"
           [] OTHER -> "unknown"
    ELSE IF Modality(clause.markers) = "permission_option" THEN "applicable"
    ELSE "unknown"

AnalyzeGap(clause, applicability, items) ==
    CASE applicability = "not_applicable" -> "supported_compliant"
      [] applicability \in {"unknown", "needs_review"} -> "insufficient_evidence"
      [] applicability = "applicable" ->
            IF Modality(clause.markers) = "permission_option" THEN "supported_compliant"
            ELSE IF clause.limit # NoLimit THEN CompareMeasurements(clause.limit, items)
            ELSE IF \E i \in items : i.type = "permission" /\ i.valid
            THEN "supported_compliant"
            ELSE "insufficient_evidence"

Priority(clause, verdict) ==
    CASE verdict = "gap" -> "high"
      [] verdict = "supported_compliant" -> "low"
      [] OTHER -> "pending_review"

DueDays(verdict, priority) ==
    IF verdict # "gap" THEN 0 ELSE IF priority = "high" THEN 7 ELSE 90

(* The pipeline's chain for a change of a clause.                          *)
AssessChange(change_type, authority, clause, company, evidence) ==
    LET items == Retrieve(clause, evidence)
        applicability == CheckApplicability(authority, clause, company)
        verdict == AnalyzeGap(clause, applicability, items)
    IN  IF ~Obligated(change_type, clause)
        THEN [verdict |-> "none", due |-> 0]
        ELSE [verdict |-> verdict, due |-> DueDays(verdict, Priority(clause, verdict))]
=============================================================================
