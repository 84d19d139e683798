-------------------------- MODULE RequirementRules --------------------------
(* The verdict on one requirement of a regulation against one passage of a *)
(* company document (requirement_matching.compare_requirement).            *)
(*                                                                         *)
(* The requirement is [ratio, numbers]: one trainee per "ratio" employees, *)
(* or none (0), and the numbers it holds. The passage is [cited, terms,    *)
(* ratio, employees, trainees, numbers]: does it cite the article, do      *)
(* enough distinctive terms agree, the ratio and the counts it documents   *)
(* (Unstated if it does not), and its numbers.                             *)
EXTENDS Integers

Unstated == -1

Related(requirement, passage) ==
    \/ passage.cited
    \/ passage.terms
    \/ requirement.ratio # 0 /\ (passage.ratio # 0 \/ passage.employees # Unstated)

Ceiling(n, d) == (n + d - 1) \div d

RequiredCountRoundedDown(employees, ratio) == employees \div ratio

RequiredCount(employees, ratio) == Ceiling(employees, ratio)

Verdict(status, method) == [status |-> status, matching_method |-> method]

(* A documented ratio is compared first, then the counts; a cited article  *)
(* without a ratio is compared by its numbers.                             *)
CompareRequirement(requirement, passage) ==
    LET method == IF passage.cited THEN "exact_article_reference"
                  ELSE "deterministic_term_match"
        Compliant(holds) == IF holds THEN "compliant" ELSE "non_compliant"
    IN  CASE ~Related(requirement, passage) -> Verdict("unrelated", "none")
          [] requirement.ratio # 0 /\ Related(requirement, passage) ->
             IF passage.ratio # 0
             THEN Verdict(Compliant(passage.ratio <= requirement.ratio),
                          "deterministic_ratio_comparison")
             ELSE IF passage.employees # Unstated /\ passage.trainees # Unstated
             THEN Verdict(Compliant(passage.trainees >=
                                RequiredCount(passage.employees, requirement.ratio)),
                          "deterministic_headcount_comparison")
             ELSE Verdict("insufficient_evidence", method)
          [] requirement.ratio = 0 /\ passage.cited ->
             IF requirement.numbers = {} \/ passage.numbers = {}
             THEN Verdict("needs_review", method)
             ELSE Verdict(IF requirement.numbers \cap passage.numbers # {}
                          THEN "compliant" ELSE "partially_compliant",
                          "exact_reference_numeric_comparison")
          [] requirement.ratio = 0 /\ ~passage.cited /\ passage.terms ->
             Verdict("insufficient_evidence", method)
=============================================================================
