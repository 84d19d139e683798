---------------------------- MODULE CompanyFacts ----------------------------
(* What the uploaded documents say of a company, and the regulatory        *)
(* domains it puts in scope (src/onboarding.py).  The yes-or-no facts with *)
(* a rule; of the five baselines without an exception, two.                *)
(*                                                                         *)
(* A chunk of text is [mentions, unconfirmed].  mentions[f][k] is how it   *)
(* mentions the k-th pattern of fact f: a subset of {"affirmed",           *)
(* "denied"}, a mention being denied by a "no", "not" or "without" close   *)
(* before it.  unconfirmed: it says that trade is not confirmed.           *)
EXTENDS Naturals, Sequences, SequencesExt

(* The baseline rules of _build_scope.                                     *)
RequiredFact == [employment_labor |-> "has_employees",
                 product_conformity |-> "manufactures_products",
                 export_control |-> "imports_or_exports"]

(* _fact_matches: the first pattern that occurs decides, and one denied    *)
(* mention of it denies the fact.                                          *)
FactMatch(chunk, f) ==
    LET mentions == chunk.mentions[f]
        named == {k \in DOMAIN mentions : mentions[k] # {}}
        first == CHOOSE k \in named : \A i \in named : k <= i
    IN  IF named = {} \/ (f = "imports_or_exports" /\ chunk.unconfirmed) THEN "unsaid"
        ELSE IF "denied" \in mentions[first] THEN "false" ELSE "true"

(* Mutant of Merge: what was read last counts.                             *)
MergeLatest(current, value) == IF value = "unsaid" THEN current ELSE value

Merge(current, value) ==
    IF value # "unsaid" /\ (current = "unsaid" \/ value = "true") THEN value ELSE current

(* _merged_facts, over the chunks in the order they were stored.           *)
MergedFact(chunks, f) ==
    FoldLeft(Merge, "unsaid", [k \in DOMAIN chunks |-> FactMatch(chunks[k], f)])

(* _build_scope: a row for a domain, or none.                              *)
ScopeOf(chunks) ==
    [code \in DOMAIN RequiredFact |->
        IF MergedFact(chunks, RequiredFact[code]) = "true" THEN "mandatory"
        ELSE IF code = "export_control" /\ MergedFact(chunks, "manufactures_products") = "true"
        THEN "needs_confirmation" ELSE "absent"]
=============================================================================
