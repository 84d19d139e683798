-------------------------- MODULE ClauseComparison --------------------------
(* How the text of a regulation becomes clauses, and two lists of clauses  *)
(* become the recorded changes of a version pair (ingestion.py,            *)
(* arabic_processing.py, change_detection.py).                             *)
(*                                                                         *)
(* A heading is [form, number, sub]: "digits" is Article 12, "levels" is   *)
(* Article 4.1.2 (number 41, sub 2), "words" is a feminine Arabic ordinal  *)
(* such as the twelfth article. A body is [words, numbers, marks]: the     *)
(* kinds of words it holds, the numbers it states, each with its sign and  *)
(* the digits before and after its point, and its marks: operators,        *)
(* punctuation and spacing.                                                *)
(* A regulation is a sequence of sections [heading, body].                 *)
EXTENDS Integers, Sequences, FiniteSets, SequencesExt, Positions

-----------------------------------------------------------------------------
(* Clauses of a text.                                                      *)

(* The pattern knows the units from two, ten and eleven: the first with its*)
(* hamza, and tens without a unit, are no headings. It tries the units     *)
(* first and needs no more than a space after them, so it takes "second"   *)
(* out of "second-tenth" and out of "second and twentieth".                *)
Unit(n) == n % 10

Recognised(h) ==
    h.form = "words" => Unit(h.number) \in 2..9 \/ h.number % 100 \in {10, 11}

ArticleRef(h) ==
    IF h.form # "words" THEN h
    ELSE [h EXCEPT !.number = IF Unit(@) \in 2..9 THEN Unit(@) ELSE @ % 100]

Document == [form |-> "document", number |-> 0, sub |-> 0]

(* Every clause starts at a recognised heading and reaches to the next;    *)
(* without any the document is one clause, otherwise what stands before    *)
(* the first belongs to none.                                              *)
ExtractClauses(text) ==
    LET heads == {k \in DOMAIN text : Recognised(text[k].heading)}
        End(k) == CHOOSE e \in k..Len(text) :
                    /\ e = Len(text) \/ e + 1 \in heads
                    /\ \A i \in (k + 1)..e : i \notin heads
        starts == InOrder(heads)
    IN  IF heads = {}
        THEN <<[ref |-> Document, sections |-> text]>>
        ELSE [i \in DOMAIN starts |->
                [ref |-> ArticleRef(text[starts[i]].heading),
                 sections |-> SubSeq(text, starts[i], End(starts[i]))]]

-----------------------------------------------------------------------------
(* Pairing.                                                                *)

CanonicalHeading(ref) == <<ref.form, ref.number>>

(* The first number of a reference, at most two levels of it; the feminine *)
(* eleventh is not in the table once its letters are normalised.           *)
CanonicalNumber(ref) ==
    IF ref = Document \/ (ref.form = "words" /\ ref.number = 11)
    THEN <<ref.form, ref.number>>
    ELSE <<"number", ref.number>>

AreArticlesEquivalent(ref1, ref2) == CanonicalNumber(ref1) = CanonicalNumber(ref2)

NoClause == [ref |-> [Document EXCEPT !.form = "none"], sections |-> <<>>]

(* Each old clause, in order, takes the first equivalent clause left.      *)
TakeEquivalent(state, old) ==
    LET found == {k \in DOMAIN state.left :
                    AreArticlesEquivalent(old.ref, state.left[k].ref)}
        k == CHOOSE m \in found : \A n \in found : m <= n
    IN  IF found = {}
        THEN [state EXCEPT !.pairs = Append(@, <<old, NoClause>>)]
        ELSE [left |-> RemoveAt(state.left, k),
              pairs |-> Append(state.pairs, <<old, state.left[k]>>)]

MatchedPairs(old, new) ==
    LET end == FoldLeft(TakeEquivalent, [left |-> new, pairs |-> <<>>], old)
    IN  end.pairs \o [k \in DOMAIN end.left |-> <<NoClause, end.left[k]>>]

-----------------------------------------------------------------------------
(* Classification.                                                         *)

(* PUNCT_RE leaves letters and digits: of a number its groups of digits,   *)
(* and nothing of its sign, its point and the operator before it.          *)
Digits(body) == FlattenSeq([k \in DOMAIN body.numbers |-> body.numbers[k].digits])

Tokens(clause) ==
    [k \in DOMAIN clause.sections |->
        LET at == clause.sections[k] IN <<at.heading, at.body.words, Digits(at.body)>>]

Words(clause) == UNION {clause.sections[k].body.words : k \in DOMAIN clause.sections}

(* The heading a clause starts with is cut off before numbers are taken.   *)
Numbers(clause) ==
    FlattenSeq([k \in DOMAIN clause.sections |-> clause.sections[k].body.numbers])

(* What a pair of different texts is: editorial if letters and digits are  *)
(* the same, also when an operator or a sign is not. The words looked for  *)
(* are those of either text, and a changed number counts only beside a word*)
(* that gives it a meaning.                                                *)
Classify(before, after) ==
    LET words == Words(before) \cup Words(after)
        renumbered == Numbers(before) # Numbers(after)
    IN  CASE before = NoClause -> "added"
          [] after = NoClause -> "deleted"
          [] OTHER ->
             IF Tokens(before) = Tokens(after) THEN "editorial"
             ELSE IF renumbered /\ "deadline" \in words THEN "deadline"
             ELSE IF renumbered /\ "threshold" \in words THEN "numeric_threshold"
             ELSE IF "scope" \in words THEN "scope"
             ELSE IF "responsibility" \in words THEN "responsibility_changed"
             ELSE IF "evidence" \in words THEN "evidence_requirement_changed"
             ELSE "modified"

Substantive(type) == type # "editorial"

-----------------------------------------------------------------------------
(* The recorded changes.                                                   *)

(* A change is keyed by the version pair and the reference; a second one   *)
(* under the same key is ignored.                                          *)
InsertChange(rows, change) ==
    IF \E row \in rows : row.article_ref = change.article_ref
    THEN rows
    ELSE rows \cup {change}

Change(pair) ==
    [article_ref |-> IF pair[2] = NoClause THEN pair[1].ref ELSE pair[2].ref,
     before |-> pair[1], after |-> pair[2],
     change_type |-> Classify(pair[1], pair[2])]

CompareClauseSets(old, new) ==
    LET Record(rows, pair) ==
            IF pair[1] = pair[2] THEN rows ELSE InsertChange(rows, Change(pair))
    IN  FoldLeft(Record, {}, MatchedPairs(old, new))
=============================================================================
