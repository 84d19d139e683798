----------------------------- MODULE MCOnboarding -----------------------------
(* Small instances of Onboarding for TLC.                                  *)
EXTENDS Onboarding, TLC

CONSTANTS q1, q2, staff, supply, scan, product, export, e1, e2, none

(* staff evidences a product business, which leaves export to be           *)
(* confirmed; supply evidences exports; scan is a scanned page, no text.   *)
Facts == [d \in Documents |-> CASE d = staff -> {product}
                                [] d = supply -> {export}
                                [] OTHER -> {}]
Suggests == [c \in Domains |-> IF c = product THEN {export} ELSE {}]

(* An approval as it stands, and one that names one domain of the two.     *)
DropProduct == product :> "removed"
NothingOrDrop == {<<>>, DropProduct}

(* As the approval ingests it, where it is a document of the version.      *)
Ingested == {<<supply, "other">>}

Symmetry == Permutations({q1, q2}) \cup Permutations({e1, e2})
=============================================================================
