--------------------------- MODULE OfficialSources ---------------------------
(* What a scan learns of a source before it downloads: the listing of its  *)
(* documents (regulatory/connectors) and which of them concern the company *)
(* (regulatory/applicability.py, called by discovery.py).                  *)
(*                                                                         *)
(* A link of the NCA index is [slug, official, slash]: the last part of    *)
(* its path, whether its host is the authority's, and whether it ends with *)
(* a slash.  A candidate for a control's file is [annex, titled, coded]: a *)
(* guide, tool or annex by its label; words of the title in its label; a   *)
(* control's code in its address.  An item of the SASO list is an address. *)
(* sends is what the attempts to get a page bring: "page", or "nothing"    *)
(* for an error, a timeout, a page too large, a redirection elsewhere.     *)
EXTENDS Integers, FiniteSets, Sequences, Positions

CONSTANTS
    TargetSlugs,   \* the NCA controls to list (five)
    MaxRetries     \* settings.connector_max_retries

ASSUME RetriesAssumption == MaxRetries \in Nat

Listed(documents) == [read |-> TRUE, documents |-> documents]
Failed == [read |-> FALSE]

(* _request: an address of another host is refused at once.                *)
Request(official, sends) ==
    official /\ \E k \in 1 .. MaxRetries + 1 : sends[k] = "page"

Score(c) == (IF c.annex THEN -10 ELSE 0) + (IF c.titled THEN 3 ELSE 0)
                + (IF c.coded THEN 2 ELSE 0)

(* max() over the scores: the first of the best, 0 for none.               *)
PrimaryPdf(candidates) ==
    IF candidates = <<>> THEN 0
    ELSE CHOOSE k \in DOMAIN candidates :
            \A i \in DOMAIN candidates :
                Score(candidates[i]) < Score(candidates[k])
                    \/ (Score(candidates[i]) = Score(candidates[k]) /\ k <= i)

(* Mutant of Links: only what the index links to is listed.                *)
LinksOfIndex(index) == {l \in index : l.slug \in TargetSlugs}

(* The links whose path ends in a target's slug, by address, and each      *)
(* target's own address if no link has it.                                 *)
Links(index) ==
    {l \in index : l.slug \in TargetSlugs}
        \cup {[slug |-> s, official |-> TRUE, slash |-> TRUE] : s \in TargetSlugs}

(* Every page must be read: one that fails, fails the listing.             *)
NCADiscover(sends, index, details) ==
    IF Request(TRUE, sends) /\ \A l \in Links(index) : Request(l.official, details[l.slug].sends)
    THEN Listed({[link |-> l, file |-> PrimaryPdf(details[l.slug].candidates)] : l \in Links(index)})
    ELSE Failed

(* The list, expanded to 100 items by one posted form, without a retry, if *)
(* it has a page-size control; an address listed twice is taken once.      *)
SASODiscover(sends, page) ==
    IF Request(TRUE, sends) /\ (page.selector => page.posted = "page")
    THEN LET items == IF page.selector THEN page.expanded ELSE page.items
             seen == InOrder({k \in DOMAIN items : \A i \in 1 .. k - 1 : items[i] # items[k]})
         IN  Listed([j \in DOMAIN seen |-> items[seen[j]]])
    ELSE Failed

-----------------------------------------------------------------------------
(* A company's snapshot is a set of facts [mark, value]: what a word of    *)
(* the rules says of it.  A fact is written in words, or a flag: of a true *)
(* flag its name is taken, of a false one nothing.  (Words are looked for  *)
(* as parts of words.)                                                     *)

(* Mutant of CompanyText: the name of every flag is taken.                 *)
CompanyTextOfKeys(snapshot) == {f.mark : f \in snapshot}

CompanyText(snapshot) == {f.mark : f \in {g \in snapshot : g.value # "false"}}

Conditional == {"Critical Systems", "Cloud", "Operational Technology", "Data"}

Discovered(status, priority) == [status |-> status, priority |-> priority]
NeedsReview == Discovered("needs_review", "pending_review")

(* "binding" marks a critical system, infrastructure or a government body; *)
(* a category marks the words the rule requires for it.                    *)
ClassifyNCA(category, company) ==
    LET priority == IF category \in {"Critical Systems", "Operational Technology"}
                    THEN "high" ELSE "medium"
    IN  IF category = "Essential" /\ "binding" \notin company THEN NeedsReview
        ELSE IF category \in Conditional /\ category \notin company THEN NeedsReview
        ELSE Discovered(IF category \in Conditional \cup {"Essential"} \/ "binding" \in company
                        THEN "applicable" ELSE "potentially_applicable", priority)

(* A title is [direct, excluded]: it has a word of the list of electronics,*)
(* one of the exclusions.  "products" marks electronics, manufacturing,    *)
(* procurement or quality.                                                 *)
ClassifySASO(category, title, company) ==
    IF "products" \in company /\ category \in {"Electrical", "Mechanical", "Services"}
    THEN IF title.direct /\ ~title.excluded
         THEN Discovered("applicable", IF category = "Electrical" THEN "high" ELSE "medium")
         ELSE NeedsReview
    ELSE Discovered("not_applicable", "low")

ClassifyDiscoveredDocument(document, snapshot) ==
    CASE document.authority = "NCA" -> ClassifyNCA(document.category, CompanyText(snapshot))
      [] document.authority = "SASO" ->
            ClassifySASO(document.category, document.title, CompanyText(snapshot))
      [] OTHER -> NeedsReview
=============================================================================
