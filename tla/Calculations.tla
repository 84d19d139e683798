---------------------------- MODULE Calculations ----------------------------
(* The pure calculations of the system, each called with one input: they   *)
(* share no state, so a behaviour is one call and its answer.              *)
EXTENDS ClauseComparison, DecisionRules, TemporalEngine, RequirementRules, DocumentText,
        OfficialSources, CompanyFacts, SequencesExt

CONSTANTS Comparisons,      \* [fn, old, new]: two texts of a regulation
          Assessments,      \* [fn, change_type, authority, clause, company, evidence]
          Requirements,     \* [fn, requirement, passage]
          HijriMonths,      \* [fn, y, m]
          WrittenDates,     \* [fn, written]
          Timelines,        \* [fn, publication, effective, repealed, legal_status, grace, day]
          Files,            \* [fn, kind, file]
          Indexes,          \* [fn, sends, index, details]
          Lists,            \* [fn, sends, page]
          Discoveries,      \* [fn, document, snapshot]
          Profiles,         \* [fn, chunks]
          NoAnswer

(* A call of one calculation is no call of another.                        *)
ASSUME CallAssumption ==
    /\ \A c \in Comparisons : c.fn = "compare"
    /\ \A c \in Assessments : c.fn = "assess"
    /\ \A c \in Requirements : c.fn = "match"
    /\ \A c \in HijriMonths : c.fn = "hijri"
    /\ \A c \in WrittenDates : c.fn = "date"
    /\ \A c \in Timelines : c.fn = "status"
    /\ \A c \in Files : c.fn = "extract"
    /\ \A c \in Indexes : c.fn = "nca"
    /\ \A c \in Lists : c.fn = "saso"
    /\ \A c \in Discoveries : c.fn = "classify"
    /\ \A c \in Profiles : c.fn = "scope"

(* (A levels heading's number stands for two levels, 41 for 4.1: no text   *)
(* has an article 41 beside it.)                                           *)
ASSUME ComparisonAssumption ==
    \A c \in Comparisons :
        /\ {c.old, c.new} \subseteq
            Seq([heading : [form : {"digits", "levels", "words"}, number : Nat, sub : Nat],
                 body : [words : SUBSET STRING, marks : STRING,
                         numbers : Seq([minus : BOOLEAN, digits : Seq(Nat)])]])
        /\ \A s, t \in ToSet(c.old) \cup ToSet(c.new) :
            s.heading.number = t.heading.number =>
                (s.heading.form = "levels") = (t.heading.form = "levels")

ASSUME AssessmentAssumption ==
    \A c \in Assessments :
        /\ c.clause.markers \subseteq {"must", "required", "prohibited", "may allow"}
        /\ \/ c.clause.limit = NoLimit
           \/ /\ c.clause.limit.raw \in {"<=", "not exceeding", "maximum", "<",
                                        ">=", "minimum", ">"}
              /\ c.clause.limit.value \in Int
        /\ c.company.inScope \in BOOLEAN /\ c.company.assets \in BOOLEAN
        /\ c.company.fact \in {"true", "false", "absent"}
        /\ c.evidence \in Seq([type : STRING, matches : STRING, about : STRING,
                               value : Int, valid : BOOLEAN, score : Nat])

ASSUME RequirementAssumption ==
    \A c \in Requirements :
        /\ c.requirement.ratio \in Nat /\ c.passage.ratio \in Nat
        /\ {c.passage.employees, c.passage.trainees} \subseteq Nat \cup {Unstated}

(* Every year whose days are in datetime.date's range, and what the patterns*)
(* of parse_date_string let through.                                       *)
ASSUME CalendarAssumption ==
    /\ \A c \in HijriMonths : c.y \in 1..9665 /\ c.m \in 1..12
    /\ \A c \in WrittenDates :
        c.written.y \in Nat /\ c.written.m \in 1..12 /\ c.written.d \in 1..31

ASSUME TimelineAssumption ==
    \A c \in Timelines :
        /\ c.day \in Nat
        /\ {c.publication, c.effective, c.repealed} \subseteq Nat \cup {Never}

(* The names of a workbook's sheets tell them apart.                       *)
ASSUME FileAssumption ==
    \A c \in Files :
        \/ c.kind \in {"pdf", "pptx", "txt"} /\ c.file \in Seq(Nat)
        \/ c.kind = "docx" /\ c.file \in Seq([words : Nat, title : BOOLEAN])
        \/ /\ c.kind = "xlsx"
           /\ c.file \in Seq([name : STRING, target : {"relative", "absolute", "missing"},
                             cells : Seq([words : Nat, rest : Nat, ref : BOOLEAN])])
           /\ \A s, t \in DOMAIN c.file : c.file[s].name = c.file[t].name => s = t
        \/ c.kind = "csv" /\ c.file \in Seq(Seq(Nat))

ASSUME IndexAssumption ==
    \A c \in Indexes, s \in TargetSlugs :
        /\ DOMAIN c.details[s].sends = 1 .. MaxRetries + 1
        /\ c.details[s].candidates
                \in Seq([annex : BOOLEAN, titled : BOOLEAN, coded : BOOLEAN])

ASSUME ListAssumption ==
    \A c \in Lists : c.page.items \in Seq(STRING) /\ c.page.expanded \in Seq(STRING)

ASSUME ProfileAssumption ==
    \A c \in Profiles :
        c.chunks \in Seq([mentions : [{"has_employees", "manufactures_products",
                                      "imports_or_exports"}
                                        -> Seq(SUBSET {"affirmed", "denied"})],
                          unconfirmed : BOOLEAN])

VARIABLES call, answer

calculationVars == <<call, answer>>

CalculationInit ==
    /\ \/ call \in Comparisons \/ call \in Assessments \/ call \in Requirements
       \/ call \in HijriMonths \/ call \in WrittenDates \/ call \in Timelines
       \/ call \in Files \/ call \in Indexes \/ call \in Lists \/ call \in Discoveries
       \/ call \in Profiles
    /\ answer = NoAnswer

Answer(fn, value) ==
    /\ answer = NoAnswer
    /\ call.fn = fn
    /\ answer' = value
    /\ UNCHANGED call

Compare ==
    Answer("compare", LET old == ExtractClauses(call.old)
                          new == ExtractClauses(call.new)
                      IN  [pairs |-> MatchedPairs(old, new),
                           changes |-> CompareClauseSets(old, new)])

Assess ==
    Answer("assess", AssessChange(call.change_type, call.authority, call.clause,
                                  call.company, call.evidence))

Match == Answer("match", CompareRequirement(call.requirement, call.passage))

ConvertMonth ==
    Answer("hijri", [d \in 1..30 |-> HijriToGregorian(call.y, call.m, d)])

ReadDate == Answer("date", ParseDate(call.written))

Evaluate ==
    Answer("status", EvaluateTemporalStatus(call.publication, call.effective, call.repealed,
                                            call.legal_status, call.grace, call.day))

Extract == Answer("extract", ExtractDocumentContent(call.kind, call.file))

DiscoverNCA == Answer("nca", NCADiscover(call.sends, call.index, call.details))

DiscoverSASO == Answer("saso", SASODiscover(call.sends, call.page))

Sort == Answer("classify", ClassifyDiscoveredDocument(call.document, call.snapshot))

ScopeCompany == Answer("scope", ScopeOf(call.chunks))

CalculationNext ==
    \/ Compare \/ Assess \/ Match \/ ConvertMonth \/ ReadDate \/ Evaluate \/ Extract
    \/ DiscoverNCA \/ DiscoverSASO \/ Sort \/ ScopeCompany

CalculationSpec == CalculationInit /\ [][CalculationNext]_calculationVars

Answered(fn) == call.fn = fn /\ answer # NoAnswer

-----------------------------------------------------------------------------
(* Comparison of two versions.                                             *)

(* The article a heading stands for, however it is written.                *)
Article(h) == <<h.number, h.sub>>

(* A text whose references tell its articles apart.                        *)
Unambiguous(text) ==
    /\ \A k \in DOMAIN text :
            text[k].heading.form = "words" => text[k].heading.number \in 2..10
    /\ \A i, k \in DOMAIN text :
            text[i].heading.number = text[k].heading.number => i = k

(* Every clause of either text is compared once, with one clause of the    *)
(* other or with none; nothing is compared twice or lost.                  *)
PairsCoverBothTexts ==
    Answered("compare") =>
        LET held(i) == InOrder({k \in DOMAIN answer.pairs : answer.pairs[k][i] # NoClause})
            Side(i) == [j \in DOMAIN held(i) |-> answer.pairs[held(i)[j]][i]]
            Times(s, c) == Cardinality({k \in DOMAIN s : s[k] = c})
            old == ExtractClauses(call.old)
            new == ExtractClauses(call.new)
        IN  /\ Side(1) = old
            /\ Len(Side(2)) = Len(new)
            /\ \A k \in DOMAIN new : Times(Side(2), new[k]) = Times(new, new[k])

(* With unambiguous references a comparison records exactly the articles   *)
(* whose texts differ, each against itself, and holds for substantive      *)
(* exactly those whose headings, words or digits differ: a change of an    *)
(* operator, a sign or a decimal point alone is recorded as editorial.     *)
DifferencesAreFound ==
    Answered("compare") /\ Unambiguous(call.old) /\ Unambiguous(call.new) =>
        LET At(text, n) == {text[k] : k \in {i \in DOMAIN text : text[i].heading.number = n}}
            Content(text, n) == {<<s.heading, s.body.words, Digits(s.body)>> : s \in At(text, n)}
            Changes(n) == {c \in answer.changes : c.article_ref # Document
                                                    /\ c.article_ref.number = n}
        IN  \A s \in ToSet(call.old) \cup ToSet(call.new) :
                LET n == s.heading.number
                IN  /\ (Changes(n) = {}) = (At(call.old, n) = At(call.new, n))
                    /\ \A c \in Changes(n) :
                        /\ (c.before = NoClause) = (At(call.old, n) = {})
                        /\ (c.after = NoClause) = (At(call.new, n) = {})
                        /\ Substantive(c.change_type) = (Content(call.old, n) # Content(call.new, n))

(* compare_clause_sets: the comparison of two versions covers both texts   *)
(* and finds their differences, whatever the order of the articles and the *)
(* form of their headings.                                                 *)
ComparisonIsExact == PairsCoverBothTexts /\ DifferencesAreFound

(* are_articles_equivalent says of two references whether they stand for   *)
(* the same article (arabic_processing.py:244).                            *)
PairedClausesAreOneArticle ==
    Answered("compare") =>
        \A k \in DOMAIN answer.pairs :
            LET before == answer.pairs[k][1]
                after == answer.pairs[k][2]
            IN  before # NoClause /\ after # NoClause
                    /\ before.ref # Document /\ after.ref # Document =>
                    Article(before.sections[1].heading) = Article(after.sections[1].heading)
-----------------------------------------------------------------------------
(* Assessment of a change.                                                 *)

(* What the limit allows, and what the company's facts say of the scope.   *)
Allowed(limit, value) ==
    CASE limit.raw \in {"<=", "not exceeding", "maximum"} -> value <= limit.value
      [] limit.raw = "<" -> value < limit.value
      [] limit.raw \in {">=", "minimum"} -> value >= limit.value
      [] limit.raw = ">" -> value > limit.value

ScopeProven(authority, topic, company) ==
    IF authority \in {"NCA", "SASO"} THEN company.inScope
    ELSE IF topic = "stationary" THEN company.assets
    ELSE topic \in {"marine discharge", "publish"} /\ company.fact = "true"

(* The measurements among some evidence that a limit can be held against.  *)
Measured(limit, items) ==
    {m \in items : /\ m.type = "measurement" /\ m.score > 0
                   /\ m.matches = "all" \/ (m.matches = "not basis" /\ ~limit.basis)}

(* analyze_gap, generate_task: a task answers a new text that binds, on a  *)
(* company it is shown to concern, some comparable measurement of which    *)
(* breaks the limit; and as long as retrieval returns all there is and the *)
(* measurements do not contradict each other, such a change gets one.      *)
TasksAreWarranted ==
    Answered("assess") =>
        LET limit == call.clause.limit
            measured == Measured(limit, ToSet(call.evidence))
            concerned == /\ call.change_type \notin {"editorial", "deleted"}
                         /\ "may allow" \notin call.clause.markers
                         /\ \/ call.clause.markers # {}
                            \/ call.change_type \in {"numeric_threshold", "deadline", "scope"}
                         /\ ScopeProven(call.authority, call.clause.topic, call.company)
            broken == limit # NoLimit /\ \E m \in measured : ~Allowed(limit, m.value)
            agreeing == \A m, n \in measured : m.about = n.about => m.value = n.value
        IN  /\ answer.due # 0 => concerned /\ broken
            /\ Len(call.evidence) <= MaxEvidence =>
                    ((answer.due # 0) = (concerned /\ broken /\ agreeing))

(* Silence is not compliance: a change is found complied with only on an   *)
(* explicit fact that it does not concern the company, an option, a valid  *)
(* permit, or measurements it was held against, all of them within it.     *)
ComplianceIsShown ==
    Answered("assess") /\ answer.verdict = "supported_compliant" =>
        LET limit == call.clause.limit
            items == Retrieve(call.clause, call.evidence)
            measured == Measured(limit, items)
        IN  \/ call.authority \notin {"NCA", "SASO"} /\ call.company.fact = "false"
            \/ "may allow" \in call.clause.markers
            \/ /\ ScopeProven(call.authority, call.clause.topic, call.company)
               /\ IF limit = NoLimit
                  THEN \E i \in items : i.type = "permission" /\ i.valid
                  ELSE measured # {} /\ \A m \in measured : Allowed(limit, m.value)

-----------------------------------------------------------------------------
(* Requirement, dates, documents.                                          *)

(* compare_requirement: counts satisfy a ratio exactly when they do as     *)
(* fractions, and a verdict on a ratio needs figures of the company.       *)
HeadcountsMeetRatio ==
    Answered("match") =>
        LET ratio == call.requirement.ratio
            p == call.passage
        IN  /\ answer.matching_method = "deterministic_headcount_comparison" =>
                    (answer.status = "compliant") = (p.trainees * ratio >= p.employees)
            /\ answer.matching_method = "deterministic_ratio_comparison" =>
                    (answer.status = "compliant") = (p.ratio <= ratio)
            /\ answer.status \in {"compliant", "non_compliant"} =>
                    IF ratio # 0
                    THEN p.ratio # 0 \/ (p.employees # Unstated /\ p.trainees # Unstated)
                    ELSE p.cited /\ p.numbers \cap call.requirement.numbers # {}

(* Days from 1 March of year 0 to a Gregorian date.                        *)
DayNumber(g) ==
    LET y == IF g.m > 2 THEN g.y ELSE g.y - 1
        m == IF g.m > 2 THEN g.m - 3 ELSE g.m + 9
    IN  365 * y + y \div 4 - y \div 100 + y \div 400 + (153 * m + 2) \div 5 + g.d - 1

(* Days from the first day of the Hijri era: odd months have 30 days, even *)
(* ones 29, and eleven years of thirty one day more.                       *)
HijriDayNumber(y, m, d) ==
    354 * (y - 1) + Cardinality({k \in 1..(y - 1) : (11 * k + 14) % 30 < 11})
        + 29 * (m - 1) + m \div 2 + d - 1

(* Hijri days are real days, consecutive through months and years, counted *)
(* from 16 July 622 (19 July in the Gregorian calendar).                   *)
HijriDaysFollow ==
    Answered("hijri") =>
        \A d \in DOMAIN answer :
            /\ IsDate(answer[d])
            /\ DayNumber(answer[d]) = DayNumber([y |-> 622, m |-> 7, d |-> 19])
                                        + HijriDayNumber(call.y, call.m, d)

(* A date that was read is a day of the calendar, in the century its       *)
(* digits can mean; a Gregorian one is the one written.                    *)
DatesRead ==
    Answered("date") =>
        /\ answer = Unknown \/ IsDate(answer.date)
        /\ answer.calendar = "gregorian" => answer.date = Written(call.written)
        /\ answer.calendar = "hijri" => answer.date.y \in 1882..2077

(* hijri_to_gregorian, parse_date_string: the calendars agree day by day,  *)
(* and what a text says is read as a day or not at all.                    *)
CalendarIsRight == HijriDaysFollow /\ DatesRead

(* evaluate_temporal_status: a regulation binds on a day exactly if it is  *)
(* published, has taken effect and is not repealed, and a later day never  *)
(* takes it back to an earlier stage.                                      *)
ForceIsAnInterval ==
    Answered("status") =>
        LET Stage(s) == CASE s = "not_yet_published" -> 1
                          [] s \in {"upcoming_requirement", "transition_period"} -> 2
                          [] s = "currently_effective" -> 3
                          [] s = "repealed" -> 4
            Passed(date) == date = Never \/ call.day >= date
        IN  /\ IsApplicable(answer) = (/\ call.legal_status # "repealed"
                                       /\ Passed(call.publication)
                                       /\ Passed(call.effective)
                                       /\ call.repealed = Never \/ call.day < call.repealed)
            /\ Stage(EvaluateTemporalStatus(call.publication, call.effective, call.repealed,
                        call.legal_status, call.grace, call.day + 1)) >= Stage(answer)

(* The number a column name stands for.                                    *)
ColumnNumber(name) ==
    FoldLeft(LAMBDA n, letter : 26 * n + (CHOOSE k \in 1..26 : Letters[k] = letter), 0, name)

(* What a reader finds at a locator of a file.                             *)
WordsAt(kind, file, place) ==
    CASE kind \in {"pdf", "pptx", "txt"} -> file[place[2]]
      [] kind = "docx" ->
            LET counted == InOrder({k \in DOMAIN file : file[k].words > 0})
            IN  file[counted[place[3]]].words
      [] kind = "xlsx" -> (CHOOSE s \in ToSet(file) : s.name = place[2]).cells[place[3]].words
      [] kind = "csv" -> file[place[3]][ColumnNumber(place[2])]

WordsOf(kind, file) ==
    CASE kind \in {"pdf", "pptx", "txt"} -> Total(file)
      [] kind = "docx" -> Total([k \in DOMAIN file |-> file[k].words])
      [] kind = "xlsx" -> Total([k \in DOMAIN file |->
                                    IF file[k].target = "missing" THEN 0
                                    ELSE LET cells == file[k].cells
                                         IN  Total([c \in DOMAIN cells |->
                                                cells[c].words + cells[c].rest])])
      [] kind = "csv" -> Total([k \in DOMAIN file |-> Total(file[k])])

(* A file without what is never read of a workbook: the sheets addressed   *)
(* absolutely, and the later runs of an inline text.                       *)
Readable(kind, file) ==
    IF kind # "xlsx" THEN file
    ELSE [k \in DOMAIN file |->
            [file[k] EXCEPT !.cells = IF file[k].target = "absolute" THEN <<>>
                                      ELSE [c \in DOMAIN @ |-> [@[c] EXCEPT !.rest = 0]]]]

(* Every cell of a workbook holds its reference.                           *)
Referenced(kind, file) ==
    kind = "xlsx" => \A s \in DOMAIN file : \A c \in ToSet(file[s].cells) : c.ref

(* The chunks hold all the text of a file but what of a workbook is never  *)
(* read. Every chunk's locator leads back to its text, and no two share    *)
(* one, if the cells of a workbook hold their references.                  *)
LocatorsLeadBack ==
    Answered("extract") =>
        LET chunks == answer.chunks
        IN  /\ Referenced(call.kind, call.file) =>
                /\ \A k \in DOMAIN chunks :
                        chunks[k].words = WordsAt(call.kind, call.file, chunks[k].locator)
                /\ \A i, k \in DOMAIN chunks : chunks[i].locator = chunks[k].locator => i = k
            /\ answer.total_words = Total([k \in DOMAIN chunks |-> chunks[k].words])
            /\ answer.total_words = WordsOf(call.kind, Readable(call.kind, call.file))

(* A document is said to need OCR exactly if it has pages and no text, and *)
(* extraction is never called a success without text, nor over a page      *)
(* without; over text of a workbook that is not read it may be.            *)
QualityIsHonest ==
    Answered("extract") =>
        /\ (answer.chunks = <<>>) = (WordsOf(call.kind, Readable(call.kind, call.file)) = 0)
        /\ (answer.overall_quality = "OCR_required") =
                (call.kind = "pdf" /\ call.file # <<>> /\ answer.chunks = <<>>)
        /\ answer.overall_quality = "extraction_success" =>
                /\ answer.chunks # <<>>
                /\ call.kind = "pdf" => \A k \in DOMAIN call.file : call.file[k] > 0

(* extract_document_content: on its way into chunks no text of a company's *)
(* document is misplaced, and none is lost but a workbook's later runs and *)
(* the sheets it addresses from the root of the archive.                   *)
ExtractionIsFaithful == LocatorsLeadBack /\ QualityIsHonest

-----------------------------------------------------------------------------
(* Official sources.                                                       *)

(* A listing of the NCA that succeeds holds every control, under each link *)
(* the index has for it (twice, if one ends with a slash and one does not),*)
(* all on the authority's host and their pages read. One of SASO holds what*)
(* its page does, expanded wherever the page offers it, no address twice:  *)
(* whether the source has further pages it does not know, and a page that  *)
(* lists nothing succeeds.                                                 *)
PagesAreListed ==
    /\ Answered("nca") /\ answer.read =>
        /\ TargetSlugs = {e.link.slug : e \in answer.documents}
        /\ {l \in call.index : l.slug \in TargetSlugs} \subseteq {e.link : e \in answer.documents}
        /\ \A e \in answer.documents : e.link.official
                /\ \E k \in DOMAIN call.details[e.link.slug].sends :
                        call.details[e.link.slug].sends[k] = "page"
    /\ Answered("saso") /\ answer.read =>
        /\ call.page.selector => call.page.posted = "page"
        /\ ToSet(answer.documents) = ToSet(IF call.page.selector THEN call.page.expanded
                                           ELSE call.page.items)
        /\ Len(answer.documents) = Cardinality(ToSet(answer.documents))

(* _primary_pdf: the file compared for a control is a guide, a tool or an  *)
(* annex only if the page has nothing else, and none only if it has none.  *)
ControlsBeforeAnnexes ==
    Answered("nca") /\ answer.read =>
        \A e \in answer.documents :
            LET candidates == call.details[e.link.slug].candidates
            IN  IF candidates = <<>> THEN e.file = 0
                ELSE candidates[e.file].annex => \A k \in DOMAIN candidates : candidates[k].annex

(* discover: a listing that succeeds left out nothing of the pages it was  *)
(* given, read every page it had to, and took no annex for a control.      *)
ListingsFollowPages == PagesAreListed /\ ControlsBeforeAnnexes

(* classify_discovered_document: only facts the company affirms count.     *)
(* What it denies weighs as what it leaves unsaid, a fact more never makes *)
(* a document concern it less, and without facts nothing is applicable.    *)
FactsMustBeAffirmed ==
    Answered("classify") =>
        LET Rank(a) == CASE a.status = "not_applicable" -> 0 [] a.status = "needs_review" -> 1
                         [] a.status = "potentially_applicable" -> 2
                         [] a.status = "applicable" -> 3
            Said(facts) == ClassifyDiscoveredDocument(call.document, facts)
        IN  /\ answer = Said({f \in call.snapshot : f.value # "false"})
            /\ \A f \in call.snapshot : Rank(Said(call.snapshot \ {f})) <= Rank(answer)
            /\ answer.status = "applicable" => \E f \in call.snapshot : f.value # "false"
            /\ (answer.priority = "pending_review") = (answer.status = "needs_review")

-----------------------------------------------------------------------------
(* Company facts.                                                          *)

(* _merged_facts, _build_scope: the scope does not depend on the order in  *)
(* which documents are read, and one more never takes a domain out of it.  *)
(* (So that Onboarding may let a set of documents call for a scope.)       *)
ScopeIsCumulative ==
    Answered("scope") =>
        LET chunks == call.chunks
            Rank(class) == CASE class = "absent" -> 0 [] class = "needs_confirmation" -> 1
                             [] class = "mandatory" -> 2
        IN  \A code \in DOMAIN answer :
                /\ ScopeOf(Reverse(chunks))[code] = answer[code]
                /\ \A k \in DOMAIN chunks :
                        Rank(ScopeOf(RemoveAt(chunks, k))[code]) <= Rank(answer[code])
=============================================================================
