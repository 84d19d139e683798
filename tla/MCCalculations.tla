--------------------------- MODULE MCCalculations ---------------------------
(* Inputs of the calculations for TLC: every boundary of a rule from both  *)
(* sides, and texts and files of up to two or three parts.                 *)
EXTENDS Calculations

SeqsUpTo(S, n) == UNION {[1..k -> S] : k \in 0..n}

-----------------------------------------------------------------------------
Heading(form, number, sub) == [form |-> form, number |-> number, sub |-> sub]
Stated(digits) == [minus |-> FALSE, digits |-> digits]
Body(words, numbers, marks) == [words |-> words, numbers |-> numbers, marks |-> marks]

Headings ==
    {Heading("digits", 2, 0), Heading("digits", 12, 0), Heading("levels", 41, 1),
     Heading("levels", 41, 2)} \cup {Heading("words", n, 0) : n \in {1, 2, 3, 11, 12, 22}}

Bodies == {Body({"deadline"}, <<Stated(<<n>>)>>, "<") : n \in {1, 2}}

Sections == {[heading |-> h, body |-> b] : h \in Headings, b \in Bodies}

Bilingual == [heading : {Heading("digits", 2, 0), Heading("words", 2, 0)},
              body : [words : SUBSET {"deadline", "threshold", "scope", "other"},
                      numbers : {<<>>, <<Stated(<<1, 2>>)>>, <<Stated(<<1>>), Stated(<<2>>)>>,
                                 <<[minus |-> TRUE, digits |-> <<1, 2>>]>>, <<Stated(<<2>>)>>},
                      marks : {"<", ">"}]]

Comparison(olds, news) == [fn : {"compare"}, old : olds, new : news]

SmallComparisons ==
    Comparison([1..2 -> Sections], SeqsUpTo(Sections, 2) \ {<<>>})
        \cup Comparison([1..1 -> Bilingual], [1..1 -> Bilingual])

OrdinalTexts == [1..2 -> {[heading |-> Heading(form, n, 0), body |-> b] :
                            form \in {"words", "digits"}, n \in {2, 3, 12}, b \in Bodies}]
OrdinalComparisons == Comparison(OrdinalTexts, OrdinalTexts)

-----------------------------------------------------------------------------
Limit(raw, basis) == [raw |-> raw, value |-> 1, basis |-> basis]

Clauses ==
    [markers : {{}, {"must"}, {"required", "may allow"}, {"prohibited"}},
     topic : {"stationary", "marine discharge", "publish", "other"},
     limit : {NoLimit, Limit("maximum", FALSE), Limit("not exceeding", TRUE),
              Limit("minimum", FALSE), Limit("<", FALSE), Limit(">", TRUE)}]

Companies == [inScope : BOOLEAN, assets : BOOLEAN, fact : {"true", "false", "absent"}]

Item(type, matches, about, value, valid, score) ==
    [type |-> type, matches |-> matches, about |-> about, value |-> value,
     valid |-> valid, score |-> score]

Evidence ==
    {Item("measurement", "all", about, value, FALSE, score) :
        about \in {"A", "B"}, value \in 0..2, score \in {1}}
    \cup {Item("measurement", m, "A", 2, FALSE, 2) : m \in {"not basis", "not unit", "other pollutant"}}
    \cup {Item("measurement", "all", "A", 2, FALSE, 0), Item("activity_record", "all", "A", 0, FALSE, 2)}
    \cup {Item("permission", "all", "A", 0, valid, 1) : valid \in BOOLEAN}

Assessment(clauses, companies, evidence) ==
    [fn : {"assess"}, change_type : {"editorial", "deleted", "added", "scope"},
     authority : {"NCA", "other"}, clause : clauses, company : companies, evidence : evidence]

Concerned == [inScope |-> TRUE, assets |-> TRUE, fact |-> "true"]

SmallAssessments ==
    Assessment(Clauses, Companies, SeqsUpTo({Item("measurement", "all", "A", 2, FALSE, 1),
                                             Item("permission", "all", "A", 0, TRUE, 1)}, 1))
    \cup Assessment({c \in Clauses : c.markers = {"must"} /\ c.topic \in {"stationary", "publish"}},
                    {Concerned}, SeqsUpTo(Evidence, 3))

-----------------------------------------------------------------------------
SmallRequirements ==
    [fn : {"match"},
     requirement : [ratio : 0..3, numbers : {{}, {1}, {1, 2}}],
     passage : [cited : BOOLEAN, terms : BOOLEAN, ratio : 0..3,
                employees : {Unstated} \cup 0..7, trainees : {Unstated} \cup 0..4,
                numbers : {{}, {2}, {3}}]]

SmallHijriMonths == [fn : {"hijri"}, y : 1300..1499, m : 1..12]

SmallWrittenDates ==
    [fn : {"date"},
     written : [shape : {"y-m-d", "y/m/d", "d/m/y", "hijri month", "gregorian month"},
                marked : {"none", "glued", "apart"},
                y : {1300, 1446, 1499, 1900, 2024, 2026, 2099}, m : 1..12,
                d : {1, 28, 29, 30, 31}]]

SmallTimelines ==
    [fn : {"status"}, publication : {Never} \cup 0..3, effective : {Never} \cup 0..3,
     repealed : {Never} \cup 0..3, legal_status : {"effective", "repealed"},
     grace : {0, 1}, day : 0..4]

-----------------------------------------------------------------------------
(* A row of n columns with words in the first and the last two.            *)
Columns(n) == [k \in 1..n |-> IF k \in {1, n - 1, n} THEN 1 ELSE 0]

Sheets(name) ==
    [name : {name}, target : {"relative", "absolute", "missing"},
     cells : SeqsUpTo([words : 0..1, rest : {0}, ref : BOOLEAN]
                        \cup {[words |-> 1, rest |-> 1, ref |-> TRUE]}, 2)]

SmallFiles ==
    [fn : {"extract"}, kind : {"pdf"}, file : SeqsUpTo({0, 4, 5, 15, 26}, 3)]
    \cup [fn : {"extract"}, kind : {"pptx", "txt"}, file : SeqsUpTo(0..2, 3)]
    \cup [fn : {"extract"}, kind : {"docx"},
          file : SeqsUpTo([words : 0..2, title : BOOLEAN], 3)]
    \cup [fn : {"extract"}, kind : {"xlsx"},
          file : {<<s, t>> : s \in Sheets("s"), t \in Sheets("t")}]
    \cup [fn : {"extract"}, kind : {"csv"},
          file : SeqsUpTo(SeqsUpTo(0..1, 2), 2) \cup {<<Columns(n)>> : n \in {26, 27, 28, 52, 53, 703}}]

-----------------------------------------------------------------------------
Attempts == [1..2 -> {"page", "nothing"}]

SomeCandidates ==
    SeqsUpTo([annex : BOOLEAN, titled : BOOLEAN, coded : {FALSE}]
                \cup {[annex |-> TRUE, titled |-> TRUE, coded |-> TRUE]}, 2)

SmallIndexes ==
    LET links == [slug : {"ecc", "other"}, official : BOOLEAN, slash : BOOLEAN]
    IN  [fn : {"nca"}, sends : Attempts,
         index : {s \in SUBSET links : Cardinality(s) <= 2},
         details : [{"ecc", "dcc"} -> [sends : Attempts, candidates : {<<>>}]]]
        \cup [fn : {"nca"}, sends : {<<"nothing", "page">>}, index : {{}},
              details : [{"ecc", "dcc"} -> [sends : {<<"page", "page">>, <<"nothing", "nothing">>},
                                            candidates : SomeCandidates]]]

SmallLists ==
    [fn : {"saso"}, sends : Attempts,
     page : [selector : BOOLEAN, posted : {"page", "nothing"},
             items : SeqsUpTo({"a", "b"}, 2), expanded : SeqsUpTo({"a", "b", "c"}, 4)]]

SmallDiscoveries ==
    [fn : {"classify"},
     document : [authority : {"NCA"}, title : {"any"},
                 category : {"Essential", "Cloud", "Operational Technology", "other"}]
                \cup [authority : {"SASO"}, category : {"Electrical", "Mechanical", "Textile"},
                      title : [direct : BOOLEAN, excluded : BOOLEAN]]
                \cup [authority : {"manual"}, category : {"other"}, title : {"any"}],
     snapshot : {s \in SUBSET [mark : {"binding", "Cloud", "Operational Technology", "products"},
                               value : {"words", "true", "false"}] : Cardinality(s) <= 3}]

-----------------------------------------------------------------------------
Mentioned(employees, made, traded, unconfirmed) ==
    [mentions |-> [has_employees |-> employees, manufactures_products |-> made,
                   imports_or_exports |-> traded], unconfirmed |-> unconfirmed]

Chunks ==
    {Mentioned(<<e>>, <<m>>, <<t, u>>, c) :
        e \in {{}, {"affirmed"}}, m \in {{}, {"affirmed"}, {"denied"}},
        t \in SUBSET {"affirmed", "denied"}, u \in {{}, {"affirmed"}}, c \in BOOLEAN}

SmallProfiles ==
    [fn : {"scope"}, chunks : SeqsUpTo(Chunks, 2) \cup
        [1..3 -> {c \in Chunks : c.mentions.has_employees = <<{}>> /\ ~c.unconfirmed
                                    /\ c.mentions.imports_or_exports[2] = {}}]]
=============================================================================
