---------------------------- MODULE DocumentText ----------------------------
(* How a company's file becomes chunks with their places, and what is said *)
(* of the quality of the extraction (document_processing.py).              *)
(*                                                                         *)
(* A file is a sequence of units: pages, paragraphs, slides or lines given *)
(* by their number of words, paragraphs [words, title], rows of cells, each*)
(* a number of words too, or sheets [name, target, cells]. A sheet's target*)
(* is relative to the workbook, or absolute, from the root of the archive, *)
(* or leads to a part that is missing; its cells are [words, rest, ref]:   *)
(* the rest are the words of an inline text after its first run, and ref   *)
(* says whether the cell holds its own reference.                          *)
EXTENDS Integers, Sequences, FiniteSets, SequencesExt, Positions

PageFloor == 5          \* words below which a page is of low quality
DocumentFloor == 15     \* words per page below which the document is

Total(words) == FoldLeft(LAMBDA sum, w : sum + w, 0, words)

(* The units that yield a chunk, in order.                                 *)
Filled(words) == InOrder({k \in DOMAIN words : words[k] > 0})

Chunk(locator, words, quality) ==
    [locator |-> locator, words |-> words, quality |-> quality]

Extraction(chunks, quality, words, pages) ==
    [chunks |-> chunks, overall_quality |-> quality, total_words |-> words, page_count |-> pages]

Structured(chunks, pages) ==
    Extraction(chunks, IF chunks = <<>> THEN "low_quality" ELSE "extraction_success",
               Total([k \in DOMAIN chunks |-> chunks[k].words]), pages)

-----------------------------------------------------------------------------

(* A page without text is skipped; a document without any needs OCR.       *)
PdfQuality(pages) ==
    IF Filled(pages) = <<>> THEN "OCR_required"
    ELSE IF Len(Filled(pages)) < Len(pages) THEN "partial_extraction"
    ELSE IF Total(pages) < DocumentFloor * Len(pages) THEN "low_quality"
    ELSE "extraction_success"

ParsePdf(pages) ==
    LET filled == Filled(pages)
    IN  IF pages = <<>> THEN Extraction(<<>>, "low_quality", 0, 0)
        ELSE Extraction(
                [k \in DOMAIN filled |->
                    Chunk(<<"page", filled[k]>>, pages[filled[k]],
                          IF pages[filled[k]] < PageFloor
                          THEN "low_quality" ELSE "extraction_success")],
                PdfQuality(pages), Total(pages), Len(pages))

(* Paragraphs are counted without the empty ones; a title opens a section. *)
ParseDocx(paragraphs) ==
    LET filled == Filled([k \in DOMAIN paragraphs |-> paragraphs[k].words])
        titles(k) == {i \in 1..k : paragraphs[filled[i]].title}
        Section(k) == IF titles(k) = {} THEN 0
                      ELSE CHOOSE i \in titles(k) : \A j \in titles(k) : j <= i
    IN  Structured([k \in DOMAIN filled |->
            Chunk(<<"section", Section(k), k>>, paragraphs[filled[k]].words,
                  "extraction_success")], 1)

(* Of an inline text the first run is read.                                *)
CellWords(cells) == [k \in DOMAIN cells |-> cells[k].words]

(* A sheet is looked for below xl/, also when its target is absolute and   *)
(* begins with that directory: then, as if it were missing, it is passed   *)
(* over. The cells of a sheet without references share one locator.        *)
ParseXlsx(sheets) ==
    LET Place(s, k) == IF sheets[s].cells[k].ref THEN k ELSE 0
        Cells(s) == LET filled == Filled(CellWords(sheets[s].cells))
                    IN  [k \in DOMAIN filled |->
                            Chunk(<<"sheet_cell", sheets[s].name, Place(s, filled[k])>>,
                                  sheets[s].cells[filled[k]].words, "extraction_success")]
    IN  Structured(FlattenSeq([s \in DOMAIN sheets |->
                        IF sheets[s].target = "relative" THEN Cells(s) ELSE <<>>]), 1)

(* Slides go by their position among the slides of the archive.            *)
ParsePptx(slides) ==
    LET filled == Filled(slides)
    IN  Structured([k \in DOMAIN filled |->
            Chunk(<<"slide", filled[k]>>, slides[filled[k]], "extraction_success")],
            Len(filled))

ParseText(lines) ==
    LET filled == Filled(lines)
    IN  Structured([k \in DOMAIN filled |->
            Chunk(<<"line", filled[k]>>, lines[filled[k]], "extraction_success")], 1)

Letters == <<"A", "B", "C", "D", "E", "F", "G", "H", "I", "J", "K", "L", "M",
             "N", "O", "P", "Q", "R", "S", "T", "U", "V", "W", "X", "Y", "Z">>

ColumnLetter(index) == <<Letters[((index - 1) % 26) + 1]>>

(* Letters of a column: the digits of its number to base 26 without zero.  *)
ColumnName(index) ==
    LET name[k \in Nat] ==
            IF k = 0 THEN <<>>
            ELSE Append(name[(k - 1) \div 26], Letters[((k - 1) % 26) + 1])
    IN  name[index]

ParseCsv(rows) ==
    LET Cells(r) == LET filled == Filled(rows[r])
                    IN  [k \in DOMAIN filled |->
                            Chunk(<<"csv_cell", ColumnName(filled[k]), r>>,
                                  rows[r][filled[k]], "extraction_success")]
    IN  Structured(FlattenSeq([r \in DOMAIN rows |-> Cells(r)]), 1)

(* Other suffixes are refused before a document is stored.                 *)
ExtractDocumentContent(kind, file) ==
    CASE kind = "pdf" -> ParsePdf(file)
      [] kind = "docx" -> ParseDocx(file)
      [] kind = "xlsx" -> ParseXlsx(file)
      [] kind = "pptx" -> ParsePptx(file)
      [] kind = "txt" -> ParseText(file)
      [] kind = "csv" -> ParseCsv(file)
=============================================================================
