------------------------------- MODULE Rendering -------------------------------
(***************************************************************************)
(* A document built from blocks: the request is validated and its blocks   *)
(* are resolved against the data, which accepts or refuses it; a worker    *)
(* resolves it again, composes the DOCX and renders the PDF, two programs  *)
(* that are to show the same document.                                     *)
(*                                                                         *)
(* A value or text is one of a few strings, each standing for the texts    *)
(* (or JSON values) the code treats alike.  A file is, for each block, the *)
(* sequence of the lines it shows; margins and spacing are left out.       *)
(***************************************************************************)
EXTENDS Integers, Sequences

CONSTANTS Documents,  \* bound: sequences of blocks
          Payloads    \* bound: functions from some keys to Values

VARIABLES
  blocks, data,
  phase,
  resolved,   \* ResolvedDocument.blocks
  docx, pdf   \* what the files show

renderingVars == <<blocks, data, phase, resolved, docx, pdf>>

\* JSON values: null, 0 or false, "", plain text, text with "&" or "<", text
\* with a line feed, text with control characters, values whose text is longer
\* than their column has room for on a page, lists (empty, of objects, of texts),
\* and images by what their bytes are: a picture, a WEBP, no picture, a picture of
\* which only the header can be read, a picture higher than a page.
Falsy == {"None", "zero", "", "no rows"}
Lists == {"no rows", "rows", "strings"}
Images == {"png", "webp", "no picture", "cut off", "tall"}
Texts == {"None", "", "plain", "a < b", "lines", "control", "long"}
Values == Falsy \cup Lists \cup Images \cup Texts

-----------------------------------------------------------------------------
(* Blocks and their validation: dtos/constructor.py.  A field that is only  *)
(* known when the block is resolved is "None" until then.                   *)

NoBinding == [key |-> "no binding"]
Bindings == [key : STRING, required : BOOLEAN, fallback : Texts]
MaybeBindings == Bindings \cup {NoBinding}

Alignments == {"left", "center", "right", "justify"}
Styles == [uppercase : BOOLEAN, alignment : Alignments \cup {"None"}, indent : STRING,
           bold : BOOLEAN, italic : BOOLEAN]
Columns == [header : Texts \ {"None", ""}, alignment : Alignments]

TextBlocks == [type : {"text", "header"}, text : Texts, binding : MaybeBindings, style : Styles]

\* rows tells what rows is; cells[r] are the values of row r, which may lack
\* the last columns.
TableBlocks == [type : {"table"}, rows : {"None", "no rows", "rows"}, binding : MaybeBindings,
                caption : Texts, columns : Seq(Columns), cells : Seq(Seq(Values))]

\* wide: width_mm is more than the margins of the page leave.
ImageBlocks == [type : {"image"}, binding : Bindings, caption : Texts, wide : BOOLEAN,
                alignment : {"left", "center", "right"}, image : {"None"}]
SignatureBlocks ==
  [type : {"signature"}, label : Texts \ {"None"}, signer : Bindings,
   signerRole : MaybeBindings, signedOn : MaybeBindings, includeDate : BOOLEAN,
   name : {"None"}, role : {"None"}, date : {"None"}]
OtherBlocks == [type : {"page_break", "spacer"}]

Blocks == TextBlocks \cup TableBlocks \cup ImageBlocks \cup SignatureBlocks \cup OtherBlocks

\* validate_content_source, validate_rows_source; "None" is an absent field.
Valid(b) ==
  CASE b.type \in {"text", "header"} -> b.text \notin {"None", ""} \/ b.binding # NoBinding
    [] b.type = "table" -> b.rows # "None" \/ b.binding # NoBinding
    [] OTHER -> TRUE

-----------------------------------------------------------------------------
(* Resolution: VariableMapperService *)

Lookup(binding) ==
  IF binding.key \in DOMAIN data THEN data[binding.key] ELSE binding.fallback

\* _resolve_binding
Resolvable(binding) ==
  binding # NoBinding /\ (binding.required => Lookup(binding) # "None")

\* _resolve_optional_binding
Optional(binding) == IF binding = NoBinding THEN "None" ELSE Lookup(binding)

\* block.text or ..., block.rows or ...
Own(value, binding) == IF value \in {"None", "", "no rows"} THEN Lookup(binding) ELSE value

\* Mutant of TableRowsOK: any value will do.
TableRowsOKAny(b) == b.rows = "rows" \/ Resolvable(b.binding)

TableRowsOK(b) == b.rows = "rows" \/ (Resolvable(b.binding) /\ Lookup(b.binding) \in Lists)

\* _resolve_block raises no ValidationError.
Accepts(b) ==
  CASE b.type \in {"text", "header"} -> b.text \notin {"None", ""} \/ Resolvable(b.binding)
    [] b.type = "table" -> TableRowsOK(b)
    [] b.type = "image" -> Resolvable(b.binding) /\ Lookup(b.binding) \in Images
    [] b.type = "signature" -> Resolvable(b.signer)
    [] OTHER -> TRUE

\* The block with what its bindings stand for.
ResolvedBlock(b) ==
  CASE b.type \in {"text", "header"} -> [b EXCEPT !.text = Own(b.text, b.binding)]
    [] b.type = "table" -> [b EXCEPT !.rows = Own(b.rows, b.binding)]
    [] b.type = "image" -> [b EXCEPT !.image = Lookup(b.binding)]
    [] b.type = "signature" ->
         [b EXCEPT !.name = Lookup(b.signer), !.role = Optional(b.signerRole),
                   !.date = Optional(b.signedOn)]
    [] OTHER -> b

-----------------------------------------------------------------------------
(* What is shown.  part: the kind of paragraph; indent: of the first line. *)

Style(alignment, indent, bold) ==
  [uppercase |-> FALSE, alignment |-> alignment, indent |-> indent, bold |-> bold, italic |-> FALSE]
Line(part, text, style) == [part |-> part, text |-> text, style |-> style]
Mark(part) == Line(part, "", Style("none", "none", FALSE))

Or(value, default) == IF value = "None" THEN default ELSE value

\* row.get(column["key"], "")
Cell(b, r, c) ==
  [column |-> b.columns[c],
   value  |-> IF c \in DOMAIN b.cells[r] THEN b.cells[r][c] ELSE ""]

\* The cells of a table, row by row.
CellsOf(b) ==
  LET width == Len(b.columns)
  IN IF b.rows # "rows" THEN <<>>
     ELSE [i \in 1..Len(b.cells) * width |->
             Cell(b, ((i - 1) \div width) + 1, ((i - 1) % width) + 1)]

Unless(absent, lines) == IF absent THEN <<>> ELSE lines

Shown(lines) == {lines[i].text : i \in DOMAIN lines}

-----------------------------------------------------------------------------
(* DOCX: DocumentComposerService *)

\* _apply_text_style
DocxStyle(style, alignment, indent) ==
  [style EXCEPT !.alignment = Or(@, alignment), !.indent = Or(@, indent)]

DocxHeader(b) ==
  <<Line("header", b.text,
         [DocxStyle(b.style, "center", "zero") EXCEPT !.bold = TRUE, !.italic = FALSE])>>
DocxText(b) == <<Line("text", Or(b.text, ""), DocxStyle(b.style, "justify", "default"))>>

DocxCell(cell) == Line("cell", Or(cell.value, ""), Style(cell.column.alignment, "zero", FALSE))
DocxTable(b) ==
  Unless(b.caption \in Falsy, <<Line("caption", b.caption, Style("center", "zero", TRUE))>>)
  \o [c \in DOMAIN b.columns |-> Line("column", b.columns[c].header, Style("center", "zero", TRUE))]
  \o [i \in DOMAIN CellsOf(b) |-> DocxCell(CellsOf(b)[i])]

DocxImage(b) ==
  <<Line("image", b.image, Style(b.alignment, "zero", FALSE))>>
  \o Unless(b.caption \in Falsy, <<Line("caption", b.caption, Style("center", "zero", FALSE))>>)

DocxSignature(b) ==
  LET Signed(text) == Line("signed", text, Style("right", "zero", FALSE))
  IN <<Signed(b.label), Signed(b.name)>>
     \o Unless(b.role \in Falsy, <<Signed(b.role)>>)
     \o Unless(~b.includeDate \/ b.date \in Falsy, <<Signed(b.date)>>)

DocxBlock(b) ==
  CASE b.type = "header" -> DocxHeader(b)
    [] b.type = "text" -> DocxText(b)
    [] b.type = "table" -> DocxTable(b)
    [] b.type = "image" -> DocxImage(b)
    [] b.type = "signature" -> DocxSignature(b)
    [] OTHER -> <<Mark(b.type)>>

\* A row has to be an object, add_picture reads the headers of pictures but not
\* of a WEBP, and the XML of a run has no control characters.
Composes(b) ==
  /\ b.type = "table" => b.rows \in {"rows", "no rows"}
  /\ b.type = "image" => b.image \notin {"webp", "no picture"}
  /\ "control" \notin Shown(DocxBlock(b))

-----------------------------------------------------------------------------
(* PDF: PdfRenderService *)

\* _escape: what a paragraph shows of a text; a line feed is a blank.
Escaped(text) == IF text = "lines" THEN "one line" ELSE text

\* _render_text: line feeds become tags before the text is put in upper case,
\* but so do "&" and "<", whose entities have no name in upper case.
RenderText(text, style) == IF style.uppercase /\ text = "a < b" THEN "A &LT; B" ELSE text

\* _build_block_style
PdfStyle(style, alignment, indent, bold) ==
  [style EXCEPT !.alignment = Or(@, alignment), !.indent = Or(@, indent), !.bold = @ \/ bold]

PdfHeader(b) ==
  <<Line("header", RenderText(b.text, b.style), PdfStyle(b.style, "center", "zero", TRUE))>>

PdfText(b) ==
  LET text == IF b.text \in Falsy THEN "" ELSE b.text
  IN <<Line("text", RenderText(text, b.style), PdfStyle(b.style, "justify", "default", FALSE))>>

PdfPlain(part, text, alignment, bold) ==
  Line(part, Escaped(text), PdfStyle(Style("None", "None", FALSE), alignment, "zero", bold))

PdfCell(cell) == PdfPlain("cell", cell.value, cell.column.alignment, FALSE)
PdfTable(b) ==
  Unless(b.caption \in Falsy, <<PdfPlain("caption", b.caption, "center", TRUE)>>)
  \o [c \in DOMAIN b.columns |-> PdfPlain("column", b.columns[c].header, "center", TRUE)]
  \o [i \in DOMAIN CellsOf(b) |-> PdfCell(CellsOf(b)[i])]

PdfImage(b) ==
  <<Line("image", b.image, Style(b.alignment, "zero", FALSE))>>
  \o Unless(b.caption \in Falsy, <<PdfPlain("caption", b.caption, "center", FALSE)>>)

PdfSigned(text) == <<PdfPlain("signed", text, "right", FALSE)>>

\* Mutant of PdfSignature: the date does not ask for include_date.
PdfSignatureDated(b) ==
  PdfSigned(b.label) \o PdfSigned(b.name)
  \o Unless(b.role \in Falsy, PdfSigned(b.role))
  \o Unless(b.date \in Falsy, PdfSigned(b.date))

PdfSignature(b) ==
  PdfSigned(b.label) \o PdfSigned(b.name)
  \o Unless(b.role \in Falsy, PdfSigned(b.role))
  \o Unless(~b.includeDate \/ b.date \in Falsy, PdfSigned(b.date))

PdfBlock(b) ==
  CASE b.type = "header" -> PdfHeader(b)
    [] b.type = "text" -> PdfText(b)
    [] b.type = "table" -> PdfTable(b)
    [] b.type = "image" -> PdfImage(b)
    [] b.type = "signature" -> PdfSignature(b)
    [] OTHER -> <<Mark(b.type)>>

\* No row of a table is, with the row of headers, higher than a page.
RowsFit(b) ==
  /\ \A c \in DOMAIN b.columns : b.columns[c].header # "long"
  /\ \A i \in DOMAIN CellsOf(b) : CellsOf(b)[i].value # "long"

\* pdf.build: paragraphs are split between pages, rows and pictures are not, and
\* pictures are decoded.
Prints(b) ==
  /\ b.type = "table" => RowsFit(b)
  /\ b.type = "image" => ~b.wide /\ b.image \notin {"cut off", "tall"}

-----------------------------------------------------------------------------
RenderingInit ==
  /\ blocks \in Documents /\ data \in Payloads
  /\ blocks \in Seq(Blocks)
  /\ \A key \in DOMAIN data : data[key] \in Values
  /\ phase = "requested"
  /\ resolved = <<>> /\ docx = <<>> /\ pdf = <<>>

\* create_job: the request is refused, or queued.
CreateDocument ==
  /\ phase = "requested"
  /\ phase' = IF \A i \in DOMAIN blocks : Valid(blocks[i]) /\ Accepts(blocks[i])
              THEN "queued" ELSE "refused"
  /\ UNCHANGED <<blocks, data, resolved, docx, pdf>>

Map(document) == [i \in DOMAIN document |-> ResolvedBlock(document[i])]

\* process_job: the worker resolves the blocks again and composes the DOCX, ...
Compose ==
  /\ phase = "queued"
  /\ resolved' = Map(blocks)
  /\ IF \A i \in DOMAIN blocks : Accepts(blocks[i]) /\ Composes(resolved'[i])
     THEN /\ docx' = [i \in DOMAIN blocks |-> DocxBlock(resolved'[i])]
          /\ phase' = "composed"
     ELSE phase' = "failed" /\ UNCHANGED docx
  /\ UNCHANGED <<blocks, data, pdf>>

\* ... then the PDF.
Render ==
  /\ phase = "composed"
  /\ IF \A i \in DOMAIN resolved : Prints(resolved[i])
     THEN /\ pdf' = [i \in DOMAIN resolved |-> PdfBlock(resolved[i])]
          /\ phase' = "rendered"
     ELSE phase' = "failed" /\ UNCHANGED pdf
  /\ UNCHANGED <<blocks, data, resolved, docx>>

RenderingNext == CreateDocument \/ Compose \/ Render

RenderingSpec == RenderingInit /\ [][RenderingNext]_renderingVars

-----------------------------------------------------------------------------
(* Properties *)

Differ(d, p) ==
  \/ d.part = "text" /\ d.text \in {"zero", "no rows"} /\ p.text = ""
  \/ d.part = "cell" /\ d.text = "" /\ p.text = "None"
  \/ d.part \notin {"text", "header"} /\ d.text = "lines" /\ p.text = "one line"
  \/ d.style.uppercase /\ d.text = "a < b"

SameLine(d, p) ==
  /\ d.part = p.part
  /\ d.text = p.text \/ Differ(d, p)
  /\ \A field \in DOMAIN d.style :
       d.style[field] = p.style[field] \/ (d.part = "header" /\ field = "italic")

SameLines(ds, ps) == Len(ds) = Len(ps) /\ \A i \in DOMAIN ds : SameLine(ds[i], ps[i])

\* The two files show the same paragraphs in the same order, with the same text,
\* alignment, indent and weight whatever the style overrides, except: a 0, false or
\* empty list in a text block (only in the DOCX), a null in a cell (the PDF shows
\* "None"), line feeds outside text blocks and headers, "&" and "<" in upper case,
\* and headers in italics (only in the PDF) (compose, PdfRenderService.render).
FormatsAgree ==
  phase = "rendered" =>
    DOMAIN docx = DOMAIN pdf /\ \A i \in DOMAIN docx : SameLines(docx[i], pdf[i])

\* What the mapper does not look at: rows that are not objects, the bytes of an
\* image, how large it or a row is, and control characters in a text that is shown.
Unrenderable(b) ==
  \/ b.type = "table" /\ (b.rows = "strings" \/ ~RowsFit(b))
  \/ b.type = "image" /\ (b.wide \/ b.image \in Images \ {"png"})
  \/ "control" \in Shown(DocxBlock(b))

\* A request that was accepted (and billed) fails in the worker only for rows that
\* are not objects, an image that is no picture both libraries read or is larger than
\* a page, a row of a table higher than a page, or control characters (create_job,
\* process_job, validate_image_data_url).
AcceptedIsRendered ==
  phase = "failed" => \E i \in DOMAIN resolved : Unrenderable(resolved[i])
=============================================================================
