------------------------------ MODULE DocxImport ------------------------------
(***************************************************************************)
(* From an ordinary DOCX file to a filled one: the analysis looks for      *)
(* fields in every paragraph, the user confirms some of them or selects    *)
(* spans by hand, and the renderer replaces the spans inside the runs of   *)
(* the original document.                                                  *)
(*                                                                         *)
(* A text is a sequence of tokens, each standing for a stretch of          *)
(* characters the patterns tell apart: "word" (letters), "phrase" (words   *)
(* with spaces), "number", "blank" and "dots" (four or more underscores or *)
(* dots), "colon" and "comma" (signs that end a field's context or a       *)
(* label), "open" and "close" (brackets), "lbrace" and "rbrace" (two       *)
(* braces).  A paragraph is a sequence of runs, a run a text.  A container *)
(* has paragraphs and tables, a table rows of cells, a cell is a           *)
(* container.  One paragraph may have several places: merged cells are     *)
(* listed once per column, and a header that is linked to the previous     *)
(* section is that section's header.                                       *)
(***************************************************************************)
EXTENDS Integers, SequencesExt

CONSTANTS Documents,  \* [body, headers, footers (one per section), runs (of every paragraph)]
          Values,     \* texts a key may be given
          MaxChosen,  \* bound: bindings
          MaxNesting  \* bound: tables around a paragraph

ASSUME DocxBounds == MaxChosen \in Nat \ {0} /\ MaxNesting \in Nat
ASSUME TextsAssumption ==
  /\ Values \subseteq Seq(STRING)
  /\ \A d \in Documents : d.runs \in Seq(Seq(Seq(STRING)))

VARIABLES
  document,
  phase,
  candidates,  \* what the analysis has found
  bindings,    \* what the user has confirmed: binding i has the key i
  data,        \* data[i]: the value of key i
  result,      \* the runs of every paragraph, or Refused
  todo         \* bindings not replaced yet

docxVars == <<document, phase, candidates, bindings, data, result, todo>>

Refused == <<>>
Missing == <<"missing">>

-----------------------------------------------------------------------------
(* Paths: iter_document_paragraph_targets, resolve_paragraph_target.       *)
(* A walk begins at a root, the body or a section's header or footer, and   *)
(* goes into a table, row and cell per step; a path is a walk and a number. *)

Text(runs) == FlattenSeq(runs)
TextOf(paras) == FlattenSeq([i \in DOMAIN paras |-> Text(document.runs[paras[i]])])

Roots == {<<"body", 0>>} \cup ({"header", "footer"} \X DOMAIN document.headers)
Container(root) ==
  CASE root[1] = "body" -> document.body
    [] root[1] = "header" -> document.headers[root[2]]
    [] root[1] = "footer" -> document.footers[root[2]]

\* What the iteration knows of a container: what it is part of and the text above it.
Place(container, source, header) ==
  [container |-> container, source |-> source, header |-> header]

\* <<table, row, cell>>
Steps(container) ==
  UNION {UNION {{<<t, r, c>> : c \in DOMAIN container.tables[t][r]} :
                r \in DOMAIN container.tables[t]} :
         t \in DOMAIN container.tables}

\* Cells under the first row know the text above them.
Inside(place, step) ==
  LET table == place.container.tables[step[1]]
      above == table[1]
  IN Place(table[step[2]][step[3]], place.source,
           IF step[2] > 1 /\ step[3] <= Len(above) THEN TextOf(above[step[3]].paragraphs)
           ELSE <<>>)

\* The containers under n tables.
Places[n \in Nat] ==
  IF n = 0 THEN [walk \in {<<root>> : root \in Roots} |->
                   Place(Container(walk[1]), walk[1][1], <<>>)]
  ELSE LET Outer == Places[n - 1]
       IN [walk \in UNION {{Append(outer, step) : step \in Steps(Outer[outer].container)} :
                           outer \in DOMAIN Outer} |->
             Inside(Outer[Front(walk)], Last(walk))]

PlaceOf(path) == Places[Len(path.walk) - 1][path.walk]
Paragraph(path) == PlaceOf(path).container.paragraphs[path.number]
Paths ==
  UNION {UNION {{[walk |-> walk, number |-> p] :
                   p \in DOMAIN Places[n][walk].container.paragraphs} :
                walk \in DOMAIN Places[n]} :
         n \in 0..MaxNesting}

ResolveCell(container, step) == container.tables[step[1]][step[2]][step[3]]

Resolve(path) ==
  LET at[n \in 1..Len(path.walk)] ==
        IF n = 1 THEN Container(path.walk[1]) ELSE ResolveCell(at[n - 1], path.walk[n])
  IN at[Len(path.walk)].paragraphs[path.number]

-----------------------------------------------------------------------------
(* Analysis: _extract_candidates *)

StripEnd(text, tokens) == SubSeq(text, 1, SelectLastInSeq(text, LAMBDA t : t \notin tokens))
LastPart(text, separators) ==
  SubSeq(text, SelectLastInSeq(text, LAMBDA t : t \in separators) + 1, Len(text))

\* _clean_label: brackets around a label and a number or signs at its beginning are
\* dropped, so that "4" is no label.
Brackets == {"open", "close"}
Clean(label) ==
  LET inner == StripEnd(Reverse(StripEnd(label, Brackets)), Brackets)
  IN Reverse(StripEnd(inner, {"number", "colon", "dots"}))
HasLabel(text) == Clean(text) # <<>>

\* PLACEHOLDER_PATTERN: a key in braces, in which there may be blanks, too.
PlaceholderAt(text, s, e) ==
  /\ text[s] = "lbrace" /\ text[e] = "rbrace" /\ e > s + 1
  /\ text[s + 1] = "word"
  /\ \A i \in (s + 1)..(e - 1) : text[i] \in {"word", "number", "blank", "dots"}

\* Mutant of BracketAt: a label may have brackets.
BracketAtAny(text, s, e) == text[s] = "open" /\ text[e] = "close" /\ e > s + 1

\* BRACKET_PATTERN: from an opening bracket to the next one, which closes it.
BracketAt(text, s, e) ==
  /\ text[s] = "open" /\ text[e] = "close" /\ e > s + 1
  /\ \A i \in (s + 1)..(e - 1) : text[i] \notin Brackets

\* _has_bracket_field_context
Short(prefix) ==
  Len(prefix) <= 1 /\ \A i \in DOMAIN prefix : prefix[i] \notin {"word", "phrase", "blank", "dots"}
InContext(place, prefix, suffix) ==
  \/ prefix = <<>> /\ suffix = <<>>
  \/ prefix # <<>> /\ Last(prefix) = "colon"
  \/ place.source # "body" /\ Short(prefix)

\* _derive_blank_label: the text above the cell, or else the last part between
\* commas of what is left of the blank.
BlankLabel(place, prefix) ==
  IF place.header # <<>> THEN place.header
  ELSE LastPart(StripEnd(StripEnd(prefix, {"colon", "dots"}), {"comma", "dots"}), {"comma", "dots"})

\* BLANK_PATTERN: the longest stretch of one kind.
Ranges(text) == {q \in (1..Len(text)) \X (1..Len(text)) : q[1] <= q[2]}
Alike(text, s, e) == \A i \in s..e : text[i] = text[s]
BlankAt(text, s, e) ==
  /\ text[s] \in {"blank", "dots"} /\ Alike(text, s, e)
  /\ \A q \in Ranges(text) : q[1] <= s /\ e <= q[2] /\ Alike(text, q[1], q[2]) => q = <<s, e>>

DetectionKinds == {"existing_placeholder", "bracketed_label", "blank_span"}

\* One of the patterns finds a field from s to e.
FieldAt(place, text, kind, s, e) ==
  LET prefix == SubSeq(text, 1, s - 1)
      suffix == SubSeq(text, e + 1, Len(text))
  IN CASE kind = "existing_placeholder" -> PlaceholderAt(text, s, e)
       [] kind = "bracketed_label" ->
            /\ BracketAt(text, s, e) /\ HasLabel(SubSeq(text, s + 1, e - 1))
            /\ InContext(place, prefix, suffix)
       [] kind = "blank_span" ->
            BlankAt(text, s, e) /\ HasLabel(BlankLabel(place, prefix))

Span(path, text, kind, s, e) ==
  [path |-> path, kind |-> kind, start |-> s, end |-> e, raw |-> SubSeq(text, s, e)]

TextAt(path) == Text(document.runs[Paragraph(path)])

\* _extract_candidates
Fields(path) ==
  LET text == TextAt(path)
  IN UNION {{Span(path, text, kind, q[1], q[2]) :
               q \in {r \in Ranges(text) : FieldAt(PlaceOf(path), text, kind, r[1], r[2])}} :
            kind \in DetectionKinds}

Analyze ==
  /\ phase = "uploaded"
  /\ phase' = "analyzed"
  /\ candidates' = UNION {Fields(path) : path \in Paths}
  /\ UNCHANGED <<document, bindings, data, result, todo>>

\* confirm_bindings: some of the candidates, in any order.
ConfirmSpans ==
  /\ phase = "analyzed"
  /\ \E n \in 1..MaxChosen : \E chosen \in [1..n -> candidates] :
       /\ IsInjective(chosen)
       /\ bindings' = chosen
  /\ phase' = "confirmed"
  /\ UNCHANGED <<document, candidates, data, result, todo>>

\* templateize_from_selections: two spans of any paragraph that has text.
Templateize ==
  /\ phase = "analyzed"
  /\ LET Selections(path) == {Span(path, TextAt(path), "manual_selection", q[1], q[2]) :
                                q \in Ranges(TextAt(path))}
         all == UNION {Selections(path) : path \in Paths}
     IN \E one, two \in all : one # two /\ bindings' = <<one, two>>
  /\ phase' = "selected"
  /\ UNCHANGED <<document, candidates, data, result, todo>>

-----------------------------------------------------------------------------
(* Rendering: DocxTemplateRenderService *)

\* prepare_payload: a value for every key that is required.
SubmitValues ==
  /\ phase \in {"confirmed", "selected"}
  /\ \E d \in [DOMAIN bindings -> Values \cup {Missing}] : data' = d
  /\ phase' = "submitted"
  /\ UNCHANGED <<document, candidates, bindings, result, todo>>

\* Keys without a value are left alone.
Filled == {i \in DOMAIN bindings : data[i] # Missing}

\* render: a worker loads the document and sorts the replacements.
Load ==
  /\ phase = "submitted"
  /\ phase' = "rendering"
  /\ result' = document.runs
  /\ todo' = Filled
  /\ UNCHANGED <<document, candidates, bindings, data>>

\* The span still holds what was confirmed.
Matches(runs, span) ==
  span.end <= Len(Text(runs)) /\ SubSeq(Text(runs), span.start, span.end) = span.raw

\* Where runs end: run k has the tokens from Cursor(runs)[k - 1] + 1 on.
Cursor(runs) ==
  LET cursor[k \in 0..Len(runs)] == IF k = 0 THEN 0 ELSE cursor[k - 1] + Len(runs[k])
  IN cursor

\* _replace_span_in_runs: the value goes to the first run the span touches.
ReplaceSpan(runs, start, end, value) ==
  LET first(k) == Cursor(runs)[k - 1] + 1
      touched == {k \in DOMAIN runs : Cursor(runs)[k] >= start /\ first(k) <= end}
      Piece(k) == SubSeq(runs[k], 1, start - first(k))
                  \o (IF \A i \in touched : k <= i THEN value ELSE <<>>)
                  \o SubSeq(runs[k], end - first(k) + 2, Len(runs[k]))
  IN [k \in DOMAIN runs |-> IF k \in touched THEN Piece(k) ELSE runs[k]]

\* Mutant of Before: from left to right.
BeforeForward(i, j) ==
  \/ bindings[i].start < bindings[j].start
  \/ bindings[i].start = bindings[j].start /\ i < j

\* Replacements of a paragraph go from right to left, ...
Before(i, j) ==
  \/ bindings[i].start > bindings[j].start
  \/ bindings[i].start = bindings[j].start /\ i < j

\* ... and paragraphs in the order their paths were first bound.
FirstOf(path) == CHOOSE i \in Filled : bindings[i].path = path /\
                   \A j \in Filled : bindings[j].path = path => i <= j
InOrder(i, j) ==
  IF bindings[i].path = bindings[j].path THEN Before(i, j)
  ELSE FirstOf(bindings[i].path) < FirstOf(bindings[j].path)

\* The next replacement of the loop; the first that fails ends the rendering.
Replace ==
  /\ phase = "rendering"
  /\ \E i \in todo :
       LET span == bindings[i]
           para == Resolve(span.path)
       IN /\ \A j \in todo \ {i} : InOrder(i, j)
          /\ IF Matches(result[para], span)
             THEN /\ result' = [result EXCEPT ![para] =
                                  ReplaceSpan(@, span.start, span.end, data[i])]
                  /\ todo' = todo \ {i}
                  /\ UNCHANGED phase
             ELSE /\ result' = Refused
                  /\ phase' = "rendered"
                  /\ UNCHANGED todo
  /\ UNCHANGED <<document, candidates, bindings, data>>

\* document.save
SaveDocument ==
  /\ phase = "rendering" /\ todo = {}
  /\ phase' = "rendered"
  /\ UNCHANGED <<document, candidates, bindings, data, result, todo>>

-----------------------------------------------------------------------------
\* Documents are nested as deep as the bound, and their paragraphs have runs.
DocxInit ==
  /\ document \in Documents
  /\ DOMAIN Places[MaxNesting + 1] = {}
  /\ \A path \in Paths : Paragraph(path) \in DOMAIN document.runs
  /\ phase = "uploaded"
  /\ candidates = {}
  /\ bindings = <<>> /\ data = <<>>
  /\ result = <<>> /\ todo = {}

DocxNext ==
  \/ Analyze \/ ConfirmSpans \/ Templateize \/ SubmitValues
  \/ Load \/ Replace \/ SaveDocument

DocxSpec == DocxInit /\ [][DocxNext]_docxVars

-----------------------------------------------------------------------------
(* Properties *)

\* Where the filled spans are in the document, told from the list of places
\* and not from how paths are resolved.
Filling(i) == Paragraph(bindings[i].path)
OnePath ==
  \A i, j \in Filled : Filling(i) = Filling(j) => bindings[i].path = bindings[j].path
Apart(I) ==
  \A i, j \in I :
    i # j /\ Filling(i) = Filling(j) =>
      bindings[i].end < bindings[j].start \/ bindings[j].end < bindings[i].start

\* What is at position p of a text with values in the place of spans: a value
\* comes where its span begins, and every token outside the spans stays.
ValueAt(edits, p) ==
  IF \E e \in edits : e.start = p THEN (CHOOSE e \in edits : e.start = p).value ELSE <<>>
Kept(edits, p, token) ==
  IF \E e \in edits : e.start <= p /\ p <= e.end THEN <<>> ELSE <<token>>

\* A run whose first token has the position from + 1, up to its token n.
SplicedUpTo(run, from, edits) ==
  LET spliced[n \in 0..Len(run)] ==
        IF n = 0 THEN <<>>
        ELSE spliced[n - 1] \o (ValueAt(edits, from + n) \o Kept(edits, from + n, run[n]))
  IN spliced
Spliced(runs, edits) ==
  [k \in DOMAIN runs |-> SplicedUpTo(runs[k], Cursor(runs)[k - 1], edits)[Len(runs[k])]]

Edit(i) == [start |-> bindings[i].start, end |-> bindings[i].end, value |-> data[i]]
EditsOf(I, para) == {Edit(i) : i \in {j \in I : Filling(j) = para}}

\* The document with the spans of I replaced, each run by itself.
Exact(I) == [para \in DOMAIN document.runs |-> Spliced(document.runs[para], EditsOf(I, para))]

\* A value none of whose texts the document has.
Fresh(value) ==
  /\ value # <<>>
  /\ \A q \in DOMAIN value : \A para \in DOMAIN document.runs :
       \A k \in DOMAIN document.runs[para] : \A n \in DOMAIN document.runs[para][k] :
         document.runs[para][k][n] # value[q]

\* If the filled spans do not overlap, the document delivered is the original
\* but for the spans, run by run, whatever the values are; if they do, it is
\* refused, unless a value is empty or has a text of the document.  No paragraph
\* may be bound through two of its places (render, _replace_span_in_runs).
RefusedOrExact ==
  phase = "rendered" /\ OnePath =>
    IF Apart(Filled) THEN result = Exact(Filled)
    ELSE (\A i \in Filled : Fresh(data[i])) => result = Refused

\* Fields that were found in one paragraph do not overlap, unless a bracket is
\* around another field or a placeholder around a blank, which may be part of its
\* key: any choice without such a pair can be rendered (the three patterns of
\* _extract_candidates only skip equal spans).
Surrounds(c, d) ==
  /\ c.start < d.start /\ d.end < c.end
  /\ \/ c.kind = "bracketed_label" /\ d.kind # "bracketed_label"
     \/ c.kind = "existing_placeholder" /\ d.kind = "blank_span"
FieldsNest ==
  \A c, d \in candidates :
    c # d /\ c.path = d.path =>
      c.end < d.start \/ d.end < c.start \/ Surrounds(c, d) \/ Surrounds(d, c)
=============================================================================
