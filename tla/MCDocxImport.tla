----------------------------- MODULE MCDocxImport -----------------------------
(* Documents for DocxImport.  The text of paragraph 1 varies; it is in a body,  *)
(* in a table cell, in a header two sections share, and in a merged cell.       *)
EXTENDS DocxImport, TLC

Cell(paras) == [paragraphs |-> paras, tables |-> <<>>]
Nothing == Cell(<<>>)
Texts == UNION {[1..n -> {"word", "blank", "open"}] : n \in 1..2}
         \cup {<<"blank", "word", "blank">>, <<"dots", "dots">>, <<"lbrace", "phrase", "rbrace">>,
               <<"lbrace", "word", "blank", "rbrace">>, <<"open", "open", "word", "close">>,
               <<"open", "lbrace", "word", "rbrace", "close">>,
               <<"open", "number", "comma", "number", "close">>,
               <<"word", "colon", "open", "word", "close">>,
               <<"word", "comma", "number", "colon", "blank">>}
Runs(text) ==
  {<<text>>}
  \cup {<<[i \in 1..n |-> text[i]], <<>>, [i \in 1..(Len(text) - n) |-> text[n + i]]>> :
          n \in {1, 2} \cap 1..Len(text)}

InBody(runs) ==
  [body |-> Cell(<<1>>), headers |-> <<Nothing>>, footers |-> <<Nothing>>, runs |-> <<runs>>]
InLinkedHeaders(runs) ==
  [body |-> Nothing, headers |-> <<Cell(<<1>>), Cell(<<1>>)>>, footers |-> <<Nothing, Nothing>>,
   runs |-> <<runs>>]
InTables(runs) ==
  [body |-> [paragraphs |-> <<>>,
             tables |-> <<<<<<Cell(<<2>>), Cell(<<2>>)>>,
                            <<Cell(<<1>>), [paragraphs |-> <<>>, tables |-> <<<<<<Cell(<<3>>)>>>>>>]>>>>>>],
   headers |-> <<Nothing>>, footers |-> <<Nothing>>,
   runs |-> <<runs, <<<<"word">>>>, <<<<"blank">>, <<"lbrace", "word", "rbrace">>>>>>]

MCDocuments ==
  UNION {{InBody(r), InLinkedHeaders(r), InTables(r)} : r \in UNION {Runs(t) : t \in Texts}}
MCValues == {<<>>, <<"value">>, <<"value", "more">>}
=============================================================================
