------------------------------ MODULE MCRendering ------------------------------
(* Documents of one or two blocks, over data for two keys.                     *)
EXTENDS Rendering, TLC

Binding(key, required, fallback) == [key |-> key, required |-> required, fallback |-> fallback]
MCBindings == {Binding("k1", TRUE, "None"), Binding("k1", FALSE, "None"), Binding("k2", TRUE, "plain")}
Maybe == MCBindings \cup {NoBinding}
MCStyles == {[uppercase |-> u, alignment |-> "None", indent |-> "None", bold |-> FALSE, italic |-> i] :
               u, i \in BOOLEAN}
            \cup {[uppercase |-> FALSE, alignment |-> "left", indent |-> "own", bold |-> TRUE, italic |-> FALSE]}

Paragraphs == [type : {"text", "header"}, text : Texts, binding : Maybe, style : MCStyles]
MCColumns == <<[header |-> "plain", alignment |-> "left"], [header |-> "lines", alignment |-> "center"]>>
Tables ==
  [type : {"table"}, rows : {"None", "no rows", "rows"}, binding : Maybe, caption : {"None", "lines"},
   columns : {MCColumns, <<[header |-> "long", alignment |-> "left"]>>},
   cells : {<<<<"None", "zero">>, <<"lines">>>>, <<<<"control">>>>, <<<<"plain", "long">>>>}]
Pictures ==
  [type : {"image"}, binding : MCBindings, caption : {"None", "plain"}, wide : BOOLEAN,
   alignment : {"center", "right"}, image : {"None"}]
Signatures ==
  [type : {"signature"}, label : {"plain", "control"}, signer : MCBindings, signerRole : Maybe,
   signedOn : Maybe, includeDate : BOOLEAN, name : {"None"}, role : {"None"}, date : {"None"}]
MCBlocks == Paragraphs \cup Tables \cup Pictures \cup Signatures \cup OtherBlocks

Second == {CHOOSE b \in Paragraphs : b.text = "plain",
           CHOOSE b \in Tables : b.rows = "rows" /\ Len(b.cells) = 2 /\ b.columns = MCColumns,
           CHOOSE b \in Signatures : b.signer.fallback = "plain" /\ b.label = "plain"}
          \cup OtherBlocks
MCDocuments == {<<b>> : b \in MCBlocks} \cup {<<b, c>> : b \in MCBlocks, c \in Second}
                \cup {<<c, b>> : b \in MCBlocks, c \in Second}

MCPayloads == UNION {[keys -> Values] : keys \in {{}, {"k1"}}} \cup {("k1" :> "plain") @@ ("k2" :> "zero")}
=============================================================================
