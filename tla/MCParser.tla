------------------------------ MODULE MCParser ------------------------------
(***************************************************************************)
(* Texts for the parser, with those of MCLexer.  Each set holds all that   *)
(* can be put together from some chunks: right programs and, for the most  *)
(* part, wrong ones.                                                       *)
(***************************************************************************)
EXTENDS Parser, MCLexer, SequencesExt

Spaced == {"if", "else", "while", "return", "function", "extern", "int", "bool", "true"}
MCLetter == {"x", "u"} \cup Spaced
MCKeyword ==
  (<<"if">> :> "IF") @@ (<<"else">> :> "ELSE") @@ (<<"while">> :> "WHILE")
  @@ (<<"return">> :> "RETURN") @@ (<<"function">> :> "FUNCTION") @@ (<<"extern">> :> "EXTERN")
  @@ (<<"int">> :> "INT") @@ (<<"bool">> :> "BOOL") @@ (<<"true">> :> "TRUE")

Chunk(piece) == IF piece \in Spaced THEN <<piece, " ">> ELSE <<piece>>
Chunks(pieces) == {Chunk(piece) : piece \in pieces}

\* What n chunks at the most put together
Joined(chunks, n) == {FlattenSeq(t) : t \in TextsOver(chunks, n)}
Around(before, texts, after) == {before \o t \o after : t \in texts}

Test == <<"(", "x", ")">>

\* Operators and how they group; calls and what is in their parentheses
Expressions == Around(<<>>, Joined(Chunks({"x", "1", "-", "*", "(", ")", ","}), 5), <<";">>)
Comparisons ==
  Around(<<"x">>, Joined({<<"x">>, <<"!">>, <<"=", "=">>, <<"<">>, <<"+">>, <<"&", "&">>, <<"|", "|">>}, 4),
         <<"x", ";">>)

\* Statements in statements, with the else of some if
Branches ==
  Joined({<<"if">> \o Test, <<"while">> \o Test, <<"else", " ">>, <<";">>, <<"{">>, <<"}">>}, 5)

\* Everything that a statement begins with, and errors in its middle
Statements ==
  Joined(Chunks({"if", "else", "return", "function", "extern", "int", "true",
                 "x", "1", "=", "+", "(", ")", "{", ";"}), 3)
    \cup Around(<<"int", " ", "x">>, Joined(Chunks({"x", "1", "=", "+", "int", "return", ";", "}"}), 4), <<>>)

Functions ==
  UNION {Around(before, Joined({<<"int", " ", "x">>, <<"bool">>, <<",">>, <<")">>, <<"-", ">", "int">>,
                                <<"{">>, <<"}">>, <<";">>}, 4), <<>>) :
           before \in {<<"function", " ", "x", "(">>, <<"extern", " ", "function", " ", "x", "(", "int", " ", "x">>,
                       <<"function", " ", "x", "(", ")", "{">>}}

MCTexts == Plain \cup Expressions \cup Comparisons \cup Branches \cup Statements \cup Functions
=============================================================================
