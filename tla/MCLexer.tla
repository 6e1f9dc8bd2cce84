------------------------------- MODULE MCLexer -------------------------------
(***************************************************************************)
(* Texts for the lexer.                                                    *)
(***************************************************************************)
EXTENDS Lexer

LexerKeyword == (<<"if">> :> "IF") @@ (<<"int">> :> "INT")

TextsOver(pieces, n) == UNION {[1 .. k -> pieces] : k \in 0 .. n}

\* Comments, in and out of lines
Comments == TextsOver({"/", "*", "\n", "x"}, 6)

Plain ==
  {t \in Comments : HarmlessLines(t)}
    \cup TextsOver({"x", "if", "u", "1", "9", " ", "$", "/", "*"}, 4)
    \cup TextsOver({"=", "!", "<", ">", "-", "&", "|", "/", ";", "\n"}, 4)
=============================================================================
