-------------------------------- MODULE Lexer --------------------------------
(***************************************************************************)
(* The lexer (src/src/lexer.cpp).  A text is a sequence of pieces: each is *)
(* a character, or letters in a row that no token ends between (so that a  *)
(* keyword is one piece).  Columns count pieces.                           *)
(*                                                                         *)
(* A step is one round of the loop of next_token or, inside a comment of   *)
(* several lines, one round of the loop there.  The lexer is asked for     *)
(* tokens until there are none; the parser then has them all.              *)
(***************************************************************************)
EXTENDS Integers, Sequences, FiniteSets, FiniteSetsExt, TLC

CONSTANTS
  Texts,      \* the texts of the instance
  Letter,     \* pieces that words begin with
  Keyword,    \* keyword_map: the types of the words that are keywords
  MaxLiteral  \* the greatest literal, 2^64 - 1

Table(rows) == [c \in {r[1] : r \in rows} |-> (CHOOSE r \in rows : r[1] = c)[2]]

DigitValue == Table({<<"0", 0>>, <<"1", 1>>, <<"2", 2>>, <<"3", 3>>, <<"4", 4>>,
                     <<"5", 5>>, <<"6", 6>>, <<"7", 7>>, <<"8", 8>>, <<"9", 9>>})
Digit      == DOMAIN DigitValue
Blank      == {" ", "\t", "\r"}

\* Tokens of one character, and those that a second one changes.
One == [c \in {"*", "+", "(", ")", "{", "}", ",", ";"} |->
          CASE c = "*" -> "STAR"   [] c = "+" -> "PLUS"   [] c = "(" -> "LPAREN"
            [] c = ")" -> "RPAREN" [] c = "{" -> "LBRACE" [] c = "}" -> "RBRACE"
            [] c = "," -> "COMMA"  [] c = ";" -> "SEMICOLON"]
Two == Table({<<"!", <<"=", "NOT", "NE">>>>,   <<"-", <<">", "MINUS", "ARROW">>>>,
              <<"&", <<"&", "AMP", "AND">>>>,  <<"|", <<"|", "PIPE", "OR">>>>,
              <<"=", <<"=", "ASSIGN", "EQ">>>>, <<"<", <<"=", "LT", "LE">>>>,
              <<">", <<"=", "GT", "GE">>>>})

ASSUME LetterAssumption ==
  /\ "u" \in Letter
  /\ Letter \cap (Digit \cup Blank \cup DOMAIN One \cup DOMAIN Two \cup {"/", "\n", "NUL"}) = {}
ASSUME LiteralAssumption == MaxLiteral \in Nat
ASSUME KeywordAssumption == \A w \in DOMAIN Keyword : Keyword[w] \notin {"IDENT", "INVALID", "END"}
ASSUME TextAssumption == \A t \in Texts : t \in Seq(STRING) /\ \A k \in DOMAIN t : t[k] # "NUL"

VARIABLES
  text,
  input,    \* the position in the text; the terminator is at Len(text) + 1
  line, column,
  comment,  \* in a comment of several lines
  tokens    \* those returned so far

lexer == <<text, input, line, column, comment, tokens>>

LexerInit ==
  /\ text \in Texts
  /\ input = 1 /\ line = 1 /\ column = 0
  /\ comment = FALSE
  /\ tokens = <<>>

\* The piece k further on; what lies after the terminator is not modelled.
Peek(k) == IF input + k <= Len(text) THEN text[input + k] ELSE "NUL"
peek    == Peek(0)

\* The first place from k on where there is no piece of S.
EndOf(S, k) == Min({j \in k .. Len(text) + 1 - input : Peek(j) \notin S})

Asked  == \A n \in DOMAIN tokens : tokens[n].type # "END"
InText == Asked /\ ~comment /\ input <= Len(text) + 1

Skip(n) ==
  /\ input' = input + n
  /\ column' = column + n
  /\ UNCHANGED <<text, line, tokens>>

\* make_token after n pieces: the column is that of the last one.
Return(n, type, word, value) ==
  /\ input' = input + n
  /\ column' = column + n
  /\ tokens' = Append(tokens, [type |-> type, word |-> word, value |-> value,
                               line |-> line, column |-> column + n])
  /\ UNCHANGED <<text, line, comment>>

-----------------------------------------------------------------------------
End == InText /\ peek = "NUL" /\ Return(0, "END", <<>>, 0)

OneCharacter == InText /\ peek \in DOMAIN One /\ Return(1, One[peek], <<>>, 0)

TwoCharacters ==
  /\ InText
  /\ peek \in DOMAIN Two
  /\ LET two == Two[peek]
     IN  IF Peek(1) = two[1] THEN Return(2, two[3], <<>>, 0) ELSE Return(1, two[2], <<>>, 0)

Slash == InText /\ peek = "/" /\ Peek(1) \notin {"/", "*"} /\ Return(1, "SLASH", <<>>, 0)

\* Mutant: the end of the line is skipped too, if there is one or not.
LineCommentPast ==
  /\ InText
  /\ peek = "/" /\ Peek(1) = "/"
  /\ Skip(EndOf({text[k] : k \in DOMAIN text} \ {"\n"}, 2) + 1)
  /\ UNCHANGED comment

LineComment ==
  /\ InText
  /\ peek = "/" /\ Peek(1) = "/"
  /\ Skip(EndOf({text[k] : k \in DOMAIN text} \ {"\n"}, 2))
  /\ UNCHANGED comment

\* Mutant: the star is looked at again.
OpenCommentAtStar ==
  /\ InText
  /\ peek = "/" /\ Peek(1) = "*"
  /\ Skip(1)
  /\ comment' = TRUE

OpenComment ==
  /\ InText
  /\ peek = "/" /\ Peek(1) = "*"
  /\ Skip(2)
  /\ comment' = TRUE

\* A word, which is an identifier or a keyword
Word ==
  /\ InText
  /\ peek \in Letter
  /\ LET n    == EndOf(Letter \cup Digit, 0)
         word == SubSeq(text, input, input + n - 1)
     IN  IF word \in DOMAIN Keyword THEN Return(n, Keyword[word], <<>>, 0)
         ELSE Return(n, "IDENT", word, 0)

\* value *= 10; value += get() - '0'; modulo 2^64
Literal(digits) ==
  LET Value[n \in 0 .. Len(digits)] ==
        IF n = 0 THEN 0
        ELSE (Value[n - 1] * 10 + DigitValue[digits[n]]) % (MaxLiteral + 1)
  IN  Value[Len(digits)]

Number ==
  /\ InText
  /\ peek \in Digit
  /\ LET n     == EndOf(Digit, 0)
         value == Literal(SubSeq(text, input, input + n - 1))
     IN  IF Peek(n) = "u" THEN Return(n + 1, "UINT_LIT", <<>>, value)
         ELSE Return(n, "INT_LIT", <<>>, value)

White == InText /\ peek \in Blank /\ Skip(1) /\ UNCHANGED comment

NewLine ==
  /\ InText
  /\ peek = "\n"
  /\ input' = input + 1
  /\ line' = line + 1
  /\ column' = 0
  /\ UNCHANGED <<text, comment, tokens>>

Known == DOMAIN One \cup DOMAIN Two \cup Letter \cup Digit \cup Blank \cup {"/", "\n", "NUL"}

Invalid == InText /\ peek \notin Known /\ Return(1, "INVALID", <<peek>>, 0)

-----------------------------------------------------------------------------
(* The loop of a comment of several lines *)

CommentGoesOn ==
  /\ comment
  /\ peek \notin {"NUL", "\n"}
  /\ ~(peek = "*" /\ Peek(1) = "/")
  /\ Skip(1)
  /\ UNCHANGED comment

\* Mutant: the line is not counted.
CommentLineUncounted ==
  /\ comment
  /\ peek = "\n"
  /\ input' = input + 2
  /\ column' = 0
  /\ UNCHANGED <<text, line, comment, tokens>>

\* After the end of the line the loop gets another character.
CommentLine ==
  /\ comment
  /\ peek = "\n"
  /\ input' = input + 2
  /\ line' = line + 1
  /\ column' = 0
  /\ UNCHANGED <<text, comment, tokens>>

CommentCloses ==
  /\ comment
  /\ peek = "*" /\ Peek(1) = "/"
  /\ Skip(2)
  /\ comment' = FALSE

\* Not terminated: nothing is said of it.
CommentStops ==
  /\ comment
  /\ peek = "NUL" /\ input <= Len(text) + 1
  /\ comment' = FALSE
  /\ UNCHANGED <<text, input, line, column, tokens>>

next_token ==
  \/ End \/ OneCharacter \/ TwoCharacters \/ Slash \/ Word \/ Number \/ Invalid
  \/ White \/ NewLine \/ LineComment \/ OpenComment
  \/ CommentGoesOn \/ CommentLine \/ CommentCloses \/ CommentStops

LexerSpec == LexerInit /\ [][next_token]_lexer /\ WF_lexer(next_token)

-----------------------------------------------------------------------------
(* What the tokens of a text are: it is cut into lexemes, each of them the *)
(* longest that fits, and white space and comments are dropped.            *)

Closing(s) == {k \in 3 .. Len(s) - 1 : s[k] = "*" /\ s[k + 1] = "/"}

IsLineComment(s)  == Len(s) >= 2 /\ s[2] = "/" /\ \A k \in DOMAIN s : s[k] # "\n"
IsLongComment(s)  == Len(s) >= 2 /\ s[2] = "*" /\ Closing(s) \subseteq {Len(s) - 1}
IsWord(s)         == \A k \in DOMAIN s : s[k] \in Letter \cup Digit
IsLiteral(s)      == \A k \in DOMAIN s : s[k] \in Digit \/ (k = Len(s) /\ k > 1 /\ s[k] = "u")

IsLexeme(s) ==
  \/ Len(s) = 1
  \/ s[1] \in Letter /\ IsWord(s)
  \/ s[1] \in Digit /\ IsLiteral(s)
  \/ s[1] \in DOMAIN Two /\ Len(s) = 2 /\ s[2] = Two[s[1]][1]
  \/ s[1] = "/" /\ (IsLineComment(s) \/ IsLongComment(s))

IsDropped(s) == s[1] \in Blank \cup {"\n"} \/ (s[1] = "/" /\ Len(s) > 1)

TypeOf(s) ==
  CASE s[1] \in Letter     -> IF s \in DOMAIN Keyword THEN Keyword[s] ELSE "IDENT"
    [] s[1] \in Digit      -> IF s[Len(s)] = "u" THEN "UINT_LIT" ELSE "INT_LIT"
    [] s[1] \in DOMAIN Two -> Two[s[1]][Len(s) + 1]
    [] s[1] \in DOMAIN One -> One[s[1]]
    [] s[1] = "/"          -> "SLASH"
    [] OTHER               -> "INVALID"

\* The number that the digits write
Written(s) ==
  LET Upto[k \in 0 .. Len(s)] ==
        IF k = 0 THEN 0
        ELSE IF s[k] \in Digit THEN 10 * Upto[k - 1] + DigitValue[s[k]] ELSE Upto[k - 1]
  IN  Upto[Len(s)]

LineOf(k)   == 1 + Cardinality({j \in 1 .. k - 1 : text[j] = "\n"})
ColumnOf(k) == k - Max({0} \cup {j \in 1 .. k : text[j] = "\n"})

TokenOf(i, j) ==
  LET s    == SubSeq(text, i, j)
      type == TypeOf(s)
  IN  [type   |-> type,
       word   |-> IF type \in {"IDENT", "INVALID"} THEN s ELSE <<>>,
       value  |-> IF s[1] \in Digit THEN Written(s) % (MaxLiteral + 1) ELSE 0,
       line   |-> LineOf(i),
       column |-> ColumnOf(j)]

LastToken == [type |-> "END", word |-> <<>>, value |-> 0,
              line |-> LineOf(Len(text) + 1), column |-> ColumnOf(Len(text))]

\* Where the lexeme ends that begins at i, and the token it is, if any
LexemeEnd(i) == Max({k \in i .. Len(text) : IsLexeme(SubSeq(text, i, k))})
TokensAt(i) ==
  IF IsDropped(SubSeq(text, i, LexemeEnd(i))) THEN <<>> ELSE <<TokenOf(i, LexemeEnd(i))>>

TokensOfText ==
  LET From[i \in 1 .. Len(text) + 1] ==
        IF i > Len(text) THEN <<LastToken>> ELSE TokensAt(i) \o From[LexemeEnd(i) + 1]
  IN  From[1]

-----------------------------------------------------------------------------
\* At k a comment is open, for all that has been read there.
InComment(t, k) ==
  \E o \in 1 .. k - 2 :
    /\ t[o] = "/" /\ t[o + 1] = "*"
    /\ \A j \in o + 2 .. k - 2 : ~(t[j] = "*" /\ t[j + 1] = "/")

\* The lexer overlooks what follows the end of a line in a comment, which is
\* not the end of the comment, of another line or of the text.
HarmlessLines(t) ==
  \A k \in DOMAIN t : t[k] = "\n" /\ InComment(t, k) =>
    /\ k < Len(t)
    /\ t[k + 1] # "\n"
    /\ k + 1 < Len(t) => ~(t[k + 1] = "*" /\ t[k + 2] = "/")

Content(t) == [type |-> t.type, word |-> t.word, value |-> t.value]

\* A text is cut into the longest lexemes, whatever stands beside what: keywords
\* inside words, operators in a row, literals with a u, slashes and stars in and
\* around comments.
TokensAreOfText ==
  ~Asked =>
    LET expected == TokensOfText
    IN  /\ Len(tokens) = Len(expected)
        /\ \A n \in DOMAIN tokens : Content(tokens[n]) = Content(expected[n])

\* The messages of the parser point at lines and columns: the line is that of
\* the token in the text, behind comments of several lines too, and so is the
\* column, at least where there are no such comments.
PositionsAreOfText ==
  ~Asked =>
    LET expected == TokensOfText
        Commented == \E k \in 1 .. Len(text) - 1 : text[k] = "/" /\ text[k + 1] = "*"
    IN  \A n \in DOMAIN tokens :
          /\ tokens[n].line = expected[n].line
          /\ Commented \/ tokens[n].column = expected[n].column

\* The lexer does not go on behind the terminator of the text.
StaysInText == input <= Len(text) + 1
=============================================================================
