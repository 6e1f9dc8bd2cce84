----------------------------- MODULE LexerProofs -----------------------------
(***************************************************************************)
(* The lexer returns the tokens of its text, for every text in which the   *)
(* end of a line in a comment is harmless.                                 *)
(***************************************************************************)
EXTENDS Lexer, WellFoundedInduction, FiniteSetTheorems, TLAPS

-----------------------------------------------------------------------------
(* Numbers: induction over data takes the form of least elements *)

Below == {p \in Nat \X Nat : p[1] < p[2]}

LEMMA LeastNat ==
  ASSUME NEW T, T \subseteq Nat, T # {}
  PROVE  \E x \in T : \A y \in T : x <= y
<1>1. IsWellFoundedOn(Below, Nat) BY NatLessThanWellFounded DEF OpToRel, Below
<1>2. \A x, y \in Nat : y < x => <<y, x>> \in Below BY DEF Below
<1>3. PICK x \in T : \A y \in T : ~ (<<y, x>> \in Below) BY <1>1, WFMin
<1>4. \A y \in T : ~(y < x) BY <1>2, <1>3
<1> QED BY <1>4

\* Whatever holds at 0 and is passed on to the next number holds.
LEMMA Induct ==
  ASSUME NEW S, 0 \in S, NEW n \in Nat, \A m \in 0 .. n - 1 : m \in S => m + 1 \in S
  PROVE  \A m \in 0 .. n : m \in S
<1> DEFINE T == {m \in 0 .. n : m \notin S}
<1> SUFFICES ASSUME T # {} PROVE FALSE OBVIOUS
<1>0. T \subseteq Nat OBVIOUS
<1> HIDE DEF T
<1>1. PICK x \in T : \A y \in T : x <= y BY <1>0, LeastNat
<1> USE DEF T
<1>2. x # 0 /\ x \in 0 .. n BY <1>1
<1>3. x - 1 \in 0 .. n - 1 BY <1>2
<1>4. x - 1 \in S BY <1>1, <1>3
<1>5. x - 1 + 1 = x BY <1>2
<1>6. x \in S BY <1>3, <1>4, <1>5
<1> QED BY <1>1, <1>6

LEMMA MinIs ==
  ASSUME NEW S, S \subseteq Nat, S # {}
  PROVE  Min(S) \in S /\ \A x \in S : Min(S) <= x
<1>1. PICK m \in S : \A x \in S : m <= x BY LeastNat
<1> QED BY <1>1 DEF Min

LEMMA MaxIs ==
  ASSUME NEW n \in Nat, NEW S, S \subseteq 0 .. n, S # {}
  PROVE  Max(S) \in S /\ \A x \in S : x <= Max(S)
<1> DEFINE T == {k \in 0 .. n : n - k \in S}
<1>0. T \subseteq Nat /\ T # {}
  <2>3. T \subseteq Nat OBVIOUS
  <2>1. PICK x \in S : x \in 0 .. n OBVIOUS
  <2>2. n - x \in 0 .. n /\ n - (n - x) = x BY <2>1
  <2>4. n - x \in T BY <2>1, <2>2
  <2> HIDE DEF T
  <2> QED BY <2>3, <2>4
<1> HIDE DEF T
<1>1. PICK k \in T : \A y \in T : k <= y BY <1>0, LeastNat
<1> USE DEF T
<1>2. n - k \in S /\ k \in Nat BY <1>1
<1>3. ASSUME NEW y \in S PROVE y <= n - k
  <2>1. y \in 0 .. n /\ n - y \in 0 .. n /\ n - (n - y) = y OBVIOUS
  <2>2. k <= n - y BY <1>1, <2>1
  <2> QED BY <1>2, <2>1, <2>2
<1>4. \E m \in S : \A y \in S : m >= y
  <2>1. \A y \in S : n - k >= y BY <1>2, <1>3
  <2> QED BY <1>2, <2>1
<1>5. PICK m \in S : m = Max(S) /\ \A y \in S : m >= y BY <1>4 DEF Max
<1> QED BY <1>5

\* The one element that is at least as great as all of them
LEMMA MaxIsThis ==
  ASSUME NEW S, S \subseteq Int, NEW m \in S, \A x \in S : x <= m
  PROVE  Max(S) = m
<1>1. \A x \in S : (\A y \in S : x >= y) => x = m OBVIOUS
<1>2. \A y \in S : m >= y OBVIOUS
<1> QED BY <1>1, <1>2 DEF Max

-----------------------------------------------------------------------------
(* Pieces *)

LEMMA InTable ==
  ASSUME NEW rows, NEW c \in DOMAIN Table(rows)
  PROVE  \E r \in rows : r[1] = c /\ Table(rows)[c] = r[2]
BY DEF Table

LEMMA Digits ==
  /\ Digit = {"0", "1", "2", "3", "4", "5", "6", "7", "8", "9"}
  /\ \A c \in Digit : DigitValue[c] \in 0 .. 9
<1>1. Digit = {"0", "1", "2", "3", "4", "5", "6", "7", "8", "9"}
  BY DEF Digit, DigitValue, Table
<1> DEFINE rows == {<<"0", 0>>, <<"1", 1>>, <<"2", 2>>, <<"3", 3>>, <<"4", 4>>,
                    <<"5", 5>>, <<"6", 6>>, <<"7", 7>>, <<"8", 8>>, <<"9", 9>>}
<1>2. ASSUME NEW c \in Digit PROVE DigitValue[c] \in 0 .. 9
  <2>1. DigitValue = Table(rows) BY DEF DigitValue
  <2>2. \A r \in rows : r[2] \in 0 .. 9 OBVIOUS
  <2> HIDE DEF rows
  <2> QED BY <1>2, <2>1, <2>2, InTable DEF Digit
<1> QED BY <1>1, <1>2

\* The types of tokens that have a word, or that end them all
Worded == {"IDENT", "INVALID", "END"}

LEMMA Ones ==
  /\ DOMAIN One = {"*", "+", "(", ")", "{", "}", ",", ";"}
  /\ \A c \in DOMAIN One : One[c] \notin Worded
<1>1. DOMAIN One = {"*", "+", "(", ")", "{", "}", ",", ";"} BY DEF One
<1>2. \A c \in DOMAIN One :
        One[c] \in {"STAR", "PLUS", "LPAREN", "RPAREN", "LBRACE", "RBRACE", "COMMA", "SEMICOLON"}
  BY DEF One
<1> QED BY <1>1, <1>2 DEF Worded

LEMMA Twos ==
  /\ DOMAIN Two = {"!", "-", "&", "|", "=", "<", ">"}
  /\ \A c \in DOMAIN Two : /\ Two[c][1] \notin {"NUL", "\n"}
                           /\ Two[c][2] \notin Worded
                           /\ Two[c][3] \notin Worded
<1>1. DOMAIN Two = {"!", "-", "&", "|", "=", "<", ">"} BY DEF Two, Table
<1> DEFINE rows == {<<"!", <<"=", "NOT", "NE">>>>, <<"-", <<">", "MINUS", "ARROW">>>>,
                    <<"&", <<"&", "AMP", "AND">>>>, <<"|", <<"|", "PIPE", "OR">>>>,
                    <<"=", <<"=", "ASSIGN", "EQ">>>>, <<"<", <<"=", "LT", "LE">>>>,
                    <<">", <<"=", "GT", "GE">>>>}
<1>2. ASSUME NEW c \in DOMAIN Two
      PROVE  Two[c][1] \notin {"NUL", "\n"} /\ Two[c][2] \notin Worded /\ Two[c][3] \notin Worded
  <2>1. Two = Table(rows) BY DEF Two
  <2>2. \A r \in rows :
          r[2][1] \notin {"NUL", "\n"} /\ r[2][2] \notin Worded /\ r[2][3] \notin Worded
    BY DEF Worded
  <2> HIDE DEF rows
  <2> QED BY <1>2, <2>1, <2>2, InTable
<1> QED BY <1>1, <1>2

-----------------------------------------------------------------------------
(* The tokens of the text, from each place on *)

IsCut(f) ==
  /\ f[Len(text) + 1] = <<LastToken>>
  /\ \A i \in 1 .. Len(text) : f[i] = TokensAt(i) \o f[LexemeEnd(i) + 1]
  /\ \E T : f \in [1 .. Len(text) + 1 -> T]

Cut == CHOOSE f : IsCut(f) /\ f[1] = TokensOfText

LEMMA TextStays ==
  ASSUME text' = text
  PROVE  /\ TokensOfText' = TokensOfText
         /\ Cut' = Cut
<1>1. LastToken' = LastToken BY DEF LastToken, LineOf, ColumnOf
<1>2. ASSUME NEW i PROVE LexemeEnd(i)' = LexemeEnd(i) BY DEF LexemeEnd
<1>3. ASSUME NEW i PROVE TokensAt(i)' = TokensAt(i) BY <1>2 DEF TokensAt, TokenOf, LineOf, ColumnOf
<1>4. TokensOfText' = TokensOfText BY <1>1, <1>2, <1>3 DEF TokensOfText
<1>5. ASSUME NEW f PROVE IsCut(f)' <=> IsCut(f) BY <1>1, <1>2, <1>3 DEF IsCut
<1> QED BY <1>4, <1>5 DEF Cut

\* A definition that comes back to later places only defines something.
Back(n, last, here, next) ==
  \E f : /\ \E T : f \in [1 .. n + 1 -> T]
         /\ f[n + 1] = last
         /\ \A i \in 1 .. n : f[i] = here[i] \o f[next[i] + 1]

LEMMA Backwards ==
  ASSUME NEW n \in Nat, NEW last, NEW here, NEW next,
         \A i \in 1 .. n : next[i] \in i .. n
  PROVE  Back(n, last, here, next)
<1> DEFINE From(m, f) == /\ \E T : f \in [n + 1 - m .. n + 1 -> T]
                         /\ f[n + 1] = last
                         /\ \A i \in n + 1 - m .. n : f[i] = here[i] \o f[next[i] + 1]
           S == {m \in 0 .. n : \E f : From(m, f)}
<1>1. 0 \in S
  <2> DEFINE f == [i \in n + 1 .. n + 1 |-> last]
  <2>1. f \in [n + 1 .. n + 1 -> {last}] /\ f[n + 1] = last OBVIOUS
  <2>2. n + 1 - 0 = n + 1 /\ n + 1 .. n = {} OBVIOUS
  <2> HIDE DEF f
  <2>3. From(0, f) BY <2>1, <2>2
  <2> HIDE DEF From
  <2> QED BY <2>3
<1>2. ASSUME NEW m \in 0 .. n - 1, m \in S PROVE m + 1 \in S
  <2>1. PICK f : From(m, f) BY <1>2
  <2> DEFINE k == n - m
             new == here[k] \o f[next[k] + 1]
             g == [i \in k .. n + 1 |-> IF i = k THEN new ELSE f[i]]
  <2>2. k \in 1 .. n /\ n + 1 - (m + 1) = k /\ n + 1 - m = k + 1 OBVIOUS
  <2> HIDE DEF k
  <2>3. next[k] \in k .. n BY <2>2
  <2>4. next[k] + 1 \in k .. n + 1 /\ next[k] + 1 # k BY <2>2, <2>3
  <2> HIDE DEF new
  <2>a. \A i \in k .. n + 1 : i # k => g[i] = f[i] OBVIOUS
  <2>b. g[k] = new BY <2>2
  <2>c. g \in [k .. n + 1 -> {new} \cup {f[i] : i \in k .. n + 1}] OBVIOUS
  <2> HIDE DEF g
  <2>5. g[k] = here[k] \o g[next[k] + 1] BY <2>4, <2>a, <2>b DEF new
  <2>6. ASSUME NEW i \in k + 1 .. n PROVE g[i] = here[i] \o g[next[i] + 1]
    <3>1. f[i] = here[i] \o f[next[i] + 1] BY <2>1, <2>2
    <3>2. next[i] \in i .. n BY <2>2
    <3>3. i \in k .. n + 1 /\ i # k BY <2>2
    <3>4. next[i] + 1 \in k .. n + 1 /\ next[i] + 1 # k BY <2>2, <3>2
    <3>5. g[i] = f[i] /\ g[next[i] + 1] = f[next[i] + 1] BY <3>3, <3>4, <2>a
    <3> QED BY <3>1, <3>5
  <2>7. n + 1 \in k .. n + 1 /\ n + 1 # k BY <2>2
  <2>8. g[n + 1] = last BY <2>1, <2>7, <2>a
  <2>9. \A i \in k .. n : i = k \/ i \in k + 1 .. n BY <2>2
  <2>d. \A i \in k .. n : g[i] = here[i] \o g[next[i] + 1] BY <2>5, <2>6, <2>9
  <2>10. From(m + 1, g) BY <2>2, <2>c, <2>8, <2>d
  <2>11. m + 1 \in 0 .. n OBVIOUS
  <2> HIDE DEF From
  <2> QED BY <2>10, <2>11
<1>3. n \in S
  <2> HIDE DEF S
  <2>1. \A m \in 0 .. n : m \in S BY <1>1, <1>2, Induct
  <2> QED BY <2>1
<1>4. PICK f : From(n, f) BY <1>3
<1>5. n + 1 - n = 1 OBVIOUS
<1> QED BY <1>4, <1>5 DEF Back

\* A text of the instance is a sequence, without the terminator.
LEMMA TextIs ==
  ASSUME text \in Texts
  PROVE  /\ Len(text) \in Nat /\ text \in Seq(STRING) /\ DOMAIN text = 1 .. Len(text)
         /\ \A k \in 1 .. Len(text) : text[k] # "NUL"
<1>1. text \in Seq(STRING) /\ \A k \in DOMAIN text : text[k] # "NUL" BY TextAssumption
<1> QED BY <1>1

\* Parts of the text
LEMMA Part ==
  ASSUME text \in Texts, NEW i \in 1 .. Len(text), NEW j \in i .. Len(text)
  PROVE  LET s == SubSeq(text, i, j)
         IN  /\ Len(s) = j - i + 1
             /\ DOMAIN s = 1 .. j - i + 1
             /\ s[1] = text[i]
             /\ \A k \in 1 .. j - i + 1 : s[k] = text[i + k - 1]
BY TextIs

LEMMA LexemeEndIs ==
  ASSUME text \in Texts, NEW i \in 1 .. Len(text)
  PROVE  /\ LexemeEnd(i) \in i .. Len(text)
         /\ IsLexeme(SubSeq(text, i, LexemeEnd(i)))
<1> DEFINE S == {k \in i .. Len(text) : IsLexeme(SubSeq(text, i, k))}
<1>1. Len(text) \in Nat BY TextIs
<1>2. S \subseteq 0 .. Len(text) BY <1>1
<1>3. i \in S
  <2>1. Len(SubSeq(text, i, i)) = 1 BY Part
  <2> QED BY <1>1, <2>1 DEF IsLexeme
<1>4. LexemeEnd(i) = Max(S) BY DEF LexemeEnd
<1> HIDE DEF S
<1>5. Max(S) \in S BY <1>1, <1>2, <1>3, MaxIs
<1> USE DEF S
<1> QED BY <1>4, <1>5

\* The longest lexeme is the one that ends at j.
LEMMA EndsAt ==
  ASSUME text \in Texts, NEW i \in 1 .. Len(text), NEW j \in i .. Len(text),
         IsLexeme(SubSeq(text, i, j)),
         \A k \in j + 1 .. Len(text) : ~IsLexeme(SubSeq(text, i, k))
  PROVE  LexemeEnd(i) = j
<1>1. Len(text) \in Nat BY TextIs
<1>2. LexemeEnd(i) \in i .. Len(text) /\ IsLexeme(SubSeq(text, i, LexemeEnd(i)))
  BY LexemeEndIs
<1> DEFINE S == {k \in i .. Len(text) : IsLexeme(SubSeq(text, i, k))}
<1>3. j \in S /\ S \subseteq Int OBVIOUS
<1>4. ASSUME NEW k \in S PROVE k <= j BY <1>1
<1>5. LexemeEnd(i) = Max(S) BY DEF LexemeEnd
<1> HIDE DEF S
<1> QED BY <1>3, <1>4, <1>5, MaxIsThis

LEMMA CutExists ==
  ASSUME text \in Texts
  PROVE  IsCut(Cut) /\ Cut[1] = TokensOfText
<1> DEFINE n == Len(text)
           Body(F) == [i \in 1 .. n + 1 |->
                         IF i > n THEN <<LastToken>> ELSE TokensAt(i) \o F[LexemeEnd(i) + 1]]
           From == CHOOSE F : F = Body(F)
<1>1. n \in Nat BY TextIs
<1>2. \E F : F = Body(F)
  <2> DEFINE here == [i \in 1 .. n |-> TokensAt(i)]
             next == [i \in 1 .. n |-> LexemeEnd(i)]
             last == <<LastToken>>
  <2>1. \A i \in 1 .. n : next[i] \in i .. n BY LexemeEndIs
  <2>a. \A i \in 1 .. n : here[i] = TokensAt(i) /\ next[i] = LexemeEnd(i) OBVIOUS
  <2> HIDE DEF here, next, last
  <2>2. PICK F : /\ \E T : F \in [1 .. n + 1 -> T]
                 /\ F[n + 1] = last
                 /\ \A i \in 1 .. n : F[i] = here[i] \o F[next[i] + 1]
    <3> HIDE DEF n
    <3>1. Back(n, last, here, next) BY <1>1, <2>1, Backwards
    <3> QED BY <3>1 DEF Back
  <2>3. ASSUME NEW i \in 1 .. n + 1 PROVE F[i] = Body(F)[i]
    <3>1. CASE i = n + 1
      <4>1. i > n BY <1>1, <3>1
      <4>2. Body(F)[i] = <<LastToken>> BY <4>1
      <4> QED BY <2>2, <3>1, <4>2 DEF last
    <3>2. CASE i \in 1 .. n
      <4>1. ~(i > n) BY <1>1, <3>2
      <4>2. Body(F)[i] = TokensAt(i) \o F[LexemeEnd(i) + 1] BY <4>1
      <4>3. F[i] = here[i] \o F[next[i] + 1] BY <2>2, <3>2
      <4> QED BY <2>a, <3>2, <4>2, <4>3
    <3>3. i = n + 1 \/ i \in 1 .. n BY <1>1
    <3> QED BY <3>1, <3>2, <3>3
  <2>4. F = Body(F) BY <2>2, <2>3
  <2> QED BY <2>4
<1>3. TokensOfText = From[1] BY DEF TokensOfText
<1>4. From = Body(From) BY <1>2
<1> HIDE DEF From
<1>5. From[n + 1] = <<LastToken>>
  <2>1. n + 1 \in 1 .. n + 1 /\ n + 1 > n BY <1>1
  <2>2. From[n + 1] = Body(From)[n + 1] BY <1>4
  <2> QED BY <2>1, <2>2
<1>6. ASSUME NEW i \in 1 .. n PROVE From[i] = TokensAt(i) \o From[LexemeEnd(i) + 1]
  <2>1. i \in 1 .. n + 1 /\ ~(i > n) BY <1>1
  <2>2. From[i] = Body(From)[i] BY <1>4
  <2> QED BY <2>1, <2>2
<1>7. From \in [1 .. n + 1 -> {From[i] : i \in 1 .. n + 1}] BY <1>4
<1>8. IsCut(From) BY <1>5, <1>6, <1>7 DEF IsCut
<1>9. \E f : IsCut(f) /\ f[1] = TokensOfText BY <1>3, <1>8
<1> QED BY <1>9 DEF Cut

\* The tokens of the text
TokenSet == {LastToken} \cup {TokenOf(i, LexemeEnd(i)) : i \in 1 .. Len(text)}

LEMMA CutIs ==
  ASSUME text \in Texts
  PROVE  \A i \in 1 .. Len(text) + 1 : Cut[i] \in Seq(TokenSet)
<1> DEFINE n == Len(text)
           S == {m \in 0 .. n : \A i \in n + 1 - m .. n + 1 : Cut[i] \in Seq(TokenSet)}
<1>0. n \in Nat BY TextIs
<1>1. 0 \in S
  <2>1. <<LastToken>> \in Seq(TokenSet) BY DEF TokenSet
  <2>2. Cut[n + 1] \in Seq(TokenSet) BY <2>1, CutExists DEF IsCut
  <2>3. \A i \in n + 1 - 0 .. n + 1 : i = n + 1 BY <1>0
  <2>4. 0 \in 0 .. n BY <1>0
  <2> HIDE DEF n
  <2> QED BY <2>2, <2>3, <2>4
<1>2. ASSUME NEW m \in 0 .. n - 1, m \in S PROVE m + 1 \in S
  <2> DEFINE i == n - m
  <2>1. i \in 1 .. n /\ n + 1 - (m + 1) = i /\ n + 1 - m = i + 1 BY <1>0
  <2>2. \A k \in i + 1 .. n + 1 : Cut[k] \in Seq(TokenSet) BY <1>2, <2>1
  <2> HIDE DEF i
  <2>3. Cut[i] = TokensAt(i) \o Cut[LexemeEnd(i) + 1] BY <2>1, CutExists DEF IsCut
  <2>4. LexemeEnd(i) + 1 \in i + 1 .. n + 1 BY <1>0, <2>1, LexemeEndIs
  <2>5. Cut[LexemeEnd(i) + 1] \in Seq(TokenSet) BY <2>2, <2>4
  <2>6. TokensAt(i) \in Seq(TokenSet)
    <3>1. <<>> \in Seq(TokenSet) OBVIOUS
    <3>2. TokenOf(i, LexemeEnd(i)) \in TokenSet BY <2>1 DEF TokenSet
    <3>3. <<TokenOf(i, LexemeEnd(i))>> \in Seq(TokenSet) BY <3>2
    <3> QED BY <3>1, <3>3 DEF TokensAt
  <2>7. Cut[i] \in Seq(TokenSet) BY <2>3, <2>5, <2>6
  <2>8. \A k \in i .. n + 1 : k = i \/ k \in i + 1 .. n + 1 BY <1>0, <2>1
  <2>9. m + 1 \in 0 .. n BY <1>0
  <2> QED BY <2>1, <2>2, <2>7, <2>8, <2>9
<1>3. n \in S
  <2> HIDE DEF S, n
  <2>1. \A m \in 0 .. n : m \in S BY <1>0, <1>1, <1>2, Induct
  <2> QED BY <1>0, <2>1
<1>4. n + 1 - n = 1 BY <1>0
<1> QED BY <1>3, <1>4

-----------------------------------------------------------------------------
(* Lexemes, in terms of the pieces of the text *)

Special == {"/", "\n", "NUL"}

\* The kinds of pieces are disjoint.
LEMMA Classes ==
  /\ \A c \in Letter : c \notin Digit \cup Blank \cup DOMAIN One \cup DOMAIN Two \cup Special
  /\ \A c \in Digit : c \notin Blank \cup DOMAIN One \cup DOMAIN Two \cup Special
  /\ \A c \in DOMAIN One : c \notin Blank \cup DOMAIN Two \cup Special
  /\ \A c \in DOMAIN Two : c \notin Blank \cup Special
  /\ \A c \in Blank : c \notin Special
<1>1. \A c \in Letter : c \notin Digit \cup Blank \cup DOMAIN One \cup DOMAIN Two \cup Special
  BY LetterAssumption DEF Special
<1>2. \A c \in Digit : c \notin Blank \cup DOMAIN One \cup DOMAIN Two \cup Special
  <2>1. Digit = {"0", "1", "2", "3", "4", "5", "6", "7", "8", "9"} BY Digits
  <2>2. DOMAIN One = {"*", "+", "(", ")", "{", "}", ",", ";"} BY Ones
  <2>3. DOMAIN Two = {"!", "-", "&", "|", "=", "<", ">"} BY Twos
  <2> QED BY <2>1, <2>2, <2>3 DEF Blank, Special
<1>3. \A c \in DOMAIN One : c \notin Blank \cup DOMAIN Two \cup Special
  BY Ones, Twos DEF Blank, Special
<1>4. \A c \in DOMAIN Two : c \notin Blank \cup Special
  BY Twos DEF Blank, Special
<1>5. \A c \in Blank : c \notin Special
  BY DEF Blank, Special
<1> QED BY <1>1, <1>2, <1>3, <1>4, <1>5

\* The pieces from i to k, more than one, are a lexeme.
LongWord(i, k) ==
  text[i] \in Letter /\ \A p \in i .. k : text[p] \in Letter \cup Digit
LongLiteral(i, k) ==
  text[i] \in Digit /\ \A p \in i .. k : text[p] \in Digit \/ (p = k /\ text[p] = "u")
Pair(i, k) ==
  text[i] \in DOMAIN Two /\ k = i + 1 /\ text[i + 1] = Two[text[i]][1]
RestOfLine(i, k) ==
  text[i] = "/" /\ text[i + 1] = "/" /\ \A p \in i .. k : text[p] # "\n"
Commented(i, k) ==
  text[i] = "/" /\ text[i + 1] = "*"
    /\ \A p \in i + 2 .. k - 2 : ~(text[p] = "*" /\ text[p + 1] = "/")
Longer(i, k) ==
  LongWord(i, k) \/ LongLiteral(i, k) \/ Pair(i, k) \/ RestOfLine(i, k) \/ Commented(i, k)

LEMMA LongerIs ==
  ASSUME text \in Texts, NEW i \in 1 .. Len(text), NEW k \in i + 1 .. Len(text)
  PROVE  IsLexeme(SubSeq(text, i, k)) <=> Longer(i, k)
<1> DEFINE s == SubSeq(text, i, k)
           m == k - i + 1
<1>1. Len(text) \in Nat BY TextIs
<1>2. k \in i .. Len(text) /\ m \in Nat /\ m >= 2 /\ i \in Nat /\ k \in Nat BY <1>1
<1>3. Len(s) = m /\ DOMAIN s = 1 .. m /\ s[1] = text[i] BY <1>2, Part
<1>4. \A q \in 1 .. m : s[q] = text[i + q - 1] /\ i + q - 1 \in i .. k BY <1>2, Part
<1>5. \A p \in i .. k : text[p] = s[p - i + 1] /\ p - i + 1 \in 1 .. m
  <2> TAKE p \in i .. k
  <2>1. p - i + 1 \in 1 .. m /\ i + (p - i + 1) - 1 = p BY <1>2
  <2> QED BY <1>4, <2>1
<1>6. s[2] = text[i + 1]
  <2>1. 2 \in 1 .. m /\ i + 2 - 1 = i + 1 BY <1>2
  <2> QED BY <1>4, <2>1
<1> HIDE DEF s
<1>7. s[1] \in Letter /\ IsWord(s) <=> LongWord(i, k)
  BY <1>3, <1>4, <1>5 DEF IsWord, LongWord
<1>8. s[1] \in Digit /\ IsLiteral(s) <=> LongLiteral(i, k)
  <2>1. ASSUME s[1] \in Digit, IsLiteral(s) PROVE LongLiteral(i, k)
    <3>1. ASSUME NEW p \in i .. k PROVE text[p] \in Digit \/ (p = k /\ text[p] = "u")
      <4>1. p - i + 1 \in 1 .. m /\ text[p] = s[p - i + 1] BY <1>5
      <4>2. p - i + 1 = m => p = k BY <1>2
      <4> QED BY <1>3, <2>1, <4>1, <4>2 DEF IsLiteral
    <3> QED BY <1>3, <2>1, <3>1 DEF LongLiteral
  <2>2. ASSUME LongLiteral(i, k) PROVE s[1] \in Digit /\ IsLiteral(s)
    <3>1. ASSUME NEW q \in 1 .. m PROVE s[q] \in Digit \/ (q = m /\ q > 1 /\ s[q] = "u")
      <4>1. i + q - 1 \in i .. k /\ s[q] = text[i + q - 1] BY <1>4
      <4>2. i + q - 1 = k => q = m /\ q > 1 BY <1>2
      <4> QED BY <2>2, <4>1, <4>2 DEF LongLiteral
    <3>2. s[1] \in Digit BY <1>3, <2>2 DEF LongLiteral
    <3> QED BY <1>3, <3>1, <3>2 DEF IsLiteral
  <2> QED BY <2>1, <2>2
<1>9. s[1] \in DOMAIN Two /\ Len(s) = 2 /\ s[2] = Two[s[1]][1] <=> Pair(i, k)
  <2>1. m = 2 <=> k = i + 1 BY <1>2
  <2> QED BY <1>3, <1>6, <2>1 DEF Pair
<1>10. s[1] = "/" /\ IsLineComment(s) <=> RestOfLine(i, k)
  <2>1. (\A q \in 1 .. m : s[q] # "\n") <=> \A p \in i .. k : text[p] # "\n"
    <3>1. (\A q \in 1 .. m : s[q] # "\n") => \A p \in i .. k : text[p] # "\n" BY <1>5
    <3>2. (\A p \in i .. k : text[p] # "\n") => \A q \in 1 .. m : s[q] # "\n" BY <1>4
    <3> QED BY <3>1, <3>2
  <2>2. IsLineComment(s) <=> s[2] = "/" /\ \A q \in 1 .. m : s[q] # "\n"
    BY <1>2, <1>3 DEF IsLineComment
  <2> HIDE DEF m
  <2> QED BY <1>3, <1>6, <2>1, <2>2 DEF RestOfLine
<1>11. s[1] = "/" /\ IsLongComment(s) <=> Commented(i, k)
  <2>1. ASSUME NEW p \in i + 2 .. k - 2, Closing(s) \subseteq {m - 1}
        PROVE  ~(text[p] = "*" /\ text[p + 1] = "/")
    <3>1. p \in i .. k /\ p + 1 \in i .. k /\ p - i + 1 \in 3 .. m - 1 /\ p - i + 1 # m - 1 BY <1>2
    <3>2. text[p] = s[p - i + 1] /\ text[p + 1] = s[p - i + 1 + 1]
      <4>1. p + 1 - i + 1 = p - i + 1 + 1 BY <1>2
      <4> QED BY <1>5, <3>1, <4>1
    <3> QED BY <1>3, <2>1, <3>1, <3>2 DEF Closing
  <2>2. ASSUME \A p \in i + 2 .. k - 2 : ~(text[p] = "*" /\ text[p + 1] = "/"),
               NEW q \in Closing(s)
        PROVE  q = m - 1
    <3>1. q \in 3 .. m - 1 /\ s[q] = "*" /\ s[q + 1] = "/" BY <1>3 DEF Closing
    <3>2. q \in 1 .. m /\ q + 1 \in 1 .. m BY <1>2, <3>1
    <3>3. text[i + q - 1] = "*" /\ text[i + q - 1 + 1] = "/"
      <4>1. i + (q + 1) - 1 = i + q - 1 + 1 BY <1>2, <3>1
      <4> QED BY <1>4, <3>1, <3>2, <4>1
    <3>4. i + q - 1 \notin i + 2 .. k - 2 BY <2>2, <3>3
    <3> QED BY <1>2, <3>1, <3>4
  <2> QED BY <1>2, <1>3, <1>6, <2>1, <2>2 DEF IsLongComment, Commented
<1>12. IsLexeme(s) <=>
         \/ s[1] \in Letter /\ IsWord(s)
         \/ s[1] \in Digit /\ IsLiteral(s)
         \/ s[1] \in DOMAIN Two /\ Len(s) = 2 /\ s[2] = Two[s[1]][1]
         \/ s[1] = "/" /\ IsLineComment(s)
         \/ s[1] = "/" /\ IsLongComment(s)
  BY <1>2, <1>3 DEF IsLexeme
<1>13. IsLexeme(s) <=> Longer(i, k)
  BY <1>7, <1>8, <1>9, <1>10, <1>11, <1>12 DEF Longer
<1> QED BY <1>13 DEF s

LEMMA EndsHere ==
  ASSUME text \in Texts, NEW i \in 1 .. Len(text),
         \A k \in i + 1 .. Len(text) : ~Longer(i, k)
  PROVE  LexemeEnd(i) = i
<1>1. Len(text) \in Nat BY TextIs
<1>2. i \in i .. Len(text) BY <1>1
<1>3. IsLexeme(SubSeq(text, i, i))
  <2>1. Len(SubSeq(text, i, i)) = i - i + 1 BY <1>2, Part
  <2> QED BY <2>1 DEF IsLexeme
<1>4. \A k \in i + 1 .. Len(text) : ~IsLexeme(SubSeq(text, i, k)) BY LongerIs
<1> QED BY <1>2, <1>3, <1>4, EndsAt

LEMMA EndsThere ==
  ASSUME text \in Texts, NEW i \in 1 .. Len(text), NEW j \in i + 1 .. Len(text),
         Longer(i, j), \A k \in j + 1 .. Len(text) : ~Longer(i, k)
  PROVE  LexemeEnd(i) = j
<1>1. Len(text) \in Nat BY TextIs
<1>2. j \in i .. Len(text) BY <1>1
<1>3. IsLexeme(SubSeq(text, i, j)) BY LongerIs
<1>4. \A k \in j + 1 .. Len(text) : ~IsLexeme(SubSeq(text, i, k))
  <2>1. ASSUME NEW k \in j + 1 .. Len(text) PROVE k \in i + 1 .. Len(text) BY <1>1, <1>2
  <2> QED BY <2>1, LongerIs
<1> QED BY <1>2, <1>3, <1>4, EndsAt

-----------------------------------------------------------------------------
(* Lines and columns *)

LEMMA FirstPlace == LineOf(1) = 1 /\ ColumnOf(0) = 0
<1>1. {j \in 1 .. 1 - 1 : text[j] = "\n"} = {} OBVIOUS
<1>2. LineOf(1) = 1 BY <1>1, FS_EmptySet DEF LineOf
<1>3. {0} \cup {j \in 1 .. 0 : text[j] = "\n"} = {0} OBVIOUS
<1>4. Max({0}) = 0 BY MaxIsThis
<1> QED BY <1>2, <1>3, <1>4 DEF ColumnOf

LEMMA SameLine ==
  ASSUME NEW a \in Nat \ {0}, NEW b \in Nat, b >= a, \A p \in a .. b - 1 : text[p] # "\n"
  PROVE  LineOf(b) = LineOf(a) /\ ColumnOf(b - 1) = ColumnOf(a - 1) + (b - a)
<1>1. {j \in 1 .. b - 1 : text[j] = "\n"} = {j \in 1 .. a - 1 : text[j] = "\n"} OBVIOUS
<1> DEFINE S == {0} \cup {j \in 1 .. a - 1 : text[j] = "\n"}
<1>2. Max(S) \in Int
  <2> DEFINE n == a - 1
  <2>1. S \subseteq 0 .. n /\ S # {} /\ n \in Nat OBVIOUS
  <2> HIDE DEF S, n
  <2>2. n \in Nat BY <2>1
  <2>3. S \subseteq 0 .. n BY <2>1
  <2>4. S # {} BY <2>1
  <2>5. Max(S) \in S BY <2>2, <2>3, <2>4, MaxIs, Zenon
  <2>6. \A k \in 0 .. n : k \in Int BY <2>2
  <2>7. \A k \in S : k \in Int BY <2>3, <2>6
  <2> QED BY <2>5, <2>7, Zenon
<1>3. LineOf(b) = LineOf(a) BY <1>1 DEF LineOf
<1>4. ColumnOf(b - 1) = b - 1 - Max(S) BY <1>1 DEF ColumnOf
<1>5. ColumnOf(a - 1) = a - 1 - Max(S) BY DEF ColumnOf
<1> HIDE DEF S
<1> QED BY <1>2, <1>3, <1>4, <1>5

LEMMA NextLine ==
  ASSUME NEW i \in Nat \ {0}, text[i] = "\n"
  PROVE  LineOf(i + 1) = LineOf(i) + 1 /\ ColumnOf(i) = 0
<1> DEFINE S(k) == {j \in 1 .. k : text[j] = "\n"}
<1>1. S(i) = S(i - 1) \cup {i} /\ i \notin S(i - 1) OBVIOUS
<1>2. IsFiniteSet(S(i - 1))
  <2>1. IsFiniteSet(1 .. i - 1)
    <3>1. 1 \in Int /\ i - 1 \in Int OBVIOUS
    <3> QED BY <3>1, FS_Interval
  <2>2. S(i - 1) \in SUBSET (1 .. i - 1) OBVIOUS
  <2> HIDE DEF S
  <2> QED BY <2>1, <2>2, FS_Subset
<1>3. Cardinality(S(i)) = Cardinality(S(i - 1)) + 1
  <2> HIDE DEF S
  <2> QED BY <1>1, <1>2, FS_AddElement
<1>4. Cardinality(S(i - 1)) \in Nat
  <2> HIDE DEF S
  <2> QED BY <1>2, FS_CardinalityType
<1>5. LineOf(i) = 1 + Cardinality(S(i - 1)) BY DEF LineOf
<1>6. LineOf(i + 1) = 1 + Cardinality(S(i))
  <2>1. i + 1 - 1 = i OBVIOUS
  <2> QED BY <2>1 DEF LineOf
<1>7. ColumnOf(i) = i - Max({0} \cup S(i)) BY DEF ColumnOf
<1>8. Max({0} \cup S(i)) = i
  <2>1. {0} \cup S(i) \subseteq Int /\ i \in {0} \cup S(i) /\ \A x \in {0} \cup S(i) : x <= i OBVIOUS
  <2> DEFINE T == {0} \cup S(i)
  <2>2. T \subseteq Int /\ i \in T /\ \A x \in T : x <= i BY <2>1
  <2> HIDE DEF T
  <2>3. Max(T) = i BY <2>2, MaxIsThis
  <2> QED BY <2>3 DEF T
<1> HIDE DEF S
<1> QED BY <1>3, <1>4, <1>5, <1>6, <1>7, <1>8

-----------------------------------------------------------------------------
(* The tokens so far are those of the text up to a place *)

HasComment == \E k \in 1 .. Len(text) - 1 : text[k] = "/" /\ text[k + 1] = "*"

Same(t, e) ==
  Content(t) = Content(e) /\ t.line = e.line /\ (HasComment \/ t.column = e.column)

Aligned(ts, o) ==
  /\ Len(Cut[1]) = Len(ts) + Len(Cut[o])
  /\ \A k \in 1 .. Len(ts) : Same(ts[k], Cut[1][k])
  /\ \A k \in 1 .. Len(Cut[o]) : Cut[1][Len(ts) + k] = Cut[o][k]

LEMMA AlignedAtFirst == ASSUME text \in Texts PROVE Aligned(<<>>, 1)
<1>1. 1 \in 1 .. Len(text) + 1 BY TextIs
<1>2. Cut[1] \in Seq(TokenSet) BY <1>1, CutIs
<1>3. Len(Cut[1]) \in Nat BY <1>2
<1> QED BY <1>3 DEF Aligned

LEMMA CutAt ==
  ASSUME text \in Texts, NEW o \in 1 .. Len(text)
  PROVE  /\ LexemeEnd(o) + 1 \in 1 .. Len(text) + 1
         /\ Cut[o] = TokensAt(o) \o Cut[LexemeEnd(o) + 1]
         /\ Cut[LexemeEnd(o) + 1] \in Seq(TokenSet)
         /\ Cut[1] \in Seq(TokenSet)
<1>1. LexemeEnd(o) + 1 \in 1 .. Len(text) + 1 /\ 1 \in 1 .. Len(text) + 1 BY TextIs, LexemeEndIs
<1>2. Cut[o] = TokensAt(o) \o Cut[LexemeEnd(o) + 1] BY CutExists DEF IsCut
<1> QED BY <1>1, <1>2, CutIs

LEMMA AlignedOver ==
  ASSUME text \in Texts, NEW o \in 1 .. Len(text), NEW ts,
         IsDropped(SubSeq(text, o, LexemeEnd(o))), Aligned(ts, o)
  PROVE  Aligned(ts, LexemeEnd(o) + 1)
<1>1. TokensAt(o) = <<>> BY DEF TokensAt
<1> DEFINE rest == Cut[LexemeEnd(o) + 1]
<1>2. Cut[o] = TokensAt(o) \o rest /\ rest \in Seq(TokenSet) BY CutAt
<1> HIDE DEF rest
<1>3. Cut[o] = rest BY <1>1, <1>2
<1> QED BY <1>3 DEF Aligned, rest

LEMMA AlignedAfter ==
  ASSUME text \in Texts, NEW o \in 1 .. Len(text), NEW S, NEW ts \in Seq(S), NEW t,
         ~IsDropped(SubSeq(text, o, LexemeEnd(o))), Aligned(ts, o),
         Same(t, TokenOf(o, LexemeEnd(o)))
  PROVE  Aligned(Append(ts, t), LexemeEnd(o) + 1)
<1> DEFINE e == TokenOf(o, LexemeEnd(o))
           rest == Cut[LexemeEnd(o) + 1]
           n == Len(ts)
<1>0. Same(t, e) OBVIOUS
<1>1. TokensAt(o) = <<e>> BY DEF TokensAt
<1>2. Cut[o] = <<e>> \o rest /\ rest \in Seq(TokenSet) BY <1>1, CutAt
<1> HIDE DEF e, rest
<1>3. /\ Len(rest) \in Nat /\ Len(Cut[o]) = Len(rest) + 1
      /\ Cut[o][1] = e /\ \A k \in 1 .. Len(rest) : Cut[o][k + 1] = rest[k]
  BY <1>2
<1>4. n \in Nat /\ Len(Append(ts, t)) = n + 1 OBVIOUS
<1>5. /\ \A k \in 1 .. n : Append(ts, t)[k] = ts[k]
      /\ Append(ts, t)[n + 1] = t
  OBVIOUS
<1>6. Cut[1][n + 1] = e
  <2>1. 1 \in 1 .. Len(Cut[o]) BY <1>3
  <2>2. Cut[1][n + 1] = Cut[o][1] BY <2>1 DEF Aligned
  <2> QED BY <1>3, <2>2
<1> DEFINE us == Append(ts, t)
<1> HIDE DEF us
<1>7. Len(Cut[1]) = Len(us) + Len(rest) BY <1>3, <1>4 DEF Aligned, us
<1>8. ASSUME NEW k \in 1 .. Len(us) PROVE Same(us[k], Cut[1][k])
  <2>1. CASE k \in 1 .. n
    <3>1. us[k] = ts[k] BY <1>5, <2>1 DEF us
    <3>2. Same(ts[k], Cut[1][k]) BY <2>1 DEF Aligned
    <3> QED BY <3>1, <3>2
  <2>2. CASE k = n + 1
    <3>1. us[k] = t BY <1>5, <2>2 DEF us
    <3> QED BY <1>0, <1>6, <2>2, <3>1
  <2>3. k \in 1 .. n \/ k = n + 1 BY <1>4 DEF us
  <2> QED BY <2>1, <2>2, <2>3
<1>9. ASSUME NEW k \in 1 .. Len(rest) PROVE Cut[1][Len(us) + k] = rest[k]
  <2>1. k + 1 \in 1 .. Len(Cut[o]) /\ n + (k + 1) = Len(us) + k BY <1>3, <1>4 DEF us
  <2>2. Cut[1][n + (k + 1)] = Cut[o][k + 1] BY <2>1 DEF Aligned
  <2> QED BY <1>3, <2>1, <2>2
<1>10. Aligned(us, LexemeEnd(o) + 1) BY <1>7, <1>8, <1>9 DEF Aligned, rest
<1> QED BY <1>10 DEF us

-----------------------------------------------------------------------------
(* The invariant *)

\* All tokens are there.
Complete ==
  /\ Len(tokens) = Len(Cut[1])
  /\ \A k \in 1 .. Len(tokens) : Same(tokens[k], Cut[1][k])

\* The comment that begins at o is not closed before i.
Open(o, i) ==
  /\ text[o] = "/" /\ text[o + 1] = "*"
  /\ \A j \in o + 2 .. i - 1 : ~(text[j] = "*" /\ j + 1 <= Len(text) /\ text[j + 1] = "/")

\* In a comment the tokens are those up to where it was opened.
LexInv ==
  /\ text \in Texts
  /\ \E S : tokens \in Seq(S)
  /\ comment \in BOOLEAN
  /\ input \in 1 .. Len(text) + 1
  /\ line = LineOf(input)
  /\ ~HasComment => ~comment /\ column = ColumnOf(input - 1)
  /\ comment => Asked /\ \E o \in 1 .. input - 2 : Open(o, input) /\ Aligned(tokens, o)
  /\ Asked /\ ~comment => Aligned(tokens, input)
  /\ ~Asked => ~comment /\ Complete

LEMMA InitIs == LexerInit => LexInv
<1> SUFFICES ASSUME LexerInit PROVE LexInv OBVIOUS
<1>1. text \in Texts /\ input = 1 /\ line = 1 /\ column = 0 /\ comment = FALSE /\ tokens = <<>>
  BY DEF LexerInit
<1>2. tokens \in Seq({}) BY <1>1
<1>3. Aligned(tokens, input) BY <1>1, AlignedAtFirst
<1>4. Asked BY <1>1 DEF Asked
<1>5. line = LineOf(input) BY <1>1, FirstPlace
<1>6. column = ColumnOf(input - 1)
  <2>1. input - 1 = 0 BY <1>1
  <2> QED BY <1>1, <2>1, FirstPlace
<1>7. input \in 1 .. Len(text) + 1 BY <1>1, TextIs
<1> QED BY <1>1, <1>2, <1>3, <1>4, <1>5, <1>6, <1>7 DEF LexInv

\* What is true of the text stays true.
LEMMA PlacesStay ==
  ASSUME text' = text
  PROVE  /\ HasComment' = HasComment
         /\ LineOf(input)' = LineOf(input')
         /\ ColumnOf(input - 1)' = ColumnOf(input' - 1)
BY DEF HasComment, LineOf, ColumnOf

LEMMA AlignedStays ==
  ASSUME text' = text, Aligned(tokens', input')
  PROVE  Aligned(tokens, input)'
<1>1. Cut' = Cut BY TextStays
<1> QED BY <1>1 DEF Aligned, Same, HasComment, Content

LEMMA OnTheLine ==
  ASSUME NEW i \in Nat \ {0}, NEW m \in Nat \ {0}, \A p \in i .. i + m - 1 : text[p] # "\n"
  PROVE  LineOf(i + m) = LineOf(i) /\ ColumnOf(i + m - 1) = ColumnOf(i - 1) + m
<1>1. i + m \in Nat /\ i + m >= i /\ i + m - i = m OBVIOUS
<1> QED BY <1>1, SameLine

\* A lexeme that is a token is returned.
LEMMA TokenStep ==
  ASSUME LexInv, InText, input \in 1 .. Len(text), NEW m \in Nat \ {0},
         LexemeEnd(input) = input + m - 1,
         ~IsDropped(SubSeq(text, input, LexemeEnd(input))),
         \A p \in input .. input + m - 1 : text[p] # "\n",
         NEW type, NEW word, NEW value, type # "END",
         type = TokenOf(input, LexemeEnd(input)).type,
         word = TokenOf(input, LexemeEnd(input)).word,
         value = TokenOf(input, LexemeEnd(input)).value,
         Return(m, type, word, value)
  PROVE  LexInv'
<1> DEFINE j == input + m - 1
           t == [type |-> type, word |-> word, value |-> value,
                 line |-> line, column |-> column + m]
<1>1. /\ text' = text /\ line' = line /\ comment' = comment
      /\ input' = input + m /\ column' = column + m /\ tokens' = Append(tokens, t)
  BY DEF Return
<1>2. Asked /\ comment = FALSE BY DEF InText, LexInv
<1>3. Len(text) \in Nat /\ text \in Texts BY TextIs DEF LexInv
<1>4. j + 1 \in 1 .. Len(text) + 1 /\ input + m = j + 1 /\ j \in input .. Len(text)
  BY <1>3, LexemeEndIs
<1>5. LineOf(input + m) = LineOf(input) /\ ColumnOf(j) = ColumnOf(input - 1) + m
  <2>1. input \in Nat \ {0} BY <1>3
  <2>2. \A p \in input .. input + m - 1 : text[p] # "\n" OBVIOUS
  <2> QED BY <2>1, <2>2, OnTheLine
<1>6. Same(t, TokenOf(input, LexemeEnd(input)))
  <2> DEFINE e == TokenOf(input, LexemeEnd(input))
  <2>1. e.line = LineOf(input) /\ e.column = ColumnOf(j) BY DEF TokenOf
  <2>2. type = e.type /\ word = e.word /\ value = e.value OBVIOUS
  <2> HIDE DEF e
  <2>3. Content(t) = Content(e) BY <2>2 DEF Content
  <2>4. t.line = e.line BY <2>1 DEF LexInv
  <2>5. HasComment \/ t.column = e.column BY <1>5, <2>1 DEF LexInv
  <2>6. Same(t, e) BY <2>3, <2>4, <2>5 DEF Same
  <2> QED BY <2>6 DEF e
<1>7. PICK S : tokens \in Seq(S) BY DEF LexInv
<1>8. Aligned(tokens, input) BY <1>2 DEF LexInv
<1>9. t.type # "END" OBVIOUS
<1> HIDE DEF t
<1>10. Aligned(tokens', input') BY <1>1, <1>3, <1>4, <1>6, <1>7, <1>8, AlignedAfter
<1>11. Aligned(tokens, input)' BY <1>1, <1>10, AlignedStays
<1>12. tokens' \in Seq(S \cup {t}) BY <1>1, <1>7
<1>13. Asked'
  <2>1. ASSUME NEW k \in DOMAIN tokens' PROVE tokens'[k].type # "END"
    <3>1. k \in 1 .. Len(tokens) + 1 BY <1>1, <1>7
    <3>2. CASE k = Len(tokens) + 1 BY <1>1, <1>7, <1>9, <3>2
    <3>3. CASE k \in 1 .. Len(tokens)
      <4>1. tokens'[k] = tokens[k] /\ k \in DOMAIN tokens BY <1>1, <1>7, <3>3
      <4> QED BY <1>2, <4>1 DEF Asked
    <3> QED BY <1>7, <3>1, <3>2, <3>3
  <2> QED BY <2>1 DEF Asked
<1>14. ~HasComment => column + m = ColumnOf(input + m - 1) BY <1>5 DEF LexInv
<1>15. line = LineOf(input + m) BY <1>5 DEF LexInv
<1>16. /\ (line = LineOf(input))'
       /\ (~HasComment => ~comment /\ column = ColumnOf(input - 1))'
  BY <1>1, <1>2, <1>14, <1>15, PlacesStay
<1>17. (input \in 1 .. Len(text) + 1)' /\ (text \in Texts)' /\ (comment = FALSE)'
  BY <1>1, <1>2, <1>3, <1>4
<1>18. (\E X : tokens \in Seq(X))' BY <1>12
<1> QED BY <1>11, <1>13, <1>16, <1>17, <1>18 DEF LexInv

\* A lexeme that is dropped is skipped.
LEMMA DropStep ==
  ASSUME LexInv, InText, input \in 1 .. Len(text), NEW m \in Nat \ {0},
         LexemeEnd(input) = input + m - 1,
         IsDropped(SubSeq(text, input, LexemeEnd(input))),
         \A p \in input .. input + m - 1 : text[p] # "\n",
         Skip(m), comment' = comment
  PROVE  LexInv'
<1>1. /\ text' = text /\ line' = line /\ tokens' = tokens
      /\ input' = input + m /\ column' = column + m
  BY DEF Skip
<1>2. Asked /\ comment = FALSE BY DEF InText, LexInv
<1>3. Len(text) \in Nat /\ text \in Texts BY TextIs DEF LexInv
<1>4. input + m \in 1 .. Len(text) + 1 /\ LexemeEnd(input) + 1 = input + m
  BY <1>3, LexemeEndIs
<1>5. LineOf(input + m) = LineOf(input) /\ ColumnOf(input + m - 1) = ColumnOf(input - 1) + m
  <2>1. input \in Nat \ {0} BY <1>3
  <2>2. \A p \in input .. input + m - 1 : text[p] # "\n" OBVIOUS
  <2> QED BY <2>1, <2>2, OnTheLine
<1>6. Aligned(tokens, input) BY <1>2 DEF LexInv
<1>7. Aligned(tokens', input') BY <1>1, <1>3, <1>4, <1>6, AlignedOver
<1>8. Aligned(tokens, input)' BY <1>1, <1>7, AlignedStays
<1>9. Asked' BY <1>1, <1>2 DEF Asked
<1>10. ~HasComment => column + m = ColumnOf(input + m - 1) BY <1>5 DEF LexInv
<1>11. line = LineOf(input + m) BY <1>5 DEF LexInv
<1>12. /\ (line = LineOf(input))'
       /\ (~HasComment => ~comment /\ column = ColumnOf(input - 1))'
  BY <1>1, <1>2, <1>10, <1>11, PlacesStay
<1>13. (input \in 1 .. Len(text) + 1)' /\ (text \in Texts)' /\ (comment = FALSE)'
  BY <1>1, <1>2, <1>3, <1>4
<1>14. (\E X : tokens \in Seq(X))' BY <1>1 DEF LexInv
<1> QED BY <1>8, <1>9, <1>12, <1>13, <1>14 DEF LexInv

-----------------------------------------------------------------------------
(* Where the lexer looks *)

LEMMA PeekIs ==
  ASSUME LexInv
  PROVE  /\ Len(text) \in Nat /\ text \in Texts /\ input \in Nat
         /\ peek # "NUL" => input \in 1 .. Len(text) /\ peek = text[input]
         /\ peek = "NUL" => input = Len(text) + 1
         /\ input \in 1 .. Len(text) => peek = text[input]
         /\ Peek(1) # "NUL" => input + 1 \in 1 .. Len(text) /\ Peek(1) = text[input + 1]
         /\ input + 1 <= Len(text) => Peek(1) = text[input + 1]
<1>1. text \in Texts /\ input \in 1 .. Len(text) + 1 BY DEF LexInv
<1>2. Len(text) \in Nat /\ \A k \in 1 .. Len(text) : text[k] # "NUL" BY <1>1, TextIs
<1>3. input \in Nat /\ input + 0 = input /\ input >= 1 BY <1>1, <1>2
<1>4. peek = IF input <= Len(text) THEN text[input] ELSE "NUL" BY <1>3 DEF peek, Peek
<1>5. Peek(1) = IF input + 1 <= Len(text) THEN text[input + 1] ELSE "NUL" BY DEF Peek
<1>6. input \in 1 .. Len(text) <=> input <= Len(text) BY <1>1, <1>2
<1>7. ~(input <= Len(text)) => input = Len(text) + 1 BY <1>1, <1>2
<1>8. input + 1 <= Len(text) => input + 1 \in 1 .. Len(text) BY <1>2, <1>3
<1> QED BY <1>1, <1>2, <1>3, <1>4, <1>5, <1>6, <1>7, <1>8

LEMMA PiecesEnd ==
  ASSUME LexInv, NEW S, "NUL" \notin S, NEW k \in Nat, k <= Len(text) + 1 - input
  PROVE  /\ EndOf(S, k) \in k .. Len(text) + 1 - input
         /\ Peek(EndOf(S, k)) \notin S
         /\ \A j \in k .. EndOf(S, k) - 1 : Peek(j) \in S
<1> DEFINE n == Len(text) + 1 - input
           E == {j \in k .. n : Peek(j) \notin S}
<1>1. n \in Nat /\ k \in 0 .. n BY PeekIs DEF LexInv
<1>2. Peek(n) = "NUL"
  <2>1. ~(input + n <= Len(text)) BY PeekIs
  <2> QED BY <2>1 DEF Peek
<1>3. n \in E BY <1>1, <1>2
<1>4. E \subseteq Nat BY <1>1
<1>5. EndOf(S, k) = Min(E) BY DEF EndOf
<1>6. \A j \in E : j \in k .. n /\ Peek(j) \notin S OBVIOUS
<1>7. \A j \in k .. n : Peek(j) \notin S => j \in E OBVIOUS
<1> HIDE DEF E
<1>8. Min(E) \in E /\ \A x \in E : Min(E) <= x BY <1>3, <1>4, MinIs
<1>9. Min(E) \in k .. n /\ Peek(Min(E)) \notin S BY <1>6, <1>8
<1>10. ASSUME NEW j \in k .. Min(E) - 1 PROVE Peek(j) \in S
  <2>1. j \in k .. n /\ ~(Min(E) <= j) BY <1>1, <1>9
  <2> QED BY <1>7, <1>8, <2>1
<1> QED BY <1>5, <1>9, <1>10

\* Nothing is longer than a piece that begins nothing.
LEMMA SinglePiece ==
  ASSUME text \in Texts, NEW i \in 1 .. Len(text),
         text[i] \notin Letter \cup Digit \cup DOMAIN Two \cup {"/"}
  PROVE  LexemeEnd(i) = i
<1>1. \A k \in i + 1 .. Len(text) : ~Longer(i, k)
  BY DEF Longer, LongWord, LongLiteral, Pair, RestOfLine, Commented
<1> QED BY <1>1, EndsHere

LEMMA OnePiece ==
  ASSUME text \in Texts, NEW i \in 1 .. Len(text)
  PROVE  SubSeq(text, i, i) = <<text[i]>>
<1>1. i \in i .. Len(text) /\ i - i + 1 = 1 BY TextIs
<1> DEFINE s == SubSeq(text, i, i)
<1>2. Len(s) = 1 /\ s[1] = text[i] BY <1>1, Part
<1>3. s \in Seq(STRING) BY TextIs
<1> HIDE DEF s
<1>4. s = <<s[1]>> BY <1>2, <1>3
<1> QED BY <1>2, <1>4 DEF s

-----------------------------------------------------------------------------
(* Each action keeps the invariant: white space and lines *)

LEMMA WhiteKeeps == ASSUME LexInv, White PROVE LexInv'
<1>1. InText /\ peek \in Blank /\ Skip(1) /\ comment' = comment BY DEF White
<1>2. peek \notin Special /\ peek \notin Letter \cup Digit \cup DOMAIN Two
  BY <1>1, Classes
<1>3. input \in 1 .. Len(text) /\ peek = text[input] BY <1>2, PeekIs DEF Special
<1>4. LexemeEnd(input) = input BY <1>2, <1>3, SinglePiece, PeekIs DEF Special
<1>5. SubSeq(text, input, input) = <<text[input]>> BY <1>3, OnePiece, PeekIs
<1>6. IsDropped(SubSeq(text, input, LexemeEnd(input))) BY <1>1, <1>3, <1>4, <1>5 DEF IsDropped
<1>7. \A p \in input .. input + 1 - 1 : text[p] # "\n" BY <1>2, <1>3 DEF Special
<1>8. LexemeEnd(input) = input + 1 - 1 BY <1>3, <1>4, PeekIs
<1> QED BY <1>1, <1>3, <1>6, <1>7, <1>8, DropStep

LEMMA NewLineKeeps == ASSUME LexInv, NewLine PROVE LexInv'
<1>1. /\ InText /\ peek = "\n"
      /\ input' = input + 1 /\ line' = line + 1 /\ column' = 0
      /\ text' = text /\ comment' = comment /\ tokens' = tokens
  BY DEF NewLine
<1>2. input \in 1 .. Len(text) /\ text[input] = "\n" BY <1>1, PeekIs
<1>3. text[input] \notin Letter \cup Digit \cup DOMAIN Two \cup {"/"}
  BY <1>2, Classes DEF Special
<1>4. LexemeEnd(input) = input BY <1>2, <1>3, SinglePiece, PeekIs
<1>5. SubSeq(text, input, input) = <<text[input]>> BY <1>2, OnePiece, PeekIs
<1>6. IsDropped(SubSeq(text, input, LexemeEnd(input))) BY <1>2, <1>4, <1>5 DEF IsDropped
<1>7. Asked /\ comment = FALSE BY <1>1 DEF InText, LexInv
<1>8. Aligned(tokens, input) BY <1>7 DEF LexInv
<1>9. Aligned(tokens', input')
  <2>1. Aligned(tokens, LexemeEnd(input) + 1) BY <1>2, <1>6, <1>8, AlignedOver, PeekIs
  <2> QED BY <1>1, <1>4, <2>1
<1>10. Aligned(tokens, input)' BY <1>1, <1>9, AlignedStays
<1>11. LineOf(input + 1) = LineOf(input) + 1 /\ ColumnOf(input + 1 - 1) = 0
  <2>1. input \in Nat \ {0} BY <1>2, PeekIs
  <2>2. input + 1 - 1 = input BY <2>1
  <2>3. LineOf(input + 1) = LineOf(input) + 1 /\ ColumnOf(input) = 0 BY <1>2, <2>1, NextLine
  <2> QED BY <2>2, <2>3
<1>12. line + 1 = LineOf(input + 1) BY <1>11 DEF LexInv
<1>13. /\ (line = LineOf(input))'
       /\ (~HasComment => ~comment /\ column = ColumnOf(input - 1))'
  <2>1. LineOf(input') = LineOf(input + 1) /\ ColumnOf(input' - 1) = ColumnOf(input + 1 - 1)
    <3>1. input' = input + 1 BY <1>1
    <3>2. input \in Nat BY PeekIs
    <3>3. input' - 1 = input + 1 - 1 BY <3>1, <3>2
    <3> QED BY <3>1, <3>3, Zenon
  <2>2. LineOf(input)' = line' /\ ColumnOf(input - 1)' = 0
    <3>1. LineOf(input)' = LineOf(input') /\ ColumnOf(input - 1)' = ColumnOf(input' - 1)
      BY <1>1, PlacesStay
    <3>2. LineOf(input') = line' BY <1>1, <1>12, <2>1
    <3>3. ColumnOf(input' - 1) = 0 BY <1>11, <2>1
    <3> QED BY <3>1, <3>2, <3>3
  <2>3. (comment = FALSE)' BY <1>1, <1>7
  <2> QED BY <1>1, <2>2, <2>3
<1>14. (input \in 1 .. Len(text) + 1)' /\ (text \in Texts)' /\ (comment = FALSE)'
  BY <1>1, <1>2, <1>7, PeekIs
<1>15. Asked' BY <1>1, <1>7 DEF Asked
<1>16. (\E X : tokens \in Seq(X))' BY <1>1 DEF LexInv
<1> QED BY <1>10, <1>13, <1>14, <1>15, <1>16 DEF LexInv

LEMMA EndKeeps == ASSUME LexInv, End PROVE LexInv'
<1> DEFINE t == [type |-> "END", word |-> <<>>, value |-> 0,
                 line |-> line, column |-> column + 0]
<1>1. /\ InText /\ peek = "NUL"
      /\ input' = input + 0 /\ line' = line /\ column' = column + 0
      /\ text' = text /\ comment' = comment /\ tokens' = Append(tokens, t)
  BY DEF End, Return
<1>2. input = Len(text) + 1 /\ input + 0 = input /\ Len(text) \in Nat /\ text \in Texts
  BY <1>1, PeekIs
<1>3. Asked /\ comment = FALSE BY <1>1 DEF InText, LexInv
<1>4. PICK S : tokens \in Seq(S) BY DEF LexInv
<1>5. Aligned(tokens, input) BY <1>3 DEF LexInv
<1>6. Cut[input] = <<LastToken>> BY <1>2, CutExists DEF IsCut
<1>7. t.type = "END" OBVIOUS
<1>8. Same(t, LastToken)
  <2>1. LastToken.line = LineOf(input) /\ LastToken.column = ColumnOf(Len(text))
        /\ Content(LastToken) = [type |-> "END", word |-> <<>>, value |-> 0]
    BY <1>2 DEF LastToken, Content
  <2>2. Content(t) = [type |-> "END", word |-> <<>>, value |-> 0] BY DEF Content
  <2>3. t.line = LastToken.line BY <2>1 DEF LexInv
  <2>4. HasComment \/ t.column = LastToken.column
    <3>1. input - 1 = Len(text) BY <1>2
    <3>2. ~HasComment => column = ColumnOf(Len(text)) BY <3>1 DEF LexInv
    <3>3. ColumnOf(Len(text)) + 0 = ColumnOf(Len(text))
      <4>1. ColumnOf(Len(text)) \in Int
        <5> DEFINE X == {0} \cup {j \in 1 .. Len(text) : text[j] = "\n"}
                   n == Len(text)
        <5>1. n \in Nat BY <1>2
        <5>2. X \subseteq 0 .. n BY <5>1
        <5>3. X # {} OBVIOUS
        <5>4. ColumnOf(n) = n - Max(X) BY DEF ColumnOf
        <5> HIDE DEF X, n
        <5>5. Max(X) \in X BY <5>1, <5>2, <5>3, MaxIs, Zenon
        <5>6. \A k \in 0 .. n : k \in Int BY <5>1
        <5>7. \A k \in X : k \in Int BY <5>2, <5>6
        <5>8. Max(X) \in Int BY <5>5, <5>7, Zenon
        <5>9. ColumnOf(n) \in Int BY <5>1, <5>4, <5>8
        <5> QED BY <5>9 DEF n
      <4> QED BY <4>1
    <3> QED BY <3>2, <3>3, <2>1
  <2> HIDE DEF t
  <2> QED BY <2>1, <2>2, <2>3, <2>4 DEF Same
<1> HIDE DEF t
<1>9. Len(Cut[1]) = Len(tokens) + 1 /\ Cut[1][Len(tokens) + 1] = LastToken
  <2>1. Len(Cut[input]) = 1 /\ Cut[input][1] = LastToken BY <1>6
  <2>2. Cut[1][Len(tokens) + 1] = Cut[input][1] BY <1>5, <2>1 DEF Aligned
  <2> QED BY <1>5, <2>1, <2>2 DEF Aligned
<1>10. Len(tokens') = Len(Cut[1]) BY <1>1, <1>4, <1>9
<1>11. ASSUME NEW k \in 1 .. Len(tokens') PROVE Same(tokens'[k], Cut[1][k])
  <2>1. k \in 1 .. Len(tokens) + 1 BY <1>1, <1>4
  <2>2. CASE k = Len(tokens) + 1
    <3>1. tokens'[k] = t BY <1>1, <1>4, <2>2
    <3> QED BY <1>8, <1>9, <2>2, <3>1
  <2>3. CASE k \in 1 .. Len(tokens)
    <3>1. tokens'[k] = tokens[k] BY <1>1, <1>4, <2>3
    <3>2. Same(tokens[k], Cut[1][k]) BY <1>5, <2>3 DEF Aligned
    <3> QED BY <3>1, <3>2
  <2> QED BY <1>4, <2>1, <2>2, <2>3
<1>12. Complete'
  <2>1. Cut' = Cut BY <1>1, TextStays
  <2> QED BY <1>1, <1>10, <1>11, <2>1 DEF Complete, Same, HasComment, Content
<1>13. ~Asked'
  <2>1. Len(tokens) + 1 \in DOMAIN tokens' /\ tokens'[Len(tokens) + 1].type = "END"
    BY <1>1, <1>4, <1>7
  <2> QED BY <2>1 DEF Asked
<1>14. ~HasComment => column + 0 = ColumnOf(input - 1)
  <2>1. HasComment \/ t.column = LastToken.column BY <1>8 DEF Same
  <2>2. input - 1 = Len(text) BY <1>2
  <2> QED BY <2>1, <2>2 DEF LastToken, t
<1>15. /\ (line = LineOf(input))'
       /\ (~HasComment => ~comment /\ column = ColumnOf(input - 1))'
  BY <1>1, <1>2, <1>3, <1>14, PlacesStay DEF LexInv
<1>16. (input \in 1 .. Len(text) + 1)' /\ (text \in Texts)' /\ (comment = FALSE)'
  BY <1>1, <1>2, <1>3
<1>17. (\E X : tokens \in Seq(X))'
  <2>1. tokens' \in Seq(S \cup {t}) BY <1>1, <1>4
  <2> QED BY <2>1
<1> QED BY <1>12, <1>13, <1>15, <1>16, <1>17 DEF LexInv

-----------------------------------------------------------------------------
(* Each action keeps the invariant: tokens *)

\* A token of m pieces, of which the text there is
LEMMA TokenIs ==
  ASSUME text \in Texts, NEW i \in 1 .. Len(text), NEW m \in Nat \ {0}, i + m - 1 <= Len(text),
         LexemeEnd(i) = i + m - 1
  PROVE  LET s == SubSeq(text, i, i + m - 1)
         IN  /\ Len(s) = m /\ s[1] = text[i]
             /\ \A q \in 1 .. m : s[q] = text[i + q - 1]
             /\ TokenOf(i, LexemeEnd(i)).type = TypeOf(s)
             /\ TokenOf(i, LexemeEnd(i)).word =
                  (IF TypeOf(s) \in {"IDENT", "INVALID"} THEN s ELSE <<>>)
             /\ TokenOf(i, LexemeEnd(i)).value =
                  (IF s[1] \in Digit THEN Written(s) % (MaxLiteral + 1) ELSE 0)
             /\ IsDropped(SubSeq(text, i, LexemeEnd(i))) <=>
                  text[i] \in Blank \cup {"\n"} \/ (text[i] = "/" /\ m > 1)
<1> DEFINE j == i + m - 1
           s == SubSeq(text, i, j)
<1>1. j \in i .. Len(text) /\ j - i + 1 = m BY TextIs
<1>2. Len(s) = m /\ s[1] = text[i] /\ \A q \in 1 .. m : s[q] = text[i + q - 1] BY <1>1, Part
<1>3. IsDropped(s) <=> text[i] \in Blank \cup {"\n"} \/ (text[i] = "/" /\ m > 1)
  BY <1>2 DEF IsDropped
<1> QED BY <1>2, <1>3 DEF TokenOf

LEMMA TypeIs ==
  ASSUME NEW s
  PROVE  /\ s[1] \in Letter => TypeOf(s) = IF s \in DOMAIN Keyword THEN Keyword[s] ELSE "IDENT"
         /\ s[1] \in Digit => TypeOf(s) = IF s[Len(s)] = "u" THEN "UINT_LIT" ELSE "INT_LIT"
         /\ s[1] \in DOMAIN Two => TypeOf(s) = Two[s[1]][Len(s) + 1]
         /\ s[1] \in DOMAIN One => TypeOf(s) = One[s[1]]
         /\ s[1] = "/" => TypeOf(s) = "SLASH"
         /\ s[1] \notin Letter \cup Digit \cup DOMAIN Two \cup DOMAIN One \cup {"/"} =>
              TypeOf(s) = "INVALID"
<1> DEFINE c == s[1]
           L == IF s \in DOMAIN Keyword THEN Keyword[s] ELSE "IDENT"
           D == IF s[Len(s)] = "u" THEN "UINT_LIT" ELSE "INT_LIT"
           T == Two[s[1]][Len(s) + 1]
           O == One[s[1]]
<1>1. TypeOf(s) = CASE c \in Letter     -> L
                    [] c \in Digit      -> D
                    [] c \in DOMAIN Two -> T
                    [] c \in DOMAIN One -> O
                    [] c = "/"          -> "SLASH"
                    [] OTHER            -> "INVALID"
  BY DEF TypeOf
<1>2. /\ c \in Letter => c \notin Digit \cup DOMAIN One \cup DOMAIN Two \cup {"/"}
      /\ c \in Digit => c \notin DOMAIN One \cup DOMAIN Two \cup {"/"}
      /\ c \in DOMAIN Two => c \notin DOMAIN One \cup {"/"}
      /\ c \in DOMAIN One => c # "/"
  BY Classes DEF Special
<1> HIDE DEF c, L, D, T, O
<1>3. /\ c \in Letter => TypeOf(s) = L
      /\ c \in Digit => TypeOf(s) = D
      /\ c \in DOMAIN Two => TypeOf(s) = T
      /\ c \in DOMAIN One => TypeOf(s) = O
      /\ c = "/" => TypeOf(s) = "SLASH"
      /\ c \notin Letter \cup Digit \cup DOMAIN Two \cup DOMAIN One \cup {"/"} =>
           TypeOf(s) = "INVALID"
  BY <1>1, <1>2
<1> QED BY <1>3 DEF c, L, D, T, O

\* A token of one piece, which is no digit
LEMMA OneLong ==
  ASSUME text \in Texts, NEW i \in 1 .. Len(text), LexemeEnd(i) = i,
         text[i] \notin Digit \cup Blank \cup {"\n"}
  PROVE  LET s == <<text[i]>>
         IN  /\ TokenOf(i, LexemeEnd(i)).type = TypeOf(s)
             /\ TokenOf(i, LexemeEnd(i)).word =
                  (IF TypeOf(s) \in {"IDENT", "INVALID"} THEN s ELSE <<>>)
             /\ TokenOf(i, LexemeEnd(i)).value = 0
             /\ ~IsDropped(SubSeq(text, i, LexemeEnd(i)))
             /\ i + 1 - 1 = i
<1> DEFINE s == <<text[i]>>
<1>1. SubSeq(text, i, i) = s BY OnePiece
<1>2. s[1] = text[i] /\ Len(s) = 1 OBVIOUS
<1>3. i + 1 - 1 = i BY TextIs
<1> HIDE DEF s
<1>4. ~IsDropped(s) BY <1>2 DEF IsDropped
<1>5. TokenOf(i, i) = [type   |-> TypeOf(s),
                       word   |-> IF TypeOf(s) \in {"IDENT", "INVALID"} THEN s ELSE <<>>,
                       value  |-> IF s[1] \in Digit THEN Written(s) % (MaxLiteral + 1) ELSE 0,
                       line   |-> LineOf(i),
                       column |-> ColumnOf(i)]
  BY <1>1 DEF TokenOf
<1>6. /\ TokenOf(i, i).type = TypeOf(s)
      /\ TokenOf(i, i).word = (IF TypeOf(s) \in {"IDENT", "INVALID"} THEN s ELSE <<>>)
      /\ TokenOf(i, i).value = 0
  BY <1>2, <1>5
<1> QED BY <1>1, <1>3, <1>4, <1>6 DEF s

LEMMA OneKeeps == ASSUME LexInv, OneCharacter PROVE LexInv'
<1> DEFINE s == <<text[input]>>
<1>1. InText /\ peek \in DOMAIN One /\ Return(1, One[peek], <<>>, 0) BY DEF OneCharacter
<1>2. peek \notin Special \cup Letter \cup Digit \cup DOMAIN Two \cup Blank
  BY <1>1, Classes
<1>3. input \in 1 .. Len(text) /\ peek = text[input] /\ text \in Texts
  BY <1>2, PeekIs DEF Special
<1>4. LexemeEnd(input) = input BY <1>2, <1>3, SinglePiece DEF Special
<1>5. /\ TokenOf(input, LexemeEnd(input)).type = TypeOf(s)
      /\ TokenOf(input, LexemeEnd(input)).word =
           (IF TypeOf(s) \in {"IDENT", "INVALID"} THEN s ELSE <<>>)
      /\ TokenOf(input, LexemeEnd(input)).value = 0
      /\ ~IsDropped(SubSeq(text, input, LexemeEnd(input)))
      /\ input + 1 - 1 = input
  BY <1>2, <1>3, <1>4, OneLong DEF Special
<1>6. s[1] = peek BY <1>3
<1> HIDE DEF s
<1>7. TypeOf(s) = One[peek] BY <1>1, <1>6, TypeIs
<1>8. One[peek] \notin Worded BY <1>1, Ones
<1>9. \A p \in input .. input + 1 - 1 : text[p] # "\n"
  <2>1. \A p \in input .. input : p = input BY <1>3, PeekIs
  <2> QED BY <1>2, <1>3, <1>5, <2>1 DEF Special
<1>10. /\ One[peek] = TokenOf(input, LexemeEnd(input)).type
       /\ <<>> = TokenOf(input, LexemeEnd(input)).word
       /\ 0 = TokenOf(input, LexemeEnd(input)).value
       /\ One[peek] # "END"
  BY <1>5, <1>7, <1>8 DEF Worded
<1>11. LexemeEnd(input) = input + 1 - 1 /\ 1 \in Nat \ {0} BY <1>4, <1>5
<1> QED BY <1>1, <1>3, <1>5, <1>9, <1>10, <1>11, TokenStep

LEMMA SlashKeeps == ASSUME LexInv, Slash PROVE LexInv'
<1> DEFINE s == <<text[input]>>
<1>1. /\ InText /\ peek = "/" /\ Peek(1) \notin {"/", "*"} /\ Return(1, "SLASH", <<>>, 0)
  BY DEF Slash
<1>2. peek \notin Letter \cup Digit \cup DOMAIN Two \cup DOMAIN One \cup Blank \cup {"\n"}
  BY <1>1, Classes DEF Special
<1>3. input \in 1 .. Len(text) /\ peek = text[input] /\ text \in Texts /\ Len(text) \in Nat
  BY <1>1, PeekIs
<1>4. LexemeEnd(input) = input
  <2>1. ASSUME NEW k \in input + 1 .. Len(text) PROVE ~Longer(input, k)
    <3>1. input + 1 <= Len(text) BY <1>3
    <3>2. text[input + 1] \notin {"/", "*"} BY <1>1, <3>1, PeekIs
    <3> QED BY <1>2, <1>3, <3>2
            DEF Longer, LongWord, LongLiteral, Pair, RestOfLine, Commented
  <2> QED BY <1>3, <2>1, EndsHere
<1>5. /\ TokenOf(input, LexemeEnd(input)).type = TypeOf(s)
      /\ TokenOf(input, LexemeEnd(input)).word =
           (IF TypeOf(s) \in {"IDENT", "INVALID"} THEN s ELSE <<>>)
      /\ TokenOf(input, LexemeEnd(input)).value = 0
      /\ ~IsDropped(SubSeq(text, input, LexemeEnd(input)))
      /\ input + 1 - 1 = input
  BY <1>2, <1>3, <1>4, OneLong
<1>6. s[1] = peek BY <1>3
<1> HIDE DEF s
<1>7. TypeOf(s) = "SLASH" BY <1>1, <1>6, TypeIs
<1>9. \A p \in input .. input + 1 - 1 : text[p] # "\n"
  <2>1. \A p \in input .. input : p = input BY <1>3
  <2> QED BY <1>2, <1>3, <1>5, <2>1
<1>10. /\ "SLASH" = TokenOf(input, LexemeEnd(input)).type
       /\ <<>> = TokenOf(input, LexemeEnd(input)).word
       /\ 0 = TokenOf(input, LexemeEnd(input)).value
  BY <1>5, <1>7
<1>11. LexemeEnd(input) = input + 1 - 1 /\ 1 \in Nat \ {0} BY <1>4, <1>5
<1> QED BY <1>1, <1>3, <1>5, <1>9, <1>10, <1>11, TokenStep

LEMMA InvalidKeeps == ASSUME LexInv, Invalid PROVE LexInv'
<1> DEFINE s == <<text[input]>>
<1>1. InText /\ peek \notin Known /\ Return(1, "INVALID", <<peek>>, 0) BY DEF Invalid
<1>2. peek \notin Special \cup Letter \cup Digit \cup DOMAIN Two \cup DOMAIN One \cup Blank
  BY <1>1 DEF Known, Special
<1>3. input \in 1 .. Len(text) /\ peek = text[input] /\ text \in Texts
  BY <1>2, PeekIs DEF Special
<1>4. LexemeEnd(input) = input BY <1>2, <1>3, SinglePiece DEF Special
<1>5. /\ TokenOf(input, LexemeEnd(input)).type = TypeOf(s)
      /\ TokenOf(input, LexemeEnd(input)).word =
           (IF TypeOf(s) \in {"IDENT", "INVALID"} THEN s ELSE <<>>)
      /\ TokenOf(input, LexemeEnd(input)).value = 0
      /\ ~IsDropped(SubSeq(text, input, LexemeEnd(input)))
      /\ input + 1 - 1 = input
  BY <1>2, <1>3, <1>4, OneLong DEF Special
<1>6. s[1] = peek /\ s = <<peek>> BY <1>3
<1> HIDE DEF s
<1>7. TypeOf(s) = "INVALID" BY <1>2, <1>6, TypeIs DEF Special
<1>9. \A p \in input .. input + 1 - 1 : text[p] # "\n"
  <2>1. \A p \in input .. input : p = input BY <1>3, PeekIs
  <2> QED BY <1>2, <1>3, <1>5, <2>1 DEF Special
<1>10. /\ "INVALID" = TokenOf(input, LexemeEnd(input)).type
       /\ <<peek>> = TokenOf(input, LexemeEnd(input)).word
       /\ 0 = TokenOf(input, LexemeEnd(input)).value
  BY <1>5, <1>6, <1>7
<1>11. LexemeEnd(input) = input + 1 - 1 /\ 1 \in Nat \ {0} BY <1>4, <1>5
<1> QED BY <1>1, <1>3, <1>5, <1>9, <1>10, <1>11, TokenStep

\* The pieces of S from the k-th on, as far as they go
LEMMA PiecesAre ==
  ASSUME LexInv, NEW S, "NUL" \notin S, NEW k \in Nat, k <= Len(text) + 1 - input
  PROVE  LET m == EndOf(S, k)
         IN  /\ m \in k .. Len(text) + 1 - input
             /\ \A p \in input + k .. input + m - 1 : text[p] \in S
             /\ input + m <= Len(text) => text[input + m] \notin S
<1> DEFINE m == EndOf(S, k)
<1>1. m \in k .. Len(text) + 1 - input /\ Peek(m) \notin S /\ \A j \in k .. m - 1 : Peek(j) \in S
  BY PiecesEnd
<1> HIDE DEF m
<1>2. Len(text) \in Nat /\ input \in Nat BY PeekIs
<1>3. ASSUME NEW p \in input + k .. input + m - 1 PROVE text[p] \in S
  <2>1. p - input \in k .. m - 1 /\ input + (p - input) = p /\ p <= Len(text) BY <1>1, <1>2
  <2>2. Peek(p - input) \in S BY <1>1, <2>1
  <2>3. Peek(p - input) = text[p] BY <2>1 DEF Peek
  <2> QED BY <2>2, <2>3
<1>4. input + m <= Len(text) => Peek(m) = text[input + m] BY DEF Peek
<1> QED BY <1>1, <1>3, <1>4 DEF m

LEMMA TwoKeeps == ASSUME LexInv, TwoCharacters PROVE LexInv'
<1> DEFINE two == Two[peek]
<1>1. /\ InText /\ peek \in DOMAIN Two
      /\ IF Peek(1) = two[1] THEN Return(2, two[3], <<>>, 0) ELSE Return(1, two[2], <<>>, 0)
  BY DEF TwoCharacters
<1>2. peek \notin Special \cup Letter \cup Digit \cup DOMAIN One \cup Blank
  BY <1>1, Classes
<1>3. input \in 1 .. Len(text) /\ peek = text[input] /\ text \in Texts /\ Len(text) \in Nat
  BY <1>2, PeekIs DEF Special
<1>4. two[1] \notin {"NUL", "\n"} /\ two[2] \notin Worded /\ two[3] \notin Worded
  BY <1>1, Twos
<1>5. \A k \in input + 1 .. Len(text) : Longer(input, k) <=> Pair(input, k)
  BY <1>2, <1>3 DEF Longer, LongWord, LongLiteral, RestOfLine, Commented, Special
<1>6. CASE Peek(1) = two[1]
  <2> DEFINE s == SubSeq(text, input, input + 2 - 1)
  <2>1. input + 1 \in 1 .. Len(text) /\ text[input + 1] = two[1] BY <1>4, <1>6, PeekIs
  <2>2. LexemeEnd(input) = input + 1
    <3>1. input + 1 \in input + 1 .. Len(text) BY <2>1
    <3>2. Longer(input, input + 1) BY <1>1, <1>3, <1>5, <2>1, <3>1 DEF Pair
    <3>3. ASSUME NEW k \in input + 1 + 1 .. Len(text) PROVE ~Longer(input, k)
      <4>1. k \in input + 1 .. Len(text) /\ k # input + 1 BY <1>3
      <4> QED BY <1>5, <4>1 DEF Pair
    <3> QED BY <1>3, <3>1, <3>2, <3>3, EndsThere
  <2>3. LexemeEnd(input) = input + 2 - 1 /\ input + 2 - 1 <= Len(text) /\ 2 \in Nat \ {0}
    BY <1>3, <2>1, <2>2
  <2>4. /\ Len(s) = 2 /\ s[1] = text[input]
        /\ TokenOf(input, LexemeEnd(input)).type = TypeOf(s)
        /\ TokenOf(input, LexemeEnd(input)).word =
             (IF TypeOf(s) \in {"IDENT", "INVALID"} THEN s ELSE <<>>)
        /\ TokenOf(input, LexemeEnd(input)).value =
             (IF s[1] \in Digit THEN Written(s) % (MaxLiteral + 1) ELSE 0)
        /\ IsDropped(SubSeq(text, input, LexemeEnd(input))) <=>
             text[input] \in Blank \cup {"\n"} \/ (text[input] = "/" /\ 2 > 1)
    BY <1>3, <2>3, TokenIs
  <2> HIDE DEF s
  <2>5. TypeOf(s) = two[3]
    <3>1. TypeOf(s) = Two[s[1]][Len(s) + 1] BY <1>1, <1>3, <2>4, TypeIs
    <3> QED BY <1>3, <2>4, <3>1
  <2>6. \A p \in input .. input + 2 - 1 : text[p] # "\n"
    <3>1. \A p \in input .. input + 2 - 1 : p = input \/ p = input + 1 BY <1>3
    <3> QED BY <1>2, <1>3, <1>4, <2>1, <3>1 DEF Special
  <2>7. /\ two[3] = TokenOf(input, LexemeEnd(input)).type
        /\ <<>> = TokenOf(input, LexemeEnd(input)).word
        /\ 0 = TokenOf(input, LexemeEnd(input)).value
        /\ two[3] # "END"
        /\ ~IsDropped(SubSeq(text, input, LexemeEnd(input)))
    BY <1>2, <1>3, <1>4, <2>4, <2>5 DEF Worded, Special
  <2>8. InText /\ Return(2, two[3], <<>>, 0) BY <1>1, <1>6
  <2> HIDE DEF two
  <2> QED BY <1>3, <2>3, <2>6, <2>7, <2>8, TokenStep
<1>7. CASE Peek(1) # two[1]
  <2> DEFINE s == <<text[input]>>
  <2>1. LexemeEnd(input) = input
    <3>1. ASSUME NEW k \in input + 1 .. Len(text) PROVE ~Longer(input, k)
      <4>1. input + 1 <= Len(text) BY <1>3
      <4>2. text[input + 1] # two[1] BY <1>7, <4>1, PeekIs
      <4> QED BY <1>3, <1>5, <4>2 DEF Pair
    <3> QED BY <1>3, <3>1, EndsHere
  <2>2. /\ TokenOf(input, LexemeEnd(input)).type = TypeOf(s)
        /\ TokenOf(input, LexemeEnd(input)).word =
             (IF TypeOf(s) \in {"IDENT", "INVALID"} THEN s ELSE <<>>)
        /\ TokenOf(input, LexemeEnd(input)).value = 0
        /\ ~IsDropped(SubSeq(text, input, LexemeEnd(input)))
        /\ input + 1 - 1 = input
    BY <1>2, <1>3, <2>1, OneLong DEF Special
  <2>3. s[1] = peek /\ Len(s) = 1 BY <1>3
  <2> HIDE DEF s
  <2>4. TypeOf(s) = two[2]
    <3>1. TypeOf(s) = Two[s[1]][Len(s) + 1] BY <1>1, <2>3, TypeIs
    <3> QED BY <2>3, <3>1
  <2>5. \A p \in input .. input + 1 - 1 : text[p] # "\n"
    <3>1. \A p \in input .. input : p = input BY <1>3
    <3> QED BY <1>2, <1>3, <2>2, <3>1 DEF Special
  <2>6. /\ two[2] = TokenOf(input, LexemeEnd(input)).type
        /\ <<>> = TokenOf(input, LexemeEnd(input)).word
        /\ 0 = TokenOf(input, LexemeEnd(input)).value
        /\ two[2] # "END"
    BY <1>4, <2>2, <2>4 DEF Worded
  <2>7. LexemeEnd(input) = input + 1 - 1 /\ 1 \in Nat \ {0} BY <2>1, <2>2
  <2>8. InText /\ Return(1, two[2], <<>>, 0) BY <1>1, <1>7
  <2> HIDE DEF two
  <2> QED BY <1>3, <2>2, <2>5, <2>6, <2>7, <2>8, TokenStep
<1> QED BY <1>6, <1>7

LEMMA WordKeeps == ASSUME LexInv, Word PROVE LexInv'
<1> DEFINE m == EndOf(Letter \cup Digit, 0)
           s == SubSeq(text, input, input + m - 1)
<1>1. /\ InText /\ peek \in Letter
      /\ IF s \in DOMAIN Keyword THEN Return(m, Keyword[s], <<>>, 0)
         ELSE Return(m, "IDENT", s, 0)
  BY DEF Word
<1>2. peek \notin Special \cup Digit \cup DOMAIN One \cup DOMAIN Two \cup Blank
  BY <1>1, Classes
<1>3. input \in 1 .. Len(text) /\ peek = text[input] /\ text \in Texts /\ Len(text) \in Nat
  BY <1>2, PeekIs DEF Special
<1>4. "NUL" \notin Letter \cup Digit /\ "\n" \notin Letter \cup Digit BY Classes DEF Special
<1>5. /\ m \in 0 .. Len(text) + 1 - input
      /\ \A p \in input + 0 .. input + m - 1 : text[p] \in Letter \cup Digit
      /\ input + m <= Len(text) => text[input + m] \notin Letter \cup Digit
  <2> DEFINE S == Letter \cup Digit
  <2>1. "NUL" \notin S /\ 0 \in Nat /\ 0 <= Len(text) + 1 - input BY <1>3, <1>4
  <2> HIDE DEF S
  <2>2. LET n == EndOf(S, 0)
        IN  /\ n \in 0 .. Len(text) + 1 - input
            /\ \A p \in input + 0 .. input + n - 1 : text[p] \in S
            /\ input + n <= Len(text) => text[input + n] \notin S
    BY <2>1, PiecesAre
  <2> QED BY <2>2 DEF S
<1> HIDE DEF m
<1>6. m \in Nat \ {0}
  <2>1. m # 0
    <3>1. input + 0 = input /\ input <= Len(text) BY <1>3
    <3> QED BY <1>1, <1>3, <1>5, <3>1
  <2> QED BY <1>3, <1>5, <2>1
<1>7. /\ input + m - 1 <= Len(text) /\ input + m - 1 \in input .. Len(text)
      /\ \A p \in input .. input + m - 1 : text[p] \in Letter \cup Digit
  BY <1>3, <1>5, <1>6
<1>8. \A k \in input + 1 .. Len(text) : Longer(input, k) <=> LongWord(input, k)
  BY <1>2, <1>3 DEF Longer, LongLiteral, Pair, RestOfLine, Commented, Special
<1>9. ASSUME NEW k \in input + m - 1 + 1 .. Len(text) PROVE ~Longer(input, k)
  <2>1. input + m <= Len(text) /\ input + m \in input .. k /\ k \in input + 1 .. Len(text)
    BY <1>3, <1>6
  <2>2. text[input + m] \notin Letter \cup Digit BY <1>5, <2>1
  <2> QED BY <1>8, <2>1, <2>2 DEF LongWord
<1>10. LexemeEnd(input) = input + m - 1
  <2>1. CASE m = 1
    <3>1. input + m - 1 = input BY <1>3, <2>1
    <3> QED BY <1>3, <1>9, <3>1, EndsHere
  <2>2. CASE m # 1
    <3>1. input + m - 1 \in input + 1 .. Len(text) BY <1>3, <1>6, <1>7, <2>2
    <3>2. Longer(input, input + m - 1) BY <1>1, <1>3, <1>7, <1>8, <3>1 DEF LongWord
    <3> QED BY <1>3, <1>9, <3>1, <3>2, EndsThere
  <2> QED BY <2>1, <2>2
<1>11. /\ Len(s) = m /\ s[1] = text[input]
       /\ TokenOf(input, LexemeEnd(input)).type = TypeOf(s)
       /\ TokenOf(input, LexemeEnd(input)).word =
            (IF TypeOf(s) \in {"IDENT", "INVALID"} THEN s ELSE <<>>)
       /\ TokenOf(input, LexemeEnd(input)).value =
            (IF s[1] \in Digit THEN Written(s) % (MaxLiteral + 1) ELSE 0)
       /\ IsDropped(SubSeq(text, input, LexemeEnd(input))) <=>
            text[input] \in Blank \cup {"\n"} \/ (text[input] = "/" /\ m > 1)
  BY <1>3, <1>6, <1>7, <1>10, TokenIs
<1> HIDE DEF s
<1>12. TypeOf(s) = IF s \in DOMAIN Keyword THEN Keyword[s] ELSE "IDENT"
  BY <1>1, <1>3, <1>11, TypeIs
<1>13. \A p \in input .. input + m - 1 : text[p] # "\n" BY <1>4, <1>7
<1>14. ~IsDropped(SubSeq(text, input, LexemeEnd(input))) BY <1>2, <1>3, <1>11 DEF Special
<1>15. 0 = TokenOf(input, LexemeEnd(input)).value BY <1>2, <1>3, <1>11
<1>16. CASE s \in DOMAIN Keyword
  <2>1. Keyword[s] \notin {"IDENT", "INVALID", "END"} BY <1>16, KeywordAssumption
  <2>2. /\ Keyword[s] = TokenOf(input, LexemeEnd(input)).type
        /\ <<>> = TokenOf(input, LexemeEnd(input)).word
        /\ Keyword[s] # "END"
    BY <1>11, <1>12, <1>16, <2>1
  <2>3. InText /\ Return(m, Keyword[s], <<>>, 0) BY <1>1, <1>16
  <2> QED BY <1>3, <1>6, <1>10, <1>13, <1>14, <1>15, <2>2, <2>3, TokenStep
<1>17. CASE s \notin DOMAIN Keyword
  <2>1. /\ "IDENT" = TokenOf(input, LexemeEnd(input)).type
        /\ s = TokenOf(input, LexemeEnd(input)).word
        /\ "IDENT" # "END"
    BY <1>11, <1>12, <1>17
  <2>2. InText /\ Return(m, "IDENT", s, 0) BY <1>1, <1>17
  <2> QED BY <1>3, <1>6, <1>10, <1>13, <1>14, <1>15, <2>1, <2>2, TokenStep
<1> QED BY <1>16, <1>17

-----------------------------------------------------------------------------
(* Numbers: the lexer takes the modulus after each digit *)

LEMMA Division ==
  ASSUME NEW M \in Nat \ {0}, NEW u \in Nat
  PROVE  /\ u \div M \in Int /\ u % M \in 0 .. M - 1 /\ M * (u \div M) \in Int
         /\ u % M = u - M * (u \div M)
<1>1. u \div M \in Int OBVIOUS
<1>2. u % M \in 0 .. M - 1 OBVIOUS
<1>3. u % M = u - M * (u \div M) OBVIOUS
<1>4. \A q \in Int : M * q \in Int OBVIOUS
<1> QED BY <1>1, <1>2, <1>3, <1>4

LEMMA Small ==
  ASSUME NEW M \in Nat \ {0}, NEW q \in Int, NEW r \in 0 .. M - 1, NEW t \in 0 .. M - 1,
         M * q = t - r
  PROVE  r = t
<1>1. q >= 1 => M * q >= M OBVIOUS
<1>2. q <= -1 => M * q <= -M OBVIOUS
<1>3. q = 0 => M * q = 0 OBVIOUS
<1> QED BY <1>1, <1>2, <1>3

\* It makes no difference when the modulus is taken.
LEMMA Horner ==
  ASSUME NEW M \in Nat \ {0}, NEW u \in Nat, NEW d \in Nat
  PROVE  ((u % M) * 10 + d) % M = (10 * u + d) % M
<1> DEFINE r == u % M
           q == u \div M
           a == r * 10 + d
           b == 10 * u + d
           qa == a \div M
           qb == b \div M
<1>1. /\ q \in Int /\ r \in 0 .. M - 1 /\ M * q \in Int /\ r = u - M * q BY Division
<1> HIDE DEF r, q
<1>2. a \in Nat /\ b \in Nat BY <1>1
<1>3. a % M \in 0 .. M - 1 /\ qa \in Int /\ M * qa \in Int /\ a % M = a - M * qa
  <2> HIDE DEF a
  <2> QED BY <1>2, Division
<1>4. b % M \in 0 .. M - 1 /\ qb \in Int /\ M * qb \in Int /\ b % M = b - M * qb
  <2> HIDE DEF b
  <2> QED BY <1>2, Division
<1>5. b - a = 10 * (M * q)
  <2> DEFINE x == M * q
  <2>1. x \in Int /\ r = u - x /\ r \in Int BY <1>1
  <2> HIDE DEF x
  <2>2. b - a = 10 * x BY <2>1
  <2> QED BY <2>2 DEF x
<1> DEFINE y == qa - qb + 10 * q
<1>6. M * y = M * qa - M * qb + 10 * (M * q)
  <2> HIDE DEF qa, qb
  <2> QED BY <1>1, <1>3, <1>4
<1>7. y \in Int BY <1>1, <1>3, <1>4
<1> HIDE DEF qa, qb, a, b, y
<1>8. M * y = (b % M) - (a % M)
  <2> DEFINE x == M * q
             xa == M * qa
             xb == M * qb
             pa == a % M
             pb == b % M
  <2>1. x \in Int /\ xa \in Int /\ xb \in Int
    <3>1. x \in Int BY <1>1
    <3>2. xa \in Int BY <1>3
    <3>3. xb \in Int BY <1>4
    <3> QED BY <3>1, <3>2, <3>3
  <2>2. M * y = xa - xb + 10 * x BY <1>6
  <2>3. b - a = 10 * x BY <1>5
  <2>4. pa = a - xa /\ pb = b - xb
    <3>1. pa = a - xa BY <1>3
    <3>2. pb = b - xb BY <1>4
    <3> QED BY <3>1, <3>2
  <2> HIDE DEF x, xa, xb, pa, pb
  <2>5. M * y = pb - pa
    <3>1. a \in Int /\ b \in Int BY <1>2
    <3> DEFINE z == M * y
    <3>2. z = xa - xb + 10 * x BY <2>2
    <3> HIDE DEF z
    <3>3. z = pb - pa BY <2>1, <2>3, <2>4, <3>1, <3>2
    <3> QED BY <3>3 DEF z
  <2> QED BY <2>5 DEF pa, pb
<1>9. a % M = b % M
  <2> DEFINE pa == a % M
             pb == b % M
  <2>1. pa \in 0 .. M - 1 /\ pb \in 0 .. M - 1 /\ M * y = pb - pa BY <1>3, <1>4, <1>8
  <2> HIDE DEF pa, pb
  <2>2. pa = pb BY <1>7, <2>1, Small
  <2> QED BY <2>2 DEF pa, pb
<1> QED BY <1>9 DEF a, b, r

\* A definition that goes on from the number before defines something.
Steps(n, f, step) ==
  /\ f \in [0 .. n -> Nat]
  /\ f[0] = 0
  /\ \A k \in 1 .. n : f[k] = step[k][f[k - 1]]

Forth(n, step) == \E f : Steps(n, f, step)

LEMMA Forwards ==
  ASSUME NEW n \in Nat, NEW step, \A k \in 1 .. n : step[k] \in [Nat -> Nat]
  PROVE  Forth(n, step)
<1> DEFINE S == {m \in 0 .. n : \E f : Steps(m, f, step)}
<1>1. 0 \in S
  <2> DEFINE f == [i \in 0 .. 0 |-> 0]
  <2>1. f \in [0 .. 0 -> Nat] /\ f[0] = 0 OBVIOUS
  <2>2. \A k \in 1 .. 0 : f[k] = step[k][f[k - 1]] OBVIOUS
  <2> HIDE DEF f
  <2>3. Steps(0, f, step) BY <2>1, <2>2 DEF Steps
  <2>4. 0 \in 0 .. n OBVIOUS
  <2> QED BY <2>3, <2>4
<1>2. ASSUME NEW m \in 0 .. n - 1, m \in S PROVE m + 1 \in S
  <2>1. PICK f : Steps(m, f, step) BY <1>2
  <2> DEFINE new == step[m + 1][f[m]]
             g == [i \in 0 .. m + 1 |-> IF i = m + 1 THEN new ELSE f[i]]
  <2>2. f \in [0 .. m -> Nat] /\ f[0] = 0 /\ m \in Nat BY <2>1 DEF Steps
  <2>3. m + 1 \in 1 .. n /\ f[m] \in Nat BY <2>2
  <2>4. new \in Nat
    <3>1. step[m + 1] \in [Nat -> Nat] BY <2>3
    <3> QED BY <2>3, <3>1
  <2> HIDE DEF new
  <2>5. g \in [0 .. m + 1 -> Nat] BY <2>2, <2>4
  <2>6. g[m + 1] = new /\ \A i \in 0 .. m : g[i] = f[i] BY <2>2
  <2> HIDE DEF g
  <2>7. g[0] = 0 BY <2>2, <2>6
  <2>8. ASSUME NEW k \in 1 .. m + 1 PROVE g[k] = step[k][g[k - 1]]
    <3>1. CASE k = m + 1
      <4>1. k - 1 = m /\ m \in 0 .. m BY <2>2, <3>1
      <4> QED BY <2>6, <3>1, <4>1 DEF new
    <3>2. CASE k \in 1 .. m
      <4>1. k \in 0 .. m /\ k - 1 \in 0 .. m BY <2>2, <3>2
      <4>2. f[k] = step[k][f[k - 1]] BY <2>1, <3>2 DEF Steps
      <4> QED BY <2>6, <4>1, <4>2
    <3>3. k = m + 1 \/ k \in 1 .. m BY <2>2
    <3> QED BY <3>1, <3>2, <3>3
  <2>9. Steps(m + 1, g, step) BY <2>5, <2>7, <2>8 DEF Steps
  <2>10. m + 1 \in 0 .. n OBVIOUS
  <2> QED BY <2>9, <2>10
<1>3. n \in S
  <2> HIDE DEF S
  <2>1. \A m \in 0 .. n : m \in S BY <1>1, <1>2, Induct
  <2> QED BY <2>1
<1> QED BY <1>3 DEF Forth

\* What the lexer computes
LEMMA LiteralIs ==
  ASSUME NEW d, Len(d) \in Nat, \A k \in 1 .. Len(d) : d[k] \in Digit
  PROVE  \E V : /\ Literal(d) = V[Len(d)]
                /\ V[0] = 0
                /\ \A k \in 1 .. Len(d) :
                     V[k] = (V[k - 1] * 10 + DigitValue[d[k]]) % (MaxLiteral + 1)
<1> DEFINE n == Len(d)
           M == MaxLiteral + 1
           Body(F) == [k \in 0 .. n |->
                         IF k = 0 THEN 0 ELSE (F[k - 1] * 10 + DigitValue[d[k]]) % M]
           Value == CHOOSE F : F = Body(F)
<1>1. n \in Nat /\ M \in Nat \ {0} BY LiteralAssumption
<1>2. ASSUME NEW k \in 1 .. n PROVE DigitValue[d[k]] \in Nat
  <2>1. d[k] \in Digit OBVIOUS
  <2>2. DigitValue[d[k]] \in 0 .. 9 BY <2>1, Digits
  <2> QED BY <2>2
<1> HIDE DEF n, M
<1>3. \E F : F = Body(F)
  <2> DEFINE step == [k \in 1 .. n |-> [v \in Nat |-> (v * 10 + DigitValue[d[k]]) % M]]
  <2>1. ASSUME NEW k \in 1 .. n PROVE step[k] \in [Nat -> Nat]
    <3>1. ASSUME NEW v \in Nat PROVE (v * 10 + DigitValue[d[k]]) % M \in Nat
      <4> DEFINE x == v * 10 + DigitValue[d[k]]
      <4>1. x \in Nat BY <1>2
      <4> HIDE DEF x
      <4>2. x % M \in 0 .. M - 1 BY <1>1, <4>1, Division
      <4>3. x % M \in Nat BY <1>1, <4>2
      <4> QED BY <4>3 DEF x
    <3> QED BY <3>1
  <2>2. \A k \in 1 .. n : \A v \in Nat : step[k][v] = (v * 10 + DigitValue[d[k]]) % M OBVIOUS
  <2> HIDE DEF step
  <2>3. Forth(n, step) BY <1>1, <2>1, Forwards
  <2>4. PICK F : Steps(n, F, step) BY <2>3 DEF Forth
  <2>5. F \in [0 .. n -> Nat] /\ F[0] = 0 BY <2>4 DEF Steps
  <2>6. ASSUME NEW k \in 0 .. n PROVE F[k] = Body(F)[k]
    <3>1. CASE k = 0 BY <2>5, <3>1
    <3>2. CASE k # 0
      <4>1. k \in 1 .. n /\ k - 1 \in 0 .. n BY <1>1, <3>2
      <4>2. F[k] = step[k][F[k - 1]] BY <2>4, <4>1 DEF Steps
      <4>3. F[k - 1] \in Nat BY <2>5, <4>1
      <4>4. F[k] = (F[k - 1] * 10 + DigitValue[d[k]]) % M BY <2>2, <4>1, <4>2, <4>3
      <4> QED BY <3>2, <4>4
    <3> QED BY <3>1, <3>2
  <2>7. F = Body(F) BY <2>5, <2>6
  <2> QED BY <2>7
<1>4. Value = Body(Value) BY <1>3
<1>5. Literal(d) = Value[n] BY DEF Literal, n, M
<1> HIDE DEF Value
<1>6. Value[0] = 0
  <2>1. 0 \in 0 .. n BY <1>1
  <2>2. Body(Value)[0] = 0 BY <2>1
  <2> QED BY <1>4, <2>2
<1>7. ASSUME NEW k \in 1 .. n PROVE Value[k] = (Value[k - 1] * 10 + DigitValue[d[k]]) % M
  <2>1. k \in 0 .. n /\ k # 0 BY <1>1
  <2>2. Body(Value)[k] = (Value[k - 1] * 10 + DigitValue[d[k]]) % M BY <2>1
  <2> QED BY <1>4, <2>2
<1> QED BY <1>5, <1>6, <1>7 DEF n, M

\* What the digits write
LEMMA WrittenIs ==
  ASSUME NEW s, Len(s) \in Nat
  PROVE  \E U : /\ Written(s) = U[Len(s)]
                /\ U \in [0 .. Len(s) -> Nat]
                /\ U[0] = 0
                /\ \A k \in 1 .. Len(s) :
                     U[k] = IF s[k] \in Digit THEN 10 * U[k - 1] + DigitValue[s[k]] ELSE U[k - 1]
<1> DEFINE n == Len(s)
           Body(F) == [k \in 0 .. n |->
                         IF k = 0 THEN 0
                         ELSE IF s[k] \in Digit THEN 10 * F[k - 1] + DigitValue[s[k]]
                              ELSE F[k - 1]]
           Upto == CHOOSE F : F = Body(F)
           step == [k \in 1 .. n |->
                      [v \in Nat |->
                         IF s[k] \in Digit THEN 10 * v + DigitValue[s[k]] ELSE v]]
<1>1. n \in Nat OBVIOUS
<1> HIDE DEF n
<1>2. ASSUME NEW k \in 1 .. n PROVE step[k] \in [Nat -> Nat]
  <2>1. s[k] \in Digit => DigitValue[s[k]] \in 0 .. 9 BY Digits
  <2>2. \A v \in Nat : (IF s[k] \in Digit THEN 10 * v + DigitValue[s[k]] ELSE v) \in Nat BY <2>1
  <2> QED BY <2>2
<1>3. \A k \in 1 .. n : \A v \in Nat :
        step[k][v] = IF s[k] \in Digit THEN 10 * v + DigitValue[s[k]] ELSE v
  OBVIOUS
<1> HIDE DEF step
<1>4. ASSUME NEW F, Steps(n, F, step), NEW k \in 1 .. n
      PROVE  F[k] = IF s[k] \in Digit THEN 10 * F[k - 1] + DigitValue[s[k]] ELSE F[k - 1]
  <2>1. k - 1 \in 0 .. n BY <1>1
  <2>2. F[k] = step[k][F[k - 1]] /\ F[k - 1] \in Nat BY <1>4, <2>1 DEF Steps
  <2> QED BY <1>3, <2>2
<1>5. ASSUME NEW F, Steps(n, F, step) PROVE F = Body(F)
  <2>1. F \in [0 .. n -> Nat] /\ F[0] = 0 BY <1>5 DEF Steps
  <2>2. ASSUME NEW k \in 0 .. n PROVE F[k] = Body(F)[k]
    <3>1. CASE k = 0 BY <2>1, <3>1
    <3>2. CASE k # 0
      <4>1. k \in 1 .. n BY <1>1, <3>2
      <4>2. F[k] = IF s[k] \in Digit THEN 10 * F[k - 1] + DigitValue[s[k]] ELSE F[k - 1]
        BY <1>4, <1>5, <4>1
      <4> QED BY <3>2, <4>2
    <3> QED BY <3>1, <3>2
  <2> QED BY <2>1, <2>2
<1>6. \E F : Steps(n, F, step)
  <2>1. Forth(n, step) BY <1>1, <1>2, Forwards
  <2> QED BY <2>1 DEF Forth
<1>7. \E F : F = Body(F) BY <1>5, <1>6
<1>8. Upto = Body(Upto) BY <1>7
<1>9. Written(s) = Upto[n] BY DEF Written, n
<1> HIDE DEF Upto
<1>10. Upto[0] = 0
  <2>1. 0 \in 0 .. n BY <1>1
  <2>2. Body(Upto)[0] = 0 BY <2>1
  <2> QED BY <1>8, <2>2
<1>11. ASSUME NEW k \in 1 .. n
       PROVE  Upto[k] = IF s[k] \in Digit THEN 10 * Upto[k - 1] + DigitValue[s[k]]
                        ELSE Upto[k - 1]
  <2>1. k \in 0 .. n /\ k # 0 BY <1>1
  <2>2. Body(Upto)[k] = IF s[k] \in Digit THEN 10 * Upto[k - 1] + DigitValue[s[k]]
                        ELSE Upto[k - 1]
    BY <2>1
  <2> QED BY <1>8, <2>2
<1>12. Upto \in [0 .. n -> Nat]
  <2> DEFINE S == {m \in 0 .. n : Upto[m] \in Nat}
  <2>1. 0 \in S BY <1>1, <1>10
  <2>2. ASSUME NEW m \in 0 .. n - 1, m \in S PROVE m + 1 \in S
    <3>1. m + 1 \in 1 .. n /\ m + 1 - 1 = m /\ m + 1 \in 0 .. n /\ Upto[m] \in Nat BY <1>1, <2>2
    <3>2. Upto[m + 1] = IF s[m + 1] \in Digit THEN 10 * Upto[m] + DigitValue[s[m + 1]]
                        ELSE Upto[m]
      BY <1>11, <3>1
    <3>3. s[m + 1] \in Digit => DigitValue[s[m + 1]] \in 0 .. 9 BY Digits
    <3> DEFINE u == Upto[m]
               v == DigitValue[s[m + 1]]
    <3>4. u \in Nat /\ Upto[m + 1] = (IF s[m + 1] \in Digit THEN 10 * u + v ELSE u) BY <3>1, <3>2
    <3>5. s[m + 1] \in Digit => v \in 0 .. 9 BY <3>3
    <3> HIDE DEF u, v
    <3>6. Upto[m + 1] \in Nat BY <3>4, <3>5
    <3> QED BY <3>1, <3>6
  <2> HIDE DEF S
  <2>3. \A m \in 0 .. n : m \in S BY <1>1, <2>1, <2>2, Induct
  <2> USE DEF S
  <2>4. \A m \in 0 .. n : Upto[m] \in Nat BY <2>3
  <2>5. Upto = [k \in 0 .. n |-> Body(Upto)[k]] BY <1>8
  <2> QED BY <2>4, <2>5, <1>8
<1> QED BY <1>9, <1>10, <1>11, <1>12 DEF n

\* The value of the digits d of the literal s, which may end in a u
LEMMA LiteralIsWritten ==
  ASSUME NEW d, NEW s, Len(d) \in Nat, Len(s) \in Nat,
         \A k \in 1 .. Len(d) : d[k] \in Digit /\ s[k] = d[k],
         Len(s) = Len(d) \/ (Len(s) = Len(d) + 1 /\ s[Len(s)] \notin Digit)
  PROVE  Literal(d) = Written(s) % (MaxLiteral + 1)
<1> DEFINE n == Len(d)
           M == MaxLiteral + 1
<1>0. n \in Nat /\ M \in Nat \ {0} BY LiteralAssumption
<1>1. PICK V : /\ Literal(d) = V[n]
               /\ V[0] = 0
               /\ \A k \in 1 .. n : V[k] = (V[k - 1] * 10 + DigitValue[d[k]]) % M
  BY LiteralIs
<1>2. PICK U : /\ Written(s) = U[Len(s)]
               /\ U \in [0 .. Len(s) -> Nat]
               /\ U[0] = 0
               /\ \A k \in 1 .. Len(s) :
                    U[k] = IF s[k] \in Digit THEN 10 * U[k - 1] + DigitValue[s[k]] ELSE U[k - 1]
  BY WrittenIs
<1>3. \A k \in 1 .. n : d[k] \in Digit /\ s[k] = d[k] /\ k \in 1 .. Len(s) OBVIOUS
<1>4. \A k \in 0 .. n : U[k] \in Nat BY <1>0, <1>2
<1>5. Written(s) = U[n]
  <2>1. CASE Len(s) = n BY <1>2, <2>1
  <2>2. CASE Len(s) = n + 1 /\ s[Len(s)] \notin Digit
    <3>1. n + 1 \in 1 .. Len(s) /\ n + 1 - 1 = n BY <1>0, <2>2
    <3>2. s[n + 1] \notin Digit BY <2>2
    <3> DEFINE k == n + 1
    <3>3. k \in 1 .. Len(s) /\ k - 1 = n /\ s[k] \notin Digit /\ Len(s) = k
      <4>1. k - 1 = n BY <1>0
      <4>2. k \in 1 .. Len(s) BY <3>1
      <4>3. s[k] \notin Digit BY <3>2
      <4>4. Len(s) = k BY <2>2
      <4> QED BY <4>1, <4>2, <4>3, <4>4
    <3> HIDE DEF k
    <3>4. U[k] = IF s[k] \in Digit THEN 10 * U[k - 1] + DigitValue[s[k]] ELSE U[k - 1]
      BY <1>2, <3>3
    <3>5. U[k] = U[n] BY <3>3, <3>4
    <3> QED BY <1>2, <3>3, <3>5
  <2> QED BY <2>1, <2>2
<1> HIDE DEF n, M
<1> DEFINE S == {m \in 0 .. n : V[m] = U[m] % M}
<1>6. 0 \in S
  <2>1. 0 % M = 0
    <3>1. 0 % M \in 0 .. M - 1 /\ 0 \div M \in Int /\ 0 % M = 0 - M * (0 \div M)
      BY <1>0, Division
    <3>2. 0 \in 0 .. M - 1 BY <1>0
    <3> DEFINE q == 0 \div M
               r == 0 % M
    <3>3. q \in Int /\ r \in 0 .. M - 1 /\ r = 0 - M * q BY <3>1
    <3> HIDE DEF q, r
    <3>4. M * q = 0 - r
      <4> DEFINE x == M * q
      <4>1. x \in Int BY <1>0, <3>3
      <4>2. r = 0 - x /\ r \in Int BY <1>0, <3>3
      <4> HIDE DEF x
      <4>3. x = 0 - r BY <4>1, <4>2
      <4> QED BY <4>3 DEF x
    <3>5. r = 0 BY <1>0, <3>2, <3>3, <3>4, Small
    <3> QED BY <3>5 DEF r
  <2> QED BY <1>0, <1>1, <1>2, <2>1
<1>7. ASSUME NEW m \in 0 .. n - 1, m \in S PROVE m + 1 \in S
  <2>1. m + 1 \in 1 .. n /\ m + 1 - 1 = m /\ m \in 0 .. n /\ m + 1 \in 0 .. n BY <1>0
  <2> DEFINE v == DigitValue[d[m + 1]]
  <2>2. v \in Nat
    <3>1. v \in 0 .. 9 BY <1>3, <2>1, Digits
    <3> QED BY <3>1
  <2>3. V[m + 1] = (V[m] * 10 + v) % M BY <1>1, <2>1
  <2>4. U[m + 1] = 10 * U[m] + v BY <1>2, <1>3, <2>1
  <2> HIDE DEF v
  <2>5. V[m] = U[m] % M BY <1>7
  <2>6. U[m] \in Nat BY <1>4, <2>1
  <2>7. ((U[m] % M) * 10 + v) % M = (10 * U[m] + v) % M BY <1>0, <2>2, <2>6, Horner
  <2>8. V[m + 1] = U[m + 1] % M BY <2>3, <2>4, <2>5, <2>7, Zenon
  <2> QED BY <2>1, <2>8
<1>8. n \in S
  <2> HIDE DEF S
  <2>1. \A m \in 0 .. n : m \in S BY <1>0, <1>6, <1>7, Induct
  <2> QED BY <1>0, <2>1
<1>9. V[n] = U[n] % M BY <1>8
<1> QED BY <1>1, <1>5, <1>9 DEF M

LEMMA NumberKeeps == ASSUME LexInv, Number PROVE LexInv'
<1> DEFINE m == EndOf(Digit, 0)
           d == SubSeq(text, input, input + m - 1)
           value == Literal(d)
<1>1. /\ InText /\ peek \in Digit
      /\ IF Peek(m) = "u" THEN Return(m + 1, "UINT_LIT", <<>>, value)
         ELSE Return(m, "INT_LIT", <<>>, value)
  BY DEF Number
<1>2. peek \notin Special \cup Letter \cup DOMAIN One \cup DOMAIN Two \cup Blank
  BY <1>1, Classes
<1>3. input \in 1 .. Len(text) /\ peek = text[input] /\ text \in Texts /\ Len(text) \in Nat
  BY <1>2, PeekIs DEF Special
<1>4. "NUL" \notin Digit /\ "\n" \notin Digit /\ "u" \notin Digit
  BY Classes, LetterAssumption DEF Special
<1>5. /\ m \in 0 .. Len(text) + 1 - input
      /\ \A p \in input + 0 .. input + m - 1 : text[p] \in Digit
      /\ input + m <= Len(text) => text[input + m] \notin Digit
  <2>1. 0 \in Nat /\ 0 <= Len(text) + 1 - input BY <1>3
  <2>2. LET n == EndOf(Digit, 0)
        IN  /\ n \in 0 .. Len(text) + 1 - input
            /\ \A p \in input + 0 .. input + n - 1 : text[p] \in Digit
            /\ input + n <= Len(text) => text[input + n] \notin Digit
    BY <1>4, <2>1, PiecesAre
  <2> QED BY <2>2
<1> HIDE DEF m
<1>6. m \in Nat \ {0}
  <2>1. m # 0
    <3>1. input + 0 = input /\ input <= Len(text) BY <1>3
    <3> QED BY <1>1, <1>3, <1>5, <3>1
  <2> QED BY <1>3, <1>5, <2>1
<1>7. /\ input + m - 1 <= Len(text) /\ input + m - 1 \in input .. Len(text)
      /\ \A p \in input .. input + m - 1 : text[p] \in Digit
  BY <1>3, <1>5, <1>6
<1>8. \A k \in input + 1 .. Len(text) : Longer(input, k) <=> LongLiteral(input, k)
  BY <1>2, <1>3 DEF Longer, LongWord, Pair, RestOfLine, Commented, Special
<1>9. Len(d) = m /\ \A q \in 1 .. m : d[q] = text[input + q - 1]
  <2> DEFINE j == input + m - 1
  <2>1. j - input + 1 = m /\ j \in input .. Len(text) BY <1>3, <1>6, <1>7
  <2> HIDE DEF j
  <2>2. LET r == SubSeq(text, input, j)
        IN  /\ Len(r) = j - input + 1
            /\ \A q \in 1 .. j - input + 1 : r[q] = text[input + q - 1]
    BY <1>3, <2>1, Part
  <2> QED BY <2>1, <2>2 DEF j
<1>10. \A q \in 1 .. m : d[q] \in Digit
  <2>1. ASSUME NEW q \in 1 .. m PROVE d[q] \in Digit
    <3>1. input + q - 1 \in input .. input + m - 1 BY <1>3, <1>6
    <3> QED BY <1>7, <1>9, <3>1
  <2> QED BY <2>1
<1>11. input + m <= Len(text) <=> Peek(m) # "NUL"
  <2>1. input + m <= Len(text) => input + m \in 1 .. Len(text) BY <1>3, <1>6
  <2> QED BY <2>1, <1>3, TextIs DEF Peek
<1>12. input + m <= Len(text) => Peek(m) = text[input + m] BY DEF Peek
<1>13. CASE Peek(m) = "u"
  <2> DEFINE s == SubSeq(text, input, input + (m + 1) - 1)
  <2>1. input + m <= Len(text) /\ text[input + m] = "u" BY <1>11, <1>12, <1>13
  <2>2. LexemeEnd(input) = input + m
    <3>1. input + m \in input + 1 .. Len(text) BY <1>3, <1>6, <2>1
    <3>2. Longer(input, input + m)
      <4>1. ASSUME NEW p \in input .. input + m
            PROVE  text[p] \in Digit \/ (p = input + m /\ text[p] = "u")
        <5>1. p \in input .. input + m - 1 \/ p = input + m BY <1>3, <1>6
        <5> QED BY <1>7, <2>1, <5>1
      <4> QED BY <1>1, <1>3, <1>8, <3>1, <4>1 DEF LongLiteral
    <3>3. ASSUME NEW k \in input + m + 1 .. Len(text) PROVE ~Longer(input, k)
      <4>1. input + m \in input .. k /\ k \in input + 1 .. Len(text) /\ input + m # k
        BY <1>3, <1>6
      <4>2. text[input + m] \notin Digit BY <1>4, <2>1
      <4> QED BY <1>8, <4>1, <4>2 DEF LongLiteral
    <3> QED BY <1>3, <3>1, <3>2, <3>3, EndsThere
  <2>3. /\ LexemeEnd(input) = input + (m + 1) - 1 /\ input + (m + 1) - 1 <= Len(text)
        /\ m + 1 \in Nat \ {0} /\ m + 1 > 1 /\ input + (m + 1) - 1 = input + m
    BY <1>3, <1>6, <2>1, <2>2
  <2>4. /\ Len(s) = m + 1 /\ s[1] = text[input]
        /\ \A q \in 1 .. m + 1 : s[q] = text[input + q - 1]
        /\ TokenOf(input, LexemeEnd(input)).type = TypeOf(s)
        /\ TokenOf(input, LexemeEnd(input)).word =
             (IF TypeOf(s) \in {"IDENT", "INVALID"} THEN s ELSE <<>>)
        /\ TokenOf(input, LexemeEnd(input)).value =
             (IF s[1] \in Digit THEN Written(s) % (MaxLiteral + 1) ELSE 0)
        /\ IsDropped(SubSeq(text, input, LexemeEnd(input))) <=>
             text[input] \in Blank \cup {"\n"} \/ (text[input] = "/" /\ m + 1 > 1)
    <3> DEFINE n == m + 1
    <3>1. n \in Nat \ {0} /\ LexemeEnd(input) = input + n - 1 /\ input + n - 1 <= Len(text)
      BY <2>3
    <3> HIDE DEF n
    <3>2. LET r == SubSeq(text, input, input + n - 1)
          IN  /\ Len(r) = n /\ r[1] = text[input]
              /\ \A q \in 1 .. n : r[q] = text[input + q - 1]
              /\ TokenOf(input, LexemeEnd(input)).type = TypeOf(r)
              /\ TokenOf(input, LexemeEnd(input)).word =
                   (IF TypeOf(r) \in {"IDENT", "INVALID"} THEN r ELSE <<>>)
              /\ TokenOf(input, LexemeEnd(input)).value =
                   (IF r[1] \in Digit THEN Written(r) % (MaxLiteral + 1) ELSE 0)
              /\ IsDropped(SubSeq(text, input, LexemeEnd(input))) <=>
                   text[input] \in Blank \cup {"\n"} \/ (text[input] = "/" /\ n > 1)
      BY <1>3, <3>1, TokenIs
    <3> QED BY <3>2 DEF n
  <2> HIDE DEF s
  <2>5. s[Len(s)] = "u"
    <3>1. m + 1 \in 1 .. m + 1 /\ input + (m + 1) - 1 = input + m BY <1>3, <1>6
    <3> QED BY <2>1, <2>4, <3>1
  <2>6. TypeOf(s) = "UINT_LIT" BY <1>1, <1>3, <2>4, <2>5, TypeIs
  <2>7. value = Written(s) % (MaxLiteral + 1)
    <3>1. \A k \in 1 .. Len(d) : d[k] \in Digit /\ s[k] = d[k]
      <4>1. \A k \in 1 .. m : k \in 1 .. m + 1 BY <1>6
      <4> QED BY <1>9, <1>10, <2>4, <4>1
    <3>2. /\ Len(d) \in Nat /\ Len(s) \in Nat
          /\ Len(s) = Len(d) + 1 /\ s[Len(s)] \notin Digit
      <4>1. Len(d) = m /\ Len(s) = m + 1 BY <1>9, <2>4
      <4>2. s[Len(s)] \notin Digit BY <1>4, <2>5
      <4> HIDE DEF d
      <4> QED BY <1>6, <4>1, <4>2
    <3> HIDE DEF d
    <3> QED BY <3>1, <3>2, LiteralIsWritten
  <2> HIDE DEF value
  <2>8. \A p \in input .. input + (m + 1) - 1 : text[p] # "\n"
    <3>1. \A p \in input .. input + (m + 1) - 1 : p \in input .. input + m - 1 \/ p = input + m
      BY <1>3, <1>6
    <3> QED BY <1>4, <1>7, <2>1, <3>1
  <2>9. /\ "UINT_LIT" = TokenOf(input, LexemeEnd(input)).type
        /\ <<>> = TokenOf(input, LexemeEnd(input)).word
        /\ value = TokenOf(input, LexemeEnd(input)).value
        /\ ~IsDropped(SubSeq(text, input, LexemeEnd(input)))
        /\ "UINT_LIT" # "END"
    BY <1>1, <1>2, <1>3, <2>4, <2>6, <2>7 DEF Special
  <2>10. InText /\ Return(m + 1, "UINT_LIT", <<>>, value) BY <1>1, <1>13
  <2> DEFINE n == m + 1
  <2>11. n \in Nat \ {0} /\ LexemeEnd(input) = input + n - 1 BY <2>3
  <2>12. \A p \in input .. input + n - 1 : text[p] # "\n" BY <2>8
  <2>13. Return(n, "UINT_LIT", <<>>, value) BY <2>10
  <2> HIDE DEF n
  <2> QED BY <1>3, <2>9, <2>10, <2>11, <2>12, <2>13, TokenStep
<1>14. CASE Peek(m) # "u"
  <2>1. LexemeEnd(input) = input + m - 1
    <3>1. ASSUME NEW k \in input + m - 1 + 1 .. Len(text) PROVE ~Longer(input, k)
      <4>1. input + m \in input .. k /\ k \in input + 1 .. Len(text) /\ input + m <= Len(text)
        BY <1>3, <1>6
      <4>2. text[input + m] \notin Digit /\ text[input + m] # "u" BY <1>5, <1>12, <1>14, <4>1
      <4> QED BY <1>8, <4>1, <4>2 DEF LongLiteral
    <3>2. CASE m = 1
      <4>1. input + m - 1 = input BY <1>3, <3>2
      <4> QED BY <1>3, <3>1, <4>1, EndsHere
    <3>3. CASE m # 1
      <4>1. input + m - 1 \in input + 1 .. Len(text) BY <1>3, <1>6, <1>7, <3>3
      <4>2. Longer(input, input + m - 1) BY <1>1, <1>3, <1>7, <1>8, <4>1 DEF LongLiteral
      <4> QED BY <1>3, <3>1, <4>1, <4>2, EndsThere
    <3> QED BY <3>2, <3>3
  <2>2. /\ d[1] = text[input]
        /\ TokenOf(input, LexemeEnd(input)).type = TypeOf(d)
        /\ TokenOf(input, LexemeEnd(input)).word =
             (IF TypeOf(d) \in {"IDENT", "INVALID"} THEN d ELSE <<>>)
        /\ TokenOf(input, LexemeEnd(input)).value =
             (IF d[1] \in Digit THEN Written(d) % (MaxLiteral + 1) ELSE 0)
        /\ IsDropped(SubSeq(text, input, LexemeEnd(input))) <=>
             text[input] \in Blank \cup {"\n"} \/ (text[input] = "/" /\ m > 1)
    BY <1>3, <1>6, <1>7, <2>1, TokenIs
  <2> HIDE DEF d
  <2>3. d[Len(d)] # "u" BY <1>4, <1>6, <1>9, <1>10
  <2>4. TypeOf(d) = "INT_LIT" BY <1>1, <1>3, <2>2, <2>3, TypeIs
  <2>5. value = Written(d) % (MaxLiteral + 1)
    <3>1. Len(d) \in Nat /\ \A k \in 1 .. Len(d) : d[k] \in Digit /\ d[k] = d[k] BY <1>6, <1>9, <1>10
    <3> QED BY <3>1, LiteralIsWritten
  <2> HIDE DEF value
  <2>6. \A p \in input .. input + m - 1 : text[p] # "\n" BY <1>4, <1>7
  <2>7. /\ "INT_LIT" = TokenOf(input, LexemeEnd(input)).type
        /\ <<>> = TokenOf(input, LexemeEnd(input)).word
        /\ value = TokenOf(input, LexemeEnd(input)).value
        /\ ~IsDropped(SubSeq(text, input, LexemeEnd(input)))
        /\ "INT_LIT" # "END"
    BY <1>1, <1>2, <1>3, <2>2, <2>4, <2>5 DEF Special
  <2>8. InText /\ Return(m, "INT_LIT", <<>>, value) BY <1>1, <1>14
  <2> QED BY <1>3, <1>6, <2>1, <2>6, <2>7, <2>8, TokenStep
<1> QED BY <1>13, <1>14

-----------------------------------------------------------------------------
(* Each action keeps the invariant: comments *)

LEMMA LineCommentKeeps == ASSUME LexInv, LineComment PROVE LexInv'
<1> DEFINE S == {text[k] : k \in DOMAIN text} \ {"\n"}
           m == EndOf(S, 2)
<1>1. InText /\ peek = "/" /\ Peek(1) = "/" /\ Skip(m) /\ comment' = comment
  BY DEF LineComment
<1>2. /\ input \in 1 .. Len(text) /\ text[input] = "/"
      /\ input + 1 \in 1 .. Len(text) /\ text[input + 1] = "/"
      /\ text \in Texts /\ Len(text) \in Nat
  BY <1>1, PeekIs
<1>3. "NUL" \notin S /\ "\n" \notin S /\ \A k \in 1 .. Len(text) : text[k] \notin S => text[k] = "\n"
  BY <1>2, TextIs
<1>4. /\ m \in 2 .. Len(text) + 1 - input
      /\ \A p \in input + 2 .. input + m - 1 : text[p] \in S
      /\ input + m <= Len(text) => text[input + m] \notin S
  <2>1. 2 \in Nat /\ 2 <= Len(text) + 1 - input BY <1>2
  <2> HIDE DEF S
  <2>2. LET n == EndOf(S, 2)
        IN  /\ n \in 2 .. Len(text) + 1 - input
            /\ \A p \in input + 2 .. input + n - 1 : text[p] \in S
            /\ input + n <= Len(text) => text[input + n] \notin S
    BY <1>3, <2>1, PiecesAre
  <2> QED BY <2>2
<1> HIDE DEF m, S
<1>5. /\ m \in Nat \ {0} /\ m > 1
      /\ input + m - 1 \in input + 1 .. Len(text) /\ input + m - 1 <= Len(text)
  BY <1>2, <1>4
<1>6. \A p \in input .. input + m - 1 : text[p] # "\n"
  <2>1. \A p \in input .. input + m - 1 :
          p = input \/ p = input + 1 \/ p \in input + 2 .. input + m - 1
    BY <1>2, <1>5
  <2> QED BY <1>2, <1>3, <1>4, <2>1
<1>7. "/" \notin Letter \cup Digit \cup DOMAIN Two BY Classes DEF Special
<1>8. \A k \in input + 1 .. Len(text) : Longer(input, k) <=> RestOfLine(input, k)
  BY <1>2, <1>7 DEF Longer, LongWord, LongLiteral, Pair, Commented
<1>9. LexemeEnd(input) = input + m - 1
  <2>1. Longer(input, input + m - 1) BY <1>2, <1>5, <1>6, <1>8 DEF RestOfLine
  <2>2. ASSUME NEW k \in input + m - 1 + 1 .. Len(text) PROVE ~Longer(input, k)
    <3>1. /\ input + m <= Len(text) /\ input + m \in input .. k /\ k \in input + 1 .. Len(text)
          /\ input + m \in 1 .. Len(text)
      BY <1>2, <1>5
    <3>2. text[input + m] = "\n" BY <1>3, <1>4, <3>1
    <3> QED BY <1>8, <3>1, <3>2 DEF RestOfLine
  <2> QED BY <1>2, <1>5, <2>1, <2>2, EndsThere
<1>10. IsDropped(SubSeq(text, input, LexemeEnd(input))) BY <1>2, <1>5, <1>9, TokenIs
<1> QED BY <1>1, <1>2, <1>5, <1>6, <1>9, <1>10, DropStep

LEMMA OpenCommentKeeps == ASSUME LexInv, OpenComment PROVE LexInv'
<1>1. /\ InText /\ peek = "/" /\ Peek(1) = "*"
      /\ input' = input + 2 /\ text' = text /\ line' = line /\ tokens' = tokens
      /\ comment' = TRUE
  BY DEF OpenComment, Skip
<1>2. /\ input \in 1 .. Len(text) /\ text[input] = "/"
      /\ input + 1 \in 1 .. Len(text) /\ text[input + 1] = "*"
      /\ text \in Texts /\ Len(text) \in Nat
  BY <1>1, PeekIs
<1>3. Asked /\ comment = FALSE BY <1>1 DEF InText, LexInv
<1>4. Aligned(tokens, input) BY <1>3 DEF LexInv
<1>5. input \in 1 .. input + 2 - 2 /\ Open(input, input + 2)
  <2>1. input + 2 .. input + 2 - 1 = {} BY <1>2
  <2> QED BY <1>2, <2>1 DEF Open
<1>6. HasComment
  <2>1. input \in 1 .. Len(text) - 1 BY <1>2
  <2> QED BY <1>2, <2>1 DEF HasComment
<1>7. LineOf(input + 2) = LineOf(input)
  <2>1. \A p \in input .. input + 2 - 1 : p = input \/ p = input + 1 BY <1>2
  <2>2. input \in Nat \ {0} /\ 2 \in Nat \ {0} BY <1>2
  <2> QED BY <1>2, <2>1, <2>2, OnTheLine
<1>8. (\E o \in 1 .. input - 2 : Open(o, input) /\ Aligned(tokens, o))'
  <2>1. Cut' = Cut BY <1>1, TextStays
  <2>2. Aligned(tokens, input) <=>
          /\ Len(Cut[1]) = Len(tokens) + Len(Cut[input])
          /\ \A k \in 1 .. Len(tokens) : Same(tokens[k], Cut[1][k])
          /\ \A k \in 1 .. Len(Cut[input]) : Cut[1][Len(tokens) + k] = Cut[input][k]
    BY DEF Aligned
  <2>3. \E o \in 1 .. input' - 2 : Open(o, input + 2) /\ Aligned(tokens, o)
    BY <1>1, <1>4, <1>5
  <2> QED BY <1>1, <2>1, <2>3 DEF Open, Aligned, Same, HasComment, Content
<1>9. (line = LineOf(input))' BY <1>1, <1>7, PlacesStay DEF LexInv
<1>10. HasComment' BY <1>1, <1>6, PlacesStay
<1>11. (input \in 1 .. Len(text) + 1)' /\ (text \in Texts)' /\ (comment = TRUE)' BY <1>1, <1>2
<1>12. Asked' BY <1>1, <1>3 DEF Asked
<1>13. (\E X : tokens \in Seq(X))' BY <1>1 DEF LexInv
<1> QED BY <1>8, <1>9, <1>10, <1>11, <1>12, <1>13 DEF LexInv

\* A round of the loop, n pieces on
LEMMA CommentStep ==
  ASSUME LexInv, comment = TRUE, comment' = TRUE, text' = text, tokens' = tokens,
         NEW n \in {1, 2}, input + n <= Len(text) + 1, input' = input + n,
         line' = LineOf(input + n),
         \A j \in input .. input + n - 1 :
           ~(text[j] = "*" /\ j + 1 <= Len(text) /\ text[j + 1] = "/")
  PROVE  LexInv'
<1>1. Asked BY DEF LexInv
<1>2. PICK o \in 1 .. input - 2 : Open(o, input) /\ Aligned(tokens, o) BY DEF LexInv
<1>3. input \in Nat /\ Len(text) \in Nat /\ text \in Texts BY PeekIs
<1>4. Open(o, input + n)
  <2>1. ASSUME NEW j \in o + 2 .. input + n - 1
        PROVE  ~(text[j] = "*" /\ j + 1 <= Len(text) /\ text[j + 1] = "/")
    <3>1. j \in o + 2 .. input - 1 \/ j \in input .. input + n - 1 BY <1>3
    <3> QED BY <1>2, <3>1 DEF Open
  <2>2. text[o] = "/" /\ text[o + 1] = "*" BY <1>2 DEF Open
  <2> DEFINE i == input + n
  <2>3. \A j \in o + 2 .. i - 1 : ~(text[j] = "*" /\ j + 1 <= Len(text) /\ text[j + 1] = "/")
    BY <1>3, <2>1
  <2> HIDE DEF i
  <2>4. Open(o, i) BY <2>2, <2>3 DEF Open
  <2> QED BY <2>4 DEF i
<1>5. o \in 1 .. input' - 2 BY <1>3
<1>6. HasComment
  <2>1. o \in 1 .. Len(text) - 1 BY <1>3 DEF LexInv
  <2> QED BY <1>2, <2>1 DEF HasComment, Open
<1>7. (\E x \in 1 .. input - 2 : Open(x, input) /\ Aligned(tokens, x))'
  <2>1. Cut' = Cut BY TextStays
  <2>2. \E x \in 1 .. input' - 2 : Open(x, input + n) /\ Aligned(tokens, x) BY <1>2, <1>4, <1>5
  <2> QED BY <2>1, <2>2 DEF Open, Aligned, Same, HasComment, Content
<1>8. (line = LineOf(input))' BY PlacesStay
<1>9. HasComment' BY <1>6, PlacesStay
<1>10. (input \in 1 .. Len(text) + 1)' /\ (text \in Texts)' /\ (comment = TRUE)' BY <1>3
<1>11. Asked' BY <1>1 DEF Asked
<1>12. (\E X : tokens \in Seq(X))' BY DEF LexInv
<1> QED BY <1>7, <1>8, <1>9, <1>10, <1>11, <1>12 DEF LexInv

LEMMA GoesOnKeeps == ASSUME LexInv, CommentGoesOn PROVE LexInv'
<1>1. /\ comment = TRUE /\ peek \notin {"NUL", "\n"} /\ ~(peek = "*" /\ Peek(1) = "/")
      /\ input' = input + 1 /\ text' = text /\ line' = line /\ tokens' = tokens
      /\ comment' = comment
  BY DEF CommentGoesOn, Skip, LexInv
<1>2. input \in 1 .. Len(text) /\ peek = text[input] /\ Len(text) \in Nat BY <1>1, PeekIs
<1>3. LineOf(input + 1) = LineOf(input)
  <2>1. \A p \in input .. input + 1 - 1 : p = input BY <1>2
  <2>2. input \in Nat \ {0} /\ 1 \in Nat \ {0} BY <1>2
  <2> QED BY <1>1, <1>2, <2>1, <2>2, OnTheLine
<1>4. line' = LineOf(input + 1) BY <1>1, <1>3 DEF LexInv
<1>5. ASSUME NEW j \in input .. input + 1 - 1
      PROVE  ~(text[j] = "*" /\ j + 1 <= Len(text) /\ text[j + 1] = "/")
  <2>1. j = input BY <1>2
  <2>2. input + 1 <= Len(text) => Peek(1) = text[input + 1] BY PeekIs
  <2> QED BY <1>1, <1>2, <2>1, <2>2
<1>6. comment' = TRUE /\ 1 \in {1, 2} /\ input + 1 <= Len(text) + 1 BY <1>1, <1>2
<1> QED BY <1>1, <1>4, <1>5, <1>6, CommentStep

LEMMA CommentLineKeeps ==
  ASSUME \A t \in Texts : HarmlessLines(t), LexInv, CommentLine PROVE LexInv'
<1>1. /\ comment = TRUE /\ peek = "\n"
      /\ input' = input + 2 /\ text' = text /\ line' = line + 1 /\ tokens' = tokens
      /\ comment' = comment
  BY DEF CommentLine, LexInv
<1>2. /\ input \in 1 .. Len(text) /\ text[input] = "\n"
      /\ Len(text) \in Nat /\ text \in Texts /\ DOMAIN text = 1 .. Len(text)
  BY <1>1, PeekIs, TextIs
<1>3. PICK o \in 1 .. input - 2 : Open(o, input) BY <1>1 DEF LexInv
<1>4. InComment(text, input)
  <2>1. ASSUME NEW j \in o + 2 .. input - 2 PROVE ~(text[j] = "*" /\ text[j + 1] = "/")
    <3>1. j \in o + 2 .. input - 1 /\ j + 1 <= Len(text) BY <1>2
    <3> QED BY <1>3, <3>1 DEF Open
  <2>2. text[o] = "/" /\ text[o + 1] = "*" BY <1>3 DEF Open
  <2> QED BY <2>1, <2>2 DEF InComment
<1>5. /\ input < Len(text) /\ text[input + 1] # "\n"
      /\ input + 1 < Len(text) => ~(text[input + 1] = "*" /\ text[input + 2] = "/")
  BY <1>2, <1>4 DEF HarmlessLines
<1>6. LineOf(input + 2) = LineOf(input) + 1
  <2>1. input \in Nat \ {0} /\ input + 1 \in Nat \ {0} /\ 1 \in Nat \ {0}
        /\ input + 1 + 1 = input + 2
    BY <1>2
  <2>2. LineOf(input + 1) = LineOf(input) + 1 BY <1>2, <2>1, NextLine
  <2>3. \A p \in input + 1 .. input + 1 + 1 - 1 : text[p] # "\n"
    <3>1. \A p \in input + 1 .. input + 1 + 1 - 1 : p = input + 1 BY <1>2
    <3> QED BY <1>5, <3>1
  <2> DEFINE i == input + 1
  <2>4. i \in Nat \ {0} /\ \A p \in i .. i + 1 - 1 : text[p] # "\n" BY <2>1, <2>3
  <2>5. LineOf(i + 1) = LineOf(i)
    <3> HIDE DEF i
    <3> QED BY <2>1, <2>4, OnTheLine
  <2> QED BY <2>1, <2>2, <2>5
<1>7. line' = LineOf(input + 2) BY <1>1, <1>6 DEF LexInv
<1>8. ASSUME NEW j \in input .. input + 2 - 1
      PROVE  ~(text[j] = "*" /\ j + 1 <= Len(text) /\ text[j + 1] = "/")
  <2>1. j = input \/ j = input + 1 BY <1>2
  <2>2. CASE j = input BY <1>2, <2>2
  <2>3. CASE j = input + 1
    <3>1. j + 1 = input + 2 /\ (input + 2 <= Len(text) => input + 1 < Len(text)) BY <1>2, <2>3
    <3> QED BY <1>5, <2>3, <3>1
  <2> QED BY <2>1, <2>2, <2>3
<1>9. comment' = TRUE /\ 2 \in {1, 2} /\ input + 2 <= Len(text) + 1 BY <1>1, <1>2, <1>5
<1> QED BY <1>1, <1>7, <1>8, <1>9, CommentStep

\* The comment that begins at o ends at e.
LEMMA CommentEnds ==
  ASSUME LexInv, NEW o \in 1 .. input - 2, Open(o, input), Aligned(tokens, o), Asked,
         NEW e \in o + 1 .. Len(text), Commented(o, e),
         \A k \in e + 1 .. Len(text) : ~Commented(o, k),
         text' = text, tokens' = tokens, comment' = FALSE, input' = e + 1, line' = LineOf(e + 1)
  PROVE  LexInv'
<1>1. input \in Nat /\ Len(text) \in Nat /\ text \in Texts BY PeekIs
<1>2. o \in 1 .. Len(text) /\ text[o] = "/" /\ text[o + 1] = "*" /\ e \in o .. Len(text)
  BY <1>1 DEF Open
<1>3. "/" \notin Letter \cup Digit \cup DOMAIN Two BY Classes DEF Special
<1>4. \A k \in o + 1 .. Len(text) : Longer(o, k) <=> Commented(o, k)
  BY <1>2, <1>3 DEF Longer, LongWord, LongLiteral, Pair, RestOfLine
<1>5. \A k \in e + 1 .. Len(text) : k \in o + 1 .. Len(text) BY <1>1, <1>2
<1>6. LexemeEnd(o) = e
  <2>1. Longer(o, e) BY <1>4
  <2>2. \A k \in e + 1 .. Len(text) : ~Longer(o, k) BY <1>4, <1>5
  <2> QED BY <1>1, <1>2, <2>1, <2>2, EndsThere
<1>7. IsDropped(SubSeq(text, o, LexemeEnd(o)))
  <2> DEFINE s == SubSeq(text, o, e)
  <2>1. Len(s) = e - o + 1 /\ s[1] = text[o] BY <1>1, <1>2, Part
  <2>2. e - o + 1 > 1 BY <1>1, <1>2
  <2> HIDE DEF s
  <2>3. IsDropped(s) BY <1>2, <2>1, <2>2 DEF IsDropped
  <2> QED BY <1>6, <2>3 DEF s
<1>8. Aligned(tokens, e + 1) BY <1>1, <1>2, <1>6, <1>7, AlignedOver
<1>9. Aligned(tokens', input') BY <1>8
<1>10. Aligned(tokens, input)' BY <1>9, AlignedStays
<1>11. HasComment
  <2>1. o \in 1 .. Len(text) - 1 BY <1>1, <1>2
  <2> QED BY <1>2, <2>1 DEF HasComment
<1>12. (line = LineOf(input))' BY PlacesStay
<1>13. HasComment' BY <1>11, PlacesStay
<1>14. (input \in 1 .. Len(text) + 1)' /\ (text \in Texts)' /\ (comment = FALSE)' BY <1>1, <1>2
<1>15. Asked' BY DEF Asked
<1>16. (\E X : tokens \in Seq(X))' BY DEF LexInv
<1> QED BY <1>10, <1>12, <1>13, <1>14, <1>15, <1>16 DEF LexInv

LEMMA ClosesKeeps == ASSUME LexInv, CommentCloses PROVE LexInv'
<1>1. /\ comment = TRUE /\ peek = "*" /\ Peek(1) = "/"
      /\ input' = input + 2 /\ text' = text /\ line' = line /\ tokens' = tokens
      /\ comment' = FALSE
  BY DEF CommentCloses, Skip, LexInv
<1>2. /\ input \in 1 .. Len(text) /\ text[input] = "*"
      /\ input + 1 \in 1 .. Len(text) /\ text[input + 1] = "/" /\ Len(text) \in Nat
  BY <1>1, PeekIs
<1>3. PICK o \in 1 .. input - 2 : Open(o, input) /\ Aligned(tokens, o) BY <1>1 DEF LexInv
<1>4. Asked BY <1>1 DEF LexInv
<1>5. LineOf(input + 2) = LineOf(input)
  <2>1. \A p \in input .. input + 2 - 1 : p = input \/ p = input + 1 BY <1>2
  <2>2. input \in Nat \ {0} /\ 2 \in Nat \ {0} BY <1>2
  <2> QED BY <1>2, <2>1, <2>2, OnTheLine
<1> DEFINE e == input + 1
<1>6. Commented(o, e)
  <2>1. ASSUME NEW p \in o + 2 .. e - 2 PROVE ~(text[p] = "*" /\ text[p + 1] = "/")
    <3>1. p \in o + 2 .. input - 1 /\ p + 1 <= Len(text) BY <1>2
    <3> QED BY <1>3, <3>1 DEF Open
  <2>2. text[o] = "/" /\ text[o + 1] = "*" BY <1>3 DEF Open
  <2> HIDE DEF e
  <2> QED BY <2>1, <2>2 DEF Commented
<1>7. ASSUME NEW k \in e + 1 .. Len(text) PROVE ~Commented(o, k)
  <2>1. input \in o + 2 .. k - 2 BY <1>2
  <2> QED BY <1>2, <2>1 DEF Commented
<1>8. e \in o + 1 .. Len(text) /\ e + 1 = input + 2 BY <1>2
<1>9. input' = e + 1 /\ line' = LineOf(e + 1) BY <1>1, <1>5, <1>8 DEF LexInv
<1> HIDE DEF e
<1> QED BY <1>1, <1>3, <1>4, <1>6, <1>7, <1>8, <1>9, CommentEnds

LEMMA StopsKeeps == ASSUME LexInv, CommentStops PROVE LexInv'
<1>1. /\ comment = TRUE /\ peek = "NUL"
      /\ input' = input /\ text' = text /\ line' = line /\ tokens' = tokens
      /\ comment' = FALSE
  BY DEF CommentStops, LexInv
<1> DEFINE e == Len(text)
<1>2. input = e + 1 /\ e \in Nat BY <1>1, PeekIs
<1>3. PICK o \in 1 .. input - 2 : Open(o, input) /\ Aligned(tokens, o) BY <1>1 DEF LexInv
<1>4. Asked BY <1>1 DEF LexInv
<1>5. Commented(o, e)
  <2>1. ASSUME NEW p \in o + 2 .. e - 2 PROVE ~(text[p] = "*" /\ text[p + 1] = "/")
    <3>1. p \in o + 2 .. input - 1 /\ p + 1 <= Len(text) BY <1>2
    <3> QED BY <1>3, <3>1 DEF Open
  <2>2. text[o] = "/" /\ text[o + 1] = "*" BY <1>3 DEF Open
  <2> HIDE DEF e
  <2> QED BY <2>1, <2>2 DEF Commented
<1>6. \A k \in e + 1 .. Len(text) : ~Commented(o, k)
  <2>1. e + 1 .. Len(text) = {} BY <1>2
  <2> QED BY <2>1
<1>7. e \in o + 1 .. Len(text) BY <1>2
<1>8. input' = e + 1 /\ line' = LineOf(e + 1) BY <1>1, <1>2 DEF LexInv
<1> HIDE DEF e
<1> QED BY <1>1, <1>3, <1>4, <1>5, <1>6, <1>7, <1>8, CommentEnds

-----------------------------------------------------------------------------
(* The theorems *)

LEMMA StepKeeps ==
  ASSUME \A t \in Texts : HarmlessLines(t), LexInv, [next_token]_lexer
  PROVE  LexInv'
<1>1. CASE End BY <1>1, EndKeeps
<1>2. CASE OneCharacter BY <1>2, OneKeeps
<1>3. CASE TwoCharacters BY <1>3, TwoKeeps
<1>4. CASE Slash BY <1>4, SlashKeeps
<1>5. CASE Word BY <1>5, WordKeeps
<1>6. CASE Number BY <1>6, NumberKeeps
<1>7. CASE Invalid BY <1>7, InvalidKeeps
<1>8. CASE White BY <1>8, WhiteKeeps
<1>9. CASE NewLine BY <1>9, NewLineKeeps
<1>10. CASE LineComment BY <1>10, LineCommentKeeps
<1>11. CASE OpenComment BY <1>11, OpenCommentKeeps
<1>12. CASE CommentGoesOn BY <1>12, GoesOnKeeps
<1>13. CASE CommentLine BY <1>13, CommentLineKeeps
<1>14. CASE CommentCloses BY <1>14, ClosesKeeps
<1>15. CASE CommentStops BY <1>15, StopsKeeps
<1>16. CASE UNCHANGED lexer
  <2>1. /\ text' = text /\ input' = input /\ line' = line /\ column' = column
        /\ comment' = comment /\ tokens' = tokens
    BY <1>16 DEF lexer
  <2>2. Cut' = Cut BY <2>1, TextStays
  <2> QED BY <2>1, <2>2
          DEF LexInv, LineOf, ColumnOf, HasComment, Asked, Open, Aligned, Complete, Same, Content
<1> QED BY <1>1, <1>2, <1>3, <1>4, <1>5, <1>6, <1>7, <1>8, <1>9, <1>10, <1>11, <1>12, <1>13,
           <1>14, <1>15, <1>16 DEF next_token

LEMMA Implied == LexInv => TokensAreOfText /\ PositionsAreOfText /\ StaysInText
<1> SUFFICES ASSUME LexInv PROVE TokensAreOfText /\ PositionsAreOfText /\ StaysInText OBVIOUS
<1>1. StaysInText BY PeekIs DEF LexInv, StaysInText
<1>2. Cut[1] = TokensOfText BY CutExists DEF LexInv
<1>3. PICK S : tokens \in Seq(S) BY DEF LexInv
<1>4. DOMAIN tokens = 1 .. Len(tokens) BY <1>3
<1>5. TokensAreOfText BY <1>2, <1>4 DEF TokensAreOfText, LexInv, Complete, Same
<1>6. PositionsAreOfText BY <1>2, <1>4 DEF PositionsAreOfText, LexInv, Complete, Same, HasComment
<1> QED BY <1>1, <1>5, <1>6

\* The invariant of the lexer, for every text and every set of keywords, as long
\* as what the loop of a comment overlooks after the end of a line is harmless.
THEOREM LexerInvariant ==
  ASSUME \A t \in Texts : HarmlessLines(t)
  PROVE  LexerSpec => []LexInv
<1>1. LexerInit => LexInv BY InitIs
<1>2. LexInv /\ [next_token]_lexer => LexInv' BY StepKeeps
<1> QED BY <1>1, <1>2, PTL DEF LexerSpec

\* The lexer cuts a text into the longest lexemes, drops white space and
\* comments and returns the others, with their words and values.
THEOREM TokensRight ==
  ASSUME \A t \in Texts : HarmlessLines(t)
  PROVE  LexerSpec => []TokensAreOfText
<1>1. LexerSpec => []LexInv BY LexerInvariant
<1>2. LexInv => TokensAreOfText BY Implied
<1> QED BY <1>1, <1>2, PTL

\* The tokens have the lines of the text, and the columns if there are no
\* comments of several lines.
THEOREM PositionsRight ==
  ASSUME \A t \in Texts : HarmlessLines(t)
  PROVE  LexerSpec => []PositionsAreOfText
<1>1. LexerSpec => []LexInv BY LexerInvariant
<1>2. LexInv => PositionsAreOfText BY Implied
<1> QED BY <1>1, <1>2, PTL

\* The lexer never reads on behind the terminator of the text.
THEOREM InTextAlways ==
  ASSUME \A t \in Texts : HarmlessLines(t)
  PROVE  LexerSpec => []StaysInText
<1>1. LexerSpec => []LexInv BY LexerInvariant
<1>2. LexInv => StaysInText BY Implied
<1> QED BY <1>1, <1>2, PTL
=============================================================================
