------------------------------- MODULE Grammar -------------------------------
(***************************************************************************)
(* The grammar of the language as src/mug_language.txt and                 *)
(* src/src/parser.h give it, and which tree some tokens stand for.  This   *)
(* is what the parser promises; nothing here follows how it goes about it. *)
(***************************************************************************)
EXTENDS Ast

IntTypes  == {"INT", "INT8", "INT16", "INT32", "INT64"}
UintTypes == {"UINT", "UINT8", "UINT16", "UINT32", "UINT64"}

\* Symbols in small letters have rules; those in capitals are types of tokens.
Rules == [
  top_level     |-> {<<>>, <<"definition", "top_level">>},
  definition    |-> {<<"statement">>,
                     <<"FUNCTION", "signature", "LBRACE", "statements", "RBRACE">>,
                     <<"EXTERN", "FUNCTION", "signature", "SEMICOLON">>},
  signature     |-> {<<"IDENT", "LPAREN", "parameters", "RPAREN", "result">>},
  result        |-> {<<>>, <<"ARROW", "type">>},
  parameters    |-> {<<>>, <<"some_params">>},
  some_params   |-> {<<"type", "IDENT", "more_params">>},
  more_params   |-> {<<>>, <<"COMMA", "some_params">>},
  type          |-> {<<t>> : t \in IntTypes \cup UintTypes \cup {"BOOL"}},

  statement     |-> {<<"SEMICOLON">>,
                     <<"expression", "SEMICOLON">>,
                     <<"IDENT", "ASSIGN", "expression", "SEMICOLON">>,
                     <<"type", "IDENT", "init", "SEMICOLON">>,
                     <<"RETURN", "value", "SEMICOLON">>,
                     <<"IF", "condition", "statement", "else">>,
                     <<"WHILE", "condition", "statement">>,
                     <<"LBRACE", "statements", "RBRACE">>},
  statements    |-> {<<>>, <<"statement", "statements">>},
  init          |-> {<<>>, <<"ASSIGN", "expression">>},
  value         |-> {<<>>, <<"expression">>},
  condition     |-> {<<"LPAREN", "expression", "RPAREN">>},
  else          |-> {<<>>, <<"ELSE", "statement">>},

  expression    |-> {<<"prefixed", "operands">>},
  operands      |-> {<<>>} \cup {<<op, "expression">> : op \in DOMAIN BinaryOp},
  prefixed      |-> {<<"factor">>, <<"MINUS", "factor">>, <<"NOT", "factor">>},
  factor        |-> {<<"TRUE">>, <<"FALSE">>, <<"INT_LIT">>, <<"UINT_LIT">>,
                     <<"IDENT", "call">>, <<"LPAREN", "expression", "RPAREN">>},
  call          |-> {<<>>, <<"LPAREN", "arguments", "RPAREN">>},
  arguments     |-> {<<>>, <<"some_args">>},
  some_args     |-> {<<"expression", "more_args">>},
  more_args     |-> {<<>>, <<"COMMA", "some_args">>}]

\* Tokens that end before the symbol does
Open == 0

RECURSIVE Ends(_, _, _), EndsOfAll(_, _, _)

\* Where the symbol may end if it begins at token i of s.
Ends(s, symbol, i) ==
  IF symbol \in DOMAIN Rules THEN UNION {EndsOfAll(s, rule, i) : rule \in Rules[symbol]}
  ELSE IF i > Len(s) THEN {Open}
  ELSE IF s[i].type = symbol THEN {i + 1} ELSE {}

EndsOfAll(s, symbols, i) ==
  IF symbols = <<>> THEN {i}
  ELSE UNION {IF e = Open THEN {Open} ELSE EndsOfAll(s, Tail(symbols), e) :
                e \in Ends(s, Head(symbols), i)}

IsProgram(s) == Len(s) + 1 \in Ends(s, "top_level", 1)

\* Some program begins with s.
BeginsProgram(s) == {Open, Len(s) + 1} \cap Ends(s, "top_level", 1) # {}

-----------------------------------------------------------------------------
(* What a tree is written as: operators with the same level are grouped    *)
(* from the left, and whatever is in parentheses may be any expression.    *)

LevelOf(e) ==
  IF e.kind = "UNARY" THEN 6
  ELSE IF e.kind # "BINARY" THEN 7
  ELSE CASE e.op = "OR" -> 1 [] e.op = "AND" -> 2 [] e.op \in {"ADD", "SUB"} -> 4
         [] e.op \in {"MUL", "DIV"} -> 5 [] OTHER -> 3

Types(types)  == [is |-> "token", types |-> types]
Tok(type)     == Types({type})
Name(word)    == [is |-> "name", word |-> word]
Lit(value)    == [is |-> "literal", value |-> value]
Exp(e, level) == [is |-> "exp", exp |-> e, level |-> level]
Stmt(n)       == [is |-> "node", node |-> n]
NoElse        == [is |-> "no else"]

TokensFor(op, map) == Types({t \in DOMAIN map : map[t] = op})
TypeParts(type)    ==
  CASE type = "INT" -> Types(IntTypes) [] type = "UINT" -> Types(UintTypes) [] OTHER -> Tok(type)
Optional(e, parts) == IF e = Nothing THEN <<>> ELSE parts

\* F(1), F(2), ... F(n) with commas between them
Listed(n, F(_)) ==
  LET To[k \in 0 .. n] ==
        IF k = 0 THEN <<>> ELSE To[k - 1] \o (IF k = 1 THEN <<>> ELSE <<Tok("COMMA")>>) \o F(k)
  IN  To[n]

ExpParts(e) ==
  CASE e.kind = "BOOL"   -> <<Tok(IF e.value = 1 THEN "TRUE" ELSE "FALSE")>>
    [] e.kind = "CONST"  -> <<Tok(IF e.data_type = "INT" THEN "INT_LIT" ELSE "UINT_LIT"), Lit(e.value)>>
    [] e.kind = "VAR"    -> <<Name(e.name)>>
    [] e.kind = "CALL"   -> <<Name(e.func), Tok("LPAREN")>>
                            \o Listed(Len(e.args), LAMBDA k : <<Exp(e.args[k], 1)>>)
                            \o <<Tok("RPAREN")>>
    [] e.kind = "UNARY"  -> <<TokensFor(e.op, UnaryOp), Exp(e.operand, 7)>>
    [] e.kind = "BINARY" -> <<Exp(e.left, LevelOf(e)), TokensFor(e.op, BinaryOp), Exp(e.right, LevelOf(e) + 1)>>

FuncParts(f) ==
  (IF f.body = Nothing THEN <<Tok("EXTERN")>> ELSE <<>>)
  \o <<Tok("FUNCTION"), Name(f.name), Tok("LPAREN")>>
  \o Listed(Len(f.params), LAMBDA k : <<TypeParts(f.params[k].type), Name(f.params[k].name)>>)
  \o <<Tok("RPAREN")>>
  \o (IF f.ret = "VOID" THEN <<>> ELSE <<Tok("ARROW"), TypeParts(f.ret)>>)
  \o <<IF f.body = Nothing THEN Tok("SEMICOLON") ELSE Stmt(f.body)>>

Parts(n) ==
  CASE n.kind = "EMPTY"  -> <<Tok("SEMICOLON")>>
    [] n.kind = "EXP"    -> <<Exp(n.exp, 1), Tok("SEMICOLON")>>
    [] n.kind = "ASSIGN" -> <<Name(n.var), Tok("ASSIGN"), Exp(n.value, 1), Tok("SEMICOLON")>>
    [] n.kind = "DECL"   -> <<TypeParts(n.type), Name(n.var)>>
                            \o Optional(n.init, <<Tok("ASSIGN"), Exp(n.init, 1)>>) \o <<Tok("SEMICOLON")>>
    [] n.kind = "RETURN" -> <<Tok("RETURN")>> \o Optional(n.value, <<Exp(n.value, 1)>>) \o <<Tok("SEMICOLON")>>
    [] n.kind = "IF"     -> <<Tok("IF"), Tok("LPAREN"), Exp(n.condition, 1), Tok("RPAREN"), Stmt(n.then)>>
                            \o (IF n.else = Nothing THEN <<NoElse>> ELSE <<Tok("ELSE"), Stmt(n.else)>>)
    [] n.kind = "WHILE"  -> <<Tok("WHILE"), Tok("LPAREN"), Exp(n.condition, 1), Tok("RPAREN"), Stmt(n.body)>>
    [] n.kind = "BLOCK"  -> <<Tok("LBRACE")>> \o [k \in DOMAIN n.stmts |-> Stmt(n.stmts[k])] \o <<Tok("RBRACE")>>
    [] n.kind = "FUNC_DEF" -> FuncParts(n)

RECURSIVE Spelled(_, _, _)

\* Where the parts may end if they are written from token i of s on.
Spelled(s, parts, i) ==
  IF parts = <<>> THEN {i}
  ELSE LET part == Head(parts)
           then(more, j) == Spelled(s, more \o Tail(parts), j)
           Here(P(_))    == i <= Len(s) /\ P(s[i])
       IN  CASE part.is = "token" -> IF Here(LAMBDA t : t.type \in part.types) THEN then(<<>>, i + 1) ELSE {}
             [] part.is = "name"  -> IF Here(LAMBDA t : t.type = "IDENT" /\ t.word = part.word)
                                     THEN then(<<>>, i + 1) ELSE {}
             [] part.is = "literal" -> IF s[i - 1].value = part.value THEN then(<<>>, i) ELSE {}
             [] part.is = "no else" -> IF Here(LAMBDA t : t.type = "ELSE") THEN {} ELSE then(<<>>, i)
             [] part.is = "node"  -> then(Parts(part.node), i)
             [] part.is = "exp"   ->
                  then(<<Tok("LPAREN"), Exp(part.exp, 1), Tok("RPAREN")>>, i)
                  \cup IF LevelOf(part.exp) >= part.level THEN then(ExpParts(part.exp), i) ELSE {}

IsWrittenAs(nodes, s) == Len(s) + 1 \in Spelled(s, [k \in DOMAIN nodes |-> Stmt(nodes[k])], 1)
=============================================================================
