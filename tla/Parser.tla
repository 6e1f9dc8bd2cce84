------------------------------- MODULE Parser -------------------------------
(***************************************************************************)
(* The parser (src/src/parser.cpp) on top of the lexer: recursive descent  *)
(* with one token and one more to look ahead to.                           *)
(*                                                                         *)
(* p is the state of a Parser: where its token is among those of the       *)
(* lexer, the flag error, the counter of the ErrorContext, at which tokens *)
(* its messages were printed, and what the last parse function returned:   *)
(* Nothing for a null pointer.  A step of the machine is a round of the    *)
(* loop of parse_top_level.                                                *)
(***************************************************************************)
EXTENDS Lexer, Grammar

CONSTANT MaxPrint   \* max_print of the ErrorContext

ASSUME MaxPrintAssumption == MaxPrint \in Nat

VARIABLES
  p,
  stmts,   \* the nodes of the top level so far
  ast      \* what parse returns; Nothing until then

parser == <<p, stmts, ast>>

Yield(q, value) == [q EXCEPT !.value = value]
Null(q)         == Yield(q, Nothing)
IsNull(q)       == q.value.kind = "nothing"

Token(k)      == tokens[IF k < Len(tokens) THEN k ELSE Len(tokens)]
PeekToken(q)  == Token(q.at).type
look_ahead(q) == Token(q.at + 1).type

\* The lexer returns END as often as it is asked.
Get(q) == [q EXCEPT !.at = IF @ < Len(tokens) THEN @ + 1 ELSE @]

\* ErrorContext::print_error
Report(q) ==
  [q EXCEPT !.errors = @ + 1,
            !.printed = IF q.errors < MaxPrint THEN Append(@, q.at) ELSE @]

print_error(q) == Null([Report(q) EXCEPT !.error = TRUE])

\* expected_error and return nullptr, where there must be something
Needed(q) == IF IsNull(q) THEN print_error(q) ELSE q

\* Mutant: the token is taken before it is looked at.
ExpectTakes(q, type, value) ==
  IF PeekToken(q) = type THEN Yield(Get(q), value) ELSE print_error(Get(q))

\* expect, and what there is when the token is there
Expect(q, type, value) == IF PeekToken(q) = type THEN Yield(Get(q), value) ELSE print_error(q)

\* F goes on where q returned something.
Then(q, F(_)) == IF IsNull(q) THEN q ELSE F(q)

-----------------------------------------------------------------------------
(* Expressions *)

\* The operators of PARSE_BINOP, the loosest first
Levels == <<{"OR"}, {"AND"}, {"EQ", "NE", "LT", "GT", "LE", "GE"}, {"PLUS", "MINUS"}, {"STAR", "SLASH"}>>

RECURSIVE parse_binary(_, _), MoreOperands(_, _), parse_arguments(_, _)

parse_expression(q) == parse_binary(q, 1)

ParseCall(q, ident) ==
  IF PeekToken(q) = "RPAREN" THEN Yield(Get(q), call_exp(ident, <<>>))
  ELSE Then(parse_arguments(q, <<>>),
         LAMBDA r : Expect(r, "RPAREN", call_exp(ident, r.value.items)))

parse_factor(q) ==
  LET token == Token(q.at)
      next  == Get(q)
  IN  CASE token.type \in {"TRUE", "FALSE"} ->
             Yield(next, bool_exp(IF token.type = "TRUE" THEN 1 ELSE 0))
        [] token.type = "INT_LIT"  -> Yield(next, const_exp(token.value, "INT"))
        [] token.type = "UINT_LIT" -> Yield(next, const_exp(token.value, "UINT"))
        [] token.type = "IDENT" ->
             IF PeekToken(next) = "LPAREN" THEN ParseCall(Get(next), token.word)
             ELSE Yield(next, var_exp(token.word))
        [] token.type = "LPAREN" ->
             Then(Needed(parse_expression(next)), LAMBDA r : Expect(r, "RPAREN", r.value))
        [] OTHER -> Null(q)

parse_prefixed_factor(q) ==
  LET op == PeekToken(q)
  IN  IF op \in DOMAIN UnaryOp
      THEN Then(Needed(parse_factor(Get(q))), LAMBDA r : Yield(r, unary_exp(r.value, op)))
      ELSE parse_factor(q)

\* parse_expression, parse_and, parse_comparison, parse_sum, parse_term
parse_binary(q, level) ==
  IF level > Len(Levels) THEN parse_prefixed_factor(q)
  ELSE Then(parse_binary(q, level + 1), LAMBDA r : MoreOperands(r, level))

\* Mutant: the right operand takes all that is of the same level.
MoreOperandsRight(q, level) ==
  LET op == PeekToken(q)
  IN  IF op \notin Levels[level] THEN q
      ELSE Then(Needed(parse_binary(Get(q), level)),
             LAMBDA r : Yield(r, binary_exp(q.value, r.value, op)))

\* The loop of PARSE_BINOP, with the left operand
MoreOperands(q, level) ==
  LET op == PeekToken(q)
  IN  IF op \notin Levels[level] THEN q
      ELSE Then(Needed(parse_binary(Get(q), level + 1)),
             LAMBDA r : MoreOperands(Yield(r, binary_exp(q.value, r.value, op)), level))

parse_arguments(q, args) ==
  Then(Needed(parse_expression(q)),
    LAMBDA r : LET all == Append(args, r.value)
               IN  IF PeekToken(r) = "COMMA" THEN parse_arguments(Get(r), all)
                   ELSE Yield(r, [kind |-> "list", items |-> all]))

-----------------------------------------------------------------------------
(* Statements *)

TypeOfToken == [t \in IntTypes |-> "INT"] @@ [t \in UintTypes |-> "UINT"] @@ ("BOOL" :> "BOOL")
IsType(q) == PeekToken(q) \in DOMAIN TypeOfToken

RECURSIVE parse_statement(_), parse_statements(_, _), parse_parameters(_, _)

ParseAssign(q) ==
  Then(Needed(parse_expression(Get(Get(q)))),
    LAMBDA r : Expect(r, "SEMICOLON", assign_node(Token(q.at).word, r.value)))

\* The type is at q.
ParseDecl(q) ==
  LET type  == TypeOfToken[PeekToken(q)]
      ident == Token(q.at + 1).word
      Rest(r) ==
        IF PeekToken(r) = "ASSIGN"
        THEN Then(Needed(parse_expression(Get(r))),
               LAMBDA i : Expect(i, "SEMICOLON", decl_node(type, ident, i.value)))
        ELSE Expect(r, "SEMICOLON", decl_node(type, ident, Nothing))
  IN  Then(Expect(Get(q), "IDENT", empty_node), Rest)

ParseReturn(q) ==
  IF PeekToken(q) = "SEMICOLON" THEN Yield(Get(q), return_node(Nothing))
  ELSE Then(Needed(parse_expression(q)),
         LAMBDA r : Expect(r, "SEMICOLON", return_node(r.value)))

\* The condition in parentheses and the statement after it
ParseGuarded(q) ==
  Then(Expect(q, "LPAREN", empty_node), LAMBDA r :
    Then(Needed(parse_expression(r)), LAMBDA condition :
      Then(Expect(condition, "RPAREN", empty_node), LAMBDA s :
        Then(Needed(parse_statement(s)), LAMBDA stmt :
          Yield(stmt, [kind |-> "guarded", condition |-> condition.value, stmt |-> stmt.value])))))

\* After them
ParseElse(q) ==
  LET guarded == q.value
  IN  IF PeekToken(q) = "ELSE"
      THEN Then(Needed(parse_statement(Get(q))),
             LAMBDA r : Yield(r, if_node(guarded.condition, guarded.stmt, r.value)))
      ELSE Yield(q, if_node(guarded.condition, guarded.stmt, Nothing))

ParseLoop(q) == Yield(q, while_node(q.value.condition, q.value.stmt))

\* parse_statement after it has found no expression, which may have printed
\* an error and gone past some tokens.
ParseOther(q) ==
  CASE IsType(q)                 -> ParseDecl(q)
    [] PeekToken(q) = "RETURN"   -> ParseReturn(Get(q))
    [] PeekToken(q) = "IF"       -> Then(ParseGuarded(Get(q)), ParseElse)
    [] PeekToken(q) = "WHILE"    -> Then(ParseGuarded(Get(q)), ParseLoop)
    [] PeekToken(q) = "LBRACE"   ->
         Then(parse_statements(Get(q), <<>>), LAMBDA r : Expect(r, "RBRACE", r.value))
    [] OTHER -> Null(q)

\* With an expression, or without one.
ExpressionOr(exp) ==
  IF IsNull(exp) THEN ParseOther(exp) ELSE Expect(exp, "SEMICOLON", exp_node(exp.value))

\* Mutant: the semicolon of an empty statement is not taken.
StatementStays(q) ==
  IF PeekToken(q) = "SEMICOLON" THEN Yield(q, empty_node)
  ELSE IF PeekToken(q) = "IDENT" /\ look_ahead(q) = "ASSIGN" THEN ParseAssign(q)
  ELSE ExpressionOr(parse_expression(q))

parse_statement(q) ==
  IF PeekToken(q) = "SEMICOLON" THEN Yield(Get(q), empty_node)
  ELSE IF PeekToken(q) = "IDENT" /\ look_ahead(q) = "ASSIGN" THEN ParseAssign(q)
  ELSE ExpressionOr(parse_expression(q))

\* The loop of parse_statements has found s, or nothing.
AddStatement(s, nodes) ==
  IF ~IsNull(s) THEN parse_statements(s, Append(nodes, s.value))
  ELSE IF s.error THEN s
  ELSE Yield(s, block_node(nodes))

parse_statements(q, nodes) == AddStatement(parse_statement(q), nodes)

-----------------------------------------------------------------------------
(* Functions *)

List(items) == [kind |-> "list", items |-> items]

\* Without a type there are no parameters.
parse_parameters(q, params) ==
  IF params = <<>> /\ ~IsType(q) THEN Yield(q, List(<<>>))
  ELSE IF ~IsType(q) THEN print_error(q)
  ELSE LET all == Append(params, Param(TypeOfToken[PeekToken(q)], Token(q.at + 1).word))
       IN  Then(Expect(Get(q), "IDENT", List(all)),
             LAMBDA r : IF PeekToken(r) = "COMMA" THEN parse_parameters(Get(r), all) ELSE r)

\* After the parameters
ParseRest(q, external, ident, params) ==
  LET arrow == PeekToken(q) = "ARROW"
      type  == IF ~arrow THEN "VOID"
               ELSE IF IsType(Get(q)) THEN TypeOfToken[PeekToken(Get(q))] ELSE "none"
      body  == IF arrow THEN Get(Get(q)) ELSE q
  IN  IF type = "none" THEN print_error(Get(q))
      ELSE IF external
      THEN Expect(body, "SEMICOLON", func_def_node(type, ident, params, Nothing))
      ELSE Then(Expect(body, "LBRACE", empty_node), LAMBDA r :
             Then(parse_statements(r, <<>>), LAMBDA s :
               Expect(s, "RBRACE", func_def_node(type, ident, params, s.value))))

ParseFunction(q, external) ==
  LET ident == Token(q.at).word
  IN  Then(Expect(q, "IDENT", empty_node), LAMBDA r :
        Then(Expect(r, "LPAREN", empty_node), LAMBDA s :
          IF PeekToken(s) = "RPAREN" THEN ParseRest(Get(s), external, ident, <<>>)
          ELSE Then(parse_parameters(s, <<>>), LAMBDA t :
                 Then(Expect(t, "RPAREN", t.value), LAMBDA u :
                   ParseRest(u, external, ident, u.value.items)))))

parse_function_def(q) ==
  LET external == PeekToken(q) = "EXTERN"
      r        == IF external THEN Get(q) ELSE q
  IN  IF PeekToken(r) = "FUNCTION" THEN ParseFunction(Get(r), external)
      ELSE IF external THEN print_error(r) ELSE Null(r)

-----------------------------------------------------------------------------
(* The top level *)

Init ==
  /\ LexerInit
  /\ p = [at |-> 1, error |-> FALSE, errors |-> 0, printed |-> <<>>, value |-> Nothing]
  /\ stmts = <<>>
  /\ ast = Nothing

Lex == next_token /\ UNCHANGED parser

Ast(valid, root) == [kind |-> "ast", valid |-> valid, root |-> root]

Parsing == ~Asked /\ ast = Nothing

OrFunction(s) == IF IsNull(s) /\ ~s.error THEN parse_function_def(s) ELSE s

\* What a round finds: a statement or, unless that was an error, a function
TopLevel == OrFunction(parse_statement(p))

AddToTopLevel ==
  /\ Parsing
  /\ \E r \in {TopLevel} :
       /\ ~IsNull(r)
       /\ p' = r
       /\ stmts' = Append(stmts, r.value)
  /\ UNCHANGED <<lexer, ast>>

\* Mutant: what is left at the end is not looked at.
FinishAnyhow ==
  /\ Parsing
  /\ \E r \in {TopLevel} :
       /\ IsNull(r)
       /\ p' = r
       /\ ast' = IF r.error THEN Ast(FALSE, Nothing) ELSE Ast(TRUE, block_node(stmts))
  /\ UNCHANGED <<lexer, stmts>>

\* Mutant: an error behind which parsing went on is not looked at.
FinishForgets ==
  /\ Parsing
  /\ \E r \in {TopLevel} :
       /\ IsNull(r)
       /\ LET end == PeekToken(r) = "END"
          IN  /\ p' = IF end THEN r ELSE print_error(r)
              /\ ast' = IF end THEN Ast(TRUE, block_node(stmts)) ELSE Ast(FALSE, Nothing)
  /\ UNCHANGED <<lexer, stmts>>

\* The loop ends, for an error, at the end or at a token nothing begins with.
FinishTopLevel ==
  /\ Parsing
  /\ \E r \in {TopLevel} :
       /\ IsNull(r)
       /\ LET end == ~r.error /\ PeekToken(r) = "END"
          IN  /\ p' = IF r.error \/ end THEN r ELSE print_error(r)
              /\ ast' = IF end THEN Ast(TRUE, block_node(stmts)) ELSE Ast(FALSE, Nothing)
  /\ UNCHANGED <<lexer, stmts>>

Done == ast # Nothing

\* Nothing happens after that.
Returned == Done /\ UNCHANGED <<lexer, parser>>

Next == Lex \/ AddToTopLevel \/ FinishTopLevel \/ Returned

Spec == Init /\ [][Next]_<<lexer, parser>>

-----------------------------------------------------------------------------
Source == SubSeq(tokens, 1, Len(tokens) - 1)

\* The tree is valid for the programs of the grammar and for nothing else.
AcceptsGrammar == Done => (ast.valid <=> IsProgram(Source))

\* The tree is the one that the text is written as: operators bind by their
\* levels and group from the left, an else belongs to the nearest if, lists are
\* in order, and nothing is lost that was parsed on the way.
TreeIsOfText == Done => (ast.valid => IsWrittenAs(ast.root.stmts, Source))

\* An error is never forgotten although parsing goes on behind it: there is a
\* message if and only if there is no valid tree.
ErrorsAreKept ==
  /\ p.error <=> p.errors > 0
  /\ Done => (ast.valid <=> p.errors = 0)

\* The first message points at the first token that no program could have after
\* those before it, or at the end of a text that could have gone on.
FirstMessageIsRight ==
  Done /\ p.printed # <<>> =>
    LET at == p.printed[1]
    IN  /\ BeginsProgram(SubSeq(Source, 1, at - 1))
        /\ at <= Len(Source) => ~BeginsProgram(SubSeq(Source, 1, at))

\* parse returns for every text: a step that changes anything reads on in the
\* text or takes a token, but for the last one, and the checks find no other
\* state than the last one that has no step.
RoundsGetOn ==
  [][\/ input' > input
     \/ Len(tokens') > Len(tokens)
     \/ comment /\ ~comment'
     \/ p'.at > p.at
     \/ Done']_<<lexer, parser>>
=============================================================================
