-------------------------------- MODULE Check --------------------------------
(***************************************************************************)
(* The checker (src/src/check.cpp).  It stops at the first error, and      *)
(* otherwise leaves in each expression the data type it has found.         *)
(* The symbol table is the stack of scopes that SymTable implements; an    *)
(* entry is a type, and that of a function has its parameters.             *)
(***************************************************************************)
EXTENDS Mug

\* An expression that was refused.
Refused == [kind |-> "refused", data_type |-> "VOID"]
Ok(e)   == e # Refused

Entry(type) == [type |-> type]

can_cast(from, to) ==
  \/ from \in {"INT", "UINT"} /\ to \in {"INT", "UINT"}
  \/ from = "BOOL" /\ to = "BOOL"

is_signed(e) == e.data_type = "INT"
is_bool(e)   == e.data_type = "BOOL"
is_void(e)   == e.data_type = "VOID"

\* The operands of a comparison
Comparable(op, l, r) ==
  /\ IF op \in Equality THEN is_bool(l) = is_bool(r) ELSE ~is_bool(l) /\ ~is_bool(r)
  /\ is_signed(l) = is_signed(r)

\* The type of op with operands l and r, or "VOID" if they do not go with it.
BinaryType(op, l, r) ==
  CASE op \in Arithmetic ->
         IF is_bool(l) \/ is_bool(r) THEN "VOID"
         ELSE IF is_signed(l) \/ is_signed(r) THEN "INT" ELSE "UINT"
    [] op \in Equality \cup Order -> IF Comparable(op, l, r) THEN "BOOL" ELSE "VOID"
    [] op \in Logical -> IF is_bool(l) /\ is_bool(r) THEN "BOOL" ELSE "VOID"

RECURSIVE CheckExp(_, _)

CheckCall(sym, e) ==
  LET params == Lookup(sym, e.func).params
      args   == [k \in DOMAIN e.args |-> CheckExp(sym, e.args[k])]
  IN  IF /\ Has(sym, e.func)
         /\ Lookup(sym, e.func).type = "FUNC"
         /\ Len(e.args) = Len(params)
         /\ \A k \in DOMAIN args :
              Ok(args[k]) /\ can_cast(args[k].data_type, params[k].type)
      THEN [e EXCEPT !.args = args, !.data_type = Lookup(sym, e.func).ret]
      ELSE Refused

CheckUnary(e, x) ==
  IF Ok(x) /\ ~is_void(x) /\ (e.op = "NOT" <=> is_bool(x))
  THEN [e EXCEPT !.operand = x, !.data_type = IF e.op = "NOT" THEN "BOOL" ELSE "INT"]
  ELSE Refused

CheckBinary(e, l, r) ==
  IF /\ Ok(l) /\ Ok(r)
     /\ ~is_void(l) /\ ~is_void(r)
     /\ BinaryType(e.op, l, r) # "VOID"
  THEN [e EXCEPT !.left = l, !.right = r, !.data_type = BinaryType(e.op, l, r)]
  ELSE Refused

CheckExp(sym, e) ==
  CASE e.kind \in {"BOOL", "CONST"} -> e
    [] e.kind = "VAR" ->
         IF Has(sym, e.name) THEN [e EXCEPT !.data_type = Lookup(sym, e.name).type]
         ELSE Refused
    [] e.kind = "CALL"   -> CheckCall(sym, e)
    [] e.kind = "UNARY"  -> CheckUnary(e, CheckExp(sym, e.operand))
    [] e.kind = "BINARY" -> CheckBinary(e, CheckExp(sym, e.left), CheckExp(sym, e.right))

-----------------------------------------------------------------------------
(* Statements.  c.node is the checked node; c.ok tells whether no error    *)
(* has occurred.                                                           *)

Accept(sym, node) == [ok |-> TRUE, sym |-> sym, node |-> node]
Refuse(sym)       == [ok |-> FALSE, sym |-> sym, node |-> Nothing]

RECURSIVE CheckNode(_, _)

\* One statement after the other, until one is refused.
CheckAll(sym, nodes) ==
  LET next(c, n) == IF ~c.ok THEN c
                    ELSE LET d == CheckNode(c.sym, n)
                         IN  [d EXCEPT !.node = Append(c.node, d.node)]
  IN  FoldLeft(next, Accept(sym, <<>>), nodes)

CheckDecl(sym, n) ==
  LET init == IF n.init = Nothing THEN Nothing ELSE CheckExp(sym, n.init)
  IN  IF /\ ~InCurrent(sym, n.var)
         /\ n.init # Nothing => Ok(init) /\ can_cast(init.data_type, n.type)
      THEN Accept(Declare(sym, n.var, Entry(n.type)), [n EXCEPT !.init = init])
      ELSE Refuse(sym)

CheckReturn(sym, n) ==
  LET value == IF n.value = Nothing THEN Nothing ELSE CheckExp(sym, n.value)
      type  == Lookup(sym, "@return").type
  IN  IF /\ Has(sym, "@return")
         /\ IF n.value = Nothing THEN type = "VOID"
            ELSE Ok(value) /\ can_cast(value.data_type, type)
      THEN Accept(sym, [n EXCEPT !.value = value])
      ELSE Refuse(sym)

\* if and while
AnyCondition(e) == Ok(e)   \* mutant: of any type

Condition(e) == Ok(e) /\ is_bool(e)

CheckIf(sym, n) ==
  LET condition == CheckExp(sym, n.condition)
      then == CheckNode(sym, n.then)
      else == IF n.else = Nothing THEN Accept(then.sym, Nothing)
              ELSE CheckNode(then.sym, n.else)
  IN  IF Condition(condition) /\ then.ok /\ else.ok
      THEN Accept(else.sym, [n EXCEPT !.condition = condition, !.then = then.node,
                                      !.else = else.node])
      ELSE Refuse(sym)

CheckWhile(sym, n) ==
  LET condition == CheckExp(sym, n.condition)
      body      == CheckNode(sym, n.body)
  IN  IF Condition(condition) /\ body.ok
      THEN Accept(body.sym, [n EXCEPT !.condition = condition, !.body = body.node])
      ELSE Refuse(sym)

\* The function is known in its own body; its parameters have the scope
\* between it and its body.
CheckFunction(sym, n) ==
  LET known  == Declare(sym, n.name, [type |-> "FUNC", ret |-> n.ret, params |-> n.params])
      inside == Declare(Enter(known), "@return", Entry(n.ret))
      body   == CheckNode(FoldLeft(LAMBDA s, p : Declare(s, p.name, Entry(p.type)),
                                   inside, n.params), n.body)
  IN  IF Has(sym, n.name) THEN Refuse(sym)
      ELSE IF n.body = Nothing THEN Accept(known, n)
      ELSE IF body.ok THEN Accept(Leave(body.sym), [n EXCEPT !.body = body.node])
      ELSE Refuse(sym)

CheckNode(sym, n) ==
  CASE n.kind = "EMPTY" -> Accept(sym, n)
    [] n.kind = "EXP" ->
         LET e == CheckExp(sym, n.exp)
         IN  IF Ok(e) THEN Accept(sym, [n EXCEPT !.exp = e]) ELSE Refuse(sym)
    [] n.kind = "ASSIGN" ->
         LET e == CheckExp(sym, n.value)
         IN  IF /\ Has(sym, n.var)
                /\ Ok(e) /\ can_cast(e.data_type, Lookup(sym, n.var).type)
             THEN Accept(sym, [n EXCEPT !.value = e]) ELSE Refuse(sym)
    [] n.kind = "DECL"   -> CheckDecl(sym, n)
    [] n.kind = "RETURN" -> CheckReturn(sym, n)
    [] n.kind = "IF"     -> CheckIf(sym, n)
    [] n.kind = "WHILE"  -> CheckWhile(sym, n)
    [] n.kind = "BLOCK" ->
         LET c == CheckAll(Enter(sym), n.stmts)
         IN  IF c.ok THEN Accept(Leave(c.sym), [n EXCEPT !.stmts = c.node])
             ELSE Refuse(sym)
    [] n.kind = "FUNC_DEF" -> CheckFunction(sym, n)
=============================================================================
