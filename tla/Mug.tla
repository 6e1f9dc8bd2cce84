--------------------------------- MODULE Mug ---------------------------------
(***************************************************************************)
(* The mug language: what a program, given as the AST of src/src/ast.h,    *)
(* means.  This is the promise that the checker, the IR generator and the  *)
(* evaluator together keep.  Values carry their types at run time here, so *)
(* that nothing depends on what the checker does.                          *)
(*                                                                         *)
(* A program is the sequence of the nodes at top level (see Ast).          *)
(***************************************************************************)
EXTENDS Ast, SequencesExt

CONSTANTS
  Width,   \* bits of a word; 64 in the code
  Fuel     \* bound: rounds of a loop, and calls inside calls

ASSUME WidthAssumption == Width \in Nat /\ Width >= 2
ASSUME FuelAssumption == Fuel \in Nat

-----------------------------------------------------------------------------
(* Words *)

Word      == 0 .. 2^Width - 1
Wrap(n)   == n % 2^Width
Signed(w) == IF w < 2^(Width - 1) THEN w ELSE w - 2^Width
Truth(p)  == IF p THEN 1 ELSE 0

\* What was never written: any word at all.
Garbage == -1

\* Division towards zero
Quotient(a, b) ==
  LET abs(n) == IF n < 0 THEN -n ELSE n
      q      == abs(a) \div abs(b)
  IN  IF (a < 0) <=> (b < 0) THEN q ELSE -q

\* The idiv instruction traps also when the quotient is too large.
Traps(signed, a, b) ==
  IF b = 0 THEN TRUE
  ELSE signed /\ Quotient(Signed(a), Signed(b)) = 2^(Width - 1)

-----------------------------------------------------------------------------
(* Scopes: what the symbol table promises (see Scopes), innermost last *)

\* In the block of the whole program
Global == <<<<>>, <<>>>>

Enter(scopes) == Append(scopes, <<>>)
Leave(scopes) == Front(scopes)

DeclaredAt(scopes, name) == {d \in DOMAIN scopes : name \in DOMAIN scopes[d]}
Has(scopes, name)        == DeclaredAt(scopes, name) # {}
InCurrent(scopes, name)  == name \in DOMAIN Last(scopes)
DepthOf(scopes, name)    == Max(DeclaredAt(scopes, name))
Lookup(scopes, name)     == scopes[DepthOf(scopes, name)][name]

SetAt(scopes, depth, name, entry) ==
  [scopes EXCEPT ![depth] = (name :> entry) @@ scopes[depth]]

Declare(scopes, name, entry) == SetAt(scopes, Len(scopes), name, entry)
Update(scopes, name, entry)  == SetAt(scopes, DepthOf(scopes, name), name, entry)

-----------------------------------------------------------------------------
(* Expressions.  A result is a value or tells why there is none. *)

Value(type, word) == [type |-> type, word |-> word]

Void    == Value("VOID", 0)
Stuck   == Value("stuck", 0)    \* the program makes no sense
Fault   == Value("fault", 0)    \* a division trapped
Endless == Value("endless", 0)  \* it did not end within Fuel
Unknown == Value("unknown", 0)  \* it depends on a word never written

Numeric   == {"INT", "UINT"}
IsWord(v) == v.type \in Numeric \cup {"BOOL"}

\* What F makes of v, if there is a value to make something of.
Using(v, F(_)) == IF IsWord(v) THEN F(v) ELSE IF v = Void THEN Stuck ELSE v

\* A value of type "from" may be given to a variable of type "to".
Fits(from, to) == {from, to} \subseteq Numeric \/ (from = "BOOL" /\ to = "BOOL")

\* The number a word stands for.
Number(v, type) == IF type = "INT" THEN Signed(v.word) ELSE v.word

Calculate(op, a, b) ==
  LET type == IF "INT" \in {a.type, b.type} THEN "INT" ELSE "UINT"
      n    == Number(a, type)
      k    == Number(b, type)
  IN  IF ~{a.type, b.type} \subseteq Numeric THEN Stuck
      ELSE IF Garbage \in {a.word, b.word}
           THEN IF op = "DIV" THEN Unknown ELSE Value(type, Garbage)
      ELSE IF op = "DIV" /\ Traps(type = "INT", a.word, b.word) THEN Fault
      ELSE Value(type, Wrap(CASE op = "MUL" -> n * k
                              [] op = "DIV" -> Quotient(n, k)
                              [] op = "ADD" -> n + k
                              [] op = "SUB" -> n - k))

Compare(op, a, b) ==
  LET n == Number(a, a.type)
      k == Number(b, b.type)
  IN  IF a.type # b.type \/ (op \in Order /\ a.type = "BOOL") THEN Stuck
      ELSE IF Garbage \in {a.word, b.word} THEN Value("BOOL", Garbage)
      ELSE Value("BOOL", Truth(CASE op = "EQ" -> n = k
                                 [] op = "NE" -> n # k
                                 [] op = "LT" -> n < k
                                 [] op = "GT" -> n > k
                                 [] op = "LE" -> n <= k
                                 [] op = "GE" -> n >= k))

Unary(op, a) ==
  LET type == IF op = "NOT" THEN "BOOL" ELSE "INT"
  IN  IF (op = "NOT") # (a.type = "BOOL") THEN Stuck
      ELSE Value(type, IF a.word = Garbage THEN Garbage
                       ELSE IF op = "NOT" THEN 1 - a.word ELSE Wrap(-a.word))

\* F of the value on the right, unless the one on the left decides.
ShortCut(op, a, F(_)) ==
  IF a.type # "BOOL" THEN Stuck
  ELSE IF a.word = Garbage THEN Unknown
  ELSE IF a.word = Truth(op = "OR") THEN a ELSE F(a)

RECURSIVE ValueOf(_, _, _), Call(_, _, _), Run(_, _, _), Loop(_, _, _)

ValueOf(fuel, scopes, e) ==
  LET val(x) == ValueOf(fuel, scopes, x)
      isBool(b) == IF b.type = "BOOL" THEN b ELSE Stuck
  IN  CASE e.kind \in {"BOOL", "CONST"} -> Value(e.data_type, e.value)
        [] e.kind = "VAR" ->
             IF Has(scopes, e.name) /\ IsWord(Lookup(scopes, e.name))
             THEN Lookup(scopes, e.name) ELSE Stuck
        [] e.kind = "CALL" -> Call(fuel, scopes, e)
        [] e.kind = "UNARY" -> Using(val(e.operand), LAMBDA a : Unary(e.op, a))
        [] e.kind = "BINARY" /\ e.op \in Logical ->
             Using(val(e.left), LAMBDA a :
               ShortCut(e.op, a, LAMBDA x : Using(val(e.right), isBool)))
        [] e.kind = "BINARY" /\ e.op \notin Logical ->
             Using(val(e.left), LAMBDA a : Using(val(e.right), LAMBDA b :
               IF e.op \in Arithmetic THEN Calculate(e.op, a, b)
               ELSE Compare(e.op, a, b)))

\* A function sees the functions and its parameters, and no variables.
Callee(scopes, f, args) ==
  LET functions == {n \in DOMAIN scopes[2] : scopes[2][n].type = "FUNC"}
      Bind(s, k) == Declare(s, f.params[k].name, Value(f.params[k].type, args[k].word))
  IN  [scopes |-> FoldLeft(Bind, Enter(<<<<>>, [n \in functions |-> scopes[2][n]]>>),
                           [k \in DOMAIN args |-> k]),
       ret |-> Nothing, last |-> Void]

\* What a call of f gives when its body has ended with ret.
Returned(f, ret) ==
  CASE ret = Nothing -> IF f.ret = "VOID" THEN Void ELSE Value(f.ret, Garbage)
    [] ret = Void    -> IF f.ret = "VOID" THEN Void ELSE Stuck
    [] ret \notin {Nothing, Void} -> Using(ret, LAMBDA v : IF Fits(v.type, f.ret)
                                                THEN Value(f.ret, v.word) ELSE Stuck)

Call(fuel, scopes, e) ==
  LET f    == Lookup(scopes, e.func)
      args == [k \in DOMAIN e.args |-> ValueOf(fuel, scopes, e.args[k])]
      bad  == {k \in DOMAIN args : ~IsWord(args[k])}
  IN  IF ~Has(scopes, e.func) \/ f.type # "FUNC" \/ Len(e.args) # Len(f.params) THEN Stuck
      ELSE IF bad # {} THEN Using(args[Min(bad)], LAMBDA v : v)
      ELSE IF \E k \in DOMAIN args : ~Fits(args[k].type, f.params[k].type) THEN Stuck
      ELSE IF f.body = Nothing THEN Returned(f, Nothing)
      ELSE IF fuel = 0 THEN Endless
      ELSE Returned(f, Run(fuel - 1, Callee(scopes, f, args), f.body).ret)

-----------------------------------------------------------------------------
(* Statements.  s.ret is Nothing while the program goes on. *)

Stop(s, v) == [s EXCEPT !.ret = v]

\* What F makes of s with v, if there is a value.
Given(s, v, F(_)) ==
  IF IsWord(v) THEN F(v) ELSE Stop(s, Using(v, LAMBDA x : x))

\* Gives v to a variable of a type with Give.
Store(s, type, v, Give(_)) ==
  Given(s, v, LAMBDA x : IF Fits(x.type, type)
                         THEN [s EXCEPT !.scopes = Give(Value(type, x.word))]
                         ELSE Stop(s, Stuck))

Branch(s, v, Yes(_), No(_)) ==
  Given(s, v, LAMBDA x : IF x.type # "BOOL" THEN Stop(s, Stuck)
                         ELSE IF x.word = Garbage THEN Stop(s, Unknown)
                         ELSE IF x.word = 1 THEN Yes(s) ELSE No(s))

RunAll(fuel, s, nodes) == FoldLeft(LAMBDA t, n : Run(fuel, t, n), s, nodes)

Run(fuel, s, n) ==
  LET val(e) == ValueOf(fuel, s.scopes, e)
      decl(v) == Declare(s.scopes, n.var, v)
  IN  IF s.ret # Nothing \/ n = Nothing THEN s
      ELSE CASE n.kind = "EMPTY" -> s
        [] n.kind = "EXP" ->
             LET v == val(n.exp) IN  IF IsWord(v) \/ v = Void
                                     THEN [s EXCEPT !.last = v] ELSE Stop(s, v)
        [] n.kind = "ASSIGN" ->
             IF ~Has(s.scopes, n.var) THEN Stop(s, Stuck)
             ELSE Store(s, Lookup(s.scopes, n.var).type, val(n.value),
                        LAMBDA v : Update(s.scopes, n.var, v))
        [] n.kind = "DECL" ->
             IF InCurrent(s.scopes, n.var) THEN Stop(s, Stuck)
             ELSE IF n.init = Nothing
                  THEN [s EXCEPT !.scopes = decl(Value(n.type, Garbage))]
             ELSE Store(s, n.type, val(n.init), decl)
        [] n.kind = "RETURN" ->
             IF n.value = Nothing THEN Stop(s, Void)
             ELSE Stop(s, Using(val(n.value), LAMBDA v : v))
        [] n.kind = "IF" ->
             Branch(s, val(n.condition), LAMBDA t : Run(fuel, t, n.then),
                                         LAMBDA t : Run(fuel, t, n.else))
        [] n.kind = "WHILE" -> Loop(fuel, s, n)
        [] n.kind = "BLOCK" ->
             LET t == RunAll(fuel, [s EXCEPT !.scopes = Enter(s.scopes)], n.stmts)
             IN  [t EXCEPT !.scopes = Leave(t.scopes)]
        [] n.kind = "FUNC_DEF" ->
             IF Has(s.scopes, n.name) THEN Stop(s, Stuck)
             ELSE [s EXCEPT !.scopes = Declare(s.scopes, n.name,
                    [type |-> "FUNC", ret |-> n.ret, params |-> n.params, body |-> n.body])]

Loop(fuel, s, n) ==
  IF s.ret # Nothing THEN s
  ELSE Branch(s, ValueOf(fuel, s.scopes, n.condition),
              LAMBDA t : IF fuel = 0 THEN Stop(t, Endless)
                         ELSE Loop(fuel - 1, Run(fuel, t, n.body), n),
              LAMBDA t : t)

\* The value of the last expression at top level: what the tests of the IR
\* generator compare.
Meaning(program) ==
  LET s == RunAll(Fuel, [scopes |-> Global, ret |-> Nothing, last |-> Void], program)
  IN  IF s.ret = Nothing THEN s.last
      ELSE IF s.ret = Void \/ IsWord(s.ret) THEN Stuck   \* a return at top level
      ELSE s.ret
=============================================================================
