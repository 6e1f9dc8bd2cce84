------------------------------- MODULE MCIREval -------------------------------
(***************************************************************************)
(* Programs for IREval, as the parser would build them.  What matters is   *)
(* in a function f, whose result is the value of the program.              *)
(***************************************************************************)
EXTENDS IREval

Lit(n)       == const_exp(n, "INT")
ULit(n)      == const_exp(n, "UINT")
Bool(n)      == bool_exp(n)
Var(name)    == var_exp(name)
Un(op, e)    == UnaryExp(op, e)
Bin(op, l, r) == BinaryExp(op, l, r)
CallOf(f, as) == call_exp(f, as)

Empty         == empty_node
Exp(e)        == exp_node(e)
Assign(v, e)  == assign_node(v, e)
Decl(t, v, e) == decl_node(t, v, e)
Return(e)     == return_node(e)
If(c, s, t)   == if_node(c, s, t)
While(c, s)   == while_node(c, s)
Block(ns)     == block_node(ns)
Function(f, ps, ret, body) == func_def_node(ret, f, ps, body)

p == Var("p")
q == Var("q")
b == Var("b")
x == Var("x")

-----------------------------------------------------------------------------
(* function f(int p, uint q, bool b) -> ret { return e; } f(...); for any  *)
(* operator on any operands, one of which may be an expression again.      *)

Left  == {p, q, b, Lit(1), Un("NEG", p), Un("NEG", q), Un("NOT", b)}
Right == {p, q, b, ULit(2), Bin("DIV", p, Lit(7)), Bin("LT", p, Lit(2)), Bin("SUB", q, ULit(1)),
          Bin("AND", b, Bin("EQ", Bin("DIV", q, ULit(0)), q))}

ExpPrograms ==
  {<<Function("f", <<Param("INT", "p"), Param("UINT", "q"), Param("BOOL", "b")>>, ret,
              Block(<<Return(Bin(op, l, r))>>)),
     Exp(CallOf("f", args))>> :
     op \in Arithmetic \cup Equality \cup Order \cup Logical,
     l \in Left, r \in Right, ret \in {"INT", "BOOL"},
     args \in {<<Lit(7), Lit(3), Bool(1)>>, <<ULit(2), ULit(6), Bool(0)>>,
               <<Lit(4), Lit(0), Bin("GT", Lit(4), Lit(7))>>}}

-----------------------------------------------------------------------------
(* function f(int p, bool b) -> int { int x = 1; ... return x; }           *)

Statements == {
  Empty,
  Assign("x", Bin("SUB", x, p)),
  Assign("p", x),
  Assign("x", b),                                        \* refused
  Decl("INT", "x", Lit(3)),                              \* refused
  Decl("INT", "y", Nothing),
  Decl("INT", "y", Bin("MUL", p, x)),
  Assign("x", Bin("ADD", Var("y"), Lit(1))),
  Block(<<Decl("INT", "x", Lit(3)), Assign("p", x)>>),   \* shadows x
  If(b, Assign("x", Lit(2)), Nothing),
  If(Bin("LT", x, p), Assign("x", Lit(2)),
     Block(<<Assign("x", Bin("ADD", x, Lit(1))), Assign("b", Bool(0))>>)),
  If(b, Return(x), Nothing),
  If(Un("NOT", b), Empty, Return(Lit(0))),
  If(Bin("OR", b, Bin("EQ", Bin("DIV", x, Lit(0)), p)), Assign("x", Lit(0)), Nothing),
  If(Bin("AND", b, Bin("GT", x, p)), Assign("x", Lit(3)), Nothing),
  If(x, Empty, Nothing),                                 \* refused
  While(Bin("LT", x, p), Assign("x", Bin("ADD", x, Lit(1)))),
  While(Bin("AND", b, Bin("LT", x, Lit(3))),
        Block(<<Decl("INT", "x", Lit(2)), Assign("b", Bin("LT", x, p)),
                Assign("p", Bin("SUB", p, Lit(1)))>>)),
  While(b, Assign("x", Bin("ADD", x, Lit(1)))),          \* may be endless
  Return(Nothing)}                                       \* refused

StatementPrograms ==
  {<<Function("f", <<Param("INT", "p"), Param("BOOL", "b")>>, "INT",
              Block(<<Decl("INT", "x", Lit(1)), s, t, Return(x)>>)),
     Exp(CallOf("f", <<Lit(n), Bool(w)>>))>> :
     s \in Statements, t \in Statements, n \in {2, 3}, w \in {0, 1}}

-----------------------------------------------------------------------------
(* Calls of functions that call themselves, return nothing, or are         *)
(* external, alone and as first arguments.                                 *)

Sum == Function("sum", <<Param("INT", "n")>>, "INT",
         Block(<<If(Bin("LT", Var("n"), Lit(1)), Return(Lit(0)), Nothing),
                 Return(Bin("ADD", Var("n"),
                   CallOf("sum", <<Bin("SUB", Var("n"), Lit(1))>>)))>>))

Library == <<Sum,
  Function("sub", <<Param("INT", "n"), Param("UINT", "k")>>, "INT",
    Block(<<Decl("INT", "m", Lit(0)), Return(Bin("SUB", Var("n"), Var("k")))>>)),
  Function("test", <<Param("BOOL", "b")>>, "VOID", Block(<<If(b, Return(Nothing), Nothing)>>)),
  Function("ext", <<Param("INT", "n")>>, "INT", Nothing)>>

Calls == {
  CallOf("sum", <<p>>), CallOf("sum", <<CallOf("sum", <<p>>)>>),
  CallOf("sub", <<p, Lit(3)>>), CallOf("sub", <<CallOf("sum", <<p>>), p>>),
  CallOf("sub", <<CallOf("sub", <<Lit(3), p>>), CallOf("sum", <<>>)>>),   \* refused
  Bin("ADD", CallOf("sum", <<p>>), CallOf("sub", <<p, Bin("MUL", p, p)>>)),
  CallOf("sum", <<b>>), CallOf("sub", <<p>>), CallOf("p", <<>>),          \* refused
  CallOf("sub", <<p, Lit(1), Lit(1)>>), CallOf("none", <<>>),             \* refused
  CallOf("ext", <<p>>), Bin("ADD", CallOf("test", <<b>>), p)}             \* the last refused

CallPrograms ==
  {Library \o
   <<Function("f", <<Param("INT", "p"), Param("BOOL", "b")>>, ret,
       Block(<<Decl("INT", "x", Lit(2)), s,
               If(Bin("LT", CallOf("sum", <<x>>), c), Return(c), Nothing), Return(x)>>)),
     Exp(CallOf("f", <<Lit(n), Bool(1)>>))>> :
     c \in Calls, n \in {0, 2}, ret \in {"INT", "UINT"},
     s \in {Exp(CallOf("test", <<b>>)), Exp(CallOf("test", <<p>>)),
            Assign("x", CallOf("sub", <<x, p>>)),
            While(Bin("GE", CallOf("sum", <<x>>), p), Assign("x", Bin("SUB", x, Lit(1))))}}

-----------------------------------------------------------------------------
\* function f(int p) -> int { int x = p; x = x + 1; return p; } f(1);
AliasPrograms ==
  {<<Function("f", <<Param("INT", "p")>>, "INT",
       Block(<<Decl("INT", "x", p), Assign("x", Bin("ADD", x, Lit(1))), Return(p)>>)),
     Exp(CallOf("f", <<Lit(1)>>))>>}

\* int q = 1; int x = 2; function f() -> int { return x; } f();
OuterPrograms ==
  {<<Decl("INT", "q", Lit(1)), Decl("INT", "x", Lit(2)),
     Function("f", <<>>, "INT", Block(<<Return(x)>>)), Exp(CallOf("f", <<>>))>>}

-----------------------------------------------------------------------------
\* 1 + 1 + ... + 1, with a temp for each 1 and each +: more than a row of env has.
Ones[n \in 0 .. MaxTemps] == IF n = 0 THEN Lit(1) ELSE Bin("ADD", Ones[n - 1], Lit(1))
LongPrograms == {<<Exp(Ones[n])>> : n \in {MaxTemps \div 2 - 1, MaxTemps \div 2}}

AllPrograms == ExpPrograms \cup StatementPrograms \cup CallPrograms \cup LongPrograms
=============================================================================
