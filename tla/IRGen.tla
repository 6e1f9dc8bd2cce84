-------------------------------- MODULE IRGen --------------------------------
(***************************************************************************)
(* The IR generator (src/src/ir.cpp, ir.h): routines of quads from a       *)
(* checked AST.  Temps, functions, arguments and labels are numbers, as in *)
(* the union Operand; nothing tells one from another.                      *)
(*                                                                         *)
(* gen_ir calls itself for the parts of an expression or a statement.      *)
(* todo has its calls that have not returned, the innermost first; a task  *)
(* says what a call does next and keeps its local variables.  An action is *)
(* what a call does between the calls that it makes.                       *)
(***************************************************************************)
EXTENDS Ast, FiniteSets

VARIABLES
  program,    \* the AST at top level
  routines,   \* routine number r has id r - 1
  sym,        \* the symbol table
  todo,
  value       \* the operand that gen_ir of an expression has returned last

gen == <<routines, sym, todo, value>>

\* What a name stands for: the operand is a temp of a routine, or the id of a
\* function when routine is 0.  The code keeps the operand only, and so do the
\* quads: routine is there to state what IRGen relies on.
Known(routine, operand) == [routine |-> routine, operand |-> operand]

\* The table is what SymTable promises to be.
Sym == INSTANCE Scopes WITH scopes <- sym, Symbol <- STRING,
                            Value <- [routine : Nat, operand : Nat], NoValue <- Nothing

Quad(op, target, left, right) ==
  [op |-> op, target |-> target, left |-> left, right |-> right]

IsSigned(e) == e.data_type = "INT"

-----------------------------------------------------------------------------
(* Routine *)

Routine(name) ==
  [name |-> name, temp_count |-> 0, param_count |-> 0, quads |-> <<>>, external |-> FALSE]

Add(rt, quad) == [rt EXCEPT !.quads = Append(@, quad)]

\* Mutant: the number is that of the next quad, so temps may share one.
QuadNumber(rt) == Len(rt.quads)

\* The temp that make_temp returns.
NextTemp(rt) == rt.temp_count
make_temp(rt) == [rt EXCEPT !.temp_count = @ + 1]

\* The label that make_label returns is the number of its quad.
make_label(rt) == Add(rt, Quad("LABEL", Len(rt.quads), 0, 0))

\* Mutant: the target stays 0.
PatchNothing(rt, at, label) == rt

\* The target of quad number "at" of those so far becomes a label.
Patch(rt, at, label) == [rt EXCEPT !.quads[at].target = label]

\* jump->target = r.make_label()
Land(rt, at) == Patch(make_label(rt), at, Len(rt.quads))

-----------------------------------------------------------------------------
(* Calls *)

\* of is the part of the AST that the call is for; target and left are temps
\* it remembers, at is a jump it will patch, top the label of a loop, and k
\* counts the arguments, statements or parameters that are done.
Task(r, do, of) ==
  [routine |-> r, do |-> do, of |-> of, target |-> 0, left |-> 0, at |-> 0, top |-> 0, k |-> 0]

task    == Head(todo)
this    == task.of
routine == routines[task.routine]

Doing(do)        == todo # <<>> /\ task.do = do
Begins(do, kind) == Doing(do) /\ this.kind = kind

For(do, of) == Task(task.routine, do, of)

\* The innermost call goes on with tasks.
Then(tasks) == todo' = tasks \o Tail(todo)

Becomes(rt) == routines' = [routines EXCEPT ![task.routine] = rt]

Awaits(tasks)       == Then(tasks) /\ UNCHANGED <<routines, sym, value>>
Emits(rt, tasks)    == Becomes(rt) /\ Then(tasks) /\ UNCHANGED <<sym, value>>
Returns(rt, result) == Becomes(rt) /\ Then(<<>>) /\ value' = result /\ UNCHANGED sym

\* The result is a new temp, the target of a quad.
ReturnsTemp(op, left) ==
  Returns(Add(make_temp(routine), Quad(op, NextTemp(routine), left, 0)), NextTemp(routine))

-----------------------------------------------------------------------------
(* Expressions *)

GenConst ==
  /\ Begins("exp", "BOOL") \/ Begins("exp", "CONST")
  /\ ReturnsTemp("MOV_IM", this.value)

GenVar ==
  /\ Begins("exp", "VAR")
  /\ Returns(routine, Sym!Lookup(this.name).operand)

GenArg ==
  /\ Begins("exp", "CALL")
  /\ task.k < Len(this.args)
  /\ Awaits(<<For("exp", this.args[task.k + 1]), [task EXCEPT !.do = "arg"]>>)

ArgEnds ==
  /\ Doing("arg")
  /\ Emits(Add(routine, Quad("ARG", task.k, value, 0)),
           <<[task EXCEPT !.do = "exp", !.k = @ + 1]>>)

GenCall ==
  /\ Begins("exp", "CALL")
  /\ task.k >= Len(this.args)
  /\ ReturnsTemp("CALL", Sym!Lookup(this.func).operand)

GenUnary == Begins("exp", "UNARY") /\ Awaits(<<For("exp", this.operand), For("unary", this)>>)

UnaryEnds ==
  /\ Doing("unary")
  /\ this.op \in {"NOT", "NEG"}
  /\ ReturnsTemp(this.op, value)

\* The quad of a binary expression that evaluates both operands.
OpOf(e) ==
  CASE e.op = "MUL" -> IF IsSigned(e) THEN "IMUL" ELSE "MUL"
    [] e.op = "DIV" -> IF IsSigned(e) THEN "IDIV" ELSE "DIV"
    [] e.op = "LT"  -> IF IsSigned(e.left) THEN "LT" ELSE "BELOW"
    [] e.op = "GT"  -> IF IsSigned(e.left) THEN "GT" ELSE "ABOVE"
    [] e.op = "LE"  -> IF IsSigned(e.left) THEN "LE" ELSE "BE"
    [] e.op = "GE"  -> IF IsSigned(e.left) THEN "GE" ELSE "AE"
    [] e.op \in {"ADD", "SUB", "EQ", "NE"} -> e.op

GenBinary ==
  /\ Begins("exp", "BINARY")
  /\ Emits(make_temp(routine),
           <<For("exp", this.left), [For("left", this) EXCEPT !.target = NextTemp(routine)]>>)

LeftEnds ==
  /\ Doing("left")
  /\ this.op \in Arithmetic \cup Equality \cup Order
  /\ Awaits(<<For("exp", this.right), [task EXCEPT !.do = "right", !.left = value]>>)

BinaryEnds ==
  /\ Doing("right")
  /\ this.op \in Arithmetic \cup Equality \cup Order
  /\ Returns(Add(routine, Quad(OpOf(this), task.target, task.left, value)), task.target)

\* && and || with the result in temp t: the right operand is skipped when the
\* left one decides.
SkipRight(t) ==
  LET moved == Add(routine, Quad("MOV", t, value, 0))
      jump  == Quad(IF this.op = "AND" THEN "JZ" ELSE "JNZ", 0, t, 0)
  IN  /\ Doing("left")
      /\ this.op \in Logical
      /\ Emits(Add(moved, jump),
               <<For("exp", this.right), [task EXCEPT !.do = "logical", !.target = t,
                                               !.at = Len(moved.quads) + 1]>>)

\* Mutant: the result is the temp of the left operand.
GenLogicalInPlace == SkipRight(value)

GenLogical == SkipRight(task.target)

LogicalEnds ==
  /\ Doing("logical")
  /\ Returns(Land(Add(routine, Quad("MOV", task.target, value, 0)), task.at), task.target)

GenExp ==
  \/ GenConst \/ GenVar \/ GenArg \/ ArgEnds \/ GenCall \/ GenUnary \/ UnaryEnds
  \/ GenBinary \/ LeftEnds \/ BinaryEnds \/ GenLogical \/ LogicalEnds

-----------------------------------------------------------------------------
(* Statements *)

GenEmpty   == Begins("node", "EMPTY") /\ Awaits(<<>>)
GenExpNode == Begins("node", "EXP") /\ Awaits(<<For("exp", this.exp)>>)

\* The variable is looked up before the value is generated.
GenAssign ==
  /\ Begins("node", "ASSIGN")
  /\ Awaits(<<For("exp", this.value),
             [For("assign", this) EXCEPT !.target = Sym!Lookup(this.var).operand]>>)

AssignEnds ==
  Doing("assign") /\ Emits(Add(routine, Quad("MOV", task.target, value, 0)), <<>>)

GenDecl ==
  /\ Begins("node", "DECL")
  /\ \/ this.init # Nothing /\ Awaits(<<For("exp", this.init), For("decl", this)>>)
     \/ /\ this.init = Nothing
        /\ Sym!Put(this.var, Known(task.routine, NextTemp(routine)))
        /\ Becomes(make_temp(routine)) /\ Then(<<>>) /\ UNCHANGED value

\* The variable is the temp of its first value.
DeclEnds ==
  /\ Doing("decl")
  /\ Sym!Put(this.var, Known(task.routine, value))
  /\ Then(<<>>) /\ UNCHANGED <<routines, value>>

GenReturn ==
  /\ Begins("node", "RETURN")
  /\ \/ this.value # Nothing /\ Awaits(<<For("exp", this.value), For("return", this)>>)
     \/ this.value = Nothing /\ Emits(Add(routine, Quad("RET", 0, 0, 0)), <<>>)

ReturnEnds == Doing("return") /\ Emits(Add(routine, Quad("RET", 1, value, 0)), <<>>)

GenIf == Begins("node", "IF") /\ Awaits(<<For("exp", this.condition), For("if", this)>>)

\* The call goes on with n and, as do says, patches the next quad after it.
JumpsOver(n, do) == <<For("node", n), [task EXCEPT !.do = do, !.at = Len(routine.quads) + 1]>>

IfCondition ==
  Doing("if") /\ Emits(Add(routine, Quad("JZ", 0, value, 0)), JumpsOver(this.then, "then"))

ThenEnds ==
  /\ Doing("then")
  /\ \/ this.else = Nothing /\ Emits(Land(routine, task.at), <<>>)
     \/ /\ this.else # Nothing
        /\ Emits(Land(Add(routine, Quad("JMP", 0, 0, 0)), task.at),
                 JumpsOver(this.else, "else"))

ElseEnds == Doing("else") /\ Emits(Land(routine, task.at), <<>>)

GenWhile ==
  /\ Begins("node", "WHILE")
  /\ Emits(make_label(routine),
           <<For("exp", this.condition), [For("while", this) EXCEPT !.top = Len(routine.quads)]>>)

WhileCondition ==
  Doing("while") /\ Emits(Add(routine, Quad("JZ", 0, value, 0)), JumpsOver(this.body, "loop"))

LoopEnds ==
  Doing("loop") /\ Emits(Land(Add(routine, Quad("JMP", task.top, 0, 0)), task.at), <<>>)

\* enter_scope, for a block or for the parameters of a function
ScopeBegins ==
  /\ \/ Begins("node", "BLOCK") /\ Then(<<For("stmts", this)>>)
     \/ Doing("function") /\ Then(<<For("params", this)>>)
  /\ Sym!EnterScope
  /\ UNCHANGED <<routines, value>>

GenStmt ==
  /\ Doing("stmts")
  /\ task.k < Len(this.stmts)
  /\ Awaits(<<For("node", this.stmts[task.k + 1]), [task EXCEPT !.k = @ + 1]>>)

\* exit_scope
ScopeEnds ==
  /\ (Doing("stmts") /\ task.k >= Len(this.stmts)) \/ Doing("leave")
  /\ Sym!ExitScope
  /\ Then(<<>>) /\ UNCHANGED <<routines, value>>

\* A function without a body is external.
GenFunction ==
  /\ Begins("node", "FUNC_DEF")
  /\ routines' = Append(routines, [Routine(this.name) EXCEPT !.external = this.body = Nothing])
  /\ Sym!Put(this.name, Known(0, Len(routines)))
  /\ Then(IF this.body = Nothing THEN <<>> ELSE <<Task(Len(routines) + 1, "function", this)>>)
  /\ UNCHANGED value

\* The temp of a parameter is made in routine r.
ParamIn(r) ==
  LET made == [routines EXCEPT ![r] = make_temp(@)]
  IN  /\ Doing("params")
      /\ task.k < Len(this.params)
      /\ routines' = [made EXCEPT ![task.routine].param_count = @ + 1]
      /\ Sym!Put(this.params[task.k + 1].name, Known(task.routine, NextTemp(routines[r])))
      /\ Then(<<[task EXCEPT !.k = @ + 1]>>)
      /\ UNCHANGED value

\* Mutant: it is made in the routine at top level.
ParamOfCaller == ParamIn(1)

AddParam == ParamIn(task.routine)

ParamsEnd ==
  /\ Doing("params")
  /\ task.k >= Len(this.params)
  /\ Awaits(<<For("node", this.body), [task EXCEPT !.do = "leave"]>>)

GenNode ==
  \/ GenEmpty \/ GenExpNode \/ GenAssign \/ AssignEnds \/ GenDecl \/ DeclEnds
  \/ GenReturn \/ ReturnEnds \/ GenIf \/ IfCondition \/ ThenEnds \/ ElseEnds
  \/ GenWhile \/ WhileCondition \/ LoopEnds \/ ScopeBegins \/ GenStmt \/ ScopeEnds
  \/ GenFunction \/ AddParam \/ ParamsEnd

-----------------------------------------------------------------------------
GenInit == routines = <<>> /\ sym = <<Sym!NoSymbols>> /\ todo = <<>> /\ value = 0

\* gen_ir of the whole AST, whose root is a block
gen_ir ==
  /\ routines = <<>>
  /\ routines' = <<Routine("@top_level")>>
  /\ sym' = <<Sym!NoSymbols>>
  /\ todo' = <<Task(1, "node", block_node(program))>>
  /\ UNCHANGED value

GenNext == (gen_ir \/ GenExp \/ GenNode) /\ UNCHANGED program

GenSpec == GenInit /\ [][GenNext]_<<program, gen>>

-----------------------------------------------------------------------------
(* Quads *)

\* The temps that the quad reads, and the one that it writes.
Reads(q) ==
  CASE q.op \in {"MOV_IM", "LABEL", "JMP", "CALL"} -> {}
    [] q.op \in {"MOV", "NOT", "NEG", "JZ", "JNZ", "ARG"} -> {q.left}
    [] q.op = "RET" -> IF q.target = 1 THEN {q.left} ELSE {}
    [] OTHER -> {q.left, q.right}

Writes(q) ==
  IF q.op \in {"LABEL", "JMP", "JZ", "JNZ", "RET", "ARG"} THEN {} ELSE {q.target}

BinaryQuads ==
  {"MUL", "IMUL", "DIV", "IDIV", "ADD", "SUB", "EQ", "NE",
   "LT", "BELOW", "GT", "ABOVE", "LE", "BE", "GE", "AE"}

\* Every jump that no call will still patch has the label that a LABEL quad
\* carries; and that quad is where the evaluator's i finds it.
JumpsLandOnLabels ==
  \A r \in DOMAIN routines : LET qs == routines[r].quads IN
    \A n \in DOMAIN qs :
      qs[n].op \in {"JMP", "JZ", "JNZ", "LABEL"} =>
        \/ \E i \in DOMAIN todo : todo[i].routine = r /\ todo[i].at = n
        \/ /\ qs[n].target + 1 \in DOMAIN qs
           /\ qs[qs[n].target + 1].op = "LABEL"
           /\ qs[qs[n].target + 1].target = qs[n].target

\* The temps of a routine are its own (ir.h:46): CodeGen sizes its table of
\* temps by temp_count and indexes it with the operands.  A CALL has the id of
\* a routine, an index into a table of them (ir.h:39).
TempsOfRoutine ==
  \A r \in DOMAIN routines : LET own == 0 .. routines[r].temp_count - 1 IN
    /\ routines[r].param_count <= routines[r].temp_count
    /\ \A n \in DOMAIN routines[r].quads : LET q == routines[r].quads[n] IN
         /\ Reads(q) \cup Writes(q) \subseteq own
         /\ q.op = "CALL" => q.left + 1 \in DOMAIN routines

\* What CodeRun takes for granted of the quads that the code generator gets:
\* the result of an operator or a call is a temp that no quad before has
\* touched and that is not its operand (the target's register is taken before
\* the operands' are known to be safe); no MOV to itself; nothing is assigned
\* between the ARG of a temp and the CALL; no jump or return there; the ARG
\* quads before a CALL are numbered 0, 1, 2, ...; and jumps lead to labels.
QuadsFitGenerator ==
  /\ JumpsLandOnLabels
  /\ \A r \in DOMAIN routines : LET qs == routines[r].quads IN \A n \in DOMAIN qs :
       LET q == qs[n]
           before == UNION {Reads(qs[k]) \cup Writes(qs[k]) : k \in 1 .. n - 1}
           \* the ARGs since the last CALL
           args == {k \in 1 .. n - 1 : qs[k].op = "ARG"
                      /\ \A j \in k .. n - 1 : qs[j].op # "CALL"}
       IN  /\ q.op \in BinaryQuads \cup {"NOT", "NEG", "MOV_IM", "CALL"} =>
                q.target \notin before \cup Reads(q) \cup 0 .. routines[r].param_count - 1
           /\ q.op = "MOV" => q.target \notin {q.left} \cup {qs[k].left : k \in args}
           /\ q.op \in {"JMP", "RET"} => args = {}
           /\ q.op = "ARG" => q.target = Cardinality(args)

-----------------------------------------------------------------------------
(* What the generator relies on.  The checker sees to the names, but for a *)
(* variable at top level that a function uses; nobody sees to the others.  *)

StandsFor(name, r) ==
  /\ \E d \in DOMAIN sym : Sym!Declares(d, name)
  /\ Sym!Lookup(name).routine = r

\* A name that is used is declared: a variable or parameter of the routine that
\* is being generated, or a function where it is called.
NamesAreOwn ==
  /\ Begins("exp", "VAR") => StandsFor(this.name, task.routine)
  /\ Begins("node", "ASSIGN") => StandsFor(this.var, task.routine)
  /\ Begins("exp", "CALL") => StandsFor(this.func, 0)

\* No variable is assigned to itself, as it is by x = x.
NoSelfMove == Doing("assign") => task.target # value

\* A call is the first argument of another one if it is an argument at all.
NoNestedArgs ==
  Begins("exp", "CALL") => \A i \in 2 .. Len(todo) : todo[i].do = "arg" => todo[i].k = 0
=============================================================================
