-------------------------------- MODULE IREval --------------------------------
(***************************************************************************)
(* A program on its way through the checker and the IR generator into the  *)
(* evaluator (src/src/ir_eval.cpp), the way the tests of src/src/tests.cpp *)
(* take it.  The checker takes one step per node at top level, the         *)
(* generator those of IRGen, and the evaluator one step per quad, with the *)
(* C++ stack of its recursion in frames.                                   *)
(***************************************************************************)
EXTENDS Check, IRGen

CONSTANTS
  Programs,   \* the programs of the instance
  MaxCalls,   \* rows of env, 20 in the code
  MaxTemps    \* cells of a row, 100 in the code

ASSUME EnvAssumption == MaxCalls \in Nat \ {0} /\ MaxTemps \in Nat \ {0}

VARIABLES
  phase,
  position,   \* the checker has done so many nodes of the program
  meaning,    \* what the program means
  frames,     \* the calls of eval that have not returned, the last one last
  env_index,
  env,        \* row MaxCalls stands for the memory after the array
  lastval

parsed    == <<program, position, meaning, gen>>
evaluator == <<frames, env_index, env, lastval>>
vars      == <<phase, parsed, evaluator>>

\* The local variables of eval(Routine *); i is the quad to come.
Frame(id) == [routine |-> id + 1, i |-> 0, rv |-> [word |-> Garbage, is_void |-> TRUE]]

Init ==
  /\ phase = "check"
  /\ program \in Programs
  /\ position = 0
  /\ meaning = Meaning(program)
  /\ sym = Global   \* of the checker; gen_ir has its own
  /\ routines = <<>> /\ todo = <<>> /\ value = 0
  /\ frames = <<>>
  /\ env_index = 0
  /\ env = [row \in 0 .. MaxCalls |-> [t \in 0 .. MaxTemps - 1 |-> Garbage]]
  /\ lastval = [word |-> Garbage, is_void |-> TRUE]

node == program[position + 1]

\* One round of the loop over the block at top level: type_check of a node.
Check ==
  /\ phase = "check"
  /\ position < Len(program)
  /\ LET c == CheckNode(sym, node)
     IN  IF c.ok
         THEN /\ program' = [program EXCEPT ![position + 1] = c.node]
              /\ sym' = c.sym
              /\ position' = position + 1
              /\ UNCHANGED phase
         ELSE /\ phase' = "refused"
              /\ UNCHANGED <<program, sym, position>>
  /\ UNCHANGED <<meaning, routines, todo, value, evaluator>>

\* ast.valid is still true, and gen_ir begins.
CheckEnds ==
  /\ phase = "check"
  /\ position = Len(program)
  /\ phase' = "generate"
  /\ gen_ir
  /\ UNCHANGED <<program, position, meaning, evaluator>>

Generate ==
  /\ phase = "generate"
  /\ GenExp \/ GenNode
  /\ UNCHANGED <<phase, program, position, meaning, evaluator>>

GenerateEnds ==
  /\ phase = "generate"
  /\ todo = <<>>
  /\ phase' = "eval"
  /\ program' = <<>>
  /\ position' = 0
  /\ frames' = <<Frame(0)>>
  /\ UNCHANGED <<meaning, gen, env_index, env, lastval>>

-----------------------------------------------------------------------------
(* The evaluator *)

frame == Last(frames)
quads == routines[frame.routine].quads
quad  == quads[frame.i + 1]

get(t) == env[env_index][t]

\* set(t, word) in a row, which is that of env_index when it is called.
SetIn(row, t, word) == env' = [env EXCEPT ![row][t] = word]
LastVal(word)       == lastval' = [word |-> word, is_void |-> FALSE]

Set(t, word) == SetIn(env_index, t, word) /\ LastVal(word)

WithFrame(f) == [frames EXCEPT ![Len(frames)] = f]
GoTo(i)      == frames' = WithFrame([frame EXCEPT !.i = i])
NextQuad     == GoTo(frame.i + 1)

\* The assertions of get, set, CALL and ARG, and the capacity of a row.
AssertsHold ==
  /\ Reads(quad) \cup Writes(quad) \subseteq 0 .. MaxTemps - 1
  /\ quad.op = "ARG" => quad.target < MaxTemps
  /\ quad.op \in {"CALL", "ARG"} => env_index < MaxCalls

\* eval is at a quad with one of the ops.
At(ops) ==
  /\ phase = "eval"
  /\ frame.i < Len(quads)
  /\ quad.op \in ops
  /\ AssertsHold
  /\ UNCHANGED parsed

AssertFails ==
  /\ phase = "eval"
  /\ frame.i < Len(quads)
  /\ ~AssertsHold
  /\ phase' = "assert"
  /\ UNCHANGED <<parsed, evaluator>>

MoveIm == At({"MOV_IM"}) /\ Set(quad.target, quad.left) /\ NextQuad
            /\ UNCHANGED <<phase, env_index>>

Move == At({"MOV"}) /\ Set(quad.target, get(quad.left)) /\ NextQuad
          /\ UNCHANGED <<phase, env_index>>

UnaryResult(op, a) ==
  IF a = Garbage THEN Garbage
  ELSE IF op = "NOT" THEN Truth(a = 0) ELSE Wrap(-Signed(a))

UnaryQuad ==
  /\ At({"NOT", "NEG"})
  /\ Set(quad.target, UnaryResult(quad.op, get(quad.left)))
  /\ NextQuad
  /\ UNCHANGED <<phase, env_index>>

BinaryResult(op, a, b) ==
  IF Garbage \in {a, b} THEN Garbage
  ELSE CASE op = "MUL"   -> Wrap(a * b)
         [] op = "IMUL"  -> Wrap(Signed(a) * Signed(b))
         [] op = "DIV"   -> a \div b
         [] op = "IDIV"  -> Wrap(Quotient(Signed(a), Signed(b)))
         [] op = "ADD"   -> Wrap(a + b)
         [] op = "SUB"   -> Wrap(a - b)
         [] op = "EQ"    -> Truth(a = b)
         [] op = "NE"    -> Truth(a # b)
         [] op = "LT"    -> Truth(Signed(a) < Signed(b))
         [] op = "BELOW" -> Truth(a < b)
         [] op = "GT"    -> Truth(Signed(a) > Signed(b))
         [] op = "ABOVE" -> Truth(a > b)
         [] op = "LE"    -> Truth(Signed(a) <= Signed(b))
         [] op = "BE"    -> Truth(a <= b)
         [] op = "GE"    -> Truth(Signed(a) >= Signed(b))
         [] op = "AE"    -> Truth(a >= b)

\* A division that traps, or that may because an operand is garbage.
MayTrap ==
  /\ quad.op \in {"DIV", "IDIV"}
  /\ \/ Garbage \in {get(quad.left), get(quad.right)}
     \/ Traps(quad.op = "IDIV", get(quad.left), get(quad.right))

BinaryQuad ==
  /\ At(BinaryQuads)
  /\ ~MayTrap \/ Garbage \in {get(quad.left), get(quad.right)}
  /\ Set(quad.target, BinaryResult(quad.op, get(quad.left), get(quad.right)))
  /\ NextQuad
  /\ UNCHANGED <<phase, env_index>>

Trap ==
  /\ At({"DIV", "IDIV"})
  /\ MayTrap
  /\ phase' = "fault"
  /\ UNCHANGED evaluator

\* The loop's i++ skips the LABEL.
Jump ==
  /\ At({"JMP"})
  /\ GoTo(quad.target + 1)
  /\ UNCHANGED <<phase, env_index, env, lastval>>

\* Garbage may be taken for anything.
CondJump(taken) ==
  /\ At({"JZ", "JNZ"})
  /\ get(quad.left) # Garbage => taken = (quad.op = "JZ" <=> get(quad.left) = 0)
  /\ GoTo(IF taken THEN quad.target + 1 ELSE frame.i + 1)
  /\ UNCHANGED <<phase, env_index, env, lastval>>

Label == At({"LABEL"}) /\ NextQuad /\ UNCHANGED <<phase, env_index, env, lastval>>

\* An argument goes to where the row of the next call will be.
Arg ==
  /\ At({"ARG"})
  /\ SetIn(env_index + 1, quad.target, get(quad.left))
  /\ LastVal(get(quad.left))
  /\ NextQuad
  /\ UNCHANGED <<phase, env_index>>

\* env_index goes up, and eval calls itself.
CallQuad ==
  /\ At({"CALL"})
  /\ env_index' = env_index + 1
  /\ frames' = Append(frames, Frame(quad.left))
  /\ UNCHANGED <<phase, env, lastval>>

Ret ==
  /\ At({"RET"})
  /\ frames' = WithFrame([frame EXCEPT
       !.i = Len(quads),
       !.rv = IF quad.target = 1 THEN [word |-> get(quad.left), is_void |-> FALSE] ELSE @])
  /\ UNCHANGED <<phase, env_index, env, lastval>>

RoutineEnds == phase = "eval" /\ frame.i >= Len(quads)

\* eval returns to the CALL that called it.
CallReturns ==
  /\ RoutineEnds
  /\ Len(frames) > 1
  /\ LET caller == frames[Len(frames) - 1]
         call   == routines[caller.routine].quads[caller.i + 1]
     IN  /\ frames' = Append(Front(Front(frames)), [caller EXCEPT !.i = @ + 1])
         /\ env_index' = env_index - 1
         /\ SetIn(env_index - 1, call.target, frame.rv.word)
         /\ lastval' = frame.rv
  /\ UNCHANGED <<phase, parsed>>

Finish ==
  /\ RoutineEnds
  /\ Len(frames) = 1
  /\ phase' = "done"
  /\ UNCHANGED <<parsed, evaluator>>

EvalStep ==
  \/ AssertFails
  \/ MoveIm \/ Move \/ UnaryQuad \/ BinaryQuad \/ Trap
  \/ Jump \/ (\E taken \in BOOLEAN : CondJump(taken)) \/ Label
  \/ Arg \/ CallQuad \/ Ret \/ CallReturns \/ Finish

Next == Check \/ CheckEnds \/ Generate \/ GenerateEnds \/ EvalStep

Spec == Init /\ [][Next]_vars /\ WF_vars(EvalStep)

-----------------------------------------------------------------------------
\* The evaluator comes to what the program means: the quads, with their
\* conditional jumps, temps and rows for calls, compute what the AST says.
\* Where the program depends on a word never written, anything may come out.
EvaluatorAgrees ==
  /\ phase = "done" =>
       \/ meaning = Unknown \/ meaning.word = Garbage
       \/ IsWord(meaning) /\ lastval = [word |-> meaning.word, is_void |-> FALSE]
       \/ meaning = Void /\ lastval.is_void
  /\ phase = "fault" => meaning \in {Fault, Unknown}

\* What the checker lets through makes sense: no evaluation comes upon a name
\* without a declaration, a call of what is no function, or an operand of a
\* wrong type.  IRGen relies on it: sym.get asserts that it finds the name.
AcceptedIsMeaningful ==
  /\ phase \notin {"check", "refused"} => meaning # Stuck
  /\ NamesAreOwn

\* Evaluation ends when the program does: it fails, or it comes to the end of
\* the routine at top level, whatever jumps there are.
EvaluationEnds ==
  (phase = "eval" /\ meaning \notin {Endless, Unknown})
    ~> phase \in {"done", "fault", "assert"}
=============================================================================
