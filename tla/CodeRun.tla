------------------------------- MODULE CodeRun -------------------------------
(***************************************************************************)
(* Compilation of one routine (CodeGen::gen_code of a Routine) in lock step *)
(* with two executions of it: env is what the quads compute, as the        *)
(* evaluator of src/src/ir_eval.cpp does, and cg.out is the AMD64 machine  *)
(* that runs each instruction when the generator writes it.                *)
(*                                                                         *)
(* The quads are any that IRGen (src/src/ir.cpp) may produce: an operator  *)
(* writes a temp of its own that nothing has used yet, a MOV writes any    *)
(* temp, and operands are any temps.  A label is reached from anywhere,    *)
(* with any values.  Quirks lists what IRGen also does although the code   *)
(* generator is not up to it:                                              *)
(*   "selfmove"  MOV x, x (from the assignment x = x)                      *)
(*   "nested"    an argument list inside an argument list (f(a, g(b)))     *)
(*   "late"      a variable declared without a value before a loop, that   *)
(*               the end of the body gives its first value and the next    *)
(*               round reads                                               *)
(***************************************************************************)
EXTENDS Integers, Sequences

CONSTANTS
  Temp, NoTemp, RegCount, ParamRegCount, \* as in CodeGen
  Word,               \* the values of a temp (64-bit words)
  Undef,              \* the value of what was never written
  Meaning(_, _, _),   \* what an operator makes of its operands
  MaxParams,          \* bound: parameters of the routine
  MaxArgs,            \* bound: arguments of a call
  MaxDepth,           \* bound: calls inside argument lists of calls
  MaxQuads,           \* bound: quads of the routine
  Ops,                \* the kinds of quads in the instance
  Quirks              \* a subset of {"selfmove", "nested", "late"}

UnaryOp == {"NOT", "NEG"}
AddOp   == {"ADD", "SUB"}
MulOp   == {"MUL", "IMUL"}
DivOp   == {"DIV", "IDIV"}
CompOp  == {"EQ", "NE", "LT", "BELOW", "GT", "ABOVE", "LE", "BE", "GE", "AE"}
Op      == UnaryOp \cup AddOp \cup MulOp \cup DivOp \cup CompOp
Control == {"MOV_IM", "MOV", "JMP", "JZ", "LABEL", "RET", "ARG", "CALL"}

ASSUME TempAssumption == NoTemp \notin Temp

\* MUL and DIV use rax, rdx and a register for each operand.
ASSUME RegAssumption ==
  /\ RegCount \in Nat /\ RegCount >= 4
  /\ ParamRegCount \in Nat /\ ParamRegCount < RegCount

ASSUME OpsAssumption == Ops \subseteq Op \cup Control

ASSUME WordAssumption ==
  /\ 0 \in Word
  /\ 1 \in Word
  /\ Undef \notin Word

\* CQO stands for the sign of rax that cqo puts in rdx.
ASSUME MeaningAssumption ==
  \A a, b \in Word :
    /\ \A op \in Op \cup {"CQO"} : Meaning(op, a, b) \in Word
    /\ \A op \in CompOp : Meaning(op, a, b) \in {0, 1}

ASSUME BoundAssumption ==
  /\ MaxParams \in Nat /\ MaxArgs \in Nat
  /\ MaxDepth \in Nat /\ MaxQuads \in Nat

Value == Word \cup {Undef}

\* IRGen asks nothing of the generator that destroys or loses a value.
Sure == {"selfmove", "late"} \cap Quirks = {}

-----------------------------------------------------------------------------
(* The machine.  A partial function stands for memory: the slots written   *)
(* so far.                                                                 *)

At(mem, place) == IF place \in DOMAIN mem THEN mem[place] ELSE Undef

Put(mem, place, value) ==
  [p \in DOMAIN mem \cup {place} |-> IF p = place THEN value ELSE mem[p]]

Lift(op, a, b) == IF Undef \in {a, b} THEN Undef ELSE Meaning(op, a, b)

NoFlags == <<Undef, Undef>>

Set(m, r, value) == [m EXCEPT !.preg = [m.preg EXCEPT ![r] = value]]

\* mul and div leave the other half of their result in rdx.
SetWide(m, value) ==
  [m EXCEPT !.preg = [r \in DOMAIN m.preg |->
                        CASE r = 0 -> value [] r = 2 -> Undef
                          [] OTHER -> m.preg[r]],
            !.flags = NoFlags]

Clobber(m) == [m EXCEPT !.flags = NoFlags]

Exec(m, op, a, b) ==
  CASE op = "store"    -> [m EXCEPT !.mem = Put(m.mem, a, m.preg[b])]
    [] op = "load"     -> Set(m, a, At(m.mem, b))
    [] op = "set_arg"  -> [m EXCEPT !.outarg = Put(m.outarg, a, m.preg[b])]
    [] op = "mov"      -> Set(m, a, m.preg[b])
    [] op = "mov_im"   -> Set(m, a, b)
    [] op = "zero"     -> Clobber(Set(m, a, 0))
    [] op = "cqo"      -> Set(m, a, Lift("CQO", m.preg[b], m.preg[b]))
    [] op = "cmp"      -> [m EXCEPT !.flags = <<m.preg[a], m.preg[b]>>]
    [] op = "cmp_im"   -> [m EXCEPT !.flags = <<m.preg[a], b>>]
    [] op \in UnaryOp \cup AddOp ->
         Clobber(Set(m, a, Lift(op, m.preg[a], m.preg[b])))
    [] op \in MulOp    -> SetWide(m, Lift(op, m.preg[0], m.preg[b]))
    [] op = "DIV"      ->
         SetWide(m, IF m.preg[2] = 0 THEN Lift(op, m.preg[0], m.preg[b])
                    ELSE Undef)
    [] op = "IDIV"     ->
         SetWide(m, IF m.preg[2] = Lift("CQO", m.preg[0], m.preg[0])
                    THEN Lift(op, m.preg[0], m.preg[b]) ELSE Undef)
    [] op \in CompOp   ->
         Set(m, a, IF Undef \in {m.flags[1], m.flags[2]} THEN Undef
                   ELSE IF Meaning(op, m.flags[1], m.flags[2]) = 1
                        THEN m.preg[b] ELSE m.preg[a])

CG == INSTANCE CodeGen WITH Emit <- Exec

Unknown == [r \in CG!Reg |-> Undef]

-----------------------------------------------------------------------------
VARIABLES
  cg,        \* the members of CodeGen and, as cg.out, the machine
  args,      \* the list args, with what its cells held before a resize
  arg_count, \* its size
  max_arg_count,
  env,       \* env[t]: the value the quads so far give to t
  params,    \* params[i]: the temp that is parameter i
  actuals,   \* the temps the ARG quads of the current call named
  outer,     \* the same for the calls around, in an argument of which it is
  pc,        \* where the generator is
  position,  \* the quads of the routine it has come to
  i,         \* its loop counter there
  quad,      \* the quad whose end of block is being written
  frame      \* the size of the frame, when the routine is complete

list  == <<args, arg_count, max_arg_count>>
calls == <<args, arg_count, max_arg_count, actuals, outer>>
vars  == <<cg, args, arg_count, max_arg_count, env, params, actuals,
           outer, pc, position, i, quad, frame>>

m == cg.out
NoQuad == [op |-> "none"]
Undefined == [t \in Temp |-> Undef]

\* The values the caller passes: in registers, or above the return address.
Entry(n) ==
  LET inReg(r) == r \in {CG!ParamReg(k) : k \in 0 .. n - 1} /\ r <= ParamRegCount
      onStack  == {CG!ParamBase(k) : k \in ParamRegCount .. n - 1}
  IN  {x \in [preg : [CG!Reg -> Value], mem : [onStack -> Word],
               outarg : {<<>>}, flags : {NoFlags}] :
        \A r \in CG!Reg : x.preg[r] # Undef <=> inReg(r)}

Init ==
  /\ \E n \in 0 .. MaxParams :
       /\ params \in {p \in [0 .. n - 1 -> Temp] :
                        \A j, k \in 0 .. n - 1 : p[j] = p[k] => j = k}
       /\ \E e \in Entry(n) : cg = CG!Start(e)
  /\ args = [k \in 0 .. MaxArgs - 1 |-> NoTemp]
  /\ arg_count = 0
  /\ max_arg_count = 0
  /\ env = Undefined
  /\ actuals = <<>>
  /\ outer = <<>>
  /\ pc = "params"
  /\ position = 0
  /\ i = 0
  /\ quad = NoQuad
  /\ frame = 0

\* The value the caller passed as parameter k.
Passed(k) ==
  IF k < ParamRegCount THEN m.preg[CG!ParamReg(k)] ELSE m.mem[CG!ParamBase(k)]

PlaceParam ==
  /\ pc = "params"
  /\ i \in DOMAIN params
  /\ cg' = CG!PlaceParam(cg, i, params[i])
  /\ env' = [env EXCEPT ![params[i]] = Passed(i)]
  /\ i' = i + 1
  /\ UNCHANGED <<calls, params, pc, position, quad, frame>>

ParamsPlaced ==
  /\ pc = "params"
  /\ i \notin DOMAIN params
  /\ pc' = "quads"
  /\ i' = 0
  /\ UNCHANGED <<calls, cg, env, params, position, quad, frame>>

-----------------------------------------------------------------------------
(* Quads inside a basic block *)

\* The temps named by an ARG whose CALL is still to come.
Pending == {actuals[k] : k \in DOMAIN actuals}
             \cup UNION {{outer[d][k] : k \in DOMAIN outer[d]} : d \in DOMAIN outer}

\* A temp make_temp has just returned, so no ARG can have named it.
Fresh(t) == ~cg.spilled[t] /\ cg.reg[t] = CG!NoReg /\ t \notin Pending

\* The next quad of the routine is an op.
IsQuad(op) ==
  /\ pc = "quads"
  /\ op \in Ops
  /\ position < MaxQuads
  /\ position' = position + 1

\* The quad gives t a value and leaves the rest of the program alone.
Compute(t, next, value) ==
  /\ cg' = next
  /\ env' = [env EXCEPT ![t] = value]
  /\ UNCHANGED <<calls, params, pc, i, quad, frame>>

MovIm(t, value) ==
  /\ IsQuad("MOV_IM")
  /\ Fresh(t)
  /\ Compute(t, CG!MovIm(cg, t, value), value)

\* An assignment does not occur between the ARG of a temp and its CALL.
Mov(t, left) ==
  /\ IsQuad("MOV")
  /\ t \notin Pending
  /\ t # left \/ "selfmove" \in Quirks
  /\ Compute(t, CG!Mov(cg, t, left), env[left])

Unary(op, t, left) ==
  /\ IsQuad(op)
  /\ Fresh(t) /\ t # left
  /\ Compute(t, CG!Unary(cg, op, t, left), Lift(op, env[left], env[left]))

Binary(op, t, left, right) ==
  /\ IsQuad(op)
  /\ Fresh(t) /\ t \notin {left, right}
  /\ Compute(t,
       CASE op \in AddOp  -> CG!Additive(cg, op, t, left, right)
         [] op \in CompOp -> CG!Compare(cg, op, t, left, right)
         [] OTHER         -> CG!Multiplicative(cg, op, t, left, right),
       Lift(op, env[left], env[right]))

-----------------------------------------------------------------------------
(* Ends of basic blocks *)

\* JMP, JZ, JNZ, LABEL and CALL begin with end_basic_block.
Begin(q, next) ==
  /\ IsQuad(q.op)
  /\ pc' = "flush"
  /\ i' = 0
  /\ quad' = q
  /\ cg' = next
  /\ UNCHANGED <<calls, env, params, frame>>

\* Jumps belong to statements or to && and ||, so JMP is not inside a call.
Jump == actuals = <<>> /\ outer = <<>> /\ Begin([op |-> "JMP"], cg)

Branch(left) == Begin([op |-> "JZ", left |-> left], CG!Test(cg, left))

Label == Begin([op |-> "LABEL"], cg)

Call(t) == Fresh(t) /\ Begin([op |-> "CALL", target |-> t], cg)

\* One round of the loop of end_basic_block.
EndBasicBlock ==
  /\ pc = "flush"
  /\ i < RegCount
  /\ cg' = CG!EndBasicBlockStep(cg, i)
  /\ i' = i + 1
  /\ UNCHANGED <<calls, env, params, pc, position, quad, frame>>

BlockEnded(op) == pc = "flush" /\ i = RegCount /\ quad.op = op

NextQuad == pc' = "quads" /\ i' = 0 /\ quad' = NoQuad

\* Nothing falls through a jmp: what comes next is dead until a label.
JumpEnd ==
  /\ BlockEnded("JMP")
  /\ cg' = CG!BeginBasicBlock(cg)
  /\ env' = Undefined
  /\ NextQuad
  /\ UNCHANGED <<calls, params, position, frame>>

\* The branch that is not taken.
BranchEnd ==
  /\ BlockEnded("JZ")
  /\ cg' = CG!BeginBasicBlock(cg)
  /\ NextQuad
  /\ UNCHANGED <<calls, env, params, position, frame>>

\* Memory with the value e gives to each temp in the slot of the temp.
SlotsFilled(e) ==
  [p \in {cg.base[t] : t \in {u \in Temp : cg.spilled[u]}} |->
    e[CHOOSE t \in Temp : cg.base[t] = p]]

\* The label is reached from a jump or from above.  Every way to it ended a
\* block, so the values are in the slots.  A temp without a slot has had no
\* value in the text so far; a jump back may bring one from further on.
LabelEnd ==
  /\ BlockEnded("LABEL")
  /\ \E e \in [Temp -> Value] :
       /\ \A t \in Temp : e[t] # Undef => cg.spilled[t] \/ "late" \in Quirks
       /\ env' = e
       /\ cg' = CG!BeginBasicBlock([cg EXCEPT !.out =
                  [m EXCEPT !.preg = Unknown,
                            !.flags = NoFlags,
                            !.mem = SlotsFilled(e)]])
  /\ NextQuad
  /\ UNCHANGED <<calls, params, position, frame>>

-----------------------------------------------------------------------------
(* Calls and returns *)

Larger(a, b) == IF a > b THEN a ELSE b

\* ARG: IRGen numbers the arguments of a call from 0.
PutArg(index, left) ==
  /\ IsQuad("ARG")
  /\ index < MaxArgs
  /\ arg_count' = Larger(arg_count, index + 1)
  /\ args' = [args EXCEPT ![index] = left]
  /\ UNCHANGED <<cg, max_arg_count, env, params, pc, i, quad, frame>>

Arg(left) ==
  /\ PutArg(Len(actuals), left)
  /\ actuals' = Append(actuals, left)
  /\ UNCHANGED outer

\* IRGen comes to a later argument of a call, with calls in it.
EnterArgument ==
  /\ pc = "quads"
  /\ "nested" \in Quirks
  /\ actuals # <<>>
  /\ Len(outer) < MaxDepth
  /\ outer' = Append(outer, actuals)
  /\ actuals' = <<>>
  /\ UNCHANGED <<list, cg, env, params, pc, position, i, quad, frame>>

\* The value of that argument is there: its ARG, in the list of the call around it.
\* An expression with a call in it has a temp of its own for its value.
EndArgument(left) ==
  /\ actuals = <<>> /\ outer # <<>>
  /\ left \notin Pending \cup {params[k] : k \in DOMAIN params}
  /\ LET around == outer[Len(outer)] IN
       /\ PutArg(Len(around), left)
       /\ actuals' = Append(around, left)
  /\ outer' = SubSeq(outer, 1, Len(outer) - 1)

CountArguments ==
  /\ BlockEnded("CALL")
  /\ max_arg_count' = Larger(max_arg_count, arg_count)
  /\ pc' = "args"
  /\ i' = arg_count - 1
  /\ UNCHANGED <<cg, args, arg_count, env, params, actuals, outer, position, quad, frame>>

\* One round of the loop of CALL.
PassArgument ==
  /\ pc = "args"
  /\ i >= 0
  /\ cg' = CG!PassArgument(cg, i, args[i])
  /\ i' = i - 1
  /\ UNCHANGED <<calls, env, params, pc, position, quad, frame>>

\* The callee leaves its result in rax and may change every register of
\* the pool, the flags and the area of the arguments.
Called ==
  /\ pc = "args"
  /\ i < 0
  /\ \E result \in Word :
       /\ cg' = CG!AfterCall(
                  [cg EXCEPT !.out = [m EXCEPT
                     !.preg = [Unknown EXCEPT ![CG!rax] = result],
                     !.flags = NoFlags, !.outarg = <<>>]], quad.target)
       /\ env' = [env EXCEPT ![quad.target] = result]
  /\ arg_count' = 0
  /\ actuals' = <<>>
  /\ NextQuad
  /\ UNCHANGED <<args, max_arg_count, params, outer, position, frame>>

\* RET with a value
Return(left) ==
  /\ IsQuad("RET")
  /\ actuals = <<>> /\ outer = <<>>
  /\ cg' = CG!Return(cg, left)
  /\ pc' = "return"
  /\ quad' = [op |-> "RET", left |-> left]
  /\ UNCHANGED <<calls, env, params, i, frame>>

\* jmp_epi: what comes next is dead until a label.  No block ends here.
Returned ==
  /\ pc = "return"
  /\ env' = Undefined
  /\ NextQuad
  /\ UNCHANGED <<calls, cg, params, position, frame>>

\* RET without a value
ReturnNothing ==
  /\ IsQuad("RET")
  /\ actuals = <<>> /\ outer = <<>>
  /\ env' = Undefined
  /\ UNCHANGED <<cg, calls, params, pc, i, quad, frame>>

Finish ==
  /\ pc = "quads"
  /\ actuals = <<>> /\ outer = <<>>
  /\ frame' = CG!FrameSize(cg.count, max_arg_count)
  /\ pc' = "done"
  /\ UNCHANGED <<calls, cg, env, params, position, i, quad>>

Next ==
  \/ PlaceParam
  \/ ParamsPlaced
  \/ \E t \in Temp :
       \/ \E value \in Word : MovIm(t, value)
       \/ \E left \in Temp :
            \/ Mov(t, left)
            \/ \E op \in UnaryOp : Unary(op, t, left)
            \/ \E right \in Temp, op \in Op \ UnaryOp : Binary(op, t, left, right)
       \/ Call(t)
  \/ \E left \in Temp : Branch(left) \/ Arg(left) \/ EndArgument(left) \/ Return(left)
  \/ Jump \/ Label \/ EndBasicBlock \/ JumpEnd \/ BranchEnd \/ LabelEnd
  \/ EnterArgument \/ CountArguments \/ PassArgument \/ Called
  \/ Returned \/ ReturnNothing \/ Finish

Spec == Init /\ [][Next]_vars

-----------------------------------------------------------------------------
(* What is claimed.  The claims are stated of any tables s and values e, so *)
(* that the proofs can follow them through the steps of one quad.          *)

IsMachine(x) ==
  /\ DOMAIN x = {"preg", "mem", "outarg", "flags"}
  /\ x.preg \in [CG!Reg -> Value]
  /\ \A p \in DOMAIN x.mem : p \in Int /\ x.mem[p] \in Value
  /\ \A p \in DOMAIN x.outarg : p \in Nat /\ x.outarg[p] \in Value
  /\ x.flags \in Value \X Value

IsTables(s) ==
  /\ DOMAIN s = {"queue", "temp", "reg", "base", "spilled", "count", "out"}
  /\ s.queue \in [CG!Reg -> CG!Reg]
  /\ s.temp \in [CG!Reg -> Temp \cup {NoTemp}]
  /\ s.reg \in [Temp -> CG!Reg \cup {CG!NoReg}]
  /\ s.base \in [Temp -> Int]
  /\ s.spilled \in [Temp -> BOOLEAN]
  /\ s.count \in Nat
  /\ IsMachine(s.out)

\* The types of the variables.
TypeOK ==
  /\ IsTables(cg)
  /\ args \in [0 .. MaxArgs - 1 -> Temp \cup {NoTemp}]
  /\ arg_count \in 0 .. MaxArgs
  /\ max_arg_count \in 0 .. MaxArgs
  /\ env \in [Temp -> Value]
  /\ actuals \in Seq(Temp)
  /\ outer \in Seq(Seq(Temp))
  /\ pc \in {"params", "quads", "flush", "args", "return", "done"}
  /\ position \in 0 .. MaxQuads
  /\ i \in Int
  /\ frame \in Nat

Agree(s) == \A r \in CG!Reg, t \in Temp : s.temp[r] = t <=> s.reg[t] = r

\* A register holds a temp just when the temp is recorded to be in it: what
\* the assertions in get_register_for and dealloc_register rely on, through
\* every theft of a register, move and spill.
RegistersAgree == Agree(cg)

IsQueue(q) ==
  /\ \A j, k \in CG!Reg : q[j] = q[k] => j = k
  /\ \A r \in CG!Reg : \E j \in CG!Reg : q[j] = r

\* No register is lost from the queue or doubled in it, so the least
\* recently used one is never one a quad in progress has just been given.
QueueHoldsEachOnce == IsQueue(cg.queue)

Slots(s) ==
  \A t \in Temp :
    /\ s.base[t] # 0 => \A u \in Temp : s.base[u] = s.base[t] => u = t
    /\ s.base[t] < 0 => -8 * s.count <= s.base[t]
    /\ s.spilled[t] => s.base[t] # 0

\* No two temps share a slot, and those made for spilling are the first
\* spilled_count below rbp.
SlotsDisjoint == Slots(cg)

InSlot(s, e, t) == s.spilled[t] /\ At(s.out.mem, s.base[t]) = e[t]

Home(s, e) ==
  \A t \in Temp :
    e[t] # Undef =>
      IF s.reg[t] # CG!NoReg THEN s.out.preg[s.reg[t]] = e[t] ELSE InSlot(s, e, t)

\* The generated code computes what the quads compute: every temp that has a
\* value has it in the register that is recorded to hold it, or else in its
\* slot.  (RET may overwrite rax without telling the tables.)
HomeHoldsValue == pc # "return" => Home(cg, env)

\* What the comments on Temp::reg_id and Register::temp_id say: the register
\* recorded for a temp has the temp in it.
RegisterHasTemp ==
  pc # "return" =>
    \A t \in Temp : env[t] # Undef /\ cg.reg[t] # CG!NoReg =>
      m.preg[cg.reg[t]] = env[t]

AllInSlots(s, e) == \A t \in Temp : e[t] # Undef => InSlot(s, e, t)

\* At the end of a basic block every value is in its slot, where the code at
\* the target of a jump and the code after a call look for it.
BlockLeavesValuesInSlots ==
  pc = "flush" /\ i = RegCount => AllInSlots(cg, env)

\* je and jne test the condition although the stores of end_basic_block
\* come between them and the cmp.
BranchTestsValue ==
  pc = "flush" /\ quad.op = "JZ" /\ env[quad.left] # Undef =>
    m.flags = <<env[quad.left], 0>>

\* The machine has value where the callee looks for argument k.
IsPassed(x, k, value) ==
  value = IF k < ParamRegCount THEN x.preg[CG!ParamReg(k)] ELSE At(x.outarg, k)

\* The callee finds in each of its places the argument the program passes:
\* loading one argument does not destroy another that was in its register.
CallPassesArguments ==
  pc = "args" /\ i < 0 =>
    /\ arg_count = Len(actuals)
    /\ \A k \in 0 .. Len(actuals) - 1 :
         env[actuals[k + 1]] # Undef => IsPassed(m, k, env[actuals[k + 1]])

\* A callee that finds a value where it looks for an argument finds the one that
\* the program passes there, not another.
NoOtherArgument ==
  pc = "args" /\ i < 0 =>
    \A k \in 0 .. Len(actuals) - 1, value \in Word :
      env[actuals[k + 1]] # Undef /\ IsPassed(m, k, value) => value = env[actuals[k + 1]]

\* The caller gets the value of the return statement.
ReturnDeliversValue ==
  pc = "return" /\ env[quad.left] # Undef => m.preg[CG!rax] = env[quad.left]

\* The frame keeps the spilled temps clear of the area where arguments (and
\* the callee's register parameters) go, and rsp aligned for calls.
FrameHoldsEverything ==
  /\ \A a \in DOMAIN m.outarg : a < CG!ArgSlots(max_arg_count)
  /\ pc = "done" =>
       /\ frame % 16 = 0
       /\ \A p \in DOMAIN m.mem :
            p < 0 => -frame + 8 * CG!ArgSlots(max_arg_count) <= p

\* A routine leaves its caller's frame alone: above the return address and the
\* caller's rbp it writes only the shadow space and the arguments on the stack,
\* for which FrameHoldsEverything of the caller has set room aside.
CallerKeepsFrame ==
  \A p \in DOMAIN m.mem :
    p >= 0 => p >= 16 /\ (p - 16) \div 8 \in 0 .. ParamRegCount - 1 \cup DOMAIN params

\* A temp that has a slot keeps it: the code at a label reads the slots that
\* code written long before, for a jump to the label, has filled.
SlotsAreKept ==
  [][\A t \in Temp : cg.base[t] # 0 => cg'.base[t] = cg.base[t]]_vars
=============================================================================
