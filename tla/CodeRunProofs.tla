---------------------------- MODULE CodeRunProofs ----------------------------
(***************************************************************************)
(* The inductive invariant of CodeRun and what follows from it, for any    *)
(* number of temps, registers, parameters, arguments and quads.            *)
(***************************************************************************)
EXTENDS CodeRunQuads

\* The values the tables account for: those of the quads, but none when a
\* quirk may destroy or lose one or RET has just overwritten rax.
Known == IF ~Sure \/ pc = "return" THEN Undefined ELSE env

ControlOK ==
  /\ args \in [0 .. MaxArgs - 1 -> Temp \cup {NoTemp}]
  /\ arg_count \in 0 .. MaxArgs
  /\ max_arg_count \in 0 .. MaxArgs
  /\ env \in [Temp -> Value]
  /\ actuals \in Seq(Temp)
  /\ outer \in Seq(Seq(Temp))
  /\ pc \in {"params", "quads", "flush", "args", "return", "done"}
  /\ position \in 0 .. MaxQuads
  /\ i \in Int
  /\ frame \in Nat

\* Parameters from number i on have not been placed yet.
Unplaced ==
  /\ \A k \in DOMAIN params : k >= i =>
       /\ cg.reg[params[k]] = CG!NoReg
       /\ cg.base[params[k]] = 0
       /\ k >= ParamRegCount => CG!ParamBase(k) \in DOMAIN cg.out.mem
  /\ \A t \in Temp : cg.base[t] # 0 =>
       \E k \in DOMAIN params : k < i /\ cg.base[t] = CG!ParamBase(k)
  /\ \A r \in CG!Reg : cg.temp[r] # NoTemp =>
       \E k \in DOMAIN params : k < i /\ k < ParamRegCount /\ r = CG!ParamReg(k)

ParamsOK ==
  /\ \E n \in 0 .. MaxParams :
       params \in [0 .. n - 1 -> Temp] /\ (pc = "params" => i \in 0 .. n)
  /\ \A j, k \in DOMAIN params : params[j] = params[k] => j = k
  /\ pc = "params" => Unplaced

\* The registers before number i have been stored.
Flushed ==
  /\ i \in 0 .. RegCount
  /\ \A t \in Temp, r \in CG!Reg :
       r < i /\ cg.temp[r] = t /\ Known[t] # Undef => InSlot(cg, Known, t)

\* The flags are those of the condition of a branch.
Tested ==
  quad.op = "JZ" /\ Known[quad.left] # Undef => m.flags = <<Known[quad.left], 0>>

FlushOK ==
  pc = "flush" =>
    /\ quad.op \in {"JMP", "JZ", "LABEL", "CALL"}
    /\ quad.op = "CALL" => quad.target \in Temp
    /\ Flushed
    /\ Tested

\* The cells of args that a list has come to, this one or one around it,
\* hold temps.
Listed ==
  /\ \A k \in 0 .. arg_count - 1 : args[k] \in Temp
  /\ \A k \in 0 .. Len(actuals) - 1 : args[k] \in Temp
  /\ \A d \in DOMAIN outer : \A k \in 0 .. Len(outer[d]) - 1 : args[k] \in Temp
  /\ "nested" \notin Quirks =>
       /\ outer = <<>>
       /\ arg_count = Len(actuals)
       /\ \A k \in 0 .. arg_count - 1 : args[k] = actuals[k + 1]

ArgsOK ==
  /\ Listed
  /\ pc = "args" =>
       /\ quad.target \in Temp
       /\ i \in -1 .. arg_count - 1
       /\ arg_count <= max_arg_count
       /\ AllInSlots(cg, Known)
       /\ \A k \in 0 .. arg_count - 1 :
            k > i /\ Known[args[k]] # Undef => IsPassed(m, k, Known[args[k]])

ReturnOK ==
  pc = "return" /\ Sure /\ env[quad.left] # Undef =>
    m.preg[CG!rax] = env[quad.left]

FrameOK ==
  /\ \A a \in DOMAIN m.outarg : a < CG!ArgSlots(max_arg_count)
  /\ pc = "done" => frame = CG!FrameSize(cg.count, max_arg_count)

\* The inductive invariant
IInv ==
  /\ ControlOK
  /\ Sound(cg, Known)
  /\ ParamsOK
  /\ FlushOK
  /\ ArgsOK
  /\ ReturnOK
  /\ FrameOK

\* Where parameter k may have been put by the caller, or a register of it.
Places == {CG!ParamBase(k) : k \in 0 .. ParamRegCount - 1 \cup DOMAIN params}

\* What a step also may not do: take a slot back, or reach a place in the frame
\* of the caller that is not one of its parameters.
Kept == KeepsSlots(cg, cg') /\ Above(cg') \subseteq Above(cg) \cup Places

LEMMA KeepsIsKept == ASSUME Keeps(cg, cg') PROVE Kept
BY DEF Keeps, Kept

LEMMA StayIsKept == ASSUME cg' = cg PROVE Kept
<1>1. Keeps(cg, cg) BY KeepsItself
<1> QED BY <1>1, KeepsIsKept
-----------------------------------------------------------------------------
(* The beginning *)

\* What the caller leaves is a machine, with the parameters in place.
LEMMA EntryIsMachine ==
  ASSUME NEW n \in Nat, NEW x \in Entry(n)
  PROVE  /\ IsMachine(x)
         /\ \A p \in DOMAIN x.mem : p > 0
         /\ \A k \in 0 .. n - 1 : k >= ParamRegCount => CG!ParamBase(k) \in DOMAIN x.mem
         /\ x.outarg = <<>>
<1> DEFINE onStack == {CG!ParamBase(k) : k \in ParamRegCount .. n - 1}
<1>1. x \in [preg : [CG!Reg -> Value], mem : [onStack -> Word],
              outarg : {<<>>}, flags : {NoFlags}]
  BY DEF Entry
<1>2. \A q \in onStack : q \in Int /\ q > 0
  BY RegAssumption DEF CG!ParamBase
<1>3. \A k \in 0 .. n - 1 : k >= ParamRegCount => CG!ParamBase(k) \in onStack
  BY RegAssumption
<1> HIDE DEF onStack
<1>4. /\ DOMAIN x = {"preg", "mem", "outarg", "flags"}
      /\ x.preg \in [CG!Reg -> Value] /\ x.mem \in [onStack -> Word]
      /\ x.outarg = <<>> /\ x.flags = NoFlags
  BY <1>1
<1>5. \A q \in DOMAIN x.mem : q \in Int /\ x.mem[q] \in Value
  BY <1>2, <1>4 DEF Value
<1>6. x.flags \in Value \X Value BY <1>4 DEF NoFlags, Value
<1>7. \A a \in DOMAIN x.outarg : a \in Nat /\ x.outarg[a] \in Value BY <1>4
<1>8. IsMachine(x) BY <1>4, <1>5, <1>6, <1>7 DEF IsMachine
<1> QED BY <1>2, <1>3, <1>4, <1>8

LEMMA StartIsSound ==
  ASSUME NEW x, IsMachine(x), \A p \in DOMAIN x.mem : p > 0
  PROVE  Sound(CG!Start(x), Undefined)
<1> DEFINE s == CG!Start(x)
<1>1. /\ DOMAIN s = Members
      /\ s.queue = [j \in CG!Reg |-> j]
      /\ s.temp = [r \in CG!Reg |-> NoTemp]
      /\ s.reg = [t \in Temp |-> CG!NoReg]
      /\ s.base = [t \in Temp |-> 0]
      /\ s.spilled = [t \in Temp |-> FALSE]
      /\ s.count = 0
      /\ s.out = x
  BY DEF CG!Start, Members
<1> HIDE DEF s
<1>2. IsTables(s) BY <1>1 DEF IsTables, Members
<1>3. Slots(s)
  <2> SUFFICES ASSUME NEW t \in Temp
               PROVE /\ s.base[t] # 0 =>
                          \A u \in Temp : s.base[u] = s.base[t] => u = t
                     /\ s.base[t] < 0 => -8 * s.count <= s.base[t]
                     /\ s.spilled[t] => s.base[t] # 0
    BY DEF Slots
  <2>1. s.base[t] = 0 /\ ~s.spilled[t] BY <1>1
  <2> QED BY <2>1
<1>4. Written(s)
  <2>1. s.out.mem = x.mem BY <1>1
  <2> SUFFICES ASSUME NEW p \in DOMAIN x.mem, p < 0 PROVE FALSE
    BY <2>1 DEF Written
  <2>2. p \in Int BY DEF IsMachine
  <2> QED BY <2>2
<1>5. Agree(s)
  <2> SUFFICES ASSUME NEW y \in CG!Reg, NEW u \in Temp
               PROVE s.temp[y] = u <=> s.reg[u] = y
    BY DEF Agree
  <2>1. s.temp[y] = NoTemp /\ s.reg[u] = CG!NoReg BY <1>1
  <2>2. y # CG!NoReg BY RegAssumption DEF CG!Reg, CG!NoReg
  <2> QED BY <2>1, <2>2, TempAssumption
<1>6. IsQueue(s.queue) BY <1>1 DEF IsQueue
<1>7. Home(s, Undefined) BY DEF Home, Undefined
<1> QED BY <1>2, <1>3, <1>4, <1>5, <1>6, <1>7 DEF Sound, Ordered, s

LEMMA InitInv == ASSUME Init PROVE IInv
<1>1. PICK n \in 0 .. MaxParams :
        /\ params \in {p \in [0 .. n - 1 -> Temp] :
                         \A j, k \in 0 .. n - 1 : p[j] = p[k] => j = k}
        /\ \E x \in Entry(n) : cg = CG!Start(x)
  BY DEF Init
<1>2. PICK x \in Entry(n) : cg = CG!Start(x) BY <1>1
<1>3. n \in Nat BY BoundAssumption
<1>4. /\ IsMachine(x)
      /\ \A p \in DOMAIN x.mem : p > 0
      /\ \A k \in 0 .. n - 1 : k >= ParamRegCount => CG!ParamBase(k) \in DOMAIN x.mem
      /\ x.outarg = <<>>
  BY <1>3, EntryIsMachine
<1>5. /\ args = [k \in 0 .. MaxArgs - 1 |-> NoTemp] /\ arg_count = 0
      /\ max_arg_count = 0 /\ env = Undefined /\ actuals = <<>> /\ outer = <<>>
      /\ pc = "params" /\ position = 0 /\ i = 0 /\ quad = NoQuad /\ frame = 0
  BY DEF Init
<1>6. Known = Undefined BY <1>5 DEF Known
<1>7. Sound(cg, Known) BY <1>2, <1>4, <1>6, StartIsSound
<1>8. /\ cg.temp = [r \in CG!Reg |-> NoTemp]
      /\ cg.reg = [t \in Temp |-> CG!NoReg]
      /\ cg.base = [t \in Temp |-> 0]
      /\ cg.out = x
  BY <1>2 DEF CG!Start
<1>9. ControlOK
  BY <1>5, BoundAssumption DEF ControlOK, Undefined, Value
<1>10. ParamsOK
  <2>1. params \in [0 .. n - 1 -> Temp] /\ i \in 0 .. n BY <1>1, <1>3, <1>5
  <2>2. \A j, k \in DOMAIN params : params[j] = params[k] => j = k BY <1>1, <2>1
  <2>3. Unplaced BY <1>4, <1>5, <1>8, <2>1 DEF Unplaced
  <2> QED BY <2>1, <2>2, <2>3 DEF ParamsOK
<1>11. FlushOK /\ ReturnOK BY <1>5 DEF FlushOK, ReturnOK
<1>12. ArgsOK BY <1>5 DEF ArgsOK, Listed
<1>13. FrameOK BY <1>4, <1>5, <1>8 DEF FrameOK, m
<1> QED BY <1>7, <1>9, <1>10, <1>11, <1>12, <1>13 DEF IInv
-----------------------------------------------------------------------------
(* The quads that compute *)

LEMMA KnownType ==
  ASSUME IInv
  PROVE  Known \in [Temp -> Value]
BY DEF IInv, ControlOK, Known, Undefined, Value

LEMMA NextPosition ==
  ASSUME IInv, NEW op, IsQuad(op)
  PROVE  pc = "quads" /\ position' \in 0 .. MaxQuads
BY BoundAssumption DEF IInv, ControlOK, IsQuad

\* Arguments listed so far are as good after a step that leaves them alone.
LEMMA StillListed ==
  ASSUME Listed, calls' = calls
  PROVE  Listed'
BY DEF Listed, calls

\* The same for the parameters.
LEMMA StillPlaced ==
  ASSUME ParamsOK, params' = params, pc' # "params"
  PROVE  ParamsOK'
BY DEF ParamsOK

\* A step within straight-line code: the tables stay sound for the values
\* known next, and the arguments in their places.
LEMMA QuadKeeps ==
  ASSUME IInv, pc = "quads", UNCHANGED <<calls, params, pc, i, quad, frame>>,
         position' \in 0 .. MaxQuads, env' \in [Temp -> Value],
         Sound(cg', Known'), cg'.out.outarg = cg.out.outarg
  PROVE  IInv'
<1>1. ControlOK' BY DEF IInv, ControlOK, calls
<1>2. ParamsOK' BY StillPlaced DEF IInv
<1>3. FlushOK' /\ ReturnOK' BY DEF FlushOK, ReturnOK
<1>4. ArgsOK' BY StillListed DEF IInv, ArgsOK
<1>5. FrameOK' BY DEF IInv, FrameOK, m, calls
<1> QED BY <1>1, <1>2, <1>3, <1>4, <1>5 DEF IInv

LEMMA ComputeKeeps ==
  ASSUME IInv, pc = "quads", position' \in 0 .. MaxQuads,
         NEW t \in Temp, NEW next, NEW value \in Value, Compute(t, next, value),
         NEW v, Computed(cg, next, Known, t, v),
         Sure => v = value
  PROVE  IInv' /\ Kept
<1> DEFINE g == [Known EXCEPT ![t] = v]
<1>1. /\ cg' = next
      /\ env' = [env EXCEPT ![t] = value]
      /\ UNCHANGED <<calls, params, pc, i, quad, frame>>
  BY DEF Compute
<1>2. Sound(next, g) /\ Step(cg, next) BY DEF Computed
<1>3. env \in [Temp -> Value] /\ env' \in [Temp -> Value]
  BY <1>1 DEF IInv, ControlOK
<1>4. \A u \in Temp : Known'[u] = Undef \/ Known'[u] = g[u]
  <2>1. CASE ~Sure BY <2>1 DEF Known, Undefined
  <2>2. CASE Sure
    <3>1. Known = env /\ Known' = env' BY <1>1, <2>2 DEF Known
    <3> QED BY <1>1, <1>3, <2>2, <3>1
  <2> QED BY <2>1, <2>2
<1> HIDE DEF g
<1>5. Sound(cg', Known') BY <1>1, <1>2, <1>4, Weaken
<1>6. IInv' BY <1>1, <1>2, <1>3, <1>5, QuadKeeps DEF Step
<1> QED BY <1>1, <1>2, <1>6, KeepsIsKept DEF Step

LEMMA MovImKeeps ==
  ASSUME IInv, NEW t \in Temp, NEW value \in Word, MovIm(t, value)
  PROVE  IInv' /\ Kept
<1>1. pc = "quads" /\ position' \in 0 .. MaxQuads
  BY NextPosition DEF MovIm
<1>2. Known \in [Temp -> Value] /\ Sound(cg, Known) BY KnownType DEF IInv
<1>3. Computed(cg, CG!MovIm(cg, t, value), Known, t, value) BY <1>2, MovImComputes
<1>4. value \in Value BY DEF Value
<1>5. Compute(t, CG!MovIm(cg, t, value), value) BY DEF MovIm
<1> QED BY <1>1, <1>3, <1>4, <1>5, ComputeKeeps

LEMMA MovKeeps ==
  ASSUME IInv, NEW t \in Temp, NEW left \in Temp, Mov(t, left)
  PROVE  IInv' /\ Kept
<1> DEFINE next == CG!Mov(cg, t, left)
<1>1. pc = "quads" /\ position' \in 0 .. MaxQuads
  BY NextPosition DEF Mov
<1>2. Known \in [Temp -> Value] /\ Sound(cg, Known) BY KnownType DEF IInv
<1>3. /\ Computed(cg, next, Known, t, Undef)
      /\ t # left => Computed(cg, next, Known, t, Known[left])
  BY <1>2, MovComputes
<1>4. env[left] \in Value BY DEF IInv, ControlOK
<1>5. Compute(t, next, env[left]) BY DEF Mov
<1> HIDE DEF next
<1>6. CASE ~Sure
  BY <1>1, <1>3, <1>4, <1>5, <1>6, ComputeKeeps
<1>7. CASE Sure
  <2>1. t # left BY <1>7 DEF Mov, Sure
  <2>2. Known[left] = env[left] BY <1>1, <1>7 DEF Known
  <2> QED BY <1>1, <1>3, <1>4, <1>5, <2>1, <2>2, ComputeKeeps
<1> QED BY <1>6, <1>7

\* An operator of known values is the operator of the values.
LEMMA LiftKnown ==
  ASSUME IInv, pc = "quads", NEW op \in Op, NEW left \in Temp, NEW right \in Temp
  PROVE  /\ Lift(op, env[left], env[right]) \in Value
         /\ Sure =>
              Lift(op, Known[left], Known[right]) = Lift(op, env[left], env[right])
<1>1. env[left] \in Value /\ env[right] \in Value BY DEF IInv, ControlOK
<1>2. Lift(op, env[left], env[right]) \in Value
  BY <1>1, MeaningAssumption DEF Lift, Value
<1> QED BY <1>2 DEF Known

LEMMA UnaryKeeps ==
  ASSUME IInv, NEW t \in Temp, NEW left \in Temp, NEW op \in UnaryOp,
         Unary(op, t, left)
  PROVE  IInv' /\ Kept
<1> DEFINE next == CG!Unary(cg, op, t, left)
           v == Lift(op, Known[left], Known[left])
           value == Lift(op, env[left], env[left])
<1>1. pc = "quads" /\ position' \in 0 .. MaxQuads
  BY NextPosition DEF Unary
<1>2. Known \in [Temp -> Value] /\ Sound(cg, Known) BY KnownType DEF IInv
<1>3. t # left /\ Compute(t, next, value) BY DEF Unary
<1>4. Computed(cg, next, Known, t, v) BY <1>2, <1>3, UnaryComputes
<1>5. value \in Value /\ (Sure => v = value)
  BY <1>1, LiftKnown DEF Op
<1> HIDE DEF next, v, value
<1> QED BY <1>1, <1>3, <1>4, <1>5, ComputeKeeps

LEMMA BinaryKeeps ==
  ASSUME IInv, NEW t \in Temp, NEW left \in Temp, NEW right \in Temp,
         NEW op \in Op \ UnaryOp, Binary(op, t, left, right)
  PROVE  IInv' /\ Kept
<1> DEFINE v == Lift(op, Known[left], Known[right])
           value == Lift(op, env[left], env[right])
           next == CASE op \in AddOp  -> CG!Additive(cg, op, t, left, right)
                     [] op \in CompOp -> CG!Compare(cg, op, t, left, right)
                     [] OTHER         -> CG!Multiplicative(cg, op, t, left, right)
<1>1. pc = "quads" /\ position' \in 0 .. MaxQuads
  BY NextPosition DEF Binary
<1>2. Known \in [Temp -> Value] /\ Sound(cg, Known) BY KnownType DEF IInv
<1>3. t \notin {left, right} /\ Fresh(t) BY DEF Binary
<1>6. Compute(t, next, value) BY DEF Binary
<1>4. value \in Value /\ (Sure => v = value)
  BY <1>1, LiftKnown
<1>5. Computed(cg, next, Known, t, v)
  <2>1. CASE op \in AddOp
    <3>1. next = CG!Additive(cg, op, t, left, right) BY <2>1 DEF AddOp, CompOp
    <3> QED BY <1>2, <1>3, <2>1, <3>1, AdditiveComputes
  <2>2. CASE op \in CompOp
    <3>1. next = CG!Compare(cg, op, t, left, right)
      BY <2>2 DEF AddOp, CompOp
    <3> QED BY <1>2, <1>3, <2>2, <3>1, CompareComputes
  <2>3. CASE op \in MulOp \cup DivOp
    <3>1. next = CG!Multiplicative(cg, op, t, left, right)
      BY <2>3 DEF AddOp, CompOp, MulOp, DivOp
    <3>2. cg.reg[t] = CG!NoReg BY <1>3 DEF Fresh
    <3> QED BY <1>2, <1>3, <2>3, <3>1, <3>2, MultiplicativeComputes
  <2> QED BY <2>1, <2>2, <2>3 DEF Op
<1> HIDE DEF next, v, value
<1> QED BY <1>1, <1>4, <1>5, <1>6, ComputeKeeps
-----------------------------------------------------------------------------
(* Parameters *)

LEMMA PlaceParamKeeps ==
  ASSUME IInv, PlaceParam
  PROVE  IInv' /\ Kept
<1> DEFINE t == params[i]
           v == Passed(i)
           new == CG!PlaceParam(cg, i, t)
           g == [Known EXCEPT ![t] = v]
<1>1. /\ pc = "params" /\ i \in DOMAIN params
      /\ cg' = new /\ env' = [env EXCEPT ![t] = v] /\ i' = i + 1
      /\ UNCHANGED <<calls, params, pc, position, quad, frame>>
  BY DEF PlaceParam
<1>2. PICK n \in 0 .. MaxParams : params \in [0 .. n - 1 -> Temp] /\ i \in 0 .. n
  BY <1>1 DEF IInv, ParamsOK
<1>3. n \in Nat /\ i \in 0 .. n - 1 /\ i \in Nat /\ t \in Temp
  BY <1>1, <1>2, BoundAssumption
<1>4. Unplaced /\ \A j, k \in DOMAIN params : params[j] = params[k] => j = k
  BY <1>1 DEF IInv, ParamsOK
<1>5. /\ Known \in [Temp -> Value] /\ Sound(cg, Known)
      /\ IsTables(cg) /\ IsMachine(cg.out)
  BY KnownType DEF IInv, Sound, Ordered, IsTables
<1>6. /\ cg.reg[t] = CG!NoReg
      /\ cg.base[t] = 0
      /\ i >= ParamRegCount => CG!ParamBase(i) \in DOMAIN cg.out.mem
  BY <1>1, <1>3, <1>4 DEF Unplaced
<1>7. \A u \in Temp : cg.base[u] # CG!ParamBase(i)
  <2> SUFFICES ASSUME NEW u \in Temp, cg.base[u] = CG!ParamBase(i) PROVE FALSE
    OBVIOUS
  <2>1. cg.base[u] # 0 BY <1>3 DEF CG!ParamBase
  <2>2. PICK k \in DOMAIN params : k < i /\ cg.base[u] = CG!ParamBase(k)
    BY <1>4, <2>1 DEF Unplaced
  <2>3. k \in Nat BY <1>2, <1>3
  <2> QED BY <1>3, <2>2, <2>3 DEF CG!ParamBase
<1>8. HasParam(cg, i, v)
  <2>1. CASE i < ParamRegCount
    <3>1. CG!ParamReg(i) \in CG!Reg BY <1>3, <2>1, ParamRegister
    <3>2. ASSUME cg.temp[CG!ParamReg(i)] # NoTemp PROVE FALSE
      <4>1. PICK k \in DOMAIN params : k < i /\ CG!ParamReg(i) = CG!ParamReg(k)
        BY <1>4, <3>1, <3>2 DEF Unplaced
      <4>2. k \in Nat BY <1>2, <1>3
      <4> QED BY <1>3, <4>1, <4>2 DEF CG!ParamReg
    <3> QED BY <2>1, <3>2 DEF HasParam, Passed, m
  <2>2. CASE ~(i < ParamRegCount)
    <3>1. i >= ParamRegCount BY <1>3, <2>2, RegAssumption
    <3> QED BY <1>6, <2>2, <3>1 DEF HasParam, Passed, m
  <2> QED BY <2>1, <2>2
<1>9. v \in Value
  <2>1. CASE i < ParamRegCount
    BY <1>3, <1>5, <2>1, ParamRegister DEF Passed, m, IsMachine
  <2>2. CASE ~(i < ParamRegCount)
    BY <1>5, <1>8, <2>2 DEF Passed, m, IsMachine, HasParam
  <2> QED BY <2>1, <2>2
<1> HIDE DEF t, v
<1>10. Sound(new, g) /\ Placed(cg, new, t, i)
  BY <1>3, <1>5, <1>6, <1>7, <1>8, PlacesParam
<1> HIDE DEF new, g
<1>11. /\ KeepsSlots(cg, new)
       /\ new.out = cg.out
       /\ new.base = [cg.base EXCEPT ![t] = CG!ParamBase(i)]
       /\ \A u \in Temp \ {t} : new.reg[u] = cg.reg[u]
       /\ \A r \in CG!Reg : new.temp[r] = cg.temp[r]
                              \/ (i < ParamRegCount /\ r = CG!ParamReg(i))
  BY <1>10 DEF Placed
<1>12. env \in [Temp -> Value] /\ env' \in [Temp -> Value]
  BY <1>1, <1>9 DEF IInv, ControlOK
<1>13. Sound(cg', Known')
  <2>1. CASE ~Sure
    <3>1. \A u \in Temp : Known'[u] = Undef BY <2>1 DEF Known, Undefined
    <3> QED BY <1>1, <1>10, <3>1, Weaken
  <2>2. CASE Sure
    <3>1. Known' = g BY <1>1, <1>12, <2>2 DEF Known, g
    <3> QED BY <1>1, <1>10, <3>1
  <2> QED BY <2>1, <2>2
<1>14. ControlOK' BY <1>1, <1>3, <1>12 DEF IInv, ControlOK, calls
<1>15. Unplaced'
  <2>1. ASSUME NEW k \in DOMAIN params, k >= i + 1
        PROVE  /\ new.reg[params[k]] = CG!NoReg
               /\ new.base[params[k]] = 0
               /\ k >= ParamRegCount => CG!ParamBase(k) \in DOMAIN new.out.mem
    <3>1. k \in Nat /\ k >= i /\ k # i BY <1>2, <1>3, <2>1
    <3>2. /\ cg.reg[params[k]] = CG!NoReg
          /\ cg.base[params[k]] = 0
          /\ k >= ParamRegCount => CG!ParamBase(k) \in DOMAIN cg.out.mem
      BY <1>4, <3>1 DEF Unplaced
    <3>3. params[k] \in Temp \ {t} BY <1>1, <1>2, <1>4, <3>1 DEF t
    <3>4. cg.base \in [Temp -> Int] BY <1>5 DEF IsTables
    <3> QED BY <1>11, <3>2, <3>3, <3>4
  <2>2. ASSUME NEW u \in Temp, new.base[u] # 0
        PROVE  \E k \in DOMAIN params : k < i + 1 /\ new.base[u] = CG!ParamBase(k)
    <3>1. cg.base \in [Temp -> Int] BY <1>5 DEF IsTables
    <3>2. CASE u = t
      <4>1. new.base[u] = CG!ParamBase(i) BY <1>3, <1>11, <3>1, <3>2
      <4> QED BY <1>1, <1>3, <4>1
    <3>3. CASE u # t
      <4>1. new.base[u] = cg.base[u] BY <1>11, <3>1, <3>3
      <4>2. PICK k \in DOMAIN params : k < i /\ cg.base[u] = CG!ParamBase(k)
        BY <1>4, <2>2, <4>1 DEF Unplaced
      <4>3. k \in Nat BY <1>2, <1>3
      <4>4. k < i + 1 BY <1>3, <4>2, <4>3
      <4> QED BY <4>1, <4>2, <4>4
    <3> QED BY <3>2, <3>3
  <2>3. ASSUME NEW r \in CG!Reg, new.temp[r] # NoTemp
        PROVE  \E k \in DOMAIN params :
                 k < i + 1 /\ k < ParamRegCount /\ r = CG!ParamReg(k)
    <3>1. CASE i < ParamRegCount /\ r = CG!ParamReg(i)
      BY <1>1, <1>3, <3>1
    <3>2. CASE new.temp[r] = cg.temp[r]
      <4>1. PICK k \in DOMAIN params :
              k < i /\ k < ParamRegCount /\ r = CG!ParamReg(k)
        BY <1>4, <2>3, <3>2 DEF Unplaced
      <4>2. k \in Nat BY <1>2, <1>3
      <4>3. k < i + 1 BY <1>3, <4>1, <4>2
      <4> QED BY <4>1, <4>3
    <3> QED BY <1>11, <3>1, <3>2
  <2> QED BY <1>1, <2>1, <2>2, <2>3 DEF Unplaced
<1>16. ParamsOK'
  <2>1. i' \in 0 .. n BY <1>1, <1>2, <1>3
  <2> QED BY <1>1, <1>2, <1>4, <1>15, <2>1 DEF ParamsOK
<1>17. FlushOK' /\ ReturnOK' BY <1>1 DEF FlushOK, ReturnOK
<1>18. ArgsOK'
  <2>1. Listed' BY <1>1, StillListed DEF IInv, ArgsOK
  <2> QED BY <1>1, <2>1 DEF ArgsOK
<1>19. FrameOK' BY <1>1, <1>11 DEF IInv, FrameOK, m, calls
<1>20. Kept
  <2>1. CG!ParamBase(i) \in Places BY <1>1 DEF Places
  <2>2. cg.base \in [Temp -> Int] BY <1>5 DEF IsTables
  <2>3. ASSUME NEW u \in Temp, new.base[u] > 0
        PROVE  new.base[u] \in Above(cg) \cup Places
    <3>1. CASE u = t BY <1>3, <1>11, <2>1, <2>2, <3>1
    <3>2. CASE u # t
      <4>1. new.base[u] = cg.base[u] BY <1>11, <2>2, <3>2
      <4> QED BY <2>3, <4>1 DEF Above
    <3> QED BY <3>1, <3>2
  <2>4. Above(new) \subseteq Above(cg) \cup Places BY <1>11, <2>3 DEF Above
  <2> QED BY <1>1, <1>11, <2>4 DEF Kept
<1> QED BY <1>13, <1>14, <1>16, <1>17, <1>18, <1>19, <1>20 DEF IInv

LEMMA ParamsPlacedKeeps ==
  ASSUME IInv, ParamsPlaced
  PROVE  IInv' /\ Kept
<1>1. /\ pc = "params" /\ pc' = "quads" /\ i' = 0
      /\ UNCHANGED <<calls, cg, env, params, position, quad, frame>>
  BY DEF ParamsPlaced
<1>2. Known' = Known BY <1>1 DEF Known, Undefined
<1>3. Sound(cg', Known') BY <1>1, <1>2 DEF IInv
<1>4. ControlOK' BY <1>1 DEF IInv, ControlOK, calls
<1>5. ParamsOK' BY <1>1, StillPlaced DEF IInv
<1>6. FlushOK' /\ ReturnOK' BY <1>1 DEF FlushOK, ReturnOK
<1>7. ArgsOK'
  <2>1. Listed' BY <1>1, StillListed DEF IInv, ArgsOK
  <2> QED BY <1>1, <2>1 DEF ArgsOK
<1>8. FrameOK' BY <1>1 DEF IInv, FrameOK, m, calls
<1>9. Kept BY <1>1, StayIsKept
<1> QED BY <1>3, <1>4, <1>5, <1>6, <1>7, <1>8, <1>9 DEF IInv
-----------------------------------------------------------------------------
(* Ends of basic blocks *)

LEMMA BeginKeeps ==
  ASSUME IInv, NEW q, q.op \in {"JMP", "JZ", "LABEL", "CALL"},
         q.op = "CALL" => q.target \in Temp,
         NEW next, Begin(q, next), Sound(next, Known), Step(cg, next),
         q.op = "JZ" /\ Known[q.left] # Undef =>
           next.out.flags = <<Known[q.left], 0>>
  PROVE  IInv' /\ Kept
<1>1. /\ pc = "quads" /\ position' \in 0 .. MaxQuads
      /\ pc' = "flush" /\ i' = 0 /\ quad' = q /\ cg' = next
      /\ UNCHANGED <<calls, env, params, frame>>
  BY NextPosition DEF Begin
<1>2. Known' = Known BY <1>1 DEF Known, Undefined
<1>3. ControlOK' BY <1>1 DEF IInv, ControlOK, calls
<1>4. ParamsOK' BY <1>1, StillPlaced DEF IInv
<1>5. Flushed'
  <2>1. \A r \in CG!Reg : ~(r < 0) BY RegAssumption DEF CG!Reg
  <2> QED BY <1>1, <2>1, RegAssumption DEF Flushed
<1>6. Tested' BY <1>1, <1>2 DEF Tested, m
<1>7. FlushOK' BY <1>1, <1>5, <1>6 DEF FlushOK
<1>8. ReturnOK' BY <1>1 DEF ReturnOK
<1>9. ArgsOK'
  <2>1. Listed' BY <1>1, StillListed DEF IInv, ArgsOK
  <2> QED BY <1>1, <2>1 DEF ArgsOK
<1>10. FrameOK' BY <1>1 DEF IInv, FrameOK, m, calls, Step
<1>11. Kept BY <1>1, KeepsIsKept DEF Step
<1> QED
  BY <1>1, <1>2, <1>3, <1>4, <1>7, <1>8, <1>9, <1>10, <1>11 DEF IInv

LEMMA JumpKeeps ==
  ASSUME IInv, Jump
  PROVE  IInv' /\ Kept
<1>1. Begin([op |-> "JMP"], cg) BY DEF Jump
<1>2. Sound(cg, Known) /\ Step(cg, cg) BY KeepsItself DEF IInv, Step
<1> QED BY <1>1, <1>2, BeginKeeps

LEMMA LabelKeeps ==
  ASSUME IInv, Label
  PROVE  IInv' /\ Kept
<1>1. Begin([op |-> "LABEL"], cg) BY DEF Label
<1>2. Sound(cg, Known) /\ Step(cg, cg) BY KeepsItself DEF IInv, Step
<1> QED BY <1>1, <1>2, BeginKeeps

LEMMA CallKeeps ==
  ASSUME IInv, NEW t \in Temp, Call(t)
  PROVE  IInv' /\ Kept
<1>1. Begin([op |-> "CALL", target |-> t], cg) BY DEF Call
<1>2. Sound(cg, Known) /\ Step(cg, cg) BY KeepsItself DEF IInv, Step
<1> QED BY <1>1, <1>2, BeginKeeps

LEMMA BranchKeeps ==
  ASSUME IInv, NEW left \in Temp, Branch(left)
  PROVE  IInv' /\ Kept
<1> DEFINE next == CG!Test(cg, left)
<1>1. Begin([op |-> "JZ", left |-> left], next) BY DEF Branch
<1>2. Sound(cg, Known) BY DEF IInv
<1>3. /\ Sound(next, Known)
      /\ Step(cg, next)
      /\ Known[left] # Undef => next.out.flags = <<Known[left], 0>>
  BY <1>2, TestCompares
<1> HIDE DEF next
<1> QED BY <1>1, <1>3, BeginKeeps

LEMMA EndBasicBlockKeeps ==
  ASSUME IInv, EndBasicBlock
  PROVE  IInv' /\ Kept
<1> DEFINE new == CG!EndBasicBlockStep(cg, i)
<1>1. /\ pc = "flush" /\ i < RegCount /\ cg' = new /\ i' = i + 1
      /\ UNCHANGED <<calls, env, params, pc, position, quad, frame>>
  BY DEF EndBasicBlock
<1>2. /\ Sound(cg, Known) /\ Flushed /\ Tested
      /\ quad.op \in {"JMP", "JZ", "LABEL", "CALL"}
      /\ quad.op = "CALL" => quad.target \in Temp
  BY <1>1 DEF IInv, FlushOK
<1>3. i \in CG!Reg BY <1>1, <1>2, RegAssumption DEF Flushed, CG!Reg
<1>4. /\ Sound(new, Known)
      /\ Step(cg, new)
      /\ new.temp = cg.temp
      /\ new.out.flags = cg.out.flags
      /\ \A u \in Temp : Known[u] # Undef /\ InSlot(cg, Known, u) =>
                           InSlot(new, Known, u)
      /\ \A u \in Temp : Known[u] # Undef /\ u = cg.temp[i] => InSlot(new, Known, u)
  BY <1>2, <1>3, StepEndsBlock
<1> HIDE DEF new
<1>5. Known' = Known BY <1>1 DEF Known, Undefined
<1>6. ControlOK' BY <1>1, <1>3 DEF IInv, ControlOK, calls, CG!Reg
<1>7. ParamsOK' BY <1>1, StillPlaced DEF IInv
<1>8. Flushed'
  <2>1. i + 1 \in 0 .. RegCount BY <1>3, RegAssumption DEF CG!Reg
  <2>2. ASSUME NEW t \in Temp, NEW r \in CG!Reg,
               r < i + 1, new.temp[r] = t, Known[t] # Undef
        PROVE  InSlot(new, Known, t)
    <3>1. r = i \/ r < i BY <1>3, <2>2, RegAssumption DEF CG!Reg
    <3>2. CASE r = i BY <1>4, <2>2, <3>2
    <3>3. CASE r < i
      <4>1. InSlot(cg, Known, t) BY <1>2, <1>4, <2>2, <3>3 DEF Flushed
      <4> QED BY <1>4, <2>2, <4>1
    <3> QED BY <3>1, <3>2, <3>3
  <2> QED BY <1>1, <1>5, <2>1, <2>2 DEF Flushed
<1>9. Tested' BY <1>1, <1>2, <1>4, <1>5 DEF Tested, m
<1>10. FlushOK' BY <1>1, <1>2, <1>8, <1>9 DEF FlushOK
<1>11. ReturnOK' BY <1>1 DEF ReturnOK
<1>12. ArgsOK'
  <2>1. Listed' BY <1>1, StillListed DEF IInv, ArgsOK
  <2> QED BY <1>1, <2>1 DEF ArgsOK
<1>13. FrameOK' BY <1>1, <1>4 DEF IInv, FrameOK, m, calls, Step
<1>14. Kept BY <1>1, <1>4, KeepsIsKept DEF Step
<1> QED
  BY <1>1, <1>4, <1>5, <1>6, <1>7, <1>10, <1>11, <1>12, <1>13, <1>14 DEF IInv

\* When the loop is through, every known value is in its slot.
LEMMA BlockFlushed ==
  ASSUME IInv, pc = "flush", i = RegCount
  PROVE  AllInSlots(cg, Known)
<1> SUFFICES ASSUME NEW t \in Temp, Known[t] # Undef
             PROVE  InSlot(cg, Known, t)
  BY DEF AllInSlots
<1>1. Flushed /\ Sound(cg, Known) BY DEF IInv, FlushOK
<1>2. cg.reg[t] \in CG!Reg \cup {CG!NoReg} BY <1>1 DEF Sound, Ordered, IsTables
<1>3. CASE cg.reg[t] = CG!NoReg BY <1>1, <1>3 DEF Sound, Home
<1>4. CASE cg.reg[t] # CG!NoReg
  <2>1. cg.reg[t] \in CG!Reg BY <1>2, <1>4
  <2>2. cg.temp[cg.reg[t]] = t BY <1>1, <2>1 DEF Sound, Agree
  <2>3. cg.reg[t] < i BY <2>1, RegAssumption DEF CG!Reg
  <2> QED BY <1>1, <2>1, <2>2, <2>3 DEF Flushed
<1> QED BY <1>3, <1>4

\* The next block begins.
LEMMA NextBlockKeeps ==
  ASSUME IInv, pc = "flush", NextQuad,
         UNCHANGED <<calls, params, position, frame>>,
         env' \in [Temp -> Value], Sound(cg', Known'), Kept,
         cg'.out.outarg = cg.out.outarg
  PROVE  IInv' /\ Kept
<1>1. pc' = "quads" /\ i' = 0 BY DEF NextQuad
<1>2. ControlOK' BY <1>1 DEF IInv, ControlOK, calls
<1>3. ParamsOK' BY <1>1, StillPlaced DEF IInv
<1>4. FlushOK' /\ ReturnOK' BY <1>1 DEF FlushOK, ReturnOK
<1>5. ArgsOK'
  <2>1. Listed' BY StillListed DEF IInv, ArgsOK
  <2> QED BY <1>1, <2>1 DEF ArgsOK
<1>6. FrameOK' BY <1>1 DEF IInv, FrameOK, m, calls
<1> QED BY <1>2, <1>3, <1>4, <1>5, <1>6 DEF IInv

LEMMA JumpEndKeeps ==
  ASSUME IInv, JumpEnd
  PROVE  IInv' /\ Kept
<1> DEFINE new == CG!BeginBasicBlock(cg)
<1>1. /\ pc = "flush" /\ cg' = new /\ env' = Undefined /\ NextQuad
      /\ UNCHANGED <<calls, params, position, frame>>
  BY DEF JumpEnd, BlockEnded
<1>2. Ordered(cg) BY DEF IInv, Sound
<1>3. AllInSlots(cg, Undefined) BY DEF AllInSlots, Undefined
<1>4. /\ Sound(new, Undefined)
      /\ AllInSlots(new, Undefined)
      /\ Step(cg, new)
      /\ new.out = cg.out
      /\ new.base = cg.base
      /\ \A t \in Temp : new.reg[t] = CG!NoReg
  BY <1>2, <1>3, BeginsBlock
<1> HIDE DEF new
<1>5. Known' = Undefined BY <1>1 DEF Known, Undefined
<1>6. Undefined \in [Temp -> Value] BY DEF Undefined, Value
<1>7. Kept BY <1>1, <1>4, KeepsIsKept DEF Step
<1> QED BY <1>1, <1>4, <1>5, <1>6, <1>7, NextBlockKeeps

LEMMA BranchEndKeeps ==
  ASSUME IInv, BranchEnd
  PROVE  IInv' /\ Kept
<1> DEFINE new == CG!BeginBasicBlock(cg)
<1>1. /\ pc = "flush" /\ i = RegCount /\ cg' = new /\ NextQuad
      /\ UNCHANGED <<calls, env, params, position, frame>>
  BY DEF BranchEnd, BlockEnded
<1>2. Ordered(cg) BY DEF IInv, Sound
<1>3. AllInSlots(cg, Known) BY <1>1, BlockFlushed
<1>4. /\ Sound(new, Known)
      /\ AllInSlots(new, Known)
      /\ Step(cg, new)
      /\ new.out = cg.out
      /\ new.base = cg.base
      /\ \A t \in Temp : new.reg[t] = CG!NoReg
  BY <1>2, <1>3, BeginsBlock
<1> HIDE DEF new
<1>5. Known' = Known BY <1>1 DEF Known, Undefined, NextQuad
<1>6. env' \in [Temp -> Value] BY <1>1 DEF IInv, ControlOK
<1>7. Kept BY <1>1, <1>4, KeepsIsKept DEF Step
<1> QED BY <1>1, <1>4, <1>5, <1>6, <1>7, NextBlockKeeps
LEMMA LabelEndKeeps ==
  ASSUME IInv, LabelEnd
  PROVE  IInv' /\ Kept
<1>1. /\ pc = "flush" /\ NextQuad
      /\ UNCHANGED <<calls, params, position, frame>>
  BY DEF LabelEnd, BlockEnded
<1>2. PICK e \in [Temp -> Value] :
        /\ \A t \in Temp : e[t] # Undef => cg.spilled[t] \/ "late" \in Quirks
        /\ env' = e
        /\ cg' = CG!BeginBasicBlock([cg EXCEPT !.out =
                   [m EXCEPT !.preg = Unknown,
                             !.flags = NoFlags,
                             !.mem = SlotsFilled(e)]])
  BY DEF LabelEnd
<1> DEFINE x == [m EXCEPT !.preg = Unknown, !.flags = NoFlags, !.mem = SlotsFilled(e)]
           s == [cg EXCEPT !.out = x]
           new == CG!BeginBasicBlock(s)
<1>3. /\ Ordered(cg) /\ IsTables(cg) /\ Slots(cg) /\ IsMachine(m)
      /\ DOMAIN cg = Members
  BY DEF IInv, Sound, Ordered, IsTables, m, Members
<1>4. \A t \in Temp : cg.spilled[t] =>
        (CHOOSE u \in Temp : cg.base[u] = cg.base[t]) = t
  <2> SUFFICES ASSUME NEW t \in Temp, cg.spilled[t]
               PROVE  (CHOOSE u \in Temp : cg.base[u] = cg.base[t]) = t
    OBVIOUS
  <2>1. cg.base[t] # 0 BY <1>3 DEF Slots
  <2>2. \A u \in Temp : cg.base[u] = cg.base[t] => u = t BY <1>3, <2>1 DEF Slots
  <2>3. \E u \in Temp : cg.base[u] = cg.base[t] OBVIOUS
  <2> QED BY <2>2, <2>3
<1>5. /\ DOMAIN SlotsFilled(e) = {cg.base[t] : t \in {u \in Temp : cg.spilled[u]}}
      /\ \A t \in Temp : cg.spilled[t] => SlotsFilled(e)[cg.base[t]] = e[t]
  <2>1. \A p \in {cg.base[t] : t \in {u \in Temp : cg.spilled[u]}} :
          SlotsFilled(e)[p] = e[CHOOSE t \in Temp : cg.base[t] = p]
    BY DEF SlotsFilled
  <2>2. DOMAIN SlotsFilled(e) = {cg.base[t] : t \in {u \in Temp : cg.spilled[u]}}
    BY DEF SlotsFilled
  <2>3. ASSUME NEW t \in Temp, cg.spilled[t]
        PROVE  SlotsFilled(e)[cg.base[t]] = e[t]
    <3>1. SlotsFilled(e)[cg.base[t]] = e[CHOOSE u \in Temp : cg.base[u] = cg.base[t]]
      BY <2>1, <2>3
    <3>2. (CHOOSE u \in Temp : cg.base[u] = cg.base[t]) = t BY <1>4, <2>3
    <3> QED BY <3>1, <3>2
  <2> QED BY <2>2, <2>3
<1>6. \A p \in DOMAIN SlotsFilled(e) :
        \E t \in Temp : cg.spilled[t] /\ p = cg.base[t] /\ SlotsFilled(e)[p] = e[t]
  BY <1>5
<1>7. /\ DOMAIN x = {"preg", "mem", "outarg", "flags"}
      /\ x.preg = Unknown /\ x.flags = NoFlags /\ x.mem = SlotsFilled(e)
      /\ x.outarg = m.outarg
  BY <1>3 DEF IsMachine
<1> HIDE DEF x
<1>8. IsMachine(x)
  <2>1. Unknown \in [CG!Reg -> Value] BY DEF Unknown, Value
  <2>2. NoFlags \in Value \X Value BY DEF NoFlags, Value
  <2>3. \A p \in DOMAIN x.mem : p \in Int /\ x.mem[p] \in Value
    BY <1>3, <1>6, <1>7 DEF IsTables
  <2>4. \A a \in DOMAIN x.outarg : a \in Nat /\ x.outarg[a] \in Value
    BY <1>3, <1>7 DEF IsMachine
  <2> QED BY <1>7, <2>1, <2>2, <2>3, <2>4 DEF IsMachine
<1>9. /\ DOMAIN s = Members
      /\ s.queue = cg.queue /\ s.temp = cg.temp /\ s.reg = cg.reg
      /\ s.base = cg.base /\ s.spilled = cg.spilled /\ s.count = cg.count
      /\ s.out = x
  BY <1>3 DEF Members
<1> HIDE DEF s
<1>10. Ordered(s)
  <2>1. IsTables(s) BY <1>3, <1>8, <1>9 DEF IsTables, Members
  <2>2. Slots(s) BY <1>3, <1>9, SameSlots
  <2>3. Written(s)
    <3> SUFFICES ASSUME NEW p \in DOMAIN s.out.mem, p < 0
                 PROVE  -8 * s.count <= p
      BY DEF Written
    <3>1. PICK t \in Temp : p = cg.base[t] BY <1>6, <1>7, <1>9
    <3> QED BY <1>3, <1>9, <3>1 DEF Slots
  <2> QED BY <2>1, <2>2, <2>3 DEF Ordered
<1> DEFINE g == IF Sure THEN e ELSE Undefined
<1>11. g \in [Temp -> Value] /\ AllInSlots(s, g)
  <2>0. g \in [Temp -> Value] BY DEF Undefined, Value
  <2> SUFFICES ASSUME NEW t \in Temp, g[t] # Undef PROVE InSlot(s, g, t)
    BY <2>0 DEF AllInSlots
  <2>4. Sure /\ g = e BY DEF Undefined
  <2>1. cg.spilled[t] BY <1>2, <2>4 DEF Sure
  <2>2. cg.base[t] \in DOMAIN SlotsFilled(e) BY <1>5, <2>1
  <2>3. At(s.out.mem, s.base[t]) = e[t]
    BY <1>5, <1>7, <1>9, <2>1, <2>2 DEF At
  <2> QED BY <1>9, <2>1, <2>3, <2>4 DEF InSlot
<1> HIDE DEF g
<1>12. /\ Sound(new, g)
       /\ AllInSlots(new, g)
       /\ Step(s, new)
       /\ new.out = s.out
       /\ new.base = s.base
       /\ \A t \in Temp : new.reg[t] = CG!NoReg
  BY <1>10, <1>11, BeginsBlock
<1>13. cg' = new BY <1>2 DEF s, x
<1> HIDE DEF new
<1>14. Sound(cg', Known')
  <2>1. \A t \in Temp : Known'[t] = Undef \/ Known'[t] = g[t]
    BY <1>1, <1>2 DEF Known, Undefined, NextQuad, g
  <2> QED BY <1>12, <1>13, <2>1, Weaken
<1>15. Kept
  <2>1. ASSUME NEW p \in Above(s) PROVE p \in Above(cg)
    <3>1. CASE p \in DOMAIN s.out.mem /\ p >= 0
      <4>1. PICK t \in Temp : cg.spilled[t] /\ p = cg.base[t]
        BY <1>6, <1>7, <1>9, <3>1
      <4>2. cg.base[t] # 0 BY <1>3, <4>1 DEF Slots
      <4>3. cg.base[t] \in Int BY <1>3 DEF IsTables
      <4> QED BY <3>1, <4>1, <4>2, <4>3 DEF Above
    <3>2. CASE \E u \in Temp : s.base[u] > 0 /\ p = s.base[u]
      BY <1>9, <3>2 DEF Above
    <3> QED BY <2>1, <3>1, <3>2 DEF Above
  <2>2. KeepsSlots(cg, s) BY <1>9 DEF KeepsSlots
  <2>3. Keeps(s, cg') BY <1>12, <1>13 DEF Step
  <2>4. Keeps(cg, cg') BY <2>1, <2>2, <2>3 DEF Keeps, KeepsSlots
  <2> QED BY <2>4, KeepsIsKept
<1>16. cg'.out.outarg = cg.out.outarg BY <1>7, <1>9, <1>12, <1>13 DEF m
<1>17. env' \in [Temp -> Value] BY <1>2
<1> QED BY <1>1, <1>14, <1>15, <1>16, <1>17, NextBlockKeeps

-----------------------------------------------------------------------------
(* Calls *)

\* An ARG that goes on with the list of the innermost call, or of the one around.
LEMMA PutArgKeeps ==
  ASSUME IInv, NEW left \in Temp, NEW before \in Seq(Temp),
         PutArg(Len(before), left),
         \A k \in 0 .. Len(before) - 1 : args[k] \in Temp,
         actuals' = Append(before, left),
         outer' \in Seq(Seq(Temp)),
         \A d \in DOMAIN outer' : d \in DOMAIN outer /\ outer'[d] = outer[d],
         "nested" \notin Quirks => before = actuals /\ outer' = outer
  PROVE  IInv' /\ Kept
<1> DEFINE index == Len(before)
<1>1. /\ pc = "quads" /\ position' \in 0 .. MaxQuads /\ index < MaxArgs
      /\ arg_count' = Larger(arg_count, index + 1)
      /\ args' = [args EXCEPT ![index] = left]
      /\ UNCHANGED <<cg, max_arg_count, env, params, pc, i, quad, frame>>
  BY NextPosition DEF PutArg
<1>2. ControlOK /\ Listed BY DEF IInv, ArgsOK
<1>3. /\ index \in Nat /\ arg_count \in 0 .. MaxArgs
      /\ args \in [0 .. MaxArgs - 1 -> Temp \cup {NoTemp}] /\ MaxArgs \in Nat
  BY <1>2, BoundAssumption DEF ControlOK
<1>4. /\ actuals' \in Seq(Temp) /\ Len(actuals') = index + 1
      /\ actuals'[index + 1] = left
      /\ \A k \in 1 .. index : actuals'[k] = before[k]
  OBVIOUS
<1>5. /\ arg_count' \in 0 .. MaxArgs
      /\ arg_count' = arg_count \/ arg_count' = index + 1
      /\ arg_count' >= arg_count
  BY <1>1, <1>3 DEF Larger
<1>16. index \in 0 .. MaxArgs - 1 BY <1>1, <1>3
<1>6. /\ args'[index] = left
      /\ \A k : k # index => args'[k] = args[k]
      /\ args' \in [0 .. MaxArgs - 1 -> Temp \cup {NoTemp}]
  BY <1>1, <1>3, <1>16
<1> HIDE DEF index
<1>7. ControlOK' BY <1>1, <1>2, <1>4, <1>5, <1>6 DEF ControlOK
<1>8. Known' = Known BY <1>1 DEF Known, Undefined
<1>9. Sound(cg', Known') BY <1>1, <1>8 DEF IInv
<1>10. ParamsOK' BY <1>1, StillPlaced DEF IInv
<1>11. FlushOK' /\ ReturnOK' BY <1>1 DEF FlushOK, ReturnOK
<1>12. Listed'
  <2>1. \A k \in 0 .. Len(actuals') - 1 : args'[k] \in Temp
    <3>1. \A k \in 0 .. index - 1 : args[k] \in Temp BY DEF index
    <3>2. ASSUME NEW k \in 0 .. index PROVE args'[k] \in Temp
      <4>1. CASE k = index BY <1>6, <4>1
      <4>2. CASE k # index
        <5>1. k \in 0 .. index - 1 BY <1>3, <4>2
        <5> QED BY <1>6, <3>1, <4>2, <5>1
      <4> QED BY <4>1, <4>2
    <3>3. \A k \in 0 .. Len(actuals') - 1 : k \in 0 .. index BY <1>3, <1>4
    <3> QED BY <3>2, <3>3
  <2>2. \A k \in 0 .. arg_count' - 1 : args'[k] \in Temp
    <3>1. \A k \in 0 .. arg_count - 1 : args[k] \in Temp BY <1>2 DEF Listed
    <3> QED BY <1>3, <1>4, <1>5, <1>6, <2>1, <3>1
  <2>3. \A d \in DOMAIN outer' : \A k \in 0 .. Len(outer'[d]) - 1 : args'[k] \in Temp
    <3>1. \A d \in DOMAIN outer : \A k \in 0 .. Len(outer[d]) - 1 : args[k] \in Temp
      BY <1>2 DEF Listed
    <3>2. \A k : args[k] \in Temp => args'[k] \in Temp BY <1>6
    <3> QED BY <3>1, <3>2
  <2>4. ASSUME "nested" \notin Quirks
        PROVE  /\ outer' = <<>>
               /\ arg_count' = Len(actuals')
               /\ \A k \in 0 .. arg_count' - 1 : args'[k] = actuals'[k + 1]
    <3>1. /\ outer' = <<>> /\ arg_count = index
          /\ \A k \in 0 .. arg_count - 1 : args[k] = before[k + 1]
      BY <1>2, <2>4 DEF Listed, index
    <3>2. arg_count' = index + 1 BY <1>1, <1>3, <3>1 DEF Larger
    <3>3. ASSUME NEW k \in 0 .. index PROVE args'[k] = actuals'[k + 1]
      <4>1. CASE k = index BY <1>4, <1>6, <4>1
      <4>2. CASE k # index
        <5>1. k \in 0 .. index - 1 /\ k + 1 \in 1 .. index BY <1>3, <3>3, <4>2
        <5> QED BY <1>4, <1>6, <3>1, <4>2, <5>1
      <4> QED BY <4>1, <4>2
    <3>4. \A k \in 0 .. arg_count' - 1 : k \in 0 .. index BY <1>3, <3>2
    <3> QED BY <1>4, <3>1, <3>2, <3>3, <3>4
  <2> QED BY <2>1, <2>2, <2>3, <2>4 DEF Listed
<1>13. ArgsOK' BY <1>1, <1>12 DEF ArgsOK
<1>14. FrameOK' BY <1>1 DEF IInv, FrameOK, m
<1>15. Kept BY <1>1, StayIsKept
<1> QED BY <1>7, <1>9, <1>10, <1>11, <1>13, <1>14, <1>15 DEF IInv

LEMMA ArgKeeps ==
  ASSUME IInv, NEW left \in Temp, Arg(left)
  PROVE  IInv' /\ Kept
<1>1. /\ PutArg(Len(actuals), left)
      /\ actuals' = Append(actuals, left) /\ outer' = outer
  BY DEF Arg
<1>2. /\ actuals \in Seq(Temp) /\ outer \in Seq(Seq(Temp))
      /\ \A k \in 0 .. Len(actuals) - 1 : args[k] \in Temp
  BY DEF IInv, ArgsOK, ControlOK, Listed
<1> QED BY <1>1, <1>2, PutArgKeeps

LEMMA EndArgumentKeeps ==
  ASSUME IInv, NEW left \in Temp, EndArgument(left)
  PROVE  IInv' /\ Kept
<1> DEFINE around == outer[Len(outer)]
<1>1. /\ outer # <<>> /\ PutArg(Len(around), left)
      /\ actuals' = Append(around, left)
      /\ outer' = SubSeq(outer, 1, Len(outer) - 1)
  BY DEF EndArgument
<1>2. Listed /\ outer \in Seq(Seq(Temp)) BY DEF IInv, ArgsOK, ControlOK
<1>3. Len(outer) \in DOMAIN outer /\ Len(outer) - 1 \in Nat BY <1>1, <1>2
<1>4. /\ around \in Seq(Temp)
      /\ \A k \in 0 .. Len(around) - 1 : args[k] \in Temp
  BY <1>2, <1>3 DEF Listed
<1>5. outer' \in Seq(Seq(Temp)) BY <1>1, <1>2, <1>3
<1>6. /\ Len(outer) \in Nat /\ DOMAIN outer = 1 .. Len(outer)
      /\ DOMAIN outer' = 1 .. Len(outer')
  BY <1>2, <1>5
<1>7. Len(outer') = Len(outer) - 1
  <2> SUFFICES ASSUME NEW n \in Nat, n = Len(outer) - 1
               PROVE  Len(SubSeq(outer, 1, n)) = n
    BY <1>1, <1>3
  <2>1. CASE n = 0 BY <2>1
  <2>2. CASE n > 0 BY <1>2, <2>2
  <2> QED BY <2>1, <2>2
<1>8. \A d \in 1 .. Len(outer) - 1 : outer'[d] = outer[d]
  BY <1>1, <1>2, <1>3, <1>6
<1>9. \A d \in DOMAIN outer' : d \in DOMAIN outer /\ outer'[d] = outer[d]
  BY <1>6, <1>7, <1>8
<1>10. "nested" \in Quirks BY <1>1, <1>2 DEF Listed
<1> HIDE DEF around
<1> QED BY <1>1, <1>4, <1>5, <1>9, <1>10, PutArgKeeps

LEMMA EnterArgumentKeeps ==
  ASSUME IInv, EnterArgument
  PROVE  IInv' /\ Kept
<1>1. /\ pc = "quads" /\ "nested" \in Quirks
      /\ outer' = Append(outer, actuals) /\ actuals' = <<>>
      /\ UNCHANGED <<list, cg, env, params, pc, position, i, quad, frame>>
  BY DEF EnterArgument
<1>2. ControlOK /\ Listed /\ outer \in Seq(Seq(Temp)) /\ actuals \in Seq(Temp)
  BY DEF IInv, ArgsOK, ControlOK
<1>3. /\ outer' \in Seq(Seq(Temp)) /\ Len(outer') = Len(outer) + 1
      /\ outer'[Len(outer) + 1] = actuals
      /\ \A d \in 1 .. Len(outer) : outer'[d] = outer[d]
  BY <1>1, <1>2
<1>4. actuals' \in Seq(Temp) /\ Len(actuals') = 0 BY <1>1
<1>5. ControlOK' BY <1>1, <1>2, <1>3, <1>4 DEF ControlOK, list
<1>6. Known' = Known BY <1>1 DEF Known, Undefined
<1>7. Sound(cg', Known') BY <1>1, <1>6 DEF IInv
<1>8. ParamsOK' BY <1>1, StillPlaced DEF IInv
<1>9. FlushOK' /\ ReturnOK' BY <1>1 DEF FlushOK, ReturnOK
<1>10. Listed'
  <2>0. args' = args /\ arg_count' = arg_count BY <1>1 DEF list
  <2>1. \A k \in 0 .. arg_count' - 1 : args'[k] \in Temp BY <1>2, <2>0 DEF Listed
  <2>2. \A k \in 0 .. Len(actuals') - 1 : args'[k] \in Temp BY <1>4
  <2>3. ASSUME NEW d \in DOMAIN outer'
        PROVE  \A k \in 0 .. Len(outer'[d]) - 1 : args'[k] \in Temp
    <3>1. d \in 1 .. Len(outer) \/ d = Len(outer) + 1 BY <1>2, <1>3
    <3>2. CASE d = Len(outer) + 1 BY <1>2, <1>3, <2>0, <3>2 DEF Listed
    <3>3. CASE d \in 1 .. Len(outer)
      <4>1. d \in DOMAIN outer BY <1>2, <3>3
      <4> QED BY <1>2, <1>3, <2>0, <3>3, <4>1 DEF Listed
    <3> QED BY <3>1, <3>2, <3>3
  <2> QED BY <1>1, <2>1, <2>2, <2>3 DEF Listed
<1>11. ArgsOK' BY <1>1, <1>10 DEF ArgsOK
<1>12. FrameOK' BY <1>1 DEF IInv, FrameOK, m, list
<1>13. Kept BY <1>1, StayIsKept
<1> QED BY <1>5, <1>7, <1>8, <1>9, <1>11, <1>12, <1>13 DEF IInv
LEMMA CountArgumentsKeeps ==
  ASSUME IInv, CountArguments
  PROVE  IInv' /\ Kept
<1>1. /\ pc = "flush" /\ i = RegCount /\ quad.op = "CALL"
      /\ max_arg_count' = Larger(max_arg_count, arg_count)
      /\ pc' = "args" /\ i' = arg_count - 1
      /\ UNCHANGED <<cg, args, arg_count, env, params, actuals, outer, position,
                     quad, frame>>
  BY DEF CountArguments, BlockEnded
<1>2. ControlOK /\ Listed /\ FrameOK BY DEF IInv, ArgsOK
<1>3. quad.target \in Temp BY <1>1 DEF IInv, FlushOK
<1>4. AllInSlots(cg, Known) BY <1>1, BlockFlushed
<1>5. /\ arg_count \in 0 .. MaxArgs /\ max_arg_count \in 0 .. MaxArgs
      /\ MaxArgs \in Nat
  BY <1>2, BoundAssumption DEF ControlOK
<1>6. /\ max_arg_count' \in 0 .. MaxArgs
      /\ arg_count <= max_arg_count' /\ max_arg_count <= max_arg_count'
  BY <1>1, <1>5 DEF Larger
<1>7. i' \in -1 .. arg_count - 1 /\ i' \in Int BY <1>1, <1>5
<1>8. ControlOK' BY <1>1, <1>2, <1>6, <1>7 DEF ControlOK
<1>9. Known' = Known BY <1>1 DEF Known, Undefined
<1>10. Sound(cg', Known') BY <1>1, <1>9 DEF IInv
<1>11. ParamsOK' BY <1>1, StillPlaced DEF IInv
<1>12. FlushOK' /\ ReturnOK' BY <1>1 DEF FlushOK, ReturnOK
<1>13. ArgsOK'
  <2>1. Listed' BY <1>1, <1>2 DEF Listed
  <2>2. \A k \in 0 .. arg_count - 1 : ~(k > i') BY <1>1, <1>5
  <2> QED BY <1>1, <1>3, <1>4, <1>6, <1>7, <1>9, <2>1, <2>2 DEF ArgsOK
<1>14. FrameOK'
  <2>1. CG!ArgSlots(max_arg_count) <= CG!ArgSlots(max_arg_count')
    BY <1>5, <1>6, RegAssumption DEF CG!ArgSlots
  <2>2. CG!ArgSlots(max_arg_count) \in Nat /\ CG!ArgSlots(max_arg_count') \in Nat
    BY <1>5, <1>6, RegAssumption DEF CG!ArgSlots
  <2>3. \A a \in DOMAIN m.outarg : a \in Nat /\ a < CG!ArgSlots(max_arg_count)
    BY <1>2 DEF FrameOK, IInv, Sound, Ordered, IsTables, IsMachine, m
  <2>4. \A a \in DOMAIN m.outarg : a < CG!ArgSlots(max_arg_count')
    BY <2>1, <2>2, <2>3
  <2> QED BY <1>1, <2>4 DEF FrameOK, m
<1>15. Kept BY <1>1, StayIsKept
<1> QED BY <1>8, <1>10, <1>11, <1>12, <1>13, <1>14, <1>15 DEF IInv

LEMMA PassArgumentKeeps ==
  ASSUME IInv, PassArgument
  PROVE  IInv' /\ Kept
<1> DEFINE t == args[i]
           new == CG!PassArgument(cg, i, t)
<1>1. /\ pc = "args" /\ i >= 0 /\ cg' = new /\ i' = i - 1
      /\ UNCHANGED <<calls, env, params, pc, position, quad, frame>>
  BY DEF PassArgument
<1>2. /\ ControlOK /\ Listed /\ FrameOK /\ Sound(cg, Known)
      /\ quad.target \in Temp
      /\ i \in -1 .. arg_count - 1
      /\ arg_count <= max_arg_count
      /\ AllInSlots(cg, Known)
      /\ \A k \in 0 .. arg_count - 1 :
           k > i /\ Known[args[k]] # Undef => IsPassed(m, k, Known[args[k]])
  BY <1>1 DEF IInv, ArgsOK
<1>3. /\ arg_count \in Nat /\ max_arg_count \in Nat
      /\ i \in 0 .. arg_count - 1 /\ i \in Nat
  BY <1>1, <1>2, BoundAssumption DEF ControlOK
<1>4. \A k \in 0 .. arg_count - 1 : args[k] \in Temp BY <1>2 DEF Listed
<1>5. t \in Temp BY <1>3, <1>4
<1> HIDE DEF t
<1>6. /\ Sound(new, Known)
      /\ Keeps(cg, new)
      /\ AllInSlots(cg, Known) => AllInSlots(new, Known)
      /\ Passes(cg.out, new.out, i, Known[t])
  BY <1>2, <1>3, <1>5, PassesArgument
<1> HIDE DEF new
<1>7. Known' = Known BY <1>1 DEF Known, Undefined
<1>8. ControlOK' BY <1>1, <1>2, <1>3 DEF ControlOK, calls
<1>9. ParamsOK' BY <1>1, StillPlaced DEF IInv
<1>10. FlushOK' /\ ReturnOK' BY <1>1 DEF FlushOK, ReturnOK
<1>11. ArgsOK'
  <2>1. Listed' BY <1>1, <1>2, StillListed
  <2>2. i' \in -1 .. arg_count - 1 BY <1>1, <1>3
  <2>3. ASSUME NEW k \in 0 .. arg_count - 1, k > i', Known[args[k]] # Undef
        PROVE  IsPassed(new.out, k, Known[args[k]])
    <3>1. CASE k = i BY <1>6, <2>3, <3>1 DEF Passes, t
    <3>2. CASE k # i
      <4>1. k > i /\ k \in Nat BY <1>1, <1>3, <2>3, <3>2
      <4>2. Known[args[k]] \in Value BY <1>4, KnownType
      <4>3. IsPassed(cg.out, k, Known[args[k]]) BY <1>2, <2>3, <4>1 DEF m
      <4> QED BY <1>6, <4>1, <4>2, <4>3 DEF Passes
    <3> QED BY <3>1, <3>2
  <2>4. AllInSlots(new, Known) BY <1>2, <1>6
  <2> QED BY <1>1, <1>2, <1>7, <2>1, <2>2, <2>3, <2>4 DEF ArgsOK, calls, m
<1>12. FrameOK'
  <2>1. ASSUME NEW a \in DOMAIN new.out.outarg
        PROVE  a < CG!ArgSlots(max_arg_count)
    <3>1. CASE a \in DOMAIN cg.out.outarg BY <1>2, <3>1 DEF FrameOK, m
    <3>2. CASE a = i
      BY <1>2, <1>3, <3>2, RegAssumption DEF CG!ArgSlots
    <3> QED BY <1>6, <3>1, <3>2 DEF Passes
  <2> QED BY <1>1, <2>1 DEF FrameOK, m, calls
<1>13. Kept BY <1>1, <1>6, KeepsIsKept
<1> QED BY <1>1, <1>6, <1>7, <1>8, <1>9, <1>10, <1>11, <1>12, <1>13 DEF IInv

LEMMA CalledKeeps ==
  ASSUME IInv, Called
  PROVE  IInv' /\ Kept
<1> DEFINE t == quad.target
<1>1. /\ pc = "args" /\ arg_count' = 0 /\ NextQuad
      /\ actuals' = <<>>
      /\ UNCHANGED <<args, max_arg_count, params, outer, position, frame>>
  BY DEF Called
<1>2. PICK result \in Word :
        /\ cg' = CG!AfterCall(
                   [cg EXCEPT !.out = [m EXCEPT
                      !.preg = [Unknown EXCEPT ![CG!rax] = result],
                      !.flags = NoFlags, !.outarg = <<>>]], t)
        /\ env' = [env EXCEPT ![t] = result]
  BY DEF Called
<1> DEFINE x == [m EXCEPT !.preg = [Unknown EXCEPT ![CG!rax] = result],
                          !.flags = NoFlags, !.outarg = <<>>]
           s == [cg EXCEPT !.out = x]
           g == [Known EXCEPT ![t] = result]
<1>3. /\ ControlOK /\ Listed /\ t \in Temp
      /\ AllInSlots(cg, Known) /\ Known \in [Temp -> Value]
      /\ Ordered(cg) /\ IsTables(cg) /\ Slots(cg) /\ Written(cg) /\ IsMachine(m)
      /\ DOMAIN cg = Members
  BY <1>1, KnownType DEF IInv, ArgsOK, Sound, Ordered, IsTables, m, Members
<1>4. result \in Value BY DEF Value
<1>5. /\ DOMAIN x = {"preg", "mem", "outarg", "flags"}
      /\ x.preg = [Unknown EXCEPT ![CG!rax] = result]
      /\ x.flags = NoFlags /\ x.mem = m.mem /\ x.outarg = <<>>
  BY <1>3 DEF IsMachine
<1> HIDE DEF x, t
<1>6. x.preg \in [CG!Reg -> Value] /\ x.preg[CG!rax] = result
  <2>1. Unknown \in [CG!Reg -> Value] BY DEF Unknown, Value
  <2> QED BY <1>4, <1>5, <2>1, RaxRdx
<1>7. IsMachine(x)
  <2>1. x.flags \in Value \X Value BY <1>5 DEF NoFlags, Value
  <2>2. \A a \in DOMAIN x.outarg : a \in Nat /\ x.outarg[a] \in Value BY <1>5
  <2>3. \A p \in DOMAIN x.mem : p \in Int /\ x.mem[p] \in Value
    BY <1>3, <1>5 DEF IsMachine
  <2> QED BY <1>5, <1>6, <2>1, <2>2, <2>3 DEF IsMachine
<1>8. /\ DOMAIN s = Members
      /\ s.queue = cg.queue /\ s.temp = cg.temp /\ s.reg = cg.reg
      /\ s.base = cg.base /\ s.spilled = cg.spilled /\ s.count = cg.count
      /\ s.out = x
  BY <1>3 DEF Members
<1> HIDE DEF s
<1>9. Ordered(s)
  <2>1. IsTables(s) BY <1>3, <1>7, <1>8 DEF IsTables, Members
  <2>2. Slots(s) BY <1>3, <1>8, SameSlots
  <2>3. Written(s)
    <3>1. s.out.mem = cg.out.mem /\ s.count = cg.count BY <1>5, <1>8 DEF m
    <3> QED BY <1>3, <3>1 DEF Written
  <2> QED BY <2>1, <2>2, <2>3 DEF Ordered
<1>10. AllInSlots(s, Known) BY <1>3, <1>5, <1>8 DEF AllInSlots, InSlot, m
<1>11. Computed(s, CG!AfterCall(s, t), Known, t, result)
  BY <1>3, <1>6, <1>8, <1>9, <1>10, CallReturns
<1>12. cg' = CG!AfterCall(s, t) BY <1>2 DEF s, x
<1>13. Sound(cg', g) /\ Step(s, cg') BY <1>11, <1>12 DEF Computed
<1>14. env \in [Temp -> Value] /\ env' \in [Temp -> Value]
  BY <1>2, <1>3, <1>4 DEF ControlOK
<1>15. Sound(cg', Known')
  <2>1. CASE ~Sure
    <3>1. \A u \in Temp : Known'[u] = Undef BY <2>1 DEF Known, Undefined
    <3> QED BY <1>13, <3>1, Weaken
  <2>2. CASE Sure
    <3>1. Known' = g BY <1>1, <1>2, <2>2 DEF Known, NextQuad
    <3> QED BY <1>13, <3>1
  <2> QED BY <2>1, <2>2
<1>16. actuals' \in Seq(Temp) /\ Len(actuals') = 0 BY <1>1
<1>17. ControlOK'
  <2>1. arg_count' \in 0 .. MaxArgs BY <1>1, BoundAssumption
  <2> QED BY <1>1, <1>3, <1>14, <1>16, <2>1 DEF ControlOK, NextQuad
<1>18. ParamsOK' BY <1>1, StillPlaced DEF IInv, NextQuad
<1>19. FlushOK' /\ ReturnOK' BY <1>1 DEF FlushOK, ReturnOK, NextQuad
<1>20. ArgsOK'
  <2>1. \A k \in 0 .. arg_count' - 1 : args'[k] \in Temp BY <1>1
  <2>2. \A d \in DOMAIN outer' : \A k \in 0 .. Len(outer'[d]) - 1 : args'[k] \in Temp
    BY <1>1, <1>3 DEF Listed
  <2>3. \A k \in 0 .. Len(actuals') - 1 : args'[k] \in Temp BY <1>16
  <2>4. "nested" \notin Quirks =>
          /\ outer' = <<>>
          /\ arg_count' = Len(actuals')
          /\ \A k \in 0 .. arg_count' - 1 : args'[k] = actuals'[k + 1]
    BY <1>1, <1>3, <1>16 DEF Listed
  <2>5. Listed' BY <2>1, <2>2, <2>3, <2>4 DEF Listed
  <2> QED BY <1>1, <2>5 DEF ArgsOK, NextQuad
<1>21. FrameOK'
  <2>1. cg'.out.outarg = <<>> BY <1>5, <1>8, <1>13 DEF Step
  <2> QED BY <1>1, <2>1 DEF FrameOK, NextQuad, m
<1>22. Kept
  <2>1. /\ s.base = cg.base /\ s.spilled = cg.spilled
        /\ s.out.mem = cg.out.mem
    BY <1>5, <1>8 DEF m
  <2>2. Keeps(cg, s) /\ Keeps(s, cg') BY <1>13, <2>1, KeepsItself DEF Step
  <2>3. Keeps(cg, cg') BY <2>2 DEF Keeps, KeepsSlots
  <2> QED BY <2>3, KeepsIsKept
<1> QED BY <1>15, <1>17, <1>18, <1>19, <1>20, <1>21, <1>22 DEF IInv
-----------------------------------------------------------------------------
(* Returns, and the end *)

LEMMA ReturnKeeps ==
  ASSUME IInv, NEW left \in Temp, Return(left)
  PROVE  IInv' /\ Kept
<1> DEFINE new == CG!Return(cg, left)
<1>1. /\ pc = "quads" /\ position' \in 0 .. MaxQuads /\ cg' = new
      /\ pc' = "return" /\ quad' = [op |-> "RET", left |-> left]
      /\ UNCHANGED <<calls, env, params, i, frame>>
  BY NextPosition DEF Return
<1>2. Sound(cg, Known) BY DEF IInv
<1>3. /\ Sound(new, Undefined)
      /\ Step(cg, new)
      /\ Known[left] # Undef => new.out.preg[CG!rax] = Known[left]
  BY <1>2, ReturnBrings
<1> HIDE DEF new
<1>4. Known' = Undefined BY <1>1 DEF Known, Undefined
<1>5. ControlOK' BY <1>1 DEF IInv, ControlOK, calls
<1>6. ParamsOK' BY <1>1, StillPlaced DEF IInv
<1>7. FlushOK' BY <1>1 DEF FlushOK
<1>8. ReturnOK'
  <2>1. Sure => Known = env BY <1>1 DEF Known
  <2> QED BY <1>1, <1>3, <2>1 DEF ReturnOK, m
<1>9. ArgsOK'
  <2>1. Listed' BY <1>1, StillListed DEF IInv, ArgsOK
  <2> QED BY <1>1, <2>1 DEF ArgsOK
<1>10. FrameOK' BY <1>1, <1>3 DEF IInv, FrameOK, m, calls, Step
<1>11. Kept BY <1>1, <1>3, KeepsIsKept DEF Step
<1> QED
  BY <1>1, <1>3, <1>4, <1>5, <1>6, <1>7, <1>8, <1>9, <1>10, <1>11 DEF IInv

LEMMA ReturnedKeeps ==
  ASSUME IInv, Returned
  PROVE  IInv' /\ Kept
<1>1. /\ pc = "return" /\ env' = Undefined
      /\ pc' = "quads" /\ i' = 0 /\ quad' = NoQuad
      /\ UNCHANGED <<calls, cg, params, position, frame>>
  BY DEF Returned, NextQuad
<1>2. Known = Undefined /\ Known' = Undefined BY <1>1 DEF Known, Undefined
<1>3. Sound(cg', Known') BY <1>1, <1>2 DEF IInv
<1>4. Undefined \in [Temp -> Value] BY DEF Undefined, Value
<1>5. ControlOK' BY <1>1, <1>4 DEF IInv, ControlOK, calls
<1>6. ParamsOK' BY <1>1, StillPlaced DEF IInv
<1>7. FlushOK' /\ ReturnOK' BY <1>1 DEF FlushOK, ReturnOK
<1>8. ArgsOK'
  <2>1. Listed' BY <1>1, StillListed DEF IInv, ArgsOK
  <2> QED BY <1>1, <2>1 DEF ArgsOK
<1>9. FrameOK' BY <1>1 DEF IInv, FrameOK, m, calls
<1>10. Kept BY <1>1, StayIsKept
<1> QED BY <1>3, <1>5, <1>6, <1>7, <1>8, <1>9, <1>10 DEF IInv

LEMMA ReturnNothingKeeps ==
  ASSUME IInv, ReturnNothing
  PROVE  IInv' /\ Kept
<1>1. /\ pc = "quads" /\ position' \in 0 .. MaxQuads /\ env' = Undefined
      /\ UNCHANGED <<cg, calls, params, pc, i, quad, frame>>
  BY NextPosition DEF ReturnNothing
<1>2. \A t \in Temp : Known'[t] = Undef BY <1>1 DEF Known, Undefined
<1>3. Sound(cg', Known') BY <1>1, <1>2, Weaken DEF IInv
<1>4. Undefined \in [Temp -> Value] BY DEF Undefined, Value
<1>5. IInv' BY <1>1, <1>3, <1>4, QuadKeeps
<1> QED BY <1>1, <1>5, StayIsKept

LEMMA FinishKeeps ==
  ASSUME IInv, Finish
  PROVE  IInv' /\ Kept
<1>1. /\ pc = "quads" /\ frame' = CG!FrameSize(cg.count, max_arg_count)
      /\ pc' = "done"
      /\ UNCHANGED <<calls, cg, env, params, position, i, quad>>
  BY DEF Finish
<1>2. Known' = Known BY <1>1 DEF Known, Undefined
<1>3. Sound(cg', Known') BY <1>1, <1>2 DEF IInv
<1>4. cg.count \in Nat /\ max_arg_count \in Nat
  BY BoundAssumption DEF IInv, ControlOK, Sound, Ordered, IsTables
<1>5. frame' \in Nat
  BY <1>1, <1>4, RegAssumption DEF CG!FrameSize, CG!ArgSlots
<1>6. ControlOK' BY <1>1, <1>5 DEF IInv, ControlOK, calls
<1>7. ParamsOK' BY <1>1, StillPlaced DEF IInv
<1>8. FlushOK' /\ ReturnOK' BY <1>1 DEF FlushOK, ReturnOK
<1>9. ArgsOK'
  <2>1. Listed' BY <1>1, StillListed DEF IInv, ArgsOK
  <2> QED BY <1>1, <2>1 DEF ArgsOK
<1>10. FrameOK' BY <1>1 DEF IInv, FrameOK, m, calls
<1>11. Kept BY <1>1, StayIsKept
<1> QED BY <1>3, <1>6, <1>7, <1>8, <1>9, <1>10, <1>11 DEF IInv

-----------------------------------------------------------------------------
(* The theorems *)

LEMMA StutterKeeps == ASSUME IInv, UNCHANGED vars PROVE IInv' /\ Kept
<1>1. /\ cg' = cg /\ args' = args /\ arg_count' = arg_count
      /\ max_arg_count' = max_arg_count /\ env' = env /\ params' = params
      /\ actuals' = actuals /\ outer' = outer /\ pc' = pc /\ position' = position
      /\ i' = i /\ quad' = quad /\ frame' = frame
  BY DEF vars
<1>2. Known' = Known BY <1>1 DEF Known, Undefined
<1>3. ControlOK' BY <1>1 DEF IInv, ControlOK
<1>4. Sound(cg', Known') BY <1>1, <1>2 DEF IInv
<1>5. ParamsOK' BY <1>1 DEF IInv, ParamsOK, Unplaced
<1>6. FlushOK' BY <1>1, <1>2 DEF IInv, FlushOK, Flushed, Tested, m
<1>7. ArgsOK' BY <1>1, <1>2 DEF IInv, ArgsOK, Listed, m
<1>8. ReturnOK' BY <1>1 DEF IInv, ReturnOK, m
<1>9. FrameOK' BY <1>1 DEF IInv, FrameOK, m
<1>10. Kept BY <1>1, StayIsKept
<1> QED BY <1>3, <1>4, <1>5, <1>6, <1>7, <1>8, <1>9, <1>10 DEF IInv

\* Every step keeps the invariant, the slots and what fills them.
LEMMA NextKeeps == ASSUME IInv, [Next]_vars PROVE IInv' /\ Kept
<1>1. CASE PlaceParam BY <1>1, PlaceParamKeeps
<1>2. CASE ParamsPlaced BY <1>2, ParamsPlacedKeeps
<1>3. ASSUME NEW t \in Temp, NEW value \in Word, MovIm(t, value)
      PROVE  IInv' /\ Kept
  BY <1>3, MovImKeeps
<1>4. ASSUME NEW t \in Temp, NEW left \in Temp, Mov(t, left)
      PROVE  IInv' /\ Kept
  BY <1>4, MovKeeps
<1>5. ASSUME NEW t \in Temp, NEW left \in Temp, NEW op \in UnaryOp, Unary(op, t, left)
      PROVE  IInv' /\ Kept
  BY <1>5, UnaryKeeps
<1>6. ASSUME NEW t \in Temp, NEW left \in Temp, NEW right \in Temp,
             NEW op \in Op \ UnaryOp, Binary(op, t, left, right)
      PROVE  IInv' /\ Kept
  BY <1>6, BinaryKeeps
<1>7. ASSUME NEW t \in Temp, Call(t) PROVE IInv' /\ Kept BY <1>7, CallKeeps
<1>8. ASSUME NEW left \in Temp, Branch(left) PROVE IInv' /\ Kept
  BY <1>8, BranchKeeps
<1>9. ASSUME NEW left \in Temp, Arg(left) PROVE IInv' /\ Kept BY <1>9, ArgKeeps
<1>10. ASSUME NEW left \in Temp, Return(left) PROVE IInv' /\ Kept
  BY <1>10, ReturnKeeps
<1>11. CASE Jump BY <1>11, JumpKeeps
<1>12. CASE Label BY <1>12, LabelKeeps
<1>13. CASE EndBasicBlock BY <1>13, EndBasicBlockKeeps
<1>14. CASE JumpEnd BY <1>14, JumpEndKeeps
<1>15. CASE BranchEnd BY <1>15, BranchEndKeeps
<1>16. CASE LabelEnd BY <1>16, LabelEndKeeps
<1>17. CASE EnterArgument BY <1>17, EnterArgumentKeeps
<1>18. CASE CountArguments BY <1>18, CountArgumentsKeeps
<1>19. CASE PassArgument BY <1>19, PassArgumentKeeps
<1>20. CASE Called BY <1>20, CalledKeeps
<1>21. CASE Returned BY <1>21, ReturnedKeeps
<1>22. CASE ReturnNothing BY <1>22, ReturnNothingKeeps
<1>23. CASE Finish BY <1>23, FinishKeeps
<1>24. ASSUME NEW left \in Temp, EndArgument(left) PROVE IInv' /\ Kept
  BY <1>24, EndArgumentKeeps
<1>25. CASE UNCHANGED vars BY <1>25, StutterKeeps
<1> QED
  BY <1>1, <1>2, <1>3, <1>4, <1>5, <1>6, <1>7, <1>8, <1>9, <1>10, <1>11, <1>12,
     <1>13, <1>14, <1>15, <1>16, <1>17, <1>18, <1>19, <1>20, <1>21, <1>22,
     <1>23, <1>24, <1>25 DEF Next

LEMMA Invariant == Spec => []IInv
<1>1. Init => IInv BY InitInv
<1>2. IInv /\ [Next]_vars => IInv' BY NextKeeps
<1> QED BY <1>1, <1>2, PTL DEF Spec
\* The variables keep their types: code_gen.cpp never indexes its lists of
\* temps, registers and arguments with anything else.
THEOREM TypesKept == Spec => []TypeOK
<1>1. IInv => TypeOK BY DEF IInv, ControlOK, TypeOK, Sound, Ordered
<1> QED BY <1>1, Invariant, PTL

\* registers and temps always record the same holders, through any sequence
\* of quads: the assertions of get_register_for and dealloc_register hold.
THEOREM RegistersAlwaysAgree == Spec => []RegistersAgree
<1>1. IInv => RegistersAgree BY DEF IInv, Sound, RegistersAgree
<1> QED BY <1>1, Invariant, PTL

\* move_back_in_queue never loses or doubles a register.
THEOREM QueueStaysWhole == Spec => []QueueHoldsEachOnce
<1>1. IInv => QueueHoldsEachOnce
  BY DEF IInv, Sound, Ordered, QueueHoldsEachOnce
<1> QED BY <1>1, Invariant, PTL

\* spill never gives two temps one slot.
THEOREM SlotsStayDisjoint == Spec => []SlotsDisjoint
<1>1. IInv => SlotsDisjoint BY DEF IInv, Sound, Ordered, SlotsDisjoint
<1> QED BY <1>1, Invariant, PTL

\* The instructions gen_code writes compute what the quads compute, unless a
\* MOV has one temp as target and source or a loop brings back a value of a
\* variable that had none in the text before it.
THEOREM CodeComputesQuads ==
  ASSUME Sure
  PROVE  Spec => []HomeHoldsValue
<1>1. IInv => HomeHoldsValue BY DEF IInv, Sound, HomeHoldsValue, Known
<1> QED BY <1>1, Invariant, PTL

\* end_basic_block leaves every value in memory.
THEOREM BlocksEndInSlots ==
  ASSUME Sure
  PROVE  Spec => []BlockLeavesValuesInSlots
<1>1. IInv => BlockLeavesValuesInSlots
  <2> SUFFICES ASSUME IInv, pc = "flush", i = RegCount PROVE AllInSlots(cg, env)
    BY DEF BlockLeavesValuesInSlots
  <2>1. Known = env BY DEF Known
  <2> QED BY <2>1, BlockFlushed
<1> QED BY <1>1, Invariant, PTL

\* The conditional jump tests the condition the quad names.
THEOREM BranchesTestCondition ==
  ASSUME Sure
  PROVE  Spec => []BranchTestsValue
<1>1. IInv => BranchTestsValue
  <2> SUFFICES ASSUME IInv, pc = "flush", quad.op = "JZ", env[quad.left] # Undef
               PROVE  m.flags = <<env[quad.left], 0>>
    BY DEF BranchTestsValue
  <2>1. Known = env BY DEF Known
  <2> QED BY <2>1 DEF IInv, FlushOK, Tested
<1> QED BY <1>1, Invariant, PTL

\* A call passes its arguments, unless there was a call in their list.
THEOREM CallsPassArguments ==
  ASSUME Sure, "nested" \notin Quirks
  PROVE  Spec => []CallPassesArguments
<1>1. IInv => CallPassesArguments
  <2> SUFFICES ASSUME IInv, pc = "args", i < 0
               PROVE  /\ arg_count = Len(actuals)
                      /\ \A k \in 0 .. Len(actuals) - 1 :
                           env[actuals[k + 1]] # Undef =>
                             IsPassed(m, k, env[actuals[k + 1]])
    BY DEF CallPassesArguments
  <2>1. Known = env BY DEF Known
  <2>2. /\ arg_count = Len(actuals)
        /\ \A k \in 0 .. arg_count - 1 : args[k] = actuals[k + 1]
    BY DEF IInv, ArgsOK, Listed
  <2>3. /\ i \in Int
        /\ \A k \in 0 .. arg_count - 1 :
             k > i /\ Known[args[k]] # Undef => IsPassed(m, k, Known[args[k]])
    BY DEF IInv, ArgsOK, ControlOK
  <2>4. ASSUME NEW k \in 0 .. Len(actuals) - 1, env[actuals[k + 1]] # Undef
        PROVE  IsPassed(m, k, env[actuals[k + 1]])
    <3>1. k \in 0 .. arg_count - 1 /\ args[k] = actuals[k + 1] BY <2>2
    <3>2. k > i BY <2>3
    <3> QED BY <2>1, <2>3, <2>4, <3>1, <3>2
  <2> QED BY <2>2, <2>4
<1> QED BY <1>1, Invariant, PTL

\* RET brings the value to the register the caller reads.
THEOREM ReturnsDeliverValue ==
  ASSUME Sure
  PROVE  Spec => []ReturnDeliversValue
<1>1. IInv => ReturnDeliversValue BY DEF IInv, ReturnOK, ReturnDeliversValue
<1> QED BY <1>1, Invariant, PTL

\* The frame is aligned and has room for the slots and the arguments.
THEOREM FramesHoldEverything == Spec => []FrameHoldsEverything
<1>1. IInv => FrameHoldsEverything
  <2> SUFFICES ASSUME IInv PROVE FrameHoldsEverything OBVIOUS
  <2> DEFINE n == CG!ArgSlots(max_arg_count)
             slots == cg.count + n + 1
  <2>1. /\ cg.count \in Nat /\ max_arg_count \in Nat /\ FrameOK
        /\ Written(cg) /\ IsMachine(m)
    BY BoundAssumption DEF IInv, ControlOK, Sound, Ordered, IsTables, m
  <2>2. n \in Nat BY <2>1, RegAssumption DEF CG!ArgSlots
  <2> HIDE DEF n
  <2>3. ASSUME pc = "done"
        PROVE  /\ frame % 16 = 0
               /\ \A p \in DOMAIN m.mem : p < 0 => -frame + 8 * n <= p
    <3>1. frame = 8 * (slots - (slots % 2))
      BY <2>1, <2>3 DEF FrameOK, CG!FrameSize, n
    <3>2. slots \in Nat /\ slots % 2 \in {0, 1} BY <2>1, <2>2
    <3>3. PICK h \in Int : slots - (slots % 2) = 2 * h
      <4> SUFFICES ASSUME NEW k \in Nat
                   PROVE  \E h \in Int : k - (k % 2) = 2 * h
        BY <3>2
      <4>1. k = 2 * (k \div 2) + (k % 2) /\ k \div 2 \in Int /\ k % 2 \in Int
        OBVIOUS
      <4> DEFINE h == k \div 2
      <4>2. k - (k % 2) = 2 * h BY <4>1
      <4> HIDE DEF h
      <4>3. h \in Int BY <4>1 DEF h
      <4> QED BY <4>2, <4>3
    <3>4. frame = 16 * h BY <3>1, <3>3
    <3>5. frame % 16 = 0 BY <3>4
    <3>6. frame \in Int /\ -frame + 8 * n <= -8 * cg.count
      BY <2>1, <2>2, <3>1, <3>2
    <3>7. ASSUME NEW p \in DOMAIN m.mem, p < 0 PROVE -frame + 8 * n <= p
      <4>1. p \in Int /\ -8 * cg.count <= p
        BY <2>1, <3>7 DEF Written, IsMachine, m
      <4> QED BY <2>1, <2>2, <3>6, <4>1
    <3> QED BY <3>5, <3>7
  <2> QED BY <2>1, <2>3 DEF FrameHoldsEverything, FrameOK, n
<1> QED BY <1>1, Invariant, PTL

\* No step takes a slot from a temp.
THEOREM SlotsAlwaysKept == Spec => SlotsAreKept
<1> DEFINE Kept1 == \A t \in Temp : cg.base[t] # 0 => cg'.base[t] = cg.base[t]
<1>1. IInv /\ [Next]_vars => Kept1 BY NextKeeps DEF Kept, KeepsSlots
<1>2. IInv /\ [Next]_vars => [Kept1]_vars BY <1>1
<1> HIDE DEF Kept1
<1>3. Spec => [][Kept1]_vars BY <1>2, Invariant, PTL DEF Spec
<1> QED BY <1>3 DEF SlotsAreKept, Kept1

\* The parameters of a routine stay the ones it was entered with.
LEMMA ParamsStay == ASSUME [Next]_vars PROVE params' = params
<1>1. CASE PlaceParam \/ ParamsPlaced BY <1>1 DEF PlaceParam, ParamsPlaced
<1>2. ASSUME NEW t, NEW next, NEW v, Compute(t, next, v) PROVE params' = params
  BY <1>2 DEF Compute
<1>3. ASSUME NEW q, NEW next, Begin(q, next) PROVE params' = params
  BY <1>3 DEF Begin
<1>4. ASSUME NEW t \in Temp,
             \/ \E value \in Word : MovIm(t, value)
             \/ \E left \in Temp :
                  \/ Mov(t, left)
                  \/ \E op \in UnaryOp : Unary(op, t, left)
                  \/ \E right \in Temp, op \in Op \ UnaryOp : Binary(op, t, left, right)
      PROVE  params' = params
  BY <1>2, <1>4 DEF MovIm, Mov, Unary, Binary
<1>5. ASSUME NEW t \in Temp, Call(t) \/ Branch(t) PROVE params' = params
  BY <1>3, <1>5 DEF Call, Branch
<1>6. CASE Jump \/ Label BY <1>3, <1>6 DEF Jump, Label
<1>7. ASSUME NEW left \in Temp, Arg(left) \/ EndArgument(left) \/ Return(left)
      PROVE  params' = params
  BY <1>7 DEF Arg, EndArgument, PutArg, Return, calls
<1>8. CASE EndBasicBlock \/ JumpEnd \/ BranchEnd \/ LabelEnd
  BY <1>8 DEF EndBasicBlock, JumpEnd, BranchEnd, LabelEnd
<1>9. CASE EnterArgument \/ CountArguments \/ PassArgument \/ Called
  BY <1>9 DEF EnterArgument, CountArguments, PassArgument, Called
<1>10. CASE Returned \/ ReturnNothing \/ Finish
  BY <1>10 DEF Returned, ReturnNothing, Finish
<1>11. CASE UNCHANGED vars BY <1>11 DEF vars
<1> QED BY <1>1, <1>4, <1>5, <1>6, <1>7, <1>8, <1>9, <1>10, <1>11 DEF Next

\* A routine writes nothing above the return address but the places of its
\* parameters, which its caller set aside: whatever the quads, spill stores
\* only at slots, and no step gives a temp a slot there but the placing of a
\* parameter. The places written are an invariant only together with the slots.
THEOREM CallersKeepFrames == Spec => []CallerKeepsFrame
<1> DEFINE Inside == Above(cg) \subseteq Places
<1>1. Init => Inside
  <2> SUFFICES ASSUME Init PROVE Inside OBVIOUS
  <2>1. PICK n \in 0 .. MaxParams :
          /\ params \in [0 .. n - 1 -> Temp]
          /\ \E x \in Entry(n) : cg = CG!Start(x)
    BY DEF Init
  <2>2. PICK x \in Entry(n) : cg = CG!Start(x) BY <2>1
  <2>3. cg.base = [t \in Temp |-> 0] /\ cg.out = x BY <2>2 DEF CG!Start
  <2>4. DOMAIN x.mem = {CG!ParamBase(k) : k \in ParamRegCount .. n - 1} BY DEF Entry
  <2>5. \A k \in ParamRegCount .. n - 1 : k \in DOMAIN params
    BY <2>1, RegAssumption, BoundAssumption
  <2>6. DOMAIN x.mem \subseteq Places BY <2>4, <2>5 DEF Places
  <2>7. \A u \in Temp : ~(cg.base[u] > 0) BY <2>3
  <2> QED BY <2>3, <2>6, <2>7 DEF Above
<1>2. IInv /\ Inside /\ [Next]_vars => Inside'
  <2> SUFFICES ASSUME IInv, Inside, [Next]_vars PROVE Inside' OBVIOUS
  <2>1. Kept BY NextKeeps
  <2>2. Places' = Places BY ParamsStay DEF Places
  <2> QED BY <2>1, <2>2 DEF Kept, Above
<1>3. IInv /\ Inside => CallerKeepsFrame
  <2> SUFFICES ASSUME IInv, Inside, NEW p \in DOMAIN m.mem, p >= 0
               PROVE  /\ p >= 16
                      /\ (p - 16) \div 8 \in 0 .. ParamRegCount - 1 \cup DOMAIN params
    BY DEF CallerKeepsFrame
  <2>1. p \in Above(cg) BY DEF Above, m
  <2>2. PICK k \in 0 .. ParamRegCount - 1 \cup DOMAIN params : p = CG!ParamBase(k)
    BY <2>1 DEF Places
  <2>3. k \in Nat BY RegAssumption, BoundAssumption DEF IInv, ParamsOK
  <2>4. p = 16 + 8 * k BY <2>2 DEF CG!ParamBase
  <2>5. (p - 16) \div 8 = k BY <2>3, <2>4
  <2> QED BY <2>2, <2>3, <2>4, <2>5
<1> HIDE DEF Inside
<1> QED BY <1>1, <1>2, <1>3, Invariant, PTL DEF Spec
=============================================================================
