------------------------------- MODULE CodeGen -------------------------------
(***************************************************************************)
(* The register allocator (src/src/register_alloc.h) and the code          *)
(* generator (src/src/code_gen.cpp) as operators over a state value.       *)
(*                                                                         *)
(* A state s is the record of the members of struct CodeGen that the       *)
(* straight-line part of the generator reads and writes:                   *)
(*   queue    register_queue: the least recently used register first       *)
(*   temp     registers[r].temp_id: the temp a register holds, or NoTemp   *)
(*   reg      temps[t].reg_id: the register that holds a temp, or NoReg    *)
(*   base     temps[t].base_offset: rbp-relative slot of a temp, 0 if none *)
(*   spilled  temps[t].spilled                                             *)
(*   count    spilled_count                                                *)
(*   out      what Emit makes of the instructions written so far           *)
(*                                                                         *)
(* Temp ids are only ever compared, so Temp is a set of values of any      *)
(* kind.  Emit is the member function of struct Code that pushes one       *)
(* instruction: a module that INSTANCEs this one decides whether to keep   *)
(* a list of instructions or, as CodeRun does, to run each one at once.    *)
(***************************************************************************)
EXTENDS Integers

CONSTANTS
  Temp,            \* the temps of the routine (Routine::temp_count of them)
  NoTemp,          \* the -1 of Register::temp_id, not a temp
  RegCount,        \* Reg_COUNT, at least 4: MUL needs rax, rdx and two more
  ParamRegCount,   \* PARAM_REG_COUNT, less than RegCount
  Emit(_, _, _, _) \* Emit(out, op, oper1, oper2)

NoReg == -1
Reg   == 0 .. RegCount - 1
rax   == 0
rdx   == 2

\* param_registers: rcx, rdx, r8, r9 have the ids 1 to 4.
ParamReg(i) == i + 1

Code(s, op, a, b) == [s EXCEPT !.out = Emit(s.out, op, a, b)]

-----------------------------------------------------------------------------
(* struct RegisterAlloc *)

\* Mutant: the register is not put back at the end.
MoveBackLosing(q, i) ==
  [j \in DOMAIN q |->
    IF j < i THEN q[j] ELSE IF j < RegCount - 1 THEN q[j + 1] ELSE q[j]]

MoveBackInQueue(q, i) ==
  [j \in DOMAIN q |->
    IF j < i THEN q[j] ELSE IF j < RegCount - 1 THEN q[j + 1] ELSE q[i]]

PositionOf(q, r) == CHOOSE i \in DOMAIN q : q[i] = r

AllocRegister(s, r, t) ==
  [s EXCEPT !.queue = MoveBackInQueue(s.queue, PositionOf(s.queue, r)),
            !.temp  = [s.temp EXCEPT ![r] = t]]

\* Mutant: the wrong one of the two constants for none.
DeallocWithNoReg(s, r) == [s EXCEPT !.temp = [s.temp EXCEPT ![r] = NoReg]]

DeallocRegister(s, r) == [s EXCEPT !.temp = [s.temp EXCEPT ![r] = NoTemp]]

-----------------------------------------------------------------------------
(* Allocation of registers to temps.  The register a temp was given is     *)
(* s.reg[t] in the state that results.                                     *)

\* Mutant: spilled_count is not counted up.
GiveSlotTwice(s, t) ==
  IF s.spilled[t] \/ s.base[t] # 0
  THEN [s EXCEPT !.spilled = [s.spilled EXCEPT ![t] = TRUE]]
  ELSE [s EXCEPT !.spilled = [s.spilled EXCEPT ![t] = TRUE],
                 !.base    = [s.base EXCEPT ![t] = -8 - 8 * s.count]]

\* Mutant: it is forgotten that parameters have a slot from the start.
GiveParamNewSlot(s, t) ==
  IF s.spilled[t] THEN s
  ELSE [s EXCEPT !.spilled = [s.spilled EXCEPT ![t] = TRUE],
                 !.base    = [s.base EXCEPT ![t] = -8 - 8 * s.count],
                 !.count   = s.count + 1]

\* The slot of a temp that is about to be spilled.  Parameters have one
\* from the start; any other temp gets the next one of the frame.
GiveSlot(s, t) ==
  IF s.spilled[t] \/ s.base[t] # 0
  THEN [s EXCEPT !.spilled = [s.spilled EXCEPT ![t] = TRUE]]
  ELSE [s EXCEPT !.spilled = [s.spilled EXCEPT ![t] = TRUE],
                 !.base    = [s.base EXCEPT ![t] = -8 - 8 * s.count],
                 !.count   = s.count + 1]

Store(s, r, t) == Code(s, "store", s.base[t], r)

SetReg(s, t, r) == [s EXCEPT !.reg = [s.reg EXCEPT ![t] = r]]

\* Mutant: a temp that was spilled before is not stored again.
SaveOnce(s, r, t) ==
  IF t = NoTemp \/ s.spilled[t] THEN s ELSE Store(GiveSlot(s, t), r, t)

\* spill(Register{r, t}, no_reset_to_none = true)
Save(s, r, t) == IF t = NoTemp THEN s ELSE Store(GiveSlot(s, t), r, t)

\* Mutant: the temp is still recorded to be in the register.
SpillKeeping(s, r, t) == Save(s, r, t)

\* spill(Register{r, t})
Spill(s, r, t) == IF t = NoTemp THEN s ELSE SetReg(Save(s, r, t), t, NoReg)

\* Register r is taken from the temp it holds and given to t.
Take(s, r, t) == Spill(AllocRegister(s, r, t), r, s.temp[r])

GetRegister(s, r) == Take(s, r, NoTemp)

\* The value of t is brought into r from where it is.
Fetch(s, r, t) ==
  CASE s.reg[t] # NoReg ->
         DeallocRegister(Code(s, "mov", r, s.reg[t]), s.reg[t])
    [] s.reg[t] = NoReg /\ s.spilled[t] -> Code(s, "load", r, s.base[t])
    [] OTHER -> s

GetRegisterFor(s, r, t, load_spilled) ==
  IF s.temp[r] = t THEN AllocRegister(s, r, t)
  ELSE LET taken == Take(s, r, t)
       IN  SetReg(IF load_spilled THEN Fetch(taken, r, t) ELSE taken, t, r)

GetAnyRegister(s) == Take(s, s.queue[0], NoTemp)

GetAnyRegisterFor(s, t, load_spilled) ==
  IF s.reg[t] # NoReg THEN AllocRegister(s, s.reg[t], t)
  ELSE LET r     == s.queue[0]
           taken == Take(s, r, t)
       IN  SetReg(IF s.spilled[t] /\ load_spilled
                  THEN Code(taken, "load", r, s.base[t]) ELSE taken, t, r)

-----------------------------------------------------------------------------
(* gen_code(Quad) for the quads that neither end a basic block nor call.   *)

MovIm(s, t, value) ==
  LET st == GetAnyRegisterFor(s, t, FALSE)
  IN  Code(st, "mov_im", st.reg[t], value)

Mov(s, t, left) ==
  LET s1 == GetAnyRegisterFor(s, t, FALSE)
      s2 == GetAnyRegisterFor(s1, left, TRUE)
  IN  Code(s2, "mov", s1.reg[t], s2.reg[left])

\* NOT (xor target, 1) and NEG (neg target)
Unary(s, op, t, left) ==
  LET s1 == GetAnyRegisterFor(s, t, FALSE)
      s2 == GetAnyRegisterFor(s1, left, TRUE)
      s3 == Code(s2, "mov", s1.reg[t], s2.reg[left])
  IN  Code(s3, op, s1.reg[t], s1.reg[t])

\* ADD and SUB
Additive(s, op, t, left, right) ==
  LET s1 == GetAnyRegisterFor(s, t, FALSE)
      s2 == GetAnyRegisterFor(s1, left, TRUE)
      s3 == GetAnyRegisterFor(s2, right, TRUE)
      s4 == Code(s3, "mov", s1.reg[t], s2.reg[left])
  IN  Code(s4, op, s1.reg[t], s3.reg[right])

\* What DIV and IDIV put in rdx before they divide.
ExtendRax(s, op) ==
  CASE op = "DIV"  -> Code(s, "zero", rdx, rdx)
    [] op = "IDIV" -> Code(s, "cqo", rdx, rax)
    [] OTHER       -> s

\* Mutant: the temp in rdx is not spilled.
MultiplicativeKeepingRdx(s, op, t, left, right) ==
  LET s1 == GetRegisterFor(s, rax, t, FALSE)
      s3 == GetAnyRegisterFor(s1, left, TRUE)
      s4 == GetAnyRegisterFor(s3, right, TRUE)
      s5 == Code(s4, "mov", rax, s3.reg[left])
  IN  Code(ExtendRax(s5, op), op, rax, s4.reg[right])

\* MUL, IMUL, DIV and IDIV
Multiplicative(s, op, t, left, right) ==
  LET s1 == GetRegisterFor(s, rax, t, FALSE)
      s2 == GetRegister(s1, rdx)
      s3 == GetAnyRegisterFor(s2, left, TRUE)
      s4 == GetAnyRegisterFor(s3, right, TRUE)
      s5 == Code(s4, "mov", rax, s3.reg[left])
  IN  Code(ExtendRax(s5, op), op, rax, s4.reg[right])

\* EQ, NE, LT, BELOW, GT, ABOVE, LE, BE, GE and AE
Compare(s, op, t, left, right) ==
  LET s1   == GetAnyRegisterFor(s, left, TRUE)
      s2   == GetAnyRegisterFor(s1, right, TRUE)
      s3   == GetAnyRegisterFor(s2, t, FALSE)
      temp == s3.queue[0]
      s4   == GetAnyRegister(s3)
      s5   == Code(s4, "zero", s3.reg[t], s3.reg[t])
      s6   == Code(s5, "mov_im", temp, 1)
      s7   == Code(s6, "cmp", s1.reg[left], s2.reg[right])
  IN  Code(s7, op, s3.reg[t], temp)

\* Mutant: the condition is not loaded from its slot.
TestWithoutLoad(s, left) ==
  LET st == GetAnyRegisterFor(s, left, FALSE)
  IN  Code(st, "cmp_im", st.reg[left], 0)

\* The part of JZ and JNZ before the block ends.
Test(s, left) ==
  LET st == GetAnyRegisterFor(s, left, TRUE)
  IN  Code(st, "cmp_im", st.reg[left], 0)

\* Mutant: the value is expected to be in rax when it was loaded.
ReturnLoaded(s, left) ==
  LET st == GetAnyRegisterFor(s, left, TRUE)
  IN  IF s.reg[left] = NoReg THEN st ELSE Code(st, "mov", rax, st.reg[left])

\* RET with a value, up to jmp_epi.
Return(s, left) ==
  LET st == GetAnyRegisterFor(s, left, TRUE)
  IN  IF st.reg[left] = rax THEN st ELSE Code(st, "mov", rax, st.reg[left])

-----------------------------------------------------------------------------
(* Basic blocks and calls.  The loops of end_basic_block and of CALL are   *)
(* unrolled by the module that runs them; these are their bodies.          *)

\* Mutant: only temps that were never spilled are stored.
EndBasicBlockStepOnce(s, r) ==
  IF s.temp[r] # NoTemp /\ s.spilled[s.temp[r]] THEN s
  ELSE Save(s, r, s.temp[r])

EndBasicBlockStep(s, r) == Save(s, r, s.temp[r])

BeginBasicBlock(s) ==
  [s EXCEPT !.queue = [i \in Reg |-> i],
            !.temp  = [r \in Reg |-> NoTemp],
            !.reg   = [t \in Temp |-> NoReg]]

\* Mutant: a value that is in some register already is not moved.
PassArgumentInPlace(s, i, t) ==
  IF i < ParamRegCount
  THEN IF s.reg[t] # NoReg THEN s ELSE GetRegisterFor(s, ParamReg(i), t, TRUE)
  ELSE LET st == GetAnyRegisterFor(s, t, TRUE)
       IN  Code(st, "set_arg", i, st.reg[t])

\* Argument i of the call is passed in a register or on the stack.
PassArgument(s, i, t) ==
  IF i < ParamRegCount
  THEN GetRegisterFor(s, ParamReg(i), t, TRUE)
  ELSE LET st == GetAnyRegisterFor(s, t, TRUE)
       IN  Code(st, "set_arg", i, st.reg[t])

\* The tables after the call instruction.
AfterCall(s, t) == GetRegisterFor(BeginBasicBlock(s), rax, t, FALSE)

\* gen_code(Routine): the tables before the first quad ...
Start(out) ==
  [queue   |-> [i \in Reg |-> i],
   temp    |-> [r \in Reg |-> NoTemp],
   reg     |-> [t \in Temp |-> NoReg],
   base    |-> [t \in Temp |-> 0],
   spilled |-> [t \in Temp |-> FALSE],
   count   |-> 0,
   out     |-> out]

\* Mutant: the rbp that the prologue has pushed is not counted.
ParamBaseBelow(i) == 8 + 8 * i

\* Above the rbp of the caller and the return address
ParamBase(i) == 16 + 8 * i

\* ... the placing of parameter i ...
PlaceParam(s, i, t) ==
  LET placed == IF i < ParamRegCount
                THEN SetReg(AllocRegister(s, ParamReg(i), t), t, ParamReg(i))
                ELSE [s EXCEPT !.spilled = [s.spilled EXCEPT ![t] = TRUE]]
  IN  [placed EXCEPT !.base = [s.base EXCEPT ![t] = ParamBase(i)]]

\* ... and the size of the frame, in bytes.
ArgSlots(max_arg_count) ==
  IF max_arg_count < ParamRegCount THEN ParamRegCount ELSE max_arg_count

\* Mutant: rounded down instead of up to an even number of slots.
FrameRoundedDown(spilled_count, max_arg_count) ==
  LET slots == spilled_count + ArgSlots(max_arg_count)
  IN  8 * (slots - (slots % 2))

FrameSize(spilled_count, max_arg_count) ==
  LET slots == spilled_count + ArgSlots(max_arg_count) + 1
  IN  8 * (slots - (slots % 2))
=============================================================================
