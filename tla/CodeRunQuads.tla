----------------------------- MODULE CodeRunQuads -----------------------------
(***************************************************************************)
(* Each operation of the generator keeps sound tables sound: it computes   *)
(* what its quad computes and moves nothing that is expected elsewhere.    *)
(***************************************************************************)
EXTENDS CodeRunLemmas

\* What every operation leaves alone: slots, and arguments passed so far.
Step(s, new) == Keeps(s, new) /\ new.out.outarg = s.out.outarg

LEMMA StepTransitive ==
  ASSUME NEW a, NEW b, NEW c, Step(a, b), Step(b, c)
  PROVE  Step(a, c)
BY DEF Step, Keeps, KeepsSlots

LEMMA AsideIsStep ==
  ASSUME NEW s, NEW new, NEW r, Aside(s, new, r)
  PROVE  Step(s, new)
BY DEF Step, Aside, Beside

\* A register among the last k is among the last three.
LEMMA RecentEnough ==
  ASSUME NEW q, NEW r, Recent(q, r, 1) \/ Recent(q, r, 2)
  PROVE  Recent(q, r, 3)
BY RegAssumption DEF Recent, CG!Reg

-----------------------------------------------------------------------------
(* Emitting instructions *)

SameTables(s, new) ==
  /\ DOMAIN new = Members
  /\ new.queue = s.queue /\ new.temp = s.temp /\ new.reg = s.reg
  /\ new.base = s.base /\ new.spilled = s.spilled /\ new.count = s.count

LEMMA Emitted ==
  ASSUME NEW s, DOMAIN s = Members, NEW op, NEW a, NEW b
  PROVE  /\ SameTables(s, CG!Code(s, op, a, b))
         /\ CG!Code(s, op, a, b).out = Exec(s.out, op, a, b)
<1> DEFINE new == CG!Code(s, op, a, b)
<1>1. /\ DOMAIN new = Members
      /\ new.queue = s.queue /\ new.temp = s.temp /\ new.reg = s.reg
      /\ new.base = s.base /\ new.spilled = s.spilled /\ new.count = s.count
      /\ new.out = Exec(s.out, op, a, b)
  BY CodeFields
<1> QED BY <1>1 DEF SameTables

\* Two instructions
LEMMA EmittedTwo ==
  ASSUME NEW s, DOMAIN s = Members, NEW op, NEW a, NEW b, NEW op2, NEW a2, NEW b2
  PROVE  LET new == CG!Code(CG!Code(s, op, a, b), op2, a2, b2)
         IN  /\ SameTables(s, new)
             /\ new.out = Exec(Exec(s.out, op, a, b), op2, a2, b2)
<1> DEFINE one == CG!Code(s, op, a, b)
           new == CG!Code(one, op2, a2, b2)
<1>1. SameTables(s, one) /\ one.out = Exec(s.out, op, a, b) BY Emitted
<1> HIDE DEF one
<1>2. SameTables(one, new) /\ new.out = Exec(one.out, op2, a2, b2)
  BY <1>1, Emitted DEF SameTables
<1> HIDE DEF new
<1>3. SameTables(s, new) BY <1>1, <1>2 DEF SameTables
<1> QED BY <1>1, <1>2, <1>3 DEF new, one

\* The register of t is written, and registers that hold no temp.
LEMMA WriteTarget ==
  ASSUME NEW s, NEW f, Sound(s, f), NEW r \in CG!Reg, NEW t \in Temp, s.temp[r] = t,
         NEW new, SameTables(s, new), IsMachine(new.out), new.out.mem = s.out.mem,
         \A y \in CG!Reg : y # r /\ s.temp[y] # NoTemp =>
                             new.out.preg[y] = s.out.preg[y],
         NEW g, g[t] # Undef => new.out.preg[r] = g[t],
         \A u \in Temp \ {t} : g[u] = f[u]
  PROVE  Sound(new, g)
<1>0. /\ Ordered(s) /\ IsTables(s) /\ Agree(s) /\ IsQueue(s.queue) /\ Home(s, f)
      /\ s.reg \in [Temp -> CG!Reg \cup {CG!NoReg}]
      /\ r # CG!NoReg
  BY RegAssumption DEF Sound, Ordered, IsTables, CG!Reg, CG!NoReg
<1>1. /\ DOMAIN new = Members
      /\ new.queue = s.queue /\ new.temp = s.temp /\ new.reg = s.reg
      /\ new.base = s.base /\ new.spilled = s.spilled /\ new.count = s.count
  BY DEF SameTables
<1>2. IsTables(new) BY <1>0, <1>1 DEF IsTables, Members
<1>3. Slots(new)
  <2>1. Slots(s) BY <1>0 DEF Ordered
  <2> QED BY <1>1, <2>1, SameSlots
<1>4. Written(new)
  <2>1. Written(s) BY <1>0 DEF Ordered
  <2>2. new.out.mem = s.out.mem /\ new.count = s.count BY <1>1
  <2> QED BY <2>1, <2>2 DEF Written
<1>5. Agree(new) BY <1>0, <1>1 DEF Agree
<1>6. Home(new, g)
  <2> SUFFICES ASSUME NEW u \in Temp, g[u] # Undef
               PROVE IF new.reg[u] # CG!NoReg
                     THEN new.out.preg[new.reg[u]] = g[u] ELSE InSlot(new, g, u)
    BY DEF Home
  <2>1. CASE u = t
    <3>1. s.reg[t] = r BY <1>0 DEF Agree
    <3> QED BY <1>0, <1>1, <2>1, <3>1
  <2>2. CASE u # t
    <3>1. g[u] = f[u] BY <2>2
    <3>2. IF s.reg[u] # CG!NoReg THEN s.out.preg[s.reg[u]] = f[u]
          ELSE InSlot(s, f, u)
      BY <1>0, <3>1 DEF Home
    <3>3. CASE s.reg[u] = CG!NoReg BY <1>1, <3>1, <3>2, <3>3 DEF InSlot
    <3>4. CASE s.reg[u] # CG!NoReg
      <4>1. s.reg[u] \in CG!Reg BY <1>0, <3>4
      <4>2. s.temp[s.reg[u]] = u BY <1>0, <4>1 DEF Agree
      <4>3. s.reg[u] # r /\ s.temp[s.reg[u]] # NoTemp BY <2>2, <4>2, TempAssumption
      <4>4. new.out.preg[s.reg[u]] = s.out.preg[s.reg[u]] BY <4>1, <4>3
      <4> QED BY <1>1, <3>1, <3>2, <3>4, <4>4
    <3> QED BY <3>3, <3>4
  <2> QED BY <2>1, <2>2
<1> QED BY <1>0, <1>1, <1>2, <1>3, <1>4, <1>5, <1>6 DEF Sound, Ordered

\* An instruction that writes no register a temp is in changes nothing.
LEMMA WriteNothing ==
  ASSUME NEW s, NEW f, Sound(s, f),
         NEW new, SameTables(s, new), IsMachine(new.out), new.out.mem = s.out.mem,
         \A y \in CG!Reg : s.temp[y] # NoTemp => new.out.preg[y] = s.out.preg[y]
  PROVE  Sound(new, f)
<1>0. /\ Ordered(s) /\ IsTables(s) /\ Agree(s) /\ IsQueue(s.queue) /\ Home(s, f)
      /\ s.reg \in [Temp -> CG!Reg \cup {CG!NoReg}]
  BY DEF Sound, Ordered, IsTables
<1>1. /\ DOMAIN new = Members
      /\ new.queue = s.queue /\ new.temp = s.temp /\ new.reg = s.reg
      /\ new.base = s.base /\ new.spilled = s.spilled /\ new.count = s.count
  BY DEF SameTables
<1>2. IsTables(new) BY <1>0, <1>1 DEF IsTables, Members
<1>3. Slots(new)
  <2>1. Slots(s) BY <1>0 DEF Ordered
  <2> QED BY <1>1, <2>1, SameSlots
<1>4. Written(new)
  <2>1. Written(s) BY <1>0 DEF Ordered
  <2>2. new.out.mem = s.out.mem /\ new.count = s.count BY <1>1
  <2> QED BY <2>1, <2>2 DEF Written
<1>5. Agree(new) BY <1>0, <1>1 DEF Agree
<1>6. ASSUME NEW u \in Temp, s.reg[u] # CG!NoReg
      PROVE  new.out.preg[s.reg[u]] = s.out.preg[s.reg[u]]
  <2>1. s.reg[u] \in CG!Reg BY <1>0, <1>6
  <2>2. s.temp[s.reg[u]] = u BY <1>0, <2>1 DEF Agree
  <2> QED BY <2>1, <2>2, TempAssumption
<1>7. \A u \in Temp : InSlot(s, f, u) => InSlot(new, f, u) BY <1>1 DEF InSlot
<1>8. Home(new, f) BY <1>0, <1>1, <1>6, <1>7 DEF Home
<1> QED BY <1>0, <1>1, <1>2, <1>3, <1>4, <1>5, <1>8 DEF Sound, Ordered

-----------------------------------------------------------------------------
(* The registers of a quad: each stays with its temp until the quad is     *)
(* written, because those the quad has used are last in the queue.         *)

\* A register that holds a temp has its value.
LEMMA InRegister ==
  ASSUME NEW s, NEW e, Sound(s, e), NEW r \in CG!Reg, NEW t \in Temp,
         s.temp[r] = t, e[t] # Undef
  PROVE  s.out.preg[r] = e[t]
BY RegAssumption DEF Sound, Agree, Home, CG!Reg, CG!NoReg

\* s1 has what s had, t in r, and the recent registers unchanged.
Brings(s, s1, e, t, r) ==
  /\ Sound(s1, e)
  /\ Step(s, s1)
  /\ r \in CG!Reg
  /\ s1.temp[r] = t
  /\ e[t] # Undef => s1.out.preg[r] = e[t]
  /\ Recent(s1.queue, r, 1)
  /\ \A x \in CG!Reg : Recent(s.queue, x, 1) => Recent(s1.queue, x, 2)
  /\ \A x \in CG!Reg : Recent(s.queue, x, 2) => Recent(s1.queue, x, 3)
  /\ \A x \in CG!Reg :
       Recent(s.queue, x, 1) \/ Recent(s.queue, x, 2) \/ Recent(s.queue, x, 3) =>
         s1.temp[x] = s.temp[x]

\* A register is got for t and the recent ones are spared.
LEMMA GotIsBrought ==
  ASSUME NEW s, NEW s1, NEW e, NEW t \in Temp, NEW r \in CG!Reg, Sound(s1, e),
         s1.temp[r] = t, Aside(s, s1, r), Spares(s, s1)
  PROVE  Brings(s, s1, e, t, r)
<1>1. Step(s, s1) BY AsideIsStep
<1>2. Recent(s1.queue, r, 1) BY DEF Aside, Beside
<1>3. e[t] # Undef => s1.out.preg[r] = e[t] BY InRegister
<1>4. \A x \in CG!Reg, k \in Nat : Recent(s.queue, x, k) => Recent(s1.queue, x, k + 1)
  BY DEF Aside, Beside
<1>5. \A x \in CG!Reg : Recent(s.queue, x, 1) => Recent(s1.queue, x, 2)
  <2> TAKE x \in CG!Reg
  <2>1. Recent(s.queue, x, 1) => Recent(s1.queue, x, 1 + 1) BY <1>4
  <2> QED BY <2>1
<1>6. \A x \in CG!Reg : Recent(s.queue, x, 2) => Recent(s1.queue, x, 3)
  <2> TAKE x \in CG!Reg
  <2>1. Recent(s.queue, x, 2) => Recent(s1.queue, x, 2 + 1) BY <1>4
  <2> QED BY <2>1
<1>7. \A x \in CG!Reg : Recent(s.queue, x, 3) => s1.temp[x] = s.temp[x]
  BY DEF Spares
<1>8. \A x \in CG!Reg :
        Recent(s.queue, x, 1) \/ Recent(s.queue, x, 2) \/ Recent(s.queue, x, 3) =>
          s1.temp[x] = s.temp[x]
  BY <1>7, RecentEnough
<1> QED BY <1>1, <1>2, <1>3, <1>5, <1>6, <1>8 DEF Brings

LEMMA Target ==
  ASSUME NEW s, NEW e \in [Temp -> Value], Sound(s, e), NEW t \in Temp
  PROVE  LET s1 == CG!GetAnyRegisterFor(s, t, FALSE)
         IN  Brings(s, s1, Forget(e, t), t, s1.reg[t])
<1> DEFINE s1 == CG!GetAnyRegisterFor(s, t, FALSE)
<1>1. Forget(e, t)[t] = Undef /\ \A u \in Temp \ {t} : Forget(e, t)[u] = e[u]
  BY DEF Forget
<1>2. /\ Sound(s1, Forget(e, t))
      /\ s1.reg[t] \in CG!Reg
      /\ s1.temp[s1.reg[t]] = t
      /\ Aside(s, s1, s1.reg[t])
      /\ Spares(s, s1)
  BY <1>1, AnyForTarget
<1> HIDE DEF s1
<1> QED BY <1>2, GotIsBrought DEF s1

LEMMA Operand ==
  ASSUME NEW s, NEW e, Sound(s, e), NEW t \in Temp
  PROVE  LET s1 == CG!GetAnyRegisterFor(s, t, TRUE)
         IN  Brings(s, s1, e, t, s1.reg[t])
<1> DEFINE s1 == CG!GetAnyRegisterFor(s, t, TRUE)
<1>1. /\ Sound(s1, e)
      /\ s1.reg[t] \in CG!Reg
      /\ s1.temp[s1.reg[t]] = t
      /\ Aside(s, s1, s1.reg[t])
      /\ Spares(s, s1)
      /\ AllInSlots(s, e) => AllInSlots(s1, e)
  BY AnyForOperand
<1> HIDE DEF s1
<1> QED BY <1>1, GotIsBrought DEF s1

\* The quad has computed v for t.
Computed(s, new, e, t, v) == Sound(new, [e EXCEPT ![t] = v]) /\ Step(s, new)

LEMMA StepsInPlace ==
  ASSUME NEW s, NEW new, SameTables(s, new), new.out.mem = s.out.mem,
         new.out.outarg = s.out.outarg
  PROVE  Step(s, new)
BY KeepsItself DEF Step, SameTables

\* The registers are got, and the instructions written, the last of which
\* leaves v in the register of t.
LEMMA Finished ==
  ASSUME NEW s, NEW e \in [Temp -> Value], NEW t \in Temp,
         NEW st, Step(s, st), Sound(st, Forget(e, t)),
         NEW r \in CG!Reg, st.temp[r] = t,
         NEW new, SameTables(st, new), IsMachine(new.out),
         new.out.mem = st.out.mem, new.out.outarg = st.out.outarg,
         \A y \in CG!Reg : y # r /\ st.temp[y] # NoTemp =>
                             new.out.preg[y] = st.out.preg[y],
         NEW v, v # Undef => new.out.preg[r] = v
  PROVE  Computed(s, new, e, t, v)
<1> DEFINE f == Forget(e, t)
           g == [e EXCEPT ![t] = v]
<1>1. g[t] = v /\ \A u \in Temp \ {t} : g[u] = f[u] BY DEF Forget
<1> HIDE DEF f, g
<1>2. Sound(st, f) BY DEF f
<1>3. Sound(new, g) BY <1>1, <1>2, WriteTarget
<1>4. Step(st, new) BY StepsInPlace
<1>5. Step(s, new) BY <1>4, StepTransitive
<1> QED BY <1>3, <1>5 DEF Computed, g

\* MOV_IM
LEMMA MovImComputes ==
  ASSUME NEW s, NEW e \in [Temp -> Value], Sound(s, e), NEW t \in Temp,
         NEW v \in Word
  PROVE  Computed(s, CG!MovIm(s, t, v), e, t, v)
<1> DEFINE s1 == CG!GetAnyRegisterFor(s, t, FALSE)
           r1 == s1.reg[t]
           new == CG!Code(s1, "mov_im", r1, v)
<1>1. CG!MovIm(s, t, v) = new BY DEF CG!MovIm
<1>0. Brings(s, s1, Forget(e, t), t, r1) BY Target
<1>2. /\ Sound(s1, Forget(e, t))
      /\ Step(s, s1)
      /\ r1 \in CG!Reg
      /\ s1.temp[r1] = t
      /\ Recent(s1.queue, r1, 1)
  BY <1>0 DEF Brings
<1> HIDE DEF s1
<1>3. DOMAIN s1 = Members /\ IsMachine(s1.out)
  BY <1>2 DEF Sound, Ordered, IsTables, Members
<1>4. SameTables(s1, new) /\ new.out = Exec(s1.out, "mov_im", r1, v)
  BY <1>3, Emitted
<1> HIDE DEF r1, new
<1>5. /\ IsMachine(new.out)
      /\ new.out.preg = [s1.out.preg EXCEPT ![r1] = v]
      /\ new.out.mem = s1.out.mem
      /\ new.out.outarg = s1.out.outarg
  <2>1. new.out = Set(s1.out, r1, v) BY <1>4, ExecMovImIs
  <2>2. v \in Value BY DEF Value
  <2> QED BY <1>2, <1>3, <2>1, <2>2, SetRegister
<1>6. s1.out.preg \in [CG!Reg -> Value] BY <1>3 DEF IsMachine
<1>7. /\ new.out.preg[r1] = v
      /\ \A y \in CG!Reg : y # r1 /\ s1.temp[y] # NoTemp =>
                             new.out.preg[y] = s1.out.preg[y]
  BY <1>2, <1>5, <1>6
<1>8. Computed(s, new, e, t, v) BY <1>2, <1>4, <1>5, <1>7, Finished
<1> QED BY <1>1, <1>8

\* MOV.  A mov from a register to itself is where t = left goes wrong: t was
\* never loaded, and is worth nothing then.
LEMMA MovComputes ==
  ASSUME NEW s, NEW e \in [Temp -> Value], Sound(s, e), NEW t \in Temp,
         NEW left \in Temp
  PROVE  /\ Computed(s, CG!Mov(s, t, left), e, t, Undef)
         /\ t # left => Computed(s, CG!Mov(s, t, left), e, t, e[left])
<1> DEFINE s1 == CG!GetAnyRegisterFor(s, t, FALSE)
           r1 == s1.reg[t]
           s2 == CG!GetAnyRegisterFor(s1, left, TRUE)
           r2 == s2.reg[left]
           new == CG!Code(s2, "mov", r1, r2)
           f == Forget(e, t)
<1>1. CG!Mov(s, t, left) = new BY DEF CG!Mov
<1>0. Brings(s, s1, f, t, r1) BY Target
<1>2. /\ Sound(s1, f)
      /\ Step(s, s1)
      /\ r1 \in CG!Reg
      /\ s1.temp[r1] = t
      /\ Recent(s1.queue, r1, 1)
  BY <1>0 DEF Brings
<1> HIDE DEF s1, r1, f
<1>3. Brings(s1, s2, f, left, r2) BY <1>2, Operand
<1> HIDE DEF s2, r2
<1>4. s2.temp[r1] = t BY <1>2, <1>3 DEF Brings
<1>5. Step(s, s2) BY <1>2, <1>3, StepTransitive DEF Brings
<1>6. DOMAIN s2 = Members /\ IsMachine(s2.out)
  BY <1>3 DEF Brings, Sound, Ordered, IsTables, Members
<1>7. s2.out.preg \in [CG!Reg -> Value] BY <1>6 DEF IsMachine
<1>8. SameTables(s2, new) /\ new.out = Exec(s2.out, "mov", r1, r2)
  BY <1>6, Emitted
<1> HIDE DEF new
<1>9. /\ IsMachine(new.out)
      /\ new.out.preg = [s2.out.preg EXCEPT ![r1] = s2.out.preg[r2]]
      /\ new.out.mem = s2.out.mem
      /\ new.out.outarg = s2.out.outarg
  <2>1. new.out = Set(s2.out, r1, s2.out.preg[r2]) BY <1>8, ExecMovIs
  <2>2. s2.out.preg[r2] \in Value BY <1>3, <1>7 DEF Brings
  <2> QED BY <1>2, <1>6, <2>1, <2>2, SetRegister
<1>10. /\ new.out.preg[r1] = s2.out.preg[r2]
       /\ \A y \in CG!Reg : y # r1 /\ s2.temp[y] # NoTemp =>
                              new.out.preg[y] = s2.out.preg[y]
  BY <1>2, <1>7, <1>9
<1>11. Sound(s2, Forget(e, t)) BY <1>3 DEF f, Brings
<1>12. Computed(s, new, e, t, Undef)
  BY <1>2, <1>4, <1>5, <1>8, <1>9, <1>10, <1>11, Finished
<1>13. ASSUME t # left PROVE Computed(s, new, e, t, e[left])
  <2>1. e[left] # Undef => new.out.preg[r1] = e[left]
    BY <1>3, <1>10, <1>13 DEF f, Brings, Forget
  <2> QED BY <1>2, <1>4, <1>5, <1>8, <1>9, <1>10, <1>11, <2>1, Finished
<1> QED BY <1>1, <1>12, <1>13

\* The machine new is x with v in register a (and any flags).
Wrote(x, new, a, v) ==
  /\ IsMachine(new)
  /\ new.mem = x.mem
  /\ new.outarg = x.outarg
  /\ \A y \in CG!Reg : y # a => new.preg[y] = x.preg[y]
  /\ new.preg[a] = v

\* mov target, left; op target, right
LEMMA MovThenArith ==
  ASSUME NEW x, IsMachine(x), NEW a \in CG!Reg, NEW b \in CG!Reg, NEW c \in CG!Reg,
         NEW op \in UnaryOp \cup AddOp
  PROVE  LET new == Exec(Exec(x, "mov", a, b), op, a, c)
         IN  /\ c = a => Wrote(x, new, a, Lift(op, x.preg[b], x.preg[b]))
             /\ c # a => Wrote(x, new, a, Lift(op, x.preg[b], x.preg[c]))
<1> DEFINE one == Exec(x, "mov", a, b)
           v == Lift(op, one.preg[a], one.preg[c])
           two == Set(one, a, v)
           new == Exec(one, op, a, c)
<1>0. x.preg \in [CG!Reg -> Value] /\ x.preg[b] \in Value BY DEF IsMachine
<1>1. one = Set(x, a, x.preg[b]) BY ExecMovIs
<1>2. new = Clobber(two) BY ExecArithIs
<1> HIDE DEF one, new
<1>3. /\ IsMachine(one)
      /\ one.preg = [x.preg EXCEPT ![a] = x.preg[b]]
      /\ one.mem = x.mem
      /\ one.outarg = x.outarg
  BY <1>0, <1>1, SetRegister
<1>4. one.preg \in [CG!Reg -> Value] BY <1>3 DEF IsMachine
<1>5. v \in Value
  <2>1. one.preg[a] \in Value /\ one.preg[c] \in Value BY <1>4
  <2>2. op \in Op \cup {"CQO"} BY DEF Op
  <2> QED BY <2>1, <2>2, LiftValue
<1>6. /\ c = a => v = Lift(op, x.preg[b], x.preg[b])
      /\ c # a => v = Lift(op, x.preg[b], x.preg[c])
  BY <1>0, <1>3
<1> HIDE DEF v, two
<1>7. /\ IsMachine(two)
      /\ two.preg = [one.preg EXCEPT ![a] = v]
      /\ two.mem = one.mem
      /\ two.outarg = one.outarg
  BY <1>3, <1>5, SetRegister DEF two
<1>8. /\ IsMachine(new)
      /\ new.preg = two.preg
      /\ new.mem = two.mem
      /\ new.outarg = two.outarg
  BY <1>2, <1>7, ClobberFlags
<1>9. new.preg[a] = v /\ \A y \in CG!Reg : y # a => new.preg[y] = x.preg[y]
  BY <1>0, <1>3, <1>4, <1>7, <1>8
<1>10. Wrote(x, new, a, v) BY <1>3, <1>7, <1>8, <1>9 DEF Wrote
<1> QED BY <1>6, <1>10 DEF new, one

\* NOT and NEG
LEMMA UnaryComputes ==
  ASSUME NEW s, NEW e \in [Temp -> Value], Sound(s, e), NEW t \in Temp,
         NEW left \in Temp, t # left, NEW op \in UnaryOp
  PROVE  Computed(s, CG!Unary(s, op, t, left), e, t, Lift(op, e[left], e[left]))
<1> DEFINE s1 == CG!GetAnyRegisterFor(s, t, FALSE)
           r1 == s1.reg[t]
           s2 == CG!GetAnyRegisterFor(s1, left, TRUE)
           r2 == s2.reg[left]
           new == CG!Code(CG!Code(s2, "mov", r1, r2), op, r1, r1)
           f == Forget(e, t)
           v == Lift(op, e[left], e[left])
<1>1. CG!Unary(s, op, t, left) = new BY DEF CG!Unary
<1>0. Brings(s, s1, f, t, r1) BY Target
<1>2. /\ Sound(s1, f)
      /\ Step(s, s1)
      /\ r1 \in CG!Reg
      /\ s1.temp[r1] = t
      /\ Recent(s1.queue, r1, 1)
  BY <1>0 DEF Brings
<1> HIDE DEF s1, r1, f
<1>3. Brings(s1, s2, f, left, r2) BY <1>2, Operand
<1> HIDE DEF s2, r2
<1>4. s2.temp[r1] = t BY <1>2, <1>3 DEF Brings
<1>5. Step(s, s2) BY <1>2, <1>3, StepTransitive DEF Brings
<1>6. DOMAIN s2 = Members /\ IsMachine(s2.out)
  BY <1>3 DEF Brings, Sound, Ordered, IsTables, Members
<1>7. r2 \in CG!Reg BY <1>3 DEF Brings
<1>8. /\ SameTables(s2, new)
      /\ new.out = Exec(Exec(s2.out, "mov", r1, r2), op, r1, r1)
  BY <1>6, EmittedTwo
<1> HIDE DEF new
<1>9. Wrote(s2.out, new.out, r1, Lift(op, s2.out.preg[r2], s2.out.preg[r2]))
  BY <1>2, <1>6, <1>7, <1>8, MovThenArith
<1>10. v # Undef => new.out.preg[r1] = v
  <2>1. v # Undef => e[left] # Undef BY DEF Lift
  <2>2. e[left] # Undef => s2.out.preg[r2] = e[left] BY <1>3 DEF Brings, f, Forget
  <2> QED BY <1>9, <2>1, <2>2 DEF Wrote
<1>11. Sound(s2, Forget(e, t)) BY <1>3 DEF f, Brings
<1> HIDE DEF v
<1>12. Computed(s, new, e, t, v)
  BY <1>2, <1>4, <1>5, <1>8, <1>9, <1>10, <1>11, Finished DEF Wrote
<1> QED BY <1>1, <1>12 DEF v

\* ADD and SUB
LEMMA AdditiveComputes ==
  ASSUME NEW s, NEW e \in [Temp -> Value], Sound(s, e), NEW t \in Temp,
         NEW left \in Temp, NEW right \in Temp, t \notin {left, right},
         NEW op \in AddOp
  PROVE  Computed(s, CG!Additive(s, op, t, left, right), e, t,
                  Lift(op, e[left], e[right]))
<1> DEFINE s1 == CG!GetAnyRegisterFor(s, t, FALSE)
           r1 == s1.reg[t]
           s2 == CG!GetAnyRegisterFor(s1, left, TRUE)
           r2 == s2.reg[left]
           s3 == CG!GetAnyRegisterFor(s2, right, TRUE)
           r3 == s3.reg[right]
           new == CG!Code(CG!Code(s3, "mov", r1, r2), op, r1, r3)
           f == Forget(e, t)
           v == Lift(op, e[left], e[right])
<1>1. CG!Additive(s, op, t, left, right) = new BY DEF CG!Additive
<1>0. Brings(s, s1, f, t, r1) BY Target
<1>2. /\ Sound(s1, f)
      /\ Step(s, s1)
      /\ r1 \in CG!Reg
      /\ s1.temp[r1] = t
      /\ Recent(s1.queue, r1, 1)
  BY <1>0 DEF Brings
<1> HIDE DEF s1, r1, f
<1>3. Brings(s1, s2, f, left, r2) BY <1>2, Operand
<1> HIDE DEF s2, r2
<1>4. Brings(s2, s3, f, right, r3)
  <2>1. Sound(s2, f) BY <1>3 DEF Brings
  <2> QED BY <2>1, Operand
<1> HIDE DEF s3, r3
<1>5. s3.temp[r1] = t /\ s3.temp[r2] = left
  <2>1. s2.temp[r1] = t /\ Recent(s2.queue, r1, 2) BY <1>2, <1>3 DEF Brings
  <2>2. s2.temp[r2] = left /\ Recent(s2.queue, r2, 1) /\ r2 \in CG!Reg
    BY <1>3 DEF Brings
  <2> QED BY <1>2, <1>4, <2>1, <2>2 DEF Brings
<1>6. Step(s, s3)
  <2>1. Step(s, s2) BY <1>2, <1>3, StepTransitive DEF Brings
  <2> QED BY <1>4, <2>1, StepTransitive DEF Brings
<1>7. DOMAIN s3 = Members /\ IsMachine(s3.out)
  BY <1>4 DEF Brings, Sound, Ordered, IsTables, Members
<1>8. r2 \in CG!Reg /\ r3 \in CG!Reg BY <1>3, <1>4 DEF Brings
<1>9. r3 # r1 BY <1>4, <1>5 DEF Brings
<1>10. /\ SameTables(s3, new)
       /\ new.out = Exec(Exec(s3.out, "mov", r1, r2), op, r1, r3)
  BY <1>7, EmittedTwo
<1> HIDE DEF new
<1>11. Wrote(s3.out, new.out, r1, Lift(op, s3.out.preg[r2], s3.out.preg[r3]))
  BY <1>2, <1>7, <1>8, <1>9, <1>10, MovThenArith
<1>12. v # Undef => new.out.preg[r1] = v
  <2>1. v # Undef => e[left] # Undef /\ e[right] # Undef BY DEF Lift
  <2>2. e[left] # Undef => s3.out.preg[r2] = e[left]
    <3>1. f[left] = e[left] BY DEF f, Forget
    <3>2. Sound(s3, f) BY <1>4 DEF Brings
    <3> QED BY <1>5, <1>8, <3>1, <3>2, InRegister
  <2>3. e[right] # Undef => s3.out.preg[r3] = e[right] BY <1>4 DEF Brings, f, Forget
  <2> QED BY <1>11, <2>1, <2>2, <2>3 DEF Wrote
<1>13. Sound(s3, Forget(e, t)) BY <1>4 DEF f, Brings
<1> HIDE DEF v
<1>14. Computed(s, new, e, t, v)
  BY <1>2, <1>5, <1>6, <1>10, <1>11, <1>12, <1>13, Finished DEF Wrote
<1> QED BY <1>1, <1>14 DEF v

\* A third register, of the recent ones, also stays with its temp.
LEMMA AnyIsBeside ==
  ASSUME NEW s, NEW e, Sound(s, e)
  PROVE  LET new == CG!GetAnyRegister(s)
             q   == s.queue[0]
         IN  /\ Sound(new, e)
             /\ Step(s, new)
             /\ q \in CG!Reg
             /\ new.temp[q] = NoTemp
             /\ \A x \in CG!Reg : Recent(s.queue, x, 3) => new.temp[x] = s.temp[x]
<1> DEFINE new == CG!GetAnyRegister(s)
<1>1. /\ Sound(new, e)
      /\ s.queue[0] \in CG!Reg
      /\ Aside(s, new, s.queue[0])
      /\ Spares(s, new)
      /\ new.temp[s.queue[0]] = NoTemp
  BY AnyEmptied
<1> HIDE DEF new
<1>2. Step(s, new) BY <1>1, AsideIsStep
<1>3. \A x \in CG!Reg : Recent(s.queue, x, 3) => new.temp[x] = s.temp[x]
  BY <1>1 DEF Spares
<1> QED BY <1>1, <1>2, <1>3 DEF new

\* The machine new is x with v in register a, and register q changed too.
WroteBeside(x, new, a, q, v) ==
  /\ IsMachine(new)
  /\ new.mem = x.mem
  /\ new.outarg = x.outarg
  /\ \A y \in CG!Reg : y # a /\ y # q => new.preg[y] = x.preg[y]
  /\ new.preg[a] = v

\* xor target, target; mov temp, 1; cmp left, right; cmov target, temp
LEMMA CompareWrites ==
  ASSUME NEW x, IsMachine(x), NEW a \in CG!Reg, NEW q \in CG!Reg, NEW b \in CG!Reg,
         NEW c \in CG!Reg, a # q, b # a, b # q, c # a, c # q, NEW op \in CompOp
  PROVE  WroteBeside(x,
           Exec(Exec(Exec(Exec(x, "zero", a, a), "mov_im", q, 1), "cmp", b, c), op, a, q),
           a, q, Lift(op, x.preg[b], x.preg[c]))
<1> DEFINE x0 == Set(x, a, 0)
           x1 == Exec(x, "zero", a, a)
           x2 == Exec(x1, "mov_im", q, 1)
           x3 == Exec(x2, "cmp", b, c)
           v == IF Undef \in {x3.flags[1], x3.flags[2]} THEN Undef
                ELSE IF Meaning(op, x3.flags[1], x3.flags[2]) = 1
                     THEN x3.preg[q] ELSE x3.preg[a]
           new == Exec(x3, op, a, q)
<1>0. /\ x.preg \in [CG!Reg -> Value]
      /\ 0 \in Value /\ 1 \in Value
  BY WordAssumption DEF IsMachine, Value
<1>1. x1 = Clobber(x0) /\ x2 = Set(x1, q, 1)
      /\ x3 = [x2 EXCEPT !.flags = <<x2.preg[b], x2.preg[c]>>]
  BY ExecZeroIs, ExecMovImIs, ExecCmpIs
<1>2. new = Set(x3, a, v) BY ExecSetIfIs
<1> HIDE DEF x1, x2, x3, new
<1>3. /\ IsMachine(x0)
      /\ x0.preg = [x.preg EXCEPT ![a] = 0]
      /\ x0.mem = x.mem
      /\ x0.outarg = x.outarg
      /\ x0.flags = x.flags
  BY <1>0, SetRegister
<1> HIDE DEF x0
<1>4. /\ IsMachine(x1)
      /\ x1.preg = x0.preg
      /\ x1.mem = x0.mem
      /\ x1.outarg = x0.outarg
  BY <1>1, <1>3, ClobberFlags
<1>5. /\ IsMachine(x2)
      /\ x2.preg = [x1.preg EXCEPT ![q] = 1]
      /\ x2.mem = x1.mem
      /\ x2.outarg = x1.outarg
      /\ x2.flags = x1.flags
  BY <1>0, <1>1, <1>4, SetRegister
<1>6. /\ x2.preg[a] = 0 /\ x2.preg[q] = 1
      /\ x2.preg[b] = x.preg[b] /\ x2.preg[c] = x.preg[c]
      /\ \A y \in CG!Reg : y # a /\ y # q => x2.preg[y] = x.preg[y]
      /\ x2.preg \in [CG!Reg -> Value]
  BY <1>0, <1>3, <1>4, <1>5
<1>7. x2.preg[b] \in Value /\ x2.preg[c] \in Value BY <1>6
<1>8. /\ IsMachine(x3)
      /\ x3.preg = x2.preg
      /\ x3.mem = x2.mem
      /\ x3.outarg = x2.outarg
      /\ x3.flags = <<x2.preg[b], x2.preg[c]>>
  BY <1>1, <1>5, <1>7, SetFlags
<1>9. v = Lift(op, x.preg[b], x.preg[c]) /\ v \in Value
  <2>1. x3.flags[1] = x.preg[b] /\ x3.flags[2] = x.preg[c] BY <1>6, <1>8
  <2>2. x3.preg[q] = 1 /\ x3.preg[a] = 0 BY <1>6, <1>8
  <2>3. CASE Undef \in {x.preg[b], x.preg[c]}
    BY <2>1, <2>3 DEF Lift, Value
  <2>4. CASE Undef \notin {x.preg[b], x.preg[c]}
    <3>1. x.preg[b] \in Word /\ x.preg[c] \in Word BY <1>0, <2>4 DEF Value
    <3>2. Meaning(op, x.preg[b], x.preg[c]) \in {0, 1}
      BY <3>1, MeaningAssumption
    <3>3. Lift(op, x.preg[b], x.preg[c]) = Meaning(op, x.preg[b], x.preg[c])
      BY <2>4 DEF Lift
    <3> QED BY <1>0, <2>1, <2>2, <2>4, <3>2, <3>3
  <2> QED BY <2>3, <2>4
<1> HIDE DEF v
<1>10. /\ IsMachine(new)
       /\ new.preg = [x3.preg EXCEPT ![a] = v]
       /\ new.mem = x3.mem
       /\ new.outarg = x3.outarg
       /\ new.flags = x3.flags
  BY <1>2, <1>8, <1>9, SetRegister
<1>11. new.preg[a] = v /\ \A y \in CG!Reg : y # a /\ y # q => new.preg[y] = x.preg[y]
  BY <1>6, <1>8, <1>10
<1>12. WroteBeside(x, new, a, q, v)
  BY <1>3, <1>4, <1>5, <1>8, <1>10, <1>11 DEF WroteBeside
<1> QED BY <1>9, <1>12 DEF new, x3, x2, x1

\* EQ, NE, LT, ...
LEMMA CompareComputes ==
  ASSUME NEW s, NEW e \in [Temp -> Value], Sound(s, e), NEW t \in Temp,
         NEW left \in Temp, NEW right \in Temp, t \notin {left, right},
         NEW op \in CompOp
  PROVE  Computed(s, CG!Compare(s, op, t, left, right), e, t,
                  Lift(op, e[left], e[right]))
<1> DEFINE s1 == CG!GetAnyRegisterFor(s, left, TRUE)
           r1 == s1.reg[left]
           s2 == CG!GetAnyRegisterFor(s1, right, TRUE)
           r2 == s2.reg[right]
           s3 == CG!GetAnyRegisterFor(s2, t, FALSE)
           r3 == s3.reg[t]
           q == s3.queue[0]
           s4 == CG!GetAnyRegister(s3)
           a == CG!Code(s4, "zero", r3, r3)
           b == CG!Code(a, "mov_im", q, 1)
           c == CG!Code(b, "cmp", r1, r2)
           new == CG!Code(c, op, r3, q)
           f == Forget(e, t)
           v == Lift(op, e[left], e[right])
<1>1. CG!Compare(s, op, t, left, right) = new BY DEF CG!Compare
<1>2. Brings(s, s1, e, left, r1) BY Operand
<1> HIDE DEF s1, r1
<1>3. Brings(s1, s2, e, right, r2)
  <2>1. Sound(s1, e) BY <1>2 DEF Brings
  <2> QED BY <2>1, Operand
<1> HIDE DEF s2, r2
<1>4. Brings(s2, s3, f, t, r3)
  <2>1. Sound(s2, e) BY <1>3 DEF Brings
  <2> QED BY <2>1, Target
<1> HIDE DEF s3, r3, f
<1>5. /\ Sound(s4, f)
      /\ Step(s3, s4)
      /\ q \in CG!Reg
      /\ s4.temp[q] = NoTemp
      /\ \A x \in CG!Reg : Recent(s3.queue, x, 3) => s4.temp[x] = s3.temp[x]
  <2>1. Sound(s3, f) BY <1>4 DEF Brings
  <2> QED BY <2>1, AnyIsBeside
<1> HIDE DEF s4, q
<1>6. r1 \in CG!Reg /\ r2 \in CG!Reg /\ r3 \in CG!Reg
  BY <1>2, <1>3, <1>4 DEF Brings
<1>7. s4.temp[r1] = left /\ s4.temp[r2] = right /\ s4.temp[r3] = t
  <2>1. s1.temp[r1] = left /\ Recent(s1.queue, r1, 1) BY <1>2 DEF Brings
  <2>2. s2.temp[r1] = left /\ Recent(s2.queue, r1, 2) BY <1>3, <1>6, <2>1 DEF Brings
  <2>3. s3.temp[r1] = left /\ Recent(s3.queue, r1, 3) BY <1>4, <1>6, <2>2 DEF Brings
  <2>4. s2.temp[r2] = right /\ Recent(s2.queue, r2, 1) BY <1>3 DEF Brings
  <2>5. s3.temp[r2] = right /\ Recent(s3.queue, r2, 2) BY <1>4, <1>6, <2>4 DEF Brings
  <2>6. s3.temp[r3] = t /\ Recent(s3.queue, r3, 1) BY <1>4 DEF Brings
  <2>7. Recent(s3.queue, r2, 3) /\ Recent(s3.queue, r3, 3)
    BY <2>5, <2>6, RecentEnough
  <2> QED BY <1>5, <1>6, <2>3, <2>5, <2>6, <2>7
<1>8. /\ r3 # q /\ r1 # r3 /\ r1 # q /\ r2 # r3 /\ r2 # q
  BY <1>5, <1>7, TempAssumption
<1>9. Step(s, s4)
  <2>1. Step(s, s2) BY <1>2, <1>3, StepTransitive DEF Brings
  <2>2. Step(s, s3) BY <1>4, <2>1, StepTransitive DEF Brings
  <2> QED BY <1>5, <2>2, StepTransitive
<1>10. DOMAIN s4 = Members /\ IsMachine(s4.out)
  BY <1>5 DEF Sound, Ordered, IsTables, Members
<1>11. /\ SameTables(s4, new)
       /\ new.out = Exec(Exec(Exec(Exec(s4.out, "zero", r3, r3), "mov_im", q, 1),
                              "cmp", r1, r2), op, r3, q)
  <2>1. SameTables(s4, b)
        /\ b.out = Exec(Exec(s4.out, "zero", r3, r3), "mov_im", q, 1)
    BY <1>10, EmittedTwo
  <2> HIDE DEF b
  <2>2. SameTables(b, new) /\ new.out = Exec(Exec(b.out, "cmp", r1, r2), op, r3, q)
    <3>1. DOMAIN b = Members BY <2>1 DEF SameTables
    <3> QED BY <3>1, EmittedTwo
  <2> HIDE DEF new
  <2> QED BY <2>1, <2>2 DEF SameTables
<1> HIDE DEF new
<1>12. WroteBeside(s4.out, new.out, r3, q, Lift(op, s4.out.preg[r1], s4.out.preg[r2]))
  BY <1>5, <1>6, <1>8, <1>10, <1>11, CompareWrites
<1>13. v # Undef => new.out.preg[r3] = v
  <2>1. v # Undef => e[left] # Undef /\ e[right] # Undef BY DEF Lift
  <2>2. f[left] = e[left] /\ f[right] = e[right] BY DEF f, Forget
  <2>3. e[left] # Undef => s4.out.preg[r1] = e[left]
    BY <1>5, <1>6, <1>7, <2>2, InRegister
  <2>4. e[right] # Undef => s4.out.preg[r2] = e[right]
    BY <1>5, <1>6, <1>7, <2>2, InRegister
  <2> QED BY <1>12, <2>1, <2>3, <2>4 DEF WroteBeside
<1>14. \A y \in CG!Reg : y # r3 /\ s4.temp[y] # NoTemp =>
                           new.out.preg[y] = s4.out.preg[y]
  BY <1>5, <1>12 DEF WroteBeside
<1>15. Sound(s4, Forget(e, t)) BY <1>5 DEF f
<1> HIDE DEF v
<1>16. Computed(s, new, e, t, v)
  BY <1>6, <1>7, <1>9, <1>11, <1>12, <1>13, <1>14, <1>15, Finished DEF WroteBeside
<1> QED BY <1>1, <1>16 DEF v

-----------------------------------------------------------------------------
(* MUL, IMUL, DIV and IDIV work on rax and rdx. *)

LEMMA RaxRdx == CG!rax \in CG!Reg /\ CG!rdx \in CG!Reg /\ CG!rax # CG!rdx
BY RegAssumption DEF CG!rax, CG!rdx, CG!Reg

\* The last instruction, when rax and what extends it are in place.
LEMMA WideWrites ==
  ASSUME NEW x, IsMachine(x), NEW y, IsMachine(y), NEW c \in CG!Reg,
         c # CG!rax, c # CG!rdx, NEW v \in Value,
         y.mem = x.mem, y.outarg = x.outarg,
         \A r \in CG!Reg : r # CG!rax /\ r # CG!rdx => y.preg[r] = x.preg[r]
  PROVE  WroteBeside(x, SetWide(y, v), CG!rax, CG!rdx, v)
<1> DEFINE new == SetWide(y, v)
<1>1. /\ IsMachine(new)
      /\ new.preg[CG!rax] = v
      /\ \A r \in CG!Reg : r # CG!rax /\ r # CG!rdx => new.preg[r] = y.preg[r]
      /\ new.mem = y.mem
      /\ new.outarg = y.outarg
  BY SetRaxRdx
<1> HIDE DEF new
<1> QED BY <1>1 DEF WroteBeside, new

\* mov rax, left
LEMMA MovRax ==
  ASSUME NEW x, IsMachine(x), NEW b \in CG!Reg
  PROVE  LET one == Exec(x, "mov", CG!rax, b)
         IN  /\ IsMachine(one)
             /\ one.preg = [x.preg EXCEPT ![CG!rax] = x.preg[b]]
             /\ one.mem = x.mem
             /\ one.outarg = x.outarg
<1>1. x.preg[b] \in Value BY DEF IsMachine
<1>2. Exec(x, "mov", CG!rax, b) = Set(x, CG!rax, x.preg[b]) BY ExecMovIs
<1> QED BY <1>1, <1>2, RaxRdx, SetRegister

LEMMA MulWrites ==
  ASSUME NEW x, IsMachine(x), NEW b \in CG!Reg, NEW c \in CG!Reg,
         c # CG!rax, c # CG!rdx, NEW op \in MulOp
  PROVE  WroteBeside(x, Exec(Exec(x, "mov", CG!rax, b), op, CG!rax, c),
                     CG!rax, CG!rdx, Lift(op, x.preg[b], x.preg[c]))
<1> DEFINE one == Exec(x, "mov", CG!rax, b)
           v == Lift(op, one.preg[0], one.preg[c])
<1>1. /\ IsMachine(one)
      /\ one.preg = [x.preg EXCEPT ![CG!rax] = x.preg[b]]
      /\ one.mem = x.mem
      /\ one.outarg = x.outarg
  BY MovRax
<1>2. Exec(one, op, CG!rax, c) = SetWide(one, v) BY ExecMulIs
<1> HIDE DEF one
<1>3. x.preg \in [CG!Reg -> Value] /\ one.preg \in [CG!Reg -> Value]
  BY <1>1 DEF IsMachine
<1>4. /\ one.preg[CG!rax] = x.preg[b] /\ one.preg[c] = x.preg[c]
      /\ \A r \in CG!Reg : r # CG!rax /\ r # CG!rdx => one.preg[r] = x.preg[r]
  BY <1>1, <1>3, RaxRdx
<1>5. v = Lift(op, x.preg[b], x.preg[c]) BY <1>4 DEF CG!rax
<1>6. v \in Value
  <2>1. x.preg[b] \in Value /\ x.preg[c] \in Value BY <1>3
  <2>2. op \in Op \cup {"CQO"} BY DEF Op
  <2> QED BY <1>5, <2>1, <2>2, LiftValue
<1> HIDE DEF v
<1>7. WroteBeside(x, SetWide(one, v), CG!rax, CG!rdx, v)
  BY <1>1, <1>4, <1>6, WideWrites
<1> QED BY <1>2, <1>5, <1>7 DEF one

\* xor rdx, rdx; div right
LEMMA DivWrites ==
  ASSUME NEW x, IsMachine(x), NEW b \in CG!Reg, NEW c \in CG!Reg,
         c # CG!rax, c # CG!rdx
  PROVE  WroteBeside(x,
           Exec(Exec(Exec(x, "mov", CG!rax, b), "zero", CG!rdx, CG!rdx), "DIV", CG!rax, c),
           CG!rax, CG!rdx, Lift("DIV", x.preg[b], x.preg[c]))
<1> DEFINE one == Exec(x, "mov", CG!rax, b)
           set == Set(one, CG!rdx, 0)
           two == Exec(one, "zero", CG!rdx, CG!rdx)
           v == Lift("DIV", two.preg[0], two.preg[c])
           w == IF two.preg[2] = 0 THEN v ELSE Undef
<1>0. 0 \in Value BY WordAssumption DEF Value
<1>1. /\ IsMachine(one)
      /\ one.preg = [x.preg EXCEPT ![CG!rax] = x.preg[b]]
      /\ one.mem = x.mem
      /\ one.outarg = x.outarg
  BY MovRax
<1>2. two = Clobber(set) BY ExecZeroIs
<1>3. Exec(two, "DIV", CG!rax, c) = SetWide(two, w) BY ExecDivIs
<1> HIDE DEF one, two
<1>4. /\ IsMachine(set)
      /\ set.preg = [one.preg EXCEPT ![CG!rdx] = 0]
      /\ set.mem = one.mem
      /\ set.outarg = one.outarg
      /\ set.flags = one.flags
  BY <1>0, <1>1, RaxRdx, SetRegister
<1> HIDE DEF set
<1>5. /\ IsMachine(two)
      /\ two.preg = set.preg
      /\ two.mem = set.mem
      /\ two.outarg = set.outarg
  BY <1>2, <1>4, ClobberFlags
<1>6. x.preg \in [CG!Reg -> Value] /\ one.preg \in [CG!Reg -> Value]
  BY <1>1 DEF IsMachine
<1>7. /\ two.preg[CG!rax] = x.preg[b] /\ two.preg[c] = x.preg[c]
      /\ two.preg[CG!rdx] = 0
      /\ \A r \in CG!Reg : r # CG!rax /\ r # CG!rdx => two.preg[r] = x.preg[r]
  BY <1>1, <1>4, <1>5, <1>6, RaxRdx
<1>8. w = Lift("DIV", x.preg[b], x.preg[c]) BY <1>7 DEF CG!rax, CG!rdx
<1>9. w \in Value
  <2>1. x.preg[b] \in Value /\ x.preg[c] \in Value BY <1>6
  <2>2. "DIV" \in Op \cup {"CQO"} BY DEF Op, DivOp
  <2> QED BY <1>8, <2>1, <2>2, LiftValue
<1> HIDE DEF w
<1>10. two.mem = x.mem /\ two.outarg = x.outarg BY <1>1, <1>4, <1>5
<1>11. WroteBeside(x, SetWide(two, w), CG!rax, CG!rdx, w)
  BY <1>5, <1>7, <1>9, <1>10, WideWrites
<1> QED BY <1>3, <1>8, <1>11 DEF one, two

\* cqo; idiv right
LEMMA IdivWrites ==
  ASSUME NEW x, IsMachine(x), NEW b \in CG!Reg, NEW c \in CG!Reg,
         c # CG!rax, c # CG!rdx
  PROVE  WroteBeside(x,
           Exec(Exec(Exec(x, "mov", CG!rax, b), "cqo", CG!rdx, CG!rax), "IDIV", CG!rax, c),
           CG!rax, CG!rdx, Lift("IDIV", x.preg[b], x.preg[c]))
<1> DEFINE one == Exec(x, "mov", CG!rax, b)
           z == Lift("CQO", one.preg[CG!rax], one.preg[CG!rax])
           two == Exec(one, "cqo", CG!rdx, CG!rax)
           w == IF two.preg[2] = Lift("CQO", two.preg[0], two.preg[0])
                THEN Lift("IDIV", two.preg[0], two.preg[c]) ELSE Undef
<1>1. /\ IsMachine(one)
      /\ one.preg = [x.preg EXCEPT ![CG!rax] = x.preg[b]]
      /\ one.mem = x.mem
      /\ one.outarg = x.outarg
  BY MovRax
<1>2. two = Set(one, CG!rdx, z) BY ExecCqoIs
<1>3. Exec(two, "IDIV", CG!rax, c) = SetWide(two, w) BY ExecIdivIs
<1> HIDE DEF one, two
<1>4. x.preg \in [CG!Reg -> Value] /\ one.preg \in [CG!Reg -> Value]
  BY <1>1 DEF IsMachine
<1>5. z \in Value
  <2>1. one.preg[CG!rax] \in Value BY <1>4, RaxRdx
  <2> QED BY <2>1, LiftValue
<1>6. /\ IsMachine(two)
      /\ two.preg = [one.preg EXCEPT ![CG!rdx] = z]
      /\ two.mem = one.mem
      /\ two.outarg = one.outarg
  BY <1>1, <1>2, <1>5, RaxRdx, SetRegister
<1>7. /\ two.preg[CG!rax] = x.preg[b] /\ two.preg[c] = x.preg[c]
      /\ two.preg[CG!rdx] = z
      /\ one.preg[CG!rax] = x.preg[b]
      /\ \A r \in CG!Reg : r # CG!rax /\ r # CG!rdx => two.preg[r] = x.preg[r]
  BY <1>1, <1>4, <1>6, RaxRdx
<1>8. w = Lift("IDIV", x.preg[b], x.preg[c]) BY <1>7 DEF CG!rax, CG!rdx
<1>9. w \in Value
  <2>1. x.preg[b] \in Value /\ x.preg[c] \in Value BY <1>4
  <2>2. "IDIV" \in Op \cup {"CQO"} BY DEF Op, DivOp
  <2> QED BY <1>8, <2>1, <2>2, LiftValue
<1> HIDE DEF w
<1>10. two.mem = x.mem /\ two.outarg = x.outarg BY <1>1, <1>6
<1>11. WroteBeside(x, SetWide(two, w), CG!rax, CG!rdx, w)
  BY <1>6, <1>7, <1>9, <1>10, WideWrites
<1> QED BY <1>3, <1>8, <1>11 DEF one, two

\* The instructions of a quad that works on rax.
LEMMA WideEmitted ==
  ASSUME NEW s, DOMAIN s = Members, IsMachine(s.out), NEW b \in CG!Reg,
         NEW c \in CG!Reg, c # CG!rax, c # CG!rdx, NEW op \in MulOp \cup DivOp
  PROVE  LET new == CG!Code(CG!ExtendRax(CG!Code(s, "mov", CG!rax, b), op), op, CG!rax, c)
         IN  /\ SameTables(s, new)
             /\ WroteBeside(s.out, new.out, CG!rax, CG!rdx,
                            Lift(op, s.out.preg[b], s.out.preg[c]))
<1> DEFINE one == CG!Code(s, "mov", CG!rax, b)
           new == CG!Code(CG!ExtendRax(one, op), op, CG!rax, c)
<1>0. SameTables(s, one) /\ one.out = Exec(s.out, "mov", CG!rax, b)
  BY Emitted
<1>1. CASE op \in MulOp
  <2>1. CG!ExtendRax(one, op) = one BY <1>1 DEF CG!ExtendRax, MulOp
  <2>2. SameTables(s, new)
        /\ new.out = Exec(Exec(s.out, "mov", CG!rax, b), op, CG!rax, c)
    BY <2>1, EmittedTwo
  <2> QED BY <1>1, <2>2, MulWrites
<1>2. CASE op = "DIV"
  <2> DEFINE two == CG!Code(one, "zero", CG!rdx, CG!rdx)
  <2>1. CG!ExtendRax(one, op) = two BY <1>2 DEF CG!ExtendRax
  <2>2. SameTables(s, two)
        /\ two.out = Exec(Exec(s.out, "mov", CG!rax, b), "zero", CG!rdx, CG!rdx)
    BY EmittedTwo
  <2> HIDE DEF two, one
  <2>3. SameTables(two, new) /\ new.out = Exec(two.out, op, CG!rax, c)
    BY <2>1, <2>2, Emitted DEF SameTables
  <2> HIDE DEF new
  <2>4. SameTables(s, new) BY <2>2, <2>3 DEF SameTables
  <2>5. WroteBeside(s.out, new.out, CG!rax, CG!rdx,
                    Lift("DIV", s.out.preg[b], s.out.preg[c]))
    BY <1>2, <2>2, <2>3, DivWrites
  <2> QED BY <1>2, <2>4, <2>5 DEF new, one
<1>3. CASE op = "IDIV"
  <2> DEFINE two == CG!Code(one, "cqo", CG!rdx, CG!rax)
  <2>1. CG!ExtendRax(one, op) = two BY <1>3 DEF CG!ExtendRax
  <2>2. SameTables(s, two)
        /\ two.out = Exec(Exec(s.out, "mov", CG!rax, b), "cqo", CG!rdx, CG!rax)
    BY EmittedTwo
  <2> HIDE DEF two, one
  <2>3. SameTables(two, new) /\ new.out = Exec(two.out, op, CG!rax, c)
    BY <2>1, <2>2, Emitted DEF SameTables
  <2> HIDE DEF new
  <2>4. SameTables(s, new) BY <2>2, <2>3 DEF SameTables
  <2>5. WroteBeside(s.out, new.out, CG!rax, CG!rdx,
                    Lift("IDIV", s.out.preg[b], s.out.preg[c]))
    BY <1>3, <2>2, <2>3, IdivWrites
  <2> QED BY <1>3, <2>4, <2>5 DEF new, one
<1> QED BY <1>1, <1>2, <1>3 DEF DivOp

LEMMA MultiplicativeComputes ==
  ASSUME NEW s, NEW e \in [Temp -> Value], Sound(s, e), NEW t \in Temp,
         s.reg[t] = CG!NoReg,
         NEW left \in Temp, NEW right \in Temp, t \notin {left, right},
         NEW op \in MulOp \cup DivOp
  PROVE  Computed(s, CG!Multiplicative(s, op, t, left, right), e, t,
                  Lift(op, e[left], e[right]))
<1> DEFINE s1 == CG!GetRegisterFor(s, CG!rax, t, FALSE)
           s2 == CG!GetRegister(s1, CG!rdx)
           s3 == CG!GetAnyRegisterFor(s2, left, TRUE)
           r3 == s3.reg[left]
           s4 == CG!GetAnyRegisterFor(s3, right, TRUE)
           r4 == s4.reg[right]
           new == CG!Code(CG!ExtendRax(CG!Code(s4, "mov", CG!rax, r3), op), op, CG!rax, r4)
           f == Forget(e, t)
           v == Lift(op, e[left], e[right])
<1>1. CG!Multiplicative(s, op, t, left, right) = new BY DEF CG!Multiplicative
<1>2. /\ Sound(s1, f)
      /\ Aside(s, s1, CG!rax)
      /\ s1.reg[t] = CG!rax
      /\ s1.temp[CG!rax] = t
  <2>1. GivesTo(s, s1, f, t, CG!rax) BY RaxRdx, ForTarget
  <2> QED BY <2>1 DEF GivesTo
<1> HIDE DEF s1, f
<1>3. /\ Sound(s2, f)
      /\ Aside(s1, s2, CG!rdx)
      /\ s2.temp[CG!rdx] = NoTemp
  BY <1>2, RaxRdx, Emptied
<1> HIDE DEF s2
<1>4. Brings(s2, s3, f, left, r3) BY <1>3, Operand
<1> HIDE DEF s3, r3
<1>5. Brings(s3, s4, f, right, r4)
  <2>1. Sound(s3, f) BY <1>4 DEF Brings
  <2> QED BY <2>1, Operand
<1> HIDE DEF s4, r4
<1>6. r3 \in CG!Reg /\ r4 \in CG!Reg BY <1>4, <1>5 DEF Brings
<1>7. /\ s4.temp[CG!rax] = t /\ s4.temp[CG!rdx] = NoTemp
      /\ s4.temp[r3] = left /\ s4.temp[r4] = right
  <2>1. Recent(s1.queue, CG!rax, 1) BY <1>2 DEF Aside, Beside
  <2>2. s2.temp[CG!rax] = t BY <1>2, <1>3, RaxRdx DEF Aside
  <2>3. Recent(s2.queue, CG!rdx, 1) BY <1>3 DEF Aside, Beside
  <2>4. Recent(s2.queue, CG!rax, 2)
    <3>1. \A x \in CG!Reg, k \in Nat :
            Recent(s1.queue, x, k) => Recent(s2.queue, x, k + 1)
      BY <1>3 DEF Aside, Beside
    <3>2. Recent(s1.queue, CG!rax, 1) => Recent(s2.queue, CG!rax, 1 + 1)
      BY <3>1, RaxRdx
    <3> QED BY <2>1, <3>2
  <2>5. /\ s3.temp[CG!rax] = t /\ Recent(s3.queue, CG!rax, 3)
        /\ s3.temp[CG!rdx] = NoTemp /\ Recent(s3.queue, CG!rdx, 2)
        /\ s3.temp[r3] = left /\ Recent(s3.queue, r3, 1)
    BY <1>3, <1>4, <2>2, <2>3, <2>4, RaxRdx DEF Brings
  <2> QED BY <1>5, <1>6, <2>5, RaxRdx DEF Brings
<1>8. r4 # CG!rax /\ r4 # CG!rdx BY <1>7, TempAssumption
<1>9. Step(s, s4)
  <2>1. Step(s, s1) /\ Step(s1, s2) BY <1>2, <1>3, AsideIsStep
  <2>2. Step(s, s2) BY <2>1, StepTransitive
  <2>3. Step(s, s3) BY <1>4, <2>2, StepTransitive DEF Brings
  <2> QED BY <1>5, <2>3, StepTransitive DEF Brings
<1>10. DOMAIN s4 = Members /\ IsMachine(s4.out)
  BY <1>5 DEF Brings, Sound, Ordered, IsTables, Members
<1>11. /\ SameTables(s4, new)
       /\ WroteBeside(s4.out, new.out, CG!rax, CG!rdx,
                      Lift(op, s4.out.preg[r3], s4.out.preg[r4]))
  BY <1>6, <1>8, <1>10, WideEmitted
<1> HIDE DEF new
<1>12. Sound(s4, f) BY <1>5 DEF Brings
<1>13. v # Undef => new.out.preg[CG!rax] = v
  <2>1. v # Undef => e[left] # Undef /\ e[right] # Undef BY DEF Lift
  <2>2. f[left] = e[left] /\ f[right] = e[right] BY DEF f, Forget
  <2>3. e[left] # Undef => s4.out.preg[r3] = e[left]
    BY <1>6, <1>7, <1>12, <2>2, InRegister
  <2>4. e[right] # Undef => s4.out.preg[r4] = e[right]
    BY <1>6, <1>7, <1>12, <2>2, InRegister
  <2> QED BY <1>11, <2>1, <2>3, <2>4 DEF WroteBeside
<1>14. \A y \in CG!Reg : y # CG!rax /\ s4.temp[y] # NoTemp =>
                           new.out.preg[y] = s4.out.preg[y]
  BY <1>7, <1>11 DEF WroteBeside
<1>15. Sound(s4, Forget(e, t)) BY <1>12 DEF f
<1> HIDE DEF v
<1>16. Computed(s, new, e, t, v)
  BY <1>7, <1>9, <1>11, <1>13, <1>14, <1>15, RaxRdx, Finished DEF WroteBeside
<1> QED BY <1>1, <1>16 DEF v

-----------------------------------------------------------------------------
(* Ends of blocks, calls and returns *)

\* The condition of a jump is compared with 0.
LEMMA TestCompares ==
  ASSUME NEW s, NEW e, Sound(s, e), NEW left \in Temp
  PROVE  LET new == CG!Test(s, left)
         IN  /\ Sound(new, e)
             /\ Step(s, new)
             /\ e[left] # Undef => new.out.flags = <<e[left], 0>>
<1> DEFINE s1 == CG!GetAnyRegisterFor(s, left, TRUE)
           r1 == s1.reg[left]
           new == CG!Code(s1, "cmp_im", r1, 0)
<1>1. CG!Test(s, left) = new BY DEF CG!Test
<1>2. Brings(s, s1, e, left, r1) BY Operand
<1> HIDE DEF s1, r1
<1>3. Sound(s1, e) /\ r1 \in CG!Reg /\ Step(s, s1) BY <1>2 DEF Brings
<1>4. DOMAIN s1 = Members /\ IsMachine(s1.out)
  BY <1>3 DEF Sound, Ordered, IsTables, Members
<1>5. SameTables(s1, new) /\ new.out = Exec(s1.out, "cmp_im", r1, 0)
  BY <1>4, Emitted
<1> HIDE DEF new
<1>6. /\ IsMachine(new.out)
      /\ new.out.preg = s1.out.preg
      /\ new.out.mem = s1.out.mem
      /\ new.out.outarg = s1.out.outarg
      /\ new.out.flags = <<s1.out.preg[r1], 0>>
  <2>1. new.out = [s1.out EXCEPT !.flags = <<s1.out.preg[r1], 0>>]
    BY <1>5, ExecCmpImIs
  <2>2. s1.out.preg[r1] \in Value /\ 0 \in Value
    BY <1>3, <1>4, WordAssumption DEF IsMachine, Value
  <2> QED BY <1>4, <2>1, <2>2, SetFlags
<1>7. Sound(new, e) BY <1>3, <1>5, <1>6, WriteNothing
<1>8. Step(s, new)
  <2>1. Step(s1, new) BY <1>5, <1>6, StepsInPlace
  <2> QED BY <1>3, <2>1, StepTransitive
<1>9. e[left] # Undef => new.out.flags = <<e[left], 0>>
  BY <1>2, <1>6 DEF Brings
<1> QED BY <1>1, <1>7, <1>8, <1>9

\* The value of the return statement is brought to rax; the tables do not
\* learn of it, so what they expect in rax is lost.
LEMMA ReturnBrings ==
  ASSUME NEW s, NEW e, Sound(s, e), NEW left \in Temp
  PROVE  LET new == CG!Return(s, left)
         IN  /\ Sound(new, Undefined)
             /\ Step(s, new)
             /\ e[left] # Undef => new.out.preg[CG!rax] = e[left]
<1> DEFINE s1 == CG!GetAnyRegisterFor(s, left, TRUE)
           r1 == s1.reg[left]
           moved == CG!Code(s1, "mov", CG!rax, r1)
           new == CG!Return(s, left)
<1>1. new = IF r1 = CG!rax THEN s1 ELSE moved BY DEF CG!Return
<1>2. Brings(s, s1, e, left, r1) BY Operand
<1> HIDE DEF s1, r1
<1>3. Sound(s1, e) /\ r1 \in CG!Reg /\ Step(s, s1) BY <1>2 DEF Brings
<1>4. DOMAIN s1 = Members /\ IsMachine(s1.out)
  BY <1>3 DEF Sound, Ordered, IsTables, Members
<1>5. Sound(s1, Undefined) BY <1>3, Weaken DEF Undefined
<1>6. CASE r1 = CG!rax
  BY <1>1, <1>2, <1>3, <1>5, <1>6 DEF Brings
<1>7. CASE r1 # CG!rax
  <2>1. new = moved BY <1>1, <1>7
  <2>2. SameTables(s1, moved) /\ moved.out = Exec(s1.out, "mov", CG!rax, r1)
    BY <1>4, Emitted
  <2> HIDE DEF moved, new
  <2>3. /\ IsMachine(moved.out)
        /\ moved.out.preg = [s1.out.preg EXCEPT ![CG!rax] = s1.out.preg[r1]]
        /\ moved.out.mem = s1.out.mem
        /\ moved.out.outarg = s1.out.outarg
    BY <1>3, <1>4, <2>2, MovRax
  <2>4. Sound(moved, Undefined)
    <3>0. /\ Ordered(s1) /\ IsTables(s1) /\ Agree(s1) /\ IsQueue(s1.queue)
      BY <1>3 DEF Sound, Ordered
    <3>1. /\ DOMAIN moved = Members
          /\ moved.queue = s1.queue /\ moved.temp = s1.temp /\ moved.reg = s1.reg
          /\ moved.base = s1.base /\ moved.spilled = s1.spilled
          /\ moved.count = s1.count
      BY <2>2 DEF SameTables
    <3>2. IsTables(moved) BY <2>3, <3>0, <3>1 DEF IsTables, Members
    <3>3. Slots(moved)
      <4>1. Slots(s1) BY <3>0 DEF Ordered
      <4> QED BY <3>1, <4>1, SameSlots
    <3>4. Written(moved)
      <4>1. Written(s1) BY <3>0 DEF Ordered
      <4>2. moved.out.mem = s1.out.mem /\ moved.count = s1.count BY <2>3, <3>1
      <4> QED BY <4>1, <4>2 DEF Written
    <3>5. Agree(moved) BY <3>0, <3>1 DEF Agree
    <3>6. Home(moved, Undefined) BY DEF Home, Undefined
    <3> QED BY <3>0, <3>1, <3>2, <3>3, <3>4, <3>5, <3>6 DEF Sound, Ordered
  <2>5. Step(s, moved)
    <3>1. Step(s1, moved) BY <2>2, <2>3, StepsInPlace
    <3> QED BY <1>3, <3>1, StepTransitive
  <2>6. s1.out.preg \in [CG!Reg -> Value] BY <1>4 DEF IsMachine
  <2>7. moved.out.preg[CG!rax] = s1.out.preg[r1] BY <2>3, <2>6, RaxRdx
  <2>8. e[left] # Undef => moved.out.preg[CG!rax] = e[left]
    BY <1>2, <2>7 DEF Brings
  <2> QED BY <2>1, <2>4, <2>5, <2>8 DEF new
<1> QED BY <1>6, <1>7

\* A round of end_basic_block: the temp in register r gets its value stored.
LEMMA StepEndsBlock ==
  ASSUME NEW s, NEW e, Sound(s, e), NEW r \in CG!Reg
  PROVE  LET new == CG!EndBasicBlockStep(s, r)
         IN  /\ Sound(new, e)
             /\ Step(s, new)
             /\ new.temp = s.temp
             /\ new.out.flags = s.out.flags
             /\ \A u \in Temp : e[u] # Undef /\ InSlot(s, e, u) => InSlot(new, e, u)
             /\ \A u \in Temp : e[u] # Undef /\ u = s.temp[r] => InSlot(new, e, u)
<1> DEFINE t == s.temp[r]
           new == CG!EndBasicBlockStep(s, r)
           saved == CG!Save(s, r, t)
<1>0. /\ Ordered(s) /\ IsTables(s) /\ Agree(s) /\ IsQueue(s.queue) /\ Home(s, e)
      /\ t \in Temp \cup {NoTemp}
  BY DEF Sound, Ordered, IsTables
<1>1. new = saved BY DEF CG!EndBasicBlockStep
<1>2. CASE t = NoTemp
  <2>1. new = s BY <1>1, <1>2 DEF CG!Save
  <2>2. \A u \in Temp : u # t BY <1>2, TempAssumption
  <2>3. Step(s, s) BY KeepsItself DEF Step
  <2> QED BY <2>1, <2>2, <2>3
<1>3. CASE t # NoTemp
  <2>0. t \in Temp BY <1>0, <1>3
  <2>9. s.temp[r] = t OBVIOUS
  <2> HIDE DEF t
  <2>1. /\ Ordered(saved)
        /\ saved.queue = s.queue
        /\ saved.temp = s.temp
        /\ saved.reg = s.reg
        /\ saved.out.preg = s.out.preg
        /\ saved.out.flags = s.out.flags
        /\ saved.out.outarg = s.out.outarg
        /\ Keeps(s, saved)
        /\ saved.spilled[t]
        /\ \A u \in Temp \ {t} : saved.spilled[u] = s.spilled[u]
        /\ At(saved.out.mem, saved.base[t]) = s.out.preg[r]
        /\ \A u \in Temp \ {t} :
             s.spilled[u] =>
               At(saved.out.mem, saved.base[u]) = At(s.out.mem, s.base[u])
    BY <1>0, <2>0, SaveTemp
  <2> HIDE DEF saved, new
  <2>2. e[t] # Undef => InSlot(saved, e, t)
    <3>1. e[t] # Undef => s.out.preg[r] = e[t] BY <2>0, <2>9, InRegister
    <3> QED BY <2>1, <3>1 DEF InSlot
  <2>3. \A u \in Temp \ {t} : InSlot(s, e, u) => InSlot(saved, e, u)
    BY <2>1 DEF InSlot
  <2>4. Agree(saved) BY <1>0, <2>1 DEF Agree
  <2>5. Home(saved, e) BY <1>0, <2>1, <2>2, <2>3 DEF Home
  <2>6. Sound(saved, e) BY <1>0, <2>1, <2>4, <2>5 DEF Sound
  <2>7. Step(s, saved) BY <2>1 DEF Step
  <2>8. \A u \in Temp : e[u] # Undef /\ InSlot(s, e, u) => InSlot(saved, e, u)
    BY <2>2, <2>3
  <2> QED BY <1>1, <2>1, <2>2, <2>6, <2>7, <2>8, <2>9 DEF new
<1> QED BY <1>2, <1>3

\* When all values are in their slots the registers can be forgotten.
LEMMA BeginsBlock ==
  ASSUME NEW s, Ordered(s), NEW e, AllInSlots(s, e)
  PROVE  LET new == CG!BeginBasicBlock(s)
         IN  /\ Sound(new, e)
             /\ AllInSlots(new, e)
             /\ Step(s, new)
             /\ new.out = s.out
             /\ new.base = s.base
             /\ \A t \in Temp : new.reg[t] = CG!NoReg
<1> DEFINE new == CG!BeginBasicBlock(s)
<1>0. DOMAIN s = Members BY DEF Ordered, IsTables, Members
<1>1. /\ DOMAIN new = Members
      /\ new.queue = [j \in CG!Reg |-> j]
      /\ new.temp = [r \in CG!Reg |-> NoTemp]
      /\ new.reg = [t \in Temp |-> CG!NoReg]
      /\ new.base = s.base /\ new.spilled = s.spilled
      /\ new.count = s.count /\ new.out = s.out
  BY <1>0 DEF CG!BeginBasicBlock, Members
<1> HIDE DEF new
<1>2. IsTables(new) BY <1>1 DEF Ordered, IsTables, Members
<1>3. Slots(new)
  <2>1. Slots(s) BY DEF Ordered
  <2> QED BY <1>1, <2>1, SameSlots
<1>4. Written(new)
  <2>1. Written(s) BY DEF Ordered
  <2>2. new.out.mem = s.out.mem /\ new.count = s.count BY <1>1
  <2> QED BY <2>1, <2>2 DEF Written
<1>5. Agree(new)
  <2> SUFFICES ASSUME NEW y \in CG!Reg, NEW u \in Temp
               PROVE new.temp[y] = u <=> new.reg[u] = y
    BY DEF Agree
  <2>1. new.temp[y] = NoTemp /\ new.reg[u] = CG!NoReg BY <1>1
  <2>2. y # CG!NoReg BY RegAssumption DEF CG!Reg, CG!NoReg
  <2> QED BY <2>1, <2>2, TempAssumption
<1>6. IsQueue(new.queue) BY <1>1 DEF IsQueue
<1>7. \A u \in Temp : InSlot(s, e, u) => InSlot(new, e, u) BY <1>1 DEF InSlot
<1>8. AllInSlots(new, e) BY <1>7 DEF AllInSlots
<1>9. Home(new, e) BY <1>1, <1>8 DEF Home, AllInSlots
<1>10. Step(s, new) BY <1>1, KeepsItself DEF Step
<1> QED
  BY <1>1, <1>2, <1>3, <1>4, <1>5, <1>6, <1>8, <1>9, <1>10 DEF Sound, Ordered, new

\* After a call, whose result is in rax.
LEMMA CallReturns ==
  ASSUME NEW s, Ordered(s), NEW e \in [Temp -> Value], AllInSlots(s, e),
         NEW t \in Temp, NEW v, s.out.preg[CG!rax] = v
  PROVE  Computed(s, CG!AfterCall(s, t), e, t, v)
<1> DEFINE s0 == CG!BeginBasicBlock(s)
           new == CG!AfterCall(s, t)
           g == [e EXCEPT ![t] = v]
           f == Forget(e, t)
<1>1. new = CG!GetRegisterFor(s0, CG!rax, t, FALSE) BY DEF CG!AfterCall
<1>2. /\ Sound(s0, e)
      /\ AllInSlots(s0, e)
      /\ Step(s, s0)
      /\ s0.out = s.out
      /\ s0.base = s.base
      /\ \A u \in Temp : s0.reg[u] = CG!NoReg
  BY BeginsBlock
<1> HIDE DEF s0, new
<1>3. GivesTo(s0, new, f, t, CG!rax) BY <1>1, <1>2, RaxRdx, ForTarget
<1> HIDE DEF f
<1>4. new.out.preg[CG!rax] = v
  <2>1. s0.temp[CG!rax] # t BY <1>2, RaxRdx DEF Sound, Agree, CG!NoReg, CG!rax
  <2>2. new = CG!SetReg(CG!Take(s0, CG!rax, t), t, CG!rax)
    BY <1>1, <2>1 DEF CG!GetRegisterFor
  <2> DEFINE taken == CG!Take(s0, CG!rax, t)
  <2>3. /\ Ordered(taken)
        /\ IsQueue(taken.queue)
        /\ Home(taken, e)
        /\ Aside(s0, taken, CG!rax)
        /\ taken.temp = [s0.temp EXCEPT ![CG!rax] = t]
        /\ \A u \in Temp :
             taken.reg[u] = IF u = s0.temp[CG!rax] THEN CG!NoReg ELSE s0.reg[u]
        /\ taken.out.preg = s0.out.preg
        /\ \A u \in Temp \ {s0.temp[CG!rax]} : taken.spilled[u] = s0.spilled[u]
        /\ \A u \in Temp \ {s0.temp[CG!rax]} :
             s0.spilled[u] =>
               At(taken.out.mem, taken.base[u]) = At(s0.out.mem, s0.base[u])
        /\ AllInSlots(s0, e) => AllInSlots(taken, e)
    BY <1>2, RaxRdx, TakeHome
  <2> HIDE DEF taken
  <2>4. DOMAIN taken = Members
    BY <2>3 DEF Ordered, IsTables, Members
  <2>5. new.out = taken.out BY <2>2, <2>4 DEF CG!SetReg, Members, taken
  <2> QED BY <1>2, <2>3, <2>5
<1>5. Sound(new, f) /\ new.temp[CG!rax] = t /\ Aside(s0, new, CG!rax)
  BY <1>3 DEF GivesTo
<1>6. Step(s, new)
  <2>1. Step(s0, new) BY <1>5, AsideIsStep
  <2> QED BY <1>2, <2>1, StepTransitive
<1>7. /\ IsMachine(new.out) /\ DOMAIN new = Members
  BY <1>5 DEF Sound, Ordered, IsTables, Members
<1>8. SameTables(new, new) BY <1>7 DEF SameTables
<1>9. g[t] = v /\ \A u \in Temp \ {t} : g[u] = f[u] BY DEF f, Forget
<1> HIDE DEF g
<1>10. Sound(new, g)
  BY <1>4, <1>5, <1>7, <1>8, <1>9, RaxRdx, WriteTarget
<1> QED BY <1>6, <1>10 DEF Computed, new, g
-----------------------------------------------------------------------------
(* Passing arguments and placing parameters *)

LEMMA ParamRegister ==
  ASSUME NEW k \in Nat, k < ParamRegCount
  PROVE  CG!ParamReg(k) \in CG!Reg
BY RegAssumption DEF CG!ParamReg, CG!Reg

\* What passing argument k of value v changes in the machine.
Passes(x, new, k, v) ==
  /\ v # Undef => IsPassed(new, k, v)
  /\ \A a \in DOMAIN new.outarg : a \in DOMAIN x.outarg \/ (a = k /\ k >= ParamRegCount)
  /\ \A j \in Nat, w \in Value : j > k /\ IsPassed(x, j, w) => IsPassed(new, j, w)

\* An argument that goes in a register: the registers of later arguments
\* are other ones.
LEMMA PassesInRegister ==
  ASSUME NEW s, NEW e, Sound(s, e), NEW t \in Temp, NEW k \in Nat,
         k < ParamRegCount
  PROVE  LET new == CG!PassArgument(s, k, t)
         IN  /\ Sound(new, e)
             /\ Keeps(s, new)
             /\ AllInSlots(s, e) => AllInSlots(new, e)
             /\ Passes(s.out, new.out, k, e[t])
<1> DEFINE r == CG!ParamReg(k)
           new == CG!GetRegisterFor(s, r, t, TRUE)
<1>1. CG!PassArgument(s, k, t) = new BY DEF CG!PassArgument
<1>2. r \in CG!Reg BY ParamRegister
<1>8. r = CG!ParamReg(k) OBVIOUS
<1> HIDE DEF r
<1>3. /\ Sound(new, e)
      /\ Beside(s, new, r)
      /\ new.reg[t] = r
      /\ new.temp[r] = t
      /\ AllInSlots(s, e) => AllInSlots(new, e)
  BY <1>2, ForOperand
<1> HIDE DEF new
<1>4. e[t] # Undef => new.out.preg[r] = e[t] BY <1>2, <1>3, InRegister
<1>5. /\ Keeps(s, new)
      /\ new.out.outarg = s.out.outarg
      /\ \A x \in CG!Reg \ {r} : new.out.preg[x] = s.out.preg[x]
  BY <1>3 DEF Beside
<1>6. ASSUME NEW j \in Nat, NEW w \in Value, j > k, IsPassed(s.out, j, w)
      PROVE  IsPassed(new.out, j, w)
  <2>1. CASE j < ParamRegCount
    <3>1. CG!ParamReg(j) \in CG!Reg \ {r}
      BY <1>8, <1>6, <2>1, ParamRegister DEF CG!ParamReg
    <3>2. new.out.preg[CG!ParamReg(j)] = s.out.preg[CG!ParamReg(j)]
      BY <1>5, <3>1
    <3> QED BY <1>6, <2>1, <3>2 DEF IsPassed
  <2>2. CASE ~(j < ParamRegCount)
    BY <1>5, <1>6, <2>2 DEF IsPassed
  <2> QED BY <2>1, <2>2
<1>7. Passes(s.out, new.out, k, e[t])
  BY <1>4, <1>5, <1>6, <1>8 DEF Passes, IsPassed
<1> QED BY <1>1, <1>3, <1>5, <1>7

\* An argument that goes on the stack: so do all later ones.
LEMMA PassesOnStack ==
  ASSUME NEW s, NEW e, Sound(s, e), NEW t \in Temp, NEW k \in Nat,
         k >= ParamRegCount
  PROVE  LET new == CG!PassArgument(s, k, t)
         IN  /\ Sound(new, e)
             /\ Keeps(s, new)
             /\ AllInSlots(s, e) => AllInSlots(new, e)
             /\ Passes(s.out, new.out, k, e[t])
<1> DEFINE s1 == CG!GetAnyRegisterFor(s, t, TRUE)
           r == s1.reg[t]
           new == CG!Code(s1, "set_arg", k, r)
<1>0. ~(k < ParamRegCount) BY RegAssumption
<1>1. CG!PassArgument(s, k, t) = new BY <1>0 DEF CG!PassArgument
<1>2. /\ Sound(s1, e)
      /\ r \in CG!Reg
      /\ s1.temp[r] = t
      /\ Aside(s, s1, r)
      /\ Spares(s, s1)
      /\ AllInSlots(s, e) => AllInSlots(s1, e)
  BY AnyForOperand
<1> HIDE DEF s1, r
<1>3. DOMAIN s1 = Members /\ IsMachine(s1.out)
  BY <1>2 DEF Sound, Ordered, IsTables, Members
<1>4. SameTables(s1, new) /\ new.out = Exec(s1.out, "set_arg", k, r)
  BY <1>3, Emitted
<1> HIDE DEF new
<1>5. /\ IsMachine(new.out)
      /\ new.out.preg = s1.out.preg
      /\ new.out.mem = s1.out.mem
      /\ new.out.outarg = Put(s1.out.outarg, k, s1.out.preg[r])
      /\ new.out.flags = s1.out.flags
  BY <1>2, <1>3, <1>4, SetArgument
<1>6. Sound(new, e) BY <1>2, <1>4, <1>5, WriteNothing
<1>7. Keeps(s, new)
  <2>1. Keeps(s, s1) BY <1>2 DEF Aside, Beside
  <2> QED BY <1>4, <1>5, <2>1, KeepsOn DEF SameTables
<1>8. AllInSlots(s, e) => AllInSlots(new, e)
  BY <1>2, <1>4, <1>5 DEF AllInSlots, InSlot, SameTables
<1>9. s1.out.outarg = s.out.outarg BY <1>2 DEF Aside, Beside
<1>10. e[t] # Undef => s1.out.preg[r] = e[t] BY <1>2, InRegister
<1>11. Passes(s.out, new.out, k, e[t])
  <2>1. e[t] # Undef => IsPassed(new.out, k, e[t])
    BY <1>5, <1>10, RegAssumption DEF IsPassed, At, Put
  <2>2. \A a \in DOMAIN new.out.outarg :
          a \in DOMAIN s.out.outarg \/ (a = k /\ k >= ParamRegCount)
    BY <1>5, <1>9 DEF Put
  <2>3. ASSUME NEW j \in Nat, NEW w \in Value, j > k, IsPassed(s.out, j, w)
        PROVE  IsPassed(new.out, j, w)
    <3>1. ~(j < ParamRegCount) BY <2>3, RegAssumption
    <3>2. At(new.out.outarg, j) = At(s.out.outarg, j)
      BY <1>5, <1>9, <2>3 DEF At, Put
    <3> QED BY <2>3, <3>1, <3>2 DEF IsPassed
  <2> QED BY <2>1, <2>2, <2>3 DEF Passes
<1> QED BY <1>1, <1>6, <1>7, <1>8, <1>11
LEMMA PassesArgument ==
  ASSUME NEW s, NEW e, Sound(s, e), NEW t \in Temp, NEW k \in Nat
  PROVE  LET new == CG!PassArgument(s, k, t)
         IN  /\ Sound(new, e)
             /\ Keeps(s, new)
             /\ AllInSlots(s, e) => AllInSlots(new, e)
             /\ Passes(s.out, new.out, k, e[t])
<1>1. k < ParamRegCount \/ k >= ParamRegCount BY RegAssumption
<1> QED BY <1>1, PassesInRegister, PassesOnStack

\* A slot that no temp has is given to t.
LEMMA SlotAdded ==
  ASSUME NEW s, IsTables(s), Slots(s), NEW t \in Temp,
         NEW b \in Int, b > 0, \A u \in Temp : s.base[u] # b,
         NEW new, new.base = [s.base EXCEPT ![t] = b], new.count = s.count,
         \A u \in Temp : new.spilled[u] => s.spilled[u] \/ u = t
  PROVE  Slots(new)
<1>1. s.base \in [Temp -> Int] BY DEF IsTables
<1>2. new.base[t] = b /\ \A u \in Temp \ {t} : new.base[u] = s.base[u] BY <1>1
<1> SUFFICES ASSUME NEW x \in Temp
             PROVE /\ new.base[x] # 0 =>
                        \A u \in Temp : new.base[u] = new.base[x] => u = x
                   /\ new.base[x] < 0 => -8 * new.count <= new.base[x]
                   /\ new.spilled[x] => new.base[x] # 0
  BY DEF Slots
<1>3. CASE x = t BY <1>2, <1>3
<1>4. CASE x # t
  <2>1. /\ s.base[x] # 0 => \A u \in Temp : s.base[u] = s.base[x] => u = x
        /\ s.base[x] < 0 => -8 * s.count <= s.base[x]
        /\ s.spilled[x] => s.base[x] # 0
    BY DEF Slots
  <2>2. new.base[x] = s.base[x] BY <1>2, <1>4
  <2>3. ASSUME NEW u \in Temp, new.base[x] # 0, new.base[u] = new.base[x]
        PROVE  u = x
    BY <1>2, <1>4, <2>1, <2>2, <2>3
  <2> QED BY <1>4, <2>1, <2>2, <2>3
<1> QED BY <1>3, <1>4

\* The value of parameter k, where the caller has put it.
HasParam(s, k, v) ==
  IF k < ParamRegCount
  THEN s.temp[CG!ParamReg(k)] = NoTemp /\ v = s.out.preg[CG!ParamReg(k)]
  ELSE CG!ParamBase(k) \in DOMAIN s.out.mem /\ v = s.out.mem[CG!ParamBase(k)]

\* What placing it in t changes besides.
Placed(s, new, t, k) ==
  /\ KeepsSlots(s, new)
  /\ new.out = s.out
  /\ new.base = [s.base EXCEPT ![t] = CG!ParamBase(k)]
  /\ \A u \in Temp \ {t} : new.reg[u] = s.reg[u]
  /\ \A r \in CG!Reg : new.temp[r] = s.temp[r]
                         \/ (k < ParamRegCount /\ r = CG!ParamReg(k))

LEMMA PlacesParam ==
  ASSUME NEW s, NEW e \in [Temp -> Value], Sound(s, e), NEW t \in Temp,
         s.reg[t] = CG!NoReg, s.base[t] = 0, NEW k \in Nat,
         \A u \in Temp : s.base[u] # CG!ParamBase(k), NEW v, HasParam(s, k, v)
  PROVE  LET new == CG!PlaceParam(s, k, t)
         IN  Sound(new, [e EXCEPT ![t] = v]) /\ Placed(s, new, t, k)
<1> DEFINE r == CG!ParamReg(k)
           b == CG!ParamBase(k)
           q == CG!MoveBackInQueue(s.queue, CG!PositionOf(s.queue, r))
           new == CG!PlaceParam(s, k, t)
           g == [e EXCEPT ![t] = v]
           inReg == k < ParamRegCount
<1>0. /\ Ordered(s) /\ IsTables(s) /\ Slots(s) /\ Written(s)
      /\ Agree(s) /\ IsQueue(s.queue) /\ Home(s, e) /\ DOMAIN s = Members
  BY DEF Sound, Ordered, IsTables, Members
<1>1. b \in Int /\ b > 0 BY DEF CG!ParamBase
<1>2. g[t] = v /\ \A u \in Temp \ {t} : g[u] = e[u] OBVIOUS
<1>5. \A u \in Temp : s.base[u] # b OBVIOUS
<1>3. CASE inReg
  <2>1. r \in CG!Reg BY <1>3, ParamRegister
  <2>2. /\ q \in [CG!Reg -> CG!Reg]
        /\ IsQueue(q)
        /\ Recent(q, r, 1)
        /\ \A x \in CG!Reg, n \in Nat : Recent(s.queue, x, n) => Recent(q, x, n + 1)
    BY <1>0, <2>1, Requeue
  <2>3. /\ DOMAIN new = Members
        /\ new.queue = q
        /\ new.temp = [s.temp EXCEPT ![r] = t]
        /\ new.reg = [s.reg EXCEPT ![t] = r]
        /\ new.base = [s.base EXCEPT ![t] = b]
        /\ new.spilled = s.spilled /\ new.count = s.count /\ new.out = s.out
    <3>1. new = [CG!SetReg(CG!AllocRegister(s, r, t), t, r) EXCEPT
                   !.base = [s.base EXCEPT ![t] = b]]
      BY <1>3 DEF CG!PlaceParam
    <3> HIDE DEF r, q, b, new
    <3> QED BY <1>0, <3>1 DEF CG!SetReg, CG!AllocRegister, Members, q
  <2>4. s.temp[r] = NoTemp /\ v = s.out.preg[r] BY <1>3 DEF HasParam
  <2> HIDE DEF r, q, b, new, g
  <2>5. IsTables(new)
    BY <1>0, <1>1, <2>1, <2>2, <2>3 DEF IsTables, Members
  <2>17. \A u \in Temp : new.spilled[u] => s.spilled[u] \/ u = t
    BY <1>0, <2>3 DEF IsTables
  <2>6. Slots(new)
    BY <1>0, <1>1, <1>5, <2>3, <2>17, SlotAdded
  <2>7. Written(new) BY <1>0, <2>3 DEF Written
  <2>8. Agree(new)
    <3> SUFFICES ASSUME NEW y \in CG!Reg, NEW u \in Temp
                 PROVE  new.temp[y] = u <=> new.reg[u] = y
      BY DEF Agree
    <3>1. /\ s.temp \in [CG!Reg -> Temp \cup {NoTemp}]
          /\ s.reg \in [Temp -> CG!Reg \cup {CG!NoReg}]
          /\ y # CG!NoReg
      BY <1>0, RegAssumption DEF IsTables, CG!Reg, CG!NoReg
    <3>2. s.temp[y] = u <=> s.reg[u] = y BY <1>0 DEF Agree
    <3> QED BY <2>1, <2>3, <2>4, <3>1, <3>2, TempAssumption
  <2>9. Home(new, g)
    <3> SUFFICES ASSUME NEW u \in Temp, g[u] # Undef
                 PROVE  IF new.reg[u] # CG!NoReg
                        THEN new.out.preg[new.reg[u]] = g[u] ELSE InSlot(new, g, u)
      BY DEF Home
    <3>1. s.reg \in [Temp -> CG!Reg \cup {CG!NoReg}] BY <1>0 DEF IsTables
    <3>2. CASE u = t
      BY <1>2, <2>1, <2>3, <2>4, <3>1, <3>2, RegAssumption DEF CG!Reg, CG!NoReg
    <3>3. CASE u # t
      <4>1. /\ new.reg[u] = s.reg[u] /\ new.base[u] = s.base[u]
            /\ new.spilled[u] = s.spilled[u] /\ new.out = s.out /\ g[u] = e[u]
        BY <1>0, <1>2, <2>3, <3>3 DEF IsTables
      <4> QED BY <1>0, <4>1 DEF Home, InSlot
    <3> QED BY <3>2, <3>3
  <2>10. Sound(new, g) BY <2>2, <2>3, <2>5, <2>6, <2>7, <2>8, <2>9 DEF Sound, Ordered
  <2>11. KeepsSlots(s, new) BY <1>0, <2>3 DEF KeepsSlots, IsTables
  <2>12. \A u \in Temp \ {t} : new.reg[u] = s.reg[u] BY <1>0, <2>3 DEF IsTables
  <2>13. \A y \in CG!Reg : new.temp[y] = s.temp[y]
                             \/ (k < ParamRegCount /\ y = CG!ParamReg(k))
    BY <1>0, <1>3, <2>3 DEF IsTables, r
  <2>14. new.out = s.out /\ new.base = [s.base EXCEPT ![t] = CG!ParamBase(k)]
    BY <2>3 DEF b
  <2>15. Sound(new, [e EXCEPT ![t] = v]) BY <2>10 DEF g
  <2>16. Placed(s, new, t, k) BY <2>11, <2>12, <2>13, <2>14 DEF Placed
  <2> QED BY <2>15, <2>16 DEF new
<1>4. CASE ~inReg
  <2>3. /\ DOMAIN new = Members
        /\ new.queue = s.queue /\ new.temp = s.temp /\ new.reg = s.reg
        /\ new.base = [s.base EXCEPT ![t] = b]
        /\ new.spilled = [s.spilled EXCEPT ![t] = TRUE]
        /\ new.count = s.count /\ new.out = s.out
    <3>1. new = [[s EXCEPT !.spilled = [s.spilled EXCEPT ![t] = TRUE]] EXCEPT
                   !.base = [s.base EXCEPT ![t] = b]]
      BY <1>4 DEF CG!PlaceParam
    <3> HIDE DEF b, new
    <3> QED BY <1>0, <3>1 DEF Members
  <2>4. b \in DOMAIN s.out.mem /\ v = s.out.mem[b] BY <1>4 DEF HasParam
  <2> HIDE DEF r, q, b, new, g
  <2>5. IsTables(new) BY <1>0, <1>1, <2>3 DEF IsTables, Members
  <2>17. \A u \in Temp : new.spilled[u] => s.spilled[u] \/ u = t
    BY <1>0, <2>3 DEF IsTables
  <2>6. Slots(new)
    BY <1>0, <1>1, <1>5, <2>3, <2>17, SlotAdded
  <2>7. Written(new) BY <1>0, <2>3 DEF Written
  <2>8. Agree(new) BY <1>0, <2>3 DEF Agree
  <2>9. Home(new, g)
    <3> SUFFICES ASSUME NEW u \in Temp, g[u] # Undef
                 PROVE  IF new.reg[u] # CG!NoReg
                        THEN new.out.preg[new.reg[u]] = g[u] ELSE InSlot(new, g, u)
      BY DEF Home
    <3>2. CASE u = t
      <4>1. new.reg[u] = CG!NoReg BY <2>3, <3>2
      <4>2. new.spilled[u] /\ new.base[u] = b BY <1>0, <2>3, <3>2 DEF IsTables
      <4>3. InSlot(new, g, u) BY <1>2, <2>3, <2>4, <3>2, <4>2 DEF InSlot, At
      <4> QED BY <4>1, <4>3
    <3>3. CASE u # t
      <4>1. /\ new.reg[u] = s.reg[u] /\ new.base[u] = s.base[u]
            /\ new.spilled[u] = s.spilled[u] /\ new.out = s.out /\ g[u] = e[u]
        BY <1>0, <1>2, <2>3, <3>3 DEF IsTables
      <4> QED BY <1>0, <4>1 DEF Home, InSlot
    <3> QED BY <3>2, <3>3
  <2>10. Sound(new, g) BY <1>0, <2>3, <2>5, <2>6, <2>7, <2>8, <2>9 DEF Sound, Ordered
  <2>11. KeepsSlots(s, new) BY <1>0, <2>3 DEF KeepsSlots, IsTables
  <2>12. \A u \in Temp \ {t} : new.reg[u] = s.reg[u] BY <2>3
  <2>13. \A y \in CG!Reg : new.temp[y] = s.temp[y]
                             \/ (k < ParamRegCount /\ y = CG!ParamReg(k))
    BY <2>3
  <2>14. new.out = s.out /\ new.base = [s.base EXCEPT ![t] = CG!ParamBase(k)]
    BY <2>3 DEF b
  <2>15. Sound(new, [e EXCEPT ![t] = v]) BY <2>10 DEF g
  <2>16. Placed(s, new, t, k) BY <2>11, <2>12, <2>13, <2>14 DEF Placed
  <2> QED BY <2>15, <2>16 DEF new
<1> QED BY <1>3, <1>4
=============================================================================
