---------------------------- MODULE CodeRunLemmas ----------------------------
(***************************************************************************)
(* What the operators of CodeGen do to tables that are in order, for any   *)
(* number of registers and temps and any words.                            *)
(***************************************************************************)
EXTENDS CodeRun, TLAPS

Members        == {"queue", "temp", "reg", "base", "spilled", "count", "out"}
MachineMembers == {"preg", "mem", "outarg", "flags"}

\* r is among the k most recently used registers.
Recent(q, r, k) == \E j \in CG!Reg : j >= RegCount - k /\ q[j] = r

-----------------------------------------------------------------------------
(* The queue *)

\* move_back_in_queue keeps the queue a permutation of the registers, puts
\* the register last and moves no other one forward by more than one place.
LEMMA MoveBack ==
  ASSUME NEW q \in [CG!Reg -> CG!Reg], IsQueue(q), NEW n \in CG!Reg
  PROVE  LET new == CG!MoveBackInQueue(q, n)
         IN  /\ new \in [CG!Reg -> CG!Reg]
             /\ IsQueue(new)
             /\ Recent(new, q[n], 1)
             /\ \A x \in CG!Reg, k \in Nat : Recent(q, x, k) => Recent(new, x, k + 1)
<1> DEFINE new == CG!MoveBackInQueue(q, n)
<1> USE RegAssumption DEF CG!Reg
<1>1. /\ new \in [CG!Reg -> CG!Reg]
      /\ \A j \in CG!Reg : j < n => new[j] = q[j]
      /\ \A j \in CG!Reg : j >= n /\ j < RegCount - 1 => new[j] = q[j + 1]
      /\ new[RegCount - 1] = q[n]
  BY DEF CG!MoveBackInQueue
<1> HIDE DEF new
<1>2. ASSUME NEW j \in CG!Reg, NEW k \in CG!Reg, new[j] = new[k] PROVE j = k
  <2> DEFINE src(l) == IF l < n THEN l ELSE IF l < RegCount - 1 THEN l + 1 ELSE n
  <2>1. ASSUME NEW l \in CG!Reg PROVE src(l) \in CG!Reg /\ new[l] = q[src(l)]
    BY <1>1
  <2>2. q[src(j)] = q[src(k)] BY <1>2, <2>1
  <2>3. src(j) \in CG!Reg /\ src(k) \in CG!Reg BY <2>1
  <2>4. src(j) = src(k)
    <3> HIDE DEF src
    <3> QED BY <2>2, <2>3 DEF IsQueue
  <2> QED BY <2>4
<1>3. ASSUME NEW x \in CG!Reg, NEW j \in CG!Reg, q[j] = x
      PROVE  \E k \in CG!Reg : k >= j - 1 /\ new[k] = x
  <2>1. CASE j < n BY <1>1, <1>3, <2>1
  <2>2. CASE j = n BY <1>1, <1>3, <2>2
  <2>3. CASE j > n
    <3>1. j - 1 \in CG!Reg /\ j - 1 >= n /\ j - 1 < RegCount - 1 BY <2>3
    <3>2. new[j - 1] = q[(j - 1) + 1] BY <1>1, <3>1
    <3> QED BY <1>3, <3>1, <3>2
  <2> QED BY <2>1, <2>2, <2>3
<1>4. IsQueue(new)
  BY <1>2, <1>3 DEF IsQueue
<1>5. Recent(new, q[n], 1)
  BY <1>1 DEF Recent
<1>6. ASSUME NEW x \in CG!Reg, NEW k \in Nat, Recent(q, x, k)
      PROVE  Recent(new, x, k + 1)
  <2>1. PICK j \in CG!Reg : j >= RegCount - k /\ q[j] = x BY <1>6 DEF Recent
  <2>2. PICK l \in CG!Reg : l >= j - 1 /\ new[l] = x BY <1>3, <2>1
  <2> QED BY <2>1, <2>2 DEF Recent
<1> QED BY <1>1, <1>4, <1>5, <1>6 DEF new

\* alloc_register finds the register in the queue.
LEMMA Position ==
  ASSUME NEW q \in [CG!Reg -> CG!Reg], IsQueue(q), NEW r \in CG!Reg
  PROVE  CG!PositionOf(q, r) \in CG!Reg /\ q[CG!PositionOf(q, r)] = r
<1>1. \E j \in DOMAIN q : q[j] = r BY DEF IsQueue
<1> QED BY <1>1 DEF CG!PositionOf

\* The register at the head of the queue is not a recent one.
LEMMA HeadNotRecent ==
  ASSUME NEW q \in [CG!Reg -> CG!Reg], IsQueue(q),
         NEW k \in Nat, k < RegCount, NEW x \in CG!Reg, Recent(q, x, k)
  PROVE  q[0] # x /\ q[0] \in CG!Reg
BY RegAssumption DEF Recent, IsQueue, CG!Reg

-----------------------------------------------------------------------------
(* The members of the results *)

LEMMA AllocFields ==
  ASSUME NEW s, DOMAIN s = Members, NEW r, NEW t
  PROVE  LET new == CG!AllocRegister(s, r, t)
         IN  /\ DOMAIN new = Members
             /\ new.queue = CG!MoveBackInQueue(s.queue, CG!PositionOf(s.queue, r))
             /\ new.temp = [s.temp EXCEPT ![r] = t]
             /\ new.reg = s.reg
             /\ new.base = s.base
             /\ new.spilled = s.spilled
             /\ new.count = s.count
             /\ new.out = s.out
BY DEF CG!AllocRegister, Members

LEMMA DeallocFields ==
  ASSUME NEW s, DOMAIN s = Members, NEW r
  PROVE  LET new == CG!DeallocRegister(s, r)
         IN  /\ DOMAIN new = Members
             /\ new.queue = s.queue
             /\ new.temp = [s.temp EXCEPT ![r] = NoTemp]
             /\ new.reg = s.reg
             /\ new.base = s.base
             /\ new.spilled = s.spilled
             /\ new.count = s.count
             /\ new.out = s.out
BY DEF CG!DeallocRegister, Members

LEMMA SetRegFields ==
  ASSUME NEW s, DOMAIN s = Members, NEW t, NEW r
  PROVE  LET new == CG!SetReg(s, t, r)
         IN  /\ DOMAIN new = Members
             /\ new.queue = s.queue
             /\ new.temp = s.temp
             /\ new.reg = [s.reg EXCEPT ![t] = r]
             /\ new.base = s.base
             /\ new.spilled = s.spilled
             /\ new.count = s.count
             /\ new.out = s.out
BY DEF CG!SetReg, Members

LEMMA CodeFields ==
  ASSUME NEW s, DOMAIN s = Members, NEW op, NEW a, NEW b
  PROVE  LET new == CG!Code(s, op, a, b)
         IN  /\ DOMAIN new = Members
             /\ new.queue = s.queue
             /\ new.temp = s.temp
             /\ new.reg = s.reg
             /\ new.base = s.base
             /\ new.spilled = s.spilled
             /\ new.count = s.count
             /\ new.out = Exec(s.out, op, a, b)
BY DEF CG!Code, Members

\* What GiveSlot makes of base and count.
NextBase(s, t) ==
  IF s.spilled[t] \/ s.base[t] # 0 THEN s.base
  ELSE [s.base EXCEPT ![t] = -8 - 8 * s.count]

NextCount(s, t) ==
  IF s.spilled[t] \/ s.base[t] # 0 THEN s.count ELSE s.count + 1

LEMMA GiveSlotFields ==
  ASSUME NEW s, DOMAIN s = Members, NEW t
  PROVE  LET new == CG!GiveSlot(s, t)
         IN  /\ DOMAIN new = Members
             /\ new.queue = s.queue
             /\ new.temp = s.temp
             /\ new.reg = s.reg
             /\ new.spilled = [s.spilled EXCEPT ![t] = TRUE]
             /\ new.base = NextBase(s, t)
             /\ new.count = NextCount(s, t)
             /\ new.out = s.out
<1>1. CASE s.spilled[t] \/ s.base[t] # 0
  BY <1>1 DEF CG!GiveSlot, Members, NextBase, NextCount
<1>2. CASE ~(s.spilled[t] \/ s.base[t] # 0)
  BY <1>2 DEF CG!GiveSlot, Members, NextBase, NextCount
<1> QED BY <1>1, <1>2

LEMMA SaveFields ==
  ASSUME NEW s, DOMAIN s = Members, NEW r, NEW t, t # NoTemp
  PROVE  LET new == CG!Save(s, r, t)
         IN  /\ DOMAIN new = Members
             /\ new.queue = s.queue
             /\ new.temp = s.temp
             /\ new.reg = s.reg
             /\ new.spilled = [s.spilled EXCEPT ![t] = TRUE]
             /\ new.base = NextBase(s, t)
             /\ new.count = NextCount(s, t)
             /\ new.out = Exec(s.out, "store", NextBase(s, t)[t], r)
<1> DEFINE st == CG!GiveSlot(s, t)
           new == CG!Code(st, "store", st.base[t], r)
<1>1. CG!Save(s, r, t) = new BY DEF CG!Save, CG!Store
<1>2. /\ DOMAIN st = Members
      /\ st.queue = s.queue /\ st.temp = s.temp /\ st.reg = s.reg
      /\ st.spilled = [s.spilled EXCEPT ![t] = TRUE]
      /\ st.base = NextBase(s, t) /\ st.count = NextCount(s, t)
      /\ st.out = s.out
  BY GiveSlotFields
<1> HIDE DEF st
<1>3. /\ DOMAIN new = Members
      /\ new.queue = st.queue /\ new.temp = st.temp /\ new.reg = st.reg
      /\ new.base = st.base /\ new.spilled = st.spilled
      /\ new.count = st.count
      /\ new.out = Exec(st.out, "store", st.base[t], r)
  BY <1>2, CodeFields
<1> HIDE DEF new
<1> QED BY <1>1, <1>2, <1>3

-----------------------------------------------------------------------------
(* The machine *)

LEMMA PutAt ==
  \A f, p, v :
    /\ DOMAIN Put(f, p, v) = DOMAIN f \cup {p}
    /\ At(Put(f, p, v), p) = v
    /\ \A o : o # p => At(Put(f, p, v), o) = At(f, o)
BY DEF Put, At

\* Exec, an instruction at a time.
LEMMA ExecStoreIs ==
  \A x, a, b : Exec(x, "store", a, b) = [x EXCEPT !.mem = Put(x.mem, a, x.preg[b])]
BY DEF Exec, UnaryOp, AddOp, MulOp, CompOp

LEMMA ExecLoadIs ==
  \A x, a, b : Exec(x, "load", a, b) = Set(x, a, At(x.mem, b))
BY DEF Exec, UnaryOp, AddOp, MulOp, CompOp

LEMMA ExecSetArgIs ==
  \A x, a, b :
    Exec(x, "set_arg", a, b) = [x EXCEPT !.outarg = Put(x.outarg, a, x.preg[b])]
BY DEF Exec, UnaryOp, AddOp, MulOp, CompOp

LEMMA ExecMovIs ==
  \A x, a, b : Exec(x, "mov", a, b) = Set(x, a, x.preg[b])
BY DEF Exec, UnaryOp, AddOp, MulOp, CompOp

LEMMA ExecMovImIs ==
  \A x, a, b : Exec(x, "mov_im", a, b) = Set(x, a, b)
BY DEF Exec, UnaryOp, AddOp, MulOp, CompOp

LEMMA ExecZeroIs ==
  \A x, a, b : Exec(x, "zero", a, b) = Clobber(Set(x, a, 0))
BY DEF Exec, UnaryOp, AddOp, MulOp, CompOp

LEMMA ExecCqoIs ==
  \A x, a, b :
    Exec(x, "cqo", a, b) = Set(x, a, Lift("CQO", x.preg[b], x.preg[b]))
BY DEF Exec, UnaryOp, AddOp, MulOp, CompOp

LEMMA ExecCmpIs ==
  \A x, a, b : Exec(x, "cmp", a, b) = [x EXCEPT !.flags = <<x.preg[a], x.preg[b]>>]
BY DEF Exec, UnaryOp, AddOp, MulOp, CompOp

LEMMA ExecCmpImIs ==
  \A x, a, b : Exec(x, "cmp_im", a, b) = [x EXCEPT !.flags = <<x.preg[a], b>>]
BY DEF Exec, UnaryOp, AddOp, MulOp, CompOp

LEMMA ExecArithIs ==
  \A x, a, b : \A op \in UnaryOp \cup AddOp :
    Exec(x, op, a, b) = Clobber(Set(x, a, Lift(op, x.preg[a], x.preg[b])))
BY DEF Exec, UnaryOp, AddOp, MulOp, CompOp

LEMMA ExecMulIs ==
  \A x, a, b : \A op \in MulOp :
    Exec(x, op, a, b) = SetWide(x, Lift(op, x.preg[0], x.preg[b]))
BY DEF Exec, UnaryOp, AddOp, MulOp, CompOp

LEMMA ExecDivIs ==
  \A x, a, b :
    Exec(x, "DIV", a, b) =
      SetWide(x, IF x.preg[2] = 0 THEN Lift("DIV", x.preg[0], x.preg[b])
                 ELSE Undef)
BY DEF Exec, UnaryOp, AddOp, MulOp, CompOp

LEMMA ExecIdivIs ==
  \A x, a, b :
    Exec(x, "IDIV", a, b) =
      SetWide(x, IF x.preg[2] = Lift("CQO", x.preg[0], x.preg[0])
                 THEN Lift("IDIV", x.preg[0], x.preg[b]) ELSE Undef)
BY DEF Exec, UnaryOp, AddOp, MulOp, CompOp

LEMMA ExecSetIfIs ==
  \A x, a, b : \A op \in CompOp :
    Exec(x, op, a, b) =
      Set(x, a, IF Undef \in {x.flags[1], x.flags[2]} THEN Undef
                ELSE IF Meaning(op, x.flags[1], x.flags[2]) = 1
                     THEN x.preg[b] ELSE x.preg[a])
BY DEF Exec, UnaryOp, AddOp, MulOp, CompOp

LEMMA ExecStore ==
  ASSUME NEW x, IsMachine(x), NEW a \in Int, NEW b \in CG!Reg
  PROVE  LET new == Exec(x, "store", a, b)
         IN  /\ IsMachine(new)
             /\ new.preg = x.preg
             /\ new.mem = Put(x.mem, a, x.preg[b])
             /\ new.outarg = x.outarg
             /\ new.flags = x.flags
<1> DEFINE new == Exec(x, "store", a, b)
<1>1. new = [x EXCEPT !.mem = Put(x.mem, a, x.preg[b])] BY ExecStoreIs
<1>2. /\ DOMAIN new = MachineMembers
      /\ new.preg = x.preg /\ new.mem = Put(x.mem, a, x.preg[b])
      /\ new.outarg = x.outarg /\ new.flags = x.flags
  BY <1>1 DEF IsMachine, MachineMembers
<1>3. \A p \in DOMAIN new.mem : p \in Int /\ new.mem[p] \in Value
  BY <1>2 DEF Put, IsMachine
<1> HIDE DEF new
<1>4. IsMachine(new) BY <1>2, <1>3 DEF IsMachine, MachineMembers
<1> QED BY <1>2, <1>4 DEF new

LEMMA SetRegister ==
  ASSUME NEW x, IsMachine(x), NEW r \in CG!Reg, NEW v \in Value
  PROVE  LET new == Set(x, r, v)
         IN  /\ IsMachine(new)
             /\ new.preg = [x.preg EXCEPT ![r] = v]
             /\ new.mem = x.mem
             /\ new.outarg = x.outarg
             /\ new.flags = x.flags
BY DEF Set, IsMachine

LEMMA ClobberFlags ==
  ASSUME NEW x, IsMachine(x)
  PROVE  LET new == Clobber(x)
         IN  /\ IsMachine(new)
             /\ new.preg = x.preg
             /\ new.mem = x.mem
             /\ new.outarg = x.outarg
BY DEF Clobber, IsMachine, NoFlags, Value

LEMMA SetFlags ==
  ASSUME NEW x, IsMachine(x), NEW v \in Value, NEW w \in Value
  PROVE  LET new == [x EXCEPT !.flags = <<v, w>>]
         IN  /\ IsMachine(new)
             /\ new.preg = x.preg
             /\ new.mem = x.mem
             /\ new.outarg = x.outarg
             /\ new.flags = <<v, w>>
BY DEF IsMachine

LEMMA SetRaxRdx ==
  ASSUME NEW x, IsMachine(x), NEW v \in Value
  PROVE  LET new == SetWide(x, v)
         IN  /\ IsMachine(new)
             /\ new.preg[CG!rax] = v
             /\ \A r \in CG!Reg : r # CG!rax /\ r # CG!rdx => new.preg[r] = x.preg[r]
             /\ new.mem = x.mem
             /\ new.outarg = x.outarg
<1> DEFINE new == SetWide(x, v)
           p == [r \in DOMAIN x.preg |->
                  CASE r = 0 -> v [] r = 2 -> Undef [] OTHER -> x.preg[r]]
<1>1. /\ DOMAIN new = MachineMembers
      /\ new.preg = p /\ new.mem = x.mem /\ new.outarg = x.outarg
      /\ new.flags = NoFlags
  BY DEF SetWide, IsMachine, MachineMembers
<1>2. /\ p[0] = v
      /\ \A r \in CG!Reg : r # 0 /\ r # 2 => p[r] = x.preg[r]
      /\ p \in [CG!Reg -> Value]
  BY RegAssumption DEF IsMachine, Value, CG!Reg
<1> HIDE DEF new, p
<1>3. IsMachine(new)
  BY <1>1, <1>2 DEF IsMachine, MachineMembers, NoFlags, Value
<1> QED BY <1>1, <1>2, <1>3 DEF new, CG!rax, CG!rdx

LEMMA SetArgument ==
  ASSUME NEW x, IsMachine(x), NEW k \in Nat, NEW r \in CG!Reg
  PROVE  LET new == Exec(x, "set_arg", k, r)
         IN  /\ IsMachine(new)
             /\ new.preg = x.preg
             /\ new.mem = x.mem
             /\ new.outarg = Put(x.outarg, k, x.preg[r])
             /\ new.flags = x.flags
<1> DEFINE new == Exec(x, "set_arg", k, r)
<1>1. new = [x EXCEPT !.outarg = Put(x.outarg, k, x.preg[r])] BY ExecSetArgIs
<1> HIDE DEF new
<1>2. /\ DOMAIN new = MachineMembers
      /\ new.preg = x.preg /\ new.outarg = Put(x.outarg, k, x.preg[r])
      /\ new.mem = x.mem /\ new.flags = x.flags
  BY <1>1 DEF IsMachine, MachineMembers
<1>3. \A p \in DOMAIN new.outarg : p \in Nat /\ new.outarg[p] \in Value
  BY <1>2 DEF Put, IsMachine
<1>4. IsMachine(new) BY <1>2, <1>3 DEF IsMachine, MachineMembers
<1> QED BY <1>2, <1>4 DEF new

LEMMA AtValue ==
  ASSUME NEW x, IsMachine(x), NEW p
  PROVE  At(x.mem, p) \in Value /\ At(x.outarg, p) \in Value
BY DEF At, IsMachine, Value

LEMMA LiftValue ==
  ASSUME NEW op \in Op \cup {"CQO"}, NEW a \in Value, NEW b \in Value
  PROVE  Lift(op, a, b) \in Value
BY MeaningAssumption, WordAssumption DEF Lift, Value

-----------------------------------------------------------------------------
(* Tables in order *)

\* Every slot that was written lies in the frame.
Written(s) == \A p \in DOMAIN s.out.mem : p < 0 => -8 * s.count <= p

Ordered(s) == IsTables(s) /\ Slots(s) /\ Written(s)

Sound(s, e) == Ordered(s) /\ Agree(s) /\ IsQueue(s.queue) /\ Home(s, e)

\* The order of the slots depends on these members only.
LEMMA SameSlots ==
  ASSUME NEW s, Slots(s), NEW new,
         new.base = s.base /\ new.spilled = s.spilled /\ new.count = s.count
  PROVE  Slots(new)
<1> SUFFICES ASSUME NEW t \in Temp
             PROVE /\ new.base[t] # 0 =>
                        \A u \in Temp : new.base[u] = new.base[t] => u = t
                   /\ new.base[t] < 0 => -8 * new.count <= new.base[t]
                   /\ new.spilled[t] => new.base[t] # 0
  BY DEF Slots
<1>1. /\ s.base[t] # 0 => \A u \in Temp : s.base[u] = s.base[t] => u = t
      /\ s.base[t] < 0 => -8 * s.count <= s.base[t]
      /\ s.spilled[t] => s.base[t] # 0
  BY DEF Slots
<1> QED BY <1>1

\* What code that is added never takes back: slots, and that they are filled.
KeepsSlots(s, new) ==
  \A u \in Temp : /\ s.base[u] # 0 => new.base[u] = s.base[u]
                  /\ s.spilled[u] => new.spilled[u]

\* The places at rbp and above, in the frame of the caller, that were written
\* or are slots and may be.
Above(s) == {p \in DOMAIN s.out.mem : p >= 0}
              \cup {s.base[u] : u \in {v \in Temp : s.base[v] > 0}}

\* Code that is added never takes a slot back and never a place of the caller.
Keeps(s, new) == KeepsSlots(s, new) /\ Above(new) \subseteq Above(s)

LEMMA KeepsItself ==
  ASSUME NEW s, NEW new, new.base = s.base, new.spilled = s.spilled,
         new.out.mem = s.out.mem
  PROVE  Keeps(s, new)
BY DEF Keeps, KeepsSlots, Above

LEMMA KeepsOn ==
  ASSUME NEW s, NEW mid, NEW new, Keeps(s, mid),
         new.base = mid.base, new.spilled = mid.spilled,
         new.out.mem = mid.out.mem
  PROVE  Keeps(s, new)
BY DEF Keeps, KeepsSlots, Above

\* spill: the temp gets a slot if it had none, and the slot the value.
LEMMA SaveTemp ==
  ASSUME NEW s, Ordered(s), NEW r \in CG!Reg, NEW t \in Temp
  PROVE  LET new == CG!Save(s, r, t)
         IN  /\ Ordered(new)
             /\ new.queue = s.queue
             /\ new.temp = s.temp
             /\ new.reg = s.reg
             /\ new.out.preg = s.out.preg
             /\ new.out.flags = s.out.flags
             /\ new.out.outarg = s.out.outarg
             /\ Keeps(s, new)
             /\ new.spilled[t]
             /\ \A u \in Temp \ {t} : new.spilled[u] = s.spilled[u]
             /\ At(new.out.mem, new.base[t]) = s.out.preg[r]
             /\ \A u \in Temp \ {t} :
                  s.spilled[u] =>
                    At(new.out.mem, new.base[u]) = At(s.out.mem, s.base[u])
<1> DEFINE new == CG!Save(s, r, t)
           has == s.spilled[t] \/ s.base[t] # 0
<1>0. /\ DOMAIN s = Members /\ t # NoTemp
      /\ s.base \in [Temp -> Int] /\ s.count \in Nat
      /\ s.spilled \in [Temp -> BOOLEAN]
      /\ IsMachine(s.out)
  BY TempAssumption DEF Ordered, IsTables, Members
<1>1. /\ DOMAIN new = Members
      /\ new.queue = s.queue
      /\ new.temp = s.temp
      /\ new.reg = s.reg
      /\ new.spilled = [s.spilled EXCEPT ![t] = TRUE]
      /\ new.base = NextBase(s, t)
      /\ new.count = NextCount(s, t)
      /\ new.out = Exec(s.out, "store", NextBase(s, t)[t], r)
  BY <1>0, SaveFields
<1> HIDE DEF new
<1>12. s.spilled[t] => s.base[t] # 0
  <2>1. Slots(s) BY DEF Ordered
  <2> QED BY <2>1 DEF Slots
<1>13. has => new.base = s.base /\ new.count = s.count
  BY <1>1 DEF NextBase, NextCount
<1>17. ~has => /\ new.base = [s.base EXCEPT ![t] = -8 - 8 * s.count]
                 /\ new.count = s.count + 1
  BY <1>1 DEF NextBase, NextCount
<1>15. has => s.base[t] # 0 BY <1>0, <1>12
<1>16. ~has => s.base[t] = 0 BY <1>0
<1> HIDE DEF has
<1>2. /\ new.base \in [Temp -> Int]
      /\ new.count \in Nat
      /\ new.count >= s.count
      /\ new.base[t] # 0
      /\ new.base[t] < 0 => -8 * new.count <= new.base[t]
      /\ \A u \in Temp : s.base[u] # 0 => new.base[u] = s.base[u]
      /\ \A u \in Temp \ {t} : new.base[u] = s.base[u]
  <2>1. CASE has
    <3>1. s.base[t] # 0 BY <1>15, <2>1
    <3>2. s.base[t] < 0 => -8 * s.count <= s.base[t] BY DEF Ordered, Slots
    <3>3. new.base = s.base /\ new.count = s.count BY <1>13, <2>1
    <3> QED BY <1>0, <3>1, <3>2, <3>3
  <2>2. CASE ~has BY <1>0, <1>16, <1>17, <2>2
  <2> QED BY <2>1, <2>2
<1>3. \A u \in Temp \ {t} : new.base[u] # new.base[t]
  <2>1. CASE has
    <3>0. new.base = s.base BY <1>13, <2>1
    <3>1. s.base[t] # 0 BY <1>15, <2>1
    <3> QED BY <3>0, <3>1 DEF Ordered, Slots
  <2>2. CASE ~has
    <3> SUFFICES ASSUME NEW u \in Temp \ {t} PROVE s.base[u] # -8 - 8 * s.count
      BY <1>0, <1>17, <2>2
    <3>1. s.base[u] < 0 => -8 * s.count <= s.base[u] BY DEF Ordered, Slots
    <3>2. s.base[u] \in Int BY <1>0
    <3> QED BY <1>0, <3>1, <3>2
  <2> QED BY <2>1, <2>2
<1>4. /\ IsMachine(new.out)
      /\ new.out.preg = s.out.preg
      /\ new.out.mem = Put(s.out.mem, new.base[t], s.out.preg[r])
      /\ new.out.outarg = s.out.outarg
      /\ new.out.flags = s.out.flags
  BY <1>0, <1>1, <1>2, ExecStore
<1>5. /\ new.spilled \in [Temp -> BOOLEAN]
      /\ new.reg \in [Temp -> CG!Reg \cup {CG!NoReg}]
  BY <1>0, <1>1 DEF Ordered, IsTables
<1>6. IsTables(new)
  BY <1>1, <1>2, <1>4, <1>5 DEF Ordered, IsTables, Members
<1>7. Slots(new)
  <2> SUFFICES ASSUME NEW u \in Temp
               PROVE /\ new.base[u] # 0 =>
                          \A w \in Temp : new.base[w] = new.base[u] => w = u
                     /\ new.base[u] < 0 => -8 * new.count <= new.base[u]
                     /\ new.spilled[u] => new.base[u] # 0
    BY DEF Slots
  <2>1. CASE u = t BY <1>2, <1>3, <2>1
  <2>2. CASE u # t
    <3>1. new.base[u] = s.base[u] /\ new.spilled[u] = s.spilled[u]
      BY <1>0, <1>1, <1>2, <2>2
    <3>2. s.base[u] < 0 => -8 * s.count <= s.base[u] BY DEF Ordered, Slots
    <3>3. new.base[u] < 0 => -8 * new.count <= new.base[u]
      BY <1>0, <1>2, <3>1, <3>2
    <3>4. s.spilled[u] => s.base[u] # 0 BY DEF Ordered, Slots
    <3>5. ASSUME s.base[u] # 0, NEW w \in Temp, new.base[w] = new.base[u]
          PROVE w = u
      BY <1>2, <1>3, <2>2, <3>1, <3>5 DEF Ordered, Slots
    <3> QED BY <3>1, <3>3, <3>4, <3>5
  <2> QED BY <2>1, <2>2
<1>18. DOMAIN new.out.mem = DOMAIN s.out.mem \cup {new.base[t]}
  <2>1. DOMAIN Put(s.out.mem, new.base[t], s.out.preg[r])
          = DOMAIN s.out.mem \cup {new.base[t]}
    BY PutAt
  <2> QED BY <1>4, <2>1
<1>8. Written(new)
  <2> SUFFICES ASSUME NEW p \in DOMAIN new.out.mem, p < 0
               PROVE -8 * new.count <= p
    BY DEF Written
  <2>1. CASE p = new.base[t] BY <1>2, <2>1
  <2>2. CASE p # new.base[t]
    <3>1. p \in DOMAIN s.out.mem BY <1>18, <2>2
    <3>2. p \in Int BY <1>0, <3>1 DEF IsMachine
    <3>3. -8 * s.count <= p BY <3>1 DEF Ordered, Written
    <3> QED BY <1>0, <1>2, <3>2, <3>3
  <2> QED BY <2>1, <2>2
<1>19. new.base[t] >= 0 => new.base[t] = s.base[t] /\ s.base[t] > 0
  <2>1. CASE has
    <3>1. new.base = s.base BY <1>13, <2>1
    <3> QED BY <1>0, <1>2, <3>1
  <2>2. CASE ~has BY <1>0, <1>17, <2>2
  <2> QED BY <2>1, <2>2
<1>9. Keeps(s, new)
  <2>1. KeepsSlots(s, new) BY <1>0, <1>1, <1>2 DEF KeepsSlots
  <2>2. ASSUME NEW p \in DOMAIN new.out.mem, p >= 0 PROVE p \in Above(s)
    <3>1. CASE p = new.base[t] BY <1>19, <2>2, <3>1 DEF Above
    <3>2. CASE p # new.base[t] BY <1>18, <2>2, <3>2 DEF Above
    <3> QED BY <3>1, <3>2
  <2>3. ASSUME NEW u \in Temp, new.base[u] > 0 PROVE new.base[u] \in Above(s)
    <3>1. CASE u = t BY <1>2, <1>19, <2>3, <3>1 DEF Above
    <3>2. CASE u # t
      <4>1. new.base[u] = s.base[u] BY <1>2, <3>2
      <4> QED BY <2>3, <4>1 DEF Above
    <3> QED BY <3>1, <3>2
  <2>4. Above(new) \subseteq Above(s) BY <2>2, <2>3 DEF Above
  <2> QED BY <2>1, <2>4 DEF Keeps
<1>10. At(new.out.mem, new.base[t]) = s.out.preg[r]
  <2>1. At(Put(s.out.mem, new.base[t], s.out.preg[r]), new.base[t]) = s.out.preg[r]
    BY PutAt
  <2> QED BY <1>4, <2>1
<1>11. ASSUME NEW u \in Temp \ {t}
       PROVE At(new.out.mem, new.base[u]) = At(s.out.mem, s.base[u])
  <2>1. new.base[u] # new.base[t] /\ new.base[u] = s.base[u] BY <1>2, <1>3
  <2>2. At(Put(s.out.mem, new.base[t], s.out.preg[r]), new.base[u])
          = At(s.out.mem, new.base[u])
    BY <2>1, PutAt
  <2> QED BY <1>4, <2>1, <2>2
<1>14. new.spilled[t] /\ \A u \in Temp \ {t} : new.spilled[u] = s.spilled[u]
  BY <1>0, <1>1
<1> QED
  BY <1>1, <1>4, <1>6, <1>7, <1>8, <1>9, <1>10, <1>11, <1>14 DEF Ordered, new

\* A register is taken from the temp it holds, if any.
LEMMA TakeTables ==
  ASSUME NEW s, Ordered(s), IsQueue(s.queue), NEW r \in CG!Reg,
         NEW t \in Temp \cup {NoTemp}
  PROVE  LET new == CG!Take(s, r, t)
         IN  /\ Ordered(new)
             /\ new.queue = CG!MoveBackInQueue(s.queue, CG!PositionOf(s.queue, r))
             /\ new.temp = [s.temp EXCEPT ![r] = t]
             /\ \A u \in Temp :
                  new.reg[u] = IF u = s.temp[r] THEN CG!NoReg ELSE s.reg[u]
             /\ new.out.preg = s.out.preg
             /\ new.out.outarg = s.out.outarg
             /\ Keeps(s, new)
             /\ \A u \in Temp \ {s.temp[r]} : new.spilled[u] = s.spilled[u]
             /\ \A u \in Temp \ {s.temp[r]} :
                  s.spilled[u] =>
                    At(new.out.mem, new.base[u]) = At(s.out.mem, s.base[u])
             /\ s.temp[r] \in Temp =>
                  /\ new.spilled[s.temp[r]]
                  /\ At(new.out.mem, new.base[s.temp[r]]) = s.out.preg[r]
<1> DEFINE got == CG!AllocRegister(s, r, t)
           old == s.temp[r]
           saved == CG!Save(got, r, old)
           new == CG!Take(s, r, t)
<1>0. /\ DOMAIN s = Members
      /\ s.queue \in [CG!Reg -> CG!Reg]
      /\ s.temp \in [CG!Reg -> Temp \cup {NoTemp}]
      /\ s.reg \in [Temp -> CG!Reg \cup {CG!NoReg}]
      /\ old \in Temp \cup {NoTemp}
  BY DEF Ordered, IsTables, Members
<1>1. /\ DOMAIN got = Members
      /\ got.queue = CG!MoveBackInQueue(s.queue, CG!PositionOf(s.queue, r))
      /\ got.temp = [s.temp EXCEPT ![r] = t]
      /\ got.reg = s.reg /\ got.base = s.base /\ got.spilled = s.spilled
      /\ got.count = s.count /\ got.out = s.out
  BY <1>0, AllocFields
<1>2. new = IF old = NoTemp THEN got ELSE CG!SetReg(saved, old, CG!NoReg)
  BY DEF CG!Take, CG!Spill
<1> HIDE DEF got, new
<1>3. got.queue \in [CG!Reg -> CG!Reg]
  BY <1>0, <1>1, Position, MoveBack
<1>4. Ordered(got)
  <2>1. got.temp \in [CG!Reg -> Temp \cup {NoTemp}] BY <1>0, <1>1
  <2>2. IsTables(got) BY <1>1, <1>3, <2>1 DEF Ordered, IsTables, Members
  <2>3. Slots(got) BY <1>1 DEF Ordered, Slots
  <2>4. Written(got) BY <1>1 DEF Ordered, Written
  <2> QED BY <2>2, <2>3, <2>4 DEF Ordered
<1>5. CASE old = NoTemp
  <2>1. new = got BY <1>2, <1>5
  <2>2. Keeps(s, new) BY <1>1, <2>1, KeepsItself
  <2>3. \A u \in Temp : u # old BY <1>5, TempAssumption
  <2> QED BY <1>1, <1>4, <2>1, <2>2, <2>3 DEF new, old
<1>6. CASE old # NoTemp
  <2>0. old \in Temp BY <1>0, <1>6
  <2>1. new = CG!SetReg(saved, old, CG!NoReg) BY <1>2, <1>6
  <2> HIDE DEF old
  <2>2. /\ Ordered(saved)
        /\ saved.queue = got.queue
        /\ saved.temp = got.temp
        /\ saved.reg = got.reg
        /\ saved.out.preg = got.out.preg
        /\ saved.out.outarg = got.out.outarg
        /\ Keeps(got, saved)
        /\ saved.spilled[old]
        /\ \A u \in Temp \ {old} : saved.spilled[u] = got.spilled[u]
        /\ At(saved.out.mem, saved.base[old]) = got.out.preg[r]
        /\ \A u \in Temp \ {old} :
             got.spilled[u] =>
               At(saved.out.mem, saved.base[u]) = At(got.out.mem, got.base[u])
    BY <1>4, <2>0, SaveTemp
  <2> HIDE DEF saved
  <2>3. DOMAIN saved = Members BY <2>2 DEF Ordered, IsTables, Members
  <2>4. /\ DOMAIN new = Members
        /\ new.queue = saved.queue
        /\ new.temp = saved.temp
        /\ new.reg = [saved.reg EXCEPT ![old] = CG!NoReg]
        /\ new.base = saved.base
        /\ new.spilled = saved.spilled
        /\ new.count = saved.count
        /\ new.out = saved.out
    BY <2>1, <2>3, SetRegFields
  <2> HIDE DEF got, saved, new
  <2>8. new.reg = [s.reg EXCEPT ![old] = CG!NoReg] BY <1>1, <2>2, <2>4
  <2>5. \A u \in Temp : new.reg[u] = IF u = old THEN CG!NoReg ELSE s.reg[u]
    BY <1>0, <2>8
  <2>6. Ordered(new)
    <3>0. Ordered(saved) BY <2>2
    <3>1. new.reg \in [Temp -> CG!Reg \cup {CG!NoReg}]
      BY <1>0, <2>8
    <3>2. IsTables(new)
      BY <2>4, <3>0, <3>1 DEF Ordered, IsTables, Members
    <3>3. Slots(new)
      <4>1. new.base = saved.base /\ new.spilled = saved.spilled /\ new.count = saved.count
        BY <2>4
      <4>2. Slots(saved) BY <3>0 DEF Ordered
      <4> QED BY <4>1, <4>2, SameSlots
    <3>4. Written(new) BY <2>4, <3>0 DEF Ordered, Written
    <3> QED BY <3>2, <3>3, <3>4 DEF Ordered
  <2>7. Keeps(s, new)
    <3>1. Keeps(got, saved) BY <2>2
    <3>2. /\ new.base = saved.base /\ new.spilled = saved.spilled
          /\ new.out.mem = saved.out.mem
      BY <2>4
    <3>3. Keeps(got, new) BY <3>1, <3>2, KeepsOn
    <3>4. got.base = s.base /\ got.spilled = s.spilled /\ got.out = s.out BY <1>1
    <3> QED BY <3>3, <3>4 DEF Keeps, KeepsSlots, Above
  <2> QED BY <1>1, <2>2, <2>4, <2>5, <2>6, <2>7 DEF old, new
<1> QED BY <1>5, <1>6
-----------------------------------------------------------------------------
(* Getting registers *)

\* What getting register r leaves alone: the values of the other registers ...
Beside(s, new, r) ==
  /\ Keeps(s, new)
  /\ new.out.outarg = s.out.outarg
  /\ \A x \in CG!Reg \ {r} : new.out.preg[x] = s.out.preg[x]
  /\ Recent(new.queue, r, 1)
  /\ \A x \in CG!Reg, k \in Nat : Recent(s.queue, x, k) => Recent(new.queue, x, k + 1)

\* ... and what they hold.
Aside(s, new, r) ==
  /\ Beside(s, new, r)
  /\ \A x \in CG!Reg \ {r} : new.temp[x] = s.temp[x]

\* A register is used again, or for the first time.
LEMMA Requeue ==
  ASSUME NEW s, IsTables(s), IsQueue(s.queue), NEW r \in CG!Reg
  PROVE  LET q == CG!MoveBackInQueue(s.queue, CG!PositionOf(s.queue, r))
         IN  /\ q \in [CG!Reg -> CG!Reg]
             /\ IsQueue(q)
             /\ Recent(q, r, 1)
             /\ \A x \in CG!Reg, k \in Nat : Recent(s.queue, x, k) => Recent(q, x, k + 1)
<1>1. s.queue \in [CG!Reg -> CG!Reg] BY DEF IsTables
<1>2. /\ CG!PositionOf(s.queue, r) \in CG!Reg
      /\ s.queue[CG!PositionOf(s.queue, r)] = r
  BY <1>1, Position
<1> QED BY <1>1, <1>2, MoveBack

\* After a register is taken every value is still where it is expected.
LEMMA TakeHome ==
  ASSUME NEW s, NEW e, Sound(s, e), NEW r \in CG!Reg,
         NEW t \in Temp \cup {NoTemp}
  PROVE  LET new == CG!Take(s, r, t)
         IN  /\ Ordered(new)
             /\ IsQueue(new.queue)
             /\ Home(new, e)
             /\ Aside(s, new, r)
             /\ new.temp = [s.temp EXCEPT ![r] = t]
             /\ \A u \in Temp :
                  new.reg[u] = IF u = s.temp[r] THEN CG!NoReg ELSE s.reg[u]
             /\ new.out.preg = s.out.preg
             /\ \A u \in Temp \ {s.temp[r]} : new.spilled[u] = s.spilled[u]
             /\ \A u \in Temp \ {s.temp[r]} :
                  s.spilled[u] =>
                    At(new.out.mem, new.base[u]) = At(s.out.mem, s.base[u])
             /\ AllInSlots(s, e) => AllInSlots(new, e)
<1> DEFINE new == CG!Take(s, r, t)
           old == s.temp[r]
<1>0. /\ Ordered(s) /\ IsTables(s) /\ Agree(s) /\ IsQueue(s.queue) /\ Home(s, e)
      /\ s.temp \in [CG!Reg -> Temp \cup {NoTemp}]
      /\ s.reg \in [Temp -> CG!Reg \cup {CG!NoReg}]
  BY DEF Sound, Ordered, IsTables
<1>1. /\ Ordered(new)
      /\ new.queue = CG!MoveBackInQueue(s.queue, CG!PositionOf(s.queue, r))
      /\ new.temp = [s.temp EXCEPT ![r] = t]
      /\ \A u \in Temp :
           new.reg[u] = IF u = s.temp[r] THEN CG!NoReg ELSE s.reg[u]
      /\ new.out.preg = s.out.preg
      /\ new.out.outarg = s.out.outarg
      /\ Keeps(s, new)
      /\ \A u \in Temp \ {s.temp[r]} : new.spilled[u] = s.spilled[u]
      /\ \A u \in Temp \ {s.temp[r]} :
           s.spilled[u] =>
             At(new.out.mem, new.base[u]) = At(s.out.mem, s.base[u])
      /\ s.temp[r] \in Temp =>
           /\ new.spilled[s.temp[r]]
           /\ At(new.out.mem, new.base[s.temp[r]]) = s.out.preg[r]
  BY <1>0, TakeTables
<1> HIDE DEF new
<1>6. /\ IsQueue(new.queue)
      /\ Recent(new.queue, r, 1)
      /\ \A x \in CG!Reg, k \in Nat :
           Recent(s.queue, x, k) => Recent(new.queue, x, k + 1)
  BY <1>0, <1>1, Requeue
<1>7. old \in Temp => s.reg[old] = r BY <1>0 DEF Agree
<1>8. ASSUME NEW u \in Temp, e[u] # Undef
      PROVE  /\ IF new.reg[u] # CG!NoReg THEN new.out.preg[new.reg[u]] = e[u]
                ELSE InSlot(new, e, u)
             /\ InSlot(s, e, u) => InSlot(new, e, u)
  <2>0. IF s.reg[u] # CG!NoReg THEN s.out.preg[s.reg[u]] = e[u] ELSE InSlot(s, e, u)
    BY <1>0, <1>8 DEF Home
  <2>1. CASE u = old
    <3>1. new.reg[u] = CG!NoReg BY <1>1, <2>1
    <3>2. s.reg[u] = r /\ r # CG!NoReg
      BY <1>7, <2>1, RegAssumption DEF CG!Reg, CG!NoReg
    <3> QED BY <1>1, <2>0, <2>1, <3>1, <3>2 DEF InSlot
  <2>2. CASE u # old
    <3>1. new.reg[u] = s.reg[u] /\ new.spilled[u] = s.spilled[u] BY <1>1, <2>2
    <3>2. s.spilled[u] => At(new.out.mem, new.base[u]) = At(s.out.mem, s.base[u])
      BY <1>1, <2>2
    <3> QED BY <1>1, <2>0, <3>1, <3>2 DEF InSlot
  <2> QED BY <2>1, <2>2
<1>9. Home(new, e) BY <1>8 DEF Home
<1>10. AllInSlots(s, e) => AllInSlots(new, e) BY <1>8 DEF AllInSlots
<1>11. Aside(s, new, r)
  BY <1>0, <1>1, <1>6 DEF Aside, Beside
<1> QED BY <1>1, <1>6, <1>9, <1>10, <1>11 DEF new

\* The tables x come of taken, where register r was taken for t, by bringing
\* a value into r; no other register is left to t.
Brought(s, taken, x, r, t) ==
  /\ DOMAIN x = Members
  /\ x.queue = taken.queue
  /\ x.temp \in [CG!Reg -> Temp \cup {NoTemp}]
  /\ \A y \in CG!Reg :
       x.temp[y] = IF y = r THEN t
                   ELSE IF s.temp[y] = t THEN NoTemp ELSE s.temp[y]
  /\ x.reg = taken.reg
  /\ x.base = taken.base
  /\ x.spilled = taken.spilled
  /\ x.count = taken.count
  /\ IsMachine(x.out)
  /\ x.out.mem = taken.out.mem
  /\ x.out.outarg = taken.out.outarg
  /\ \A y \in CG!Reg \ {r} : x.out.preg[y] = taken.out.preg[y]

\* Register r is given to a temp, for which a value may be brought into r; f
\* is what the temps are worth then.
LEMMA Give ==
  ASSUME NEW s, NEW e, Sound(s, e), NEW r \in CG!Reg,
         NEW t \in Temp, s.temp[r] # t,
         NEW x, Brought(s, CG!Take(s, r, t), x, r, t),
         NEW f, \A u \in Temp \ {t} : f[u] = e[u],
         f[t] # Undef => x.out.preg[r] = f[t]
  PROVE  LET new == CG!SetReg(x, t, r)
         IN  /\ Sound(new, f)
             /\ Beside(s, new, r)
             /\ new.reg[t] = r
             /\ new.temp[r] = t
             /\ AllInSlots(s, e) /\ AllInSlots(s, f) => AllInSlots(new, f)
<1> DEFINE new == CG!SetReg(x, t, r)
           taken == CG!Take(s, r, t)
<1>0. /\ Ordered(s) /\ IsTables(s) /\ Agree(s) /\ IsQueue(s.queue) /\ Home(s, e)
      /\ s.temp \in [CG!Reg -> Temp \cup {NoTemp}]
      /\ s.reg \in [Temp -> CG!Reg \cup {CG!NoReg}]
      /\ r # CG!NoReg
  BY RegAssumption DEF Sound, Ordered, IsTables, CG!Reg, CG!NoReg
<1>1. /\ Ordered(taken)
      /\ IsQueue(taken.queue)
      /\ Home(taken, e)
      /\ Aside(s, taken, r)
      /\ taken.temp = [s.temp EXCEPT ![r] = t]
      /\ \A u \in Temp :
           taken.reg[u] = IF u = s.temp[r] THEN CG!NoReg ELSE s.reg[u]
      /\ taken.out.preg = s.out.preg
      /\ \A u \in Temp \ {s.temp[r]} : taken.spilled[u] = s.spilled[u]
      /\ \A u \in Temp \ {s.temp[r]} :
           s.spilled[u] =>
             At(taken.out.mem, taken.base[u]) = At(s.out.mem, s.base[u])
      /\ AllInSlots(s, e) => AllInSlots(taken, e)
  BY TakeHome
<1>2. /\ DOMAIN new = Members
      /\ new.queue = x.queue
      /\ new.temp = x.temp
      /\ new.reg = [x.reg EXCEPT ![t] = r]
      /\ new.base = x.base
      /\ new.spilled = x.spilled
      /\ new.count = x.count
      /\ new.out = x.out
  <2>1. DOMAIN x = Members BY DEF Brought
  <2> QED BY <2>1, SetRegFields
<1>3. /\ x.queue = taken.queue
      /\ x.temp \in [CG!Reg -> Temp \cup {NoTemp}]
      /\ \A y \in CG!Reg :
           x.temp[y] = IF y = r THEN t
                       ELSE IF s.temp[y] = t THEN NoTemp ELSE s.temp[y]
      /\ x.reg = taken.reg
      /\ x.base = taken.base /\ x.spilled = taken.spilled
      /\ x.count = taken.count
      /\ IsMachine(x.out)
      /\ x.out.mem = taken.out.mem /\ x.out.outarg = taken.out.outarg
      /\ \A y \in CG!Reg \ {r} : x.out.preg[y] = taken.out.preg[y]
  BY DEF Brought
<1> HIDE DEF new, taken
<1>4. taken.reg \in [Temp -> CG!Reg \cup {CG!NoReg}]
  BY <1>1 DEF Ordered, IsTables
<1>5. \A u \in Temp :
        new.reg[u] = IF u = t THEN r
                     ELSE IF u = s.temp[r] THEN CG!NoReg ELSE s.reg[u]
  <2>2. new.reg = [taken.reg EXCEPT ![t] = r] BY <1>2, <1>3
  <2>1. \A u \in Temp : new.reg[u] = IF u = t THEN r ELSE taken.reg[u]
    BY <1>4, <2>2
  <2> QED BY <1>1, <2>1
<1>6. \A y \in CG!Reg :
        new.temp[y] = IF y = r THEN t
                      ELSE IF s.temp[y] = t THEN NoTemp ELSE s.temp[y]
  BY <1>2, <1>3
<1>7. Agree(new)
  <2> SUFFICES ASSUME NEW y \in CG!Reg, NEW u \in Temp
               PROVE new.temp[y] = u <=> new.reg[u] = y
    BY DEF Agree
  <2>1. y # CG!NoReg BY RegAssumption DEF CG!Reg, CG!NoReg
  <2>2. /\ s.temp[y] = u <=> s.reg[u] = y
        /\ s.temp[y] = t <=> s.reg[t] = y
        /\ s.temp[r] = u <=> s.reg[u] = r
    BY <1>0 DEF Agree
  <2>3. new.temp[y] = IF y = r THEN t
                      ELSE IF s.temp[y] = t THEN NoTemp ELSE s.temp[y]
    BY <1>6
  <2>4. new.reg[u] = IF u = t THEN r
                     ELSE IF u = s.temp[r] THEN CG!NoReg ELSE s.reg[u]
    BY <1>5
  <2>5. CASE u = t BY <1>0, <2>1, <2>2, <2>3, <2>4, <2>5, TempAssumption
  <2>6. CASE u # t BY <1>0, <2>1, <2>2, <2>3, <2>4, <2>6, TempAssumption
  <2> QED BY <2>5, <2>6
<1>8. Ordered(new)
  <2>1. new.reg \in [Temp -> CG!Reg \cup {CG!NoReg}] BY <1>2, <1>3, <1>4
  <2>0. /\ new.base = taken.base /\ new.spilled = taken.spilled
        /\ new.count = taken.count
        /\ new.queue = taken.queue
        /\ new.temp \in [CG!Reg -> Temp \cup {NoTemp}]
        /\ new.out.mem = taken.out.mem
        /\ IsMachine(new.out)
        /\ DOMAIN new = Members
    BY <1>2, <1>3
  <2>2. IsTables(new) BY <1>1, <2>0, <2>1 DEF Ordered, IsTables, Members
  <2>3. Slots(new)
    <3>1. new.base = taken.base /\ new.spilled = taken.spilled
          /\ new.count = taken.count
      BY <2>0
    <3>2. Slots(taken) BY <1>1 DEF Ordered
    <3> QED BY <3>1, <3>2, SameSlots
  <2>4. Written(new)
    <3>1. new.out.mem = taken.out.mem /\ new.count = taken.count BY <2>0
    <3>2. Written(taken) BY <1>1 DEF Ordered
    <3> QED BY <3>1, <3>2 DEF Written
  <2> QED BY <2>2, <2>3, <2>4 DEF Ordered
<1>9. new.reg[t] = r /\ new.temp[r] = t BY <1>0, <1>5, <1>6
<1>10. \A u \in Temp : InSlot(taken, e, u) => (u # t => InSlot(new, f, u))
  BY <1>2, <1>3 DEF InSlot
<1>11. Home(new, f)
  <2> SUFFICES ASSUME NEW u \in Temp, f[u] # Undef
               PROVE IF new.reg[u] # CG!NoReg
                     THEN new.out.preg[new.reg[u]] = f[u] ELSE InSlot(new, f, u)
    BY DEF Home
  <2>1. CASE u = t BY <1>0, <1>2, <1>9, <2>1
  <2>2. CASE u # t
    <3>1. f[u] = e[u] BY <2>2
    <3>2. IF taken.reg[u] # CG!NoReg
          THEN taken.out.preg[taken.reg[u]] = e[u] ELSE InSlot(taken, e, u)
      BY <1>1, <3>1 DEF Home
    <3>3. new.reg[u] = taken.reg[u] BY <1>1, <1>5, <2>2
    <3>4. taken.reg[u] # r
      <4>1. s.temp[r] = u <=> s.reg[u] = r BY <1>0 DEF Agree
      <4>2. taken.reg[u] = IF u = s.temp[r] THEN CG!NoReg ELSE s.reg[u] BY <1>1
      <4> QED BY <1>0, <4>1, <4>2
    <3>5. taken.reg[u] \in CG!Reg \cup {CG!NoReg} BY <1>4
    <3>6. CASE taken.reg[u] = CG!NoReg BY <1>10, <2>2, <3>2, <3>3, <3>6
    <3>7. CASE taken.reg[u] # CG!NoReg
      <4>1. new.out.preg[taken.reg[u]] = taken.out.preg[taken.reg[u]]
        BY <1>2, <1>3, <3>4, <3>5, <3>7
      <4> QED BY <3>1, <3>2, <3>3, <3>7, <4>1
    <3> QED BY <3>6, <3>7
  <2> QED BY <2>1, <2>2
<1>12. IsQueue(new.queue) BY <1>1, <1>2, <1>3
<1>13. Beside(s, new, r)
  <2>1. /\ new.base = taken.base /\ new.spilled = taken.spilled
        /\ new.queue = taken.queue
        /\ new.out.outarg = taken.out.outarg
        /\ new.out.mem = taken.out.mem
        /\ \A y \in CG!Reg \ {r} : new.out.preg[y] = taken.out.preg[y]
    BY <1>2, <1>3
  <2>2. Aside(s, taken, r) BY <1>1
  <2>3. Keeps(s, taken) BY <2>2 DEF Aside, Beside
  <2>4. Keeps(s, new) BY <2>1, <2>3, KeepsOn
  <2> QED BY <2>1, <2>2, <2>4 DEF Aside, Beside
<1>14. ASSUME AllInSlots(s, e), AllInSlots(s, f) PROVE AllInSlots(new, f)
  <2> SUFFICES ASSUME NEW u \in Temp, f[u] # Undef PROVE InSlot(new, f, u)
    BY DEF AllInSlots
  <2>1. CASE u = t
    <3>1. t # s.temp[r] OBVIOUS
    <3>2. InSlot(s, f, t) BY <1>14, <2>1 DEF AllInSlots
    <3>3. taken.spilled[t] = s.spilled[t] BY <1>1, <3>1
    <3>4. s.spilled[t] => At(taken.out.mem, taken.base[t]) = At(s.out.mem, s.base[t])
      BY <1>1, <3>1
    <3> QED BY <1>2, <1>3, <2>1, <3>2, <3>3, <3>4 DEF InSlot
  <2>2. CASE u # t
    <3>1. InSlot(taken, e, u) BY <1>1, <1>14, <2>2 DEF AllInSlots
    <3> QED BY <1>10, <2>2, <3>1
  <2> QED BY <2>1, <2>2
<1> QED
  BY <1>7, <1>8, <1>9, <1>11, <1>12, <1>13, <1>14 DEF Sound, new

\* The values of fewer temps are easier to keep.
LEMMA Weaken ==
  ASSUME NEW s, NEW e, Sound(s, e), NEW f,
         \A u \in Temp : f[u] = Undef \/ f[u] = e[u]
  PROVE  Sound(s, f)
BY DEF Sound, Home, InSlot

\* A temp is found in its register.
LEMMA Reuse ==
  ASSUME NEW s, NEW e, Sound(s, e), NEW r \in CG!Reg, NEW t \in Temp, s.reg[t] = r
  PROVE  LET new == CG!AllocRegister(s, r, t)
         IN  /\ Sound(new, e)
             /\ Aside(s, new, r)
             /\ new.reg = s.reg
             /\ new.temp = s.temp
             /\ new.out = s.out
             /\ AllInSlots(s, e) => AllInSlots(new, e)
<1> DEFINE new == CG!AllocRegister(s, r, t)
<1>0. /\ Ordered(s) /\ IsTables(s) /\ Agree(s) /\ IsQueue(s.queue) /\ Home(s, e)
      /\ s.temp \in [CG!Reg -> Temp \cup {NoTemp}]
      /\ s.temp[r] = t
      /\ DOMAIN s = Members
  BY DEF Sound, Ordered, IsTables, Agree, Members
<1>1. /\ DOMAIN new = Members
      /\ new.queue = CG!MoveBackInQueue(s.queue, CG!PositionOf(s.queue, r))
      /\ new.temp = [s.temp EXCEPT ![r] = t]
      /\ new.reg = s.reg
      /\ new.base = s.base
      /\ new.spilled = s.spilled
      /\ new.count = s.count
      /\ new.out = s.out
  BY <1>0, AllocFields
<1> HIDE DEF new
<1>2. new.temp = s.temp BY <1>0, <1>1
<1>3. /\ new.queue \in [CG!Reg -> CG!Reg]
      /\ IsQueue(new.queue)
      /\ Recent(new.queue, r, 1)
      /\ \A x \in CG!Reg, k \in Nat :
           Recent(s.queue, x, k) => Recent(new.queue, x, k + 1)
  <2> DEFINE q == CG!MoveBackInQueue(s.queue, CG!PositionOf(s.queue, r))
  <2>1. /\ q \in [CG!Reg -> CG!Reg]
        /\ IsQueue(q)
        /\ Recent(q, r, 1)
        /\ \A x \in CG!Reg, k \in Nat :
             Recent(s.queue, x, k) => Recent(q, x, k + 1)
    BY <1>0, Requeue
  <2> QED BY <1>1, <2>1
<1>4. IsTables(new) BY <1>0, <1>1, <1>2, <1>3 DEF IsTables, Members
<1>5. Slots(new)
  <2>1. Slots(s) BY <1>0 DEF Ordered
  <2> QED BY <1>1, <2>1, SameSlots
<1>6. Written(new)
  <2>1. Written(s) BY <1>0 DEF Ordered
  <2>2. new.out = s.out /\ new.count = s.count BY <1>1
  <2> QED BY <2>1, <2>2 DEF Written
<1>7. Agree(new) BY <1>0, <1>1, <1>2 DEF Agree
<1>8. \A u \in Temp : InSlot(s, e, u) => InSlot(new, e, u) BY <1>1 DEF InSlot
<1>9. Home(new, e) BY <1>0, <1>1, <1>8 DEF Home
<1>10. AllInSlots(s, e) => AllInSlots(new, e) BY <1>8 DEF AllInSlots
<1>11. Aside(s, new, r)
  <2>1. Keeps(s, new) BY <1>1, KeepsItself
  <2> QED BY <1>1, <1>2, <1>3, <2>1 DEF Aside, Beside
<1> QED
  BY <1>1, <1>2, <1>3, <1>4, <1>5, <1>6, <1>7, <1>9, <1>10, <1>11
  DEF Sound, Ordered, new

\* A temp without a register is given one, to be written.
LEMMA GiveEmpty ==
  ASSUME NEW s, NEW e, Sound(s, e), NEW r \in CG!Reg,
         NEW t \in Temp, s.reg[t] = CG!NoReg,
         NEW f, \A u \in Temp \ {t} : f[u] = e[u], f[t] = Undef
  PROVE  LET new == CG!SetReg(CG!Take(s, r, t), t, r)
         IN  /\ Sound(new, f)
             /\ Aside(s, new, r)
             /\ new.reg[t] = r
             /\ new.temp[r] = t
             /\ AllInSlots(s, e) => AllInSlots(new, f)
<1> DEFINE taken == CG!Take(s, r, t)
           new == CG!SetReg(taken, t, r)
<1>0. /\ r # CG!NoReg
      /\ s.temp \in [CG!Reg -> Temp \cup {NoTemp}]
      /\ \A y \in CG!Reg : s.temp[y] # t
  BY RegAssumption DEF Sound, Ordered, IsTables, Agree, CG!Reg, CG!NoReg
<1>1. Ordered(taken) /\ taken.temp = [s.temp EXCEPT ![r] = t]
  BY TakeTables DEF Sound
<1>2. DOMAIN taken = Members /\ IsMachine(taken.out)
  BY <1>1 DEF Ordered, IsTables, Members
<1>3. AllInSlots(s, e) => AllInSlots(s, f) BY DEF AllInSlots, InSlot
<1> HIDE DEF taken
<1>4. Brought(s, taken, taken, r, t) BY <1>0, <1>1, <1>2 DEF Brought
<1>5. f[t] # Undef => taken.out.preg[r] = f[t] OBVIOUS
<1>6. /\ Sound(new, f)
      /\ Beside(s, new, r)
      /\ new.reg[t] = r
      /\ new.temp[r] = t
      /\ AllInSlots(s, e) /\ AllInSlots(s, f) => AllInSlots(new, f)
  BY <1>0, <1>4, <1>5, Give DEF taken
<1>7. new.temp = taken.temp BY <1>2 DEF CG!SetReg, Members
<1>8. Aside(s, new, r) BY <1>0, <1>1, <1>6, <1>7 DEF Aside
<1> QED BY <1>3, <1>6, <1>8 DEF taken

\* A temp without a register is loaded from its slot.
LEMMA GiveLoaded ==
  ASSUME NEW s, NEW e, Sound(s, e), NEW r \in CG!Reg,
         NEW t \in Temp, s.reg[t] = CG!NoReg, s.spilled[t]
  PROVE  LET new == CG!SetReg(CG!Code(CG!Take(s, r, t), "load", r, s.base[t]), t, r)
         IN  /\ Sound(new, e)
             /\ Aside(s, new, r)
             /\ new.reg[t] = r
             /\ new.temp[r] = t
             /\ AllInSlots(s, e) => AllInSlots(new, e)
<1> DEFINE taken == CG!Take(s, r, t)
           x == CG!Code(taken, "load", r, s.base[t])
           new == CG!SetReg(x, t, r)
           v == At(taken.out.mem, s.base[t])
<1>1. /\ Ordered(taken)
      /\ IsQueue(taken.queue)
      /\ Home(taken, e)
      /\ Aside(s, taken, r)
      /\ taken.temp = [s.temp EXCEPT ![r] = t]
      /\ \A u \in Temp :
           taken.reg[u] = IF u = s.temp[r] THEN CG!NoReg ELSE s.reg[u]
      /\ taken.out.preg = s.out.preg
      /\ \A u \in Temp \ {s.temp[r]} : taken.spilled[u] = s.spilled[u]
      /\ \A u \in Temp \ {s.temp[r]} :
           s.spilled[u] =>
             At(taken.out.mem, taken.base[u]) = At(s.out.mem, s.base[u])
      /\ AllInSlots(s, e) => AllInSlots(taken, e)
  BY TakeHome
<1> HIDE DEF taken
<1>2. DOMAIN taken = Members /\ IsMachine(taken.out)
  BY <1>1 DEF Ordered, IsTables, Members
<1>3. /\ DOMAIN x = Members
      /\ x.queue = taken.queue /\ x.temp = taken.temp /\ x.reg = taken.reg
      /\ x.base = taken.base /\ x.spilled = taken.spilled /\ x.count = taken.count
      /\ x.out = Exec(taken.out, "load", r, s.base[t])
  BY <1>2, CodeFields
<1>4. x.out = Set(taken.out, r, v)
  <2>1. Exec(taken.out, "load", r, s.base[t])
          = Set(taken.out, r, At(taken.out.mem, s.base[t]))
    BY ExecLoadIs
  <2> QED BY <1>3, <2>1
<1>5. v \in Value BY <1>2, AtValue
<1> HIDE DEF x, v
<1>6. /\ IsMachine(x.out)
      /\ x.out.preg = [taken.out.preg EXCEPT ![r] = v]
      /\ x.out.mem = taken.out.mem
      /\ x.out.outarg = taken.out.outarg
  BY <1>2, <1>4, <1>5, SetRegister
<1>7. taken.out.preg \in [CG!Reg -> Value] BY <1>2 DEF IsMachine
<1>8. x.out.preg[r] = v /\ \A y \in CG!Reg \ {r} : x.out.preg[y] = taken.out.preg[y]
  BY <1>6, <1>7
<1>9. e[t] # Undef => x.out.preg[r] = e[t]
  <2> SUFFICES ASSUME e[t] # Undef PROVE v = e[t] BY <1>8
  <2>1. r # CG!NoReg BY RegAssumption DEF CG!Reg, CG!NoReg
  <2>2. t # s.temp[r] BY <2>1 DEF Sound, Agree
  <2>3. At(taken.out.mem, taken.base[t]) = At(s.out.mem, s.base[t]) BY <1>1, <2>2
  <2>4. s.base[t] # 0 BY DEF Sound, Ordered, Slots
  <2>7. Keeps(s, taken) BY <1>1 DEF Aside, Beside
  <2>5. taken.base[t] = s.base[t] BY <2>4, <2>7 DEF Keeps, KeepsSlots
  <2>6. At(s.out.mem, s.base[t]) = e[t] BY DEF Sound, Home, InSlot
  <2> QED BY <2>3, <2>5, <2>6 DEF v
<1>10. /\ r # CG!NoReg
       /\ s.temp \in [CG!Reg -> Temp \cup {NoTemp}]
       /\ \A y \in CG!Reg : s.temp[y] # t
  BY RegAssumption DEF Sound, Ordered, IsTables, Agree, CG!Reg, CG!NoReg
<1>11. Brought(s, taken, x, r, t) BY <1>1, <1>3, <1>6, <1>8, <1>10 DEF Brought
<1>12. /\ Sound(new, e)
       /\ Beside(s, new, r)
       /\ new.reg[t] = r
       /\ new.temp[r] = t
       /\ AllInSlots(s, e) /\ AllInSlots(s, e) => AllInSlots(new, e)
  <2>1. \A u \in Temp \ {t} : e[u] = e[u] OBVIOUS
  <2> QED BY <1>9, <1>10, <1>11, <2>1, Give DEF taken
<1>13. new.temp = x.temp BY <1>3 DEF CG!SetReg, Members
<1>14. Aside(s, new, r) BY <1>1, <1>3, <1>10, <1>12, <1>13 DEF Aside
<1> QED BY <1>12, <1>14 DEF taken, x

\* Registers used by the last three requests are spared by the next one.
Spares(s, new) ==
  \A x \in CG!Reg : Recent(s.queue, x, 3) =>
    new.temp[x] = s.temp[x] /\ new.out.preg[x] = s.out.preg[x]

\* The head of the queue is taken, so the recent registers are spared.
LEMMA HeadSpares ==
  ASSUME NEW s, NEW e, Sound(s, e), NEW new, Aside(s, new, s.queue[0])
  PROVE  s.queue[0] \in CG!Reg /\ Spares(s, new)
<1>1. s.queue \in [CG!Reg -> CG!Reg] /\ IsQueue(s.queue)
  BY DEF Sound, Ordered, IsTables
<1>2. s.queue[0] \in CG!Reg BY <1>1, RegAssumption DEF CG!Reg
<1>3. ASSUME NEW x \in CG!Reg, Recent(s.queue, x, 3) PROVE s.queue[0] # x
  BY <1>1, <1>3, HeadNotRecent, RegAssumption
<1> QED BY <1>2, <1>3 DEF Aside, Beside, Spares

\* get_any_register_for a temp that will be written.
LEMMA AnyForTarget ==
  ASSUME NEW s, NEW e, Sound(s, e), NEW t \in Temp,
         NEW f, \A u \in Temp \ {t} : f[u] = e[u], f[t] = Undef
  PROVE  LET new == CG!GetAnyRegisterFor(s, t, FALSE)
         IN  /\ Sound(new, f)
             /\ new.reg[t] \in CG!Reg
             /\ new.temp[new.reg[t]] = t
             /\ Aside(s, new, new.reg[t])
             /\ Spares(s, new)
<1> DEFINE new == CG!GetAnyRegisterFor(s, t, FALSE)
<1>0. s.reg[t] \in CG!Reg \cup {CG!NoReg} /\ CG!NoReg \notin CG!Reg
  BY RegAssumption DEF Sound, Ordered, IsTables, CG!Reg, CG!NoReg
<1>1. CASE s.reg[t] # CG!NoReg
  <2>1. new = CG!AllocRegister(s, s.reg[t], t)
    BY <1>1 DEF CG!GetAnyRegisterFor
  <2>2. s.reg[t] \in CG!Reg BY <1>0, <1>1
  <2> HIDE DEF new
  <2>3. /\ Sound(new, e)
        /\ Aside(s, new, s.reg[t])
        /\ new.reg = s.reg
        /\ new.temp = s.temp
        /\ new.out = s.out
    BY <2>1, <2>2, Reuse
  <2>4. Sound(new, f) BY <2>3, Weaken
  <2>5. Spares(s, new) BY <2>3 DEF Spares
  <2>6. s.temp[s.reg[t]] = t BY <2>2 DEF Sound, Agree
  <2> QED BY <2>2, <2>3, <2>4, <2>5, <2>6 DEF new
<1>2. CASE s.reg[t] = CG!NoReg
  <2> DEFINE r == s.queue[0]
  <2>1. new = CG!SetReg(CG!Take(s, r, t), t, r)
    BY <1>2 DEF CG!GetAnyRegisterFor
  <2>2. r \in CG!Reg
    BY RegAssumption DEF Sound, Ordered, IsTables, CG!Reg
  <2> HIDE DEF new
  <2>3. /\ Sound(new, f)
        /\ Aside(s, new, r)
        /\ new.reg[t] = r
        /\ new.temp[r] = t
    BY <1>2, <2>1, <2>2, GiveEmpty
  <2>4. Spares(s, new) BY <2>3, HeadSpares
  <2> QED BY <2>2, <2>3, <2>4 DEF new
<1> QED BY <1>1, <1>2

\* get_any_register_for a temp that will be read.
LEMMA AnyForOperand ==
  ASSUME NEW s, NEW e, Sound(s, e), NEW t \in Temp
  PROVE  LET new == CG!GetAnyRegisterFor(s, t, TRUE)
         IN  /\ Sound(new, e)
             /\ new.reg[t] \in CG!Reg
             /\ new.temp[new.reg[t]] = t
             /\ Aside(s, new, new.reg[t])
             /\ Spares(s, new)
             /\ AllInSlots(s, e) => AllInSlots(new, e)
<1> DEFINE new == CG!GetAnyRegisterFor(s, t, TRUE)
           r == s.queue[0]
<1>0. s.reg[t] \in CG!Reg \cup {CG!NoReg} /\ CG!NoReg \notin CG!Reg /\ r \in CG!Reg
  BY RegAssumption DEF Sound, Ordered, IsTables, CG!Reg, CG!NoReg
<1>1. CASE s.reg[t] # CG!NoReg
  <2>1. new = CG!AllocRegister(s, s.reg[t], t)
    BY <1>1 DEF CG!GetAnyRegisterFor
  <2>2. s.reg[t] \in CG!Reg BY <1>0, <1>1
  <2> HIDE DEF new
  <2>3. /\ Sound(new, e)
        /\ Aside(s, new, s.reg[t])
        /\ new.reg = s.reg
        /\ new.temp = s.temp
        /\ new.out = s.out
        /\ AllInSlots(s, e) => AllInSlots(new, e)
    BY <2>1, <2>2, Reuse
  <2>5. Spares(s, new) BY <2>3 DEF Spares
  <2>6. s.temp[s.reg[t]] = t BY <2>2 DEF Sound, Agree
  <2> QED BY <2>2, <2>3, <2>5, <2>6 DEF new
<1>2. CASE s.reg[t] = CG!NoReg /\ ~s.spilled[t]
  <2>1. new = CG!SetReg(CG!Take(s, r, t), t, r)
    BY <1>2 DEF CG!GetAnyRegisterFor
  <2>2. e[t] = Undef BY <1>2 DEF Sound, Home, InSlot
  <2>3. \A u \in Temp \ {t} : e[u] = e[u] OBVIOUS
  <2> HIDE DEF new, r
  <2>4. /\ Sound(new, e)
        /\ Aside(s, new, r)
        /\ new.reg[t] = r
        /\ new.temp[r] = t
        /\ AllInSlots(s, e) => AllInSlots(new, e)
    BY <1>0, <1>2, <2>1, <2>2, <2>3, GiveEmpty
  <2>5. Spares(s, new) BY <2>4, HeadSpares DEF r
  <2> QED BY <1>0, <2>4, <2>5 DEF new
<1>3. CASE s.reg[t] = CG!NoReg /\ s.spilled[t]
  <2>1. new = CG!SetReg(CG!Code(CG!Take(s, r, t), "load", r, s.base[t]), t, r)
    BY <1>3 DEF CG!GetAnyRegisterFor
  <2> HIDE DEF new, r
  <2>4. /\ Sound(new, e)
        /\ Aside(s, new, r)
        /\ new.reg[t] = r
        /\ new.temp[r] = t
        /\ AllInSlots(s, e) => AllInSlots(new, e)
    BY <1>0, <1>3, <2>1, GiveLoaded
  <2>5. Spares(s, new) BY <2>4, HeadSpares DEF r
  <2> QED BY <1>0, <2>4, <2>5 DEF new
<1> QED BY <1>1, <1>2, <1>3

\* get_register: the register is emptied.
LEMMA Emptied ==
  ASSUME NEW s, NEW e, Sound(s, e), NEW r \in CG!Reg
  PROVE  LET new == CG!GetRegister(s, r)
         IN  /\ Sound(new, e)
             /\ Aside(s, new, r)
             /\ new.temp[r] = NoTemp
<1> DEFINE new == CG!Take(s, r, NoTemp)
<1>0. /\ Agree(s)
      /\ s.temp \in [CG!Reg -> Temp \cup {NoTemp}]
      /\ r # CG!NoReg
  BY RegAssumption DEF Sound, Ordered, IsTables, CG!Reg, CG!NoReg
<1>1. /\ Ordered(new)
      /\ IsQueue(new.queue)
      /\ Home(new, e)
      /\ Aside(s, new, r)
      /\ new.temp = [s.temp EXCEPT ![r] = NoTemp]
      /\ \A u \in Temp :
           new.reg[u] = IF u = s.temp[r] THEN CG!NoReg ELSE s.reg[u]
      /\ new.out.preg = s.out.preg
      /\ \A u \in Temp \ {s.temp[r]} : new.spilled[u] = s.spilled[u]
      /\ \A u \in Temp \ {s.temp[r]} :
           s.spilled[u] =>
             At(new.out.mem, new.base[u]) = At(s.out.mem, s.base[u])
      /\ AllInSlots(s, e) => AllInSlots(new, e)
  BY TakeHome
<1> HIDE DEF new
<1>2. Agree(new)
  <2> SUFFICES ASSUME NEW y \in CG!Reg, NEW u \in Temp
               PROVE new.temp[y] = u <=> new.reg[u] = y
    BY DEF Agree
  <2>1. y # CG!NoReg BY RegAssumption DEF CG!Reg, CG!NoReg
  <2>2. /\ s.temp[y] = u <=> s.reg[u] = y
        /\ s.temp[r] = u <=> s.reg[u] = r
    BY <1>0 DEF Agree
  <2>3. new.temp[y] = IF y = r THEN NoTemp ELSE s.temp[y] BY <1>0, <1>1
  <2>4. new.reg[u] = IF u = s.temp[r] THEN CG!NoReg ELSE s.reg[u] BY <1>1
  <2> QED BY <1>0, <2>1, <2>2, <2>3, <2>4, TempAssumption
<1>3. new.temp[r] = NoTemp BY <1>0, <1>1
<1> QED BY <1>1, <1>2, <1>3 DEF Sound, CG!GetRegister, new

\* get_any_register: the register is not one of the recent ones.
LEMMA AnyEmptied ==
  ASSUME NEW s, NEW e, Sound(s, e)
  PROVE  LET new == CG!GetAnyRegister(s)
         IN  /\ Sound(new, e)
             /\ s.queue[0] \in CG!Reg
             /\ Aside(s, new, s.queue[0])
             /\ Spares(s, new)
             /\ new.temp[s.queue[0]] = NoTemp
<1>1. s.queue[0] \in CG!Reg
  BY RegAssumption DEF Sound, Ordered, IsTables, CG!Reg
<1>2. CG!GetAnyRegister(s) = CG!GetRegister(s, s.queue[0])
  BY DEF CG!GetAnyRegister, CG!GetRegister
<1>3. /\ Sound(CG!GetRegister(s, s.queue[0]), e)
      /\ Aside(s, CG!GetRegister(s, s.queue[0]), s.queue[0])
      /\ CG!GetRegister(s, s.queue[0]).temp[s.queue[0]] = NoTemp
  BY <1>1, Emptied
<1>4. Spares(s, CG!GetRegister(s, s.queue[0])) BY <1>3, HeadSpares
<1> QED BY <1>1, <1>2, <1>3, <1>4

Forget(e, t) == [e EXCEPT ![t] = Undef]

\* s1 has what s had, but r is for t now.
GivesTo(s, s1, e, t, r) ==
  /\ Sound(s1, e)
  /\ Aside(s, s1, r)
  /\ s1.reg[t] = r
  /\ s1.temp[r] = t

\* get_register_for a temp that is in no register and will be written.
LEMMA ForTarget ==
  ASSUME NEW s, NEW e \in [Temp -> Value], Sound(s, e), NEW r \in CG!Reg,
         NEW t \in Temp, s.reg[t] = CG!NoReg
  PROVE  GivesTo(s, CG!GetRegisterFor(s, r, t, FALSE), Forget(e, t), t, r)
<1> DEFINE f == Forget(e, t)
<1>1. s.temp[r] # t
  BY RegAssumption DEF Sound, Agree, CG!Reg, CG!NoReg
<1>2. CG!GetRegisterFor(s, r, t, FALSE) = CG!SetReg(CG!Take(s, r, t), t, r)
  BY <1>1 DEF CG!GetRegisterFor
<1>3. f[t] = Undef /\ \A u \in Temp \ {t} : f[u] = e[u] BY DEF Forget
<1> HIDE DEF f
<1>4. /\ Sound(CG!SetReg(CG!Take(s, r, t), t, r), f)
      /\ Aside(s, CG!SetReg(CG!Take(s, r, t), t, r), r)
      /\ CG!SetReg(CG!Take(s, r, t), t, r).reg[t] = r
      /\ CG!SetReg(CG!Take(s, r, t), t, r).temp[r] = t
  BY <1>3, GiveEmpty
<1> QED BY <1>2, <1>4 DEF GivesTo, f

\* A temp is moved from another register.
LEMMA GiveMoved ==
  ASSUME NEW s, NEW e, Sound(s, e), NEW r \in CG!Reg,
         NEW t \in Temp, NEW o \in CG!Reg, s.reg[t] = o, o # r
  PROVE  LET taken == CG!Take(s, r, t)
             new   == CG!SetReg(CG!DeallocRegister(CG!Code(taken, "mov", r, o), o), t, r)
         IN  /\ Sound(new, e)
             /\ Beside(s, new, r)
             /\ new.reg[t] = r
             /\ new.temp[r] = t
             /\ AllInSlots(s, e) => AllInSlots(new, e)
<1> DEFINE taken == CG!Take(s, r, t)
           moved == CG!Code(taken, "mov", r, o)
           x == CG!DeallocRegister(moved, o)
           new == CG!SetReg(x, t, r)
<1>0. /\ Agree(s)
      /\ s.temp \in [CG!Reg -> Temp \cup {NoTemp}]
      /\ s.temp[o] = t
      /\ s.temp[r] # t
      /\ \A y \in CG!Reg : s.temp[y] = t <=> y = o
      /\ o # CG!NoReg
  BY RegAssumption DEF Sound, Ordered, IsTables, Agree, CG!Reg, CG!NoReg
<1>1. /\ Ordered(taken)
      /\ taken.temp = [s.temp EXCEPT ![r] = t]
      /\ taken.out.preg = s.out.preg
  <2>1. /\ Ordered(taken)
        /\ IsQueue(taken.queue)
        /\ Home(taken, e)
        /\ Aside(s, taken, r)
        /\ taken.temp = [s.temp EXCEPT ![r] = t]
        /\ \A u \in Temp :
             taken.reg[u] = IF u = s.temp[r] THEN CG!NoReg ELSE s.reg[u]
        /\ taken.out.preg = s.out.preg
        /\ \A u \in Temp \ {s.temp[r]} : taken.spilled[u] = s.spilled[u]
        /\ \A u \in Temp \ {s.temp[r]} :
             s.spilled[u] =>
               At(taken.out.mem, taken.base[u]) = At(s.out.mem, s.base[u])
        /\ AllInSlots(s, e) => AllInSlots(taken, e)
    BY TakeHome
  <2> QED BY <2>1
<1> HIDE DEF taken
<1>2. DOMAIN taken = Members /\ IsMachine(taken.out)
  BY <1>1 DEF Ordered, IsTables, Members
<1>3. /\ DOMAIN moved = Members
      /\ moved.queue = taken.queue /\ moved.temp = taken.temp
      /\ moved.reg = taken.reg /\ moved.base = taken.base
      /\ moved.spilled = taken.spilled /\ moved.count = taken.count
      /\ moved.out = Exec(taken.out, "mov", r, o)
  BY <1>2, CodeFields
<1>4. moved.out = Set(taken.out, r, taken.out.preg[o])
  <2>1. Exec(taken.out, "mov", r, o) = Set(taken.out, r, taken.out.preg[o])
    BY ExecMovIs
  <2> QED BY <1>3, <2>1
<1>5. taken.out.preg \in [CG!Reg -> Value] BY <1>2 DEF IsMachine
<1> HIDE DEF moved
<1>6. /\ IsMachine(moved.out)
      /\ moved.out.preg = [taken.out.preg EXCEPT ![r] = taken.out.preg[o]]
      /\ moved.out.mem = taken.out.mem
      /\ moved.out.outarg = taken.out.outarg
  <2>1. taken.out.preg[o] \in Value BY <1>5
  <2> QED BY <1>2, <1>4, <2>1, SetRegister
<1>7. /\ DOMAIN x = Members
      /\ x.queue = moved.queue
      /\ x.temp = [moved.temp EXCEPT ![o] = NoTemp]
      /\ x.reg = moved.reg
      /\ x.base = moved.base
      /\ x.spilled = moved.spilled
      /\ x.count = moved.count
      /\ x.out = moved.out
  BY <1>3, DeallocFields
<1> HIDE DEF x
<1>8. /\ x.out.preg[r] = s.out.preg[o]
      /\ \A y \in CG!Reg \ {r} : x.out.preg[y] = taken.out.preg[y]
  BY <1>1, <1>5, <1>6, <1>7
<1>9. /\ x.temp \in [CG!Reg -> Temp \cup {NoTemp}]
      /\ \A y \in CG!Reg :
           x.temp[y] = IF y = r THEN t
                       ELSE IF s.temp[y] = t THEN NoTemp ELSE s.temp[y]
  <2>1. x.temp = [[s.temp EXCEPT ![r] = t] EXCEPT ![o] = NoTemp]
    BY <1>1, <1>3, <1>7
  <2> QED BY <1>0, <2>1
<1>10. Brought(s, taken, x, r, t)
  BY <1>3, <1>6, <1>7, <1>8, <1>9 DEF Brought
<1>11. e[t] # Undef => x.out.preg[r] = e[t]
  BY <1>0, <1>8 DEF Sound, Home
<1>12. /\ Sound(new, e)
       /\ Beside(s, new, r)
       /\ new.reg[t] = r
       /\ new.temp[r] = t
       /\ AllInSlots(s, e) /\ AllInSlots(s, e) => AllInSlots(new, e)
  <2>1. \A u \in Temp \ {t} : e[u] = e[u] OBVIOUS
  <2> QED BY <1>0, <1>10, <1>11, <2>1, Give DEF taken
<1> QED BY <1>12 DEF taken, moved, x

\* get_register_for a temp that will be read.
LEMMA ForOperand ==
  ASSUME NEW s, NEW e, Sound(s, e), NEW r \in CG!Reg, NEW t \in Temp
  PROVE  LET new == CG!GetRegisterFor(s, r, t, TRUE)
         IN  /\ Sound(new, e)
             /\ Beside(s, new, r)
             /\ new.reg[t] = r
             /\ new.temp[r] = t
             /\ AllInSlots(s, e) => AllInSlots(new, e)
<1> DEFINE new == CG!GetRegisterFor(s, r, t, TRUE)
           taken == CG!Take(s, r, t)
<1>0. /\ Agree(s)
      /\ s.reg[t] \in CG!Reg \cup {CG!NoReg}
      /\ r # CG!NoReg
  BY RegAssumption DEF Sound, Ordered, IsTables, CG!Reg, CG!NoReg
<1>1. CASE s.temp[r] = t
  <2>1. new = CG!AllocRegister(s, r, t) BY <1>1 DEF CG!GetRegisterFor
  <2>2. s.reg[t] = r BY <1>0, <1>1 DEF Agree
  <2> HIDE DEF new
  <2>3. /\ Sound(new, e)
        /\ Aside(s, new, r)
        /\ new.reg = s.reg
        /\ new.temp = s.temp
        /\ new.out = s.out
        /\ AllInSlots(s, e) => AllInSlots(new, e)
    BY <2>1, <2>2, Reuse
  <2> QED BY <1>1, <2>2, <2>3 DEF Aside, new
<1>2. CASE s.temp[r] # t
  <2>1. new = CG!SetReg(CG!Fetch(taken, r, t), t, r)
    BY <1>2 DEF CG!GetRegisterFor
  <2>2. /\ Ordered(taken)
        /\ IsQueue(taken.queue)
        /\ Home(taken, e)
        /\ Aside(s, taken, r)
        /\ taken.temp = [s.temp EXCEPT ![r] = t]
        /\ \A u \in Temp :
             taken.reg[u] = IF u = s.temp[r] THEN CG!NoReg ELSE s.reg[u]
        /\ taken.out.preg = s.out.preg
        /\ \A u \in Temp \ {s.temp[r]} : taken.spilled[u] = s.spilled[u]
        /\ \A u \in Temp \ {s.temp[r]} :
             s.spilled[u] =>
               At(taken.out.mem, taken.base[u]) = At(s.out.mem, s.base[u])
        /\ AllInSlots(s, e) => AllInSlots(taken, e)
    BY TakeHome
  <2> HIDE DEF taken, new
  <2>3. taken.reg[t] = s.reg[t] /\ taken.spilled[t] = s.spilled[t]
    BY <1>2, <2>2
  <2>4. CASE s.reg[t] = CG!NoReg /\ ~s.spilled[t]
    <3>1. CG!Fetch(taken, r, t) = taken BY <2>3, <2>4 DEF CG!Fetch
    <3>2. e[t] = Undef BY <2>4 DEF Sound, Home, InSlot
    <3>3. \A u \in Temp \ {t} : e[u] = e[u] OBVIOUS
    <3>4. new = CG!SetReg(CG!Take(s, r, t), t, r) BY <2>1, <3>1 DEF taken
    <3>5. /\ Sound(new, e)
          /\ Aside(s, new, r)
          /\ new.reg[t] = r
          /\ new.temp[r] = t
          /\ AllInSlots(s, e) => AllInSlots(new, e)
      BY <2>4, <3>2, <3>3, <3>4, GiveEmpty
    <3> QED BY <3>5 DEF Aside, new
  <2>5. CASE s.reg[t] = CG!NoReg /\ s.spilled[t]
    <3>1. CG!Fetch(taken, r, t) = CG!Code(taken, "load", r, taken.base[t])
      BY <2>3, <2>5 DEF CG!Fetch
    <3>2. s.base[t] # 0 BY <2>5 DEF Sound, Ordered, Slots
    <3>3. Keeps(s, taken) BY <2>2 DEF Aside, Beside
    <3>4. taken.base[t] = s.base[t] BY <3>2, <3>3 DEF Keeps, KeepsSlots
    <3>5. new = CG!SetReg(CG!Code(CG!Take(s, r, t), "load", r, s.base[t]), t, r)
      BY <2>1, <3>1, <3>4 DEF taken
    <3>6. /\ Sound(new, e)
          /\ Aside(s, new, r)
          /\ new.reg[t] = r
          /\ new.temp[r] = t
          /\ AllInSlots(s, e) => AllInSlots(new, e)
      BY <2>5, <3>5, GiveLoaded
    <3> QED BY <3>6 DEF Aside, new
  <2>6. CASE s.reg[t] # CG!NoReg
    <3> DEFINE o == s.reg[t]
    <3>1. CG!Fetch(taken, r, t) = CG!DeallocRegister(CG!Code(taken, "mov", r, o), o)
      BY <2>3, <2>6 DEF CG!Fetch
    <3>2. o \in CG!Reg /\ o # r BY <1>0, <1>2, <2>6 DEF Agree
    <3>3. new = CG!SetReg(CG!DeallocRegister(
                  CG!Code(CG!Take(s, r, t), "mov", r, o), o), t, r)
      BY <2>1, <3>1 DEF taken
    <3> HIDE DEF o
    <3>4. s.reg[t] = o BY DEF o
    <3>5. /\ Sound(new, e)
          /\ Beside(s, new, r)
          /\ new.reg[t] = r
          /\ new.temp[r] = t
          /\ AllInSlots(s, e) => AllInSlots(new, e)
      BY <3>2, <3>3, <3>4, GiveMoved
    <3> QED BY <3>5 DEF new
  <2> QED BY <2>4, <2>5, <2>6
<1> QED BY <1>1, <1>2
=============================================================================
