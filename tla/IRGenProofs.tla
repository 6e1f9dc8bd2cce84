----------------------------- MODULE IRGenProofs -----------------------------
(***************************************************************************)
(* Proofs about the IR generator: whatever AST it is given, jumps land on  *)
(* labels; and as far as the names of the AST are in order, temps and      *)
(* routines are used as the code generator and the evaluator expect.       *)
(***************************************************************************)
EXTENDS IRGen, FiniteSetTheorems, SequenceTheorems, WellFoundedInduction, TLAPS

-----------------------------------------------------------------------------
(* Sequences, whatever their elements are *)

IsSeq(s) == s \in Seq(Range(s))

LEMMA SeqFacts ==
  ASSUME NEW s, IsSeq(s)
  PROVE  /\ Len(s) \in Nat /\ DOMAIN s = 1 .. Len(s)
         /\ s # <<>> <=> Len(s) > 0
BY LenProperties, EmptySeq DEF IsSeq

LEMMA AppendFacts ==
  ASSUME NEW s, IsSeq(s), NEW e
  PROVE  /\ IsSeq(Append(s, e))
         /\ Len(Append(s, e)) = Len(s) + 1
         /\ DOMAIN Append(s, e) = 1 .. Len(s) + 1
         /\ \A n \in DOMAIN s : Append(s, e)[n] = s[n]
         /\ Append(s, e)[Len(s) + 1] = e
<1> DEFINE S == Range(s) \cup {e}
<1>1. s \in Seq(S) /\ e \in S
  BY SeqMonotonic DEF IsSeq
<1>2. IsSeq(Append(s, e))
  BY <1>1, AppendProperties, SeqOfRange DEF IsSeq
<1>3. /\ Len(Append(s, e)) = Len(s) + 1
      /\ \A n \in 1 .. Len(s) : Append(s, e)[n] = s[n]
      /\ Append(s, e)[Len(s) + 1] = e
  <2> HIDE DEF S
  <2> QED
    BY <1>1, AppendProperties
<1>4. Len(s) \in Nat /\ DOMAIN s = 1 .. Len(s) /\ DOMAIN Append(s, e) = 1 .. Len(s) + 1
  BY <1>2, <1>3, SeqFacts
<1> QED
  BY <1>2, <1>3, <1>4

\* One element changed
LEMMA ExceptFacts ==
  ASSUME NEW s, IsSeq(s), NEW n \in DOMAIN s, NEW e
  PROVE  /\ IsSeq([s EXCEPT ![n] = e])
         /\ Len([s EXCEPT ![n] = e]) = Len(s)
         /\ DOMAIN [s EXCEPT ![n] = e] = DOMAIN s
         /\ \A m \in DOMAIN s : [s EXCEPT ![n] = e][m] = IF m = n THEN e ELSE s[m]
<1> DEFINE S == Range(s) \cup {e}
<1>1. s \in Seq(S) /\ n \in 1 .. Len(s)
  BY SeqMonotonic, SeqFacts DEF IsSeq
<1>2. [s EXCEPT ![n] = e] \in Seq(S) /\ Len([s EXCEPT ![n] = e]) = Len(s)
  BY <1>1, ExceptSeq
<1>3. IsSeq([s EXCEPT ![n] = e])
  BY <1>2, SeqOfRange DEF IsSeq
<1> QED
  BY <1>2, <1>3

\* The first element replaced by those of t
LEMMA ReplaceFacts ==
  ASSUME NEW s, IsSeq(s), s # <<>>, NEW t, IsSeq(t)
  PROVE  /\ IsSeq(t \o Tail(s))
         /\ Len(t \o Tail(s)) = Len(t) + Len(s) - 1
         /\ \A n \in DOMAIN (t \o Tail(s)) :
              \/ n \in DOMAIN t /\ (t \o Tail(s))[n] = t[n]
              \/ /\ n \notin DOMAIN t
                 /\ n - Len(t) + 1 \in 2 .. Len(s)
                 /\ (t \o Tail(s))[n] = s[n - Len(t) + 1]
<1> DEFINE S == Range(s) \cup Range(t)
<1>1. s \in Seq(S) /\ t \in Seq(S)
  BY SeqMonotonic DEF IsSeq
<1>2. /\ Tail(s) \in Seq(S) /\ Len(Tail(s)) = Len(s) - 1
      /\ \A n \in 1 .. Len(Tail(s)) : Tail(s)[n] = s[n + 1]
  BY <1>1, HeadTailProperties, Zenon
<1>3. /\ t \o Tail(s) \in Seq(S)
      /\ Len(t \o Tail(s)) = Len(t) + Len(Tail(s))
      /\ \A n \in 1 .. Len(t) + Len(Tail(s)) :
           (t \o Tail(s))[n] = IF n <= Len(t) THEN t[n] ELSE Tail(s)[n - Len(t)]
  BY <1>1, <1>2, ConcatProperties, Zenon
<1>4. IsSeq(t \o Tail(s))
  BY <1>3, SeqOfRange DEF IsSeq
<1>5. DOMAIN (t \o Tail(s)) = 1 .. Len(t) + Len(s) - 1
  BY <1>2, <1>3, <1>4, SeqFacts
<1>6. ASSUME NEW n \in DOMAIN (t \o Tail(s)), n \notin DOMAIN t
      PROVE  /\ n - Len(t) + 1 \in 2 .. Len(s)
             /\ (t \o Tail(s))[n] = s[n - Len(t) + 1]
  <2>1. n \in 1 .. Len(t) + Len(s) - 1 /\ ~(n <= Len(t)) /\ Len(t) \in Nat /\ Len(s) \in Nat
    BY <1>5, <1>6, SeqFacts
  <2>2. n - Len(t) \in 1 .. Len(Tail(s))
    BY <2>1, <1>2
  <2>3. n \in 1 .. Len(t) + Len(Tail(s))
    BY <2>1, <1>2
  <2>4. (t \o Tail(s))[n] = Tail(s)[n - Len(t)]
    BY <2>1, <2>3, <1>3
  <2> QED
    BY <2>1, <2>2, <2>4, <1>2
<1>7. ASSUME NEW n \in DOMAIN (t \o Tail(s)), n \in DOMAIN t
      PROVE  (t \o Tail(s))[n] = t[n]
  <2>1. n \in 1 .. Len(t) + Len(Tail(s)) /\ n <= Len(t)
    BY <1>2, <1>5, <1>7, SeqFacts
  <2> QED
    BY <2>1, <1>3
<1> QED
  BY <1>2, <1>3, <1>4, <1>6, <1>7

\* Up to two elements
LEMMA ShortSeqs ==
  /\ IsSeq(<<>>) /\ Len(<<>>) = 0 /\ DOMAIN <<>> = {}
  /\ \A a : IsSeq(<<a>>) /\ Len(<<a>>) = 1 /\ DOMAIN <<a>> = {1} /\ <<a>>[1] = a
  /\ \A a, b : /\ IsSeq(<<a, b>>) /\ Len(<<a, b>>) = 2 /\ DOMAIN <<a, b>> = {1, 2}
               /\ <<a, b>>[1] = a /\ <<a, b>>[2] = b
<1>1. ASSUME NEW a
      PROVE  IsSeq(<<a>>) /\ Len(<<a>>) = 1 /\ DOMAIN <<a>> = {1} /\ <<a>>[1] = a
  <2>1. <<a>> \in Seq({a})
    OBVIOUS
  <2>2. IsSeq(<<a>>)
    BY <2>1, SeqOfRange DEF IsSeq
  <2> QED
    BY <2>2
<1>2. ASSUME NEW a, NEW b
      PROVE  /\ IsSeq(<<a, b>>) /\ Len(<<a, b>>) = 2 /\ DOMAIN <<a, b>> = {1, 2}
             /\ <<a, b>>[1] = a /\ <<a, b>>[2] = b
  <2>1. <<a, b>> \in Seq({a, b})
    OBVIOUS
  <2>2. IsSeq(<<a, b>>)
    BY <2>1, SeqOfRange DEF IsSeq
  <2> QED
    BY <2>2
<1>3. IsSeq(<<>>) /\ Len(<<>>) = 0 /\ DOMAIN <<>> = {}
  BY EmptySeq DEF IsSeq
<1> QED
  BY <1>1, <1>2, <1>3

\* The same by name, so that a proof may forget the tuple.
Zero(s)      == IsSeq(s) /\ Len(s) = 0 /\ DOMAIN s = {}
One(s, a)    == IsSeq(s) /\ Len(s) = 1 /\ DOMAIN s = {1} /\ s[1] = a
Two(s, a, b) == IsSeq(s) /\ Len(s) = 2 /\ DOMAIN s = {1, 2} /\ s[1] = a /\ s[2] = b

LEMMA Tuples ==
  Zero(<<>>) /\ (\A a : One(<<a>>, a)) /\ (\A a, b : Two(<<a, b>>, a, b))
BY ShortSeqs DEF Zero, One, Two

-----------------------------------------------------------------------------
(* Types.  Nothing is known of the parts of an AST. *)

IsQuad(q) == q = Quad(q.op, q.target, q.left, q.right)

IsRoutine(rt) ==
  /\ rt = [name |-> rt.name, temp_count |-> rt.temp_count, param_count |-> rt.param_count,
           quads |-> rt.quads, external |-> rt.external]
  /\ rt.temp_count \in Nat /\ rt.param_count \in Nat
  /\ IsSeq(rt.quads) /\ \A n \in DOMAIN rt.quads : IsQuad(rt.quads[n])

IsTask(t, R) ==
  /\ t = [routine |-> t.routine, do |-> t.do, of |-> t.of, target |-> t.target,
          left |-> t.left, at |-> t.at, top |-> t.top, k |-> t.k]
  /\ t.routine \in R
  /\ t.at \in Nat /\ t.top \in Nat /\ t.k \in Nat

AreTasks(tasks, R) == IsSeq(tasks) /\ \A i \in DOMAIN tasks : IsTask(tasks[i], R)

TypeInv ==
  /\ IsSeq(routines) /\ \A r \in DOMAIN routines : IsRoutine(routines[r])
  /\ AreTasks(todo, DOMAIN routines)
  /\ IsSeq(sym) /\ sym # <<>>

\* new is rt with made more temps, params of them parameters, and with jump
\* number at patched if there is one of that number.
Kept(rt, new, at, made, params) ==
  /\ IsRoutine(new)
  /\ new.temp_count = rt.temp_count + made
  /\ new.param_count = rt.param_count + params
  /\ \A n \in DOMAIN rt.quads :
       new.quads[n] = IF n = at THEN [rt.quads[n] EXCEPT !.target = Len(new.quads) - 1]
                      ELSE rt.quads[n]

\* And it has more quads.
Grown(rt, new, more, at, made, params) ==
  /\ Kept(rt, new, at, made, params)
  /\ Len(new.quads) = Len(rt.quads) + Len(more)
  /\ \A n \in DOMAIN more : new.quads[Len(rt.quads) + n] = more[n]

\* What a step does to the routine that is being generated, and to todo.  It
\* may begin another routine.
Wrote(more, at, made) ==
  /\ DOMAIN routines \subseteq DOMAIN routines'
  /\ \A r \in DOMAIN routines' : r \notin DOMAIN routines =>
       routines'[r].quads = <<>> /\ routines'[r].temp_count = 0 /\ routines'[r].param_count = 0
  /\ \A r \in DOMAIN routines : r # task.routine => routines'[r] = routines[r]
  /\ Grown(routine, routines'[task.routine], more, at, made,
           IF task.do = "params" THEN made ELSE 0)

Stacked(tasks) ==
  /\ Len(todo') = Len(tasks) + Len(todo) - 1
  /\ \A i \in DOMAIN todo' :
       \/ i \in DOMAIN tasks /\ todo'[i] = tasks[i]
       \/ /\ i \notin DOMAIN tasks
          /\ i - Len(tasks) + 1 \in 2 .. Len(todo)
          /\ todo'[i] = todo[i - Len(tasks) + 1]

Step(more, at, made, tasks) ==
  /\ TypeInv' /\ AreTasks(tasks, DOMAIN routines')
  /\ Wrote(more, at, made) /\ Stacked(tasks)

LEMMA RoutineFacts ==
  ASSUME NEW rt, IsRoutine(rt)
  PROVE  /\ rt.temp_count \in Nat /\ rt.param_count \in Nat
         /\ IsSeq(rt.quads) /\ Len(rt.quads) \in Nat
         /\ DOMAIN rt.quads = 1 .. Len(rt.quads)
BY SeqFacts DEF IsRoutine

\* No quad, one and two of them
LEMMA Grown0 ==
  ASSUME NEW rt, NEW new, NEW at, NEW made, NEW params
  PROVE  Grown(rt, new, <<>>, at, made, params)
           <=> Kept(rt, new, at, made, params) /\ Len(new.quads) = Len(rt.quads) + 0
<1> DEFINE more == <<>>
<1>1. Len(more) = 0 /\ DOMAIN more = {}
  BY ShortSeqs
<1> HIDE DEF more
<1>2. Grown(rt, new, more, at, made, params)
        <=> Kept(rt, new, at, made, params) /\ Len(new.quads) = Len(rt.quads) + 0
  BY <1>1 DEF Grown
<1> QED
  BY <1>2 DEF more

LEMMA Grown1 ==
  ASSUME NEW rt, NEW new, NEW at, NEW made, NEW params, NEW q
  PROVE  Grown(rt, new, <<q>>, at, made, params)
           <=> /\ Kept(rt, new, at, made, params)
               /\ Len(new.quads) = Len(rt.quads) + 1
               /\ new.quads[Len(rt.quads) + 1] = q
<1> DEFINE more == <<q>>
<1>1. Len(more) = 1 /\ DOMAIN more = {1} /\ more[1] = q
  BY ShortSeqs
<1> HIDE DEF more
<1>2. Grown(rt, new, more, at, made, params)
        <=> /\ Kept(rt, new, at, made, params)
            /\ Len(new.quads) = Len(rt.quads) + 1
            /\ new.quads[Len(rt.quads) + 1] = q
  BY <1>1 DEF Grown
<1> QED
  BY <1>2 DEF more

LEMMA Grown2 ==
  ASSUME NEW rt, NEW new, NEW at, NEW made, NEW params, NEW p, NEW q
  PROVE  Grown(rt, new, <<p, q>>, at, made, params)
           <=> /\ Kept(rt, new, at, made, params)
               /\ Len(new.quads) = Len(rt.quads) + 2
               /\ new.quads[Len(rt.quads) + 1] = p
               /\ new.quads[Len(rt.quads) + 2] = q
<1> DEFINE more == <<p, q>>
<1>1. Len(more) = 2 /\ DOMAIN more = {1, 2} /\ more[1] = p /\ more[2] = q
  BY ShortSeqs
<1> HIDE DEF more
<1>2. Grown(rt, new, more, at, made, params)
        <=> /\ Kept(rt, new, at, made, params)
            /\ Len(new.quads) = Len(rt.quads) + 2
            /\ new.quads[Len(rt.quads) + 1] = p
            /\ new.quads[Len(rt.quads) + 2] = q
  BY <1>1 DEF Grown
<1> QED
  BY <1>2 DEF more

LEMMA TaskFacts ==
  ASSUME TypeInv, todo # <<>>
  PROVE  /\ 1 \in DOMAIN todo /\ task = todo[1] /\ IsTask(task, DOMAIN routines)
         /\ DOMAIN todo = 1 .. Len(todo) /\ Len(todo) \in Nat \ {0}
         /\ task.routine \in DOMAIN routines /\ IsRoutine(routine)
         /\ routine.temp_count \in Nat /\ routine.param_count \in Nat
         /\ IsSeq(routine.quads) /\ Len(routine.quads) \in Nat
         /\ DOMAIN routine.quads = 1 .. Len(routine.quads)
<1>1. IsSeq(todo) /\ Len(todo) \in Nat /\ DOMAIN todo = 1 .. Len(todo) /\ Len(todo) > 0
  BY SeqFacts DEF TypeInv, AreTasks
<1>2. task = todo[1]
  BY <1>1 DEF task, IsSeq
<1>3. IsTask(task, DOMAIN routines) /\ task.routine \in DOMAIN routines
  BY <1>1, <1>2 DEF TypeInv, AreTasks, IsTask
<1>4. IsRoutine(routine)
  BY <1>3 DEF TypeInv, routine
<1>5. /\ routine.temp_count \in Nat /\ routine.param_count \in Nat
      /\ IsSeq(routine.quads) /\ Len(routine.quads) \in Nat
      /\ DOMAIN routine.quads = 1 .. Len(routine.quads)
  BY <1>4, SeqFacts DEF IsRoutine
<1> QED
  BY <1>1, <1>2, <1>3, <1>4, <1>5

LEMMA StacksOn ==
  ASSUME TypeInv, todo # <<>>, NEW tasks, NEW R, AreTasks(tasks, R), DOMAIN routines \subseteq R,
         Then(tasks)
  PROVE  AreTasks(todo', R) /\ Stacked(tasks)
<1>1. IsSeq(todo) /\ IsSeq(tasks)
  BY DEF TypeInv, AreTasks
<1>2. IsSeq(todo') /\ Stacked(tasks)
  BY <1>1, ReplaceFacts DEF Then, Stacked
<1>3. \A i \in DOMAIN todo' : IsTask(todo'[i], R)
  <2> TAKE i \in DOMAIN todo'
  <2>1. CASE i \in DOMAIN tasks
    BY <2>1, <1>2 DEF Stacked, AreTasks
  <2>2. CASE i \notin DOMAIN tasks
    <3>1. i - Len(tasks) + 1 \in DOMAIN todo /\ todo'[i] = todo[i - Len(tasks) + 1]
      BY <2>2, <1>2, TaskFacts DEF Stacked
    <3> QED
      BY <3>1 DEF TypeInv, AreTasks, IsTask
  <2> QED
    BY <2>1, <2>2
<1> QED
  BY <1>2, <1>3 DEF AreTasks

LEMMA StepShape ==
  ASSUME TypeInv, todo # <<>>,
         NEW rt, NEW more, NEW at, NEW made,
         Grown(routine, rt, more, at, made, IF task.do = "params" THEN made ELSE 0),
         NEW tasks, AreTasks(tasks, DOMAIN routines), Becomes(rt), Then(tasks),
         IsSeq(sym') /\ sym' # <<>>
  PROVE  Step(more, at, made, tasks)
<1> DEFINE r == task.routine
<1>1. r \in DOMAIN routines /\ IsSeq(routines) /\ IsRoutine(rt)
  BY TaskFacts DEF TypeInv, Grown, Kept
<1>2. /\ IsSeq(routines') /\ DOMAIN routines' = DOMAIN routines
      /\ \A q \in DOMAIN routines : routines'[q] = IF q = r THEN rt ELSE routines[q]
  BY <1>1, ExceptFacts, Zenon DEF Becomes
<1>3. \A q \in DOMAIN routines' : IsRoutine(routines'[q])
  BY <1>1, <1>2 DEF TypeInv
<1>4. Wrote(more, at, made)
  BY <1>1, <1>2 DEF Wrote
<1>5. AreTasks(todo', DOMAIN routines) /\ Stacked(tasks)
  BY StacksOn
<1> QED
  BY <1>2, <1>3, <1>4, <1>5 DEF TypeInv, Step

LEMMA SameGrows ==
  ASSUME TypeInv, todo # <<>>
  PROVE  Grown(routine, routine, <<>>, 0, 0, 0)
<1>1. \A n \in DOMAIN routine.quads : n # 0
  BY TaskFacts
<1>2. Kept(routine, routine, 0, 0, 0) /\ Len(routine.quads) = Len(routine.quads) + 0
  BY <1>1, TaskFacts DEF Kept
<1> QED
  BY <1>2, Grown0

\* A step that leaves the routines alone
LEMMA SameShape ==
  ASSUME TypeInv, todo # <<>>, NEW tasks, AreTasks(tasks, DOMAIN routines), Then(tasks),
         UNCHANGED routines, IsSeq(sym') /\ sym' # <<>>
  PROVE  Step(<<>>, 0, 0, tasks)
<1>1. Becomes(routine)
  BY TaskFacts DEF Becomes, routine, TypeInv, IsSeq
<1> QED
  BY <1>1, SameGrows, StepShape

-----------------------------------------------------------------------------
(* What the operators on routines do *)

LEMMA KeptTwice ==
  ASSUME NEW rt, IsRoutine(rt), NEW mid, NEW new, NEW at, NEW a \in Nat, NEW b \in Nat,
         Kept(rt, mid, 0, a, 0), Len(mid.quads) >= Len(rt.quads), Kept(mid, new, at, b, 0)
  PROVE  Kept(rt, new, at, a + b, 0)
<1>1. /\ DOMAIN rt.quads = 1 .. Len(rt.quads) /\ Len(rt.quads) \in Nat
      /\ DOMAIN mid.quads = 1 .. Len(mid.quads) /\ Len(mid.quads) \in Nat
  BY RoutineFacts DEF Kept
<1>2. \A n \in DOMAIN rt.quads : n \in DOMAIN mid.quads /\ n # 0
  BY <1>1
<1>3. \A n \in DOMAIN rt.quads : mid.quads[n] = rt.quads[n]
  BY <1>2 DEF Kept
<1>4. \A n \in DOMAIN rt.quads :
        new.quads[n] = IF n = at THEN [rt.quads[n] EXCEPT !.target = Len(new.quads) - 1]
                       ELSE rt.quads[n]
  BY <1>2, <1>3, Zenon DEF Kept
<1>5. /\ IsRoutine(new) /\ new.param_count = rt.param_count + 0
      /\ new.temp_count = rt.temp_count + (a + b)
  BY RoutineFacts DEF Kept
<1> QED
  BY <1>4, <1>5 DEF Kept

LEMMA AddGrows ==
  ASSUME NEW rt, IsRoutine(rt), NEW q, IsQuad(q)
  PROVE  Grown(rt, Add(rt, q), <<q>>, 0, 0, 0)
<1> DEFINE new == Add(rt, q)
<1>1. /\ new = [rt EXCEPT !.quads = new.quads]
      /\ new.quads = Append(rt.quads, q)
      /\ new.temp_count = rt.temp_count /\ new.param_count = rt.param_count
      /\ new.name = rt.name /\ new.external = rt.external
  BY DEF IsRoutine, Add
<1>2. /\ IsSeq(new.quads) /\ Len(new.quads) = Len(rt.quads) + 1
      /\ DOMAIN new.quads = 1 .. Len(rt.quads) + 1
      /\ \A n \in DOMAIN rt.quads : new.quads[n] = rt.quads[n]
      /\ new.quads[Len(rt.quads) + 1] = q
  BY <1>1, AppendFacts DEF IsRoutine
<1>3. \A n \in DOMAIN new.quads : IsQuad(new.quads[n])
  BY <1>2, RoutineFacts DEF IsRoutine
<1>4. IsRoutine(new)
  BY <1>1, <1>2, <1>3 DEF IsRoutine
<1>5. Kept(rt, new, 0, 0, 0)
  <2> HIDE DEF new
  <2>1. \A n \in DOMAIN rt.quads : n # 0
    BY RoutineFacts
  <2> QED
    BY <1>1, <1>2, <1>4, <2>1, RoutineFacts DEF Kept
<1> QED
  BY <1>2, <1>5, Grown1

LEMMA make_tempGrows ==
  ASSUME NEW rt, IsRoutine(rt)
  PROVE  Grown(rt, make_temp(rt), <<>>, 0, 1, 0) /\ make_temp(rt).quads = rt.quads
<1> DEFINE new == make_temp(rt)
<1>1. /\ new = [rt EXCEPT !.temp_count = rt.temp_count + 1]
      /\ new.quads = rt.quads
      /\ new.temp_count = rt.temp_count + 1 /\ new.param_count = rt.param_count
      /\ new.name = rt.name /\ new.external = rt.external
  BY DEF IsRoutine, make_temp
<1>2. IsRoutine(new)
  BY <1>1 DEF IsRoutine
<1>3. Kept(rt, new, 0, 1, 0) /\ Len(new.quads) = Len(rt.quads) + 0
  <2> HIDE DEF new
  <2>1. \A n \in DOMAIN rt.quads : n # 0
    BY RoutineFacts
  <2> QED
    BY <1>1, <1>2, <2>1, RoutineFacts DEF Kept
<1> QED
  BY <1>1, <1>3, Grown0

LEMMA TempAddGrows ==
  ASSUME NEW rt, IsRoutine(rt), NEW q, IsQuad(q)
  PROVE  Grown(rt, Add(make_temp(rt), q), <<q>>, 0, 1, 0)
<1> DEFINE mid == make_temp(rt)
           new == Add(mid, q)
<1>1. Kept(rt, mid, 0, 1, 0) /\ mid.quads = rt.quads
  BY make_tempGrows, Grown0, Zenon
<1>2. IsRoutine(mid)
  BY <1>1 DEF Kept
<1> HIDE DEF mid
<1>3. /\ Kept(mid, new, 0, 0, 0) /\ Len(new.quads) = Len(mid.quads) + 1
      /\ new.quads[Len(mid.quads) + 1] = q
  <2>1. Grown(mid, new, <<q>>, 0, 0, 0)
    BY <1>2, AddGrows
  <2> QED
    BY <2>1, Grown1
<1> HIDE DEF new
<1>4. Kept(rt, new, 0, 1, 0)
  <2>1. Len(mid.quads) >= Len(rt.quads)
    BY <1>1, RoutineFacts
  <2>2. Kept(rt, new, 0, 1 + 0, 0)
    BY <1>1, <1>3, <2>1, KeptTwice
  <2> QED
    BY <2>2
<1>5. Grown(rt, new, <<q>>, 0, 1, 0)
  BY <1>1, <1>3, <1>4, Grown1
<1> QED
  BY <1>5 DEF new, mid

LEMMA AddAddGrows ==
  ASSUME NEW rt, IsRoutine(rt), NEW p, IsQuad(p), NEW q, IsQuad(q)
  PROVE  /\ Grown(rt, Add(Add(rt, p), q), <<p, q>>, 0, 0, 0)
         /\ Len(Add(rt, p).quads) = Len(rt.quads) + 1
<1> DEFINE mid == Add(rt, p)
           new == Add(mid, q)
<1>1. /\ Kept(rt, mid, 0, 0, 0) /\ Len(mid.quads) = Len(rt.quads) + 1
      /\ mid.quads[Len(rt.quads) + 1] = p
  <2>1. Grown(rt, mid, <<p>>, 0, 0, 0)
    BY AddGrows
  <2> QED
    BY <2>1, Grown1
<1>2. IsRoutine(mid)
  BY <1>1 DEF Kept
<1> HIDE DEF mid
<1>3. /\ Kept(mid, new, 0, 0, 0) /\ Len(new.quads) = Len(mid.quads) + 1
      /\ new.quads[Len(mid.quads) + 1] = q
  <2>1. Grown(mid, new, <<q>>, 0, 0, 0)
    BY <1>2, AddGrows
  <2> QED
    BY <2>1, Grown1
<1> HIDE DEF new
<1>4. DOMAIN mid.quads = 1 .. Len(rt.quads) + 1 /\ Len(rt.quads) \in Nat
  BY <1>1, <1>2, RoutineFacts
<1>5. Kept(rt, new, 0, 0, 0)
  <2>1. Len(mid.quads) >= Len(rt.quads)
    BY <1>1, <1>4
  <2> QED
    BY <1>1, <1>3, <2>1, KeptTwice
<1>6. new.quads[Len(rt.quads) + 1] = p
  <2>1. Len(rt.quads) + 1 \in DOMAIN mid.quads /\ Len(rt.quads) + 1 # 0
    BY <1>4
  <2> QED
    BY <1>1, <1>3, <2>1 DEF Kept
<1>7. Len(new.quads) = Len(rt.quads) + 2 /\ new.quads[Len(rt.quads) + 2] = q
  BY <1>1, <1>3, <1>4
<1>8. Grown(rt, new, <<p, q>>, 0, 0, 0)
  BY <1>5, <1>6, <1>7, Grown2
<1> QED
  BY <1>1, <1>8 DEF new, mid

LabelQuad(n) == Quad("LABEL", n, 0, 0)

LEMMA PatchFacts ==
  ASSUME NEW rt, IsRoutine(rt), NEW at \in DOMAIN rt.quads, NEW label
  PROVE  /\ IsRoutine(Patch(rt, at, label))
         /\ Patch(rt, at, label).temp_count = rt.temp_count
         /\ Patch(rt, at, label).param_count = rt.param_count
         /\ Len(Patch(rt, at, label).quads) = Len(rt.quads)
         /\ \A n \in DOMAIN rt.quads :
              Patch(rt, at, label).quads[n] =
                IF n = at THEN [rt.quads[n] EXCEPT !.target = label] ELSE rt.quads[n]
<1> DEFINE new == Patch(rt, at, label)
           q   == [rt.quads[at] EXCEPT !.target = label]
<1>1. /\ new.quads = [rt.quads EXCEPT ![at] = q]
      /\ new.temp_count = rt.temp_count /\ new.param_count = rt.param_count
      /\ new = [name |-> new.name, temp_count |-> new.temp_count,
                param_count |-> new.param_count, quads |-> new.quads,
                external |-> new.external]
  BY DEF IsRoutine, Patch
<1>2. /\ IsSeq(new.quads) /\ Len(new.quads) = Len(rt.quads)
      /\ DOMAIN new.quads = DOMAIN rt.quads
      /\ \A n \in DOMAIN rt.quads : new.quads[n] = IF n = at THEN q ELSE rt.quads[n]
  <2>1. IsSeq(rt.quads)
    BY DEF IsRoutine
  <2> HIDE DEF q
  <2> QED
    BY <1>1, <2>1, ExceptFacts
<1>3. IsQuad(q)
  BY DEF IsRoutine, IsQuad, Quad
<1>4. \A n \in DOMAIN new.quads : IsQuad(new.quads[n])
  BY <1>2, <1>3 DEF IsRoutine
<1> HIDE DEF new
<1>5. IsRoutine(new)
  BY <1>1, <1>2, <1>4 DEF IsRoutine
<1> QED
  BY <1>1, <1>2, <1>5 DEF new

LEMMA LandGrows ==
  ASSUME NEW rt, IsRoutine(rt), NEW at \in DOMAIN rt.quads
  PROVE  Grown(rt, Land(rt, at), <<LabelQuad(Len(rt.quads))>>, at, 0, 0)
<1> DEFINE q   == LabelQuad(Len(rt.quads))
           mid == make_label(rt)
           new == Patch(mid, at, Len(rt.quads))
<1>1. IsQuad(q) /\ mid = Add(rt, q)
  BY DEF IsQuad, LabelQuad, Quad, make_label
<1> HIDE DEF q
<1>2. /\ Kept(rt, mid, 0, 0, 0) /\ Len(mid.quads) = Len(rt.quads) + 1
      /\ mid.quads[Len(rt.quads) + 1] = q
  <2>1. Grown(rt, mid, <<q>>, 0, 0, 0)
    BY <1>1, AddGrows
  <2> QED
    BY <2>1, Grown1
<1>3. IsRoutine(mid)
  BY <1>2 DEF Kept
<1> HIDE DEF mid
<1>4. /\ Len(rt.quads) \in Nat /\ DOMAIN rt.quads = 1 .. Len(rt.quads)
      /\ DOMAIN mid.quads = 1 .. Len(rt.quads) + 1
      /\ at \in DOMAIN mid.quads /\ at # Len(rt.quads) + 1
  BY <1>2, <1>3, RoutineFacts
<1>5. /\ IsRoutine(new) /\ new.temp_count = mid.temp_count
      /\ new.param_count = mid.param_count /\ Len(new.quads) = Len(mid.quads)
      /\ \A n \in DOMAIN mid.quads :
           new.quads[n] = IF n = at THEN [mid.quads[n] EXCEPT !.target = Len(rt.quads)]
                          ELSE mid.quads[n]
  <2> DEFINE label == Len(rt.quads)
  <2>1. at \in DOMAIN mid.quads
    BY <1>4
  <2> HIDE DEF label
  <2>2. \A l : /\ IsRoutine(Patch(mid, at, l))
               /\ Patch(mid, at, l).temp_count = mid.temp_count
               /\ Patch(mid, at, l).param_count = mid.param_count
               /\ Len(Patch(mid, at, l).quads) = Len(mid.quads)
               /\ \A n \in DOMAIN mid.quads :
                    Patch(mid, at, l).quads[n] =
                      IF n = at THEN [mid.quads[n] EXCEPT !.target = l] ELSE mid.quads[n]
    BY <1>3, <2>1, PatchFacts
  <2> QED
    BY <2>2
<1> HIDE DEF new
<1>6. new.quads[Len(rt.quads) + 1] = q
  <2>1. Len(rt.quads) + 1 \in DOMAIN mid.quads
    BY <1>4
  <2> QED
    BY <1>2, <1>4, <1>5, <2>1
<1>7. Len(new.quads) - 1 = Len(rt.quads)
  BY <1>2, <1>4, <1>5
<1>8. Kept(rt, new, at, 0, 0)
  <2>1. \A n \in DOMAIN rt.quads : n \in DOMAIN mid.quads /\ n # 0
    BY <1>4
  <2>2. \A n \in DOMAIN rt.quads : mid.quads[n] = rt.quads[n]
    BY <1>2, <2>1 DEF Kept
  <2> QED
    BY <1>2, <1>5, <1>7, <2>1, <2>2, RoutineFacts DEF Kept
<1>9. Grown(rt, new, <<q>>, at, 0, 0)
  BY <1>2, <1>5, <1>6, <1>8, Grown1
<1> QED
  BY <1>9 DEF Land, new, mid, q

LEMMA AddLandGrows ==
  ASSUME NEW rt, IsRoutine(rt), NEW at \in DOMAIN rt.quads, NEW q, IsQuad(q)
  PROVE  Grown(rt, Land(Add(rt, q), at), <<q, LabelQuad(Len(rt.quads) + 1)>>, at, 0, 0)
<1> DEFINE mid == Add(rt, q)
           new == Land(mid, at)
<1>1. /\ Kept(rt, mid, 0, 0, 0) /\ Len(mid.quads) = Len(rt.quads) + 1
      /\ mid.quads[Len(rt.quads) + 1] = q
  <2>1. Grown(rt, mid, <<q>>, 0, 0, 0)
    BY AddGrows
  <2> QED
    BY <2>1, Grown1
<1>2. IsRoutine(mid)
  BY <1>1 DEF Kept
<1> HIDE DEF mid
<1>3. /\ Len(rt.quads) \in Nat /\ DOMAIN rt.quads = 1 .. Len(rt.quads)
      /\ DOMAIN mid.quads = 1 .. Len(rt.quads) + 1
      /\ at \in DOMAIN mid.quads /\ at # Len(rt.quads) + 1
  BY <1>1, <1>2, RoutineFacts
<1>4. /\ Kept(mid, new, at, 0, 0) /\ Len(new.quads) = Len(mid.quads) + 1
      /\ new.quads[Len(mid.quads) + 1] = LabelQuad(Len(mid.quads))
  <2>1. Grown(mid, new, <<LabelQuad(Len(mid.quads))>>, at, 0, 0)
    BY <1>2, <1>3, LandGrows
  <2> QED
    BY <2>1, Grown1
<1> HIDE DEF new
<1>5. new.quads[Len(rt.quads) + 1] = q
  <2>1. Len(rt.quads) + 1 \in DOMAIN mid.quads /\ Len(rt.quads) + 1 # at
    BY <1>3
  <2> QED
    BY <1>1, <1>4, <2>1 DEF Kept
<1>6. /\ Len(new.quads) = Len(rt.quads) + 2
      /\ new.quads[Len(rt.quads) + 2] = LabelQuad(Len(rt.quads) + 1)
  BY <1>1, <1>3, <1>4
<1>7. Kept(rt, new, at, 0, 0)
  <2>1. Len(mid.quads) >= Len(rt.quads)
    BY <1>1, <1>3
  <2> QED
    BY <1>1, <1>4, <2>1, KeptTwice
<1>8. Grown(rt, new, <<q, LabelQuad(Len(rt.quads) + 1)>>, at, 0, 0)
  BY <1>5, <1>6, <1>7, Grown2
<1> QED
  BY <1>8 DEF new, mid

-----------------------------------------------------------------------------
(* What the actions do *)

LEMMA ShortTasks ==
  ASSUME NEW R
  PROVE  /\ AreTasks(<<>>, R)
         /\ \A a : IsTask(a, R) => AreTasks(<<a>>, R)
         /\ \A a, b : IsTask(a, R) /\ IsTask(b, R) => AreTasks(<<a, b>>, R)
<1>1. ASSUME NEW tasks, Zero(tasks) PROVE AreTasks(tasks, R)
  BY <1>1 DEF Zero, AreTasks
<1>2. ASSUME NEW tasks, NEW a, One(tasks, a), IsTask(a, R) PROVE AreTasks(tasks, R)
  BY <1>2 DEF One, AreTasks
<1>3. ASSUME NEW tasks, NEW a, NEW b, Two(tasks, a, b), IsTask(a, R), IsTask(b, R)
      PROVE  AreTasks(tasks, R)
  BY <1>3 DEF Two, AreTasks
<1> QED
  BY <1>1, <1>2, <1>3, Tuples

\* A task that goes on
Turned(do, target, left, at, k) ==
  [routine |-> task.routine, do |-> do, of |-> task.of, target |-> target,
   left |-> left, at |-> at, top |-> task.top, k |-> k]

LEMMA TurnedIs ==
  ASSUME TypeInv, todo # <<>>
  PROVE  /\ \A do : [task EXCEPT !.do = do]
                      = Turned(do, task.target, task.left, task.at, task.k)
         /\ [task EXCEPT !.k = @ + 1]
              = Turned(task.do, task.target, task.left, task.at, task.k + 1)
         /\ [task EXCEPT !.do = "exp", !.k = @ + 1]
              = Turned("exp", task.target, task.left, task.at, task.k + 1)
         /\ \A left : [task EXCEPT !.do = "right", !.left = left]
                        = Turned("right", task.target, left, task.at, task.k)
         /\ \A do, at : [task EXCEPT !.do = do, !.at = at]
                          = Turned(do, task.target, task.left, at, task.k)
         /\ \A target, at : [task EXCEPT !.do = "logical", !.target = target, !.at = at]
                              = Turned("logical", target, task.left, at, task.k)
<1>1. task = Turned(task.do, task.target, task.left, task.at, task.k)
  BY TaskFacts DEF IsTask, Turned
<1>2. \A do : [task EXCEPT !.do = do] = Turned(do, task.target, task.left, task.at, task.k)
  BY <1>1 DEF Turned
<1>3. [task EXCEPT !.k = @ + 1] = Turned(task.do, task.target, task.left, task.at, task.k + 1)
  BY <1>1 DEF Turned
<1>4. \A do, target, left, at, k, x :
        /\ [Turned(do, target, left, at, k) EXCEPT !.target = x] = Turned(do, x, left, at, k)
        /\ [Turned(do, target, left, at, k) EXCEPT !.left = x] = Turned(do, target, x, at, k)
        /\ [Turned(do, target, left, at, k) EXCEPT !.at = x] = Turned(do, target, left, x, k)
        /\ [Turned(do, target, left, at, k) EXCEPT !.k = x] = Turned(do, target, left, at, x)
  BY DEF Turned
<1>5. [task EXCEPT !.do = "exp", !.k = @ + 1]
        = Turned("exp", task.target, task.left, task.at, task.k + 1)
  <2> DEFINE u == Turned("exp", task.target, task.left, task.at, task.k)
  <2>1. [u EXCEPT !.k = task.k + 1] = Turned("exp", task.target, task.left, task.at, task.k + 1)
    BY <1>4
  <2>2. [task EXCEPT !.do = "exp"] = u /\ u.k = task.k
    BY <1>2 DEF Turned
  <2> HIDE DEF u
  <2> QED
    BY <2>1, <2>2
<1>6. ASSUME NEW left
      PROVE  [task EXCEPT !.do = "right", !.left = left]
               = Turned("right", task.target, left, task.at, task.k)
  <2> DEFINE u == Turned("right", task.target, task.left, task.at, task.k)
  <2>1. [u EXCEPT !.left = left] = Turned("right", task.target, left, task.at, task.k)
    BY <1>4
  <2>2. [task EXCEPT !.do = "right"] = u
    BY <1>2
  <2> HIDE DEF u
  <2> QED
    BY <2>1, <2>2
<1>7. ASSUME NEW do, NEW at
      PROVE  [task EXCEPT !.do = do, !.at = at]
               = Turned(do, task.target, task.left, at, task.k)
  <2> DEFINE u == Turned(do, task.target, task.left, task.at, task.k)
  <2>1. [u EXCEPT !.at = at] = Turned(do, task.target, task.left, at, task.k)
    BY <1>4
  <2>2. [task EXCEPT !.do = do] = u
    BY <1>2
  <2> HIDE DEF u
  <2> QED
    BY <2>1, <2>2
<1>8. ASSUME NEW target, NEW at
      PROVE  [task EXCEPT !.do = "logical", !.target = target, !.at = at]
               = Turned("logical", target, task.left, at, task.k)
  <2> DEFINE u == Turned("logical", task.target, task.left, task.at, task.k)
             v == Turned("logical", target, task.left, task.at, task.k)
  <2>1. [u EXCEPT !.target = target] = v
    BY <1>4
  <2>2. [v EXCEPT !.at = at] = Turned("logical", target, task.left, at, task.k)
    BY <1>4
  <2>3. [task EXCEPT !.do = "logical"] = u
    BY <1>2
  <2> HIDE DEF u, v
  <2> QED
    BY <2>1, <2>2, <2>3
<1> QED
  BY <1>2, <1>3, <1>5, <1>6, <1>7, <1>8

LEMMA TaskNats ==
  ASSUME TypeInv, todo # <<>>
  PROVE  /\ task.at \in Nat /\ task.k \in Nat /\ task.k + 1 \in Nat /\ task.top \in Nat
         /\ Len(routine.quads) \in Nat
         /\ Len(routine.quads) + 1 \in Nat /\ Len(routine.quads) + 2 \in Nat
BY TaskFacts DEF IsTask

\* A call that is awaited, and a task that goes on
LEMMA TasksAre ==
  ASSUME TypeInv, todo # <<>>
  PROVE  /\ \A do, of : IsTask(For(do, of), DOMAIN routines)
         /\ \A do, of, target : IsTask([For(do, of) EXCEPT !.target = target], DOMAIN routines)
         /\ \A do, of : \A top \in Nat : IsTask([For(do, of) EXCEPT !.top = top], DOMAIN routines)
         /\ \A do, target, left : \A at, k \in Nat :
              IsTask(Turned(do, target, left, at, k), DOMAIN routines)
<1>1. IsTask(task, DOMAIN routines) /\ task.routine \in DOMAIN routines
  BY TaskFacts
<1>2. \A do, of : IsTask(For(do, of), DOMAIN routines)
  BY <1>1 DEF IsTask, For, Task
<1>3. \A do, of, target : IsTask([For(do, of) EXCEPT !.target = target], DOMAIN routines)
  BY <1>1 DEF IsTask, For, Task
<1>4. \A do, of : \A top \in Nat : IsTask([For(do, of) EXCEPT !.top = top], DOMAIN routines)
  BY <1>1 DEF IsTask, For, Task
<1>5. \A do, target, left : \A at, k \in Nat :
        IsTask(Turned(do, target, left, at, k), DOMAIN routines)
  BY <1>1 DEF IsTask, Turned
<1> QED
  BY <1>2, <1>3, <1>4, <1>5

\* The calls that are left, and no quads
LEMMA Goes0 ==
  ASSUME TypeInv, todo # <<>>, NEW rt, NEW more, NEW at, NEW made,
         Grown(routine, rt, more, at, made, IF task.do = "params" THEN made ELSE 0),
         Becomes(rt), Then(<<>>), IsSeq(sym') /\ sym' # <<>>
  PROVE  \E tasks : Zero(tasks) /\ Step(more, at, made, tasks)
<1>1. AreTasks(<<>>, DOMAIN routines)
  BY ShortTasks
<1>2. Step(more, at, made, <<>>)
  BY <1>1, StepShape
<1> QED
  BY <1>2, Tuples

LEMMA Awaits0 ==
  ASSUME TypeInv, todo # <<>>,
         Then(<<>>), UNCHANGED routines, IsSeq(sym') /\ sym' # <<>>
  PROVE  \E more, tasks : Zero(more) /\ Zero(tasks) /\ Step(more, 0, 0, tasks)
<1>1. AreTasks(<<>>, DOMAIN routines)
  BY ShortTasks
<1>2. Step(<<>>, 0, 0, <<>>)
  BY <1>1, SameShape
<1> QED
  BY <1>2, Tuples

LEMMA Goes1 ==
  ASSUME TypeInv, todo # <<>>, NEW rt, NEW more, NEW at, NEW made,
         Grown(routine, rt, more, at, made, IF task.do = "params" THEN made ELSE 0),
         NEW a, IsTask(a, DOMAIN routines),
         Becomes(rt), Then(<<a>>), IsSeq(sym') /\ sym' # <<>>
  PROVE  \E tasks : One(tasks, a) /\ Step(more, at, made, tasks)
<1>1. AreTasks(<<a>>, DOMAIN routines)
  BY ShortTasks
<1>2. Step(more, at, made, <<a>>)
  BY <1>1, StepShape
<1> QED
  BY <1>2, Tuples

LEMMA Awaits1 ==
  ASSUME TypeInv, todo # <<>>, NEW a, IsTask(a, DOMAIN routines),
         Then(<<a>>), UNCHANGED routines, IsSeq(sym') /\ sym' # <<>>
  PROVE  \E more, tasks : Zero(more) /\ One(tasks, a) /\ Step(more, 0, 0, tasks)
<1>1. AreTasks(<<a>>, DOMAIN routines)
  BY ShortTasks
<1>2. Step(<<>>, 0, 0, <<a>>)
  BY <1>1, SameShape
<1> QED
  BY <1>2, Tuples

LEMMA Goes2 ==
  ASSUME TypeInv, todo # <<>>, NEW rt, NEW more, NEW at, NEW made,
         Grown(routine, rt, more, at, made, IF task.do = "params" THEN made ELSE 0), NEW a, NEW b,
         IsTask(a, DOMAIN routines), IsTask(b, DOMAIN routines),
         Becomes(rt), Then(<<a, b>>), IsSeq(sym') /\ sym' # <<>>
  PROVE  \E tasks : Two(tasks, a, b) /\ Step(more, at, made, tasks)
<1>1. AreTasks(<<a, b>>, DOMAIN routines)
  BY ShortTasks
<1>2. Step(more, at, made, <<a, b>>)
  BY <1>1, StepShape
<1> QED
  BY <1>2, Tuples

LEMMA Awaits2 ==
  ASSUME TypeInv, todo # <<>>, NEW a, NEW b,
         IsTask(a, DOMAIN routines), IsTask(b, DOMAIN routines),
         Then(<<a, b>>), UNCHANGED routines, IsSeq(sym') /\ sym' # <<>>
  PROVE  \E more, tasks : Zero(more) /\ Two(tasks, a, b) /\ Step(more, 0, 0, tasks)
<1>1. AreTasks(<<a, b>>, DOMAIN routines)
  BY ShortTasks
<1>2. Step(<<>>, 0, 0, <<a, b>>)
  BY <1>1, SameShape
<1> QED
  BY <1>2, Tuples

LEMMA GenConstShape ==
  ASSUME TypeInv, GenConst
  PROVE  LET q == Quad("MOV_IM", NextTemp(routine), this.value, 0)
         IN  \E more, tasks : One(more, q) /\ Zero(tasks) /\ Step(more, 0, 1, tasks)
<1> DEFINE q == Quad("MOV_IM", NextTemp(routine), this.value, 0)
<1>1. todo # <<>> /\ task.do = "exp"
  BY DEF GenConst, Begins, Doing
<1>2. Grown(routine, Add(make_temp(routine), q), <<q>>, 0, 1, IF task.do = "params" THEN 1 ELSE 0)
  <2>1. IsRoutine(routine) /\ IsQuad(q)
    BY <1>1, TaskFacts DEF IsQuad, Quad
  <2> HIDE DEF q
  <2> QED
    BY <1>1, <2>1, TempAddGrows
<1>3. Becomes(Add(make_temp(routine), q)) /\ Then(<<>>) /\ UNCHANGED sym
  BY <1>1 DEF GenConst, ReturnsTemp, Returns
<1>4. IsSeq(sym') /\ sym' # <<>>
  BY <1>3 DEF TypeInv
<1> HIDE DEF q
<1>5. \E tasks : Zero(tasks) /\ Step(<<q>>, 0, 1, tasks)
  BY <1>1, <1>2, <1>3, <1>4, Goes0
<1>6. \E more, tasks : One(more, q) /\ Zero(tasks) /\ Step(more, 0, 1, tasks)
  BY <1>5, Tuples
<1> QED
  BY <1>6 DEF q

LEMMA GenVarShape ==
  ASSUME TypeInv, GenVar
  PROVE  \E more, tasks : Zero(more) /\ Zero(tasks) /\ Step(more, 0, 0, tasks)
<1>1. todo # <<>> /\ task.do = "exp"
  BY DEF GenVar, Begins, Doing
<1>2. Grown(routine, routine, <<>>, 0, 0, IF task.do = "params" THEN 0 ELSE 0)
  BY <1>1, SameGrows
<1>3. Becomes(routine) /\ Then(<<>>) /\ UNCHANGED sym
  BY <1>1 DEF GenVar, Returns
<1>4. IsSeq(sym') /\ sym' # <<>>
  BY <1>3 DEF TypeInv
<1>5. \E tasks : Zero(tasks) /\ Step(<<>>, 0, 0, tasks)
  BY <1>1, <1>2, <1>3, <1>4, Goes0
<1>6. \E more, tasks : Zero(more) /\ Zero(tasks) /\ Step(more, 0, 0, tasks)
  BY <1>5, Tuples
<1> QED
  BY <1>6

LEMMA GenArgShape ==
  ASSUME TypeInv, GenArg
  PROVE  LET a == For("exp", this.args[task.k + 1])
             b == Turned("arg", task.target, task.left, task.at, task.k)
         IN  \E more, tasks : Zero(more) /\ Two(tasks, a, b) /\ Step(more, 0, 0, tasks)
<1> DEFINE a == For("exp", this.args[task.k + 1])
           b == Turned("arg", task.target, task.left, task.at, task.k)
<1>1. todo # <<>> /\ task.do = "exp"
  BY DEF GenArg, Begins, Doing
<1>2. IsTask(a, DOMAIN routines) /\ IsTask(b, DOMAIN routines)
  BY <1>1, TaskNats, TasksAre
<1>3. Then(<<a, b>>) /\ UNCHANGED <<routines, sym>>
  BY <1>1, TurnedIs DEF GenArg, Awaits
<1>4. IsSeq(sym') /\ sym' # <<>>
  BY <1>3 DEF TypeInv
<1> HIDE DEF a, b
<1>5. \E more, tasks : Zero(more) /\ Two(tasks, a, b) /\ Step(more, 0, 0, tasks)
  BY <1>1, <1>2, <1>3, <1>4, Awaits2
<1> QED
  BY <1>5 DEF a, b

LEMMA ArgEndsShape ==
  ASSUME TypeInv, ArgEnds
  PROVE  LET q == Quad("ARG", task.k, value, 0)
             a == Turned("exp", task.target, task.left, task.at, task.k + 1)
         IN  \E more, tasks : One(more, q) /\ One(tasks, a) /\ Step(more, 0, 0, tasks)
<1> DEFINE q == Quad("ARG", task.k, value, 0)
           a == Turned("exp", task.target, task.left, task.at, task.k + 1)
<1>1. todo # <<>> /\ task.do = "arg"
  BY DEF ArgEnds, Begins, Doing
<1>2. IsTask(a, DOMAIN routines)
  BY <1>1, TaskNats, TasksAre
<1>3. Grown(routine, Add(routine, q), <<q>>, 0, 0, IF task.do = "params" THEN 0 ELSE 0)
  <2>1. IsRoutine(routine) /\ IsQuad(q)
    BY <1>1, TaskFacts DEF IsQuad, Quad
  <2> HIDE DEF q
  <2> QED
    BY <1>1, <2>1, AddGrows
<1>4. Becomes(Add(routine, q)) /\ Then(<<a>>) /\ UNCHANGED sym
  BY <1>1, TurnedIs DEF ArgEnds, Emits
<1>5. IsSeq(sym') /\ sym' # <<>>
  BY <1>4 DEF TypeInv
<1> HIDE DEF q, a
<1>6. \E tasks : One(tasks, a) /\ Step(<<q>>, 0, 0, tasks)
  BY <1>1, <1>2, <1>3, <1>4, <1>5, Goes1
<1>7. \E more, tasks : One(more, q) /\ One(tasks, a) /\ Step(more, 0, 0, tasks)
  BY <1>6, Tuples
<1> QED
  BY <1>7 DEF q, a

LEMMA GenCallShape ==
  ASSUME TypeInv, GenCall
  PROVE  LET q == Quad("CALL", NextTemp(routine), Sym!Lookup(this.func).operand, 0)
         IN  \E more, tasks : One(more, q) /\ Zero(tasks) /\ Step(more, 0, 1, tasks)
<1> DEFINE q == Quad("CALL", NextTemp(routine), Sym!Lookup(this.func).operand, 0)
<1>1. todo # <<>> /\ task.do = "exp"
  BY DEF GenCall, Begins, Doing
<1>2. Grown(routine, Add(make_temp(routine), q), <<q>>, 0, 1, IF task.do = "params" THEN 1 ELSE 0)
  <2>1. IsRoutine(routine) /\ IsQuad(q)
    BY <1>1, TaskFacts DEF IsQuad, Quad
  <2> HIDE DEF q
  <2> QED
    BY <1>1, <2>1, TempAddGrows
<1>3. Becomes(Add(make_temp(routine), q)) /\ Then(<<>>) /\ UNCHANGED sym
  BY <1>1 DEF GenCall, ReturnsTemp, Returns
<1>4. IsSeq(sym') /\ sym' # <<>>
  BY <1>3 DEF TypeInv
<1> HIDE DEF q
<1>5. \E tasks : Zero(tasks) /\ Step(<<q>>, 0, 1, tasks)
  BY <1>1, <1>2, <1>3, <1>4, Goes0
<1>6. \E more, tasks : One(more, q) /\ Zero(tasks) /\ Step(more, 0, 1, tasks)
  BY <1>5, Tuples
<1> QED
  BY <1>6 DEF q

LEMMA GenUnaryShape ==
  ASSUME TypeInv, GenUnary
  PROVE  LET a == For("exp", this.operand)
             b == For("unary", this)
         IN  \E more, tasks : Zero(more) /\ Two(tasks, a, b) /\ Step(more, 0, 0, tasks)
<1> DEFINE a == For("exp", this.operand)
           b == For("unary", this)
<1>1. todo # <<>> /\ task.do = "exp"
  BY DEF GenUnary, Begins, Doing
<1>2. IsTask(a, DOMAIN routines) /\ IsTask(b, DOMAIN routines)
  BY <1>1, TaskNats, TasksAre
<1>3. Then(<<a, b>>) /\ UNCHANGED <<routines, sym>>
  BY <1>1 DEF GenUnary, Awaits
<1>4. IsSeq(sym') /\ sym' # <<>>
  BY <1>3 DEF TypeInv
<1> HIDE DEF a, b
<1>5. \E more, tasks : Zero(more) /\ Two(tasks, a, b) /\ Step(more, 0, 0, tasks)
  BY <1>1, <1>2, <1>3, <1>4, Awaits2
<1> QED
  BY <1>5 DEF a, b

LEMMA UnaryEndsShape ==
  ASSUME TypeInv, UnaryEnds
  PROVE  LET q == Quad(this.op, NextTemp(routine), value, 0)
         IN  \E more, tasks : One(more, q) /\ Zero(tasks) /\ Step(more, 0, 1, tasks)
<1> DEFINE q == Quad(this.op, NextTemp(routine), value, 0)
<1>1. todo # <<>> /\ task.do = "unary"
  BY DEF UnaryEnds, Begins, Doing
<1>2. Grown(routine, Add(make_temp(routine), q), <<q>>, 0, 1, IF task.do = "params" THEN 1 ELSE 0)
  <2>1. IsRoutine(routine) /\ IsQuad(q)
    BY <1>1, TaskFacts DEF IsQuad, Quad
  <2> HIDE DEF q
  <2> QED
    BY <1>1, <2>1, TempAddGrows
<1>3. Becomes(Add(make_temp(routine), q)) /\ Then(<<>>) /\ UNCHANGED sym
  BY <1>1 DEF UnaryEnds, ReturnsTemp, Returns
<1>4. IsSeq(sym') /\ sym' # <<>>
  BY <1>3 DEF TypeInv
<1> HIDE DEF q
<1>5. \E tasks : Zero(tasks) /\ Step(<<q>>, 0, 1, tasks)
  BY <1>1, <1>2, <1>3, <1>4, Goes0
<1>6. \E more, tasks : One(more, q) /\ Zero(tasks) /\ Step(more, 0, 1, tasks)
  BY <1>5, Tuples
<1> QED
  BY <1>6 DEF q

LEMMA GenBinaryShape ==
  ASSUME TypeInv, GenBinary
  PROVE  LET a == For("exp", this.left)
             b == [For("left", this) EXCEPT !.target = NextTemp(routine)]
         IN  \E more, tasks : Zero(more) /\ Two(tasks, a, b) /\ Step(more, 0, 1, tasks)
<1> DEFINE a == For("exp", this.left)
           b == [For("left", this) EXCEPT !.target = NextTemp(routine)]
<1>1. todo # <<>> /\ task.do = "exp"
  BY DEF GenBinary, Begins, Doing
<1>2. IsTask(a, DOMAIN routines) /\ IsTask(b, DOMAIN routines)
  BY <1>1, TaskNats, TasksAre
<1>3. Grown(routine, make_temp(routine), <<>>, 0, 1, IF task.do = "params" THEN 1 ELSE 0)
  BY <1>1, TaskFacts, make_tempGrows
<1>4. Becomes(make_temp(routine)) /\ Then(<<a, b>>) /\ UNCHANGED sym
  BY <1>1 DEF GenBinary, Emits
<1>5. IsSeq(sym') /\ sym' # <<>>
  BY <1>4 DEF TypeInv
<1> HIDE DEF a, b
<1>6. \E tasks : Two(tasks, a, b) /\ Step(<<>>, 0, 1, tasks)
  BY <1>1, <1>2, <1>3, <1>4, <1>5, Goes2
<1>7. \E more, tasks : Zero(more) /\ Two(tasks, a, b) /\ Step(more, 0, 1, tasks)
  BY <1>6, Tuples
<1> QED
  BY <1>7 DEF a, b

LEMMA LeftEndsShape ==
  ASSUME TypeInv, LeftEnds
  PROVE  LET a == For("exp", this.right)
             b == Turned("right", task.target, value, task.at, task.k)
         IN  \E more, tasks : Zero(more) /\ Two(tasks, a, b) /\ Step(more, 0, 0, tasks)
<1> DEFINE a == For("exp", this.right)
           b == Turned("right", task.target, value, task.at, task.k)
<1>1. todo # <<>> /\ task.do = "left"
  BY DEF LeftEnds, Begins, Doing
<1>2. IsTask(a, DOMAIN routines) /\ IsTask(b, DOMAIN routines)
  BY <1>1, TaskNats, TasksAre
<1>3. Then(<<a, b>>) /\ UNCHANGED <<routines, sym>>
  BY <1>1, TurnedIs DEF LeftEnds, Awaits
<1>4. IsSeq(sym') /\ sym' # <<>>
  BY <1>3 DEF TypeInv
<1> HIDE DEF a, b
<1>5. \E more, tasks : Zero(more) /\ Two(tasks, a, b) /\ Step(more, 0, 0, tasks)
  BY <1>1, <1>2, <1>3, <1>4, Awaits2
<1> QED
  BY <1>5 DEF a, b

LEMMA BinaryEndsShape ==
  ASSUME TypeInv, BinaryEnds
  PROVE  LET q == Quad(OpOf(this), task.target, task.left, value)
         IN  \E more, tasks : One(more, q) /\ Zero(tasks) /\ Step(more, 0, 0, tasks)
<1> DEFINE q == Quad(OpOf(this), task.target, task.left, value)
<1>1. todo # <<>> /\ task.do = "right"
  BY DEF BinaryEnds, Begins, Doing
<1>2. Grown(routine, Add(routine, q), <<q>>, 0, 0, IF task.do = "params" THEN 0 ELSE 0)
  <2>1. IsRoutine(routine) /\ IsQuad(q)
    BY <1>1, TaskFacts DEF IsQuad, Quad
  <2> HIDE DEF q
  <2> QED
    BY <1>1, <2>1, AddGrows
<1>3. Becomes(Add(routine, q)) /\ Then(<<>>) /\ UNCHANGED sym
  BY <1>1 DEF BinaryEnds, Returns
<1>4. IsSeq(sym') /\ sym' # <<>>
  BY <1>3 DEF TypeInv
<1> HIDE DEF q
<1>5. \E tasks : Zero(tasks) /\ Step(<<q>>, 0, 0, tasks)
  BY <1>1, <1>2, <1>3, <1>4, Goes0
<1>6. \E more, tasks : One(more, q) /\ Zero(tasks) /\ Step(more, 0, 0, tasks)
  BY <1>5, Tuples
<1> QED
  BY <1>6 DEF q

LEMMA GenLogicalShape ==
  ASSUME TypeInv, GenLogical
  PROVE  LET p == Quad("MOV", task.target, value, 0)
             q == Quad(IF this.op = "AND" THEN "JZ" ELSE "JNZ", 0, task.target, 0)
             a == For("exp", this.right)
             b == Turned("logical", task.target, task.left, Len(routine.quads) + 2, task.k)
         IN  \E more, tasks : Two(more, p, q) /\ Two(tasks, a, b) /\ Step(more, 0, 0, tasks)
<1> DEFINE p == Quad("MOV", task.target, value, 0)
           q == Quad(IF this.op = "AND" THEN "JZ" ELSE "JNZ", 0, task.target, 0)
           a == For("exp", this.right)
           b == Turned("logical", task.target, task.left, Len(routine.quads) + 2, task.k)
<1>1. todo # <<>> /\ task.do = "left"
  BY DEF GenLogical, SkipRight, Begins, Doing
<1>2. IsTask(a, DOMAIN routines) /\ IsTask(b, DOMAIN routines)
  BY <1>1, TaskNats, TasksAre
<1>3. Grown(routine, Add(Add(routine, p), q), <<p, q>>, 0, 0, IF task.do = "params" THEN 0 ELSE 0)
  <2>1. IsRoutine(routine) /\ IsQuad(p) /\ IsQuad(q)
    BY <1>1, TaskFacts DEF IsQuad, Quad
  <2> HIDE DEF p, q
  <2> QED
    BY <1>1, <2>1, AddAddGrows
<1>4. Len(Add(routine, p).quads) + 1 = Len(routine.quads) + 2
  <2>1. IsRoutine(routine) /\ IsQuad(p) /\ IsQuad(q) /\ Len(routine.quads) \in Nat
    BY <1>1, TaskFacts DEF IsQuad, Quad
  <2> HIDE DEF p, q
  <2>2. Len(Add(routine, p).quads) = Len(routine.quads) + 1
    BY <2>1, AddAddGrows
  <2> QED
    BY <2>1, <2>2
<1>5. Becomes(Add(Add(routine, p), q)) /\ Then(<<a, b>>) /\ UNCHANGED sym
  BY <1>1, <1>4, TurnedIs DEF GenLogical, SkipRight, Emits
<1>6. IsSeq(sym') /\ sym' # <<>>
  BY <1>5 DEF TypeInv
<1> HIDE DEF p, q, a, b
<1>7. \E tasks : Two(tasks, a, b) /\ Step(<<p, q>>, 0, 0, tasks)
  BY <1>1, <1>2, <1>3, <1>5, <1>6, Goes2
<1>8. \E more, tasks : Two(more, p, q) /\ Two(tasks, a, b) /\ Step(more, 0, 0, tasks)
  BY <1>7, Tuples
<1> QED
  BY <1>8 DEF p, q, a, b

LEMMA LogicalEndsShape ==
  ASSUME TypeInv, LogicalEnds, task.at \in DOMAIN routine.quads
  PROVE  LET p == Quad("MOV", task.target, value, 0)
             q == LabelQuad(Len(routine.quads) + 1)
         IN  \E more, tasks : Two(more, p, q) /\ Zero(tasks) /\ Step(more, task.at, 0, tasks)
<1> DEFINE p == Quad("MOV", task.target, value, 0)
           q == LabelQuad(Len(routine.quads) + 1)
<1>1. todo # <<>> /\ task.do = "logical"
  BY DEF LogicalEnds, Begins, Doing
<1>2. Grown(routine, Land(Add(routine, p), task.at), <<p, q>>, task.at, 0,
            IF task.do = "params" THEN 0 ELSE 0)
  <2>1. IsRoutine(routine) /\ IsQuad(p)
    BY <1>1, TaskFacts DEF IsQuad, Quad
  <2> HIDE DEF p
  <2> QED
    BY <1>1, <2>1, AddLandGrows DEF q
<1>3. Becomes(Land(Add(routine, p), task.at)) /\ Then(<<>>) /\ UNCHANGED sym
  BY <1>1 DEF LogicalEnds, Returns
<1>4. IsSeq(sym') /\ sym' # <<>>
  BY <1>3 DEF TypeInv
<1> HIDE DEF p, q
<1>5. \E tasks : Zero(tasks) /\ Step(<<p, q>>, task.at, 0, tasks)
  BY <1>1, <1>2, <1>3, <1>4, Goes0
<1>6. \E more, tasks : Two(more, p, q) /\ Zero(tasks) /\ Step(more, task.at, 0, tasks)
  BY <1>5, Tuples
<1> QED
  BY <1>6 DEF p, q

LEMMA GenEmptyShape ==
  ASSUME TypeInv, GenEmpty
  PROVE  \E more, tasks : Zero(more) /\ Zero(tasks) /\ Step(more, 0, 0, tasks)
<1>1. todo # <<>> /\ task.do = "node"
  BY DEF GenEmpty, Begins, Doing
<1>2. Then(<<>>) /\ UNCHANGED <<routines, sym>>
  BY <1>1 DEF GenEmpty, Awaits
<1>3. IsSeq(sym') /\ sym' # <<>>
  BY <1>2 DEF TypeInv
<1>4. \E more, tasks : Zero(more) /\ Zero(tasks) /\ Step(more, 0, 0, tasks)
  BY <1>1, <1>2, <1>3, Awaits0
<1> QED
  BY <1>4

LEMMA GenExpNodeShape ==
  ASSUME TypeInv, GenExpNode
  PROVE  LET a == For("exp", this.exp)
         IN  \E more, tasks : Zero(more) /\ One(tasks, a) /\ Step(more, 0, 0, tasks)
<1> DEFINE a == For("exp", this.exp)
<1>1. todo # <<>> /\ task.do = "node"
  BY DEF GenExpNode, Begins, Doing
<1>2. IsTask(a, DOMAIN routines)
  BY <1>1, TaskNats, TasksAre
<1>3. Then(<<a>>) /\ UNCHANGED <<routines, sym>>
  BY <1>1 DEF GenExpNode, Awaits
<1>4. IsSeq(sym') /\ sym' # <<>>
  BY <1>3 DEF TypeInv
<1> HIDE DEF a
<1>5. \E more, tasks : Zero(more) /\ One(tasks, a) /\ Step(more, 0, 0, tasks)
  BY <1>1, <1>2, <1>3, <1>4, Awaits1
<1> QED
  BY <1>5 DEF a

LEMMA GenAssignShape ==
  ASSUME TypeInv, GenAssign
  PROVE  LET a == For("exp", this.value)
             b == [For("assign", this) EXCEPT !.target = Sym!Lookup(this.var).operand]
         IN  \E more, tasks : Zero(more) /\ Two(tasks, a, b) /\ Step(more, 0, 0, tasks)
<1> DEFINE a == For("exp", this.value)
           b == [For("assign", this) EXCEPT !.target = Sym!Lookup(this.var).operand]
<1>1. todo # <<>> /\ task.do = "node"
  BY DEF GenAssign, Begins, Doing
<1>2. IsTask(a, DOMAIN routines) /\ IsTask(b, DOMAIN routines)
  BY <1>1, TaskNats, TasksAre
<1>3. Then(<<a, b>>) /\ UNCHANGED <<routines, sym>>
  BY <1>1 DEF GenAssign, Awaits
<1>4. IsSeq(sym') /\ sym' # <<>>
  BY <1>3 DEF TypeInv
<1> HIDE DEF a, b
<1>5. \E more, tasks : Zero(more) /\ Two(tasks, a, b) /\ Step(more, 0, 0, tasks)
  BY <1>1, <1>2, <1>3, <1>4, Awaits2
<1> QED
  BY <1>5 DEF a, b

LEMMA AssignEndsShape ==
  ASSUME TypeInv, AssignEnds
  PROVE  LET q == Quad("MOV", task.target, value, 0)
         IN  \E more, tasks : One(more, q) /\ Zero(tasks) /\ Step(more, 0, 0, tasks)
<1> DEFINE q == Quad("MOV", task.target, value, 0)
<1>1. todo # <<>> /\ task.do = "assign"
  BY DEF AssignEnds, Begins, Doing
<1>2. Grown(routine, Add(routine, q), <<q>>, 0, 0, IF task.do = "params" THEN 0 ELSE 0)
  <2>1. IsRoutine(routine) /\ IsQuad(q)
    BY <1>1, TaskFacts DEF IsQuad, Quad
  <2> HIDE DEF q
  <2> QED
    BY <1>1, <2>1, AddGrows
<1>3. Becomes(Add(routine, q)) /\ Then(<<>>) /\ UNCHANGED sym
  BY <1>1 DEF AssignEnds, Emits
<1>4. IsSeq(sym') /\ sym' # <<>>
  BY <1>3 DEF TypeInv
<1> HIDE DEF q
<1>5. \E tasks : Zero(tasks) /\ Step(<<q>>, 0, 0, tasks)
  BY <1>1, <1>2, <1>3, <1>4, Goes0
<1>6. \E more, tasks : One(more, q) /\ Zero(tasks) /\ Step(more, 0, 0, tasks)
  BY <1>5, Tuples
<1> QED
  BY <1>6 DEF q

LEMMA GenDeclInitShape ==
  ASSUME TypeInv, GenDecl, this.init # Nothing
  PROVE  LET a == For("exp", this.init)
             b == For("decl", this)
         IN  \E more, tasks : Zero(more) /\ Two(tasks, a, b) /\ Step(more, 0, 0, tasks)
<1> DEFINE a == For("exp", this.init)
           b == For("decl", this)
<1>1. todo # <<>> /\ task.do = "node"
  BY DEF GenDecl, Begins, Doing
<1>2. IsTask(a, DOMAIN routines) /\ IsTask(b, DOMAIN routines)
  BY <1>1, TaskNats, TasksAre
<1>3. Then(<<a, b>>) /\ UNCHANGED <<routines, sym>>
  BY <1>1 DEF GenDecl, Awaits
<1>4. IsSeq(sym') /\ sym' # <<>>
  BY <1>3 DEF TypeInv
<1> HIDE DEF a, b
<1>5. \E more, tasks : Zero(more) /\ Two(tasks, a, b) /\ Step(more, 0, 0, tasks)
  BY <1>1, <1>2, <1>3, <1>4, Awaits2
<1> QED
  BY <1>5 DEF a, b

LEMMA GenReturnValueShape ==
  ASSUME TypeInv, GenReturn, this.value # Nothing
  PROVE  LET a == For("exp", this.value)
             b == For("return", this)
         IN  \E more, tasks : Zero(more) /\ Two(tasks, a, b) /\ Step(more, 0, 0, tasks)
<1> DEFINE a == For("exp", this.value)
           b == For("return", this)
<1>1. todo # <<>> /\ task.do = "node"
  BY DEF GenReturn, Begins, Doing
<1>2. IsTask(a, DOMAIN routines) /\ IsTask(b, DOMAIN routines)
  BY <1>1, TaskNats, TasksAre
<1>3. Then(<<a, b>>) /\ UNCHANGED <<routines, sym>>
  BY <1>1 DEF GenReturn, Awaits
<1>4. IsSeq(sym') /\ sym' # <<>>
  BY <1>3 DEF TypeInv
<1> HIDE DEF a, b
<1>5. \E more, tasks : Zero(more) /\ Two(tasks, a, b) /\ Step(more, 0, 0, tasks)
  BY <1>1, <1>2, <1>3, <1>4, Awaits2
<1> QED
  BY <1>5 DEF a, b

LEMMA GenReturnShape ==
  ASSUME TypeInv, GenReturn, this.value = Nothing
  PROVE  LET q == Quad("RET", 0, 0, 0)
         IN  \E more, tasks : One(more, q) /\ Zero(tasks) /\ Step(more, 0, 0, tasks)
<1> DEFINE q == Quad("RET", 0, 0, 0)
<1>1. todo # <<>> /\ task.do = "node"
  BY DEF GenReturn, Begins, Doing
<1>2. Grown(routine, Add(routine, q), <<q>>, 0, 0, IF task.do = "params" THEN 0 ELSE 0)
  <2>1. IsRoutine(routine) /\ IsQuad(q)
    BY <1>1, TaskFacts DEF IsQuad, Quad
  <2> HIDE DEF q
  <2> QED
    BY <1>1, <2>1, AddGrows
<1>3. Becomes(Add(routine, q)) /\ Then(<<>>) /\ UNCHANGED sym
  BY <1>1 DEF GenReturn, Emits
<1>4. IsSeq(sym') /\ sym' # <<>>
  BY <1>3 DEF TypeInv
<1> HIDE DEF q
<1>5. \E tasks : Zero(tasks) /\ Step(<<q>>, 0, 0, tasks)
  BY <1>1, <1>2, <1>3, <1>4, Goes0
<1>6. \E more, tasks : One(more, q) /\ Zero(tasks) /\ Step(more, 0, 0, tasks)
  BY <1>5, Tuples
<1> QED
  BY <1>6 DEF q

LEMMA ReturnEndsShape ==
  ASSUME TypeInv, ReturnEnds
  PROVE  LET q == Quad("RET", 1, value, 0)
         IN  \E more, tasks : One(more, q) /\ Zero(tasks) /\ Step(more, 0, 0, tasks)
<1> DEFINE q == Quad("RET", 1, value, 0)
<1>1. todo # <<>> /\ task.do = "return"
  BY DEF ReturnEnds, Begins, Doing
<1>2. Grown(routine, Add(routine, q), <<q>>, 0, 0, IF task.do = "params" THEN 0 ELSE 0)
  <2>1. IsRoutine(routine) /\ IsQuad(q)
    BY <1>1, TaskFacts DEF IsQuad, Quad
  <2> HIDE DEF q
  <2> QED
    BY <1>1, <2>1, AddGrows
<1>3. Becomes(Add(routine, q)) /\ Then(<<>>) /\ UNCHANGED sym
  BY <1>1 DEF ReturnEnds, Emits
<1>4. IsSeq(sym') /\ sym' # <<>>
  BY <1>3 DEF TypeInv
<1> HIDE DEF q
<1>5. \E tasks : Zero(tasks) /\ Step(<<q>>, 0, 0, tasks)
  BY <1>1, <1>2, <1>3, <1>4, Goes0
<1>6. \E more, tasks : One(more, q) /\ Zero(tasks) /\ Step(more, 0, 0, tasks)
  BY <1>5, Tuples
<1> QED
  BY <1>6 DEF q

LEMMA GenIfShape ==
  ASSUME TypeInv, GenIf
  PROVE  LET a == For("exp", this.condition)
             b == For("if", this)
         IN  \E more, tasks : Zero(more) /\ Two(tasks, a, b) /\ Step(more, 0, 0, tasks)
<1> DEFINE a == For("exp", this.condition)
           b == For("if", this)
<1>1. todo # <<>> /\ task.do = "node"
  BY DEF GenIf, Begins, Doing
<1>2. IsTask(a, DOMAIN routines) /\ IsTask(b, DOMAIN routines)
  BY <1>1, TaskNats, TasksAre
<1>3. Then(<<a, b>>) /\ UNCHANGED <<routines, sym>>
  BY <1>1 DEF GenIf, Awaits
<1>4. IsSeq(sym') /\ sym' # <<>>
  BY <1>3 DEF TypeInv
<1> HIDE DEF a, b
<1>5. \E more, tasks : Zero(more) /\ Two(tasks, a, b) /\ Step(more, 0, 0, tasks)
  BY <1>1, <1>2, <1>3, <1>4, Awaits2
<1> QED
  BY <1>5 DEF a, b

LEMMA IfConditionShape ==
  ASSUME TypeInv, IfCondition
  PROVE  LET q == Quad("JZ", 0, value, 0)
             a == For("node", this.then)
             b == Turned("then", task.target, task.left, Len(routine.quads) + 1, task.k)
         IN  \E more, tasks : One(more, q) /\ Two(tasks, a, b) /\ Step(more, 0, 0, tasks)
<1> DEFINE q == Quad("JZ", 0, value, 0)
           a == For("node", this.then)
           b == Turned("then", task.target, task.left, Len(routine.quads) + 1, task.k)
<1>1. todo # <<>> /\ task.do = "if"
  BY DEF IfCondition, Begins, Doing
<1>2. IsTask(a, DOMAIN routines) /\ IsTask(b, DOMAIN routines)
  BY <1>1, TaskNats, TasksAre
<1>3. Grown(routine, Add(routine, q), <<q>>, 0, 0, IF task.do = "params" THEN 0 ELSE 0)
  <2>1. IsRoutine(routine) /\ IsQuad(q)
    BY <1>1, TaskFacts DEF IsQuad, Quad
  <2> HIDE DEF q
  <2> QED
    BY <1>1, <2>1, AddGrows
<1>4. Becomes(Add(routine, q)) /\ Then(<<a, b>>) /\ UNCHANGED sym
  BY <1>1, TurnedIs DEF IfCondition, Emits, JumpsOver
<1>5. IsSeq(sym') /\ sym' # <<>>
  BY <1>4 DEF TypeInv
<1> HIDE DEF q, a, b
<1>6. \E tasks : Two(tasks, a, b) /\ Step(<<q>>, 0, 0, tasks)
  BY <1>1, <1>2, <1>3, <1>4, <1>5, Goes2
<1>7. \E more, tasks : One(more, q) /\ Two(tasks, a, b) /\ Step(more, 0, 0, tasks)
  BY <1>6, Tuples
<1> QED
  BY <1>7 DEF q, a, b

LEMMA ThenEndsShape ==
  ASSUME TypeInv, ThenEnds, this.else = Nothing, task.at \in DOMAIN routine.quads
  PROVE  LET q == LabelQuad(Len(routine.quads))
         IN  \E more, tasks : One(more, q) /\ Zero(tasks) /\ Step(more, task.at, 0, tasks)
<1> DEFINE q == LabelQuad(Len(routine.quads))
<1>1. todo # <<>> /\ task.do = "then"
  BY DEF ThenEnds, Begins, Doing
<1>2. Grown(routine, Land(routine, task.at), <<q>>, task.at, 0, IF task.do = "params" THEN 0 ELSE 0)
  <2>1. IsRoutine(routine)
    BY <1>1, TaskFacts
  <2> QED
    BY <1>1, <2>1, LandGrows DEF q
<1>3. Becomes(Land(routine, task.at)) /\ Then(<<>>) /\ UNCHANGED sym
  BY <1>1 DEF ThenEnds, Emits
<1>4. IsSeq(sym') /\ sym' # <<>>
  BY <1>3 DEF TypeInv
<1> HIDE DEF q
<1>5. \E tasks : Zero(tasks) /\ Step(<<q>>, task.at, 0, tasks)
  BY <1>1, <1>2, <1>3, <1>4, Goes0
<1>6. \E more, tasks : One(more, q) /\ Zero(tasks) /\ Step(more, task.at, 0, tasks)
  BY <1>5, Tuples
<1> QED
  BY <1>6 DEF q

LEMMA ThenEndsElseShape ==
  ASSUME TypeInv, ThenEnds, this.else # Nothing, task.at \in DOMAIN routine.quads
  PROVE  LET p == Quad("JMP", 0, 0, 0)
             q == LabelQuad(Len(routine.quads) + 1)
             a == For("node", this.else)
             b == Turned("else", task.target, task.left, Len(routine.quads) + 1, task.k)
         IN  \E more, tasks : Two(more, p, q) /\ Two(tasks, a, b) /\ Step(more, task.at, 0, tasks)
<1> DEFINE p == Quad("JMP", 0, 0, 0)
           q == LabelQuad(Len(routine.quads) + 1)
           a == For("node", this.else)
           b == Turned("else", task.target, task.left, Len(routine.quads) + 1, task.k)
<1>1. todo # <<>> /\ task.do = "then"
  BY DEF ThenEnds, Begins, Doing
<1>2. IsTask(a, DOMAIN routines) /\ IsTask(b, DOMAIN routines)
  BY <1>1, TaskNats, TasksAre
<1>3. Grown(routine, Land(Add(routine, p), task.at), <<p, q>>, task.at, 0,
            IF task.do = "params" THEN 0 ELSE 0)
  <2>1. IsRoutine(routine) /\ IsQuad(p)
    BY <1>1, TaskFacts DEF IsQuad, Quad
  <2> HIDE DEF p
  <2> QED
    BY <1>1, <2>1, AddLandGrows DEF q
<1>4. Becomes(Land(Add(routine, p), task.at)) /\ Then(<<a, b>>) /\ UNCHANGED sym
  BY <1>1, TurnedIs DEF ThenEnds, Emits, JumpsOver
<1>5. IsSeq(sym') /\ sym' # <<>>
  BY <1>4 DEF TypeInv
<1> HIDE DEF p, q, a, b
<1>6. \E tasks : Two(tasks, a, b) /\ Step(<<p, q>>, task.at, 0, tasks)
  BY <1>1, <1>2, <1>3, <1>4, <1>5, Goes2
<1>7. \E more, tasks : Two(more, p, q) /\ Two(tasks, a, b) /\ Step(more, task.at, 0, tasks)
  BY <1>6, Tuples
<1> QED
  BY <1>7 DEF p, q, a, b

LEMMA ElseEndsShape ==
  ASSUME TypeInv, ElseEnds, task.at \in DOMAIN routine.quads
  PROVE  LET q == LabelQuad(Len(routine.quads))
         IN  \E more, tasks : One(more, q) /\ Zero(tasks) /\ Step(more, task.at, 0, tasks)
<1> DEFINE q == LabelQuad(Len(routine.quads))
<1>1. todo # <<>> /\ task.do = "else"
  BY DEF ElseEnds, Begins, Doing
<1>2. Grown(routine, Land(routine, task.at), <<q>>, task.at, 0, IF task.do = "params" THEN 0 ELSE 0)
  <2>1. IsRoutine(routine)
    BY <1>1, TaskFacts
  <2> QED
    BY <1>1, <2>1, LandGrows DEF q
<1>3. Becomes(Land(routine, task.at)) /\ Then(<<>>) /\ UNCHANGED sym
  BY <1>1 DEF ElseEnds, Emits
<1>4. IsSeq(sym') /\ sym' # <<>>
  BY <1>3 DEF TypeInv
<1> HIDE DEF q
<1>5. \E tasks : Zero(tasks) /\ Step(<<q>>, task.at, 0, tasks)
  BY <1>1, <1>2, <1>3, <1>4, Goes0
<1>6. \E more, tasks : One(more, q) /\ Zero(tasks) /\ Step(more, task.at, 0, tasks)
  BY <1>5, Tuples
<1> QED
  BY <1>6 DEF q

LEMMA GenWhileShape ==
  ASSUME TypeInv, GenWhile
  PROVE  LET q == LabelQuad(Len(routine.quads))
             a == For("exp", this.condition)
             b == [For("while", this) EXCEPT !.top = Len(routine.quads)]
         IN  \E more, tasks : One(more, q) /\ Two(tasks, a, b) /\ Step(more, 0, 0, tasks)
<1> DEFINE q == LabelQuad(Len(routine.quads))
           a == For("exp", this.condition)
           b == [For("while", this) EXCEPT !.top = Len(routine.quads)]
<1>1. todo # <<>> /\ task.do = "node"
  BY DEF GenWhile, Begins, Doing
<1>2. IsTask(a, DOMAIN routines) /\ IsTask(b, DOMAIN routines)
  BY <1>1, TaskNats, TasksAre
<1>3. Grown(routine, Add(routine, q), <<q>>, 0, 0, IF task.do = "params" THEN 0 ELSE 0)
  <2>1. IsRoutine(routine) /\ IsQuad(q)
    BY <1>1, TaskFacts DEF IsQuad, Quad, LabelQuad
  <2> HIDE DEF q
  <2> QED
    BY <1>1, <2>1, AddGrows
<1>4. Becomes(Add(routine, q)) /\ Then(<<a, b>>) /\ UNCHANGED sym
  BY <1>1 DEF GenWhile, Emits, make_label, LabelQuad
<1>5. IsSeq(sym') /\ sym' # <<>>
  BY <1>4 DEF TypeInv
<1> HIDE DEF q, a, b
<1>6. \E tasks : Two(tasks, a, b) /\ Step(<<q>>, 0, 0, tasks)
  BY <1>1, <1>2, <1>3, <1>4, <1>5, Goes2
<1>7. \E more, tasks : One(more, q) /\ Two(tasks, a, b) /\ Step(more, 0, 0, tasks)
  BY <1>6, Tuples
<1> QED
  BY <1>7 DEF q, a, b

LEMMA WhileConditionShape ==
  ASSUME TypeInv, WhileCondition
  PROVE  LET q == Quad("JZ", 0, value, 0)
             a == For("node", this.body)
             b == Turned("loop", task.target, task.left, Len(routine.quads) + 1, task.k)
         IN  \E more, tasks : One(more, q) /\ Two(tasks, a, b) /\ Step(more, 0, 0, tasks)
<1> DEFINE q == Quad("JZ", 0, value, 0)
           a == For("node", this.body)
           b == Turned("loop", task.target, task.left, Len(routine.quads) + 1, task.k)
<1>1. todo # <<>> /\ task.do = "while"
  BY DEF WhileCondition, Begins, Doing
<1>2. IsTask(a, DOMAIN routines) /\ IsTask(b, DOMAIN routines)
  BY <1>1, TaskNats, TasksAre
<1>3. Grown(routine, Add(routine, q), <<q>>, 0, 0, IF task.do = "params" THEN 0 ELSE 0)
  <2>1. IsRoutine(routine) /\ IsQuad(q)
    BY <1>1, TaskFacts DEF IsQuad, Quad
  <2> HIDE DEF q
  <2> QED
    BY <1>1, <2>1, AddGrows
<1>4. Becomes(Add(routine, q)) /\ Then(<<a, b>>) /\ UNCHANGED sym
  BY <1>1, TurnedIs DEF WhileCondition, Emits, JumpsOver
<1>5. IsSeq(sym') /\ sym' # <<>>
  BY <1>4 DEF TypeInv
<1> HIDE DEF q, a, b
<1>6. \E tasks : Two(tasks, a, b) /\ Step(<<q>>, 0, 0, tasks)
  BY <1>1, <1>2, <1>3, <1>4, <1>5, Goes2
<1>7. \E more, tasks : One(more, q) /\ Two(tasks, a, b) /\ Step(more, 0, 0, tasks)
  BY <1>6, Tuples
<1> QED
  BY <1>7 DEF q, a, b

LEMMA LoopEndsShape ==
  ASSUME TypeInv, LoopEnds, task.at \in DOMAIN routine.quads
  PROVE  LET p == Quad("JMP", task.top, 0, 0)
             q == LabelQuad(Len(routine.quads) + 1)
         IN  \E more, tasks : Two(more, p, q) /\ Zero(tasks) /\ Step(more, task.at, 0, tasks)
<1> DEFINE p == Quad("JMP", task.top, 0, 0)
           q == LabelQuad(Len(routine.quads) + 1)
<1>1. todo # <<>> /\ task.do = "loop"
  BY DEF LoopEnds, Begins, Doing
<1>2. Grown(routine, Land(Add(routine, p), task.at), <<p, q>>, task.at, 0,
            IF task.do = "params" THEN 0 ELSE 0)
  <2>1. IsRoutine(routine) /\ IsQuad(p)
    BY <1>1, TaskFacts DEF IsQuad, Quad
  <2> HIDE DEF p
  <2> QED
    BY <1>1, <2>1, AddLandGrows DEF q
<1>3. Becomes(Land(Add(routine, p), task.at)) /\ Then(<<>>) /\ UNCHANGED sym
  BY <1>1 DEF LoopEnds, Emits
<1>4. IsSeq(sym') /\ sym' # <<>>
  BY <1>3 DEF TypeInv
<1> HIDE DEF p, q
<1>5. \E tasks : Zero(tasks) /\ Step(<<p, q>>, task.at, 0, tasks)
  BY <1>1, <1>2, <1>3, <1>4, Goes0
<1>6. \E more, tasks : Two(more, p, q) /\ Zero(tasks) /\ Step(more, task.at, 0, tasks)
  BY <1>5, Tuples
<1> QED
  BY <1>6 DEF p, q

LEMMA GenStmtShape ==
  ASSUME TypeInv, GenStmt
  PROVE  LET a == For("node", this.stmts[task.k + 1])
             b == Turned(task.do, task.target, task.left, task.at, task.k + 1)
         IN  \E more, tasks : Zero(more) /\ Two(tasks, a, b) /\ Step(more, 0, 0, tasks)
<1> DEFINE a == For("node", this.stmts[task.k + 1])
           b == Turned(task.do, task.target, task.left, task.at, task.k + 1)
<1>1. todo # <<>> /\ task.do = "stmts"
  BY DEF GenStmt, Begins, Doing
<1>2. IsTask(a, DOMAIN routines) /\ IsTask(b, DOMAIN routines)
  BY <1>1, TaskNats, TasksAre
<1>3. Then(<<a, b>>) /\ UNCHANGED <<routines, sym>>
  BY <1>1, TurnedIs DEF GenStmt, Awaits
<1>4. IsSeq(sym') /\ sym' # <<>>
  BY <1>3 DEF TypeInv
<1> HIDE DEF a, b
<1>5. \E more, tasks : Zero(more) /\ Two(tasks, a, b) /\ Step(more, 0, 0, tasks)
  BY <1>1, <1>2, <1>3, <1>4, Awaits2
<1> QED
  BY <1>5 DEF a, b

LEMMA ParamsEndShape ==
  ASSUME TypeInv, ParamsEnd
  PROVE  LET a == For("node", this.body)
             b == Turned("leave", task.target, task.left, task.at, task.k)
         IN  \E more, tasks : Zero(more) /\ Two(tasks, a, b) /\ Step(more, 0, 0, tasks)
<1> DEFINE a == For("node", this.body)
           b == Turned("leave", task.target, task.left, task.at, task.k)
<1>1. todo # <<>> /\ task.do = "params"
  BY DEF ParamsEnd, Begins, Doing
<1>2. IsTask(a, DOMAIN routines) /\ IsTask(b, DOMAIN routines)
  BY <1>1, TaskNats, TasksAre
<1>3. Then(<<a, b>>) /\ UNCHANGED <<routines, sym>>
  BY <1>1, TurnedIs DEF ParamsEnd, Awaits
<1>4. IsSeq(sym') /\ sym' # <<>>
  BY <1>3 DEF TypeInv
<1> HIDE DEF a, b
<1>5. \E more, tasks : Zero(more) /\ Two(tasks, a, b) /\ Step(more, 0, 0, tasks)
  BY <1>1, <1>2, <1>3, <1>4, Awaits2
<1> QED
  BY <1>5 DEF a, b

-----------------------------------------------------------------------------
(* The symbol table *)

\* e is what a scope of table says of a name.
InTable(table, e) == \E d \in DOMAIN table : \E name \in DOMAIN table[d] : table[d][name] = e

LEMMA PutFacts ==
  ASSUME TypeInv, NEW name, NEW e, Sym!Put(name, e)
  PROVE  /\ IsSeq(sym') /\ sym' # <<>>
         /\ \A x : InTable(sym', x) => InTable(sym, x) \/ x = e
<1> DEFINE top   == Len(sym)
           scope == [s \in DOMAIN sym[top] \cup {name} |-> IF s = name THEN e ELSE sym[top][s]]
<1>1. IsSeq(sym) /\ top \in DOMAIN sym
  BY SeqFacts DEF TypeInv
<1>2. sym' = [sym EXCEPT ![top] = scope]
  BY DEF Sym!Put, Sym!Innermost
<1> HIDE DEF scope
<1>3. /\ IsSeq(sym') /\ Len(sym') = Len(sym) /\ DOMAIN sym' = DOMAIN sym
      /\ \A m \in DOMAIN sym : sym'[m] = IF m = top THEN scope ELSE sym[m]
  BY <1>1, <1>2, ExceptFacts
<1>4. sym' # <<>>
  BY <1>1, <1>3, SeqFacts DEF TypeInv
<1>5. ASSUME NEW x, InTable(sym', x), x # e
      PROVE  InTable(sym, x)
  <2>0. PICK d \in DOMAIN sym : \E s \in DOMAIN sym'[d] : sym'[d][s] = x
    BY <1>3, <1>5 DEF InTable
  <2>1. PICK s \in DOMAIN sym'[d] : sym'[d][s] = x
    BY <2>0
  <2>2. CASE d # top
    BY <1>3, <2>1, <2>2 DEF InTable
  <2>3. CASE d = top
    <3>1. s \in DOMAIN scope /\ scope[s] = x
      BY <1>3, <2>1, <2>3
    <3>2. s # name /\ s \in DOMAIN sym[top] /\ sym[top][s] = x
      BY <1>5, <3>1 DEF scope
    <3> QED
      BY <1>1, <3>2 DEF InTable
  <2> QED
    BY <2>2, <2>3
<1> QED
  BY <1>3, <1>4, <1>5

LEMMA EnterFacts ==
  ASSUME TypeInv, Sym!EnterScope
  PROVE  /\ IsSeq(sym') /\ sym' # <<>>
         /\ \A x : InTable(sym', x) => InTable(sym, x)
<1>1. IsSeq(sym) /\ sym' = Append(sym, Sym!NoSymbols) /\ DOMAIN Sym!NoSymbols = {}
  BY DEF TypeInv, Sym!EnterScope, Sym!NoSymbols
<1>2. Len(sym) \in Nat /\ DOMAIN sym = 1 .. Len(sym)
  BY <1>1, SeqFacts
<1>3. /\ IsSeq(sym') /\ Len(sym') = Len(sym) + 1 /\ DOMAIN sym' = 1 .. Len(sym) + 1
      /\ \A d \in DOMAIN sym : sym'[d] = sym[d]
      /\ sym'[Len(sym) + 1] = Sym!NoSymbols
  BY <1>1, AppendFacts
<1>4. sym' # <<>>
  BY <1>2, <1>3, SeqFacts
<1>5. ASSUME NEW x, InTable(sym', x)
      PROVE  InTable(sym, x)
  <2>0. PICK d \in DOMAIN sym' : \E s \in DOMAIN sym'[d] : sym'[d][s] = x
    BY <1>5 DEF InTable
  <2>1. PICK s \in DOMAIN sym'[d] : sym'[d][s] = x
    BY <2>0
  <2>2. d # Len(sym) + 1
    BY <1>1, <1>3, <2>1
  <2>3. d \in DOMAIN sym
    BY <1>2, <1>3, <2>2
  <2> QED
    BY <1>3, <2>1, <2>3 DEF InTable
<1> QED
  BY <1>3, <1>4, <1>5

LEMMA ExitFacts ==
  ASSUME TypeInv, Sym!ExitScope
  PROVE  /\ IsSeq(sym') /\ sym' # <<>>
         /\ \A x : InTable(sym', x) => InTable(sym, x)
<1> DEFINE n == Len(sym) - 1
<1>1. IsSeq(sym) /\ Len(sym) > 1 /\ sym' = SubSeq(sym, 1, n)
  BY DEF TypeInv, Sym!ExitScope, Sym!Innermost
<1>2. Len(sym) \in Nat /\ DOMAIN sym = 1 .. Len(sym)
  BY <1>1, SeqFacts
<1>3. sym' \in Seq(Range(sym)) /\ Len(sym') = n /\ \A d \in 1 .. n : sym'[d] = sym[d]
  <2>1. sym \in Seq(Range(sym)) /\ n \in 1 .. Len(sym)
    BY <1>1, <1>2 DEF IsSeq
  <2>2. \A d \in 1 .. n : d \in 1 .. Len(sym)
    BY <1>2
  <2> HIDE DEF n
  <2> QED
    BY <1>1, <2>1, <2>2, SubSeqProperties
<1>4. IsSeq(sym')
  BY <1>3, SeqOfRange DEF IsSeq
<1>5. sym' # <<>> /\ DOMAIN sym' = 1 .. n /\ \A d \in DOMAIN sym' : d \in DOMAIN sym
  <2>1. DOMAIN sym' = 1 .. n /\ Len(sym') = n
    BY <1>3, <1>4, SeqFacts
  <2>2. n > 0 /\ \A d \in 1 .. n : d \in DOMAIN sym
    BY <1>1, <1>2
  <2> QED
    BY <1>4, <2>1, <2>2, SeqFacts
<1> QED
  BY <1>3, <1>4, <1>5 DEF InTable

\* What is declared has an innermost scope that declares it.
LEMMA Innermost ==
  ASSUME NEW n \in Nat, NEW S, S \subseteq 1 .. n, S # {}
  PROVE  \E k \in S : \A j \in S : j <= k
<1> DEFINE Less == {p \in Nat \X Nat : p[1] < p[2]}
           T == {i \in 0 .. n : n - i \in S}
<1>1. IsWellFoundedOn(Less, Nat)
  BY NatLessThanWellFounded DEF OpToRel
<1>2. \A x, y \in Nat : y < x => <<y, x>> \in Less
  OBVIOUS
<1>3. T \subseteq Nat
  OBVIOUS
<1>4. \A j \in S : n - j \in T /\ j \in Nat /\ j <= n
  <2> TAKE j \in S
  <2>1. j \in 1 .. n
    OBVIOUS
  <2>2. n - j \in 0 .. n /\ n - (n - j) = j
    BY <2>1
  <2> QED
    BY <2>1, <2>2
<1>5. T # {}
  <2> HIDE DEF T
  <2> QED
    BY <1>4
<1>6. \A i \in T : n - i \in S /\ i \in Nat
  OBVIOUS
<1> HIDE DEF T, Less
<1>7. PICK i \in T : \A y \in T : ~ (<<y, i>> \in Less)
  BY <1>1, <1>3, <1>5, WFMin
<1>8. \A j \in S : j <= n - i
  <2> TAKE j \in S
  <2>1. n - j \in T /\ n - j \in Nat /\ i \in Nat
    BY <1>3, <1>4
  <2>2. ~(n - j < i)
    BY <1>2, <1>7, <2>1
  <2> QED
    BY <1>4, <2>1, <2>2
<1> QED
  BY <1>6, <1>8

LEMMA LookupFacts ==
  ASSUME TypeInv, NEW name, \E d \in DOMAIN sym : Sym!Declares(d, name)
  PROVE  InTable(sym, Sym!Lookup(name))
<1> DEFINE S == {d \in DOMAIN sym : Sym!Declares(d, name)}
           Is(k) == Sym!Declares(k, name) /\ \A j \in DOMAIN sym : Sym!Declares(j, name) => j <= k
           n == CHOOSE k \in DOMAIN sym : Is(k)
<1>1. Len(sym) \in Nat /\ DOMAIN sym = 1 .. Len(sym)
  BY SeqFacts DEF TypeInv
<1>2. \E k \in S : \A j \in S : j <= k
  BY <1>1, Innermost
<1>3. \E k \in DOMAIN sym : Is(k)
  BY <1>2
<1>4. n \in DOMAIN sym /\ Is(n)
  <2> HIDE DEF Is
  <2> QED
    BY <1>3
<1>5. Sym!Lookup(name) = sym[n][name]
  BY DEF Sym!Lookup
<1>6. name \in DOMAIN sym[n]
  BY <1>4 DEF Sym!Declares
<1> QED
  BY <1>4, <1>5, <1>6 DEF InTable

\* The actions that use it
LEMMA GenDeclShape ==
  ASSUME TypeInv, GenDecl, this.init = Nothing
  PROVE  \E more, tasks : Zero(more) /\ Zero(tasks) /\ Step(more, 0, 1, tasks)
<1>1. todo # <<>> /\ task.do = "node"
  BY DEF GenDecl, Begins, Doing
<1>2. /\ Sym!Put(this.var, Known(task.routine, NextTemp(routine)))
      /\ Becomes(make_temp(routine)) /\ Then(<<>>)
  BY DEF GenDecl
<1>3. IsSeq(sym') /\ sym' # <<>>
  BY <1>2, PutFacts
<1>4. Grown(routine, make_temp(routine), <<>>, 0, 1, IF task.do = "params" THEN 1 ELSE 0)
  BY <1>1, TaskFacts, make_tempGrows
<1>5. \E tasks : Zero(tasks) /\ Step(<<>>, 0, 1, tasks)
  BY <1>1, <1>2, <1>3, <1>4, Goes0
<1> QED
  BY <1>5, Tuples

LEMMA DeclEndsShape ==
  ASSUME TypeInv, DeclEnds
  PROVE  \E more, tasks : Zero(more) /\ Zero(tasks) /\ Step(more, 0, 0, tasks)
<1>1. /\ todo # <<>> /\ Then(<<>>) /\ UNCHANGED routines
      /\ Sym!Put(this.var, Known(task.routine, value))
  BY DEF DeclEnds, Doing
<1>2. IsSeq(sym') /\ sym' # <<>>
  BY <1>1, PutFacts
<1> QED
  BY <1>1, <1>2, Awaits0

LEMMA ScopeBeginsShape ==
  ASSUME TypeInv, ScopeBegins
  PROVE  \E do : /\ <<task.do, do>> \in {<<"node", "stmts">>, <<"function", "params">>}
                 /\ \E more, tasks : /\ Zero(more) /\ One(tasks, For(do, this))
                                     /\ Step(more, 0, 0, tasks)
<1>1. todo # <<>> /\ Sym!EnterScope /\ UNCHANGED routines
  BY DEF ScopeBegins, Begins, Doing
<1>2. IsSeq(sym') /\ sym' # <<>>
  BY <1>1, EnterFacts
<1>3. PICK do : /\ <<task.do, do>> \in {<<"node", "stmts">>, <<"function", "params">>}
                /\ Then(<<For(do, this)>>)
  BY DEF ScopeBegins, Begins, Doing
<1> DEFINE a == For(do, this)
<1>4. IsTask(a, DOMAIN routines) /\ Then(<<a>>)
  BY <1>1, <1>3, TasksAre
<1> HIDE DEF a
<1>5. \E more, tasks : Zero(more) /\ One(tasks, a) /\ Step(more, 0, 0, tasks)
  BY <1>1, <1>2, <1>4, Awaits1
<1> QED
  BY <1>3, <1>5 DEF a

LEMMA ScopeEndsShape ==
  ASSUME TypeInv, ScopeEnds
  PROVE  \E more, tasks : Zero(more) /\ Zero(tasks) /\ Step(more, 0, 0, tasks)
<1>1. todo # <<>> /\ Then(<<>>) /\ UNCHANGED routines /\ Sym!ExitScope
  BY DEF ScopeEnds, Doing
<1>2. IsSeq(sym') /\ sym' # <<>>
  BY <1>1, ExitFacts
<1> QED
  BY <1>1, <1>2, Awaits0

LEMMA AddParamShape ==
  ASSUME TypeInv, AddParam
  PROVE  \E more, tasks :
           /\ Zero(more)
           /\ One(tasks, Turned("params", task.target, task.left, task.at, task.k + 1))
           /\ Step(more, 0, 1, tasks)
<1> DEFINE r    == task.routine
           mid  == make_temp(routine)
           made == [routines EXCEPT ![r] = make_temp(@)]
           new  == [mid EXCEPT !.param_count = @ + 1]
           a    == Turned("params", task.target, task.left, task.at, task.k + 1)
<1>1. /\ todo # <<>> /\ task.do = "params"
      /\ routines' = [made EXCEPT ![r].param_count = @ + 1]
      /\ Sym!Put(this.params[task.k + 1].name, Known(r, NextTemp(routines[r])))
      /\ Then(<<[task EXCEPT !.k = @ + 1]>>)
  BY DEF AddParam, ParamIn, Doing
<1>2. r \in DOMAIN routines /\ IsSeq(routines) /\ IsRoutine(routine)
  BY <1>1, TaskFacts DEF TypeInv
<1>3. Becomes(new)
  <2>1. made = [routines EXCEPT ![r] = mid]
    BY DEF routine
  <2> HIDE DEF mid
  <2>2. made[r] = mid
    BY <1>2, <2>1, ExceptFacts
  <2>3. routines' = [routines EXCEPT ![r] = new]
    BY <1>1, <2>1, <2>2
  <2> QED
    BY <2>3 DEF Becomes
<1>4. IsSeq(sym') /\ sym' # <<>>
  BY <1>1, PutFacts
<1>5. Kept(routine, new, 0, 1, 1) /\ Len(new.quads) = Len(routine.quads) + 0
  <2>1. Kept(routine, mid, 0, 1, 0) /\ mid.quads = routine.quads
    BY <1>2, make_tempGrows, Grown0
  <2> HIDE DEF mid
  <2>2. IsRoutine(mid) /\ mid.param_count = routine.param_count
    BY <1>2, <2>1, RoutineFacts DEF Kept
  <2>3. /\ new.name = mid.name /\ new.external = mid.external /\ new.quads = mid.quads
        /\ new.temp_count = mid.temp_count /\ new.param_count = mid.param_count + 1
        /\ IsRoutine(new)
    BY <2>2 DEF IsRoutine
  <2> HIDE DEF new
  <2> QED
    BY <1>2, <2>1, <2>2, <2>3, RoutineFacts DEF Kept
<1>6. Grown(routine, new, <<>>, 0, 1, IF task.do = "params" THEN 1 ELSE 0)
  BY <1>1, <1>5, Grown0
<1>7. IsTask(a, DOMAIN routines) /\ Then(<<a>>)
  BY <1>1, TaskNats, TasksAre, TurnedIs
<1> HIDE DEF a, new
<1>8. \E tasks : One(tasks, a) /\ Step(<<>>, 0, 1, tasks)
  BY <1>1, <1>3, <1>4, <1>6, <1>7, Goes1
<1>9. \E more, tasks : Zero(more) /\ One(tasks, a) /\ Step(more, 0, 1, tasks)
  BY <1>8, Tuples
<1> QED
  BY <1>9 DEF a

LEMMA GenFunctionShape ==
  ASSUME TypeInv, GenFunction
  PROVE  LET a == Task(Len(routines) + 1, "function", this)
         IN  /\ Len(routines) + 1 \in DOMAIN routines' /\ Len(routines) + 1 \notin DOMAIN routines
             /\ \E more, tasks : /\ Zero(more)
                                 /\ Zero(tasks) \/ (this.body # Nothing /\ One(tasks, a))
                                 /\ Step(more, 0, 0, tasks)
<1> DEFINE n   == Len(routines) + 1
           a   == Task(n, "function", this)
           new == [Routine(this.name) EXCEPT !.external = this.body = Nothing]
<1>1. /\ todo # <<>> /\ task.do = "node"
      /\ routines' = Append(routines, new)
      /\ Sym!Put(this.name, Known(0, Len(routines)))
      /\ Then(<<>>) \/ (this.body # Nothing /\ Then(<<a>>))
  BY DEF GenFunction, Begins, Doing
<1>2. IsSeq(sym') /\ sym' # <<>>
  BY <1>1, PutFacts
<1>3. /\ new.quads = <<>> /\ new.temp_count = 0 /\ new.param_count = 0
      /\ IsRoutine(new)
  <2>1. /\ new.quads = <<>> /\ new.temp_count = 0 /\ new.param_count = 0
        /\ new = [name |-> new.name, temp_count |-> new.temp_count,
                  param_count |-> new.param_count, quads |-> new.quads,
                  external |-> new.external]
    BY DEF Routine
  <2> HIDE DEF new
  <2> QED
    BY <2>1, ShortSeqs DEF IsRoutine
<1> HIDE DEF new
<1>4. IsSeq(routines) /\ Len(routines) \in Nat /\ DOMAIN routines = 1 .. Len(routines)
  BY SeqFacts DEF TypeInv
<1>5. /\ IsSeq(routines') /\ DOMAIN routines' = 1 .. n
      /\ \A r \in DOMAIN routines : routines'[r] = routines[r]
      /\ routines'[n] = new
  BY <1>1, <1>4, AppendFacts
<1>6. /\ DOMAIN routines \subseteq DOMAIN routines'
      /\ n \in DOMAIN routines' /\ n \notin DOMAIN routines
      /\ \A r \in DOMAIN routines' : r \notin DOMAIN routines => r = n
  BY <1>4, <1>5
<1>7. \A r \in DOMAIN routines' : IsRoutine(routines'[r])
  BY <1>3, <1>5, <1>6 DEF TypeInv
<1>8. Wrote(<<>>, 0, 0)
  <2>1. routines'[task.routine] = routine
    BY <1>1, <1>5, TaskFacts DEF routine
  <2>2. Grown(routine, routines'[task.routine], <<>>, 0, 0, IF task.do = "params" THEN 0 ELSE 0)
    BY <1>1, <2>1, SameGrows
  <2> QED
    BY <1>3, <1>5, <1>6, <2>2 DEF Wrote
<1>9. IsTask(a, DOMAIN routines')
  BY <1>6 DEF IsTask, Task
<1> HIDE DEF a
<1>10. ASSUME NEW tasks, AreTasks(tasks, DOMAIN routines'), Then(tasks)
       PROVE  Step(<<>>, 0, 0, tasks)
  <2>1. AreTasks(todo', DOMAIN routines') /\ Stacked(tasks)
    BY <1>1, <1>6, <1>10, StacksOn
  <2> QED
    BY <1>2, <1>5, <1>7, <1>8, <1>10, <2>1 DEF Step, TypeInv
<1>11. CASE Then(<<>>)
  <2>1. AreTasks(<<>>, DOMAIN routines')
    BY ShortTasks
  <2>2. Step(<<>>, 0, 0, <<>>)
    BY <1>10, <1>11, <2>1
  <2> QED
    BY <1>6, <2>2, Tuples DEF a
<1>12. CASE this.body # Nothing /\ Then(<<a>>)
  <2>1. AreTasks(<<a>>, DOMAIN routines')
    BY <1>9, ShortTasks
  <2>2. Step(<<>>, 0, 0, <<a>>)
    BY <1>10, <1>12, <2>1
  <2>3. \E more, tasks : Zero(more) /\ One(tasks, a) /\ Step(more, 0, 0, tasks)
    BY <2>2, Tuples
  <2> QED
    BY <1>6, <1>12, <2>3 DEF a
<1> QED
  BY <1>1, <1>11, <1>12

-----------------------------------------------------------------------------
(* Which calls wait for which, and where jumps lead *)

Results  == {"left", "right", "logical"}
Awaiting == Results \cup {"arg", "unary", "assign", "decl", "return", "if", "while"}
InExp    == Results \cup {"exp", "arg", "unary"}
Waiting  == Awaiting \cup {"then", "else", "loop", "stmts", "leave"}

\* A call that waits for an expression waits for a call in its own routine.
Nested ==
  \A i, j \in DOMAIN todo : i < j =>
    /\ todo[j].do \in Waiting
    /\ todo[j].do \in Awaiting => todo[i].do \in InExp /\ todo[i].routine = todo[j].routine

\* Parameters come before any other temp and before any quad.
ParamsInv ==
  \A i \in DOMAIN todo : todo[i].do \in {"function", "params"} =>
    LET rt == routines[todo[i].routine] IN rt.quads = <<>> /\ rt.temp_count = rt.param_count

Jumps     == {"JMP", "JZ", "JNZ"}
JumpTasks == {"logical", "then", "else", "loop"}

Lands(qs, label) ==
  label + 1 \in DOMAIN qs /\ qs[label + 1].op = "LABEL" /\ qs[label + 1].target = label

\* A jump is patched by one call; the label of a loop is there.
JumpInv ==
  /\ \A i \in DOMAIN todo : LET t  == todo[i]
                                qs == routines[t.routine].quads
                            IN
       /\ t.do \in JumpTasks => t.at \in DOMAIN qs /\ qs[t.at].op \in Jumps
       /\ t.do \notin JumpTasks => t.at = 0
       /\ t.do \in {"while", "loop"} => Lands(qs, t.top)
  /\ \A i, j \in DOMAIN todo :
       i # j /\ todo[i].routine = todo[j].routine /\ todo[i].at # 0 => todo[i].at # todo[j].at
  /\ JumpsLandOnLabels

FlowInv == TypeInv /\ Nested /\ ParamsInv /\ JumpInv

\* A step that keeps all that
NestFits(tasks) ==
  /\ \A i, j \in DOMAIN tasks : i < j =>
       /\ tasks[j].do \in Waiting
       /\ tasks[j].do \in Awaiting => tasks[i].do \in InExp /\ tasks[i].routine = tasks[j].routine
  /\ task.do \in InExp => \A i \in DOMAIN tasks :
       tasks[i].do \in InExp /\ tasks[i].routine = task.routine
  /\ \A i \in DOMAIN tasks : tasks[i].do \in {"function", "params"} =>
       LET rt == routines'[tasks[i].routine] IN rt.quads = <<>> /\ rt.temp_count = rt.param_count

JumpFits(more, at, tasks) ==
  LET len == Len(routine.quads) IN
  /\ at = task.at
  /\ \A i \in DOMAIN tasks : LET t == tasks[i] IN
       /\ t.do \in JumpTasks => /\ t.routine = task.routine
                                /\ \E n \in DOMAIN more : t.at = len + n /\ more[n].op \in Jumps
       /\ t.do \notin JumpTasks => t.at = 0
       /\ t.do \in {"while", "loop"} =>
            /\ t.routine = task.routine
            /\ \/ task.do = "while" /\ t.top = task.top
               \/ t.top = len /\ 1 \in DOMAIN more /\ more[1] = LabelQuad(len)
  /\ \A i, j \in DOMAIN tasks : i # j => tasks[i].at = 0 \/ tasks[j].at = 0
  /\ task.do \in JumpTasks =>
       /\ Len(more) \in DOMAIN more
       /\ more[Len(more)] = LabelQuad(len + Len(more) - 1)
  /\ \A n \in DOMAIN more : more[n].op \in Jumps \cup {"LABEL"} =>
       \/ more[n] = LabelQuad(len + n - 1)
       \/ \E i \in DOMAIN tasks : tasks[i].routine = task.routine /\ tasks[i].at = len + n
       \/ task.do = "loop" /\ more[n].target = task.top

\* Where the calls are after a step, and where those are that were there.
LEMMA Places ==
  ASSUME TypeInv, todo # <<>>, NEW more, NEW at, NEW made, NEW tasks,
         Step(more, at, made, tasks)
  PROVE  /\ IsSeq(tasks) /\ Len(tasks) \in Nat /\ DOMAIN tasks = 1 .. Len(tasks)
         /\ \A i \in DOMAIN todo' :
              \/ i \in DOMAIN tasks /\ todo'[i] = tasks[i]
              \/ /\ i \notin DOMAIN tasks /\ i - Len(tasks) + 1 \in DOMAIN todo
                 /\ i - Len(tasks) + 1 > 1 /\ todo'[i] = todo[i - Len(tasks) + 1]
         /\ \A i \in DOMAIN tasks : i \in DOMAIN todo' /\ todo'[i] = tasks[i]
         /\ \A i \in DOMAIN todo : i # 1 =>
              i + Len(tasks) - 1 \in DOMAIN todo' /\ todo'[i + Len(tasks) - 1] = todo[i]
         /\ DOMAIN todo \subseteq Nat /\ DOMAIN todo' \subseteq Nat
<1>1. /\ IsSeq(tasks) /\ Len(tasks) \in Nat /\ DOMAIN tasks = 1 .. Len(tasks)
      /\ Len(todo) \in Nat \ {0} /\ DOMAIN todo = 1 .. Len(todo)
  BY TaskFacts, SeqFacts DEF Step, AreTasks
<1>2. DOMAIN todo' = 1 .. Len(tasks) + Len(todo) - 1
  <2>1. IsSeq(todo') /\ Len(todo') = Len(tasks) + Len(todo) - 1
    BY DEF Step, TypeInv, AreTasks, Stacked
  <2> QED
    BY <2>1, SeqFacts
<1>3. ASSUME NEW i \in DOMAIN todo'
      PROVE  \/ i \in DOMAIN tasks /\ todo'[i] = tasks[i]
             \/ /\ i \notin DOMAIN tasks /\ i - Len(tasks) + 1 \in DOMAIN todo
                /\ i - Len(tasks) + 1 > 1 /\ todo'[i] = todo[i - Len(tasks) + 1]
  BY <1>1 DEF Step, Stacked
<1>4. ASSUME NEW i \in DOMAIN tasks
      PROVE  i \in DOMAIN todo' /\ todo'[i] = tasks[i]
  <2>1. i \in DOMAIN todo'
    BY <1>1, <1>2
  <2> QED
    BY <1>3, <2>1
<1>5. ASSUME NEW i \in DOMAIN todo, i # 1
      PROVE  i + Len(tasks) - 1 \in DOMAIN todo' /\ todo'[i + Len(tasks) - 1] = todo[i]
  <2> DEFINE j == i + Len(tasks) - 1
  <2>1. j \in DOMAIN todo' /\ j \notin DOMAIN tasks /\ j - Len(tasks) + 1 = i
    BY <1>1, <1>2, <1>5
  <2> QED
    BY <1>3, <2>1
<1> QED
  BY <1>1, <1>2, <1>3, <1>4, <1>5

\* What becomes of a quad
LEMMA QuadsStay ==
  ASSUME TypeInv, todo # <<>>, NEW more, IsSeq(more), NEW at, NEW made, NEW tasks,
         Step(more, at, made, tasks)
  PROVE  /\ \A r \in DOMAIN routines :
              LET qs  == routines[r].quads
                  new == routines'[r].quads
              IN  \A n \in DOMAIN qs :
                    /\ n \in DOMAIN new /\ new[n].op = qs[n].op
                    /\ new[n].left = qs[n].left /\ new[n].right = qs[n].right
                    /\ r # task.routine \/ n # at => new[n] = qs[n]
                    /\ r = task.routine /\ n = at => new[n].target = Len(new) - 1
         /\ \A r \in DOMAIN routines' :
              \A n \in DOMAIN routines'[r].quads :
                \/ r \in DOMAIN routines /\ n \in DOMAIN routines[r].quads
                \/ /\ r = task.routine /\ n - Len(routine.quads) \in 1 .. Len(more)
                   /\ n \in Nat /\ n > Len(routine.quads)
         /\ \A n \in DOMAIN more :
              routines'[task.routine].quads[Len(routine.quads) + n] = more[n]
         /\ task.routine \in DOMAIN routines'
         /\ Len(routines'[task.routine].quads) = Len(routine.quads) + Len(more)
         /\ DOMAIN routines'[task.routine].quads = 1 .. Len(routine.quads) + Len(more)
<1> DEFINE len == Len(routine.quads)
           new == routines'[task.routine]
<1>1. /\ task.routine \in DOMAIN routines /\ IsRoutine(routine)
      /\ routine = routines[task.routine]
      /\ len \in Nat /\ DOMAIN routine.quads = 1 .. len
  BY TaskFacts DEF routine
<1>2. /\ task.routine \in DOMAIN routines'
      /\ IsRoutine(new)
      /\ Len(new.quads) = len + Len(more)
      /\ \A n \in DOMAIN routine.quads :
           new.quads[n] = IF n = at THEN [routine.quads[n] EXCEPT !.target = Len(new.quads) - 1]
                          ELSE routine.quads[n]
      /\ \A n \in DOMAIN more : new.quads[len + n] = more[n]
  BY <1>1 DEF Step, Wrote, Grown, Kept
<1>3. Len(new.quads) \in Nat /\ DOMAIN new.quads = 1 .. len + Len(more)
  <2> HIDE DEF new
  <2> QED
    BY <1>2, RoutineFacts
<1>4. \A n \in DOMAIN routine.quads : n \in DOMAIN new.quads
  BY <1>1, <1>3, SeqFacts
<1>5. ASSUME NEW r \in DOMAIN routines, NEW n \in DOMAIN routines[r].quads
      PROVE  LET q == routines[r].quads[n]
                 p == routines'[r].quads[n]
             IN  /\ n \in DOMAIN routines'[r].quads
                 /\ p.op = q.op /\ p.left = q.left /\ p.right = q.right
                 /\ r # task.routine \/ n # at => p = q
                 /\ r = task.routine /\ n = at => p.target = Len(routines'[r].quads) - 1
  <2>1. CASE r # task.routine
    BY <2>1 DEF Step, Wrote
  <2>2. CASE r = task.routine
    <3>1. IsQuad(routine.quads[n])
      BY <1>1, <2>2 DEF IsRoutine
    <3> QED
      BY <1>1, <1>2, <1>4, <2>2, <3>1 DEF IsQuad, Quad
  <2> QED
    BY <2>1, <2>2
<1>6. ASSUME NEW r \in DOMAIN routines', NEW n \in DOMAIN routines'[r].quads,
             ~(r \in DOMAIN routines /\ n \in DOMAIN routines[r].quads)
      PROVE  /\ r = task.routine /\ n - len \in 1 .. Len(more)
             /\ n \in Nat /\ n > len
  <2>1. r \in DOMAIN routines
    BY <1>6, ShortSeqs DEF Step, Wrote
  <2>2. r = task.routine
    BY <1>6, <2>1 DEF Step, Wrote
  <2>3. n \in 1 .. len + Len(more) /\ n \notin 1 .. len
    BY <1>1, <1>3, <1>6, <2>1, <2>2
  <2>4. n \in Nat /\ n > len
    BY <1>1, <2>3
  <2> QED
    BY <1>1, <2>2, <2>3, <2>4, SeqFacts
<1> QED
  BY <1>2, <1>3, <1>5, <1>6

LEMMA NestKept ==
  ASSUME TypeInv, Nested, todo # <<>>, NEW more, NEW at, NEW made, NEW tasks,
         Step(more, at, made, tasks), NestFits(tasks)
  PROVE  Nested' /\ ParamsInv'
<1>1. ASSUME NEW i \in DOMAIN todo', NEW j \in DOMAIN todo', i < j
      PROVE  /\ todo'[j].do \in Waiting
             /\ todo'[j].do \in Awaiting =>
                  todo'[i].do \in InExp /\ todo'[i].routine = todo'[j].routine
  <2> DEFINE k(n) == n - Len(tasks) + 1
  <2>1. i \in Nat /\ j \in Nat /\ Len(tasks) \in Nat /\ DOMAIN tasks = 1 .. Len(tasks)
    BY Places
  <2>2. CASE j \in DOMAIN tasks
    <3>1. i \in DOMAIN tasks
      <4>1. DOMAIN todo' = 1 .. Len(todo')
        BY SeqFacts DEF Step, TypeInv, AreTasks
      <4> QED
        BY <1>1, <2>1, <2>2, <4>1
    <3> QED
      BY <1>1, <2>2, <3>1, Places DEF NestFits
  <2>3. CASE i \in DOMAIN tasks /\ j \notin DOMAIN tasks
    <3>1. todo'[i] = tasks[i]
      BY <2>3, Places
    <3>2. k(j) \in DOMAIN todo /\ k(j) > 1 /\ todo'[j] = todo[k(j)]
      BY <2>3, Places
    <3>3. /\ todo[k(j)].do \in Waiting
          /\ todo[k(j)].do \in Awaiting => task.do \in InExp /\ task.routine = todo[k(j)].routine
      BY <3>2, TaskFacts DEF Nested
    <3> QED
      BY <2>3, <3>1, <3>2, <3>3 DEF NestFits
  <2>4. CASE i \notin DOMAIN tasks /\ j \notin DOMAIN tasks
    <3>1. k(i) \in DOMAIN todo /\ todo'[i] = todo[k(i)]
      BY <2>4, Places
    <3>2. k(j) \in DOMAIN todo /\ todo'[j] = todo[k(j)]
      BY <2>4, Places
    <3>3. k(i) < k(j)
      BY <1>1, <2>1
    <3> QED
      BY <3>1, <3>2, <3>3 DEF Nested
  <2> QED
    BY <2>2, <2>3, <2>4
<1>2. ASSUME NEW i \in DOMAIN todo', todo'[i].do \in {"function", "params"}
      PROVE  LET rt == routines'[todo'[i].routine]
             IN  rt.quads = <<>> /\ rt.temp_count = rt.param_count
  <2> DEFINE k == i - Len(tasks) + 1
  <2>1. CASE i \in DOMAIN tasks
    BY <1>2, <2>1, Places DEF NestFits
  <2>2. CASE i \notin DOMAIN tasks
    <3>1. k \in DOMAIN todo /\ k > 1 /\ todo'[i] = todo[k]
      BY <2>2, Places
    <3>2. todo[k].do \in Waiting
      BY <3>1, TaskFacts DEF Nested
    <3> QED
      BY <1>2, <3>1, <3>2 DEF Waiting, Awaiting, Results
  <2> QED
    BY <2>1, <2>2
<1> QED
  BY <1>1, <1>2 DEF Nested, ParamsInv

LEMMA JumpKept ==
  ASSUME TypeInv, JumpInv, todo # <<>>, NEW more, IsSeq(more), NEW at, NEW made, NEW tasks,
         Step(more, at, made, tasks), JumpFits(more, at, tasks)
  PROVE  JumpInv'
<1> DEFINE len == Len(routine.quads)
           new == routines'[task.routine].quads
           k(n) == n - Len(tasks) + 1
<1>1. /\ task.routine \in DOMAIN routines /\ task = todo[1] /\ 1 \in DOMAIN todo
      /\ routine = routines[task.routine] /\ len \in Nat
      /\ DOMAIN routine.quads = 1 .. len
      /\ Len(more) \in Nat /\ DOMAIN more = 1 .. Len(more)
  BY TaskFacts, SeqFacts DEF routine
<1>2. /\ Len(new) = len + Len(more) /\ DOMAIN new = 1 .. len + Len(more)
      /\ \A n \in DOMAIN more : len + n \in DOMAIN new /\ new[len + n] = more[n]
  <2>1. \A n \in DOMAIN more : len + n \in 1 .. len + Len(more)
    BY <1>1
  <2> HIDE DEF new
  <2> QED
    BY <2>1, QuadsStay DEF new
\* The quad that a call patches is a jump.
<1>3. \A n \in DOMAIN routine.quads : n = at => routine.quads[n].op \in Jumps
  <2>1. at = task.at
    BY DEF JumpFits
  <2>2. task.do \in JumpTasks \/ task.at = 0
    BY <1>1 DEF JumpInv
  <2>3. task.do \in JumpTasks => routine.quads[task.at].op \in Jumps
    BY <1>1 DEF JumpInv
  <2>4. 0 \notin DOMAIN routine.quads
    BY <1>1
  <2> QED
    BY <2>1, <2>2, <2>3, <2>4
\* A label that jumps have led to stays.
<1>4. ASSUME NEW r \in DOMAIN routines, NEW label, Lands(routines[r].quads, label)
      PROVE  Lands(routines'[r].quads, label)
  <2> DEFINE q == routines[r].quads[label + 1]
  <2>1. label + 1 \in DOMAIN routines[r].quads /\ q.op = "LABEL" /\ q.target = label
    BY <1>4 DEF Lands
  <2>2. r # task.routine \/ label + 1 # at
    BY <1>1, <1>3, <2>1 DEF Jumps
  <2>3. label + 1 \in DOMAIN routines'[r].quads /\ routines'[r].quads[label + 1] = q
    BY <2>1, <2>2, QuadsStay
  <2> QED
    BY <2>1, <2>3 DEF Lands
<1>5. ASSUME NEW n \in DOMAIN more, more[n] = LabelQuad(len + n - 1)
      PROVE  Lands(new, len + n - 1)
  <2>1. len + n - 1 + 1 = len + n /\ len + n \in DOMAIN new
    BY <1>1, <1>2
  <2>2. new[len + n].op = "LABEL" /\ new[len + n].target = len + n - 1
    BY <1>2, <1>5 DEF LabelQuad, Quad
  <2> QED
    BY <2>1, <2>2 DEF Lands
<1>6. ASSUME NEW i \in DOMAIN todo'
      PROVE  LET t == todo'[i]
                 qs == routines'[t.routine].quads
             IN  /\ t.do \in JumpTasks => t.at \in DOMAIN qs /\ qs[t.at].op \in Jumps
                 /\ t.do \notin JumpTasks => t.at = 0
                 /\ t.do \in {"while", "loop"} => Lands(qs, t.top)
  <2>1. CASE i \in DOMAIN tasks
    <3> DEFINE t == tasks[i]
    <3>1. todo'[i] = t
      BY <2>1, Places
    <3>2. ASSUME t.do \in JumpTasks
          PROVE  t.at \in DOMAIN new /\ new[t.at].op \in Jumps /\ t.routine = task.routine
      <4>1. /\ t.routine = task.routine
            /\ \E n \in DOMAIN more : t.at = len + n /\ more[n].op \in Jumps
        BY <2>1, <3>2 DEF JumpFits
      <4> QED
        BY <1>2, <4>1
    <3>3. ASSUME t.do \in {"while", "loop"}
          PROVE  t.routine = task.routine /\ Lands(new, t.top)
      <4>1. /\ t.routine = task.routine
            /\ \/ task.do = "while" /\ t.top = task.top
               \/ t.top = len /\ 1 \in DOMAIN more /\ more[1] = LabelQuad(len)
        BY <2>1, <3>3 DEF JumpFits
      <4>2. CASE task.do = "while" /\ t.top = task.top
        <5>1. Lands(routine.quads, task.top)
          BY <1>1, <4>2 DEF JumpInv
        <5> QED
          BY <1>1, <1>4, <4>1, <4>2, <5>1
      <4>3. CASE t.top = len /\ 1 \in DOMAIN more /\ more[1] = LabelQuad(len)
        <5>1. len + 1 - 1 = len
          BY <1>1
        <5> QED
          BY <1>5, <4>1, <4>3, <5>1
      <4> QED
        BY <4>1, <4>2, <4>3
    <3>4. t.do \notin JumpTasks => t.at = 0
      BY <2>1 DEF JumpFits
    <3> QED
      BY <3>1, <3>2, <3>3, <3>4
  <2>2. CASE i \notin DOMAIN tasks
    <3> DEFINE t == todo[k(i)]
    <3>1. k(i) \in DOMAIN todo /\ todo'[i] = t
      BY <2>2, Places
    <3>2. t.routine \in DOMAIN routines
      BY <3>1 DEF TypeInv, AreTasks, IsTask
    <3>3. /\ t.do \in JumpTasks => /\ t.at \in DOMAIN routines[t.routine].quads
                                   /\ routines[t.routine].quads[t.at].op \in Jumps
          /\ t.do \notin JumpTasks => t.at = 0
          /\ t.do \in {"while", "loop"} => Lands(routines[t.routine].quads, t.top)
      BY <3>1 DEF JumpInv
    <3>4. t.do \in JumpTasks => /\ t.at \in DOMAIN routines'[t.routine].quads
                                /\ routines'[t.routine].quads[t.at].op \in Jumps
      BY <3>2, <3>3, QuadsStay
    <3> QED
      BY <1>4, <3>1, <3>2, <3>3, <3>4
  <2> QED
    BY <2>1, <2>2
<1>7. ASSUME NEW i \in DOMAIN todo', NEW j \in DOMAIN todo', i # j,
             todo'[i].routine = todo'[j].routine, todo'[i].at # 0
      PROVE  todo'[i].at # todo'[j].at
  \* A new jump is after the old ones.
  <2>1. ASSUME NEW m \in DOMAIN tasks, NEW n \in DOMAIN todo, tasks[m].at # 0,
               tasks[m].routine = todo[n].routine
        PROVE  tasks[m].at # todo[n].at
    <3>1. /\ tasks[m].routine = task.routine
          /\ \E l \in DOMAIN more : tasks[m].at = len + l
      BY <2>1 DEF JumpFits
    <3>2. tasks[m].at > len
      BY <1>1, <3>1
    <3>3. todo[n].at = 0 \/ todo[n].at \in DOMAIN routine.quads
      BY <1>1, <2>1, <3>1 DEF JumpInv
    <3> QED
      BY <1>1, <3>2, <3>3
  <2>2. i \in DOMAIN tasks => todo'[i] = tasks[i]
    BY Places
  <2>3. j \in DOMAIN tasks => todo'[j] = tasks[j]
    BY Places
  <2>4. i \notin DOMAIN tasks => k(i) \in DOMAIN todo /\ todo'[i] = todo[k(i)]
    BY Places
  <2>5. j \notin DOMAIN tasks => k(j) \in DOMAIN todo /\ todo'[j] = todo[k(j)]
    BY Places
  <2>6. CASE i \in DOMAIN tasks /\ j \in DOMAIN tasks
    BY <1>7, <2>2, <2>3, <2>6 DEF JumpFits
  <2>7. CASE i \in DOMAIN tasks /\ j \notin DOMAIN tasks
    BY <1>7, <2>1, <2>2, <2>5, <2>7
  <2>8. CASE i \notin DOMAIN tasks /\ j \in DOMAIN tasks
    <3>1. tasks[j].at = 0 \/ tasks[j].at # todo[k(i)].at
      BY <1>7, <2>1, <2>3, <2>4, <2>8
    <3> QED
      BY <1>7, <2>3, <2>4, <2>8, <3>1
  <2>9. CASE i \notin DOMAIN tasks /\ j \notin DOMAIN tasks
    <3>1. k(i) # k(j)
      BY <1>7, Places
    <3> QED
      BY <1>7, <2>4, <2>5, <2>9, <3>1 DEF JumpInv
  <2> QED
    BY <2>6, <2>7, <2>8, <2>9
<1>8. ASSUME NEW r \in DOMAIN routines', NEW n \in DOMAIN routines'[r].quads,
             routines'[r].quads[n].op \in {"JMP", "JZ", "JNZ", "LABEL"},
             \A i \in DOMAIN todo' : ~(todo'[i].routine = r /\ todo'[i].at = n)
      PROVE  Lands(routines'[r].quads, routines'[r].quads[n].target)
  <2>1. CASE r \in DOMAIN routines /\ n \in DOMAIN routines[r].quads
    <3> DEFINE q == routines[r].quads[n]
    <3>1. routines'[r].quads[n].op = q.op
      BY <2>1, QuadsStay
    <3>2. CASE r = task.routine /\ n = at
      <4>1. task.do \in JumpTasks
        <5>1. at # 0
          BY <1>1, <2>1, <3>2
        <5> QED
          BY <1>1, <5>1 DEF JumpFits, JumpInv
      <4>2. Len(more) \in DOMAIN more /\ more[Len(more)] = LabelQuad(len + Len(more) - 1)
        BY <4>1 DEF JumpFits
      <4>3. Lands(new, len + Len(more) - 1)
        BY <1>5, <4>2
      <4>4. new[n].target = len + Len(more) - 1
        <5>1. routines'[r].quads[n].target = Len(routines'[r].quads) - 1
          BY <2>1, <3>2, QuadsStay
        <5> QED
          BY <1>2, <3>2, <5>1
      <4> QED
        BY <3>2, <4>3, <4>4
    <3>3. CASE ~(r = task.routine /\ n = at)
      <4>1. routines'[r].quads[n] = q
        BY <2>1, <3>3, QuadsStay
      <4>2. ASSUME NEW i \in DOMAIN todo PROVE ~(todo[i].routine = r /\ todo[i].at = n)
        <5>1. CASE i = 1
          BY <1>1, <3>3, <5>1 DEF JumpFits
        <5>2. CASE i # 1
          BY <1>8, <5>2, Places
        <5> QED
          BY <5>1, <5>2
      <4>3. Lands(routines[r].quads, q.target)
        BY <1>8, <2>1, <3>1, <4>2 DEF JumpInv, JumpsLandOnLabels, Lands
      <4> QED
        BY <1>4, <2>1, <4>1, <4>3
    <3> QED
      BY <3>2, <3>3
  <2>2. CASE ~(r \in DOMAIN routines /\ n \in DOMAIN routines[r].quads)
    <3> DEFINE m == n - len
    <3>1. r = task.routine /\ m \in DOMAIN more /\ n \in Nat
      BY <1>1, <2>2, QuadsStay
    <3>2. len + m = n
      BY <1>1, <3>1
    <3>3. new[n] = more[m]
      BY <1>2, <3>1, <3>2
    <3>4. \/ more[m] = LabelQuad(len + m - 1)
          \/ \E i \in DOMAIN tasks : tasks[i].routine = task.routine /\ tasks[i].at = len + m
          \/ task.do = "loop" /\ more[m].target = task.top
      <4> HIDE DEF m
      <4> QED
        BY <1>8, <3>1, <3>3 DEF JumpFits, Jumps
    <3>5. CASE more[m] = LabelQuad(len + m - 1)
      <4>1. Lands(new, len + m - 1) /\ more[m].target = len + m - 1
        BY <1>5, <3>1, <3>5 DEF LabelQuad, Quad
      <4> QED
        BY <3>1, <3>3, <4>1
    <3>6. CASE \E i \in DOMAIN tasks : tasks[i].routine = task.routine /\ tasks[i].at = len + m
      BY <1>8, <3>1, <3>2, <3>6, Places
    <3>7. CASE task.do = "loop" /\ more[m].target = task.top
      <4>1. Lands(routine.quads, task.top)
        BY <1>1, <3>7 DEF JumpInv
      <4> QED
        BY <1>1, <1>4, <3>1, <3>3, <3>7, <4>1
    <3> QED
      BY <3>4, <3>5, <3>6, <3>7
  <2> QED
    BY <2>1, <2>2
<1>9. JumpsLandOnLabels'
  BY <1>8 DEF JumpsLandOnLabels, Lands
<1> QED
  BY <1>6, <1>7, <1>9 DEF JumpInv

LEMMA OpOfIs ==
  ASSUME NEW e, e.op \in Arithmetic \cup Equality \cup Order
  PROVE  OpOf(e) \in BinaryQuads
BY DEF OpOf, BinaryQuads, Arithmetic, Equality, Order

LEMMA FlowStep ==
  ASSUME FlowInv, todo # <<>>, NEW more, IsSeq(more), NEW at, NEW made, NEW tasks,
         Step(more, at, made, tasks), NestFits(tasks), JumpFits(more, at, tasks)
  PROVE  FlowInv'
<1>1. TypeInv'
  BY DEF Step
<1> QED
  BY <1>1, NestKept, JumpKept DEF FlowInv

LEMMA TaskFlow ==
  ASSUME FlowInv, todo # <<>>
  PROVE  /\ task.do \notin JumpTasks => task.at = 0
         /\ task.do \in JumpTasks => task.at \in DOMAIN routine.quads
         /\ task.do \in {"function", "params"} =>
              routine.quads = <<>> /\ routine.temp_count = routine.param_count
         /\ Len(routine.quads) \in Nat
BY TaskFacts DEF FlowInv, JumpInv, ParamsInv, routine

LEMMA ExpFlow ==
  ASSUME FlowInv, GenExp
  PROVE  FlowInv'
<1>0. TypeInv
  BY DEF FlowInv
<1>1. CASE GenConst
  <2>1. todo # <<>> /\ task.do = "exp"
    BY <1>1 DEF GenConst, Begins, Doing
  <2>2. PICK more, tasks :
       /\ One(more, Quad("MOV_IM", NextTemp(routine), this.value, 0))
       /\ Zero(tasks)
       /\ Step(more, 0, 1, tasks)
    BY <1>0, <1>1, GenConstShape
  <2>3. NestFits(tasks)
    BY <2>1, <2>2 DEF NestFits, Zero
  <2>4. JumpFits(more, 0, tasks)
    BY <2>1, <2>2, TaskFlow DEF JumpFits, JumpTasks, Jumps, One, Zero, Quad
  <2> QED
    BY <2>1, <2>2, <2>3, <2>4, FlowStep DEF One
<1>2. CASE GenVar
  <2>1. todo # <<>> /\ task.do = "exp"
    BY <1>2 DEF GenVar, Begins, Doing
  <2>2. PICK more, tasks :
       /\ Zero(more)
       /\ Zero(tasks)
       /\ Step(more, 0, 0, tasks)
    BY <1>0, <1>2, GenVarShape
  <2>3. NestFits(tasks)
    BY <2>1, <2>2 DEF NestFits, Zero
  <2>4. JumpFits(more, 0, tasks)
    BY <2>1, <2>2, TaskFlow DEF JumpFits, JumpTasks, Jumps, Zero
  <2> QED
    BY <2>1, <2>2, <2>3, <2>4, FlowStep DEF Zero
<1>3. CASE GenArg
  <2>1. todo # <<>> /\ task.do = "exp"
    BY <1>3 DEF GenArg, Begins, Doing
  <2>2. PICK more, tasks :
       /\ Zero(more)
       /\ Two(tasks, For("exp", this.args[task.k + 1]),
              Turned("arg", task.target, task.left, task.at, task.k))
       /\ Step(more, 0, 0, tasks)
    BY <1>0, <1>3, GenArgShape
  <2>3. NestFits(tasks)
    BY <2>1, <2>2 DEF NestFits, InExp, Waiting, Awaiting, Results, Two, For, Task, Turned
  <2>4. JumpFits(more, 0, tasks)
    BY <2>1, <2>2, TaskFlow DEF JumpFits, JumpTasks, Jumps, Two, Zero, For, Task, Turned
  <2> QED
    BY <2>1, <2>2, <2>3, <2>4, FlowStep DEF Zero
<1>4. CASE ArgEnds
  <2>1. todo # <<>> /\ task.do = "arg"
    BY <1>4 DEF ArgEnds, Begins, Doing
  <2>2. PICK more, tasks :
       /\ One(more, Quad("ARG", task.k, value, 0))
       /\ One(tasks, Turned("exp", task.target, task.left, task.at, task.k + 1))
       /\ Step(more, 0, 0, tasks)
    BY <1>0, <1>4, ArgEndsShape
  <2>3. NestFits(tasks)
    BY <2>1, <2>2 DEF NestFits, InExp, Results, One, For, Task, Turned
  <2>4. JumpFits(more, 0, tasks)
    BY <2>1, <2>2, TaskFlow DEF JumpFits, JumpTasks, Jumps, One, Quad, For, Task, Turned
  <2> QED
    BY <2>1, <2>2, <2>3, <2>4, FlowStep DEF One
<1>5. CASE GenCall
  <2>1. todo # <<>> /\ task.do = "exp"
    BY <1>5 DEF GenCall, Begins, Doing
  <2>2. PICK more, tasks :
       /\ One(more, Quad("CALL", NextTemp(routine), Sym!Lookup(this.func).operand, 0))
       /\ Zero(tasks)
       /\ Step(more, 0, 1, tasks)
    BY <1>0, <1>5, GenCallShape
  <2>3. NestFits(tasks)
    BY <2>1, <2>2 DEF NestFits, Zero
  <2>4. JumpFits(more, 0, tasks)
    BY <2>1, <2>2, TaskFlow DEF JumpFits, JumpTasks, Jumps, One, Zero, Quad
  <2> QED
    BY <2>1, <2>2, <2>3, <2>4, FlowStep DEF One
<1>6. CASE GenUnary
  <2>1. todo # <<>> /\ task.do = "exp"
    BY <1>6 DEF GenUnary, Begins, Doing
  <2>2. PICK more, tasks :
       /\ Zero(more)
       /\ Two(tasks, For("exp", this.operand), For("unary", this))
       /\ Step(more, 0, 0, tasks)
    BY <1>0, <1>6, GenUnaryShape
  <2>3. NestFits(tasks)
    BY <2>1, <2>2 DEF NestFits, InExp, Waiting, Awaiting, Results, Two, For, Task, Turned
  <2>4. JumpFits(more, 0, tasks)
    BY <2>1, <2>2, TaskFlow DEF JumpFits, JumpTasks, Jumps, Two, Zero, For, Task, Turned
  <2> QED
    BY <2>1, <2>2, <2>3, <2>4, FlowStep DEF Zero
<1>7. CASE UnaryEnds
  <2>1. todo # <<>> /\ task.do = "unary"
    BY <1>7 DEF UnaryEnds, Begins, Doing
  <2>2. PICK more, tasks :
       /\ One(more, Quad(this.op, NextTemp(routine), value, 0))
       /\ Zero(tasks)
       /\ Step(more, 0, 1, tasks)
    BY <1>0, <1>7, UnaryEndsShape
  <2>3. NestFits(tasks)
    BY <2>1, <2>2 DEF NestFits, Zero
  <2>0. this.op \in {"NOT", "NEG"}
    BY <1>7 DEF UnaryEnds
  <2>4. JumpFits(more, 0, tasks)
    BY <2>0, <2>1, <2>2, TaskFlow DEF JumpFits, JumpTasks, Jumps, One, Zero, Quad
  <2> QED
    BY <2>1, <2>2, <2>3, <2>4, FlowStep DEF One
<1>8. CASE GenBinary
  <2>1. todo # <<>> /\ task.do = "exp"
    BY <1>8 DEF GenBinary, Begins, Doing
  <2>2. PICK more, tasks :
       /\ Zero(more)
       /\ Two(tasks, For("exp", this.left), [For("left", this) EXCEPT !.target = NextTemp(routine)])
       /\ Step(more, 0, 1, tasks)
    BY <1>0, <1>8, GenBinaryShape
  <2>3. NestFits(tasks)
    BY <2>1, <2>2 DEF NestFits, InExp, Waiting, Awaiting, Results, Two, For, Task, Turned
  <2>4. JumpFits(more, 0, tasks)
    BY <2>1, <2>2, TaskFlow DEF JumpFits, JumpTasks, Jumps, Two, Zero, For, Task, Turned
  <2> QED
    BY <2>1, <2>2, <2>3, <2>4, FlowStep DEF Zero
<1>9. CASE LeftEnds
  <2>1. todo # <<>> /\ task.do = "left"
    BY <1>9 DEF LeftEnds, Begins, Doing
  <2>2. PICK more, tasks :
       /\ Zero(more)
       /\ Two(tasks, For("exp", this.right), Turned("right", task.target, value, task.at, task.k))
       /\ Step(more, 0, 0, tasks)
    BY <1>0, <1>9, LeftEndsShape
  <2>3. NestFits(tasks)
    BY <2>1, <2>2 DEF NestFits, InExp, Waiting, Awaiting, Results, Two, For, Task, Turned
  <2>4. JumpFits(more, 0, tasks)
    BY <2>1, <2>2, TaskFlow DEF JumpFits, JumpTasks, Jumps, Two, Zero, For, Task, Turned
  <2> QED
    BY <2>1, <2>2, <2>3, <2>4, FlowStep DEF Zero
<1>10. CASE BinaryEnds
  <2>1. todo # <<>> /\ task.do = "right"
    BY <1>10 DEF BinaryEnds, Begins, Doing
  <2>2. PICK more, tasks :
       /\ One(more, Quad(OpOf(this), task.target, task.left, value))
       /\ Zero(tasks)
       /\ Step(more, 0, 0, tasks)
    BY <1>0, <1>10, BinaryEndsShape
  <2>3. NestFits(tasks)
    BY <2>1, <2>2 DEF NestFits, Zero
  <2>0. OpOf(this) \in BinaryQuads
    BY <1>0, <1>10, OpOfIs DEF BinaryEnds
  <2>4. JumpFits(more, 0, tasks)
    BY <2>0, <2>1, <2>2, TaskFlow DEF JumpFits, JumpTasks, Jumps, One, Zero, Quad, BinaryQuads
  <2> QED
    BY <2>1, <2>2, <2>3, <2>4, FlowStep DEF One
<1>11. CASE GenLogical
  <2>1. todo # <<>> /\ task.do = "left"
    BY <1>11 DEF GenLogical, SkipRight, Begins, Doing
  <2>2. PICK more, tasks :
       /\ Two(more, Quad("MOV", task.target, value, 0),
              Quad(IF this.op = "AND" THEN "JZ" ELSE "JNZ", 0, task.target, 0))
       /\ Two(tasks, For("exp", this.right),
              Turned("logical", task.target, task.left, Len(routine.quads) + 2, task.k))
       /\ Step(more, 0, 0, tasks)
    BY <1>0, <1>11, GenLogicalShape
  <2>3. NestFits(tasks)
    BY <2>1, <2>2 DEF NestFits, InExp, Waiting, Awaiting, Results, Two, For, Task, Turned
  <2>4. JumpFits(more, 0, tasks)
    BY <2>1, <2>2, TaskFlow DEF JumpFits, JumpTasks, Jumps, Two, Quad, For, Task, Turned
  <2> QED
    BY <2>1, <2>2, <2>3, <2>4, FlowStep DEF Two
<1>12. CASE LogicalEnds
  <2>1. todo # <<>> /\ task.do = "logical"
    BY <1>12 DEF LogicalEnds, Begins, Doing
  <2>2. PICK more, tasks :
       /\ Two(more, Quad("MOV", task.target, value, 0), LabelQuad(Len(routine.quads) + 1))
       /\ Zero(tasks)
       /\ Step(more, task.at, 0, tasks)
    <3>1. task.at \in DOMAIN routine.quads
      BY <2>1, TaskFlow DEF JumpTasks
    <3> QED
      BY <1>0, <1>12, <3>1, LogicalEndsShape
  <2>3. NestFits(tasks)
    BY <2>1, <2>2 DEF NestFits, Zero
  <2>4. JumpFits(more, task.at, tasks)
    BY <2>1, <2>2, TaskFlow DEF JumpFits, JumpTasks, Jumps, Two, Zero, Quad, LabelQuad
  <2> QED
    BY <2>1, <2>2, <2>3, <2>4, FlowStep DEF Two
<1> QED
  BY <1>1, <1>2, <1>3, <1>4, <1>5, <1>6, <1>7, <1>8, <1>9, <1>10, <1>11, <1>12 DEF GenExp

LEMMA NodeFlow ==
  ASSUME FlowInv, GenNode
  PROVE  FlowInv'
<1>0. TypeInv
  BY DEF FlowInv
<1>1. CASE GenEmpty
  <2>1. todo # <<>> /\ task.do = "node"
    BY <1>1 DEF GenEmpty, Begins, Doing
  <2>2. PICK more, tasks :
       /\ Zero(more)
       /\ Zero(tasks)
       /\ Step(more, 0, 0, tasks)
    BY <1>0, <1>1, GenEmptyShape
  <2>3. NestFits(tasks)
    BY <2>1, <2>2 DEF NestFits, Zero
  <2>4. JumpFits(more, 0, tasks)
    BY <2>1, <2>2, TaskFlow DEF JumpFits, JumpTasks, Jumps, Zero
  <2> QED
    BY <2>1, <2>2, <2>3, <2>4, FlowStep DEF Zero
<1>2. CASE GenExpNode
  <2>1. todo # <<>> /\ task.do = "node"
    BY <1>2 DEF GenExpNode, Begins, Doing
  <2>2. PICK more, tasks :
       /\ Zero(more)
       /\ One(tasks, For("exp", this.exp))
       /\ Step(more, 0, 0, tasks)
    BY <1>0, <1>2, GenExpNodeShape
  <2>3. NestFits(tasks)
    BY <2>1, <2>2 DEF NestFits, InExp, Results, One, For, Task, Turned
  <2>4. JumpFits(more, 0, tasks)
    BY <2>1, <2>2, TaskFlow DEF JumpFits, JumpTasks, Jumps, One, Zero, For, Task, Turned
  <2> QED
    BY <2>1, <2>2, <2>3, <2>4, FlowStep DEF Zero
<1>3. CASE GenAssign
  <2>1. todo # <<>> /\ task.do = "node"
    BY <1>3 DEF GenAssign, Begins, Doing
  <2>2. PICK more, tasks :
       /\ Zero(more)
       /\ Two(tasks, For("exp", this.value),
              [For("assign", this) EXCEPT !.target = Sym!Lookup(this.var).operand])
       /\ Step(more, 0, 0, tasks)
    BY <1>0, <1>3, GenAssignShape
  <2>3. NestFits(tasks)
    BY <2>1, <2>2 DEF NestFits, InExp, Waiting, Awaiting, Results, Two, For, Task, Turned
  <2>4. JumpFits(more, 0, tasks)
    BY <2>1, <2>2, TaskFlow DEF JumpFits, JumpTasks, Jumps, Two, Zero, For, Task, Turned
  <2> QED
    BY <2>1, <2>2, <2>3, <2>4, FlowStep DEF Zero
<1>4. CASE AssignEnds
  <2>1. todo # <<>> /\ task.do = "assign"
    BY <1>4 DEF AssignEnds, Begins, Doing
  <2>2. PICK more, tasks :
       /\ One(more, Quad("MOV", task.target, value, 0))
       /\ Zero(tasks)
       /\ Step(more, 0, 0, tasks)
    BY <1>0, <1>4, AssignEndsShape
  <2>3. NestFits(tasks)
    BY <2>1, <2>2 DEF NestFits, Zero
  <2>4. JumpFits(more, 0, tasks)
    BY <2>1, <2>2, TaskFlow DEF JumpFits, JumpTasks, Jumps, One, Zero, Quad
  <2> QED
    BY <2>1, <2>2, <2>3, <2>4, FlowStep DEF One
<1>5. CASE GenDecl /\ this.init # Nothing
  <2>1. todo # <<>> /\ task.do = "node"
    BY <1>5 DEF GenDecl, Begins, Doing
  <2>2. PICK more, tasks :
       /\ Zero(more)
       /\ Two(tasks, For("exp", this.init), For("decl", this))
       /\ Step(more, 0, 0, tasks)
    BY <1>0, <1>5, GenDeclInitShape
  <2>3. NestFits(tasks)
    BY <2>1, <2>2 DEF NestFits, InExp, Waiting, Awaiting, Results, Two, For, Task, Turned
  <2>4. JumpFits(more, 0, tasks)
    BY <2>1, <2>2, TaskFlow DEF JumpFits, JumpTasks, Jumps, Two, Zero, For, Task, Turned
  <2> QED
    BY <2>1, <2>2, <2>3, <2>4, FlowStep DEF Zero
<1>6. CASE GenReturn /\ this.value # Nothing
  <2>1. todo # <<>> /\ task.do = "node"
    BY <1>6 DEF GenReturn, Begins, Doing
  <2>2. PICK more, tasks :
       /\ Zero(more)
       /\ Two(tasks, For("exp", this.value), For("return", this))
       /\ Step(more, 0, 0, tasks)
    BY <1>0, <1>6, GenReturnValueShape
  <2>3. NestFits(tasks)
    BY <2>1, <2>2 DEF NestFits, InExp, Waiting, Awaiting, Results, Two, For, Task, Turned
  <2>4. JumpFits(more, 0, tasks)
    BY <2>1, <2>2, TaskFlow DEF JumpFits, JumpTasks, Jumps, Two, Zero, For, Task, Turned
  <2> QED
    BY <2>1, <2>2, <2>3, <2>4, FlowStep DEF Zero
<1>7. CASE GenReturn /\ this.value = Nothing
  <2>1. todo # <<>> /\ task.do = "node"
    BY <1>7 DEF GenReturn, Begins, Doing
  <2>2. PICK more, tasks :
       /\ One(more, Quad("RET", 0, 0, 0))
       /\ Zero(tasks)
       /\ Step(more, 0, 0, tasks)
    BY <1>0, <1>7, GenReturnShape
  <2>3. NestFits(tasks)
    BY <2>1, <2>2 DEF NestFits, Zero
  <2>4. JumpFits(more, 0, tasks)
    BY <2>1, <2>2, TaskFlow DEF JumpFits, JumpTasks, Jumps, One, Zero, Quad
  <2> QED
    BY <2>1, <2>2, <2>3, <2>4, FlowStep DEF One
<1>8. CASE ReturnEnds
  <2>1. todo # <<>> /\ task.do = "return"
    BY <1>8 DEF ReturnEnds, Begins, Doing
  <2>2. PICK more, tasks :
       /\ One(more, Quad("RET", 1, value, 0))
       /\ Zero(tasks)
       /\ Step(more, 0, 0, tasks)
    BY <1>0, <1>8, ReturnEndsShape
  <2>3. NestFits(tasks)
    BY <2>1, <2>2 DEF NestFits, Zero
  <2>4. JumpFits(more, 0, tasks)
    BY <2>1, <2>2, TaskFlow DEF JumpFits, JumpTasks, Jumps, One, Zero, Quad
  <2> QED
    BY <2>1, <2>2, <2>3, <2>4, FlowStep DEF One
<1>9. CASE GenIf
  <2>1. todo # <<>> /\ task.do = "node"
    BY <1>9 DEF GenIf, Begins, Doing
  <2>2. PICK more, tasks :
       /\ Zero(more)
       /\ Two(tasks, For("exp", this.condition), For("if", this))
       /\ Step(more, 0, 0, tasks)
    BY <1>0, <1>9, GenIfShape
  <2>3. NestFits(tasks)
    BY <2>1, <2>2 DEF NestFits, InExp, Waiting, Awaiting, Results, Two, For, Task, Turned
  <2>4. JumpFits(more, 0, tasks)
    BY <2>1, <2>2, TaskFlow DEF JumpFits, JumpTasks, Jumps, Two, Zero, For, Task, Turned
  <2> QED
    BY <2>1, <2>2, <2>3, <2>4, FlowStep DEF Zero
<1>10. CASE IfCondition
  <2>1. todo # <<>> /\ task.do = "if"
    BY <1>10 DEF IfCondition, Begins, Doing
  <2>2. PICK more, tasks :
       /\ One(more, Quad("JZ", 0, value, 0))
       /\ Two(tasks, For("node", this.then),
              Turned("then", task.target, task.left, Len(routine.quads) + 1, task.k))
       /\ Step(more, 0, 0, tasks)
    BY <1>0, <1>10, IfConditionShape
  <2>3. NestFits(tasks)
    BY <2>1, <2>2 DEF NestFits, InExp, Waiting, Awaiting, Results, Two, For, Task, Turned
  <2>4. JumpFits(more, 0, tasks)
    BY <2>1, <2>2, TaskFlow DEF JumpFits, JumpTasks, Jumps, One, Two, Quad, For, Task, Turned
  <2> QED
    BY <2>1, <2>2, <2>3, <2>4, FlowStep DEF One
<1>11. CASE ThenEnds /\ this.else = Nothing
  <2>1. todo # <<>> /\ task.do = "then"
    BY <1>11 DEF ThenEnds, Begins, Doing
  <2>2. PICK more, tasks :
       /\ One(more, LabelQuad(Len(routine.quads)))
       /\ Zero(tasks)
       /\ Step(more, task.at, 0, tasks)
    <3>1. task.at \in DOMAIN routine.quads
      BY <2>1, TaskFlow DEF JumpTasks
    <3> QED
      BY <1>0, <1>11, <3>1, ThenEndsShape
  <2>3. NestFits(tasks)
    BY <2>1, <2>2 DEF NestFits, Zero
  <2>4. JumpFits(more, task.at, tasks)
    BY <2>1, <2>2, TaskFlow DEF JumpFits, JumpTasks, Jumps, One, Zero, Quad, LabelQuad
  <2> QED
    BY <2>1, <2>2, <2>3, <2>4, FlowStep DEF One
<1>12. CASE ThenEnds /\ this.else # Nothing
  <2>1. todo # <<>> /\ task.do = "then"
    BY <1>12 DEF ThenEnds, Begins, Doing
  <2>2. PICK more, tasks :
       /\ Two(more, Quad("JMP", 0, 0, 0), LabelQuad(Len(routine.quads) + 1))
       /\ Two(tasks, For("node", this.else),
              Turned("else", task.target, task.left, Len(routine.quads) + 1, task.k))
       /\ Step(more, task.at, 0, tasks)
    <3>1. task.at \in DOMAIN routine.quads
      BY <2>1, TaskFlow DEF JumpTasks
    <3> QED
      BY <1>0, <1>12, <3>1, ThenEndsElseShape
  <2>3. NestFits(tasks)
    BY <2>1, <2>2 DEF NestFits, InExp, Waiting, Awaiting, Results, Two, For, Task, Turned
  <2>4. JumpFits(more, task.at, tasks)
    BY <2>1, <2>2, TaskFlow DEF JumpFits, JumpTasks, Jumps, Two, Quad, LabelQuad, For, Task, Turned
  <2> QED
    BY <2>1, <2>2, <2>3, <2>4, FlowStep DEF Two
<1>13. CASE ElseEnds
  <2>1. todo # <<>> /\ task.do = "else"
    BY <1>13 DEF ElseEnds, Begins, Doing
  <2>2. PICK more, tasks :
       /\ One(more, LabelQuad(Len(routine.quads)))
       /\ Zero(tasks)
       /\ Step(more, task.at, 0, tasks)
    <3>1. task.at \in DOMAIN routine.quads
      BY <2>1, TaskFlow DEF JumpTasks
    <3> QED
      BY <1>0, <1>13, <3>1, ElseEndsShape
  <2>3. NestFits(tasks)
    BY <2>1, <2>2 DEF NestFits, Zero
  <2>4. JumpFits(more, task.at, tasks)
    BY <2>1, <2>2, TaskFlow DEF JumpFits, JumpTasks, Jumps, One, Zero, Quad, LabelQuad
  <2> QED
    BY <2>1, <2>2, <2>3, <2>4, FlowStep DEF One
<1>14. CASE GenWhile
  <2>1. todo # <<>> /\ task.do = "node"
    BY <1>14 DEF GenWhile, Begins, Doing
  <2>2. PICK more, tasks :
       /\ One(more, LabelQuad(Len(routine.quads)))
       /\ Two(tasks, For("exp", this.condition),
              [For("while", this) EXCEPT !.top = Len(routine.quads)])
       /\ Step(more, 0, 0, tasks)
    BY <1>0, <1>14, GenWhileShape
  <2>3. NestFits(tasks)
    BY <2>1, <2>2 DEF NestFits, InExp, Waiting, Awaiting, Results, Two, For, Task, Turned
  <2>4. JumpFits(more, 0, tasks)
    BY <2>1, <2>2, TaskFlow
       DEF JumpFits, JumpTasks, Jumps, One, Two, Quad, LabelQuad, For, Task, Turned
  <2> QED
    BY <2>1, <2>2, <2>3, <2>4, FlowStep DEF One
<1>15. CASE WhileCondition
  <2>1. todo # <<>> /\ task.do = "while"
    BY <1>15 DEF WhileCondition, Begins, Doing
  <2>2. PICK more, tasks :
       /\ One(more, Quad("JZ", 0, value, 0))
       /\ Two(tasks, For("node", this.body),
              Turned("loop", task.target, task.left, Len(routine.quads) + 1, task.k))
       /\ Step(more, 0, 0, tasks)
    BY <1>0, <1>15, WhileConditionShape
  <2>3. NestFits(tasks)
    BY <2>1, <2>2 DEF NestFits, InExp, Waiting, Awaiting, Results, Two, For, Task, Turned
  <2>4. JumpFits(more, 0, tasks)
    BY <2>1, <2>2, TaskFlow DEF JumpFits, JumpTasks, Jumps, One, Two, Quad, For, Task, Turned
  <2> QED
    BY <2>1, <2>2, <2>3, <2>4, FlowStep DEF One
<1>16. CASE LoopEnds
  <2>1. todo # <<>> /\ task.do = "loop"
    BY <1>16 DEF LoopEnds, Begins, Doing
  <2>2. PICK more, tasks :
       /\ Two(more, Quad("JMP", task.top, 0, 0), LabelQuad(Len(routine.quads) + 1))
       /\ Zero(tasks)
       /\ Step(more, task.at, 0, tasks)
    <3>1. task.at \in DOMAIN routine.quads
      BY <2>1, TaskFlow DEF JumpTasks
    <3> QED
      BY <1>0, <1>16, <3>1, LoopEndsShape
  <2>3. NestFits(tasks)
    BY <2>1, <2>2 DEF NestFits, Zero
  <2>4. JumpFits(more, task.at, tasks)
    BY <2>1, <2>2, TaskFlow DEF JumpFits, JumpTasks, Jumps, Two, Zero, Quad, LabelQuad
  <2> QED
    BY <2>1, <2>2, <2>3, <2>4, FlowStep DEF Two
<1>17. CASE GenStmt
  <2>1. todo # <<>> /\ task.do = "stmts"
    BY <1>17 DEF GenStmt, Begins, Doing
  <2>2. PICK more, tasks :
       /\ Zero(more)
       /\ Two(tasks, For("node", this.stmts[task.k + 1]),
              Turned(task.do, task.target, task.left, task.at, task.k + 1))
       /\ Step(more, 0, 0, tasks)
    BY <1>0, <1>17, GenStmtShape
  <2>3. NestFits(tasks)
    BY <2>1, <2>2 DEF NestFits, InExp, Waiting, Awaiting, Results, Two, For, Task, Turned
  <2>4. JumpFits(more, 0, tasks)
    BY <2>1, <2>2, TaskFlow DEF JumpFits, JumpTasks, Jumps, Two, Zero, For, Task, Turned
  <2> QED
    BY <2>1, <2>2, <2>3, <2>4, FlowStep DEF Zero
<1>18. CASE ParamsEnd
  <2>1. todo # <<>> /\ task.do = "params"
    BY <1>18 DEF ParamsEnd, Begins, Doing
  <2>2. PICK more, tasks :
       /\ Zero(more)
       /\ Two(tasks, For("node", this.body),
              Turned("leave", task.target, task.left, task.at, task.k))
       /\ Step(more, 0, 0, tasks)
    BY <1>0, <1>18, ParamsEndShape
  <2>3. NestFits(tasks)
    BY <2>1, <2>2 DEF NestFits, InExp, Waiting, Awaiting, Results, Two, For, Task, Turned
  <2>4. JumpFits(more, 0, tasks)
    BY <2>1, <2>2, TaskFlow DEF JumpFits, JumpTasks, Jumps, Two, Zero, For, Task, Turned
  <2> QED
    BY <2>1, <2>2, <2>3, <2>4, FlowStep DEF Zero
<1>19. CASE GenDecl /\ this.init = Nothing
  <2>1. todo # <<>> /\ task.do \in {"node"}
    BY <1>19 DEF GenDecl, Begins, Doing
  <2>2. PICK more, tasks : Zero(more) /\ Zero(tasks) /\ Step(more, 0, 1, tasks)
    BY <1>0, <1>19, GenDeclShape
  <2>3. NestFits(tasks) /\ JumpFits(more, 0, tasks)
    BY <2>1, <2>2, TaskFlow DEF NestFits, JumpFits, JumpTasks, Zero
  <2> QED
    BY <2>1, <2>2, <2>3, FlowStep DEF Zero
<1>20. CASE DeclEnds
  <2>1. todo # <<>> /\ task.do \in {"decl"}
    BY <1>20 DEF DeclEnds, Begins, Doing
  <2>2. PICK more, tasks : Zero(more) /\ Zero(tasks) /\ Step(more, 0, 0, tasks)
    BY <1>0, <1>20, DeclEndsShape
  <2>3. NestFits(tasks) /\ JumpFits(more, 0, tasks)
    BY <2>1, <2>2, TaskFlow DEF NestFits, JumpFits, JumpTasks, Zero
  <2> QED
    BY <2>1, <2>2, <2>3, FlowStep DEF Zero
<1>21. CASE ScopeEnds
  <2>1. todo # <<>> /\ task.do \in {"stmts", "leave"}
    BY <1>21 DEF ScopeEnds, Begins, Doing
  <2>2. PICK more, tasks : Zero(more) /\ Zero(tasks) /\ Step(more, 0, 0, tasks)
    BY <1>0, <1>21, ScopeEndsShape
  <2>3. NestFits(tasks) /\ JumpFits(more, 0, tasks)
    BY <2>1, <2>2, TaskFlow DEF NestFits, JumpFits, JumpTasks, Zero
  <2> QED
    BY <2>1, <2>2, <2>3, FlowStep DEF Zero
<1>22. CASE ScopeBegins
  <2>1. todo # <<>>
    BY <1>22 DEF ScopeBegins, Begins, Doing
  <2>2. PICK do : /\ <<task.do, do>> \in {<<"node", "stmts">>, <<"function", "params">>}
                  /\ \E more, tasks : /\ Zero(more) /\ One(tasks, For(do, this))
                                      /\ Step(more, 0, 0, tasks)
    BY <1>0, <1>22, ScopeBeginsShape
  <2>3. PICK more, tasks : /\ Zero(more) /\ One(tasks, For(do, this))
                           /\ Step(more, 0, 0, tasks)
    BY <2>2
  <2>4. routines' = routines
    BY <1>22 DEF ScopeBegins
  <2>5. NestFits(tasks)
    <3>1. do = "params" => routine.quads = <<>> /\ routine.temp_count = routine.param_count
      BY <2>1, <2>2, TaskFlow
    <3> QED
      BY <2>2, <2>3, <2>4, <3>1 DEF NestFits, InExp, Results, One, For, Task, routine
  <2>6. JumpFits(more, 0, tasks)
    BY <2>1, <2>2, <2>3, TaskFlow DEF JumpFits, JumpTasks, Zero, One, For, Task
  <2> QED
    BY <2>1, <2>3, <2>5, <2>6, FlowStep DEF Zero
<1>23. CASE AddParam
  <2>1. todo # <<>> /\ task.do = "params"
    BY <1>23 DEF AddParam, ParamIn, Doing
  <2>2. PICK more, tasks :
          /\ Zero(more)
          /\ One(tasks, Turned("params", task.target, task.left, task.at, task.k + 1))
          /\ Step(more, 0, 1, tasks)
    BY <1>0, <1>23, AddParamShape
  <2>3. NestFits(tasks)
    <3> DEFINE new == routines'[task.routine]
    <3>1. /\ IsRoutine(new) /\ Len(new.quads) = Len(routine.quads)
          /\ new.temp_count = routine.temp_count + 1
          /\ new.param_count = routine.param_count + 1
      BY <2>1, <2>2, <1>0, TaskFacts DEF Step, Wrote, Grown, Kept, Zero
    <3>2. routine.quads = <<>> /\ routine.temp_count = routine.param_count
      BY <2>1, TaskFlow
    <3>3. new.quads = <<>> /\ new.temp_count = new.param_count
      BY <3>1, <3>2, ShortSeqs, SeqFacts DEF IsRoutine
    <3> QED
      BY <2>1, <2>2, <3>3 DEF NestFits, InExp, Results, One, Turned
  <2>4. JumpFits(more, 0, tasks)
    BY <2>1, <2>2, TaskFlow DEF JumpFits, JumpTasks, Zero, One, Turned
  <2> QED
    BY <2>1, <2>2, <2>3, <2>4, FlowStep DEF Zero
<1>24. CASE GenFunction
  <2> DEFINE n == Len(routines) + 1
             a == Task(n, "function", this)
  <2>1. todo # <<>> /\ task.do = "node"
    BY <1>24 DEF GenFunction, Begins, Doing
  <2>2. n \in DOMAIN routines' /\ n \notin DOMAIN routines
    BY <1>0, <1>24, GenFunctionShape
  <2>3. PICK more, tasks : /\ Zero(more) /\ (Zero(tasks) \/ One(tasks, a))
                           /\ Step(more, 0, 0, tasks)
    BY <1>0, <1>24, GenFunctionShape
  <2>4. routines'[n].quads = <<>> /\ routines'[n].temp_count = routines'[n].param_count
    BY <2>2, <2>3 DEF Step, Wrote
  <2>5. NestFits(tasks)
    BY <2>1, <2>3, <2>4 DEF NestFits, InExp, Results, Zero, One, Task
  <2>6. JumpFits(more, 0, tasks)
    BY <2>1, <2>3, TaskFlow DEF JumpFits, JumpTasks, Zero, One, Task
  <2> QED
    BY <2>1, <2>3, <2>5, <2>6, FlowStep DEF Zero
<1> QED
  BY <1>1, <1>2, <1>3, <1>4, <1>5, <1>6, <1>7, <1>8, <1>9, <1>10, <1>11, <1>12, <1>13, <1>14,
     <1>15, <1>16, <1>17, <1>18, <1>19, <1>20, <1>21, <1>22, <1>23, <1>24
     DEF GenNode

\* gen_ir of the whole AST
LEMMA StartShape ==
  ASSUME gen_ir
  PROVE  /\ \E rt : /\ One(routines', rt) /\ IsRoutine(rt) /\ rt.quads = <<>>
                    /\ rt.temp_count = 0 /\ rt.param_count = 0
         /\ One(todo', Task(1, "node", block_node(program)))
         /\ One(sym', Sym!NoSymbols)
<1> DEFINE rt == Routine("@top_level")
<1>1. IsRoutine(rt) /\ rt.quads = <<>> /\ rt.temp_count = 0 /\ rt.param_count = 0
  BY ShortSeqs DEF IsRoutine, Routine
<1> DEFINE a == Task(1, "node", block_node(program))
           n == Sym!NoSymbols
<1>2. routines' = <<rt>> /\ todo' = <<a>> /\ sym' = <<n>>
  BY DEF gen_ir
<1> HIDE DEF rt, a, n
<1>3. One(routines', rt) /\ One(todo', a) /\ One(sym', n)
  BY <1>2, Tuples
<1> QED
  BY <1>1, <1>3 DEF a, n

LEMMA FlowStarts ==
  ASSUME gen_ir
  PROVE  FlowInv'
<1>1. PICK rt : /\ One(routines', rt) /\ IsRoutine(rt) /\ rt.quads = <<>>
                /\ rt.temp_count = 0 /\ rt.param_count = 0
  BY StartShape
<1> DEFINE a == Task(1, "node", block_node(program))
<1>2. One(todo', a) /\ One(sym', Sym!NoSymbols)
  BY StartShape
<1>3. IsTask(a, {1}) /\ a.do = "node" /\ a.at = 0
  BY DEF IsTask, Task
<1> HIDE DEF a
<1>4. TypeInv'
  <2>1. IsSeq(sym') /\ sym' # <<>>
    BY <1>2, SeqFacts DEF One
  <2> QED
    BY <1>1, <1>2, <1>3, <2>1 DEF TypeInv, AreTasks, One
<1>5. Nested' /\ ParamsInv'
  BY <1>2, <1>3 DEF Nested, ParamsInv, One
<1>6. JumpInv'
  <2>1. JumpsLandOnLabels'
    BY <1>1, ShortSeqs DEF JumpsLandOnLabels, One
  <2> QED
    BY <1>2, <1>3, <2>1 DEF JumpInv, JumpTasks, One
<1> QED
  BY <1>4, <1>5, <1>6 DEF FlowInv

LEMMA FlowInits ==
  ASSUME GenInit
  PROVE  FlowInv
<1>1. routines = <<>> /\ todo = <<>> /\ One(sym, Sym!NoSymbols)
  BY Tuples DEF GenInit
<1>2. Zero(routines) /\ Zero(todo)
  BY <1>1, Tuples
<1>3. sym # <<>>
  BY <1>1, SeqFacts DEF One
<1> QED
  BY <1>1, <1>2, <1>3
     DEF FlowInv, TypeInv, AreTasks, Nested, ParamsInv, JumpInv, JumpsLandOnLabels, Zero, One

LEMMA FlowNext ==
  ASSUME FlowInv, [GenNext]_<<program, gen>>
  PROVE  FlowInv'
<1>1. CASE GenNext
  BY <1>1, FlowStarts, ExpFlow, NodeFlow DEF GenNext
<1>2. CASE UNCHANGED <<program, gen>>
  BY <1>2 DEF gen, FlowInv, TypeInv, Nested, ParamsInv, JumpInv, JumpsLandOnLabels
<1> QED
  BY <1>1, <1>2

\* Whatever AST the generator gets, jumps lead to labels, but for those that it
\* is still going to patch (make_label and jump->target in ir.cpp).
THEOREM Jumping == GenSpec => []JumpsLandOnLabels
<1>1. GenInit => FlowInv
  BY FlowInits
<1>2. FlowInv /\ [GenNext]_<<program, gen>> => FlowInv'
  BY FlowNext
<1>3. FlowInv => JumpsLandOnLabels
  BY DEF FlowInv, JumpInv
<1> QED
  BY <1>1, <1>2, <1>3, PTL DEF GenSpec

-----------------------------------------------------------------------------
(* Temps *)

OwnTemps(rt) == 0 .. rt.temp_count - 1

\* e stands for a function, or for a temp of a routine.
Sound(e, rts) ==
  \/ e.routine = 0 /\ e.operand + 1 \in DOMAIN rts
  \/ e.routine \in DOMAIN rts /\ e.operand \in OwnTemps(rts[e.routine])

TempInv ==
  /\ \A i \in DOMAIN todo : LET t   == todo[i]
                                own == OwnTemps(routines[t.routine])
                            IN
       /\ i = 1 /\ t.do \in Awaiting => value \in own
       /\ t.do \in Results \cup {"assign"} => t.target \in own
       /\ t.do = "right" => t.left \in own
  /\ \A e : InTable(sym, e) => Sound(e, routines)
  /\ TempsOfRoutine

\* A step that keeps it
TempFits(tasks) ==
  LET own == OwnTemps(routines'[task.routine]) IN
  /\ \A i \in DOMAIN tasks : LET t == tasks[i] IN
       /\ i = 1 => t.do \notin Awaiting
       /\ t.do \in Results \cup {"assign"} => t.routine = task.routine /\ t.target \in own
       /\ t.do = "right" => t.left \in own
  /\ task.do \in InExp /\ DOMAIN tasks = {} => value' \in own
  /\ \A e : InTable(sym', e) => InTable(sym, e) \/ Sound(e, routines')

QuadsOwn(more) ==
  LET own == OwnTemps(routines'[task.routine]) IN
  \A n \in DOMAIN more :
    /\ Reads(more[n]) \subseteq own /\ Writes(more[n]) \subseteq own
    /\ more[n].op = "CALL" => more[n].left + 1 \in DOMAIN routines'

\* The quad that is patched is a jump.
LEMMA Patched ==
  ASSUME FlowInv, todo # <<>>
  PROVE  \A n \in DOMAIN routine.quads : n = task.at => routine.quads[n].op \in Jumps
<1>1. /\ task = todo[1] /\ 1 \in DOMAIN todo
      /\ routine = routines[task.routine] /\ 0 \notin DOMAIN routine.quads
  BY TaskFacts DEF FlowInv, routine
<1>2. task.do \in JumpTasks \/ task.at = 0
  BY <1>1 DEF FlowInv, JumpInv
<1>3. task.do \in JumpTasks => routine.quads[task.at].op \in Jumps
  BY <1>1 DEF FlowInv, JumpInv
<1> QED
  BY <1>1, <1>2, <1>3

\* Patching a jump changes none of the temps that it reads or writes.
LEMMA TempsStay ==
  ASSUME FlowInv, todo # <<>>, NEW more, IsSeq(more), NEW made, NEW tasks,
         Step(more, task.at, made, tasks),
         NEW r \in DOMAIN routines, NEW n \in DOMAIN routines[r].quads
  PROVE  LET q == routines[r].quads[n]
             p == routines'[r].quads[n]
         IN  /\ n \in DOMAIN routines'[r].quads
             /\ Reads(p) = Reads(q) /\ Writes(p) = Writes(q)
             /\ p.op = q.op /\ p.left = q.left
             /\ q.op \notin Jumps => p = q
<1> DEFINE q == routines[r].quads[n]
           p == routines'[r].quads[n]
<1>0. TypeInv
  BY DEF FlowInv
<1>1. n \in DOMAIN routines'[r].quads /\ p.op = q.op /\ p.left = q.left
  BY <1>0, QuadsStay
<1>2. CASE r # task.routine \/ n # task.at
  <2>1. p = q
    BY <1>0, <1>2, QuadsStay
  <2> QED
    BY <1>1, <2>1
<1>3. CASE r = task.routine /\ n = task.at
  <2>1. q.op \in Jumps
    BY <1>3, Patched DEF routine
  <2> HIDE DEF p, q
  <2>2. Reads(p) = Reads(q) /\ Writes(p) = Writes(q)
    BY <1>1, <2>1 DEF Reads, Writes, Jumps
  <2> QED
    BY <1>1, <2>1, <2>2 DEF p, q
<1> QED
  BY <1>2, <1>3

\* How many temps there are after a step
LEMMA TempCounts ==
  ASSUME TypeInv, todo # <<>>, NEW more, NEW at, NEW made \in Nat, NEW tasks,
         Step(more, at, made, tasks)
  PROVE  /\ \A r \in DOMAIN routines :
              /\ r \in DOMAIN routines'
              /\ OwnTemps(routines[r]) \subseteq OwnTemps(routines'[r])
              /\ routines[r].param_count <= routines[r].temp_count =>
                   routines'[r].param_count <= routines'[r].temp_count
         /\ \A e : Sound(e, routines) => Sound(e, routines')
         /\ \A x \in OwnTemps(routine) : x \in OwnTemps(routines'[task.routine])
         /\ made = 1 => NextTemp(routine) \in OwnTemps(routines'[task.routine])
<1> DEFINE new == routines'[task.routine]
<1>1. /\ task.routine \in DOMAIN routines /\ routine = routines[task.routine]
      /\ routine.temp_count \in Nat /\ routine.param_count \in Nat
  BY TaskFacts DEF routine
<1>2. /\ new.temp_count = routine.temp_count + made
      /\ new.param_count = routine.param_count + (IF task.do = "params" THEN made ELSE 0)
      /\ \A r \in DOMAIN routines : r # task.routine => routines'[r] = routines[r]
      /\ DOMAIN routines \subseteq DOMAIN routines'
  BY DEF Step, Wrote, Grown, Kept
<1>3. OwnTemps(routine) \subseteq OwnTemps(new)
  <2> HIDE DEF new
  <2> QED
    BY <1>1, <1>2 DEF OwnTemps
<1>4. routine.param_count <= routine.temp_count => new.param_count <= new.temp_count
  <2> HIDE DEF new
  <2> QED
    BY <1>1, <1>2
<1>5. made = 1 => NextTemp(routine) \in OwnTemps(new)
  <2> HIDE DEF new
  <2> QED
    BY <1>1, <1>2 DEF OwnTemps, NextTemp
<1>6. \A r \in DOMAIN routines :
        /\ r \in DOMAIN routines'
        /\ OwnTemps(routines[r]) \subseteq OwnTemps(routines'[r])
        /\ routines[r].param_count <= routines[r].temp_count =>
             routines'[r].param_count <= routines'[r].temp_count
  BY <1>1, <1>2, <1>3, <1>4
<1>7. \A e : Sound(e, routines) => Sound(e, routines')
  BY <1>2, <1>6 DEF Sound
<1> QED
  BY <1>3, <1>5, <1>6, <1>7

LEMMA TempKept ==
  ASSUME FlowInv, TempInv, todo # <<>>, NEW more, IsSeq(more), NEW made \in Nat, NEW tasks,
         Step(more, task.at, made, tasks), TempFits(tasks), QuadsOwn(more)
  PROVE  TempInv'
<1> DEFINE k(n) == n - Len(tasks) + 1
<1>0. TypeInv
  BY DEF FlowInv
<1>1. ASSUME NEW i \in DOMAIN todo'
      PROVE  LET t   == todo'[i]
                 own == OwnTemps(routines'[t.routine])
             IN  /\ i = 1 /\ t.do \in Awaiting => value' \in own
                 /\ t.do \in Results \cup {"assign"} => t.target \in own
                 /\ t.do = "right" => t.left \in own
  <2>1. CASE i \in DOMAIN tasks
    <3>1. todo'[i] = tasks[i]
      BY <1>0, <2>1, Places
    <3> QED
      BY <2>1, <3>1 DEF TempFits, Results
  <2>2. CASE i \notin DOMAIN tasks
    <3> DEFINE t == todo[k(i)]
    <3>1. k(i) \in DOMAIN todo /\ k(i) > 1 /\ todo'[i] = t
      BY <1>0, <2>2, Places
    <3>2. t.routine \in DOMAIN routines
      BY <1>0, <3>1 DEF TypeInv, AreTasks, IsTask
    <3>3. OwnTemps(routines[t.routine]) \subseteq OwnTemps(routines'[t.routine])
      BY <1>0, <3>2, TempCounts
    <3>4. /\ t.do \in Results \cup {"assign"} => t.target \in OwnTemps(routines[t.routine])
          /\ t.do = "right" => t.left \in OwnTemps(routines[t.routine])
      BY <3>1 DEF TempInv
    <3>5. ASSUME i = 1, t.do \in Awaiting
          PROVE  value' \in OwnTemps(routines'[t.routine])
      <4>1. task.do \in InExp /\ task.routine = t.routine
        BY <1>0, <3>1, <3>5, TaskFacts DEF FlowInv, Nested
      <4>2. DOMAIN tasks = {}
        <5>1. Len(tasks) \in Nat /\ DOMAIN tasks = 1 .. Len(tasks)
          BY <1>0, Places
        <5> QED
          BY <2>2, <3>5, <5>1
      <4> QED
        BY <4>1, <4>2 DEF TempFits
    <3> QED
      BY <3>1, <3>3, <3>4, <3>5
  <2> QED
    BY <2>1, <2>2
<1>2. \A e : InTable(sym', e) => Sound(e, routines')
  BY <1>0, TempCounts DEF TempFits, TempInv
<1>3. ASSUME NEW r \in DOMAIN routines'
      PROVE  routines'[r].param_count <= routines'[r].temp_count
  <2>1. CASE r \in DOMAIN routines
    BY <1>0, <2>1, TempCounts DEF TempInv, TempsOfRoutine
  <2>2. CASE r \notin DOMAIN routines
    BY <2>2 DEF Step, Wrote
  <2> QED
    BY <2>1, <2>2
<1>4. ASSUME NEW r \in DOMAIN routines', NEW n \in DOMAIN routines'[r].quads
      PROVE  LET p   == routines'[r].quads[n]
                 own == OwnTemps(routines'[r])
             IN  /\ Reads(p) \subseteq own /\ Writes(p) \subseteq own
                 /\ p.op = "CALL" => p.left + 1 \in DOMAIN routines'
  <2> DEFINE p == routines'[r].quads[n]
             q == routines[r].quads[n]
  <2>1. CASE r \in DOMAIN routines /\ n \in DOMAIN routines[r].quads
    <3>1. Reads(p) = Reads(q) /\ Writes(p) = Writes(q) /\ p.op = q.op /\ p.left = q.left
      BY <2>1, TempsStay
    <3>2. /\ Reads(q) \subseteq OwnTemps(routines[r]) /\ Writes(q) \subseteq OwnTemps(routines[r])
          /\ q.op = "CALL" => q.left + 1 \in DOMAIN routines
      BY <2>1 DEF TempInv, TempsOfRoutine, OwnTemps
    <3>3. /\ OwnTemps(routines[r]) \subseteq OwnTemps(routines'[r])
          /\ DOMAIN routines \subseteq DOMAIN routines'
      BY <1>0, <2>1, TempCounts DEF Step, Wrote
    <3> HIDE DEF p, q
    <3> QED
      BY <3>1, <3>2, <3>3 DEF p
  <2>2. CASE ~(r \in DOMAIN routines /\ n \in DOMAIN routines[r].quads)
    <3> DEFINE m == n - Len(routine.quads)
    <3>1. r = task.routine /\ m \in 1 .. Len(more) /\ n \in Nat
      BY <1>0, <2>2, QuadsStay
    <3>2. m \in DOMAIN more /\ Len(routine.quads) + m = n
      BY <1>0, <3>1, SeqFacts, TaskFacts
    <3> HIDE DEF m
    <3>3. p = more[m]
      BY <1>0, <3>1, <3>2, QuadsStay
    <3> QED
      BY <3>1, <3>2, <3>3 DEF QuadsOwn
  <2> QED
    BY <2>1, <2>2
<1>5. TempsOfRoutine'
  BY <1>3, <1>4 DEF TempsOfRoutine, OwnTemps
<1> QED
  BY <1>1, <1>2, <1>5 DEF TempInv

\* What a call may use
LEMMA TaskTemps ==
  ASSUME FlowInv, TempInv, todo # <<>>
  PROVE  /\ task.do \in Awaiting => value \in OwnTemps(routine)
         /\ task.do \in Results \cup {"assign"} => task.target \in OwnTemps(routine)
         /\ task.do = "right" => task.left \in OwnTemps(routine)
BY TaskFacts DEF TempInv, FlowInv, routine

LEMMA NameFacts ==
  ASSUME FlowInv, TempInv, todo # <<>>, NamesAreOwn
  PROVE  /\ Begins("exp", "VAR") =>
              /\ Sym!Lookup(this.name).operand \in OwnTemps(routine)
              /\ Sym!Lookup(this.name).routine = task.routine
              /\ InTable(sym, Sym!Lookup(this.name))
         /\ Begins("node", "ASSIGN") =>
              /\ Sym!Lookup(this.var).operand \in OwnTemps(routine)
              /\ Sym!Lookup(this.var).routine = task.routine
              /\ InTable(sym, Sym!Lookup(this.var))
         /\ Begins("exp", "CALL") => Sym!Lookup(this.func).operand + 1 \in DOMAIN routines
<1>0. TypeInv /\ task.routine \in DOMAIN routines /\ 0 \notin DOMAIN routines
  BY TaskFacts, SeqFacts DEF FlowInv, TypeInv
<1>1. ASSUME NEW name, NEW r, StandsFor(name, r)
      PROVE  /\ InTable(sym, Sym!Lookup(name)) /\ Sym!Lookup(name).routine = r
             /\ Sound(Sym!Lookup(name), routines)
  BY <1>0, <1>1, LookupFacts DEF StandsFor, TempInv
<1>2. ASSUME NEW name, StandsFor(name, task.routine)
      PROVE  /\ Sym!Lookup(name).operand \in OwnTemps(routine)
             /\ Sym!Lookup(name).routine = task.routine
             /\ InTable(sym, Sym!Lookup(name))
  BY <1>0, <1>1, <1>2 DEF Sound, routine
<1>3. ASSUME NEW name, StandsFor(name, 0)
      PROVE  Sym!Lookup(name).operand + 1 \in DOMAIN routines
  BY <1>0, <1>1, <1>3 DEF Sound
<1> QED
  BY <1>2, <1>3 DEF NamesAreOwn

LEMMA ExpTemps ==
  ASSUME FlowInv, TempInv, NamesAreOwn, GenExp
  PROVE  TempInv'
<1>0. TypeInv
  BY DEF FlowInv
<1>1. CASE GenConst
  <2> DEFINE own == OwnTemps(routines'[task.routine])
  <2>1. todo # <<>> /\ task.do = "exp"
    BY <1>1 DEF GenConst, Begins, Doing
  <2>2. PICK more, tasks :
       /\ One(more, Quad("MOV_IM", NextTemp(routine), this.value, 0))
       /\ Zero(tasks)
       /\ Step(more, 0, 1, tasks)
    BY <1>0, <1>1, GenConstShape
  <2>3. sym' = sym /\ value' = NextTemp(routine)
    BY <1>1 DEF GenConst, ReturnsTemp, Returns
  <2>4. task.at = 0
    BY <2>1, TaskFlow DEF JumpTasks
  <2>5. NextTemp(routine) \in own
    BY <1>0, <2>1, <2>2, TempCounts, TaskTemps DEF Awaiting, Results
  <2> HIDE DEF own
  <2>6. QuadsOwn(more)
    BY <2>1, <2>2, <2>3, <2>4, <2>5 DEF QuadsOwn, own, Reads, Writes, One, Quad
  <2>7. TempFits(tasks)
    BY <2>1, <2>2, <2>3, <2>4, <2>5 DEF TempFits, Awaiting, Results, InExp, Zero, own
  <2>8. IsSeq(more)
    BY <2>2 DEF One
  <2> QED
    BY <2>1, <2>2, <2>4, <2>6, <2>7, <2>8, TempKept
<1>2. CASE GenVar
  <2> DEFINE own == OwnTemps(routines'[task.routine])
  <2>1. todo # <<>> /\ task.do = "exp"
    BY <1>2 DEF GenVar, Begins, Doing
  <2>2. PICK more, tasks :
       /\ Zero(more)
       /\ Zero(tasks)
       /\ Step(more, 0, 0, tasks)
    BY <1>0, <1>2, GenVarShape
  <2>3. sym' = sym /\ value' = Sym!Lookup(this.name).operand
    BY <1>2 DEF GenVar, Returns
  <2>4. task.at = 0
    BY <2>1, TaskFlow DEF JumpTasks
  <2>5. Sym!Lookup(this.name).operand \in own
    <3>1. Begins("exp", "VAR")
      BY <1>2 DEF GenVar
    <3>2. Sym!Lookup(this.name).operand \in OwnTemps(routine)
      BY <2>1, <3>1, NameFacts
    <3> QED
      BY <1>0, <2>1, <2>2, <3>2, TempCounts
  <2> HIDE DEF own
  <2>6. QuadsOwn(more)
    BY <2>2 DEF QuadsOwn, Zero
  <2>7. TempFits(tasks)
    BY <2>1, <2>2, <2>3, <2>4, <2>5 DEF TempFits, Awaiting, Results, InExp, Zero, own
  <2>8. IsSeq(more)
    BY <2>2 DEF Zero
  <2> QED
    BY <2>1, <2>2, <2>4, <2>6, <2>7, <2>8, TempKept
<1>3. CASE GenArg
  <2> DEFINE own == OwnTemps(routines'[task.routine])
  <2>1. todo # <<>> /\ task.do = "exp"
    BY <1>3 DEF GenArg, Begins, Doing
  <2>2. PICK more, tasks :
       /\ Zero(more)
       /\ Two(tasks, For("exp", this.args[task.k + 1]),
              Turned("arg", task.target, task.left, task.at, task.k))
       /\ Step(more, 0, 0, tasks)
    BY <1>0, <1>3, GenArgShape
  <2>3. sym' = sym
    BY <1>3 DEF GenArg, Awaits
  <2>4. task.at = 0
    BY <2>1, TaskFlow DEF JumpTasks
  <2> HIDE DEF own
  <2>5. QuadsOwn(more)
    BY <2>2 DEF QuadsOwn, Zero
  <2>6. TempFits(tasks)
    BY <2>1, <2>2, <2>3, <2>4 DEF TempFits, Awaiting, Results, InExp, Two, For, Task, Turned, own
  <2>7. IsSeq(more)
    BY <2>2 DEF Zero
  <2> QED
    BY <2>1, <2>2, <2>4, <2>5, <2>6, <2>7, TempKept
<1>4. CASE ArgEnds
  <2> DEFINE own == OwnTemps(routines'[task.routine])
  <2>1. todo # <<>> /\ task.do = "arg"
    BY <1>4 DEF ArgEnds, Begins, Doing
  <2>2. PICK more, tasks :
       /\ One(more, Quad("ARG", task.k, value, 0))
       /\ One(tasks, Turned("exp", task.target, task.left, task.at, task.k + 1))
       /\ Step(more, 0, 0, tasks)
    BY <1>0, <1>4, ArgEndsShape
  <2>3. sym' = sym
    BY <1>4 DEF ArgEnds, Emits
  <2>4. task.at = 0
    BY <2>1, TaskFlow DEF JumpTasks
  <2>5. value \in own
    BY <1>0, <2>1, <2>2, TempCounts, TaskTemps DEF Awaiting, Results
  <2> HIDE DEF own
  <2>6. QuadsOwn(more)
    BY <2>1, <2>2, <2>3, <2>4, <2>5 DEF QuadsOwn, own, Reads, Writes, One, Quad
  <2>7. TempFits(tasks)
    BY <2>1, <2>2, <2>3, <2>4, <2>5
       DEF TempFits, Awaiting, Results, InExp, One, For, Task, Turned, own
  <2>8. IsSeq(more)
    BY <2>2 DEF One
  <2> QED
    BY <2>1, <2>2, <2>4, <2>6, <2>7, <2>8, TempKept
<1>5. CASE GenCall
  <2> DEFINE own == OwnTemps(routines'[task.routine])
  <2>1. todo # <<>> /\ task.do = "exp"
    BY <1>5 DEF GenCall, Begins, Doing
  <2>2. PICK more, tasks :
       /\ One(more, Quad("CALL", NextTemp(routine), Sym!Lookup(this.func).operand, 0))
       /\ Zero(tasks)
       /\ Step(more, 0, 1, tasks)
    BY <1>0, <1>5, GenCallShape
  <2>3. sym' = sym /\ value' = NextTemp(routine)
    BY <1>5 DEF GenCall, ReturnsTemp, Returns
  <2>4. task.at = 0
    BY <2>1, TaskFlow DEF JumpTasks
  <2>5. NextTemp(routine) \in own
    BY <1>0, <2>1, <2>2, TempCounts, TaskTemps DEF Awaiting, Results
  <2>6. Sym!Lookup(this.func).operand + 1 \in DOMAIN routines'
    BY <2>1, <2>2, <1>5, NameFacts DEF GenCall, Step, Wrote
  <2> HIDE DEF own
  <2>7. QuadsOwn(more)
    BY <2>1, <2>2, <2>3, <2>4, <2>5, <2>6 DEF QuadsOwn, own, Reads, Writes, One, Quad
  <2>8. TempFits(tasks)
    BY <2>1, <2>2, <2>3, <2>4, <2>5, <2>6 DEF TempFits, Awaiting, Results, InExp, Zero, own
  <2>9. IsSeq(more)
    BY <2>2 DEF One
  <2> QED
    BY <2>1, <2>2, <2>4, <2>7, <2>8, <2>9, TempKept
<1>6. CASE GenUnary
  <2> DEFINE own == OwnTemps(routines'[task.routine])
  <2>1. todo # <<>> /\ task.do = "exp"
    BY <1>6 DEF GenUnary, Begins, Doing
  <2>2. PICK more, tasks :
       /\ Zero(more)
       /\ Two(tasks, For("exp", this.operand), For("unary", this))
       /\ Step(more, 0, 0, tasks)
    BY <1>0, <1>6, GenUnaryShape
  <2>3. sym' = sym
    BY <1>6 DEF GenUnary, Awaits
  <2>4. task.at = 0
    BY <2>1, TaskFlow DEF JumpTasks
  <2> HIDE DEF own
  <2>5. QuadsOwn(more)
    BY <2>2 DEF QuadsOwn, Zero
  <2>6. TempFits(tasks)
    BY <2>1, <2>2, <2>3, <2>4 DEF TempFits, Awaiting, Results, InExp, Two, For, Task, Turned, own
  <2>7. IsSeq(more)
    BY <2>2 DEF Zero
  <2> QED
    BY <2>1, <2>2, <2>4, <2>5, <2>6, <2>7, TempKept
<1>7. CASE UnaryEnds
  <2> DEFINE own == OwnTemps(routines'[task.routine])
  <2>1. todo # <<>> /\ task.do = "unary"
    BY <1>7 DEF UnaryEnds, Begins, Doing
  <2>2. PICK more, tasks :
       /\ One(more, Quad(this.op, NextTemp(routine), value, 0))
       /\ Zero(tasks)
       /\ Step(more, 0, 1, tasks)
    BY <1>0, <1>7, UnaryEndsShape
  <2>3. sym' = sym /\ value' = NextTemp(routine)
    BY <1>7 DEF UnaryEnds, ReturnsTemp, Returns
  <2>4. task.at = 0
    BY <2>1, TaskFlow DEF JumpTasks
  <2>5. NextTemp(routine) \in own /\ value \in own
    BY <1>0, <2>1, <2>2, TempCounts, TaskTemps DEF Awaiting, Results
  <2> HIDE DEF own
  <2>6. this.op \in {"NOT", "NEG"}
    BY <1>7 DEF UnaryEnds
  <2>7. QuadsOwn(more)
    BY <2>1, <2>2, <2>3, <2>4, <2>5, <2>6 DEF QuadsOwn, own, Reads, Writes, One, Quad
  <2>8. TempFits(tasks)
    BY <2>1, <2>2, <2>3, <2>4, <2>5, <2>6 DEF TempFits, Awaiting, Results, InExp, Zero, own
  <2>9. IsSeq(more)
    BY <2>2 DEF One
  <2> QED
    BY <2>1, <2>2, <2>4, <2>7, <2>8, <2>9, TempKept
<1>8. CASE GenBinary
  <2> DEFINE own == OwnTemps(routines'[task.routine])
  <2>1. todo # <<>> /\ task.do = "exp"
    BY <1>8 DEF GenBinary, Begins, Doing
  <2>2. PICK more, tasks :
       /\ Zero(more)
       /\ Two(tasks, For("exp", this.left), [For("left", this) EXCEPT !.target = NextTemp(routine)])
       /\ Step(more, 0, 1, tasks)
    BY <1>0, <1>8, GenBinaryShape
  <2>3. sym' = sym
    BY <1>8 DEF GenBinary, Emits
  <2>4. task.at = 0
    BY <2>1, TaskFlow DEF JumpTasks
  <2>5. NextTemp(routine) \in own
    BY <1>0, <2>1, <2>2, TempCounts, TaskTemps DEF Awaiting, Results
  <2> HIDE DEF own
  <2>6. QuadsOwn(more)
    BY <2>2 DEF QuadsOwn, Zero
  <2>7. TempFits(tasks)
    BY <2>1, <2>2, <2>3, <2>4, <2>5
       DEF TempFits, Awaiting, Results, InExp, Two, For, Task, Turned, own
  <2>8. IsSeq(more)
    BY <2>2 DEF Zero
  <2> QED
    BY <2>1, <2>2, <2>4, <2>6, <2>7, <2>8, TempKept
<1>9. CASE LeftEnds
  <2> DEFINE own == OwnTemps(routines'[task.routine])
  <2>1. todo # <<>> /\ task.do = "left"
    BY <1>9 DEF LeftEnds, Begins, Doing
  <2>2. PICK more, tasks :
       /\ Zero(more)
       /\ Two(tasks, For("exp", this.right), Turned("right", task.target, value, task.at, task.k))
       /\ Step(more, 0, 0, tasks)
    BY <1>0, <1>9, LeftEndsShape
  <2>3. sym' = sym
    BY <1>9 DEF LeftEnds, Awaits
  <2>4. task.at = 0
    BY <2>1, TaskFlow DEF JumpTasks
  <2>5. task.target \in own /\ value \in own
    BY <1>0, <2>1, <2>2, TempCounts, TaskTemps DEF Awaiting, Results
  <2> HIDE DEF own
  <2>6. QuadsOwn(more)
    BY <2>2 DEF QuadsOwn, Zero
  <2>7. TempFits(tasks)
    BY <2>1, <2>2, <2>3, <2>4, <2>5
       DEF TempFits, Awaiting, Results, InExp, Two, For, Task, Turned, own
  <2>8. IsSeq(more)
    BY <2>2 DEF Zero
  <2> QED
    BY <2>1, <2>2, <2>4, <2>6, <2>7, <2>8, TempKept
<1>10. CASE BinaryEnds
  <2> DEFINE own == OwnTemps(routines'[task.routine])
  <2>1. todo # <<>> /\ task.do = "right"
    BY <1>10 DEF BinaryEnds, Begins, Doing
  <2>2. PICK more, tasks :
       /\ One(more, Quad(OpOf(this), task.target, task.left, value))
       /\ Zero(tasks)
       /\ Step(more, 0, 0, tasks)
    BY <1>0, <1>10, BinaryEndsShape
  <2>3. sym' = sym /\ value' = task.target
    BY <1>10 DEF BinaryEnds, Returns
  <2>4. task.at = 0
    BY <2>1, TaskFlow DEF JumpTasks
  <2>5. task.target \in own /\ task.left \in own /\ value \in own
    BY <1>0, <2>1, <2>2, TempCounts, TaskTemps DEF Awaiting, Results
  <2> HIDE DEF own
  <2>6. OpOf(this) \in BinaryQuads
    BY <1>10, OpOfIs DEF BinaryEnds
  <2>7. QuadsOwn(more)
    BY <2>1, <2>2, <2>3, <2>4, <2>5, <2>6 DEF QuadsOwn, own, Reads, Writes, One, Quad, BinaryQuads
  <2>8. TempFits(tasks)
    BY <2>1, <2>2, <2>3, <2>4, <2>5, <2>6 DEF TempFits, Awaiting, Results, InExp, Zero, own
  <2>9. IsSeq(more)
    BY <2>2 DEF One
  <2> QED
    BY <2>1, <2>2, <2>4, <2>7, <2>8, <2>9, TempKept
<1>11. CASE GenLogical
  <2> DEFINE own == OwnTemps(routines'[task.routine])
  <2>1. todo # <<>> /\ task.do = "left"
    BY <1>11 DEF GenLogical, SkipRight, Begins, Doing
  <2>2. PICK more, tasks :
       /\ Two(more, Quad("MOV", task.target, value, 0),
              Quad(IF this.op = "AND" THEN "JZ" ELSE "JNZ", 0, task.target, 0))
       /\ Two(tasks, For("exp", this.right),
              Turned("logical", task.target, task.left, Len(routine.quads) + 2, task.k))
       /\ Step(more, 0, 0, tasks)
    BY <1>0, <1>11, GenLogicalShape
  <2>3. sym' = sym
    BY <1>11 DEF GenLogical, SkipRight, Emits
  <2>4. task.at = 0
    BY <2>1, TaskFlow DEF JumpTasks
  <2>5. task.target \in own /\ value \in own
    BY <1>0, <2>1, <2>2, TempCounts, TaskTemps DEF Awaiting, Results
  <2> HIDE DEF own
  <2>6. QuadsOwn(more)
    BY <2>1, <2>2, <2>3, <2>4, <2>5 DEF QuadsOwn, own, Reads, Writes, Two, Quad
  <2>7. TempFits(tasks)
    BY <2>1, <2>2, <2>3, <2>4, <2>5
       DEF TempFits, Awaiting, Results, InExp, Two, For, Task, Turned, own
  <2>8. IsSeq(more)
    BY <2>2 DEF Two
  <2> QED
    BY <2>1, <2>2, <2>4, <2>6, <2>7, <2>8, TempKept
<1>12. CASE LogicalEnds
  <2> DEFINE own == OwnTemps(routines'[task.routine])
  <2>1. todo # <<>> /\ task.do = "logical"
    BY <1>12 DEF LogicalEnds, Begins, Doing
  <2>2. PICK more, tasks :
       /\ Two(more, Quad("MOV", task.target, value, 0), LabelQuad(Len(routine.quads) + 1))
       /\ Zero(tasks)
       /\ Step(more, task.at, 0, tasks)
    <3>1. task.at \in DOMAIN routine.quads
      BY <2>1, TaskFlow DEF JumpTasks
    <3> QED
      BY <1>0, <1>12, <3>1, LogicalEndsShape
  <2>3. sym' = sym /\ value' = task.target
    BY <1>12 DEF LogicalEnds, Returns
  <2>4. task.target \in own /\ value \in own
    BY <1>0, <2>1, <2>2, TempCounts, TaskTemps DEF Awaiting, Results
  <2> HIDE DEF own
  <2>5. QuadsOwn(more)
    BY <2>1, <2>2, <2>3, <2>4 DEF QuadsOwn, own, Reads, Writes, Two, Quad, LabelQuad
  <2>6. TempFits(tasks)
    BY <2>1, <2>2, <2>3, <2>4 DEF TempFits, Awaiting, Results, InExp, Zero, own
  <2>7. IsSeq(more)
    BY <2>2 DEF Two
  <2> QED
    BY <2>1, <2>2, <2>5, <2>6, <2>7, TempKept
<1> QED
  BY <1>1, <1>2, <1>3, <1>4, <1>5, <1>6, <1>7, <1>8, <1>9, <1>10, <1>11, <1>12 DEF GenExp

LEMMA NodeTemps ==
  ASSUME FlowInv, TempInv, NamesAreOwn, GenNode
  PROVE  TempInv'
<1>0. TypeInv
  BY DEF FlowInv
<1>1. CASE GenEmpty
  <2> DEFINE own == OwnTemps(routines'[task.routine])
  <2>1. todo # <<>> /\ task.do = "node"
    BY <1>1 DEF GenEmpty, Begins, Doing
  <2>2. PICK more, tasks :
       /\ Zero(more)
       /\ Zero(tasks)
       /\ Step(more, 0, 0, tasks)
    BY <1>0, <1>1, GenEmptyShape
  <2>3. sym' = sym
    BY <1>1 DEF GenEmpty, Awaits
  <2>4. task.at = 0
    BY <2>1, TaskFlow DEF JumpTasks
  <2> HIDE DEF own
  <2>5. QuadsOwn(more)
    BY <2>2 DEF QuadsOwn, Zero
  <2>6. TempFits(tasks)
    BY <2>1, <2>2, <2>3, <2>4 DEF TempFits, Awaiting, Results, InExp, Zero, own
  <2>7. IsSeq(more)
    BY <2>2 DEF Zero
  <2> QED
    BY <2>1, <2>2, <2>4, <2>5, <2>6, <2>7, TempKept
<1>2. CASE GenExpNode
  <2> DEFINE own == OwnTemps(routines'[task.routine])
  <2>1. todo # <<>> /\ task.do = "node"
    BY <1>2 DEF GenExpNode, Begins, Doing
  <2>2. PICK more, tasks :
       /\ Zero(more)
       /\ One(tasks, For("exp", this.exp))
       /\ Step(more, 0, 0, tasks)
    BY <1>0, <1>2, GenExpNodeShape
  <2>3. sym' = sym
    BY <1>2 DEF GenExpNode, Awaits
  <2>4. task.at = 0
    BY <2>1, TaskFlow DEF JumpTasks
  <2> HIDE DEF own
  <2>5. QuadsOwn(more)
    BY <2>2 DEF QuadsOwn, Zero
  <2>6. TempFits(tasks)
    BY <2>1, <2>2, <2>3, <2>4 DEF TempFits, Awaiting, Results, InExp, One, For, Task, Turned, own
  <2>7. IsSeq(more)
    BY <2>2 DEF Zero
  <2> QED
    BY <2>1, <2>2, <2>4, <2>5, <2>6, <2>7, TempKept
<1>3. CASE GenAssign
  <2> DEFINE own == OwnTemps(routines'[task.routine])
  <2>1. todo # <<>> /\ task.do = "node"
    BY <1>3 DEF GenAssign, Begins, Doing
  <2>2. PICK more, tasks :
       /\ Zero(more)
       /\ Two(tasks, For("exp", this.value),
              [For("assign", this) EXCEPT !.target = Sym!Lookup(this.var).operand])
       /\ Step(more, 0, 0, tasks)
    BY <1>0, <1>3, GenAssignShape
  <2>3. sym' = sym
    BY <1>3 DEF GenAssign, Awaits
  <2>4. task.at = 0
    BY <2>1, TaskFlow DEF JumpTasks
  <2>5. Sym!Lookup(this.var).operand \in own
    <3>1. Begins("node", "ASSIGN")
      BY <1>3 DEF GenAssign
    <3>2. Sym!Lookup(this.var).operand \in OwnTemps(routine)
      BY <2>1, <3>1, NameFacts
    <3> QED
      BY <1>0, <2>1, <2>2, <3>2, TempCounts
  <2> HIDE DEF own
  <2>6. QuadsOwn(more)
    BY <2>2 DEF QuadsOwn, Zero
  <2>7. TempFits(tasks)
    BY <2>1, <2>2, <2>3, <2>4, <2>5
       DEF TempFits, Awaiting, Results, InExp, Two, For, Task, Turned, own
  <2>8. IsSeq(more)
    BY <2>2 DEF Zero
  <2>9. Step(more, task.at, 0, tasks)
    BY <2>2, <2>4
  <2> QED
    BY <2>1, <2>6, <2>7, <2>8, <2>9, TempKept
<1>4. CASE AssignEnds
  <2> DEFINE own == OwnTemps(routines'[task.routine])
  <2>1. todo # <<>> /\ task.do = "assign"
    BY <1>4 DEF AssignEnds, Begins, Doing
  <2>2. PICK more, tasks :
       /\ One(more, Quad("MOV", task.target, value, 0))
       /\ Zero(tasks)
       /\ Step(more, 0, 0, tasks)
    BY <1>0, <1>4, AssignEndsShape
  <2>3. sym' = sym
    BY <1>4 DEF AssignEnds, Emits
  <2>4. task.at = 0
    BY <2>1, TaskFlow DEF JumpTasks
  <2>5. task.target \in own /\ value \in own
    BY <1>0, <2>1, <2>2, TempCounts, TaskTemps DEF Awaiting, Results
  <2> HIDE DEF own
  <2>6. QuadsOwn(more)
    BY <2>1, <2>2, <2>3, <2>4, <2>5 DEF QuadsOwn, own, Reads, Writes, One, Quad
  <2>7. TempFits(tasks)
    BY <2>1, <2>2, <2>3, <2>4, <2>5 DEF TempFits, Awaiting, Results, InExp, Zero, own
  <2>8. IsSeq(more)
    BY <2>2 DEF One
  <2> QED
    BY <2>1, <2>2, <2>4, <2>6, <2>7, <2>8, TempKept
<1>5. CASE GenDecl /\ this.init # Nothing
  <2> DEFINE own == OwnTemps(routines'[task.routine])
  <2>1. todo # <<>> /\ task.do = "node"
    BY <1>5 DEF GenDecl, Begins, Doing
  <2>2. PICK more, tasks :
       /\ Zero(more)
       /\ Two(tasks, For("exp", this.init), For("decl", this))
       /\ Step(more, 0, 0, tasks)
    BY <1>0, <1>5, GenDeclInitShape
  <2>3. sym' = sym
    BY <1>5 DEF GenDecl, Awaits
  <2>4. task.at = 0
    BY <2>1, TaskFlow DEF JumpTasks
  <2> HIDE DEF own
  <2>5. QuadsOwn(more)
    BY <2>2 DEF QuadsOwn, Zero
  <2>6. TempFits(tasks)
    BY <2>1, <2>2, <2>3, <2>4 DEF TempFits, Awaiting, Results, InExp, Two, For, Task, Turned, own
  <2>7. IsSeq(more)
    BY <2>2 DEF Zero
  <2> QED
    BY <2>1, <2>2, <2>4, <2>5, <2>6, <2>7, TempKept
<1>6. CASE GenReturn /\ this.value # Nothing
  <2> DEFINE own == OwnTemps(routines'[task.routine])
  <2>1. todo # <<>> /\ task.do = "node"
    BY <1>6 DEF GenReturn, Begins, Doing
  <2>2. PICK more, tasks :
       /\ Zero(more)
       /\ Two(tasks, For("exp", this.value), For("return", this))
       /\ Step(more, 0, 0, tasks)
    BY <1>0, <1>6, GenReturnValueShape
  <2>3. sym' = sym
    BY <1>6 DEF GenReturn, Awaits
  <2>4. task.at = 0
    BY <2>1, TaskFlow DEF JumpTasks
  <2> HIDE DEF own
  <2>5. QuadsOwn(more)
    BY <2>2 DEF QuadsOwn, Zero
  <2>6. TempFits(tasks)
    BY <2>1, <2>2, <2>3, <2>4 DEF TempFits, Awaiting, Results, InExp, Two, For, Task, Turned, own
  <2>7. IsSeq(more)
    BY <2>2 DEF Zero
  <2> QED
    BY <2>1, <2>2, <2>4, <2>5, <2>6, <2>7, TempKept
<1>7. CASE GenReturn /\ this.value = Nothing
  <2> DEFINE own == OwnTemps(routines'[task.routine])
  <2>1. todo # <<>> /\ task.do = "node"
    BY <1>7 DEF GenReturn, Begins, Doing
  <2>2. PICK more, tasks :
       /\ One(more, Quad("RET", 0, 0, 0))
       /\ Zero(tasks)
       /\ Step(more, 0, 0, tasks)
    BY <1>0, <1>7, GenReturnShape
  <2>3. sym' = sym
    BY <1>7 DEF GenReturn, Emits
  <2>4. task.at = 0
    BY <2>1, TaskFlow DEF JumpTasks
  <2> HIDE DEF own
  <2>5. QuadsOwn(more)
    BY <2>1, <2>2, <2>3, <2>4 DEF QuadsOwn, own, Reads, Writes, One, Quad
  <2>6. TempFits(tasks)
    BY <2>1, <2>2, <2>3, <2>4 DEF TempFits, Awaiting, Results, InExp, Zero, own
  <2>7. IsSeq(more)
    BY <2>2 DEF One
  <2> QED
    BY <2>1, <2>2, <2>4, <2>5, <2>6, <2>7, TempKept
<1>8. CASE ReturnEnds
  <2> DEFINE own == OwnTemps(routines'[task.routine])
  <2>1. todo # <<>> /\ task.do = "return"
    BY <1>8 DEF ReturnEnds, Begins, Doing
  <2>2. PICK more, tasks :
       /\ One(more, Quad("RET", 1, value, 0))
       /\ Zero(tasks)
       /\ Step(more, 0, 0, tasks)
    BY <1>0, <1>8, ReturnEndsShape
  <2>3. sym' = sym
    BY <1>8 DEF ReturnEnds, Emits
  <2>4. task.at = 0
    BY <2>1, TaskFlow DEF JumpTasks
  <2>5. value \in own
    BY <1>0, <2>1, <2>2, TempCounts, TaskTemps DEF Awaiting, Results
  <2> HIDE DEF own
  <2>6. QuadsOwn(more)
    BY <2>1, <2>2, <2>3, <2>4, <2>5 DEF QuadsOwn, own, Reads, Writes, One, Quad
  <2>7. TempFits(tasks)
    BY <2>1, <2>2, <2>3, <2>4, <2>5 DEF TempFits, Awaiting, Results, InExp, Zero, own
  <2>8. IsSeq(more)
    BY <2>2 DEF One
  <2> QED
    BY <2>1, <2>2, <2>4, <2>6, <2>7, <2>8, TempKept
<1>9. CASE GenIf
  <2> DEFINE own == OwnTemps(routines'[task.routine])
  <2>1. todo # <<>> /\ task.do = "node"
    BY <1>9 DEF GenIf, Begins, Doing
  <2>2. PICK more, tasks :
       /\ Zero(more)
       /\ Two(tasks, For("exp", this.condition), For("if", this))
       /\ Step(more, 0, 0, tasks)
    BY <1>0, <1>9, GenIfShape
  <2>3. sym' = sym
    BY <1>9 DEF GenIf, Awaits
  <2>4. task.at = 0
    BY <2>1, TaskFlow DEF JumpTasks
  <2> HIDE DEF own
  <2>5. QuadsOwn(more)
    BY <2>2 DEF QuadsOwn, Zero
  <2>6. TempFits(tasks)
    BY <2>1, <2>2, <2>3, <2>4 DEF TempFits, Awaiting, Results, InExp, Two, For, Task, Turned, own
  <2>7. IsSeq(more)
    BY <2>2 DEF Zero
  <2> QED
    BY <2>1, <2>2, <2>4, <2>5, <2>6, <2>7, TempKept
<1>10. CASE IfCondition
  <2> DEFINE own == OwnTemps(routines'[task.routine])
  <2>1. todo # <<>> /\ task.do = "if"
    BY <1>10 DEF IfCondition, Begins, Doing
  <2>2. PICK more, tasks :
       /\ One(more, Quad("JZ", 0, value, 0))
       /\ Two(tasks, For("node", this.then),
              Turned("then", task.target, task.left, Len(routine.quads) + 1, task.k))
       /\ Step(more, 0, 0, tasks)
    BY <1>0, <1>10, IfConditionShape
  <2>3. sym' = sym
    BY <1>10 DEF IfCondition, Emits
  <2>4. task.at = 0
    BY <2>1, TaskFlow DEF JumpTasks
  <2>5. value \in own
    BY <1>0, <2>1, <2>2, TempCounts, TaskTemps DEF Awaiting, Results
  <2> HIDE DEF own
  <2>6. QuadsOwn(more)
    BY <2>1, <2>2, <2>3, <2>4, <2>5 DEF QuadsOwn, own, Reads, Writes, One, Quad
  <2>7. TempFits(tasks)
    BY <2>1, <2>2, <2>3, <2>4, <2>5
       DEF TempFits, Awaiting, Results, InExp, Two, For, Task, Turned, own
  <2>8. IsSeq(more)
    BY <2>2 DEF One
  <2> QED
    BY <2>1, <2>2, <2>4, <2>6, <2>7, <2>8, TempKept
<1>11. CASE ThenEnds /\ this.else = Nothing
  <2> DEFINE own == OwnTemps(routines'[task.routine])
  <2>1. todo # <<>> /\ task.do = "then"
    BY <1>11 DEF ThenEnds, Begins, Doing
  <2>2. PICK more, tasks :
       /\ One(more, LabelQuad(Len(routine.quads)))
       /\ Zero(tasks)
       /\ Step(more, task.at, 0, tasks)
    <3>1. task.at \in DOMAIN routine.quads
      BY <2>1, TaskFlow DEF JumpTasks
    <3> QED
      BY <1>0, <1>11, <3>1, ThenEndsShape
  <2>3. sym' = sym
    BY <1>11 DEF ThenEnds, Emits
  <2> HIDE DEF own
  <2>4. QuadsOwn(more)
    BY <2>1, <2>2, <2>3 DEF QuadsOwn, own, Reads, Writes, One, Quad, LabelQuad
  <2>5. TempFits(tasks)
    BY <2>1, <2>2, <2>3 DEF TempFits, Awaiting, Results, InExp, Zero, own
  <2>6. IsSeq(more)
    BY <2>2 DEF One
  <2> QED
    BY <2>1, <2>2, <2>4, <2>5, <2>6, TempKept
<1>12. CASE ThenEnds /\ this.else # Nothing
  <2> DEFINE own == OwnTemps(routines'[task.routine])
  <2>1. todo # <<>> /\ task.do = "then"
    BY <1>12 DEF ThenEnds, Begins, Doing
  <2>2. PICK more, tasks :
       /\ Two(more, Quad("JMP", 0, 0, 0), LabelQuad(Len(routine.quads) + 1))
       /\ Two(tasks, For("node", this.else),
              Turned("else", task.target, task.left, Len(routine.quads) + 1, task.k))
       /\ Step(more, task.at, 0, tasks)
    <3>1. task.at \in DOMAIN routine.quads
      BY <2>1, TaskFlow DEF JumpTasks
    <3> QED
      BY <1>0, <1>12, <3>1, ThenEndsElseShape
  <2>3. sym' = sym
    BY <1>12 DEF ThenEnds, Emits
  <2> HIDE DEF own
  <2>4. QuadsOwn(more)
    BY <2>1, <2>2, <2>3 DEF QuadsOwn, own, Reads, Writes, Two, Quad, LabelQuad
  <2>5. TempFits(tasks)
    BY <2>1, <2>2, <2>3 DEF TempFits, Awaiting, Results, InExp, Two, For, Task, Turned, own
  <2>6. IsSeq(more)
    BY <2>2 DEF Two
  <2> QED
    BY <2>1, <2>2, <2>4, <2>5, <2>6, TempKept
<1>13. CASE ElseEnds
  <2> DEFINE own == OwnTemps(routines'[task.routine])
  <2>1. todo # <<>> /\ task.do = "else"
    BY <1>13 DEF ElseEnds, Begins, Doing
  <2>2. PICK more, tasks :
       /\ One(more, LabelQuad(Len(routine.quads)))
       /\ Zero(tasks)
       /\ Step(more, task.at, 0, tasks)
    <3>1. task.at \in DOMAIN routine.quads
      BY <2>1, TaskFlow DEF JumpTasks
    <3> QED
      BY <1>0, <1>13, <3>1, ElseEndsShape
  <2>3. sym' = sym
    BY <1>13 DEF ElseEnds, Emits
  <2> HIDE DEF own
  <2>4. QuadsOwn(more)
    BY <2>1, <2>2, <2>3 DEF QuadsOwn, own, Reads, Writes, One, Quad, LabelQuad
  <2>5. TempFits(tasks)
    BY <2>1, <2>2, <2>3 DEF TempFits, Awaiting, Results, InExp, Zero, own
  <2>6. IsSeq(more)
    BY <2>2 DEF One
  <2> QED
    BY <2>1, <2>2, <2>4, <2>5, <2>6, TempKept
<1>14. CASE GenWhile
  <2> DEFINE own == OwnTemps(routines'[task.routine])
  <2>1. todo # <<>> /\ task.do = "node"
    BY <1>14 DEF GenWhile, Begins, Doing
  <2>2. PICK more, tasks :
       /\ One(more, LabelQuad(Len(routine.quads)))
       /\ Two(tasks, For("exp", this.condition),
              [For("while", this) EXCEPT !.top = Len(routine.quads)])
       /\ Step(more, 0, 0, tasks)
    BY <1>0, <1>14, GenWhileShape
  <2>3. sym' = sym
    BY <1>14 DEF GenWhile, Emits
  <2>4. task.at = 0
    BY <2>1, TaskFlow DEF JumpTasks
  <2> HIDE DEF own
  <2>5. QuadsOwn(more)
    BY <2>1, <2>2, <2>3, <2>4 DEF QuadsOwn, own, Reads, Writes, One, Quad, LabelQuad
  <2>6. TempFits(tasks)
    BY <2>1, <2>2, <2>3, <2>4 DEF TempFits, Awaiting, Results, InExp, Two, For, Task, Turned, own
  <2>7. IsSeq(more)
    BY <2>2 DEF One
  <2>8. Step(more, task.at, 0, tasks)
    BY <2>2, <2>4
  <2> QED
    BY <2>1, <2>5, <2>6, <2>7, <2>8, TempKept
<1>15. CASE WhileCondition
  <2> DEFINE own == OwnTemps(routines'[task.routine])
  <2>1. todo # <<>> /\ task.do = "while"
    BY <1>15 DEF WhileCondition, Begins, Doing
  <2>2. PICK more, tasks :
       /\ One(more, Quad("JZ", 0, value, 0))
       /\ Two(tasks, For("node", this.body),
              Turned("loop", task.target, task.left, Len(routine.quads) + 1, task.k))
       /\ Step(more, 0, 0, tasks)
    BY <1>0, <1>15, WhileConditionShape
  <2>3. sym' = sym
    BY <1>15 DEF WhileCondition, Emits
  <2>4. task.at = 0
    BY <2>1, TaskFlow DEF JumpTasks
  <2>5. value \in own
    BY <1>0, <2>1, <2>2, TempCounts, TaskTemps DEF Awaiting, Results
  <2> HIDE DEF own
  <2>6. QuadsOwn(more)
    BY <2>1, <2>2, <2>3, <2>4, <2>5 DEF QuadsOwn, own, Reads, Writes, One, Quad
  <2>7. TempFits(tasks)
    BY <2>1, <2>2, <2>3, <2>4, <2>5
       DEF TempFits, Awaiting, Results, InExp, Two, For, Task, Turned, own
  <2>8. IsSeq(more)
    BY <2>2 DEF One
  <2> QED
    BY <2>1, <2>2, <2>4, <2>6, <2>7, <2>8, TempKept
<1>16. CASE LoopEnds
  <2> DEFINE own == OwnTemps(routines'[task.routine])
  <2>1. todo # <<>> /\ task.do = "loop"
    BY <1>16 DEF LoopEnds, Begins, Doing
  <2>2. PICK more, tasks :
       /\ Two(more, Quad("JMP", task.top, 0, 0), LabelQuad(Len(routine.quads) + 1))
       /\ Zero(tasks)
       /\ Step(more, task.at, 0, tasks)
    <3>1. task.at \in DOMAIN routine.quads
      BY <2>1, TaskFlow DEF JumpTasks
    <3> QED
      BY <1>0, <1>16, <3>1, LoopEndsShape
  <2>3. sym' = sym
    BY <1>16 DEF LoopEnds, Emits
  <2> HIDE DEF own
  <2>4. QuadsOwn(more)
    BY <2>1, <2>2, <2>3 DEF QuadsOwn, own, Reads, Writes, Two, Quad, LabelQuad
  <2>5. TempFits(tasks)
    BY <2>1, <2>2, <2>3 DEF TempFits, Awaiting, Results, InExp, Zero, own
  <2>6. IsSeq(more)
    BY <2>2 DEF Two
  <2> QED
    BY <2>1, <2>2, <2>4, <2>5, <2>6, TempKept
<1>17. CASE GenStmt
  <2> DEFINE own == OwnTemps(routines'[task.routine])
  <2>1. todo # <<>> /\ task.do = "stmts"
    BY <1>17 DEF GenStmt, Begins, Doing
  <2>2. PICK more, tasks :
       /\ Zero(more)
       /\ Two(tasks, For("node", this.stmts[task.k + 1]),
              Turned(task.do, task.target, task.left, task.at, task.k + 1))
       /\ Step(more, 0, 0, tasks)
    BY <1>0, <1>17, GenStmtShape
  <2>3. sym' = sym
    BY <1>17 DEF GenStmt, Awaits
  <2>4. task.at = 0
    BY <2>1, TaskFlow DEF JumpTasks
  <2> HIDE DEF own
  <2>5. QuadsOwn(more)
    BY <2>2 DEF QuadsOwn, Zero
  <2>6. TempFits(tasks)
    BY <2>1, <2>2, <2>3, <2>4 DEF TempFits, Awaiting, Results, InExp, Two, For, Task, Turned, own
  <2>7. IsSeq(more)
    BY <2>2 DEF Zero
  <2> QED
    BY <2>1, <2>2, <2>4, <2>5, <2>6, <2>7, TempKept
<1>18. CASE ParamsEnd
  <2> DEFINE own == OwnTemps(routines'[task.routine])
  <2>1. todo # <<>> /\ task.do = "params"
    BY <1>18 DEF ParamsEnd, Begins, Doing
  <2>2. PICK more, tasks :
       /\ Zero(more)
       /\ Two(tasks, For("node", this.body),
              Turned("leave", task.target, task.left, task.at, task.k))
       /\ Step(more, 0, 0, tasks)
    BY <1>0, <1>18, ParamsEndShape
  <2>3. sym' = sym
    BY <1>18 DEF ParamsEnd, Awaits
  <2>4. task.at = 0
    BY <2>1, TaskFlow DEF JumpTasks
  <2> HIDE DEF own
  <2>5. QuadsOwn(more)
    BY <2>2 DEF QuadsOwn, Zero
  <2>6. TempFits(tasks)
    BY <2>1, <2>2, <2>3, <2>4 DEF TempFits, Awaiting, Results, InExp, Two, For, Task, Turned, own
  <2>7. IsSeq(more)
    BY <2>2 DEF Zero
  <2> QED
    BY <2>1, <2>2, <2>4, <2>5, <2>6, <2>7, TempKept
<1>19. CASE GenDecl /\ this.init = Nothing
  <2> DEFINE e == Known(task.routine, NextTemp(routine))
  <2>1. todo # <<>> /\ task.do = "node" /\ Sym!Put(this.var, e)
    BY <1>19 DEF GenDecl, Begins, Doing
  <2>2. PICK more, tasks : Zero(more) /\ Zero(tasks) /\ Step(more, 0, 1, tasks)
    BY <1>0, <1>19, GenDeclShape
  <2>3. task.at = 0
    BY <2>1, TaskFlow DEF JumpTasks
  <2>4. Sound(e, routines')
    BY <1>0, <2>1, <2>2, TaskFacts, TempCounts DEF Sound, Known
  <2> HIDE DEF e
  <2>5. TempFits(tasks) /\ QuadsOwn(more)
    BY <1>0, <2>1, <2>2, <2>4, PutFacts DEF TempFits, QuadsOwn, InExp, Results, Zero
  <2> QED
    BY <2>1, <2>2, <2>3, <2>5, TempKept DEF Zero
<1>20. CASE DeclEnds
  <2> DEFINE e == Known(task.routine, value)
  <2>1. todo # <<>> /\ task.do = "decl" /\ Sym!Put(this.var, e)
    BY <1>20 DEF DeclEnds, Doing
  <2>2. PICK more, tasks : Zero(more) /\ Zero(tasks) /\ Step(more, 0, 0, tasks)
    BY <1>0, <1>20, DeclEndsShape
  <2>3. task.at = 0
    BY <2>1, TaskFlow DEF JumpTasks
  <2>4. Sound(e, routines')
    <3>1. value \in OwnTemps(routines'[task.routine])
      BY <1>0, <2>1, <2>2, TempCounts, TaskTemps DEF Awaiting
    <3> QED
      BY <1>0, <2>1, <2>2, <3>1, TaskFacts, TempCounts DEF Sound, Known
  <2> HIDE DEF e
  <2>5. TempFits(tasks) /\ QuadsOwn(more)
    BY <1>0, <2>1, <2>2, <2>4, PutFacts DEF TempFits, QuadsOwn, InExp, Results, Zero
  <2> QED
    BY <2>1, <2>2, <2>3, <2>5, TempKept DEF Zero
<1>21. CASE ScopeBegins
  <2>1. todo # <<>> /\ task.do \in {"node", "function"} /\ Sym!EnterScope
    BY <1>21 DEF ScopeBegins, Begins, Doing
  <2>2. PICK do : /\ <<task.do, do>> \in {<<"node", "stmts">>, <<"function", "params">>}
                  /\ \E more, tasks : /\ Zero(more) /\ One(tasks, For(do, this))
                                      /\ Step(more, 0, 0, tasks)
    BY <1>0, <1>21, ScopeBeginsShape
  <2>3. PICK more, tasks : Zero(more) /\ One(tasks, For(do, this)) /\ Step(more, 0, 0, tasks)
    BY <2>2
  <2>4. task.at = 0
    BY <2>1, TaskFlow DEF JumpTasks
  <2>5. do \in {"stmts", "params"}
    BY <2>2
  <2>6. TempFits(tasks) /\ QuadsOwn(more)
    BY <1>0, <2>1, <2>3, <2>5, EnterFacts
       DEF TempFits, QuadsOwn, Awaiting, Results, InExp, Zero, One, For, Task
  <2> QED
    BY <2>1, <2>3, <2>4, <2>6, TempKept DEF Zero
<1>22. CASE ScopeEnds
  <2>1. todo # <<>> /\ task.do \in {"stmts", "leave"} /\ Sym!ExitScope
    BY <1>22 DEF ScopeEnds, Doing
  <2>2. PICK more, tasks : Zero(more) /\ Zero(tasks) /\ Step(more, 0, 0, tasks)
    BY <1>0, <1>22, ScopeEndsShape
  <2>3. task.at = 0
    BY <2>1, TaskFlow DEF JumpTasks
  <2>4. TempFits(tasks) /\ QuadsOwn(more)
    BY <1>0, <2>1, <2>2, ExitFacts DEF TempFits, QuadsOwn, InExp, Results, Zero
  <2> QED
    BY <2>1, <2>2, <2>3, <2>4, TempKept DEF Zero
<1>23. CASE AddParam
  <2> DEFINE e == Known(task.routine, NextTemp(routine))
  <2>1. todo # <<>> /\ task.do = "params" /\ Sym!Put(this.params[task.k + 1].name, e)
    BY <1>23 DEF AddParam, ParamIn, Doing, routine
  <2>2. PICK more, tasks :
          /\ Zero(more)
          /\ One(tasks, Turned("params", task.target, task.left, task.at, task.k + 1))
          /\ Step(more, 0, 1, tasks)
    BY <1>0, <1>23, AddParamShape
  <2>3. task.at = 0
    BY <2>1, TaskFlow DEF JumpTasks
  <2>4. Sound(e, routines')
    BY <1>0, <2>1, <2>2, TaskFacts, TempCounts DEF Sound, Known
  <2> HIDE DEF e
  <2>5. TempFits(tasks) /\ QuadsOwn(more)
    BY <1>0, <2>1, <2>2, <2>4, PutFacts
       DEF TempFits, QuadsOwn, Awaiting, Results, InExp, Zero, One, Turned
  <2> QED
    BY <2>1, <2>2, <2>3, <2>5, TempKept DEF Zero
<1>24. CASE GenFunction
  <2> DEFINE n == Len(routines) + 1
             a == Task(n, "function", this)
             e == Known(0, Len(routines))
  <2>1. todo # <<>> /\ task.do = "node" /\ Sym!Put(this.name, e)
    BY <1>24 DEF GenFunction, Begins, Doing
  <2>2. n \in DOMAIN routines' /\ n \notin DOMAIN routines
    BY <1>0, <1>24, GenFunctionShape
  <2>3. PICK more, tasks : /\ Zero(more) /\ (Zero(tasks) \/ One(tasks, a))
                           /\ Step(more, 0, 0, tasks)
    BY <1>0, <1>24, GenFunctionShape
  <2>4. task.at = 0
    BY <2>1, TaskFlow DEF JumpTasks
  <2>5. Sound(e, routines')
    BY <2>2 DEF Sound, Known
  <2> HIDE DEF e
  <2>6. TempFits(tasks) /\ QuadsOwn(more)
    BY <1>0, <2>1, <2>3, <2>5, PutFacts
       DEF TempFits, QuadsOwn, Awaiting, Results, InExp, Zero, One, Task
  <2> QED
    BY <2>1, <2>3, <2>4, <2>6, TempKept DEF Zero
<1> QED
  BY <1>1, <1>2, <1>3, <1>4, <1>5, <1>6, <1>7, <1>8, <1>9, <1>10, <1>11, <1>12, <1>13, <1>14,
     <1>15, <1>16, <1>17, <1>18, <1>19, <1>20, <1>21, <1>22, <1>23, <1>24
     DEF GenNode

LEMMA NoEntries ==
  ASSUME NEW table, One(table, Sym!NoSymbols)
  PROVE  \A e : ~InTable(table, e)
<1>1. DOMAIN Sym!NoSymbols = {}
  BY DEF Sym!NoSymbols
<1> QED
  BY <1>1 DEF InTable, One

LEMMA TempStarts ==
  ASSUME gen_ir
  PROVE  TempInv'
<1>1. PICK rt : /\ One(routines', rt) /\ rt.quads = <<>>
                /\ rt.temp_count = 0 /\ rt.param_count = 0
  BY StartShape
<1> DEFINE a == Task(1, "node", block_node(program))
<1>2. One(todo', a) /\ One(sym', Sym!NoSymbols) /\ a.do = "node"
  BY StartShape DEF Task
<1> HIDE DEF a
<1>3. TempsOfRoutine'
  BY <1>1, ShortSeqs DEF TempsOfRoutine, One
<1>4. \A e : ~InTable(sym', e)
  BY <1>2, NoEntries
<1> QED
  BY <1>2, <1>3, <1>4 DEF TempInv, Awaiting, Results, One

LEMMA TempInits ==
  ASSUME GenInit
  PROVE  TempInv
<1>1. Zero(routines) /\ Zero(todo) /\ One(sym, Sym!NoSymbols)
  BY Tuples DEF GenInit
<1>2. \A e : ~InTable(sym, e)
  BY <1>1, NoEntries
<1> QED
  BY <1>1, <1>2 DEF TempInv, TempsOfRoutine, Zero

LEMMA TempNext ==
  ASSUME FlowInv, TempInv, NamesAreOwn, [GenNext]_<<program, gen>>
  PROVE  TempInv'
<1>1. CASE GenNext
  BY <1>1, TempStarts, ExpTemps, NodeTemps DEF GenNext
<1>2. CASE UNCHANGED <<program, gen>>
  BY <1>2 DEF gen, TempInv, TempsOfRoutine
<1> QED
  BY <1>1, <1>2

\* While the names that the generator meets are in order, the temps of a routine
\* are its own and a CALL has the id of a routine (ir.h:39, ir.h:46): quads
\* index the tables of the code generator and of the evaluator within bounds.
THEOREM TempsAreOwn == GenSpec /\ []NamesAreOwn => []TempsOfRoutine
<1> DEFINE Inv == FlowInv /\ TempInv
<1>1. GenInit => Inv
  BY FlowInits, TempInits
<1>2. Inv /\ NamesAreOwn /\ [GenNext]_<<program, gen>> => Inv'
  BY FlowNext, TempNext
<1>3. Inv => TempsOfRoutine
  BY DEF TempInv
<1> HIDE DEF Inv
<1> QED
  BY <1>1, <1>2, <1>3, PTL DEF GenSpec

-----------------------------------------------------------------------------
(* Quads that the code generator can take *)

\* The ARG quads up to number n that no CALL follows
ArgsAt(qs, n) == {k \in 1 .. n : qs[k].op = "ARG" /\ \A j \in k .. n : qs[j].op # "CALL"}

Args(qs) == ArgsAt(qs, Len(qs))

\* The quads whose target is new
Producers == BinaryQuads \cup {"NOT", "NEG", "MOV_IM", "CALL"}

Touches(q, t) == t \in Reads(q) \/ t \in Writes(q)

\* What QuadsFitGenerator says of q after n quads, in a routine with params.
Fits(qs, n, q, params) ==
  /\ q.op \in Producers => /\ \A k \in 1 .. n : ~Touches(qs[k], q.target)
                           /\ q.target \notin Reads(q)
                           /\ q.target \notin 0 .. params - 1
  /\ q.op = "MOV" => q.target # q.left /\ \A k \in ArgsAt(qs, n) : qs[k].left # q.target
  /\ q.op \in {"JMP", "RET"} => ArgsAt(qs, n) = {}
  /\ q.op = "ARG" => q.target = Cardinality(ArgsAt(qs, n))

FitInv ==
  \A r \in DOMAIN routines : LET qs == routines[r].quads IN
    \A n \in DOMAIN qs : Fits(qs, n - 1, qs[n], routines[r].param_count)

LEMMA FitIsFit ==
  ASSUME FitInv, JumpsLandOnLabels
  PROVE  QuadsFitGenerator
<1>1. ASSUME NEW r \in DOMAIN routines, NEW n \in DOMAIN routines[r].quads
      PROVE  LET qs == routines[r].quads
                 q  == qs[n]
                 before == UNION {Reads(qs[k]) \cup Writes(qs[k]) : k \in 1 .. n - 1}
                 args == {k \in 1 .. n - 1 : qs[k].op = "ARG"
                            /\ \A j \in k .. n - 1 : qs[j].op # "CALL"}
             IN  /\ q.op \in BinaryQuads \cup {"NOT", "NEG", "MOV_IM", "CALL"} =>
                      q.target \notin before \cup Reads(q)
                                      \cup 0 .. routines[r].param_count - 1
                 /\ q.op = "MOV" => q.target \notin {q.left} \cup {qs[k].left : k \in args}
                 /\ q.op \in {"JMP", "RET"} => args = {}
                 /\ q.op = "ARG" => q.target = Cardinality(args)
  <2> DEFINE qs     == routines[r].quads
             q      == qs[n]
             before == UNION {Reads(qs[k]) \cup Writes(qs[k]) : k \in 1 .. n - 1}
             args   == {k \in 1 .. n - 1 : qs[k].op = "ARG"
                          /\ \A j \in k .. n - 1 : qs[j].op # "CALL"}
  <2>1. Fits(qs, n - 1, q, routines[r].param_count)
    BY DEF FitInv
  <2>2. args = ArgsAt(qs, n - 1)
    BY DEF ArgsAt
  <2>3. ASSUME q.op \in Producers
        PROVE  q.target \notin before \cup Reads(q) \cup 0 .. routines[r].param_count - 1
    BY <2>1, <2>3 DEF Fits, Touches
  <2>4. ASSUME q.op = "MOV"
        PROVE  q.target \notin {q.left} \cup {qs[k].left : k \in args}
    BY <2>1, <2>2, <2>4 DEF Fits
  <2> HIDE DEF args, before, q, qs
  <2>5. q.op \in {"JMP", "RET"} => args = {}
    BY <2>1, <2>2 DEF Fits
  <2>6. q.op = "ARG" => q.target = Cardinality(args)
    BY <2>1, <2>2 DEF Fits
  <2> QED
    BY <2>3, <2>4, <2>5, <2>6 DEF args, before, q, qs, Producers
<1> QED
  BY <1>1 DEF QuadsFitGenerator

\* Only the operations matter.
LEMMA ArgsSame ==
  ASSUME NEW qs, NEW new, NEW n \in Nat, \A k \in 1 .. n : new[k].op = qs[k].op
  PROVE  ArgsAt(new, n) = ArgsAt(qs, n)
<1>1. \A k \in 1 .. n : \A j \in k .. n : j \in 1 .. n
  OBVIOUS
<1> QED
  BY <1>1 DEF ArgsAt

LEMMA ArgsNext ==
  ASSUME NEW qs, NEW n \in Nat
  PROVE  /\ qs[n + 1].op = "CALL" => ArgsAt(qs, n + 1) = {}
         /\ qs[n + 1].op = "ARG" =>
              ArgsAt(qs, n + 1) = ArgsAt(qs, n) \cup {n + 1} /\ n + 1 \notin ArgsAt(qs, n)
         /\ qs[n + 1].op \notin {"CALL", "ARG"} => ArgsAt(qs, n + 1) = ArgsAt(qs, n)
<1>1. \A k \in 1 .. n + 1 : n + 1 \in k .. n + 1
  OBVIOUS
<1>2. \A k \in 1 .. n : /\ k \in 1 .. n + 1
                        /\ \A j \in k .. n : j \in k .. n + 1
                        /\ \A j \in k .. n + 1 : j \in k .. n \/ j = n + 1
  OBVIOUS
<1>3. /\ \A k \in 1 .. n + 1 : k \in 1 .. n \/ k = n + 1
      /\ n + 1 \in 1 .. n + 1 /\ n + 1 \notin 1 .. n
      /\ \A j \in n + 1 .. n + 1 : j = n + 1
  OBVIOUS
<1>4. qs[n + 1].op = "CALL" => ArgsAt(qs, n + 1) = {}
  BY <1>1 DEF ArgsAt
<1>5. ASSUME qs[n + 1].op # "CALL", NEW k \in 1 .. n
      PROVE  k \in ArgsAt(qs, n + 1) <=> k \in ArgsAt(qs, n)
  BY <1>2, <1>5 DEF ArgsAt
<1>6. n + 1 \in ArgsAt(qs, n + 1) <=> qs[n + 1].op = "ARG"
  BY <1>3 DEF ArgsAt
<1>7. ArgsAt(qs, n + 1) \subseteq 1 .. n + 1 /\ ArgsAt(qs, n) \subseteq 1 .. n
  BY DEF ArgsAt
<1> QED
  BY <1>3, <1>4, <1>5, <1>6, <1>7

LEMMA ArgsFinite ==
  ASSUME NEW qs, NEW n \in Nat
  PROVE  IsFiniteSet(ArgsAt(qs, n))
<1>1. IsFiniteSet(1 .. n) /\ ArgsAt(qs, n) \subseteq 1 .. n
  BY FS_Interval DEF ArgsAt
<1> QED
  BY <1>1, FS_Subset

\* A quad fits as it did when those before it are used as they were.
LEMMA FitsSame ==
  ASSUME NEW qs, NEW new, NEW n \in Nat, NEW q, NEW p, NEW params, Fits(qs, n, q, params),
         \A k \in 1 .. n : /\ new[k].op = qs[k].op /\ new[k].left = qs[k].left
                           /\ \A t : Touches(new[k], t) <=> Touches(qs[k], t),
         p = q \/ (p.op = q.op /\ q.op \in Jumps)
  PROVE  Fits(new, n, p, params)
<1>1. ArgsAt(new, n) = ArgsAt(qs, n)
  BY ArgsSame
<1>2. ArgsAt(qs, n) \subseteq 1 .. n
  BY DEF ArgsAt
<1>3. CASE p = q
  BY <1>1, <1>2, <1>3 DEF Fits
<1>4. CASE p.op = q.op /\ q.op \in Jumps
  BY <1>1, <1>4 DEF Fits, Jumps, Producers, BinaryQuads
<1> QED
  BY <1>3, <1>4

\* The parameters are counted before there are quads.
LEMMA ParamsStay ==
  ASSUME FlowInv, todo # <<>>, NEW more, NEW at, NEW made \in Nat, NEW tasks,
         Step(more, at, made, tasks), NEW r \in DOMAIN routines
  PROVE  /\ routines[r].quads # <<>> => routines'[r].param_count = routines[r].param_count
         /\ task.do # "params" => routines'[r].param_count = routines[r].param_count
<1>0. TypeInv /\ task.routine \in DOMAIN routines /\ routine.param_count \in Nat
  BY TaskFacts DEF FlowInv
<1>1. task.do = "params" => routine.quads = <<>>
  BY TaskFlow
<1>2. CASE r # task.routine
  BY <1>2 DEF Step, Wrote
<1>3. CASE r = task.routine
  <2>1. routines'[r].param_count = routine.param_count + (IF task.do = "params" THEN made ELSE 0)
    BY <1>3 DEF Step, Wrote, Grown, Kept
  <2> QED
    BY <1>0, <1>1, <1>3, <2>1 DEF routine
<1> QED
  BY <1>2, <1>3

\* New quads that fit
FitNew(more) ==
  /\ Len(more) <= 2
  /\ 1 \in DOMAIN more => Fits(routine.quads, Len(routine.quads), more[1], routine.param_count)
  /\ 2 \in DOMAIN more => more[2].op \in {"JZ", "JNZ", "LABEL"}

LEMMA FitKept ==
  ASSUME FlowInv, FitInv, todo # <<>>, NEW more, IsSeq(more), NEW made \in Nat, NEW tasks,
         Step(more, task.at, made, tasks), FitNew(more), more = <<>> \/ task.do # "params"
  PROVE  FitInv'
<1> DEFINE len == Len(routine.quads)
<1>0. /\ TypeInv /\ task.routine \in DOMAIN routines /\ routine = routines[task.routine]
      /\ len \in Nat /\ DOMAIN routine.quads = 1 .. len
  BY TaskFacts DEF FlowInv, routine
<1>1. ASSUME NEW r \in DOMAIN routines, NEW k \in DOMAIN routines[r].quads
      PROVE  /\ k \in DOMAIN routines'[r].quads
             /\ routines'[r].quads[k].op = routines[r].quads[k].op
             /\ routines'[r].quads[k].left = routines[r].quads[k].left
             /\ \A t : Touches(routines'[r].quads[k], t) <=> Touches(routines[r].quads[k], t)
             /\ \/ routines'[r].quads[k] = routines[r].quads[k]
                \/ routines[r].quads[k].op \in Jumps
  BY TempsStay DEF Touches
<1>2. ASSUME NEW r \in DOMAIN routines, NEW n \in DOMAIN routines[r].quads
      PROVE  Fits(routines'[r].quads, n - 1, routines'[r].quads[n], routines'[r].param_count)
  <2> DEFINE qs  == routines[r].quads
             new == routines'[r].quads
  <2>1. /\ n - 1 \in Nat /\ qs # <<>>
        /\ \A k \in 1 .. n - 1 : k \in DOMAIN qs
    <3>1. Len(qs) \in Nat /\ DOMAIN qs = 1 .. Len(qs)
      BY <1>0, RoutineFacts DEF TypeInv
    <3>2. n \in 1 .. Len(qs) /\ qs # <<>>
      BY <3>1, ShortSeqs
    <3> QED
      BY <3>1, <3>2
  <2>2. routines'[r].param_count = routines[r].param_count
    BY <2>1, ParamsStay
  <2>3. Fits(qs, n - 1, qs[n], routines[r].param_count)
    BY DEF FitInv
  <2>4. \A k \in 1 .. n - 1 : /\ new[k].op = qs[k].op /\ new[k].left = qs[k].left
                              /\ \A t : Touches(new[k], t) <=> Touches(qs[k], t)
    BY <1>1, <2>1
  <2>5. new[n] = qs[n] \/ (new[n].op = qs[n].op /\ qs[n].op \in Jumps)
    BY <1>1
  <2> HIDE DEF qs, new
  <2>6. Fits(new, n - 1, new[n], routines[r].param_count)
    BY <2>1, <2>3, <2>4, <2>5, FitsSame
  <2> QED
    BY <2>2, <2>6 DEF new
<1>3. ASSUME NEW r \in DOMAIN routines', NEW n \in DOMAIN routines'[r].quads,
             ~(r \in DOMAIN routines /\ n \in DOMAIN routines[r].quads)
      PROVE  Fits(routines'[r].quads, n - 1, routines'[r].quads[n], routines'[r].param_count)
  <2> DEFINE m   == n - len
             new == routines'[r].quads
  <2>1. r = task.routine /\ m \in 1 .. Len(more) /\ n \in Nat
    BY <1>0, <1>3, QuadsStay
  <2>2. Len(more) \in Nat /\ DOMAIN more = 1 .. Len(more) /\ len + m = n
    BY <1>0, <2>1, SeqFacts
  <2> HIDE DEF m
  <2>3. new[n] = more[m]
    <3>1. m \in DOMAIN more
      BY <2>1, <2>2
    <3>2. routines'[task.routine].quads[len + m] = more[m]
      BY <1>0, <3>1, QuadsStay
    <3> HIDE DEF len
    <3> QED
      BY <2>1, <2>2, <3>2
  <2>4. routines'[r].param_count = routine.param_count
    <3>1. more # <<>>
      BY <2>1, <2>2, ShortSeqs
    <3> QED
      BY <1>0, <2>1, <3>1, ParamsStay
  <2>5. m = 1 \/ m = 2
    BY <2>1, <2>2 DEF FitNew
  <2>6. CASE m = 1
    <3>1. Fits(routine.quads, len, more[1], routine.param_count)
      BY <2>1, <2>2, <2>6 DEF FitNew
    <3>2. \A k \in 1 .. len : /\ new[k].op = routine.quads[k].op
                              /\ new[k].left = routine.quads[k].left
                              /\ \A t : Touches(new[k], t) <=> Touches(routine.quads[k], t)
      BY <1>0, <1>1, <2>1
    <3> HIDE DEF new, len
    <3>3. Fits(new, len, more[1], routine.param_count)
      BY <1>0, <3>1, <3>2, FitsSame
    <3>4. n - 1 = len
      BY <1>0, <2>2, <2>6
    <3> QED
      BY <2>1, <2>3, <2>4, <2>6, <3>3, <3>4 DEF new
  <2>7. CASE m = 2
    <3>1. more[2].op \in {"JZ", "JNZ", "LABEL"}
      BY <2>1, <2>2, <2>7 DEF FitNew
    <3> QED
      BY <2>3, <2>7, <3>1 DEF Fits, Producers, BinaryQuads
  <2> QED
    BY <2>5, <2>6, <2>7
<1> QED
  BY <1>2, <1>3 DEF FitInv

\* A call of a function, and one that has got arguments
IsCall(t)  == t.do = "arg" \/ (t.do = "exp" /\ t.of.kind = "CALL")
Passing(t) == IsCall(t) /\ t.k # 0

\* Arguments that wait for their CALL are those of one call, that no other call
\* of a function is in the way of.
ArgInv ==
  /\ \A i \in DOMAIN todo : Passing(todo[i]) =>
       /\ Cardinality(Args(routines[todo[i].routine].quads)) = todo[i].k
       /\ \A j \in DOMAIN todo : j < i => ~IsCall(todo[j])
  /\ \A r \in DOMAIN routines : Args(routines[r].quads) # {} =>
       \E i \in DOMAIN todo : todo[i].routine = r /\ Passing(todo[i])
  /\ \A i \in DOMAIN todo : todo[i].do = "arg" => todo[i].of.kind = "CALL"

\* A step that keeps that, with args in the routine after it
ArgFits(args, tasks) ==
  /\ args = Args(routine.quads) \/ IsCall(task)
  /\ \A i \in DOMAIN tasks : LET t == tasks[i] IN
       /\ IsCall(t) => (i = 1 /\ t.do = "exp") \/ (IsCall(task) /\ i = Len(tasks))
       /\ t.do = "arg" => t.of.kind = "CALL"
       /\ Passing(t) => t.routine = task.routine /\ Cardinality(args) = t.k
  /\ args # {} =>
       \/ args = Args(routine.quads) /\ ~Passing(task)
       \/ \E i \in DOMAIN tasks : tasks[i].routine = task.routine /\ Passing(tasks[i])

\* How many arguments a call has got
LEMMA CountIs ==
  ASSUME FlowInv, ArgInv, todo # <<>>, IsCall(task)
  PROVE  Cardinality(Args(routine.quads)) = task.k
<1>1. /\ task = todo[1] /\ 1 \in DOMAIN todo /\ routine = routines[task.routine]
      /\ task.routine \in DOMAIN routines /\ DOMAIN todo = 1 .. Len(todo) /\ Len(todo) \in Nat
  BY TaskFacts DEF FlowInv, routine
<1>2. CASE task.k # 0
  BY <1>1, <1>2 DEF ArgInv, Passing
<1>3. CASE task.k = 0
  <2>1. Args(routine.quads) = {}
    <3>1. SUFFICES ASSUME Args(routine.quads) # {} PROVE FALSE
      OBVIOUS
    <3>2. PICK i \in DOMAIN todo : Passing(todo[i])
      BY <1>1, <3>1 DEF ArgInv
    <3>3. i # 1 /\ 1 < i
      BY <1>1, <1>3, <3>2 DEF Passing
    <3> QED
      BY <1>1, <3>2, <3>3 DEF ArgInv
  <2> QED
    BY <1>3, <2>1, FS_EmptySet
<1> QED
  BY <1>2, <1>3

LEMMA ArgsNone ==
  ASSUME FlowInv, todo # <<>>, Cardinality(Args(routine.quads)) = 0
  PROVE  Args(routine.quads) = {}
<1>1. IsFiniteSet(Args(routine.quads))
  BY TaskFacts, ArgsFinite DEF FlowInv, Args
<1> QED
  BY <1>1, FS_EmptySet

\* Where nothing is generated, arguments stay.
LEMMA ArgsElsewhere ==
  ASSUME FlowInv, todo # <<>>, NEW more, NEW at, NEW made, NEW tasks,
         Step(more, at, made, tasks), NEW r \in DOMAIN routines', r # task.routine
  PROVE  /\ r \in DOMAIN routines => routines'[r].quads = routines[r].quads
         /\ r \notin DOMAIN routines => Args(routines'[r].quads) = {}
<1>1. ArgsAt(<<>>, 0) = {} /\ Len(<<>>) = 0
  BY ShortSeqs DEF ArgsAt
<1> QED
  BY <1>1 DEF Step, Wrote, Args

LEMMA ArgKept ==
  ASSUME FlowInv, ArgInv, todo # <<>>, NEW more, IsSeq(more), NEW made \in Nat, NEW tasks,
         Step(more, task.at, made, tasks), ArgFits(Args(routines'[task.routine].quads), tasks),
         FlowInv', NoNestedArgs'
  PROVE  ArgInv'
<1> DEFINE k(n) == n - Len(tasks) + 1
           args == Args(routines'[task.routine].quads)
<1>0. TypeInv /\ TypeInv'
  BY DEF FlowInv
<1>1. /\ task = todo[1] /\ 1 \in DOMAIN todo /\ routine = routines[task.routine]
      /\ task.routine \in DOMAIN routines /\ DOMAIN todo = 1 .. Len(todo) /\ Len(todo) \in Nat
  BY <1>0, TaskFacts DEF routine
<1>2. /\ DOMAIN todo' = 1 .. Len(todo') /\ Len(todo') \in Nat
      /\ Len(tasks) \in Nat /\ DOMAIN tasks = 1 .. Len(tasks)
      /\ todo' # <<>> => task' = todo'[1]
  BY <1>0, Places, SeqFacts DEF TypeInv, AreTasks, task, IsSeq
<1>3. ASSUME NEW i \in DOMAIN todo', i \notin DOMAIN tasks
      PROVE  /\ k(i) \in DOMAIN todo /\ k(i) # 1 /\ 1 < k(i) /\ todo'[i] = todo[k(i)]
             /\ todo[k(i)].routine \in DOMAIN routines
  BY <1>0, <1>3, Places DEF TypeInv, AreTasks, IsTask
<1>4. ASSUME NEW i \in DOMAIN tasks
      PROVE  i \in DOMAIN todo' /\ todo'[i] = tasks[i]
  BY <1>0, Places
<1>5. ASSUME NEW i \in DOMAIN todo', i # 1, Passing(todo'[i]), todo'[1].do = "exp"
      PROVE  ~IsCall(todo'[1])
  <2>1. SUFFICES ASSUME IsCall(todo'[1]) PROVE FALSE
    OBVIOUS
  <2>2. 1 < i /\ 1 \in DOMAIN todo' /\ i \in 2 .. Len(todo') /\ todo' # <<>>
    BY <1>2, <1>5, ShortSeqs
  <2>3. todo'[i].do \in Waiting
    BY <2>2 DEF FlowInv, Nested
  <2>4. todo'[i].do = "arg"
    BY <1>5, <2>3 DEF Passing, IsCall, Waiting, Awaiting, Results
  <2>5. task'.do = "exp" /\ task'.of.kind = "CALL"
    BY <1>2, <1>5, <2>1, <2>2 DEF IsCall
  <2>6. todo'[i].k = 0
    BY <2>2, <2>4, <2>5 DEF NoNestedArgs, Begins, Doing, this
  <2> QED
    BY <1>5, <2>6 DEF Passing
<1>6. ASSUME NEW i \in DOMAIN todo', Passing(todo'[i])
      PROVE  /\ Cardinality(Args(routines'[todo'[i].routine].quads)) = todo'[i].k
             /\ \A j \in DOMAIN todo' : j < i => ~IsCall(todo'[j])
  <2>1. CASE i \in DOMAIN tasks
    <3>1. /\ todo'[i] = tasks[i] /\ Passing(tasks[i]) /\ IsCall(tasks[i])
          /\ tasks[i].routine = task.routine /\ Cardinality(args) = tasks[i].k
      BY <1>4, <1>6, <2>1 DEF ArgFits, Passing
    <3>2. ASSUME NEW j \in DOMAIN todo', j < i PROVE ~IsCall(todo'[j])
      <4>1. j \in DOMAIN tasks /\ i # 1 /\ j # Len(tasks) /\ todo'[j] = tasks[j]
        BY <1>2, <1>4, <2>1, <3>2
      <4>2. IsCall(tasks[j]) => j = 1 /\ tasks[j].do = "exp"
        BY <4>1 DEF ArgFits
      <4> QED
        BY <1>5, <1>6, <4>1, <4>2
    <3> QED
      BY <3>1, <3>2
  <2>2. CASE i \notin DOMAIN tasks
    <3> DEFINE t == todo[k(i)]
    <3>1. k(i) \in DOMAIN todo /\ 1 < k(i) /\ todo'[i] = t /\ t.routine \in DOMAIN routines
      BY <1>3, <2>2
    <3>2. Passing(t)
      BY <1>6, <3>1
    <3>3. /\ Cardinality(Args(routines[t.routine].quads)) = t.k
          /\ \A j \in DOMAIN todo : j < k(i) => ~IsCall(todo[j])
      BY <3>1, <3>2 DEF ArgInv
    <3>4. ~IsCall(task)
      BY <1>1, <3>1, <3>3
    <3>5. Args(routines'[t.routine].quads) = Args(routines[t.routine].quads)
      <4>1. CASE t.routine = task.routine
        BY <1>1, <3>4, <4>1 DEF ArgFits
      <4>2. CASE t.routine # task.routine
        <5>1. t.routine \in DOMAIN routines'
          BY <3>1 DEF Step, Wrote
        <5> QED
          BY <3>1, <4>2, <5>1, ArgsElsewhere
      <4> QED
        BY <4>1, <4>2
    <3>6. ASSUME NEW j \in DOMAIN todo', j < i PROVE ~IsCall(todo'[j])
      <4>1. CASE j \in DOMAIN tasks
        <5>1. /\ todo'[j] = tasks[j]
              /\ IsCall(tasks[j]) => j = 1 /\ tasks[j].do = "exp"
          BY <1>4, <3>4, <4>1 DEF ArgFits
        <5>2. i # 1
          BY <1>2, <3>6
        <5> QED
          BY <1>5, <1>6, <5>1, <5>2
      <4>2. CASE j \notin DOMAIN tasks
        <5>1. k(j) \in DOMAIN todo /\ todo'[j] = todo[k(j)]
          BY <1>3, <4>2
        <5>2. k(j) < k(i)
          BY <1>2, <3>6
        <5> QED
          BY <3>3, <5>1, <5>2
      <4> QED
        BY <4>1, <4>2
    <3> QED
      BY <3>1, <3>3, <3>5, <3>6
  <2> QED
    BY <2>1, <2>2
<1>7. ASSUME NEW r \in DOMAIN routines', Args(routines'[r].quads) # {}
      PROVE  \E i \in DOMAIN todo' : todo'[i].routine = r /\ Passing(todo'[i])
  <2>1. CASE /\ r = task.routine
             /\ \E i \in DOMAIN tasks : tasks[i].routine = task.routine /\ Passing(tasks[i])
    BY <1>4, <2>1
  <2>2. CASE /\ r \in DOMAIN routines /\ Args(routines[r].quads) # {}
             /\ r = task.routine => ~Passing(task)
    <3>1. PICK i \in DOMAIN todo : todo[i].routine = r /\ Passing(todo[i])
      BY <2>2 DEF ArgInv
    <3>2. i # 1
      BY <1>1, <2>2, <3>1
    <3>3. i + Len(tasks) - 1 \in DOMAIN todo' /\ todo'[i + Len(tasks) - 1] = todo[i]
      BY <1>0, <3>2, Places
    <3> QED
      BY <3>1, <3>3
  <2>3. CASE r # task.routine
    <3>1. r \in DOMAIN routines /\ routines'[r].quads = routines[r].quads
      BY <1>7, <2>3, ArgsElsewhere
    <3> QED
      BY <1>7, <2>2, <2>3, <3>1
  <2>4. CASE r = task.routine
    BY <1>1, <1>7, <2>1, <2>2, <2>4 DEF ArgFits
  <2> QED
    BY <2>3, <2>4
<1>8. ASSUME NEW i \in DOMAIN todo', todo'[i].do = "arg"
      PROVE  todo'[i].of.kind = "CALL"
  <2>1. CASE i \in DOMAIN tasks
    BY <1>4, <1>8, <2>1 DEF ArgFits
  <2>2. CASE i \notin DOMAIN tasks
    <3>1. k(i) \in DOMAIN todo /\ todo'[i] = todo[k(i)]
      BY <1>3, <2>2
    <3> QED
      BY <1>8, <3>1 DEF ArgInv
  <2> QED
    BY <2>1, <2>2
<1> QED
  BY <1>6, <1>7, <1>8 DEF ArgInv

\* Quads that are neither ARG nor CALL change nothing.
LEMMA ArgsQuiet ==
  ASSUME FlowInv, todo # <<>>, NEW more, IsSeq(more), NEW at, NEW made \in Nat, NEW tasks,
         Step(more, at, made, tasks), \A n \in DOMAIN more : more[n].op \notin {"ARG", "CALL"}
  PROVE  Args(routines'[task.routine].quads) = Args(routine.quads)
<1> DEFINE qs  == routine.quads
           new == routines'[task.routine].quads
           len == Len(qs)
           add == Len(more)
<1>0. /\ TypeInv /\ task.routine \in DOMAIN routines /\ routine = routines[task.routine]
      /\ len \in Nat /\ DOMAIN qs = 1 .. len /\ add \in Nat /\ DOMAIN more = 1 .. add
  BY TaskFacts, SeqFacts DEF FlowInv, routine
<1>1. \A n \in 1 .. len : new[n].op = qs[n].op
  BY <1>0, QuadsStay
<1>2. Len(new) = len + add /\ \A n \in 1 .. add : new[len + n] = more[n]
  <2>1. Len(routines'[task.routine].quads) = Len(routine.quads) + Len(more)
    BY <1>0, QuadsStay
  <2>2. \A n \in DOMAIN more : routines'[task.routine].quads[Len(routine.quads) + n] = more[n]
    BY <1>0, QuadsStay
  <2> QED
    BY <1>0, <2>1, <2>2
<1>3. ASSUME NEW n \in 1 .. len + add
      PROVE  n \in 1 .. len \/ new[n].op \notin {"ARG", "CALL"}
  <2> DEFINE m == n - len
  <2>1. n \in 1 .. len \/ (m \in 1 .. add /\ len + m = n)
    BY <1>0
  <2> HIDE DEF m, new, len, add
  <2> QED
    BY <1>0, <1>2, <2>1 DEF add
<1> HIDE DEF new, qs, len, add
<1>4. ArgsAt(new, len + add) \subseteq ArgsAt(qs, len)
  <2>1. ASSUME NEW n \in ArgsAt(new, len + add) PROVE n \in ArgsAt(qs, len)
    <3>1. /\ n \in 1 .. len + add /\ new[n].op = "ARG"
          /\ \A j \in n .. len + add : new[j].op # "CALL"
      BY DEF ArgsAt
    <3>2. n \in 1 .. len
      BY <1>3, <3>1
    <3>3. \A j \in n .. len : j \in n .. len + add /\ j \in 1 .. len
      BY <1>0, <3>2
    <3> QED
      BY <1>1, <3>1, <3>2, <3>3 DEF ArgsAt
  <2> QED
    BY <2>1
<1>5. ArgsAt(qs, len) \subseteq ArgsAt(new, len + add)
  <2>1. ASSUME NEW n \in ArgsAt(qs, len) PROVE n \in ArgsAt(new, len + add)
    <3>1. /\ n \in 1 .. len /\ qs[n].op = "ARG"
          /\ \A j \in n .. len : qs[j].op # "CALL"
      BY DEF ArgsAt
    <3>2. n \in 1 .. len + add /\ \A j \in n .. len + add : j \in 1 .. len => j \in n .. len
      BY <1>0, <3>1
    <3>3. \A j \in n .. len + add : j \in 1 .. len + add
      BY <1>0, <3>1
    <3>4. \A j \in n .. len + add : new[j].op # "CALL"
      BY <1>1, <1>3, <3>1, <3>2, <3>3
    <3> QED
      BY <1>1, <3>1, <3>2, <3>4 DEF ArgsAt
  <2> QED
    BY <2>1
<1> QED
  BY <1>2, <1>4, <1>5 DEF Args, new, qs, len

\* One quad more
LEMMA ArgsOne ==
  ASSUME FlowInv, todo # <<>>, NEW more, NEW q, One(more, q), NEW at, NEW made \in Nat,
         NEW tasks, Step(more, at, made, tasks)
  PROVE  LET args == Args(routine.quads)
             new  == Args(routines'[task.routine].quads)
         IN  /\ q.op = "CALL" => new = {}
             /\ q.op = "ARG" => Cardinality(new) = Cardinality(args) + 1
<1> DEFINE qs  == routine.quads
           new == routines'[task.routine].quads
           len == Len(qs)
<1>0. /\ TypeInv /\ task.routine \in DOMAIN routines /\ routine = routines[task.routine]
      /\ len \in Nat /\ DOMAIN qs = 1 .. len
  BY TaskFacts DEF FlowInv, routine
<1>1. \A n \in 1 .. len : new[n].op = qs[n].op
  BY <1>0, QuadsStay DEF One
<1>2. Len(new) = len + 1 /\ new[len + 1] = q
  <2>0. IsSeq(more) /\ Len(more) = 1 /\ 1 \in DOMAIN more /\ more[1] = q
    BY DEF One
  <2>1. Len(routines'[task.routine].quads) = Len(routine.quads) + Len(more)
    BY <1>0, <2>0, QuadsStay
  <2>2. \A n \in DOMAIN more : routines'[task.routine].quads[Len(routine.quads) + n] = more[n]
    BY <1>0, <2>0, QuadsStay
  <2> HIDE DEF new
  <2> QED
    BY <2>0, <2>1, <2>2 DEF new
<1> HIDE DEF new, qs, len
<1>3. ArgsAt(new, len) = ArgsAt(qs, len)
  BY <1>0, <1>1, ArgsSame
<1>4. q.op = "CALL" => ArgsAt(new, len + 1) = {}
  BY <1>0, <1>2, ArgsNext
<1>5. ASSUME q.op = "ARG"
      PROVE  Cardinality(ArgsAt(new, len + 1)) = Cardinality(ArgsAt(qs, len)) + 1
  <2>1. /\ ArgsAt(new, len + 1) = ArgsAt(qs, len) \cup {len + 1}
        /\ len + 1 \notin ArgsAt(qs, len)
    BY <1>0, <1>2, <1>3, <1>5, ArgsNext
  <2>2. IsFiniteSet(ArgsAt(qs, len))
    BY <1>0, ArgsFinite
  <2> QED
    BY <2>1, <2>2, FS_AddElement
<1> QED
  BY <1>2, <1>4, <1>5 DEF Args, new, qs, len

\* The temp t may be the target of a result in rt: no parameter or variable, not
\* used so far, or for the second MOV of a logical operator not as an argument.
Unused(rt, t, do) ==
  /\ t \notin 0 .. rt.param_count - 1
  /\ \A n \in DOMAIN rt.quads : /\ rt.quads[n].op = "ARG" => rt.quads[n].left # t
                                /\ do # "logical" => ~Touches(rt.quads[n], t)

\* A variable of routine r is the temp t.
IsVar(table, r, t) == \E e : InTable(table, e) /\ e.routine = r /\ e.operand = t

\* The calls that have a temp for their result keep it to themselves.
HeldInv ==
  /\ \A i \in DOMAIN todo : LET t == todo[i] IN t.do \in Results =>
       /\ Unused(routines[t.routine], t.target, t.do)
       /\ ~IsVar(sym, t.routine, t.target)
       /\ todo[1].do \in Awaiting => value # t.target
  /\ \A i, j \in DOMAIN todo : todo[i].do \in Results =>
       /\ i # j /\ todo[j].do \in Results => todo[i].target # todo[j].target
       /\ todo[j].do = "right" => todo[j].left # todo[i].target

\* No call but the innermost one keeps x.
Free(x) == \A i \in DOMAIN todo : i # 1 /\ todo[i].do \in Results => x # todo[i].target

\* A step of an expression that keeps that
HeldFits(more, tasks) ==
  /\ sym' = sym
  /\ \A n \in DOMAIN more : \A x : Touches(more[n], x) => Free(x)
  /\ DOMAIN tasks = {} => Free(value')
  /\ \A i \in DOMAIN tasks : LET t == tasks[i] IN
       /\ i = 1 => t.do \notin Awaiting
       /\ t.do \in Results =>
            /\ t.routine = task.routine /\ Free(t.target)
            /\ Unused(routines'[task.routine], t.target, t.do)
            /\ ~IsVar(sym, task.routine, t.target)
            /\ \A j \in DOMAIN todo : j # 1 /\ todo[j].do = "right" => todo[j].left # t.target
       /\ t.do = "right" => Free(t.left) /\ t.left # t.target
  /\ \A i, j \in DOMAIN tasks : i # j => tasks[i].do \notin Results \/ tasks[j].do \notin Results

\* What stays unused
LEMMA UnusedKept ==
  ASSUME FlowInv, todo # <<>>, task.do # "params", NEW more, IsSeq(more),
         NEW made \in Nat, NEW tasks, Step(more, task.at, made, tasks),
         NEW t, NEW do, Unused(routine, t, do),
         \A n \in DOMAIN more : Touches(more[n], t) => do = "logical" /\ more[n].op # "ARG"
  PROVE  Unused(routines'[task.routine], t, do)
<1> DEFINE rt  == routine
           new == routines'[task.routine]
<1>0. TypeInv /\ task.routine \in DOMAIN routines /\ routine = routines[task.routine]
  BY TaskFacts DEF FlowInv, routine
<1>1. new.param_count = rt.param_count
  BY <1>0, ParamsStay
<1>2. ASSUME NEW n \in DOMAIN new.quads
      PROVE  /\ new.quads[n].op = "ARG" => new.quads[n].left # t
             /\ do # "logical" => ~Touches(new.quads[n], t)
  <2>1. CASE n \in DOMAIN rt.quads
    <3>1. /\ new.quads[n].op = rt.quads[n].op /\ new.quads[n].left = rt.quads[n].left
          /\ Touches(new.quads[n], t) <=> Touches(rt.quads[n], t)
      BY <1>0, <2>1, TempsStay DEF Touches
    <3>2. Unused(rt, t, do)
      OBVIOUS
    <3> HIDE DEF rt, new
    <3> QED
      BY <2>1, <3>1, <3>2 DEF Unused
  <2>2. CASE n \notin DOMAIN rt.quads
    <3> DEFINE m == n - Len(routine.quads)
    <3>1. task.routine \in DOMAIN routines'
      BY <1>0, QuadsStay
    <3>2. m \in 1 .. Len(more) /\ n \in Nat
      BY <1>0, <1>2, <2>2, <3>1, QuadsStay
    <3>3. m \in DOMAIN more /\ Len(routine.quads) + m = n
      BY <1>0, <3>2, SeqFacts, TaskFacts
    <3> HIDE DEF m
    <3>4. new.quads[n] = more[m]
      BY <1>0, <3>3, QuadsStay
    <3>5. Touches(more[m], t) => do = "logical" /\ more[m].op # "ARG"
      BY <3>3
    <3>6. more[m].op = "ARG" => Touches(more[m], more[m].left)
      BY DEF Touches, Reads
    <3> HIDE DEF new
    <3> QED
      BY <3>4, <3>5, <3>6
  <2> QED
    BY <2>1, <2>2
<1>3. t \notin 0 .. rt.param_count - 1
  BY DEF Unused
<1> HIDE DEF rt, new
<1>4. Unused(new, t, do)
  BY <1>1, <1>2, <1>3 DEF Unused
<1> QED
  BY <1>4 DEF new

LEMMA HeldKept ==
  ASSUME FlowInv, HeldInv, todo # <<>>, task.do \in InExp, NEW more, IsSeq(more),
         NEW made \in Nat, NEW tasks, Step(more, task.at, made, tasks), HeldFits(more, tasks)
  PROVE  HeldInv'
<1> DEFINE k(n) == n - Len(tasks) + 1
<1>0. TypeInv /\ task.do # "params"
  BY DEF FlowInv, InExp, Results
<1>1. /\ task = todo[1] /\ 1 \in DOMAIN todo /\ routine = routines[task.routine]
      /\ task.routine \in DOMAIN routines /\ DOMAIN todo = 1 .. Len(todo) /\ Len(todo) \in Nat
  BY <1>0, TaskFacts DEF routine
<1>2. /\ DOMAIN todo' \subseteq Nat /\ Len(tasks) \in Nat /\ DOMAIN tasks = 1 .. Len(tasks)
  BY <1>0, Places
<1>3. ASSUME NEW i \in DOMAIN todo', i \notin DOMAIN tasks
      PROVE  /\ k(i) \in DOMAIN todo /\ k(i) # 1 /\ 1 < k(i) /\ todo'[i] = todo[k(i)]
             /\ todo[k(i)].routine \in DOMAIN routines
             /\ todo[k(i)].do \in Awaiting => todo[k(i)].routine = task.routine
  <2>1. /\ k(i) \in DOMAIN todo /\ k(i) # 1 /\ 1 < k(i) /\ todo'[i] = todo[k(i)]
        /\ todo[k(i)].routine \in DOMAIN routines
    BY <1>0, <1>3, Places DEF TypeInv, AreTasks, IsTask
  <2> QED
    BY <1>1, <2>1 DEF FlowInv, Nested
<1>4. ASSUME NEW i \in DOMAIN tasks
      PROVE  i \in DOMAIN todo' /\ todo'[i] = tasks[i]
  BY <1>0, Places
<1>5. ASSUME NEW i \in DOMAIN todo, i # 1, todo[i].do \in Results
      PROVE  Unused(routines'[task.routine], todo[i].target, todo[i].do)
  <2> DEFINE t  == todo[i].target
             do == todo[i].do
  <2>1. todo[i].routine = task.routine
    BY <1>1, <1>5 DEF FlowInv, Nested, Awaiting
  <2>2. Unused(routine, t, do)
    BY <1>1, <1>5, <2>1 DEF HeldInv
  <2>3. \A n \in DOMAIN more : ~Touches(more[n], t)
    BY <1>5 DEF HeldFits, Free
  <2> HIDE DEF t, do
  <2>4. Unused(routines'[task.routine], t, do)
    BY <1>0, <2>2, <2>3, UnusedKept
  <2> QED
    BY <2>4 DEF t, do
<1>6. ASSUME NEW i \in DOMAIN todo', todo'[i].do \in Results
      PROVE  /\ Unused(routines'[todo'[i].routine], todo'[i].target, todo'[i].do)
             /\ ~IsVar(sym', todo'[i].routine, todo'[i].target)
             /\ todo'[1].do \in Awaiting => value' # todo'[i].target
  <2>1. CASE i \in DOMAIN tasks
    <3>1. todo'[i] = tasks[i] /\ 1 \in DOMAIN tasks /\ todo'[1] = tasks[1]
      BY <1>2, <1>4, <2>1
    <3> QED
      BY <1>6, <2>1, <3>1 DEF HeldFits
  <2>2. CASE i \notin DOMAIN tasks
    <3> DEFINE t == todo[k(i)]
    <3>1. /\ k(i) \in DOMAIN todo /\ k(i) # 1 /\ todo'[i] = t /\ t.do \in Results
          /\ t.routine = task.routine
      BY <1>3, <1>6, <2>2 DEF Awaiting
    <3>2. Unused(routines'[task.routine], t.target, t.do)
      BY <1>5, <3>1
    <3>3. ~IsVar(sym', t.routine, t.target)
      BY <3>1 DEF HeldInv, HeldFits
    <3>4. ASSUME todo'[1].do \in Awaiting PROVE value' # t.target
      <4>1. 1 \notin DOMAIN tasks
        BY <1>4, <3>4 DEF HeldFits
      <4>2. DOMAIN tasks = {}
        BY <1>2, <4>1
      <4> QED
        BY <3>1, <4>2 DEF HeldFits, Free
    <3> QED
      BY <3>1, <3>2, <3>3, <3>4
  <2> QED
    BY <2>1, <2>2
<1>7. ASSUME NEW i \in DOMAIN todo', NEW j \in DOMAIN todo', todo'[i].do \in Results
      PROVE  /\ i # j /\ todo'[j].do \in Results => todo'[i].target # todo'[j].target
             /\ todo'[j].do = "right" => todo'[j].left # todo'[i].target
  <2>1. CASE i \in DOMAIN tasks /\ j \in DOMAIN tasks
    <3>1. todo'[i] = tasks[i] /\ todo'[j] = tasks[j]
      BY <1>4, <2>1
    <3>2. ASSUME i # j PROVE tasks[j].do \notin Results
      BY <1>7, <2>1, <3>1, <3>2 DEF HeldFits
    <3>3. i = j => (tasks[j].do = "right" => tasks[j].left # tasks[i].target)
      BY <2>1 DEF HeldFits
    <3> QED
      BY <3>1, <3>2, <3>3 DEF Results
  <2>2. CASE i \in DOMAIN tasks /\ j \notin DOMAIN tasks
    <3>1. /\ todo'[i] = tasks[i] /\ k(j) \in DOMAIN todo /\ k(j) # 1 /\ todo'[j] = todo[k(j)]
      BY <1>3, <1>4, <2>2
    <3>2. /\ Free(tasks[i].target)
          /\ todo[k(j)].do = "right" => todo[k(j)].left # tasks[i].target
      BY <1>7, <2>2, <3>1 DEF HeldFits
    <3> QED
      BY <3>1, <3>2 DEF Free
  <2>3. CASE i \notin DOMAIN tasks /\ j \in DOMAIN tasks
    <3>1. /\ todo'[j] = tasks[j] /\ k(i) \in DOMAIN todo /\ k(i) # 1 /\ todo'[i] = todo[k(i)]
      BY <1>3, <1>4, <2>3
    <3>2. /\ tasks[j].do \in Results => Free(tasks[j].target)
          /\ tasks[j].do = "right" => Free(tasks[j].left)
      BY <2>3 DEF HeldFits
    <3> QED
      BY <1>7, <3>1, <3>2 DEF Free
  <2>4. CASE i \notin DOMAIN tasks /\ j \notin DOMAIN tasks
    <3>1. /\ k(i) \in DOMAIN todo /\ todo'[i] = todo[k(i)]
          /\ k(j) \in DOMAIN todo /\ todo'[j] = todo[k(j)]
      BY <1>3, <2>4
    <3>2. i # j => k(i) # k(j)
      BY <1>2
    <3> HIDE DEF k
    <3> QED
      BY <1>7, <3>1, <3>2 DEF HeldInv
  <2> QED
    BY <2>1, <2>2, <2>3, <2>4
<1> QED
  BY <1>6, <1>7 DEF HeldInv

\* What a call may write and read
LEMMA HeldFacts ==
  ASSUME FlowInv, HeldInv, todo # <<>>
  PROVE  /\ task.do \in Awaiting => Free(value)
         /\ task.do \in Results =>
              /\ Free(task.target) /\ value # task.target
              /\ Unused(routine, task.target, task.do)
              /\ ~IsVar(sym, task.routine, task.target)
              /\ \A j \in DOMAIN todo : todo[j].do = "right" => todo[j].left # task.target
         /\ task.do = "right" => Free(task.left) /\ task.left # task.target
<1>1. task = todo[1] /\ 1 \in DOMAIN todo /\ routine = routines[task.routine]
  BY TaskFacts DEF FlowInv, routine
<1>2. task.do \in Awaiting => Free(value)
  BY <1>1 DEF HeldInv, Free
<1>3. ASSUME task.do \in Results
      PROVE  /\ Free(task.target) /\ value # task.target
             /\ Unused(routine, task.target, task.do)
             /\ ~IsVar(sym, task.routine, task.target)
             /\ \A j \in DOMAIN todo : todo[j].do = "right" => todo[j].left # task.target
  <2>1. Free(task.target)
    BY <1>1, <1>3 DEF HeldInv, Free
  <2> QED
    BY <1>1, <1>3, <2>1 DEF HeldInv, Awaiting
<1>4. ASSUME task.do = "right"
      PROVE  Free(task.left) /\ task.left # task.target
  BY <1>1, <1>4 DEF HeldInv, Free, Results
<1> QED
  BY <1>2, <1>3, <1>4

\* The next temp is as good as any, and the variables are nobody's result.
LEMMA NextFacts ==
  ASSUME FlowInv, TempInv, HeldInv, todo # <<>>
  PROVE  LET t == NextTemp(routine) IN
         /\ Free(t)
         /\ \A do : Unused(routine, t, do)
         /\ \A k \in DOMAIN routine.quads : ~Touches(routine.quads[k], t)
         /\ ~IsVar(sym, task.routine, t)
         /\ \A x \in OwnTemps(routine) : x # t
         /\ \A j \in DOMAIN todo : j # 1 /\ todo[j].do = "right" => todo[j].left # t
         /\ \A e : InTable(sym, e) /\ e.routine = task.routine => Free(e.operand)
<1> DEFINE t == NextTemp(routine)
<1>1. /\ task = todo[1] /\ 1 \in DOMAIN todo /\ routine = routines[task.routine]
      /\ task.routine \in DOMAIN routines /\ 0 \notin DOMAIN routines
      /\ routine.temp_count \in Nat /\ routine.param_count \in Nat
      /\ DOMAIN todo = 1 .. Len(todo) /\ Len(todo) \in Nat
  BY TaskFacts, SeqFacts DEF FlowInv, TypeInv, routine
<1>2. t \notin OwnTemps(routine) /\ t \notin 0 .. routine.param_count - 1
  <2>1. routine.param_count <= routine.temp_count
    BY <1>1 DEF TempInv, TempsOfRoutine
  <2> QED
    BY <1>1, <2>1 DEF OwnTemps, NextTemp
<1>3. ASSUME NEW i \in DOMAIN todo, i # 1, todo[i].do \in Awaiting
      PROVE  todo[i].routine = task.routine
  BY <1>1, <1>3 DEF FlowInv, Nested
<1>4. ASSUME NEW i \in DOMAIN todo, i # 1, todo[i].do \in Results
      PROVE  todo[i].target \in OwnTemps(routine)
  <2>1. todo[i].target \in OwnTemps(routines[todo[i].routine])
    BY <1>4 DEF TempInv
  <2> QED
    BY <1>1, <1>3, <1>4, <2>1 DEF Awaiting
<1>5. ASSUME NEW i \in DOMAIN todo, i # 1, todo[i].do = "right"
      PROVE  todo[i].left \in OwnTemps(routine)
  <2>1. todo[i].left \in OwnTemps(routines[todo[i].routine])
    BY <1>5 DEF TempInv
  <2> QED
    BY <1>1, <1>3, <1>5, <2>1 DEF Awaiting, Results
<1>6. ASSUME NEW k \in DOMAIN routine.quads
      PROVE  /\ ~Touches(routine.quads[k], t)
             /\ routine.quads[k].op = "ARG" => routine.quads[k].left # t
  <2>1. /\ Reads(routine.quads[k]) \subseteq OwnTemps(routine)
        /\ Writes(routine.quads[k]) \subseteq OwnTemps(routine)
    BY <1>1 DEF TempInv, TempsOfRoutine, OwnTemps
  <2>2. routine.quads[k].op = "ARG" => routine.quads[k].left \in Reads(routine.quads[k])
    BY DEF Reads
  <2> HIDE DEF t
  <2> QED
    BY <1>2, <2>1, <2>2 DEF Touches
<1>7. ~IsVar(sym, task.routine, t)
  <2>1. SUFFICES ASSUME NEW e, InTable(sym, e), e.routine = task.routine, e.operand = t
                 PROVE  FALSE
    BY DEF IsVar
  <2>2. Sound(e, routines)
    BY <2>1 DEF TempInv
  <2> HIDE DEF t
  <2> QED
    BY <1>1, <1>2, <2>1, <2>2 DEF Sound
<1>8. ASSUME NEW e, InTable(sym, e), e.routine = task.routine, NEW i \in DOMAIN todo, i # 1,
             todo[i].do \in Results
      PROVE  e.operand # todo[i].target
  <2>1. ~IsVar(sym, todo[i].routine, todo[i].target)
    BY <1>8 DEF HeldInv
  <2>2. todo[i].routine = task.routine
    BY <1>3, <1>8 DEF Awaiting
  <2> QED
    BY <1>8, <2>1, <2>2 DEF IsVar
<1>9. \A x \in OwnTemps(routine) : x # t
  BY <1>2
<1>10. Free(t)
  <2> HIDE DEF t
  <2> QED
    BY <1>4, <1>9 DEF Free
<1>11. \A do : Unused(routine, t, do)
  <2> HIDE DEF t
  <2> QED
    BY <1>2, <1>6 DEF Unused
<1>12. \A j \in DOMAIN todo : j # 1 /\ todo[j].do = "right" => todo[j].left # t
  <2> HIDE DEF t
  <2> QED
    BY <1>5, <1>9
<1>13. \A e : InTable(sym, e) /\ e.routine = task.routine => Free(e.operand)
  BY <1>8 DEF Free
<1> QED
  BY <1>6, <1>7, <1>9, <1>10, <1>11, <1>12, <1>13

\* Where no function is called
LEMMA QuietKept ==
  ASSUME FlowInv, ArgInv, todo # <<>>, ~IsCall(task), NEW more, IsSeq(more),
         NEW made \in Nat, NEW tasks, Step(more, task.at, made, tasks),
         \A n \in DOMAIN more : more[n].op \notin {"ARG", "CALL"},
         \A i \in DOMAIN tasks : /\ tasks[i].do # "arg"
                                 /\ tasks[i].do = "exp" => i = 1 /\ tasks[i].k = 0,
         FlowInv', NoNestedArgs'
  PROVE  ArgInv'
<1>1. Args(routines'[task.routine].quads) = Args(routine.quads)
  BY ArgsQuiet
<1>2. \A i \in DOMAIN tasks : IsCall(tasks[i]) => i = 1 /\ tasks[i].do = "exp" /\ tasks[i].k = 0
  BY DEF IsCall
<1>3. ArgFits(Args(routines'[task.routine].quads), tasks)
  BY <1>1, <1>2 DEF ArgFits, Passing
<1> QED
  BY <1>3, ArgKept

\* A step of a statement keeps all of it: no call waits in an expression.
NodeQuads(more) ==
  /\ Len(more) <= 2
  /\ \A n \in DOMAIN more : /\ more[n].op \in {"MOV", "JMP", "RET", "JZ", "LABEL"}
                            /\ n # 1 => more[n].op = "LABEL"
                            /\ more[n].op = "MOV" => more[n].target # more[n].left

NodeTasks(tasks) ==
  \A i \in DOMAIN tasks : /\ tasks[i].do \notin Results \cup {"arg"}
                          /\ tasks[i].do = "exp" => i = 1 /\ tasks[i].k = 0

LEMMA NodeFits ==
  ASSUME FlowInv, FitInv, HeldInv, ArgInv, todo # <<>>, task.do \notin InExp,
         NEW more, IsSeq(more), NEW made \in Nat, NEW tasks,
         Step(more, task.at, made, tasks), NodeQuads(more), NodeTasks(tasks),
         more = <<>> \/ task.do # "params", FlowInv', NoNestedArgs'
  PROVE  FitInv' /\ HeldInv' /\ ArgInv'
<1>0. TypeInv
  BY DEF FlowInv
<1>1. /\ task = todo[1] /\ 1 \in DOMAIN todo /\ routine = routines[task.routine]
      /\ task.routine \in DOMAIN routines /\ DOMAIN todo = 1 .. Len(todo) /\ Len(todo) \in Nat
  BY <1>0, TaskFacts DEF routine
<1>2. ASSUME NEW i \in DOMAIN todo, i # 1
      PROVE  todo[i].do \in Waiting \ Awaiting
  BY <1>1, <1>2 DEF FlowInv, Nested
<1>3. \A i \in DOMAIN todo : todo[i].do \notin Results /\ ~IsCall(todo[i])
  BY <1>1, <1>2 DEF Waiting, Awaiting, Results, InExp, IsCall
<1>4. Args(routine.quads) = {}
  BY <1>1, <1>3 DEF ArgInv, Passing
<1>5. FitNew(more)
  <2>1. 1 \in DOMAIN more => Fits(routine.quads, Len(routine.quads), more[1], routine.param_count)
    <3>1. ArgsAt(routine.quads, Len(routine.quads)) = {}
      BY <1>4 DEF Args
    <3> QED
      BY <3>1 DEF Fits, NodeQuads, Producers, BinaryQuads
  <2> QED
    BY <2>1 DEF FitNew, NodeQuads
<1>6. FitInv'
  BY <1>5, FitKept
<1>7. \A i \in DOMAIN todo' : todo'[i].do \notin Results
  BY <1>0, <1>3, Places DEF NodeTasks
<1>8. HeldInv'
  BY <1>7 DEF HeldInv
<1>9. ArgInv'
  <2>1. ~IsCall(task)
    BY <1>1, <1>3
  <2> QED
    BY <2>1, QuietKept DEF NodeQuads, NodeTasks
<1> QED
  BY <1>6, <1>8, <1>9

\* New quads of an expression
LEMMA ProducerFits ==
  ASSUME TypeInv, todo # <<>>, NEW q, q.op \in Producers, NEW do, do # "logical",
         Unused(routine, q.target, do), q.target \notin Reads(q)
  PROVE  Fits(routine.quads, Len(routine.quads), q, routine.param_count)
BY TaskFacts DEF Fits, Unused, Producers, BinaryQuads

LEMMA MoveFits ==
  ASSUME TypeInv, todo # <<>>, NEW q, q.op = "MOV", NEW do,
         Unused(routine, q.target, do), q.target # q.left
  PROVE  Fits(routine.quads, Len(routine.quads), q, routine.param_count)
BY TaskFacts DEF Fits, Unused, Producers, BinaryQuads, ArgsAt

LEMMA NewFits ==
  ASSUME NEW more
  PROVE  /\ Zero(more) => FitNew(more)
         /\ \A q : /\ One(more, q)
                   /\ Fits(routine.quads, Len(routine.quads), q, routine.param_count)
                   => FitNew(more)
         /\ \A q, r : /\ Two(more, q, r)
                      /\ Fits(routine.quads, Len(routine.quads), q, routine.param_count)
                      /\ r.op \in {"JZ", "JNZ", "LABEL"}
                      => FitNew(more)
<1>1. Zero(more) => FitNew(more)
  BY DEF FitNew, Zero
<1>2. ASSUME NEW q, One(more, q),
             Fits(routine.quads, Len(routine.quads), q, routine.param_count)
      PROVE  FitNew(more)
  BY <1>2 DEF FitNew, One
<1>3. ASSUME NEW q, NEW r, Two(more, q, r), r.op \in {"JZ", "JNZ", "LABEL"},
             Fits(routine.quads, Len(routine.quads), q, routine.param_count)
      PROVE  FitNew(more)
  BY <1>3 DEF FitNew, Two
<1> QED
  BY <1>1, <1>2, <1>3

LEMMA ExpStep ==
  ASSUME FlowInv, FitInv, HeldInv, todo # <<>>, task.do \in InExp, NEW more, IsSeq(more),
         NEW made \in Nat, NEW tasks, Step(more, task.at, made, tasks),
         FitNew(more), HeldFits(more, tasks)
  PROVE  FitInv' /\ HeldInv'
<1>1. task.do # "params"
  BY DEF InExp, Results
<1> QED
  BY <1>1, FitKept, HeldKept

LEMMA ExpFits ==
  ASSUME FlowInv, TempInv, FitInv, HeldInv, ArgInv, NamesAreOwn, FlowInv', NoNestedArgs', GenExp
  PROVE  FitInv' /\ HeldInv' /\ ArgInv'
<1>0. TypeInv
  BY DEF FlowInv
<1>1. CASE GenConst
  <2> DEFINE q == Quad("MOV_IM", NextTemp(routine), this.value, 0)
  <2>1. todo # <<>> /\ task.do = "exp" /\ task.do \in InExp
    BY <1>1 DEF GenConst, Begins, Doing, InExp, Results
  <2>2. PICK more, tasks : One(more, q) /\ Zero(tasks) /\ Step(more, task.at, 1, tasks)
    <3>1. task.at = 0
      BY <2>1, TaskFlow DEF JumpTasks
    <3> QED
      BY <1>0, <1>1, <3>1, GenConstShape
  <2>3. sym' = sym /\ value' = NextTemp(routine)
    BY <1>1 DEF GenConst, ReturnsTemp, Returns
  <2>4. IsSeq(more)
    BY <2>2 DEF One
  <2>5. /\ q.op = "MOV_IM" /\ q.target = NextTemp(routine)
        /\ Reads(q) = {}
        /\ \A x : Touches(q, x) => x \in {NextTemp(routine)}
    BY DEF Quad, Reads, Writes, Touches
  <2> HIDE DEF q
  <2>6. FitNew(more)
    <3>1. Fits(routine.quads, Len(routine.quads), q, routine.param_count)
      <4>1. Unused(routine, q.target, "left") /\ q.target \notin Reads(q)
        BY <2>1, <2>5, NextFacts
      <4> QED
        BY <1>0, <2>1, <2>5, <4>1, ProducerFits DEF Producers
    <3> QED
      BY <2>2, <3>1, NewFits
  <2>7. Free(NextTemp(routine))
    BY <2>1, NextFacts
  <2>8. HeldFits(more, tasks)
    BY <2>2, <2>3, <2>5, <2>7 DEF HeldFits, One, Zero
  <2>9. ArgInv'
    <3>1. ~IsCall(task)
      BY <1>1, <2>1 DEF GenConst, Begins, this, IsCall
    <3>2. \A n \in DOMAIN more : more[n].op \notin {"ARG", "CALL"}
      BY <2>2, <2>5 DEF One
    <3>3. \A i \in DOMAIN tasks : /\ tasks[i].do # "arg"
                                  /\ tasks[i].do = "exp" => i = 1 /\ tasks[i].k = 0
      BY <2>2 DEF Zero
    <3> QED
      BY <2>1, <2>2, <2>4, <3>1, <3>2, <3>3, QuietKept
  <2> QED
    BY <2>1, <2>2, <2>4, <2>6, <2>8, <2>9, ExpStep
<1>2. CASE GenVar
  <2>1. todo # <<>> /\ task.do = "exp" /\ task.do \in InExp
    BY <1>2 DEF GenVar, Begins, Doing, InExp, Results
  <2>2. PICK more, tasks : Zero(more) /\ Zero(tasks) /\ Step(more, task.at, 0, tasks)
    <3>1. task.at = 0
      BY <2>1, TaskFlow DEF JumpTasks
    <3> QED
      BY <1>0, <1>2, <3>1, GenVarShape
  <2>3. sym' = sym /\ value' = Sym!Lookup(this.name).operand
    BY <1>2 DEF GenVar, Returns
  <2>4. IsSeq(more)
    BY <2>2 DEF Zero
  <2>5. FitNew(more)
    BY <2>2, NewFits
  <2>6. Free(Sym!Lookup(this.name).operand)
    <3>1. Begins("exp", "VAR")
      BY <1>2 DEF GenVar
    <3> QED
      BY <2>1, <3>1, NameFacts, NextFacts
  <2>7. HeldFits(more, tasks)
    BY <2>2, <2>3, <2>6 DEF HeldFits, Zero
  <2>8. ArgInv'
    <3>1. ~IsCall(task)
      BY <1>2, <2>1 DEF GenVar, Begins, this, IsCall
    <3>2. \A n \in DOMAIN more : more[n].op \notin {"ARG", "CALL"}
      BY <2>2 DEF Zero
    <3>3. \A i \in DOMAIN tasks : /\ tasks[i].do # "arg"
                                  /\ tasks[i].do = "exp" => i = 1 /\ tasks[i].k = 0
      BY <2>2 DEF Zero
    <3> QED
      BY <2>1, <2>2, <2>4, <3>1, <3>2, <3>3, QuietKept
  <2> QED
    BY <2>1, <2>2, <2>4, <2>5, <2>7, <2>8, ExpStep
<1>3. CASE GenArg
  <2> DEFINE a == For("exp", this.args[task.k + 1])
             b == Turned("arg", task.target, task.left, task.at, task.k)
  <2>1. todo # <<>> /\ task.do = "exp" /\ task.do \in InExp
    BY <1>3 DEF GenArg, Begins, Doing, InExp, Results
  <2>2. PICK more, tasks : Zero(more) /\ Two(tasks, a, b) /\ Step(more, task.at, 0, tasks)
    <3>1. task.at = 0
      BY <2>1, TaskFlow DEF JumpTasks
    <3> QED
      BY <1>0, <1>3, <3>1, GenArgShape
  <2>3. sym' = sym
    BY <1>3 DEF GenArg, Awaits
  <2>4. IsSeq(more)
    BY <2>2 DEF Zero
  <2>5. /\ a.do = "exp" /\ a.k = 0
        /\ b.do = "arg" /\ b.k = task.k /\ b.of = task.of /\ b.routine = task.routine
    BY DEF For, Task, Turned
  <2> HIDE DEF a, b
  <2>6. FitNew(more)
    BY <2>2, NewFits
  <2>7. HeldFits(more, tasks)
    BY <2>2, <2>3, <2>5 DEF HeldFits, Two, Zero, Awaiting, Results
  <2>8. ArgInv'
    <3>1. IsCall(task) /\ task.of.kind = "CALL"
      BY <1>3, <2>1 DEF GenArg, Begins, this, IsCall
    <3>2. Cardinality(Args(routine.quads)) = task.k
      BY <2>1, <3>1, CountIs
    <3>3. Args(routines'[task.routine].quads) = Args(routine.quads)
      BY <2>1, <2>2, <2>4, ArgsQuiet DEF Zero
    <3>4. task.k = 0 => Args(routine.quads) = {}
      BY <2>1, <3>2, ArgsNone
    <3>5. ArgFits(Args(routines'[task.routine].quads), tasks)
      BY <2>2, <2>5, <3>1, <3>2, <3>3, <3>4 DEF ArgFits, Two, Passing, IsCall
    <3> QED
      BY <2>1, <2>2, <2>4, <3>5, ArgKept
  <2> QED
    BY <2>1, <2>2, <2>4, <2>6, <2>7, <2>8, ExpStep
<1>4. CASE ArgEnds
  <2> DEFINE q == Quad("ARG", task.k, value, 0)
             a == Turned("exp", task.target, task.left, task.at, task.k + 1)
  <2>1. todo # <<>> /\ task.do = "arg" /\ task.do \in InExp
    BY <1>4 DEF ArgEnds, Begins, Doing, InExp, Results
  <2>2. PICK more, tasks : One(more, q) /\ One(tasks, a) /\ Step(more, task.at, 0, tasks)
    <3>1. task.at = 0
      BY <2>1, TaskFlow DEF JumpTasks
    <3> QED
      BY <1>0, <1>4, <3>1, ArgEndsShape
  <2>3. sym' = sym
    BY <1>4 DEF ArgEnds, Emits
  <2>4. IsSeq(more)
    BY <2>2 DEF One
  <2>5. /\ q.op = "ARG" /\ q.target = task.k /\ q.left = value
        /\ Reads(q) = {value}
        /\ \A x : Touches(q, x) => x \in {value}
    BY DEF Quad, Reads, Writes, Touches
  <2>6. a.do = "exp" /\ a.k = task.k + 1 /\ a.of = task.of /\ a.routine = task.routine
    BY DEF For, Task, Turned
  <2> HIDE DEF q, a
  <2>7. FitNew(more)
    <3>1. Fits(routine.quads, Len(routine.quads), q, routine.param_count)
      <4>1. Cardinality(Args(routine.quads)) = task.k
        BY <2>1, CountIs DEF IsCall
      <4> QED
        BY <2>5, <4>1 DEF Fits, Producers, BinaryQuads, Args
    <3> QED
      BY <2>2, <3>1, NewFits
  <2>8. Free(value)
    BY <2>1, HeldFacts DEF Awaiting, Results
  <2>9. HeldFits(more, tasks)
    BY <2>2, <2>3, <2>5, <2>6, <2>8 DEF HeldFits, One, Awaiting, Results
  <2>10. ArgInv'
    <3>1. IsCall(task) /\ task.of.kind = "CALL"
      <4>1. task = todo[1] /\ 1 \in DOMAIN todo
        BY <1>0, <2>1, TaskFacts
      <4> QED
        BY <2>1, <4>1 DEF ArgInv, IsCall
    <3>2. Cardinality(Args(routine.quads)) = task.k
      BY <2>1, <3>1, CountIs
    <3>3. Cardinality(Args(routines'[task.routine].quads)) = task.k + 1
      BY <2>1, <2>2, <2>5, <3>2, ArgsOne
    <3>4. task.k + 1 # 0
      BY <1>0, <2>1, TaskNats
    <3>5. ArgFits(Args(routines'[task.routine].quads), tasks)
      BY <2>2, <2>6, <3>1, <3>3, <3>4 DEF ArgFits, One, Passing, IsCall
    <3> QED
      BY <2>1, <2>2, <2>4, <3>5, ArgKept
  <2> QED
    BY <2>1, <2>2, <2>4, <2>7, <2>9, <2>10, ExpStep
<1>5. CASE GenCall
  <2> DEFINE q == Quad("CALL", NextTemp(routine), Sym!Lookup(this.func).operand, 0)
  <2>1. todo # <<>> /\ task.do = "exp" /\ task.do \in InExp
    BY <1>5 DEF GenCall, Begins, Doing, InExp, Results
  <2>2. PICK more, tasks : One(more, q) /\ Zero(tasks) /\ Step(more, task.at, 1, tasks)
    <3>1. task.at = 0
      BY <2>1, TaskFlow DEF JumpTasks
    <3> QED
      BY <1>0, <1>5, <3>1, GenCallShape
  <2>3. sym' = sym /\ value' = NextTemp(routine)
    BY <1>5 DEF GenCall, ReturnsTemp, Returns
  <2>4. IsSeq(more)
    BY <2>2 DEF One
  <2>5. /\ q.op = "CALL" /\ q.target = NextTemp(routine)
        /\ Reads(q) = {}
        /\ \A x : Touches(q, x) => x \in {NextTemp(routine)}
    BY DEF Quad, Reads, Writes, Touches
  <2> HIDE DEF q
  <2>6. FitNew(more)
    <3>1. Fits(routine.quads, Len(routine.quads), q, routine.param_count)
      <4>1. Unused(routine, q.target, "left") /\ q.target \notin Reads(q)
        BY <2>1, <2>5, NextFacts
      <4> QED
        BY <1>0, <2>1, <2>5, <4>1, ProducerFits DEF Producers
    <3> QED
      BY <2>2, <3>1, NewFits
  <2>7. Free(NextTemp(routine))
    BY <2>1, NextFacts
  <2>8. HeldFits(more, tasks)
    BY <2>2, <2>3, <2>5, <2>7 DEF HeldFits, One, Zero
  <2>9. ArgInv'
    <3>1. IsCall(task) /\ task.of.kind = "CALL"
      BY <1>5, <2>1 DEF GenCall, Begins, this, IsCall
    <3>2. Cardinality(Args(routine.quads)) = task.k
      BY <2>1, <3>1, CountIs
    <3>3. Args(routines'[task.routine].quads) = {}
      BY <2>1, <2>2, <2>5, ArgsOne
    <3>4. ArgFits(Args(routines'[task.routine].quads), tasks)
      BY <2>2, <3>1, <3>3 DEF ArgFits, Zero
    <3> QED
      BY <2>1, <2>2, <2>4, <3>4, ArgKept
  <2> QED
    BY <2>1, <2>2, <2>4, <2>6, <2>8, <2>9, ExpStep
<1>6. CASE GenUnary
  <2> DEFINE a == For("exp", this.operand)
             b == For("unary", this)
  <2>1. todo # <<>> /\ task.do = "exp" /\ task.do \in InExp
    BY <1>6 DEF GenUnary, Begins, Doing, InExp, Results
  <2>2. PICK more, tasks : Zero(more) /\ Two(tasks, a, b) /\ Step(more, task.at, 0, tasks)
    <3>1. task.at = 0
      BY <2>1, TaskFlow DEF JumpTasks
    <3> QED
      BY <1>0, <1>6, <3>1, GenUnaryShape
  <2>3. sym' = sym
    BY <1>6 DEF GenUnary, Awaits
  <2>4. IsSeq(more)
    BY <2>2 DEF Zero
  <2>5. /\ a.do = "exp" /\ a.k = 0
        /\ b.do = "unary"
    BY DEF For, Task, Turned
  <2> HIDE DEF a, b
  <2>6. FitNew(more)
    BY <2>2, NewFits
  <2>7. HeldFits(more, tasks)
    BY <2>2, <2>3, <2>5 DEF HeldFits, Two, Zero, Awaiting, Results
  <2>8. ArgInv'
    <3>1. ~IsCall(task)
      BY <1>6, <2>1 DEF GenUnary, Begins, this, IsCall
    <3>2. \A n \in DOMAIN more : more[n].op \notin {"ARG", "CALL"}
      BY <2>2 DEF Zero
    <3>3. \A i \in DOMAIN tasks : /\ tasks[i].do # "arg"
                                  /\ tasks[i].do = "exp" => i = 1 /\ tasks[i].k = 0
      BY <2>2, <2>5 DEF Two
    <3> QED
      BY <2>1, <2>2, <2>4, <3>1, <3>2, <3>3, QuietKept
  <2> QED
    BY <2>1, <2>2, <2>4, <2>6, <2>7, <2>8, ExpStep
<1>7. CASE UnaryEnds
  <2> DEFINE q == Quad(this.op, NextTemp(routine), value, 0)
  <2>1. todo # <<>> /\ task.do = "unary" /\ task.do \in InExp
    BY <1>7 DEF UnaryEnds, Begins, Doing, InExp, Results
  <2>2. PICK more, tasks : One(more, q) /\ Zero(tasks) /\ Step(more, task.at, 1, tasks)
    <3>1. task.at = 0
      BY <2>1, TaskFlow DEF JumpTasks
    <3> QED
      BY <1>0, <1>7, <3>1, UnaryEndsShape
  <2>3. sym' = sym /\ value' = NextTemp(routine)
    BY <1>7 DEF UnaryEnds, ReturnsTemp, Returns
  <2>4. IsSeq(more)
    BY <2>2 DEF One
  <2>5. /\ q.op \in {"NOT", "NEG"} /\ q.target = NextTemp(routine)
        /\ Reads(q) = {value}
        /\ \A x : Touches(q, x) => x \in {NextTemp(routine), value}
    <3>1. this.op \in {"NOT", "NEG"}
      BY <1>7 DEF UnaryEnds
    <3> QED
      BY <3>1 DEF Quad, Reads, Writes, Touches
  <2> HIDE DEF q
  <2>6. FitNew(more)
    <3>1. Fits(routine.quads, Len(routine.quads), q, routine.param_count)
      <4>1. Unused(routine, q.target, "left")
        BY <2>1, <2>5, NextFacts
      <4>2. q.target \notin Reads(q)
        BY <2>1, <2>5, NextFacts, TaskTemps DEF Awaiting
      <4> QED
        BY <1>0, <2>1, <2>5, <4>1, <4>2, ProducerFits DEF Producers
    <3> QED
      BY <2>2, <3>1, NewFits
  <2>7. Free(NextTemp(routine)) /\ Free(value)
    BY <2>1, NextFacts, HeldFacts DEF Awaiting, Results
  <2>8. HeldFits(more, tasks)
    BY <2>2, <2>3, <2>5, <2>7 DEF HeldFits, One, Zero
  <2>9. ArgInv'
    <3>1. ~IsCall(task)
      BY <2>1 DEF IsCall
    <3>2. \A n \in DOMAIN more : more[n].op \notin {"ARG", "CALL"}
      BY <2>2, <2>5 DEF One
    <3>3. \A i \in DOMAIN tasks : /\ tasks[i].do # "arg"
                                  /\ tasks[i].do = "exp" => i = 1 /\ tasks[i].k = 0
      BY <2>2 DEF Zero
    <3> QED
      BY <2>1, <2>2, <2>4, <3>1, <3>2, <3>3, QuietKept
  <2> QED
    BY <2>1, <2>2, <2>4, <2>6, <2>8, <2>9, ExpStep
<1>8. CASE GenBinary
  <2> DEFINE a == For("exp", this.left)
             b == [For("left", this) EXCEPT !.target = NextTemp(routine)]
  <2>1. todo # <<>> /\ task.do = "exp" /\ task.do \in InExp
    BY <1>8 DEF GenBinary, Begins, Doing, InExp, Results
  <2>2. PICK more, tasks : Zero(more) /\ Two(tasks, a, b) /\ Step(more, task.at, 1, tasks)
    <3>1. task.at = 0
      BY <2>1, TaskFlow DEF JumpTasks
    <3> QED
      BY <1>0, <1>8, <3>1, GenBinaryShape
  <2>3. sym' = sym
    BY <1>8 DEF GenBinary, Emits
  <2>4. IsSeq(more)
    BY <2>2 DEF Zero
  <2>5. /\ a.do = "exp" /\ a.k = 0
        /\ b.do = "left" /\ b.routine = task.routine /\ b.target = NextTemp(routine)
    BY DEF For, Task, Turned
  <2> HIDE DEF a, b
  <2>6. FitNew(more)
    BY <2>2, NewFits
  <2>7. Free(NextTemp(routine))
    BY <2>1, NextFacts
  <2>8. /\ Unused(routines'[task.routine], NextTemp(routine), "left")
        /\ ~IsVar(sym, task.routine, NextTemp(routine))
        /\ \A j \in DOMAIN todo : j # 1 /\ todo[j].do = "right" => todo[j].left # NextTemp(routine)
    <3>1. Unused(routine, NextTemp(routine), "left")
      BY <2>1, NextFacts
    <3>2. \A n \in DOMAIN more : ~Touches(more[n], NextTemp(routine))
      BY <2>2, <2>5 DEF Zero
    <3>3. Unused(routines'[task.routine], NextTemp(routine), "left")
      <4>1. task.do # "params"
        BY <2>1
      <4> QED
        BY <2>1, <2>2, <2>4, <3>1, <3>2, <4>1, UnusedKept
    <3> QED
      BY <2>1, <3>3, NextFacts
  <2>9. HeldFits(more, tasks)
    BY <2>2, <2>3, <2>5, <2>7, <2>8 DEF HeldFits, Two, Zero, Awaiting, Results
  <2>10. ArgInv'
    <3>1. ~IsCall(task)
      BY <1>8, <2>1 DEF GenBinary, Begins, this, IsCall
    <3>2. \A n \in DOMAIN more : more[n].op \notin {"ARG", "CALL"}
      BY <2>2 DEF Zero
    <3>3. \A i \in DOMAIN tasks : /\ tasks[i].do # "arg"
                                  /\ tasks[i].do = "exp" => i = 1 /\ tasks[i].k = 0
      BY <2>2, <2>5 DEF Two
    <3> QED
      BY <2>1, <2>2, <2>4, <3>1, <3>2, <3>3, QuietKept
  <2> QED
    BY <2>1, <2>2, <2>4, <2>6, <2>9, <2>10, ExpStep
<1>9. CASE LeftEnds
  <2> DEFINE a == For("exp", this.right)
             b == Turned("right", task.target, value, task.at, task.k)
  <2>1. todo # <<>> /\ task.do = "left" /\ task.do \in InExp
    BY <1>9 DEF LeftEnds, Begins, Doing, InExp, Results
  <2>2. PICK more, tasks : Zero(more) /\ Two(tasks, a, b) /\ Step(more, task.at, 0, tasks)
    <3>1. task.at = 0
      BY <2>1, TaskFlow DEF JumpTasks
    <3> QED
      BY <1>0, <1>9, <3>1, LeftEndsShape
  <2>3. sym' = sym
    BY <1>9 DEF LeftEnds, Awaits
  <2>4. IsSeq(more)
    BY <2>2 DEF Zero
  <2>5. /\ a.do = "exp" /\ a.k = 0
        /\ b.do = "right" /\ b.routine = task.routine /\ b.target = task.target /\ b.left = value
    BY DEF For, Task, Turned
  <2> HIDE DEF a, b
  <2>6. FitNew(more)
    BY <2>2, NewFits
  <2>7. Free(task.target) /\ Free(value)
    BY <2>1, HeldFacts DEF Awaiting, Results
  <2>8. /\ Unused(routines'[task.routine], task.target, "right")
        /\ ~IsVar(sym, task.routine, task.target)
        /\ \A j \in DOMAIN todo : j # 1 /\ todo[j].do = "right" => todo[j].left # task.target
    <3>1. Unused(routine, task.target, "right")
      BY <2>1, HeldFacts DEF Unused, Results
    <3>2. \A n \in DOMAIN more : ~Touches(more[n], task.target)
      BY <2>2, <2>5 DEF Zero
    <3>3. Unused(routines'[task.routine], task.target, "right")
      <4>1. task.do # "params"
        BY <2>1
      <4> QED
        BY <2>1, <2>2, <2>4, <3>1, <3>2, <4>1, UnusedKept
    <3> QED
      BY <2>1, <3>3, HeldFacts DEF Results
  <2>9. value # task.target
    BY <2>1, HeldFacts DEF Results
  <2>10. HeldFits(more, tasks)
    BY <2>2, <2>3, <2>5, <2>7, <2>8, <2>9 DEF HeldFits, Two, Zero, Awaiting, Results
  <2>11. ArgInv'
    <3>1. ~IsCall(task)
      BY <2>1 DEF IsCall
    <3>2. \A n \in DOMAIN more : more[n].op \notin {"ARG", "CALL"}
      BY <2>2 DEF Zero
    <3>3. \A i \in DOMAIN tasks : /\ tasks[i].do # "arg"
                                  /\ tasks[i].do = "exp" => i = 1 /\ tasks[i].k = 0
      BY <2>2, <2>5 DEF Two
    <3> QED
      BY <2>1, <2>2, <2>4, <3>1, <3>2, <3>3, QuietKept
  <2> QED
    BY <2>1, <2>2, <2>4, <2>6, <2>10, <2>11, ExpStep
<1>10. CASE BinaryEnds
  <2> DEFINE q == Quad(OpOf(this), task.target, task.left, value)
  <2>1. todo # <<>> /\ task.do = "right" /\ task.do \in InExp
    BY <1>10 DEF BinaryEnds, Begins, Doing, InExp, Results
  <2>2. PICK more, tasks : One(more, q) /\ Zero(tasks) /\ Step(more, task.at, 0, tasks)
    <3>1. task.at = 0
      BY <2>1, TaskFlow DEF JumpTasks
    <3> QED
      BY <1>0, <1>10, <3>1, BinaryEndsShape
  <2>3. sym' = sym /\ value' = task.target
    BY <1>10 DEF BinaryEnds, Returns
  <2>4. IsSeq(more)
    BY <2>2 DEF One
  <2>5. /\ q.op \in BinaryQuads /\ q.target = task.target
        /\ Reads(q) = {task.left, value}
        /\ \A x : Touches(q, x) => x \in {task.target, task.left, value}
    <3>1. OpOf(this) \in BinaryQuads
      BY <1>10, OpOfIs DEF BinaryEnds
    <3> QED
      BY <3>1 DEF Quad, Reads, Writes, Touches, BinaryQuads
  <2> HIDE DEF q
  <2>6. FitNew(more)
    <3>1. Fits(routine.quads, Len(routine.quads), q, routine.param_count)
      <4>1. Unused(routine, q.target, "right") /\ q.target \notin Reads(q)
        BY <2>1, <2>5, HeldFacts DEF Results
      <4> QED
        BY <1>0, <2>1, <2>5, <4>1, ProducerFits DEF Producers
    <3> QED
      BY <2>2, <3>1, NewFits
  <2>7. Free(task.target) /\ Free(task.left) /\ Free(value)
    BY <2>1, HeldFacts DEF Awaiting, Results
  <2>8. HeldFits(more, tasks)
    BY <2>2, <2>3, <2>5, <2>7 DEF HeldFits, One, Zero
  <2>9. ArgInv'
    <3>1. ~IsCall(task)
      BY <2>1 DEF IsCall
    <3>2. \A n \in DOMAIN more : more[n].op \notin {"ARG", "CALL"}
      BY <2>2, <2>5 DEF One, BinaryQuads
    <3>3. \A i \in DOMAIN tasks : /\ tasks[i].do # "arg"
                                  /\ tasks[i].do = "exp" => i = 1 /\ tasks[i].k = 0
      BY <2>2 DEF Zero
    <3> QED
      BY <2>1, <2>2, <2>4, <3>1, <3>2, <3>3, QuietKept
  <2> QED
    BY <2>1, <2>2, <2>4, <2>6, <2>8, <2>9, ExpStep
<1>11. CASE GenLogical
  <2> DEFINE q == Quad("MOV", task.target, value, 0)
             r == Quad(IF this.op = "AND" THEN "JZ" ELSE "JNZ", 0, task.target, 0)
             a == For("exp", this.right)
             b == Turned("logical", task.target, task.left, Len(routine.quads) + 2, task.k)
  <2>1. todo # <<>> /\ task.do = "left" /\ task.do \in InExp
    BY <1>11 DEF GenLogical, SkipRight, Begins, Doing, InExp, Results
  <2>2. PICK more, tasks : Two(more, q, r) /\ Two(tasks, a, b) /\ Step(more, task.at, 0, tasks)
    <3>1. task.at = 0
      BY <2>1, TaskFlow DEF JumpTasks
    <3> QED
      BY <1>0, <1>11, <3>1, GenLogicalShape
  <2>3. sym' = sym
    BY <1>11 DEF GenLogical, SkipRight, Emits
  <2>4. IsSeq(more)
    BY <2>2 DEF Two
  <2>5. /\ q.op = "MOV" /\ q.target = task.target /\ q.left = value
        /\ Reads(q) = {value}
        /\ \A x : Touches(q, x) => x \in {task.target, value}
    BY DEF Quad, Reads, Writes, Touches
  <2>6. r.op \in {"JZ", "JNZ"} /\ \A x : Touches(r, x) => x \in {task.target}
    BY DEF Quad, Reads, Writes, Touches
  <2>7. /\ a.do = "exp" /\ a.k = 0
        /\ b.do = "logical" /\ b.routine = task.routine /\ b.target = task.target
    BY DEF For, Task, Turned
  <2> HIDE DEF q, r, a, b
  <2>8. FitNew(more)
    <3>1. Fits(routine.quads, Len(routine.quads), q, routine.param_count)
      <4>1. Unused(routine, q.target, task.do) /\ q.target # q.left
        BY <2>1, <2>5, HeldFacts DEF Results
      <4> QED
        BY <1>0, <2>1, <2>5, <4>1, MoveFits
    <3> QED
      BY <2>2, <3>1, <2>6, NewFits
  <2>9. Free(task.target) /\ Free(value)
    BY <2>1, HeldFacts DEF Awaiting, Results
  <2>10. /\ Unused(routines'[task.routine], task.target, "logical")
        /\ ~IsVar(sym, task.routine, task.target)
        /\ \A j \in DOMAIN todo : j # 1 /\ todo[j].do = "right" => todo[j].left # task.target
    <3>1. Unused(routine, task.target, "logical")
      BY <2>1, HeldFacts DEF Unused, Results
    <3>2. \A n \in DOMAIN more : Touches(more[n], task.target) => more[n].op # "ARG"
      BY <2>2, <2>5, <2>6, <2>7 DEF Two
    <3>3. Unused(routines'[task.routine], task.target, "logical")
      <4>1. task.do # "params"
        BY <2>1
      <4> QED
        BY <2>1, <2>2, <2>4, <3>1, <3>2, <4>1, UnusedKept
    <3> QED
      BY <2>1, <3>3, HeldFacts DEF Results
  <2>11. HeldFits(more, tasks)
    BY <2>2, <2>3, <2>5, <2>6, <2>7, <2>9, <2>10 DEF HeldFits, Two, Awaiting, Results
  <2>12. ArgInv'
    <3>1. ~IsCall(task)
      BY <2>1 DEF IsCall
    <3>2. \A n \in DOMAIN more : more[n].op \notin {"ARG", "CALL"}
      BY <2>2, <2>5, <2>6 DEF Two
    <3>3. \A i \in DOMAIN tasks : /\ tasks[i].do # "arg"
                                  /\ tasks[i].do = "exp" => i = 1 /\ tasks[i].k = 0
      BY <2>2, <2>7 DEF Two
    <3> QED
      BY <2>1, <2>2, <2>4, <3>1, <3>2, <3>3, QuietKept
  <2> QED
    BY <2>1, <2>2, <2>4, <2>8, <2>11, <2>12, ExpStep
<1>12. CASE LogicalEnds
  <2> DEFINE q == Quad("MOV", task.target, value, 0)
             r == LabelQuad(Len(routine.quads) + 1)
  <2>1. todo # <<>> /\ task.do = "logical" /\ task.do \in InExp
    BY <1>12 DEF LogicalEnds, Begins, Doing, InExp, Results
  <2>2. PICK more, tasks : Two(more, q, r) /\ Zero(tasks) /\ Step(more, task.at, 0, tasks)
    <3>1. task.at \in DOMAIN routine.quads
      BY <2>1, TaskFlow DEF JumpTasks
    <3> QED
      BY <1>0, <1>12, <3>1, LogicalEndsShape
  <2>3. sym' = sym /\ value' = task.target
    BY <1>12 DEF LogicalEnds, Returns
  <2>4. IsSeq(more)
    BY <2>2 DEF Two
  <2>5. /\ q.op = "MOV" /\ q.target = task.target /\ q.left = value
        /\ Reads(q) = {value}
        /\ \A x : Touches(q, x) => x \in {task.target, value}
    BY DEF Quad, Reads, Writes, Touches
  <2>6. r.op = "LABEL" /\ \A x : Touches(r, x) => x \in {}
    BY DEF Quad, Reads, Writes, Touches, LabelQuad
  <2> HIDE DEF q, r
  <2>7. FitNew(more)
    <3>1. Fits(routine.quads, Len(routine.quads), q, routine.param_count)
      <4>1. Unused(routine, q.target, task.do) /\ q.target # q.left
        BY <2>1, <2>5, HeldFacts DEF Results
      <4> QED
        BY <1>0, <2>1, <2>5, <4>1, MoveFits
    <3> QED
      BY <2>2, <3>1, <2>6, NewFits
  <2>8. Free(task.target) /\ Free(value)
    BY <2>1, HeldFacts DEF Awaiting, Results
  <2>9. HeldFits(more, tasks)
    BY <2>2, <2>3, <2>5, <2>6, <2>8 DEF HeldFits, Two, Zero
  <2>10. ArgInv'
    <3>1. ~IsCall(task)
      BY <2>1 DEF IsCall
    <3>2. \A n \in DOMAIN more : more[n].op \notin {"ARG", "CALL"}
      BY <2>2, <2>5, <2>6 DEF Two
    <3>3. \A i \in DOMAIN tasks : /\ tasks[i].do # "arg"
                                  /\ tasks[i].do = "exp" => i = 1 /\ tasks[i].k = 0
      BY <2>2 DEF Zero
    <3> QED
      BY <2>1, <2>2, <2>4, <3>1, <3>2, <3>3, QuietKept
  <2> QED
    BY <2>1, <2>2, <2>4, <2>7, <2>9, <2>10, ExpStep
<1> QED
  BY <1>1, <1>2, <1>3, <1>4, <1>5, <1>6, <1>7, <1>8, <1>9, <1>10, <1>11, <1>12 DEF GenExp

LEMMA StatementFits ==
  ASSUME FlowInv, FitInv, HeldInv, ArgInv, NoSelfMove, FlowInv', NoNestedArgs', GenNode
  PROVE  FitInv' /\ HeldInv' /\ ArgInv'
<1>0. TypeInv
  BY DEF FlowInv
<1>1. CASE GenEmpty
  <2>1. todo # <<>> /\ task.do = "node"
    BY <1>1 DEF GenEmpty, Begins, Doing
  <2>2. PICK more, tasks :
          /\ Zero(more)
          /\ Zero(tasks)
          /\ Step(more, task.at, 0, tasks)
    <3>1. task.at = 0
      BY <2>1, TaskFlow DEF JumpTasks
    <3> QED
      BY <1>0, <1>1, <3>1, GenEmptyShape
  <2>3. IsSeq(more) /\ NodeQuads(more)
    BY <2>2 DEF NodeQuads, Zero
  <2>4. NodeTasks(tasks)
    BY <2>2 DEF NodeTasks, Zero, Results
  <2>5. task.do \notin InExp /\ task.do # "params"
    BY <2>1 DEF InExp, Results
  <2> QED
    BY <2>1, <2>2, <2>3, <2>4, <2>5, NodeFits
<1>2. CASE GenExpNode
  <2>1. todo # <<>> /\ task.do = "node"
    BY <1>2 DEF GenExpNode, Begins, Doing
  <2>2. PICK more, tasks :
          /\ Zero(more)
          /\ One(tasks, For("exp", this.exp))
          /\ Step(more, task.at, 0, tasks)
    <3>1. task.at = 0
      BY <2>1, TaskFlow DEF JumpTasks
    <3> QED
      BY <1>0, <1>2, <3>1, GenExpNodeShape
  <2>3. IsSeq(more) /\ NodeQuads(more)
    BY <2>2 DEF NodeQuads, Zero
  <2>4. NodeTasks(tasks)
    BY <2>2 DEF NodeTasks, One, For, Task, Turned, Results
  <2>5. task.do \notin InExp /\ task.do # "params"
    BY <2>1 DEF InExp, Results
  <2> QED
    BY <2>1, <2>2, <2>3, <2>4, <2>5, NodeFits
<1>3. CASE GenAssign
  <2>1. todo # <<>> /\ task.do = "node"
    BY <1>3 DEF GenAssign, Begins, Doing
  <2>2. PICK more, tasks :
          /\ Zero(more)
          /\ Two(tasks, For("exp", this.value),
                 [For("assign", this) EXCEPT !.target = Sym!Lookup(this.var).operand])
          /\ Step(more, task.at, 0, tasks)
    <3>1. task.at = 0
      BY <2>1, TaskFlow DEF JumpTasks
    <3> QED
      BY <1>0, <1>3, <3>1, GenAssignShape
  <2>3. IsSeq(more) /\ NodeQuads(more)
    BY <2>2 DEF NodeQuads, Zero
  <2>4. NodeTasks(tasks)
    BY <2>2 DEF NodeTasks, Two, For, Task, Turned, Results
  <2>5. task.do \notin InExp /\ task.do # "params"
    BY <2>1 DEF InExp, Results
  <2> QED
    BY <2>1, <2>2, <2>3, <2>4, <2>5, NodeFits
<1>4. CASE AssignEnds
  <2>1. todo # <<>> /\ task.do = "assign"
    BY <1>4 DEF AssignEnds, Begins, Doing
  <2>2. PICK more, tasks :
          /\ One(more, Quad("MOV", task.target, value, 0))
          /\ Zero(tasks)
          /\ Step(more, task.at, 0, tasks)
    <3>1. task.at = 0
      BY <2>1, TaskFlow DEF JumpTasks
    <3> QED
      BY <1>0, <1>4, <3>1, AssignEndsShape
  <2>3. task.target # value
    BY <1>4 DEF AssignEnds, NoSelfMove
  <2>4. IsSeq(more) /\ NodeQuads(more)
    BY <2>2, <2>3 DEF NodeQuads, One, Quad
  <2>5. NodeTasks(tasks)
    BY <2>2 DEF NodeTasks, Zero, Results
  <2>6. task.do \notin InExp /\ task.do # "params"
    BY <2>1 DEF InExp, Results
  <2> QED
    BY <2>1, <2>2, <2>4, <2>5, <2>6, NodeFits
<1>5. CASE GenDecl /\ this.init # Nothing
  <2>1. todo # <<>> /\ task.do = "node"
    BY <1>5 DEF GenDecl, Begins, Doing
  <2>2. PICK more, tasks :
          /\ Zero(more)
          /\ Two(tasks, For("exp", this.init), For("decl", this))
          /\ Step(more, task.at, 0, tasks)
    <3>1. task.at = 0
      BY <2>1, TaskFlow DEF JumpTasks
    <3> QED
      BY <1>0, <1>5, <3>1, GenDeclInitShape
  <2>3. IsSeq(more) /\ NodeQuads(more)
    BY <2>2 DEF NodeQuads, Zero
  <2>4. NodeTasks(tasks)
    BY <2>2 DEF NodeTasks, Two, For, Task, Turned, Results
  <2>5. task.do \notin InExp /\ task.do # "params"
    BY <2>1 DEF InExp, Results
  <2> QED
    BY <2>1, <2>2, <2>3, <2>4, <2>5, NodeFits
<1>6. CASE GenReturn /\ this.value # Nothing
  <2>1. todo # <<>> /\ task.do = "node"
    BY <1>6 DEF GenReturn, Begins, Doing
  <2>2. PICK more, tasks :
          /\ Zero(more)
          /\ Two(tasks, For("exp", this.value), For("return", this))
          /\ Step(more, task.at, 0, tasks)
    <3>1. task.at = 0
      BY <2>1, TaskFlow DEF JumpTasks
    <3> QED
      BY <1>0, <1>6, <3>1, GenReturnValueShape
  <2>3. IsSeq(more) /\ NodeQuads(more)
    BY <2>2 DEF NodeQuads, Zero
  <2>4. NodeTasks(tasks)
    BY <2>2 DEF NodeTasks, Two, For, Task, Turned, Results
  <2>5. task.do \notin InExp /\ task.do # "params"
    BY <2>1 DEF InExp, Results
  <2> QED
    BY <2>1, <2>2, <2>3, <2>4, <2>5, NodeFits
<1>7. CASE GenReturn /\ this.value = Nothing
  <2>1. todo # <<>> /\ task.do = "node"
    BY <1>7 DEF GenReturn, Begins, Doing
  <2>2. PICK more, tasks :
          /\ One(more, Quad("RET", 0, 0, 0))
          /\ Zero(tasks)
          /\ Step(more, task.at, 0, tasks)
    <3>1. task.at = 0
      BY <2>1, TaskFlow DEF JumpTasks
    <3> QED
      BY <1>0, <1>7, <3>1, GenReturnShape
  <2>3. IsSeq(more) /\ NodeQuads(more)
    BY <2>2 DEF NodeQuads, One, Quad
  <2>4. NodeTasks(tasks)
    BY <2>2 DEF NodeTasks, Zero, Results
  <2>5. task.do \notin InExp /\ task.do # "params"
    BY <2>1 DEF InExp, Results
  <2> QED
    BY <2>1, <2>2, <2>3, <2>4, <2>5, NodeFits
<1>8. CASE ReturnEnds
  <2>1. todo # <<>> /\ task.do = "return"
    BY <1>8 DEF ReturnEnds, Begins, Doing
  <2>2. PICK more, tasks :
          /\ One(more, Quad("RET", 1, value, 0))
          /\ Zero(tasks)
          /\ Step(more, task.at, 0, tasks)
    <3>1. task.at = 0
      BY <2>1, TaskFlow DEF JumpTasks
    <3> QED
      BY <1>0, <1>8, <3>1, ReturnEndsShape
  <2>3. IsSeq(more) /\ NodeQuads(more)
    BY <2>2 DEF NodeQuads, One, Quad
  <2>4. NodeTasks(tasks)
    BY <2>2 DEF NodeTasks, Zero, Results
  <2>5. task.do \notin InExp /\ task.do # "params"
    BY <2>1 DEF InExp, Results
  <2> QED
    BY <2>1, <2>2, <2>3, <2>4, <2>5, NodeFits
<1>9. CASE GenIf
  <2>1. todo # <<>> /\ task.do = "node"
    BY <1>9 DEF GenIf, Begins, Doing
  <2>2. PICK more, tasks :
          /\ Zero(more)
          /\ Two(tasks, For("exp", this.condition), For("if", this))
          /\ Step(more, task.at, 0, tasks)
    <3>1. task.at = 0
      BY <2>1, TaskFlow DEF JumpTasks
    <3> QED
      BY <1>0, <1>9, <3>1, GenIfShape
  <2>3. IsSeq(more) /\ NodeQuads(more)
    BY <2>2 DEF NodeQuads, Zero
  <2>4. NodeTasks(tasks)
    BY <2>2 DEF NodeTasks, Two, For, Task, Turned, Results
  <2>5. task.do \notin InExp /\ task.do # "params"
    BY <2>1 DEF InExp, Results
  <2> QED
    BY <2>1, <2>2, <2>3, <2>4, <2>5, NodeFits
<1>10. CASE IfCondition
  <2>1. todo # <<>> /\ task.do = "if"
    BY <1>10 DEF IfCondition, Begins, Doing
  <2>2. PICK more, tasks :
          /\ One(more, Quad("JZ", 0, value, 0))
          /\ Two(tasks, For("node", this.then),
                 Turned("then", task.target, task.left, Len(routine.quads) + 1, task.k))
          /\ Step(more, task.at, 0, tasks)
    <3>1. task.at = 0
      BY <2>1, TaskFlow DEF JumpTasks
    <3> QED
      BY <1>0, <1>10, <3>1, IfConditionShape
  <2>3. IsSeq(more) /\ NodeQuads(more)
    BY <2>2 DEF NodeQuads, One, Quad
  <2>4. NodeTasks(tasks)
    BY <2>2 DEF NodeTasks, Two, For, Task, Turned, Results
  <2>5. task.do \notin InExp /\ task.do # "params"
    BY <2>1 DEF InExp, Results
  <2> QED
    BY <2>1, <2>2, <2>3, <2>4, <2>5, NodeFits
<1>11. CASE ThenEnds /\ this.else = Nothing
  <2>1. todo # <<>> /\ task.do = "then"
    BY <1>11 DEF ThenEnds, Begins, Doing
  <2>2. PICK more, tasks :
          /\ One(more, LabelQuad(Len(routine.quads)))
          /\ Zero(tasks)
          /\ Step(more, task.at, 0, tasks)
    <3>1. task.at \in DOMAIN routine.quads
      BY <2>1, TaskFlow DEF JumpTasks
    <3> QED
      BY <1>0, <1>11, <3>1, ThenEndsShape
  <2>3. IsSeq(more) /\ NodeQuads(more)
    BY <2>2 DEF NodeQuads, One, Quad, LabelQuad
  <2>4. NodeTasks(tasks)
    BY <2>2 DEF NodeTasks, Zero, Results
  <2>5. task.do \notin InExp /\ task.do # "params"
    BY <2>1 DEF InExp, Results
  <2> QED
    BY <2>1, <2>2, <2>3, <2>4, <2>5, NodeFits
<1>12. CASE ThenEnds /\ this.else # Nothing
  <2>1. todo # <<>> /\ task.do = "then"
    BY <1>12 DEF ThenEnds, Begins, Doing
  <2>2. PICK more, tasks :
          /\ Two(more, Quad("JMP", 0, 0, 0), LabelQuad(Len(routine.quads) + 1))
          /\ Two(tasks, For("node", this.else),
                 Turned("else", task.target, task.left, Len(routine.quads) + 1, task.k))
          /\ Step(more, task.at, 0, tasks)
    <3>1. task.at \in DOMAIN routine.quads
      BY <2>1, TaskFlow DEF JumpTasks
    <3> QED
      BY <1>0, <1>12, <3>1, ThenEndsElseShape
  <2>3. IsSeq(more) /\ NodeQuads(more)
    BY <2>2 DEF NodeQuads, Two, Quad, LabelQuad
  <2>4. NodeTasks(tasks)
    BY <2>2 DEF NodeTasks, Two, For, Task, Turned, Results
  <2>5. task.do \notin InExp /\ task.do # "params"
    BY <2>1 DEF InExp, Results
  <2> QED
    BY <2>1, <2>2, <2>3, <2>4, <2>5, NodeFits
<1>13. CASE ElseEnds
  <2>1. todo # <<>> /\ task.do = "else"
    BY <1>13 DEF ElseEnds, Begins, Doing
  <2>2. PICK more, tasks :
          /\ One(more, LabelQuad(Len(routine.quads)))
          /\ Zero(tasks)
          /\ Step(more, task.at, 0, tasks)
    <3>1. task.at \in DOMAIN routine.quads
      BY <2>1, TaskFlow DEF JumpTasks
    <3> QED
      BY <1>0, <1>13, <3>1, ElseEndsShape
  <2>3. IsSeq(more) /\ NodeQuads(more)
    BY <2>2 DEF NodeQuads, One, Quad, LabelQuad
  <2>4. NodeTasks(tasks)
    BY <2>2 DEF NodeTasks, Zero, Results
  <2>5. task.do \notin InExp /\ task.do # "params"
    BY <2>1 DEF InExp, Results
  <2> QED
    BY <2>1, <2>2, <2>3, <2>4, <2>5, NodeFits
<1>14. CASE GenWhile
  <2>1. todo # <<>> /\ task.do = "node"
    BY <1>14 DEF GenWhile, Begins, Doing
  <2>2. PICK more, tasks :
          /\ One(more, LabelQuad(Len(routine.quads)))
          /\ Two(tasks, For("exp", this.condition),
                 [For("while", this) EXCEPT !.top = Len(routine.quads)])
          /\ Step(more, task.at, 0, tasks)
    <3>1. task.at = 0
      BY <2>1, TaskFlow DEF JumpTasks
    <3> QED
      BY <1>0, <1>14, <3>1, GenWhileShape
  <2>3. IsSeq(more) /\ NodeQuads(more)
    BY <2>2 DEF NodeQuads, One, Quad, LabelQuad
  <2>4. NodeTasks(tasks)
    BY <2>2 DEF NodeTasks, Two, For, Task, Turned, Results
  <2>5. task.do \notin InExp /\ task.do # "params"
    BY <2>1 DEF InExp, Results
  <2> QED
    BY <2>1, <2>2, <2>3, <2>4, <2>5, NodeFits
<1>15. CASE WhileCondition
  <2>1. todo # <<>> /\ task.do = "while"
    BY <1>15 DEF WhileCondition, Begins, Doing
  <2>2. PICK more, tasks :
          /\ One(more, Quad("JZ", 0, value, 0))
          /\ Two(tasks, For("node", this.body),
                 Turned("loop", task.target, task.left, Len(routine.quads) + 1, task.k))
          /\ Step(more, task.at, 0, tasks)
    <3>1. task.at = 0
      BY <2>1, TaskFlow DEF JumpTasks
    <3> QED
      BY <1>0, <1>15, <3>1, WhileConditionShape
  <2>3. IsSeq(more) /\ NodeQuads(more)
    BY <2>2 DEF NodeQuads, One, Quad
  <2>4. NodeTasks(tasks)
    BY <2>2 DEF NodeTasks, Two, For, Task, Turned, Results
  <2>5. task.do \notin InExp /\ task.do # "params"
    BY <2>1 DEF InExp, Results
  <2> QED
    BY <2>1, <2>2, <2>3, <2>4, <2>5, NodeFits
<1>16. CASE LoopEnds
  <2>1. todo # <<>> /\ task.do = "loop"
    BY <1>16 DEF LoopEnds, Begins, Doing
  <2>2. PICK more, tasks :
          /\ Two(more, Quad("JMP", task.top, 0, 0), LabelQuad(Len(routine.quads) + 1))
          /\ Zero(tasks)
          /\ Step(more, task.at, 0, tasks)
    <3>1. task.at \in DOMAIN routine.quads
      BY <2>1, TaskFlow DEF JumpTasks
    <3> QED
      BY <1>0, <1>16, <3>1, LoopEndsShape
  <2>3. IsSeq(more) /\ NodeQuads(more)
    BY <2>2 DEF NodeQuads, Two, Quad, LabelQuad
  <2>4. NodeTasks(tasks)
    BY <2>2 DEF NodeTasks, Zero, Results
  <2>5. task.do \notin InExp /\ task.do # "params"
    BY <2>1 DEF InExp, Results
  <2> QED
    BY <2>1, <2>2, <2>3, <2>4, <2>5, NodeFits
<1>17. CASE GenStmt
  <2>1. todo # <<>> /\ task.do = "stmts"
    BY <1>17 DEF GenStmt, Begins, Doing
  <2>2. PICK more, tasks :
          /\ Zero(more)
          /\ Two(tasks, For("node", this.stmts[task.k + 1]),
                 Turned(task.do, task.target, task.left, task.at, task.k + 1))
          /\ Step(more, task.at, 0, tasks)
    <3>1. task.at = 0
      BY <2>1, TaskFlow DEF JumpTasks
    <3> QED
      BY <1>0, <1>17, <3>1, GenStmtShape
  <2>3. IsSeq(more) /\ NodeQuads(more)
    BY <2>2 DEF NodeQuads, Zero
  <2>4. NodeTasks(tasks)
    BY <2>1, <2>2 DEF NodeTasks, Two, For, Task, Turned, Results
  <2>5. task.do \notin InExp /\ task.do # "params"
    BY <2>1 DEF InExp, Results
  <2> QED
    BY <2>1, <2>2, <2>3, <2>4, <2>5, NodeFits
<1>18. CASE ParamsEnd
  <2>1. todo # <<>> /\ task.do = "params"
    BY <1>18 DEF ParamsEnd, Begins, Doing
  <2>2. PICK more, tasks :
          /\ Zero(more)
          /\ Two(tasks, For("node", this.body),
                 Turned("leave", task.target, task.left, task.at, task.k))
          /\ Step(more, task.at, 0, tasks)
    <3>1. task.at = 0
      BY <2>1, TaskFlow DEF JumpTasks
    <3> QED
      BY <1>0, <1>18, <3>1, ParamsEndShape
  <2>3. IsSeq(more) /\ NodeQuads(more)
    BY <2>2 DEF NodeQuads, Zero
  <2>4. NodeTasks(tasks)
    BY <2>2 DEF NodeTasks, Two, For, Task, Turned, Results
  <2>5. task.do \notin InExp /\ more = <<>>
    BY <2>1, <2>2, <2>3, SeqFacts DEF InExp, Results, Zero
  <2> QED
    BY <2>1, <2>2, <2>3, <2>4, <2>5, NodeFits
<1>19. CASE GenDecl /\ this.init = Nothing
  <2>1. todo # <<>> /\ task.do = "node"
    BY <1>19 DEF GenDecl, Begins, Doing
  <2>2. PICK more, tasks : Zero(more) /\ Zero(tasks) /\ Step(more, task.at, 1, tasks)
    <3>1. task.at = 0
      BY <2>1, TaskFlow DEF JumpTasks
    <3> QED
      BY <1>0, <1>19, <3>1, GenDeclShape
  <2>3. IsSeq(more) /\ NodeQuads(more)
    BY <2>2 DEF NodeQuads, Zero
  <2>4. NodeTasks(tasks)
    BY <2>2 DEF NodeTasks, Results, Zero
  <2>5. task.do \notin InExp /\ task.do # "params"
    BY <2>1 DEF InExp, Results
  <2> QED
    BY <2>1, <2>2, <2>3, <2>4, <2>5, NodeFits
<1>20. CASE DeclEnds
  <2>1. todo # <<>> /\ task.do = "decl"
    BY <1>20 DEF DeclEnds, Doing
  <2>2. PICK more, tasks : Zero(more) /\ Zero(tasks) /\ Step(more, task.at, 0, tasks)
    <3>1. task.at = 0
      BY <2>1, TaskFlow DEF JumpTasks
    <3> QED
      BY <1>0, <1>20, <3>1, DeclEndsShape
  <2>3. IsSeq(more) /\ NodeQuads(more)
    BY <2>2 DEF NodeQuads, Zero
  <2>4. NodeTasks(tasks)
    BY <2>2 DEF NodeTasks, Results, Zero
  <2>5. task.do \notin InExp /\ task.do # "params"
    BY <2>1 DEF InExp, Results
  <2> QED
    BY <2>1, <2>2, <2>3, <2>4, <2>5, NodeFits
<1>21. CASE ScopeBegins
  <2>1. todo # <<>> /\ task.do \in {"node", "function"}
    BY <1>21 DEF ScopeBegins, Begins, Doing
  <2>2. PICK more, tasks : /\ Zero(more)
                           /\ \E do \in {"stmts", "params"} : One(tasks, For(do, this))
                           /\ Step(more, task.at, 0, tasks)
    <3>1. task.at = 0
      BY <2>1, TaskFlow DEF JumpTasks
    <3>2. PICK do : /\ <<task.do, do>> \in {<<"node", "stmts">>, <<"function", "params">>}
                    /\ \E more, tasks : /\ Zero(more) /\ One(tasks, For(do, this))
                                        /\ Step(more, 0, 0, tasks)
      BY <1>0, <1>21, ScopeBeginsShape
    <3>3. do \in {"stmts", "params"}
      BY <3>2
    <3> QED
      BY <3>1, <3>2, <3>3
  <2>3. IsSeq(more) /\ NodeQuads(more)
    BY <2>2 DEF NodeQuads, Zero
  <2>4. NodeTasks(tasks)
    BY <2>2 DEF NodeTasks, Results, One, For, Task
  <2>5. task.do \notin InExp /\ task.do # "params"
    BY <2>1 DEF InExp, Results
  <2> QED
    BY <2>1, <2>2, <2>3, <2>4, <2>5, NodeFits
<1>22. CASE ScopeEnds
  <2>1. todo # <<>> /\ task.do \in {"stmts", "leave"}
    BY <1>22 DEF ScopeEnds, Doing
  <2>2. PICK more, tasks : Zero(more) /\ Zero(tasks) /\ Step(more, task.at, 0, tasks)
    <3>1. task.at = 0
      BY <2>1, TaskFlow DEF JumpTasks
    <3> QED
      BY <1>0, <1>22, <3>1, ScopeEndsShape
  <2>3. IsSeq(more) /\ NodeQuads(more)
    BY <2>2 DEF NodeQuads, Zero
  <2>4. NodeTasks(tasks)
    BY <2>2 DEF NodeTasks, Results, Zero
  <2>5. task.do \notin InExp /\ task.do # "params"
    BY <2>1 DEF InExp, Results
  <2> QED
    BY <2>1, <2>2, <2>3, <2>4, <2>5, NodeFits
<1>23. CASE AddParam
  <2>1. todo # <<>> /\ task.do = "params"
    BY <1>23 DEF AddParam, ParamIn, Doing
  <2>2. PICK more, tasks :
          /\ Zero(more)
          /\ One(tasks, Turned("params", task.target, task.left, task.at, task.k + 1))
          /\ Step(more, task.at, 1, tasks)
    <3>1. task.at = 0
      BY <2>1, TaskFlow DEF JumpTasks
    <3> QED
      BY <1>0, <1>23, <3>1, AddParamShape
  <2>3. IsSeq(more) /\ NodeQuads(more)
    BY <2>2 DEF NodeQuads, Zero
  <2>4. NodeTasks(tasks)
    BY <2>2 DEF NodeTasks, Results, One, Turned
  <2>5. task.do \notin InExp /\ more = <<>>
    BY <2>1, <2>2, <2>3, SeqFacts DEF InExp, Results, Zero
  <2> QED
    BY <2>1, <2>2, <2>3, <2>4, <2>5, NodeFits
<1>24. CASE GenFunction
  <2>1. todo # <<>> /\ task.do = "node"
    BY <1>24 DEF GenFunction, Begins, Doing
  <2>2. PICK more, tasks :
          /\ Zero(more)
          /\ Zero(tasks) \/ One(tasks, Task(Len(routines) + 1, "function", this))
          /\ Step(more, task.at, 0, tasks)
    <3>1. task.at = 0
      BY <2>1, TaskFlow DEF JumpTasks
    <3> QED
      BY <1>0, <1>24, <3>1, GenFunctionShape
  <2>3. IsSeq(more) /\ NodeQuads(more)
    BY <2>2 DEF NodeQuads, Zero
  <2>4. NodeTasks(tasks)
    BY <2>2 DEF NodeTasks, Results, Zero, One, Task
  <2>5. task.do \notin InExp /\ task.do # "params"
    BY <2>1 DEF InExp, Results
  <2> QED
    BY <2>1, <2>2, <2>3, <2>4, <2>5, NodeFits
<1> QED
  BY <1>1, <1>2, <1>3, <1>4, <1>5, <1>6, <1>7, <1>8, <1>9, <1>10, <1>11, <1>12, <1>13, <1>14,
     <1>15, <1>16, <1>17, <1>18, <1>19, <1>20, <1>21, <1>22, <1>23, <1>24
     DEF GenNode

LEMMA FitStarts ==
  ASSUME gen_ir
  PROVE  FitInv' /\ HeldInv' /\ ArgInv'
<1>1. PICK rt : /\ One(routines', rt) /\ rt.quads = <<>>
                /\ rt.temp_count = 0 /\ rt.param_count = 0
  BY StartShape
<1> DEFINE a == Task(1, "node", block_node(program))
<1>2. One(todo', a) /\ a.do = "node"
  BY StartShape DEF Task
<1> HIDE DEF a
<1>3. FitInv'
  BY <1>1, ShortSeqs DEF FitInv, One
<1>4. HeldInv'
  BY <1>2 DEF HeldInv, Results, One
<1>5. ArgInv'
  <2>1. Args(<<>>) = {}
    BY ShortSeqs DEF Args, ArgsAt
  <2> QED
    BY <1>1, <1>2, <2>1 DEF ArgInv, Passing, IsCall, One
<1> QED
  BY <1>3, <1>4, <1>5

LEMMA FitInits ==
  ASSUME GenInit
  PROVE  FitInv /\ HeldInv /\ ArgInv
<1>1. Zero(routines) /\ Zero(todo)
  BY Tuples DEF GenInit
<1> QED
  BY <1>1 DEF FitInv, HeldInv, ArgInv, Zero

LEMMA FitNext ==
  ASSUME FlowInv, TempInv, FitInv, HeldInv, ArgInv, NamesAreOwn, NoSelfMove,
         FlowInv', NoNestedArgs', [GenNext]_<<program, gen>>
  PROVE  FitInv' /\ HeldInv' /\ ArgInv'
<1>1. CASE GenNext
  BY <1>1, FitStarts, ExpFits, StatementFits DEF GenNext
<1>2. CASE UNCHANGED <<program, gen>>
  BY <1>2 DEF gen, FitInv, HeldInv, ArgInv
<1> QED
  BY <1>1, <1>2

\* While names are in order, no variable is assigned to itself and no call is a
\* later argument of another one, the quads are as CodeRun takes them: the target
\* of an operator or a call is a new temp, ARGs are numbered from 0 up to their
\* CALL with no jump or return and no assignment to what they pass in between,
\* and jumps lead to labels (gen_ir and gen_quad in ir.cpp).
THEOREM QuadsFit ==
  GenSpec /\ []NamesAreOwn /\ []NoSelfMove /\ []NoNestedArgs => []QuadsFitGenerator
<1> DEFINE Inv == FlowInv /\ TempInv /\ FitInv /\ HeldInv /\ ArgInv
<1>1. GenInit => Inv
  BY FlowInits, TempInits, FitInits
<1>2. /\ Inv /\ NamesAreOwn /\ NoSelfMove /\ NoNestedArgs' /\ [GenNext]_<<program, gen>>
      => Inv'
  BY FlowNext, TempNext, FitNext
<1>3. Inv => QuadsFitGenerator
  BY FitIsFit DEF FlowInv, JumpInv
<1> HIDE DEF Inv
<1> QED
  BY <1>1, <1>2, <1>3, PTL DEF GenSpec

-----------------------------------------------------------------------------
(* Programs of which the generator can rely on the rest as well *)

\* S has those parts of its expressions and statements that gen_ir is called for.
HasParts(S) ==
  \A e \in S :
    /\ e.kind = "CALL" => \A n \in Nat : n < Len(e.args) => e.args[n + 1] \in S
    /\ e.kind = "UNARY" => e.operand \in S
    /\ e.kind = "BINARY" => e.left \in S /\ e.right \in S
    /\ e.kind = "EXP" => e.exp \in S
    /\ e.kind = "ASSIGN" => e.value \in S
    /\ e.kind = "DECL" /\ e.init # Nothing => e.init \in S
    /\ e.kind = "RETURN" /\ e.value # Nothing => e.value \in S
    /\ e.kind = "IF" => /\ e.condition \in S /\ e.then \in S
                        /\ e.else # Nothing => e.else \in S
    /\ e.kind = "WHILE" => e.condition \in S /\ e.body \in S
    /\ e.kind = "BLOCK" => \A n \in Nat : n < Len(e.stmts) => e.stmts[n + 1] \in S
    /\ e.kind = "FUNC_DEF" /\ e.body # Nothing => e.body \in S

\* S has all parts of the program, and F only such without calls: among them the
\* arguments but for the first one of a call.  No variable is assigned to itself
\* or has another one for its first value.
IsPlain(S, F) ==
  /\ block_node(program) \in S
  /\ HasParts(S) /\ HasParts(F)
  /\ \A e \in F : e.kind # "CALL"
  /\ \A e \in S :
       /\ e.kind = "CALL" => \A n \in Nat : n # 0 /\ n < Len(e.args) => e.args[n + 1] \in F
       /\ e.kind = "ASSIGN" => ~(e.value.kind = "VAR" /\ e.value.name = e.var)
       /\ e.kind = "DECL" /\ e.init # Nothing => e.init.kind # "VAR"

PlainProgram == \E S, F : IsPlain(S, F)

\* What a call is for
KindFits(t) ==
  /\ t.do = "unary" => t.of.kind = "UNARY"
  /\ t.do \in Results => t.of.kind = "BINARY"
  /\ t.do \in {"if", "then"} => t.of.kind = "IF"
  /\ t.do = "while" => t.of.kind = "WHILE"
  /\ t.do = "stmts" => t.of.kind = "BLOCK"
  /\ t.do \in {"function", "params"} => t.of.kind = "FUNC_DEF" /\ t.of.body # Nothing
  /\ t.do = "assign" => t.of.kind = "ASSIGN"
  /\ t.do = "decl" => t.of.kind = "DECL" /\ t.of.init # Nothing

Storing == {"assign", "decl"}

\* The expression whose value becomes that of a variable
Stored(t) == IF t.do = "assign" THEN t.of.value ELSE t.of.init

\* Every call is for a part of the program: above an argument that is not the
\* first there are no calls of functions, and above a variable is its value.
TreeInv(S, F) ==
  /\ \A i \in DOMAIN todo : todo[i].of \in S /\ KindFits(todo[i])
  /\ \A i, j \in DOMAIN todo : i < j =>
       /\ todo[j].do = "arg" /\ todo[j].k # 0 => todo[i].of \in F
       /\ j = i + 1 /\ todo[j].do \in Storing => todo[i].of = Stored(todo[j])

\* A step that keeps it
TreeFits(S, F, tasks) ==
  /\ \A i \in DOMAIN tasks : LET t == tasks[i] IN
       /\ t.of \in S /\ KindFits(t)
       /\ this \in F => t.of \in F
       /\ task.do \in InExp /\ i = Len(tasks) => t.of = this
  /\ \A i, j \in DOMAIN tasks : i < j =>
       /\ tasks[j].do = "arg" /\ tasks[j].k # 0 => tasks[i].of \in F
       /\ j = i + 1 /\ tasks[j].do \in Storing => tasks[i].of = Stored(tasks[j])

LEMMA TreeKept ==
  ASSUME FlowInv, todo # <<>>, NEW S, NEW F, TreeInv(S, F),
         NEW more, NEW at, NEW made, NEW tasks,
         Step(more, at, made, tasks), TreeFits(S, F, tasks)
  PROVE  TreeInv(S, F)'
<1> DEFINE k(n) == n - Len(tasks) + 1
<1>0. TypeInv
  BY DEF FlowInv
<1>1. /\ task = todo[1] /\ 1 \in DOMAIN todo
      /\ Len(tasks) \in Nat /\ DOMAIN tasks = 1 .. Len(tasks)
  BY <1>0, TaskFacts, Places
<1>2. ASSUME NEW i \in DOMAIN todo'
      PROVE  /\ i \in Nat
             /\ i \in DOMAIN tasks => todo'[i] = tasks[i]
             /\ i \notin DOMAIN tasks => k(i) \in DOMAIN todo /\ 1 < k(i) /\ todo'[i] = todo[k(i)]
  BY <1>0, Places
<1>3. ASSUME NEW i \in DOMAIN todo'
      PROVE  todo'[i].of \in S /\ KindFits(todo'[i])
  <2>1. CASE i \in DOMAIN tasks
    BY <1>2, <2>1 DEF TreeFits
  <2>2. CASE i \notin DOMAIN tasks
    BY <1>2, <2>2 DEF TreeInv
  <2> QED
    BY <2>1, <2>2
<1>4. ASSUME NEW i \in DOMAIN todo', NEW j \in DOMAIN todo', i < j
      PROVE  /\ todo'[j].do = "arg" /\ todo'[j].k # 0 => todo'[i].of \in F
             /\ j = i + 1 /\ todo'[j].do \in Storing => todo'[i].of = Stored(todo'[j])
  <2>1. CASE j \in DOMAIN tasks
    <3>1. i \in DOMAIN tasks
      BY <1>1, <1>2, <1>4, <2>1
    <3> QED
      BY <1>2, <1>4, <2>1, <3>1 DEF TreeFits
  <2>2. CASE j \notin DOMAIN tasks /\ i \in DOMAIN tasks
    <3>1. k(j) \in DOMAIN todo /\ 1 < k(j) /\ todo'[j] = todo[k(j)] /\ todo'[i] = tasks[i]
      BY <1>2, <2>2
    <3>2. ASSUME todo'[j].do = "arg", todo'[j].k # 0
          PROVE  todo'[i].of \in F
      <4>1. this \in F
        BY <1>1, <3>1, <3>2 DEF TreeInv, this
      <4> QED
        BY <2>2, <3>1, <4>1 DEF TreeFits
    <3>3. ASSUME j = i + 1, todo'[j].do \in Storing
          PROVE  todo'[i].of = Stored(todo'[j])
      <4>1. i = Len(tasks) /\ k(j) = 2
        BY <1>1, <1>2, <2>2, <3>3
      <4>2. task.do \in InExp
        BY <1>1, <3>1, <3>3 DEF FlowInv, Nested, Storing, Awaiting
      <4>3. this = Stored(todo[2])
        BY <1>1, <3>1, <3>3, <4>1 DEF TreeInv, this
      <4> QED
        BY <2>2, <3>1, <4>1, <4>2, <4>3 DEF TreeFits
    <3> QED
      BY <3>2, <3>3
  <2>3. CASE j \notin DOMAIN tasks /\ i \notin DOMAIN tasks
    <3>1. /\ k(j) \in DOMAIN todo /\ todo'[j] = todo[k(j)]
          /\ k(i) \in DOMAIN todo /\ todo'[i] = todo[k(i)]
          /\ k(i) < k(j) /\ (j = i + 1 => k(j) = k(i) + 1)
      BY <1>1, <1>2, <1>4, <2>3
    <3> HIDE DEF k
    <3> QED
      BY <3>1 DEF TreeInv
  <2> QED
    BY <2>1, <2>2, <2>3
<1> QED
  BY <1>3, <1>4 DEF TreeInv

-----------------------------------------------------------------------------
(* Values of variables *)

\* No two variables of a routine have one temp.
VarsApart ==
  \A c, d \in DOMAIN sym : \A m \in DOMAIN sym[c], n \in DOMAIN sym[d] :
    /\ sym[c][m].routine # 0 /\ sym[c][m].routine = sym[d][n].routine
    /\ sym[c][m].operand = sym[d][n].operand
    => c = d /\ m = n

\* v is the value of e: the temp of a variable if e is one, and else of none.
Evaluates(e, v) ==
  IF e.kind = "VAR" THEN StandsFor(e.name, task.routine) /\ v = Sym!Lookup(e.name).operand
  ELSE ~IsVar(sym, task.routine, v)

TargetIsVar(t) ==
  t.do = "assign" =>
    StandsFor(t.of.var, t.routine) /\ t.target = Sym!Lookup(t.of.var).operand

StoreInv ==
  /\ \A i \in DOMAIN todo : TargetIsVar(todo[i])
  /\ todo # <<>> /\ task.do \in Storing => Evaluates(Stored(task), value)

LEMMA ScopeOf ==
  ASSUME TypeInv, NEW name, NEW r, StandsFor(name, r)
  PROVE  \E d \in DOMAIN sym : /\ name \in DOMAIN sym[d]
                               /\ Sym!Lookup(name) = sym[d][name] /\ sym[d][name].routine = r
<1> DEFINE S == {d \in DOMAIN sym : Sym!Declares(d, name)}
           Is(k) == Sym!Declares(k, name) /\ \A j \in DOMAIN sym : Sym!Declares(j, name) => j <= k
           n == CHOOSE k \in DOMAIN sym : Is(k)
<1>1. Len(sym) \in Nat /\ DOMAIN sym = 1 .. Len(sym)
  BY SeqFacts DEF TypeInv
<1>2. \E k \in S : \A j \in S : j <= k
  BY <1>1, Innermost DEF StandsFor
<1>3. \E k \in DOMAIN sym : Is(k)
  BY <1>2
<1>4. n \in DOMAIN sym /\ Is(n)
  <2> HIDE DEF Is
  <2> QED
    BY <1>3
<1>5. Sym!Lookup(name) = sym[n][name]
  BY DEF Sym!Lookup, StandsFor
<1>6. name \in DOMAIN sym[n]
  BY <1>4 DEF Sym!Declares
<1> QED
  BY <1>4, <1>5, <1>6 DEF StandsFor

\* Under these conditions the generator gets what it relies on.
LEMMA NoMoveToItself ==
  ASSUME FlowInv, NEW S, NEW F, IsPlain(S, F), TreeInv(S, F), VarsApart, StoreInv
  PROVE  NoSelfMove
<1>1. SUFFICES ASSUME Doing("assign"), task.target = value PROVE FALSE
  BY DEF NoSelfMove
<1>2. /\ todo # <<>> /\ task = todo[1] /\ 1 \in DOMAIN todo /\ this = task.of
      /\ task.routine \in DOMAIN routines /\ task.routine # 0
  <2>1. 0 \notin DOMAIN routines
    BY SeqFacts DEF FlowInv, TypeInv
  <2> QED
    BY <1>1, <2>1, TaskFacts DEF FlowInv, Doing, this
<1>3. this \in S /\ this.kind = "ASSIGN"
  BY <1>1, <1>2 DEF TreeInv, KindFits, Doing
<1>4. StandsFor(this.var, task.routine) /\ value = Sym!Lookup(this.var).operand
  BY <1>1, <1>2 DEF StoreInv, TargetIsVar, Doing
<1>5. Evaluates(this.value, value)
  BY <1>1, <1>2 DEF StoreInv, Storing, Stored, Doing
<1>6. PICK d \in DOMAIN sym :
        this.var \in DOMAIN sym[d] /\ Sym!Lookup(this.var) = sym[d][this.var]
        /\ sym[d][this.var].routine = task.routine
  BY <1>4, ScopeOf DEF FlowInv
<1>7. CASE this.value.kind = "VAR"
  <2>1. this.value.name # this.var
    BY <1>3, <1>7 DEF IsPlain
  <2>2. StandsFor(this.value.name, task.routine) /\ value = Sym!Lookup(this.value.name).operand
    BY <1>5, <1>7 DEF Evaluates
  <2>3. PICK c \in DOMAIN sym :
          this.value.name \in DOMAIN sym[c]
          /\ Sym!Lookup(this.value.name) = sym[c][this.value.name]
          /\ sym[c][this.value.name].routine = task.routine
    BY <2>2, ScopeOf DEF FlowInv
  <2> QED
    BY <1>2, <1>4, <1>6, <2>1, <2>2, <2>3 DEF VarsApart
<1>8. CASE this.value.kind # "VAR"
  <2>1. ~IsVar(sym, task.routine, value)
    BY <1>5, <1>8 DEF Evaluates
  <2> QED
    BY <1>4, <1>6, <2>1 DEF IsVar, InTable
<1> QED
  BY <1>7, <1>8

LEMMA NoCallAbove ==
  ASSUME FlowInv, NEW S, NEW F, IsPlain(S, F), TreeInv(S, F)
  PROVE  NoNestedArgs
<1>1. SUFFICES ASSUME Begins("exp", "CALL"), NEW i \in 2 .. Len(todo), todo[i].do = "arg",
                      todo[i].k # 0
               PROVE  FALSE
  BY DEF NoNestedArgs
<1>2. task = todo[1] /\ 1 \in DOMAIN todo /\ i \in DOMAIN todo /\ 1 < i
  BY <1>1, TaskFacts DEF FlowInv, Begins, Doing
<1>3. this \in F /\ this.kind = "CALL"
  BY <1>1, <1>2 DEF TreeInv, Begins, this
<1> QED
  BY <1>3 DEF IsPlain

\* Steps in an expression, and those that call for one
LEMMA StoreKept ==
  ASSUME FlowInv, NEW S, NEW F, TreeInv(S, F), StoreInv, todo # <<>>, FlowInv',
         NEW more, NEW at, NEW made, NEW tasks, Step(more, at, made, tasks), UNCHANGED sym,
         \A i \in DOMAIN tasks : /\ TargetIsVar(tasks[i])
                                 /\ i = 1 => tasks[i].do \notin Storing,
         task.do \in InExp /\ DOMAIN tasks = {} => Evaluates(this, value')
  PROVE  StoreInv'
<1> DEFINE k(n) == n - Len(tasks) + 1
<1>0. TypeInv
  BY DEF FlowInv
<1>1. /\ task = todo[1] /\ 1 \in DOMAIN todo /\ this = task.of
      /\ Len(tasks) \in Nat /\ DOMAIN tasks = 1 .. Len(tasks)
  BY <1>0, TaskFacts, Places DEF this
<1>2. ASSUME NEW i \in DOMAIN todo'
      PROVE  /\ i \in DOMAIN tasks => todo'[i] = tasks[i]
             /\ i \notin DOMAIN tasks => k(i) \in DOMAIN todo /\ 1 < k(i) /\ todo'[i] = todo[k(i)]
  BY <1>0, Places
<1>3. ASSUME NEW t, TargetIsVar(t)
      PROVE  TargetIsVar(t)'
  <2>1. ASSUME NEW name, NEW r, StandsFor(name, r)
        PROVE  StandsFor(name, r)' /\ Sym!Lookup(name)' = Sym!Lookup(name)
    BY <2>1 DEF StandsFor, Sym!Lookup, Sym!Declares
  <2> QED
    BY <1>3, <2>1 DEF TargetIsVar
<1>4. ASSUME NEW i \in DOMAIN todo'
      PROVE  TargetIsVar(todo[i])'
  <2>1. CASE i \in DOMAIN tasks
    BY <1>2, <1>3, <2>1
  <2>2. CASE i \notin DOMAIN tasks
    BY <1>2, <1>3, <2>2 DEF StoreInv
  <2> QED
    BY <2>1, <2>2
<1>5. ASSUME todo' # <<>>, task'.do \in Storing
      PROVE  Evaluates(Stored(task), value)'
  <2>1. 1 \in DOMAIN todo' /\ task' = todo'[1]
    <3>1. IsSeq(todo') /\ TypeInv'
      BY DEF FlowInv, TypeInv, AreTasks
    <3>2. 1 \in DOMAIN todo'
      BY <1>5, <3>1, SeqFacts
    <3> QED
      BY <3>1, <3>2 DEF task, IsSeq
  <2>2. 1 \notin DOMAIN tasks
    BY <1>2, <1>5, <2>1
  <2>3. Len(tasks) = 0 /\ DOMAIN tasks = {} /\ k(1) = 2
    BY <1>1, <2>2
  <2>4. 2 \in DOMAIN todo /\ task' = todo[2]
    BY <1>2, <2>1, <2>2, <2>3
  <2>5. task.do \in InExp /\ task.routine = task'.routine
    BY <1>1, <1>5, <2>4 DEF FlowInv, Nested, Storing, Awaiting
  <2>6. this = Stored(task')
    BY <1>1, <1>5, <2>4 DEF TreeInv
  <2>7. Evaluates(this, value')
    BY <2>3, <2>5
  <2>8. Stored(task)' = Stored(task')
    BY DEF Stored
  <2> QED
    BY <2>5, <2>6, <2>7, <2>8 DEF Evaluates, StandsFor, Sym!Lookup, Sym!Declares
<1> QED
  BY <1>4, <1>5 DEF StoreInv

\* Steps where no expression is awaited
LEMMA NothingStored ==
  ASSUME FlowInv, todo # <<>>, FlowInv', task.do \notin InExp,
         NEW more, NEW at, NEW made, NEW tasks, Step(more, at, made, tasks),
         \A i \in DOMAIN tasks : tasks[i].do \notin Storing
  PROVE  StoreInv'
<1> DEFINE k(n) == n - Len(tasks) + 1
<1>0. TypeInv /\ task = todo[1] /\ 1 \in DOMAIN todo
  BY TaskFacts DEF FlowInv
<1>1. ASSUME NEW i \in DOMAIN todo'
      PROVE  todo'[i].do \notin Storing
  <2>1. CASE i \in DOMAIN tasks
    BY <1>0, <2>1, Places
  <2>2. CASE i \notin DOMAIN tasks
    <3>1. k(i) \in DOMAIN todo /\ 1 < k(i) /\ todo'[i] = todo[k(i)]
      BY <1>0, <2>2, Places
    <3> HIDE DEF k
    <3> QED
      BY <1>0, <3>1 DEF FlowInv, Nested, Storing, Awaiting
  <2> QED
    BY <2>1, <2>2
<1>2. ASSUME todo' # <<>>
      PROVE  task'.do \notin Storing
  <2>1. IsSeq(todo')
    BY DEF FlowInv, TypeInv, AreTasks
  <2>2. 1 \in DOMAIN todo' /\ task' = todo'[1]
    BY <1>2, <2>1, SeqFacts DEF task, IsSeq
  <2> QED
    BY <1>1, <2>2
<1> QED
  BY <1>1, <1>2 DEF StoreInv, TargetIsVar, Storing

\* The table when it changes
LEMMA PutApart ==
  ASSUME TypeInv, VarsApart, NEW name, NEW e, Sym!Put(name, e),
         e.routine = 0 \/ ~IsVar(sym, e.routine, e.operand)
  PROVE  VarsApart'
<1> DEFINE top   == Len(sym)
           scope == [s \in DOMAIN sym[top] \cup {name} |-> IF s = name THEN e ELSE sym[top][s]]
<1>1. IsSeq(sym) /\ top \in DOMAIN sym
  BY SeqFacts DEF TypeInv
<1>2. sym' = [sym EXCEPT ![top] = scope]
  BY DEF Sym!Put, Sym!Innermost
<1>3. \A s \in DOMAIN scope : \/ s = name /\ scope[s] = e
                              \/ s # name /\ s \in DOMAIN sym[top] /\ scope[s] = sym[top][s]
  OBVIOUS
<1> HIDE DEF scope
<1>4. /\ DOMAIN sym' = DOMAIN sym
      /\ \A m \in DOMAIN sym : sym'[m] = IF m = top THEN scope ELSE sym[m]
  BY <1>1, <1>2, ExceptFacts
<1> DEFINE New(d, s) == d = top /\ s = name
<1>5. ASSUME NEW d \in DOMAIN sym', NEW s \in DOMAIN sym'[d]
      PROVE  /\ d \in DOMAIN sym
             /\ \/ New(d, s) /\ sym'[d][s] = e
                \/ ~New(d, s) /\ s \in DOMAIN sym[d] /\ sym'[d][s] = sym[d][s]
  BY <1>3, <1>4
<1>6. ASSUME NEW d \in DOMAIN sym, NEW s \in DOMAIN sym[d], e.routine # 0,
             sym[d][s].routine = e.routine
      PROVE  sym[d][s].operand # e.operand
  BY <1>6 DEF IsVar, InTable
<1> HIDE DEF New
<1> SUFFICES ASSUME NEW c \in DOMAIN sym', NEW d \in DOMAIN sym',
                    NEW m \in DOMAIN sym'[c], NEW n \in DOMAIN sym'[d],
                    sym'[c][m].routine # 0, sym'[c][m].routine = sym'[d][n].routine,
                    sym'[c][m].operand = sym'[d][n].operand
             PROVE  c = d /\ m = n
  BY DEF VarsApart
<1>7. CASE New(c, m) /\ New(d, n)
  BY <1>7 DEF New
<1>8. CASE New(c, m) /\ ~New(d, n)
  BY <1>5, <1>6, <1>8
<1>9. CASE ~New(c, m) /\ New(d, n)
  BY <1>5, <1>6, <1>9
<1>10. CASE ~New(c, m) /\ ~New(d, n)
  BY <1>5, <1>10 DEF VarsApart
<1> QED
  BY <1>7, <1>8, <1>9, <1>10

LEMMA EnterApart ==
  ASSUME TypeInv, VarsApart, Sym!EnterScope
  PROVE  VarsApart'
<1>1. IsSeq(sym) /\ sym' = Append(sym, Sym!NoSymbols) /\ DOMAIN Sym!NoSymbols = {}
  BY DEF TypeInv, Sym!EnterScope, Sym!NoSymbols
<1>2. Len(sym) \in Nat /\ DOMAIN sym = 1 .. Len(sym)
  BY <1>1, SeqFacts
<1>3. /\ DOMAIN sym' = 1 .. Len(sym) + 1
      /\ \A d \in DOMAIN sym : sym'[d] = sym[d]
      /\ sym'[Len(sym) + 1] = Sym!NoSymbols
  BY <1>1, AppendFacts
<1>4. \A d \in DOMAIN sym' : \A s \in DOMAIN sym'[d] : d \in DOMAIN sym /\ sym'[d] = sym[d]
  BY <1>1, <1>2, <1>3
<1> QED
  BY <1>4 DEF VarsApart

LEMMA ExitApart ==
  ASSUME TypeInv, VarsApart, Sym!ExitScope
  PROVE  VarsApart'
<1> DEFINE n == Len(sym) - 1
<1>1. IsSeq(sym) /\ Len(sym) > 1 /\ sym' = SubSeq(sym, 1, n)
  BY DEF TypeInv, Sym!ExitScope, Sym!Innermost
<1>2. Len(sym) \in Nat /\ DOMAIN sym = 1 .. Len(sym)
  BY <1>1, SeqFacts
<1>3. DOMAIN sym' = 1 .. n /\ \A d \in 1 .. n : sym'[d] = sym[d]
  BY <1>1, <1>2
<1>4. \A d \in DOMAIN sym' : d \in DOMAIN sym /\ sym'[d] = sym[d]
  BY <1>2, <1>3
<1> QED
  BY <1>4 DEF VarsApart

-----------------------------------------------------------------------------
(* The steps *)

LEMMA ThisIsPart ==
  ASSUME FlowInv, NEW S, NEW F, IsPlain(S, F), TreeInv(S, F), todo # <<>>
  PROVE  /\ this = task.of /\ this \in S /\ KindFits(task)
         /\ task.k \in Nat /\ task.routine \in DOMAIN routines
         /\ HasParts(S) /\ HasParts(F)
<1>1. 1 \in DOMAIN todo /\ task = todo[1] /\ task.k \in Nat /\ task.routine \in DOMAIN routines
  BY TaskFacts DEF FlowInv, IsTask
<1> QED
  BY <1>1 DEF TreeInv, IsPlain, this

\* A call for an expression that returns v
LEMMA Answers ==
  ASSUME FlowInv, FlowInv', NEW S, NEW F, TreeInv(S, F), VarsApart, StoreInv,
         todo # <<>>, task.do \in InExp, UNCHANGED sym, Evaluates(this, value'),
         NEW more, NEW at, NEW made, NEW tasks, Step(more, at, made, tasks), Zero(tasks)
  PROVE  TreeInv(S, F)' /\ VarsApart' /\ StoreInv'
<1>1. TreeFits(S, F, tasks)
  BY DEF TreeFits, Zero
<1>2. TreeInv(S, F)'
  BY <1>1, TreeKept
<1>3. StoreInv'
  BY StoreKept DEF Zero
<1> QED
  BY <1>2, <1>3 DEF VarsApart

\* A call that calls
LEMMA GoesOn ==
  ASSUME FlowInv, FlowInv', NEW S, NEW F, TreeInv(S, F), VarsApart, StoreInv,
         todo # <<>>, task.do \in InExp, UNCHANGED sym,
         NEW more, NEW at, NEW made, NEW tasks, Step(more, at, made, tasks), TreeFits(S, F, tasks),
         DOMAIN tasks # {}, \A i \in DOMAIN tasks : tasks[i].do \notin Storing
  PROVE  TreeInv(S, F)' /\ VarsApart' /\ StoreInv'
<1>1. TreeInv(S, F)'
  BY TreeKept
<1>2. \A i \in DOMAIN tasks : TargetIsVar(tasks[i])
  BY DEF TargetIsVar, Storing
<1>3. StoreInv'
  BY <1>2, StoreKept
<1> QED
  BY <1>1, <1>3 DEF VarsApart

LEMMA ExpPlain ==
  ASSUME FlowInv, TempInv, HeldInv, NamesAreOwn, FlowInv', GenExp,
         NEW S, NEW F, IsPlain(S, F), TreeInv(S, F), VarsApart, StoreInv
  PROVE  TreeInv(S, F)' /\ VarsApart' /\ StoreInv'
<1>0. TypeInv
  BY DEF FlowInv
<1>1. CASE GenConst
  <2>1. todo # <<>> /\ task.do = "exp" /\ task.do \in InExp
    BY <1>1 DEF GenConst, Begins, Doing, InExp, Results
  <2>2. PICK more, tasks : /\ Zero(tasks)
                           /\ Step(more, 0, 1, tasks)
    BY <1>0, <1>1, GenConstShape
  <2>3. UNCHANGED sym /\ value' = NextTemp(routine)
    BY <1>1 DEF GenConst, ReturnsTemp, Returns
  <2>4. this.kind # "VAR"
    BY <1>1, <2>1, ThisIsPart DEF GenConst, Begins, KindFits, Results
  <2>5. ~IsVar(sym, task.routine, NextTemp(routine))
    BY <2>1, NextFacts DEF Results
  <2>6. Evaluates(this, value')
    BY <2>3, <2>4, <2>5 DEF Evaluates
  <2> QED
    BY <2>1, <2>2, <2>3, <2>6, Answers
<1>2. CASE GenVar
  <2>1. todo # <<>> /\ task.do = "exp" /\ task.do \in InExp
    BY <1>2 DEF GenVar, Begins, Doing, InExp, Results
  <2>2. PICK more, tasks : /\ Zero(tasks)
                           /\ Step(more, 0, 0, tasks)
    BY <1>0, <1>2, GenVarShape
  <2>3. UNCHANGED sym /\ value' = Sym!Lookup(this.name).operand
    BY <1>2 DEF GenVar, Returns
  <2>4. this.kind = "VAR" /\ StandsFor(this.name, task.routine)
    BY <1>2 DEF GenVar, Begins, NamesAreOwn
  <2>5. Evaluates(this, value')
    BY <2>3, <2>4 DEF Evaluates
  <2> QED
    BY <2>1, <2>2, <2>3, <2>5, Answers
<1>3. CASE GenArg
  <2>1. todo # <<>> /\ task.do = "exp" /\ task.do \in InExp
    BY <1>3 DEF GenArg, Begins, Doing, InExp, Results
  <2>2. PICK more, tasks : /\ Two(tasks, For("exp", this.args[task.k + 1]),
                              Turned("arg", task.target, task.left, task.at, task.k))
                           /\ Step(more, 0, 0, tasks)
    BY <1>0, <1>3, GenArgShape
  <2>3. UNCHANGED sym
    BY <1>3 DEF GenArg, Awaits
  <2>4. TreeFits(S, F, tasks) /\ \A i \in DOMAIN tasks : tasks[i].do \notin Storing
    BY <1>3, <2>1, <2>2, ThisIsPart
       DEF GenArg, Begins, HasParts, IsPlain, TreeFits, KindFits, Results, Storing, Stored,
           Two, For, Task, Turned
  <2> QED
    BY <2>1, <2>2, <2>3, <2>4, GoesOn DEF Two
<1>4. CASE ArgEnds
  <2>1. todo # <<>> /\ task.do = "arg" /\ task.do \in InExp
    BY <1>4 DEF ArgEnds, Begins, Doing, InExp, Results
  <2>2. PICK more, tasks : /\ One(tasks, Turned("exp", task.target, task.left, task.at, task.k + 1))
                           /\ Step(more, 0, 0, tasks)
    BY <1>0, <1>4, ArgEndsShape
  <2>3. UNCHANGED sym
    BY <1>4 DEF ArgEnds, Emits
  <2>4. TreeFits(S, F, tasks) /\ \A i \in DOMAIN tasks : tasks[i].do \notin Storing
    BY <1>4, <2>1, <2>2, ThisIsPart
       DEF ArgEnds, Begins, TreeFits, KindFits, Results, Storing, Stored, One, For, Task, Turned
  <2> QED
    BY <2>1, <2>2, <2>3, <2>4, GoesOn DEF One
<1>5. CASE GenCall
  <2>1. todo # <<>> /\ task.do = "exp" /\ task.do \in InExp
    BY <1>5 DEF GenCall, Begins, Doing, InExp, Results
  <2>2. PICK more, tasks : /\ Zero(tasks)
                           /\ Step(more, 0, 1, tasks)
    BY <1>0, <1>5, GenCallShape
  <2>3. UNCHANGED sym /\ value' = NextTemp(routine)
    BY <1>5 DEF GenCall, ReturnsTemp, Returns
  <2>4. this.kind # "VAR"
    BY <1>5, <2>1, ThisIsPart DEF GenCall, Begins, KindFits, Results
  <2>5. ~IsVar(sym, task.routine, NextTemp(routine))
    BY <2>1, NextFacts DEF Results
  <2>6. Evaluates(this, value')
    BY <2>3, <2>4, <2>5 DEF Evaluates
  <2> QED
    BY <2>1, <2>2, <2>3, <2>6, Answers
<1>6. CASE GenUnary
  <2>1. todo # <<>> /\ task.do = "exp" /\ task.do \in InExp
    BY <1>6 DEF GenUnary, Begins, Doing, InExp, Results
  <2>2. PICK more, tasks : /\ Two(tasks, For("exp", this.operand), For("unary", this))
                           /\ Step(more, 0, 0, tasks)
    BY <1>0, <1>6, GenUnaryShape
  <2>3. UNCHANGED sym
    BY <1>6 DEF GenUnary, Awaits
  <2>4. TreeFits(S, F, tasks) /\ \A i \in DOMAIN tasks : tasks[i].do \notin Storing
    BY <1>6, <2>1, <2>2, ThisIsPart
       DEF GenUnary, Begins, HasParts, TreeFits, KindFits, Results, Storing, Stored, Two, For,
           Task, Turned
  <2> QED
    BY <2>1, <2>2, <2>3, <2>4, GoesOn DEF Two
<1>7. CASE UnaryEnds
  <2>1. todo # <<>> /\ task.do = "unary" /\ task.do \in InExp
    BY <1>7 DEF UnaryEnds, Begins, Doing, InExp, Results
  <2>2. PICK more, tasks : /\ Zero(tasks)
                           /\ Step(more, 0, 1, tasks)
    BY <1>0, <1>7, UnaryEndsShape
  <2>3. UNCHANGED sym /\ value' = NextTemp(routine)
    BY <1>7 DEF UnaryEnds, ReturnsTemp, Returns
  <2>4. this.kind # "VAR"
    BY <1>7, <2>1, ThisIsPart DEF UnaryEnds, Begins, KindFits, Results
  <2>5. ~IsVar(sym, task.routine, NextTemp(routine))
    BY <2>1, NextFacts DEF Results
  <2>6. Evaluates(this, value')
    BY <2>3, <2>4, <2>5 DEF Evaluates
  <2> QED
    BY <2>1, <2>2, <2>3, <2>6, Answers
<1>8. CASE GenBinary
  <2>1. todo # <<>> /\ task.do = "exp" /\ task.do \in InExp
    BY <1>8 DEF GenBinary, Begins, Doing, InExp, Results
  <2>2. PICK more, tasks : /\ Two(tasks, For("exp", this.left),
                              [For("left", this) EXCEPT !.target = NextTemp(routine)])
                           /\ Step(more, 0, 1, tasks)
    BY <1>0, <1>8, GenBinaryShape
  <2>3. UNCHANGED sym
    BY <1>8 DEF GenBinary, Emits
  <2>4. TreeFits(S, F, tasks) /\ \A i \in DOMAIN tasks : tasks[i].do \notin Storing
    BY <1>8, <2>1, <2>2, ThisIsPart
       DEF GenBinary, Begins, HasParts, TreeFits, KindFits, Results, Storing, Stored, Two, For,
           Task, Turned
  <2> QED
    BY <2>1, <2>2, <2>3, <2>4, GoesOn DEF Two
<1>9. CASE LeftEnds
  <2>1. todo # <<>> /\ task.do = "left" /\ task.do \in InExp
    BY <1>9 DEF LeftEnds, Begins, Doing, InExp, Results
  <2>2. PICK more, tasks : /\ Two(tasks, For("exp", this.right),
                              Turned("right", task.target, value, task.at, task.k))
                           /\ Step(more, 0, 0, tasks)
    BY <1>0, <1>9, LeftEndsShape
  <2>3. UNCHANGED sym
    BY <1>9 DEF LeftEnds, Awaits
  <2>4. TreeFits(S, F, tasks) /\ \A i \in DOMAIN tasks : tasks[i].do \notin Storing
    BY <1>9, <2>1, <2>2, ThisIsPart
       DEF LeftEnds, Begins, HasParts, TreeFits, KindFits, Results, Storing, Stored, Two, For,
           Task, Turned
  <2> QED
    BY <2>1, <2>2, <2>3, <2>4, GoesOn DEF Two
<1>10. CASE BinaryEnds
  <2>1. todo # <<>> /\ task.do = "right" /\ task.do \in InExp
    BY <1>10 DEF BinaryEnds, Begins, Doing, InExp, Results
  <2>2. PICK more, tasks : /\ Zero(tasks)
                           /\ Step(more, 0, 0, tasks)
    BY <1>0, <1>10, BinaryEndsShape
  <2>3. UNCHANGED sym /\ value' = task.target
    BY <1>10 DEF BinaryEnds, Returns
  <2>4. this.kind # "VAR"
    BY <1>10, <2>1, ThisIsPart DEF BinaryEnds, Begins, KindFits, Results
  <2>5. ~IsVar(sym, task.routine, task.target)
    BY <2>1, HeldFacts DEF Results
  <2>6. Evaluates(this, value')
    BY <2>3, <2>4, <2>5 DEF Evaluates
  <2> QED
    BY <2>1, <2>2, <2>3, <2>6, Answers
<1>11. CASE GenLogical
  <2>1. todo # <<>> /\ task.do = "left" /\ task.do \in InExp
    BY <1>11 DEF GenLogical, Begins, Doing, InExp, Results, SkipRight
  <2>2. PICK more, tasks : /\ Two(tasks, For("exp", this.right),
                              Turned("logical", task.target, task.left,
                                     Len(routine.quads) + 2, task.k))
                           /\ Step(more, 0, 0, tasks)
    BY <1>0, <1>11, GenLogicalShape
  <2>3. UNCHANGED sym
    BY <1>11 DEF GenLogical, SkipRight, Emits
  <2>4. TreeFits(S, F, tasks) /\ \A i \in DOMAIN tasks : tasks[i].do \notin Storing
    BY <1>11, <2>1, <2>2, ThisIsPart
       DEF GenLogical, Begins, HasParts, TreeFits, KindFits, Results, Storing, Stored, Two,
           For, Task, Turned
  <2> QED
    BY <2>1, <2>2, <2>3, <2>4, GoesOn DEF Two
<1>12. CASE LogicalEnds
  <2>1. todo # <<>> /\ task.do = "logical" /\ task.do \in InExp
    BY <1>12 DEF LogicalEnds, Begins, Doing, InExp, Results
  <2>0. task.at \in DOMAIN routine.quads
    BY <2>1, TaskFlow DEF JumpTasks
  <2>2. PICK more, tasks : /\ Zero(tasks)
                           /\ Step(more, task.at, 0, tasks)
    BY <1>0, <1>12, LogicalEndsShape, <2>0, <2>1
  <2>3. UNCHANGED sym /\ value' = task.target
    BY <1>12 DEF LogicalEnds, Returns
  <2>4. this.kind # "VAR"
    BY <1>12, <2>1, ThisIsPart DEF LogicalEnds, Begins, KindFits, Results
  <2>5. ~IsVar(sym, task.routine, task.target)
    BY <2>1, HeldFacts DEF Results
  <2>6. Evaluates(this, value')
    BY <2>3, <2>4, <2>5 DEF Evaluates
  <2> QED
    BY <2>1, <2>2, <2>3, <2>6, Answers
<1> QED
  BY <1>1, <1>2, <1>3, <1>4, <1>5, <1>6, <1>7, <1>8, <1>9, <1>10, <1>11, <1>12 DEF GenExp

\* Calls that no expression is awaited by
LEMMA Unmoved ==
  ASSUME FlowInv, FlowInv', NEW S, NEW F, TreeInv(S, F), VarsApart',
         todo # <<>>, task.do \notin InExp,
         NEW more, NEW at, NEW made, NEW tasks, Step(more, at, made, tasks), TreeFits(S, F, tasks),
         \A i \in DOMAIN tasks : tasks[i].do \notin Storing
  PROVE  TreeInv(S, F)' /\ VarsApart' /\ StoreInv'
BY TreeKept, NothingStored

\* One that calls for an expression to store
LEMMA Stores ==
  ASSUME FlowInv, FlowInv', NEW S, NEW F, TreeInv(S, F), VarsApart, StoreInv,
         todo # <<>>, task.do \notin InExp, UNCHANGED sym,
         NEW more, NEW at, NEW made, NEW tasks, Step(more, at, made, tasks), TreeFits(S, F, tasks),
         NEW a, NEW b, Two(tasks, a, b), a.do = "exp", TargetIsVar(b)
  PROVE  TreeInv(S, F)' /\ VarsApart' /\ StoreInv'
<1>1. TreeInv(S, F)'
  BY TreeKept
<1>2. \A i \in DOMAIN tasks : /\ TargetIsVar(tasks[i])
                              /\ i = 1 => tasks[i].do \notin Storing
  BY DEF Two, TargetIsVar, Storing
<1>3. StoreInv'
  BY <1>2, StoreKept
<1> QED
  BY <1>1, <1>3 DEF VarsApart

LEMMA NodePlain ==
  ASSUME FlowInv, TempInv, HeldInv, NamesAreOwn, FlowInv', GenNode,
         NEW S, NEW F, IsPlain(S, F), TreeInv(S, F), VarsApart, StoreInv
  PROVE  TreeInv(S, F)' /\ VarsApart' /\ StoreInv'
<1>0. TypeInv
  BY DEF FlowInv
<1>1. CASE GenEmpty
  <2>1. todo # <<>> /\ task.do = "node" /\ task.do \notin InExp
    BY <1>1 DEF GenEmpty, Begins, Doing, InExp, Results
  <2>2. PICK more, tasks : /\ Zero(tasks)
                           /\ Step(more, 0, 0, tasks)
    BY <1>0, <1>1, GenEmptyShape
  <2>3. VarsApart'
    BY <1>1 DEF GenEmpty, Awaits, VarsApart
  <2>4. TreeFits(S, F, tasks) /\ \A i \in DOMAIN tasks : tasks[i].do \notin Storing
    BY <2>2 DEF TreeFits, Zero
  <2> QED
    BY <2>1, <2>2, <2>3, <2>4, Unmoved
<1>2. CASE GenExpNode
  <2>1. todo # <<>> /\ task.do = "node" /\ task.do \notin InExp
    BY <1>2 DEF GenExpNode, Begins, Doing, InExp, Results
  <2>2. PICK more, tasks : /\ One(tasks, For("exp", this.exp))
                           /\ Step(more, 0, 0, tasks)
    BY <1>0, <1>2, GenExpNodeShape
  <2>3. VarsApart'
    BY <1>2 DEF GenExpNode, Awaits, VarsApart
  <2>4. TreeFits(S, F, tasks) /\ \A i \in DOMAIN tasks : tasks[i].do \notin Storing
    BY <1>2, <2>1, <2>2, ThisIsPart
       DEF GenExpNode, Begins, HasParts, TreeFits, KindFits, Results, Storing, InExp,
           One, For, Task, Turned
  <2> QED
    BY <2>1, <2>2, <2>3, <2>4, Unmoved
<1>3. CASE GenAssign
  <2> DEFINE a == For("exp", this.value)
             b == [For("assign", this) EXCEPT !.target = Sym!Lookup(this.var).operand]
  <2>1. /\ todo # <<>> /\ task.do = "node" /\ task.do \notin InExp
        /\ this.kind = "ASSIGN" /\ UNCHANGED sym
    BY <1>3 DEF GenAssign, Begins, Doing, InExp, Results, Awaits
  <2>2. PICK more, tasks : Two(tasks, a, b) /\ Step(more, 0, 0, tasks)
    BY <1>0, <1>3, GenAssignShape
  <2>3. a.do = "exp" /\ TargetIsVar(b)
    BY <1>3 DEF GenAssign, NamesAreOwn, TargetIsVar, For, Task
  <2>4. TreeFits(S, F, tasks)
    BY <1>3, <2>1, <2>2, ThisIsPart
       DEF HasParts, TreeFits, KindFits, Results, Storing, Stored, InExp, Two, For, Task
  <2> HIDE DEF a, b
  <2> QED
    BY <2>1, <2>2, <2>3, <2>4, Stores
<1>4. CASE AssignEnds
  <2>1. todo # <<>> /\ task.do = "assign" /\ task.do \notin InExp
    BY <1>4 DEF AssignEnds, Begins, Doing, InExp, Results
  <2>2. PICK more, tasks : /\ Zero(tasks)
                           /\ Step(more, 0, 0, tasks)
    BY <1>0, <1>4, AssignEndsShape
  <2>3. VarsApart'
    BY <1>4 DEF AssignEnds, Emits, VarsApart
  <2>4. TreeFits(S, F, tasks) /\ \A i \in DOMAIN tasks : tasks[i].do \notin Storing
    BY <2>2 DEF TreeFits, Zero
  <2> QED
    BY <2>1, <2>2, <2>3, <2>4, Unmoved
<1>5. CASE GenDecl /\ this.init # Nothing
  <2> DEFINE a == For("exp", this.init)
             b == For("decl", this)
  <2>1. /\ todo # <<>> /\ task.do = "node" /\ task.do \notin InExp
        /\ this.kind = "DECL" /\ UNCHANGED sym
    BY <1>5 DEF GenDecl, Begins, Doing, InExp, Results, Awaits
  <2>2. PICK more, tasks : Two(tasks, a, b) /\ Step(more, 0, 0, tasks)
    BY <1>0, <1>5, GenDeclInitShape
  <2>3. a.do = "exp" /\ TargetIsVar(b)
    BY <1>5 DEF GenDecl, TargetIsVar, For, Task
  <2>4. TreeFits(S, F, tasks)
    BY <1>5, <2>1, <2>2, ThisIsPart
       DEF HasParts, TreeFits, KindFits, Results, Storing, Stored, InExp, Two, For, Task
  <2> HIDE DEF a, b
  <2> QED
    BY <2>1, <2>2, <2>3, <2>4, Stores
<1>6. CASE GenReturn /\ this.value # Nothing
  <2>1. todo # <<>> /\ task.do = "node" /\ task.do \notin InExp
    BY <1>6 DEF GenReturn, Begins, Doing, InExp, Results
  <2>2. PICK more, tasks : /\ Two(tasks, For("exp", this.value),
                              For("return", this))
                           /\ Step(more, 0, 0, tasks)
    BY <1>0, <1>6, GenReturnValueShape
  <2>3. VarsApart'
    BY <1>6 DEF GenReturn, Awaits, VarsApart
  <2>4. TreeFits(S, F, tasks) /\ \A i \in DOMAIN tasks : tasks[i].do \notin Storing
    BY <1>6, <2>1, <2>2, ThisIsPart
       DEF GenReturn, Begins, HasParts, TreeFits, KindFits, Results, Storing, InExp,
           Two, For, Task, Turned
  <2> QED
    BY <2>1, <2>2, <2>3, <2>4, Unmoved
<1>7. CASE GenReturn /\ this.value = Nothing
  <2>1. todo # <<>> /\ task.do = "node" /\ task.do \notin InExp
    BY <1>7 DEF GenReturn, Begins, Doing, InExp, Results
  <2>2. PICK more, tasks : /\ Zero(tasks)
                           /\ Step(more, 0, 0, tasks)
    BY <1>0, <1>7, GenReturnShape
  <2>3. VarsApart'
    BY <1>7 DEF GenReturn, Emits, VarsApart
  <2>4. TreeFits(S, F, tasks) /\ \A i \in DOMAIN tasks : tasks[i].do \notin Storing
    BY <2>2 DEF TreeFits, Zero
  <2> QED
    BY <2>1, <2>2, <2>3, <2>4, Unmoved
<1>8. CASE ReturnEnds
  <2>1. todo # <<>> /\ task.do = "return" /\ task.do \notin InExp
    BY <1>8 DEF ReturnEnds, Begins, Doing, InExp, Results
  <2>2. PICK more, tasks : /\ Zero(tasks)
                           /\ Step(more, 0, 0, tasks)
    BY <1>0, <1>8, ReturnEndsShape
  <2>3. VarsApart'
    BY <1>8 DEF ReturnEnds, Emits, VarsApart
  <2>4. TreeFits(S, F, tasks) /\ \A i \in DOMAIN tasks : tasks[i].do \notin Storing
    BY <2>2 DEF TreeFits, Zero
  <2> QED
    BY <2>1, <2>2, <2>3, <2>4, Unmoved
<1>9. CASE GenIf
  <2>1. todo # <<>> /\ task.do = "node" /\ task.do \notin InExp
    BY <1>9 DEF GenIf, Begins, Doing, InExp, Results
  <2>2. PICK more, tasks : /\ Two(tasks, For("exp", this.condition),
                              For("if", this))
                           /\ Step(more, 0, 0, tasks)
    BY <1>0, <1>9, GenIfShape
  <2>3. VarsApart'
    BY <1>9 DEF GenIf, Awaits, VarsApart
  <2>4. TreeFits(S, F, tasks) /\ \A i \in DOMAIN tasks : tasks[i].do \notin Storing
    BY <1>9, <2>1, <2>2, ThisIsPart
       DEF GenIf, Begins, HasParts, TreeFits, KindFits, Results, Storing, InExp,
           Two, For, Task, Turned
  <2> QED
    BY <2>1, <2>2, <2>3, <2>4, Unmoved
<1>10. CASE IfCondition
  <2>1. todo # <<>> /\ task.do = "if" /\ task.do \notin InExp
    BY <1>10 DEF IfCondition, Begins, Doing, InExp, Results
  <2>2. PICK more, tasks : /\ Two(tasks, For("node", this.then),
                              Turned("then", task.target, task.left,
                                     Len(routine.quads) + 1, task.k))
                           /\ Step(more, 0, 0, tasks)
    BY <1>0, <1>10, IfConditionShape
  <2>3. VarsApart'
    BY <1>10 DEF IfCondition, Emits, VarsApart
  <2>4. TreeFits(S, F, tasks) /\ \A i \in DOMAIN tasks : tasks[i].do \notin Storing
    BY <1>10, <2>1, <2>2, ThisIsPart
       DEF IfCondition, Begins, HasParts, TreeFits, KindFits, Results, Storing, InExp,
           Two, For, Task, Turned
  <2> QED
    BY <2>1, <2>2, <2>3, <2>4, Unmoved
<1>11. CASE ThenEnds /\ this.else = Nothing
  <2>0. task.at \in DOMAIN routine.quads
    BY <1>11, TaskFlow DEF ThenEnds, Doing, JumpTasks
  <2>1. todo # <<>> /\ task.do = "then" /\ task.do \notin InExp
    BY <1>11 DEF ThenEnds, Begins, Doing, InExp, Results
  <2>2. PICK more, tasks : /\ Zero(tasks)
                           /\ Step(more, task.at, 0, tasks)
    BY <1>0, <1>11, ThenEndsShape, <2>0
  <2>3. VarsApart'
    BY <1>11 DEF ThenEnds, Emits, VarsApart
  <2>4. TreeFits(S, F, tasks) /\ \A i \in DOMAIN tasks : tasks[i].do \notin Storing
    BY <2>2 DEF TreeFits, Zero
  <2> QED
    BY <2>1, <2>2, <2>3, <2>4, Unmoved
<1>12. CASE ThenEnds /\ this.else # Nothing
  <2>0. task.at \in DOMAIN routine.quads
    BY <1>12, TaskFlow DEF ThenEnds, Doing, JumpTasks
  <2>1. todo # <<>> /\ task.do = "then" /\ task.do \notin InExp
    BY <1>12 DEF ThenEnds, Begins, Doing, InExp, Results
  <2>2. PICK more, tasks : /\ Two(tasks, For("node", this.else),
                              Turned("else", task.target, task.left,
                                     Len(routine.quads) + 1, task.k))
                           /\ Step(more, task.at, 0, tasks)
    BY <1>0, <1>12, ThenEndsElseShape, <2>0
  <2>3. VarsApart'
    BY <1>12 DEF ThenEnds, Emits, VarsApart
  <2>4. TreeFits(S, F, tasks) /\ \A i \in DOMAIN tasks : tasks[i].do \notin Storing
    BY <1>12, <2>1, <2>2, ThisIsPart
       DEF ThenEnds, Begins, HasParts, TreeFits, KindFits, Results, Storing, InExp,
           Two, For, Task, Turned
  <2> QED
    BY <2>1, <2>2, <2>3, <2>4, Unmoved
<1>13. CASE ElseEnds
  <2>0. task.at \in DOMAIN routine.quads
    BY <1>13, TaskFlow DEF ElseEnds, Doing, JumpTasks
  <2>1. todo # <<>> /\ task.do = "else" /\ task.do \notin InExp
    BY <1>13 DEF ElseEnds, Begins, Doing, InExp, Results
  <2>2. PICK more, tasks : /\ Zero(tasks)
                           /\ Step(more, task.at, 0, tasks)
    BY <1>0, <1>13, ElseEndsShape, <2>0
  <2>3. VarsApart'
    BY <1>13 DEF ElseEnds, Emits, VarsApart
  <2>4. TreeFits(S, F, tasks) /\ \A i \in DOMAIN tasks : tasks[i].do \notin Storing
    BY <2>2 DEF TreeFits, Zero
  <2> QED
    BY <2>1, <2>2, <2>3, <2>4, Unmoved
<1>14. CASE GenWhile
  <2>1. todo # <<>> /\ task.do = "node" /\ task.do \notin InExp
    BY <1>14 DEF GenWhile, Begins, Doing, InExp, Results
  <2>2. PICK more, tasks : /\ Two(tasks, For("exp", this.condition),
                              [For("while", this) EXCEPT !.top = Len(routine.quads)])
                           /\ Step(more, 0, 0, tasks)
    BY <1>0, <1>14, GenWhileShape
  <2>3. VarsApart'
    BY <1>14 DEF GenWhile, Emits, VarsApart
  <2>4. TreeFits(S, F, tasks) /\ \A i \in DOMAIN tasks : tasks[i].do \notin Storing
    BY <1>14, <2>1, <2>2, ThisIsPart
       DEF GenWhile, Begins, HasParts, TreeFits, KindFits, Results, Storing, InExp,
           Two, For, Task, Turned
  <2> QED
    BY <2>1, <2>2, <2>3, <2>4, Unmoved
<1>15. CASE WhileCondition
  <2>1. todo # <<>> /\ task.do = "while" /\ task.do \notin InExp
    BY <1>15 DEF WhileCondition, Begins, Doing, InExp, Results
  <2>2. PICK more, tasks : /\ Two(tasks, For("node", this.body),
                              Turned("loop", task.target, task.left,
                                     Len(routine.quads) + 1, task.k))
                           /\ Step(more, 0, 0, tasks)
    BY <1>0, <1>15, WhileConditionShape
  <2>3. VarsApart'
    BY <1>15 DEF WhileCondition, Emits, VarsApart
  <2>4. TreeFits(S, F, tasks) /\ \A i \in DOMAIN tasks : tasks[i].do \notin Storing
    BY <1>15, <2>1, <2>2, ThisIsPart
       DEF WhileCondition, Begins, HasParts, TreeFits, KindFits, Results, Storing, InExp,
           Two, For, Task, Turned
  <2> QED
    BY <2>1, <2>2, <2>3, <2>4, Unmoved
<1>16. CASE LoopEnds
  <2>0. task.at \in DOMAIN routine.quads
    BY <1>16, TaskFlow DEF LoopEnds, Doing, JumpTasks
  <2>1. todo # <<>> /\ task.do = "loop" /\ task.do \notin InExp
    BY <1>16 DEF LoopEnds, Begins, Doing, InExp, Results
  <2>2. PICK more, tasks : /\ Zero(tasks)
                           /\ Step(more, task.at, 0, tasks)
    BY <1>0, <1>16, LoopEndsShape, <2>0
  <2>3. VarsApart'
    BY <1>16 DEF LoopEnds, Emits, VarsApart
  <2>4. TreeFits(S, F, tasks) /\ \A i \in DOMAIN tasks : tasks[i].do \notin Storing
    BY <2>2 DEF TreeFits, Zero
  <2> QED
    BY <2>1, <2>2, <2>3, <2>4, Unmoved
<1>17. CASE GenStmt
  <2>1. todo # <<>> /\ task.do = "stmts" /\ task.do \notin InExp
    BY <1>17 DEF GenStmt, Begins, Doing, InExp, Results
  <2>2. PICK more, tasks : /\ Two(tasks, For("node", this.stmts[task.k + 1]),
                              Turned(task.do, task.target, task.left, task.at, task.k + 1))
                           /\ Step(more, 0, 0, tasks)
    BY <1>0, <1>17, GenStmtShape
  <2>3. VarsApart'
    BY <1>17 DEF GenStmt, Awaits, VarsApart
  <2>4. TreeFits(S, F, tasks) /\ \A i \in DOMAIN tasks : tasks[i].do \notin Storing
    BY <1>17, <2>1, <2>2, ThisIsPart
       DEF GenStmt, Begins, HasParts, TreeFits, KindFits, Results, Storing, InExp,
           Two, For, Task, Turned
  <2> QED
    BY <2>1, <2>2, <2>3, <2>4, Unmoved
<1>18. CASE ParamsEnd
  <2>1. todo # <<>> /\ task.do = "params" /\ task.do \notin InExp
    BY <1>18 DEF ParamsEnd, Begins, Doing, InExp, Results
  <2>2. PICK more, tasks : /\ Two(tasks, For("node", this.body),
                              Turned("leave", task.target, task.left, task.at, task.k))
                           /\ Step(more, 0, 0, tasks)
    BY <1>0, <1>18, ParamsEndShape
  <2>3. VarsApart'
    BY <1>18 DEF ParamsEnd, Awaits, VarsApart
  <2>4. TreeFits(S, F, tasks) /\ \A i \in DOMAIN tasks : tasks[i].do \notin Storing
    BY <1>18, <2>1, <2>2, ThisIsPart
       DEF ParamsEnd, Begins, HasParts, TreeFits, KindFits, Results, Storing, InExp,
           Two, For, Task, Turned
  <2> QED
    BY <2>1, <2>2, <2>3, <2>4, Unmoved
<1>19. CASE GenDecl /\ this.init = Nothing
  <2>1. /\ todo # <<>> /\ task.do \notin InExp
        /\ Sym!Put(this.var, Known(task.routine, NextTemp(routine)))
    BY <1>19 DEF GenDecl, Begins, Doing, InExp, Results
  <2>2. PICK more, tasks : /\ Zero(tasks)
                           /\ Step(more, 0, 1, tasks)
    BY <1>0, <1>19, GenDeclShape
  <2>3. VarsApart'
    <3>1. ~IsVar(sym, task.routine, NextTemp(routine))
      BY <2>1, NextFacts
    <3> QED
      BY <1>0, <2>1, <3>1, PutApart DEF Known
  <2>4. TreeFits(S, F, tasks) /\ \A i \in DOMAIN tasks : tasks[i].do \notin Storing
    BY <2>2 DEF TreeFits, Zero
  <2> QED
    BY <2>1, <2>2, <2>3, <2>4, Unmoved
<1>20. CASE DeclEnds
  <2>1. /\ todo # <<>> /\ task.do = "decl" /\ task.do \notin InExp
        /\ Sym!Put(this.var, Known(task.routine, value))
    BY <1>20 DEF DeclEnds, Begins, Doing, InExp, Results
  <2>2. PICK more, tasks : /\ Zero(tasks)
                           /\ Step(more, 0, 0, tasks)
    BY <1>0, <1>20, DeclEndsShape
  <2>3. VarsApart'
    <3>1. this = task.of /\ this \in S /\ this.kind = "DECL" /\ this.init # Nothing
      BY <2>1, ThisIsPart DEF KindFits
    <3>2. Stored(task) = this.init /\ Stored(task).kind # "VAR"
      BY <2>1, <3>1 DEF IsPlain, Stored
    <3>3. ~IsVar(sym, task.routine, value)
      BY <2>1, <3>2 DEF StoreInv, Storing, Evaluates
    <3> QED
      BY <1>0, <2>1, <3>3, PutApart DEF Known
  <2>4. TreeFits(S, F, tasks) /\ \A i \in DOMAIN tasks : tasks[i].do \notin Storing
    BY <2>2 DEF TreeFits, Zero
  <2> QED
    BY <2>1, <2>2, <2>3, <2>4, Unmoved
<1>21. CASE ScopeBegins
  <2>1. /\ todo # <<>> /\ task.do \in {"node", "function"} /\ task.do \notin InExp
        /\ task.do = "node" => this.kind = "BLOCK"
        /\ Sym!EnterScope
    BY <1>21 DEF ScopeBegins, Begins, Doing, InExp, Results
  <2>2. PICK do, more, tasks :
          /\ <<task.do, do>> \in {<<"node", "stmts">>, <<"function", "params">>}
          /\ One(tasks, For(do, this)) /\ Step(more, 0, 0, tasks)
    BY <1>0, <1>21, ScopeBeginsShape
  <2>3. VarsApart'
    BY <1>0, <2>1, EnterApart
  <2>4. TreeFits(S, F, tasks) /\ \A i \in DOMAIN tasks : tasks[i].do \notin Storing
    BY <2>1, <2>2, ThisIsPart DEF TreeFits, KindFits, Results, Storing, One, For, Task
  <2> QED
    BY <2>1, <2>2, <2>3, <2>4, Unmoved
<1>22. CASE ScopeEnds
  <2>1. todo # <<>> /\ task.do \notin InExp /\ Sym!ExitScope
    BY <1>22 DEF ScopeEnds, Begins, Doing, InExp, Results
  <2>2. PICK more, tasks : /\ Zero(tasks)
                           /\ Step(more, 0, 0, tasks)
    BY <1>0, <1>22, ScopeEndsShape
  <2>3. VarsApart'
    BY <1>0, <2>1, ExitApart
  <2>4. TreeFits(S, F, tasks) /\ \A i \in DOMAIN tasks : tasks[i].do \notin Storing
    BY <2>2 DEF TreeFits, Zero
  <2> QED
    BY <2>1, <2>2, <2>3, <2>4, Unmoved
<1>23. CASE GenFunction
  <2> DEFINE a == Task(Len(routines) + 1, "function", this)
  <2>1. /\ todo # <<>> /\ this.kind = "FUNC_DEF" /\ task.do \notin InExp
        /\ Sym!Put(this.name, Known(0, Len(routines)))
    BY <1>23 DEF GenFunction, Begins, Doing, InExp, Results
  <2>2. PICK more, tasks : /\ Zero(tasks) \/ (this.body # Nothing /\ One(tasks, a))
                           /\ Step(more, 0, 0, tasks)
    BY <1>0, <1>23, GenFunctionShape
  <2>3. VarsApart'
    BY <1>0, <2>1, PutApart DEF Known
  <2>4. TreeFits(S, F, tasks) /\ \A i \in DOMAIN tasks : tasks[i].do \notin Storing
    BY <2>1, <2>2, ThisIsPart DEF TreeFits, KindFits, Results, Storing, Zero, One, Task
  <2> QED
    BY <2>1, <2>2, <2>3, <2>4, Unmoved
<1>24. CASE AddParam
  <2>1. /\ todo # <<>> /\ task.do = "params" /\ task.do \notin InExp
        /\ Sym!Put(this.params[task.k + 1].name, Known(task.routine, NextTemp(routine)))
    BY <1>24 DEF AddParam, ParamIn, Begins, Doing, InExp, Results, routine
  <2>2. PICK more, tasks :
          /\ One(tasks, Turned("params", task.target, task.left, task.at, task.k + 1))
          /\ Step(more, 0, 1, tasks)
    BY <1>0, <1>24, AddParamShape
  <2>3. VarsApart'
    <3>1. ~IsVar(sym, task.routine, NextTemp(routine))
      BY <2>1, NextFacts
    <3> QED
      BY <1>0, <2>1, <3>1, PutApart DEF Known
  <2>4. TreeFits(S, F, tasks) /\ \A i \in DOMAIN tasks : tasks[i].do \notin Storing
    BY <2>1, <2>2, ThisIsPart DEF TreeFits, KindFits, Results, Storing, One, Turned
  <2> QED
    BY <2>1, <2>2, <2>3, <2>4, Unmoved
<1> QED
  BY <1>1, <1>2, <1>3, <1>4, <1>5, <1>6, <1>7, <1>8, <1>9, <1>10, <1>11, <1>12, <1>13,
     <1>14, <1>15, <1>16, <1>17, <1>18, <1>19, <1>20, <1>21, <1>22, <1>23, <1>24 DEF GenNode

-----------------------------------------------------------------------------
(* The programs themselves *)

PlainInv(S, F) == IsPlain(S, F) /\ TreeInv(S, F) /\ VarsApart /\ StoreInv

LEMMA PlainInits ==
  ASSUME GenInit, NEW S, NEW F, IsPlain(S, F)
  PROVE  PlainInv(S, F)
<1>1. Zero(todo) /\ todo = <<>> /\ One(sym, Sym!NoSymbols) /\ DOMAIN Sym!NoSymbols = {}
  BY Tuples DEF GenInit, Sym!NoSymbols
<1>2. VarsApart
  BY <1>1 DEF VarsApart, One
<1> QED
  BY <1>1, <1>2 DEF PlainInv, TreeInv, StoreInv, Zero

LEMMA PlainStarts ==
  ASSUME gen_ir, UNCHANGED program, NEW S, NEW F, IsPlain(S, F)
  PROVE  PlainInv(S, F)'
<1> DEFINE a == Task(1, "node", block_node(program))
<1>1. One(todo', a) /\ One(sym', Sym!NoSymbols) /\ DOMAIN Sym!NoSymbols = {}
  BY StartShape DEF Sym!NoSymbols
<1>2. a.do = "node" /\ a.of = block_node(program)
  BY DEF Task
<1> HIDE DEF a
<1>3. todo' # <<>> /\ task' = a
  <2>1. todo' = <<a>>
    BY DEF gen_ir, a
  <2> QED
    BY <1>1, <2>1, SeqFacts DEF task, One
<1>4. IsPlain(S, F)'
  BY DEF IsPlain
<1>5. TreeInv(S, F)'
  BY <1>1, <1>2 DEF TreeInv, KindFits, Results, IsPlain, One
<1>6. VarsApart'
  BY <1>1 DEF VarsApart, One
<1>7. StoreInv'
  BY <1>1, <1>2, <1>3 DEF StoreInv, TargetIsVar, Storing, One
<1> QED
  BY <1>4, <1>5, <1>6, <1>7 DEF PlainInv

LEMMA PlainNext ==
  ASSUME FlowInv, TempInv, HeldInv, NamesAreOwn, FlowInv', [GenNext]_<<program, gen>>,
         NEW S, NEW F, PlainInv(S, F)
  PROVE  PlainInv(S, F)'
<1>1. CASE GenNext
  <2>1. IsPlain(S, F)'
    BY <1>1 DEF PlainInv, IsPlain, GenNext
  <2> QED
    BY <1>1, <2>1, PlainStarts, ExpPlain, NodePlain DEF PlainInv, GenNext
<1>2. CASE UNCHANGED <<program, gen>>
  <2>1. UNCHANGED <<program, routines, sym, todo, value, task>>
    BY <1>2 DEF gen, task
  <2>2. IsPlain(S, F)' /\ TreeInv(S, F)' /\ VarsApart'
    BY <2>1 DEF PlainInv, IsPlain, TreeInv, VarsApart
  <2>3. \A name, r : /\ StandsFor(name, r)' <=> StandsFor(name, r)
                     /\ Sym!Lookup(name)' = Sym!Lookup(name)
    BY <2>1 DEF StandsFor, Sym!Lookup, Sym!Declares
  <2>4. \A t : TargetIsVar(t)' <=> TargetIsVar(t)
    BY <2>3 DEF TargetIsVar
  <2>5. Evaluates(Stored(task), value)' <=> Evaluates(Stored(task), value)
    BY <2>1, <2>3 DEF Evaluates, Stored
  <2>6. StoreInv'
    BY <2>1, <2>4, <2>5 DEF PlainInv, StoreInv
  <2> QED
    BY <2>2, <2>6 DEF PlainInv
<1> QED
  BY <1>1, <1>2

\* In a program where every name stands for a variable of its routine or a
\* function, no variable gets the value of another one when it is declared or
\* its own when it is assigned, and only the first argument of a call has a call
\* in it, the quads are as CodeRun takes them (gen_ir and gen_quad in ir.cpp).
THEOREM PlainQuadsFit ==
  GenSpec /\ PlainProgram /\ []NamesAreOwn => []QuadsFitGenerator
<1> DEFINE Plain == FlowInv /\ TempInv /\ \E S, F : PlainInv(S, F)
           Inv   == Plain /\ FitInv /\ HeldInv /\ ArgInv
<1>1. GenInit /\ PlainProgram => Inv
  BY FlowInits, TempInits, FitInits, PlainInits DEF PlainProgram
<1>2. Inv /\ NamesAreOwn /\ [GenNext]_<<program, gen>> => Plain'
  BY FlowNext, TempNext, PlainNext
<1>3. Plain => NoSelfMove /\ NoNestedArgs
  BY NoMoveToItself, NoCallAbove DEF PlainInv
<1>4. /\ Inv /\ NamesAreOwn /\ NoSelfMove /\ Plain' /\ NoNestedArgs'
      /\ [GenNext]_<<program, gen>>
      => Inv'
  BY FitNext
<1>5. Inv => Plain /\ QuadsFitGenerator
  BY FitIsFit DEF FlowInv, JumpInv
<1> HIDE DEF Plain, Inv
<1> QED
  BY <1>1, <1>2, <1>3, <1>4, <1>5, PTL DEF GenSpec
=============================================================================
