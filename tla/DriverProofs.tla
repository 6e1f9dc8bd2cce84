----------------------------- MODULE DriverProofs -----------------------------
(***************************************************************************)
(* Theorems about Driver: the loop of main reads the arguments the way the *)
(* help text explains them, and a source that check accepts is built,      *)
(* whatever runs before or beside it leave in the directory, unless the    *)
(* file system fills up.                                                   *)
(***************************************************************************)
EXTENDS Driver, TLAPS

Name == Sources \cup Outputs

Runs ==
  [pc : {"idle", "args", "read", "check", "open", "write", "nasm", "gcc"},
   argv : Seq(Name), i : Nat, mode : {"exe", "asm", "obj"},
   source : Name \cup {None}, output : Name \cup {None},
   text : Text \cup {None, ""}, status : {0, 1}]

Products ==
  [stage : {"text", "asm", "obj", "exe", "absent", "partial"},
   of : Text \cup {None, ""}]

DriverType ==
  /\ files \in [File -> Products]
  /\ run \in [Process -> Runs]
  /\ begun \in Nat

\* Runs that work in the directory together may do so.
Together ==
  \A p, q \in Process : p # q =>
    At(p, "idle") \/ At(q, "idle") \/ {run[p].argv, run[q].argv} \subseteq Shareable

\* Where main takes argument i for itself and not for the name after an -o.
Boundary(argv, i) ==
  /\ i \in 1 .. Len(argv) + 1
  /\ \E n \in 0 .. i - 1 : n % 2 = 0 /\ Preceded(argv, i, n)

IsFlag(argv, k)    == argv[k] \in {"-s", "-c"} /\ ~IsName(argv, k)
IsOutput(argv, k)  == IsName(argv, k) \/ argv[k] \in DOMAIN Joined
IsOperand(argv, k) == argv[k] \notin Option /\ ~IsName(argv, k)

FlagMode(argv, k)   == IF argv[k] = "-s" THEN "asm" ELSE "obj"
OutputName(argv, k) == IF IsName(argv, k) THEN argv[k] ELSE Joined[argv[k]]

\* What the variables of main hold when the arguments before i are read.
ModeRead(argv, i, mode) ==
  \/ mode = "exe" /\ \A k \in 1 .. i - 1 : ~IsFlag(argv, k)
  \/ \E k \in 1 .. i - 1 :
       /\ IsFlag(argv, k) /\ mode = FlagMode(argv, k)
       /\ \A j \in 1 .. i - 1 : IsFlag(argv, j) => j <= k

OutputRead(argv, i, output) ==
  \/ output = None /\ \A k \in 1 .. i - 1 : ~IsOutput(argv, k)
  \/ \E k \in 1 .. i - 1 :
       /\ IsOutput(argv, k) /\ output = OutputName(argv, k)
       /\ \A j \in 1 .. i - 1 : IsOutput(argv, j) => j <= k

SourceRead(argv, i, source) ==
  \/ source = None /\ \A k \in 1 .. i - 1 : ~IsOperand(argv, k)
  \/ \E k \in 1 .. i - 1 :
       /\ IsOperand(argv, k) /\ source = argv[k]
       /\ \A j \in 1 .. i - 1 : IsOperand(argv, j) => j = k

Read(r, i) ==
  /\ ModeRead(r.argv, i, r.mode)
  /\ OutputRead(r.argv, i, r.output)
  /\ SourceRead(r.argv, i, r.source)

ArgsRead(r) ==
  /\ r.pc = "args" => Boundary(r.argv, r.i) /\ Read(r, r.i)
  /\ r.pc \notin {"args", "idle"} => Read(r, Len(r.argv) + 1) /\ r.source # None

\* The files between the stages of a run on a source that check accepts.
StagesKept(r, fs) ==
  /\ r.pc \in {"open", "write"} => r.text \in Valid
  /\ r.pc \in {"nasm", "gcc"} => r.mode # "asm"
  /\ r.pc = "gcc" => r.mode = "exe"
  /\ r.pc = "nasm" /\ r.text \in Valid /\ "write" \notin Faults =>
       fs["out.s"] = Product("asm", r.text)
  /\ r.pc = "gcc" /\ r.text \in Valid /\ "write" \notin Faults =>
       fs["out.o"] = Product("obj", r.text)

DriverInv ==
  /\ DriverType
  /\ Together
  /\ \A p \in Process : ArgsRead(run[p]) /\ StagesKept(run[p], files)

-----------------------------------------------------------------------------
(* The arguments *)

\* The options -o right before an argument can be counted.
LEMMA PrecededOnce ==
  ASSUME NEW argv, NEW k \in Nat \ {0}, NEW n \in 0 .. k - 1, NEW m \in 0 .. k - 1,
         Preceded(argv, k, n), Preceded(argv, k, m)
  PROVE  n = m
<1>1. ASSUME NEW a \in 0 .. k - 1, NEW b \in 0 .. k - 1, a < b,
             Preceded(argv, k, a), Preceded(argv, k, b)
      PROVE  FALSE
  <2>1. k - a - 1 \in k - b .. k - 1 /\ k - a # 1
    BY <1>1
  <2>2. argv[k - a - 1] = "-o"
    BY <1>1, <2>1 DEF Preceded
  <2> QED
    BY <1>1, <2>1, <2>2 DEF Preceded
<1> QED
  BY <1>1

\* What main takes for itself is no name.
LEMMA NoNameAtBoundary ==
  ASSUME NEW argv, NEW i, Boundary(argv, i)
  PROVE  ~IsName(argv, i)
<1>1. i \in Nat \ {0}
  BY DEF Boundary
<1>2. PICK n \in 0 .. i - 1 : n % 2 = 0 /\ Preceded(argv, i, n)
  BY DEF Boundary
<1>3. \A m \in 0 .. i - 1 : Preceded(argv, i, m) => m = n
  BY <1>1, <1>2, PrecededOnce
<1> QED
  BY <1>2, <1>3 DEF IsName

\* Main goes on behind an argument other than -o.
LEMMA AfterArgument ==
  ASSUME NEW argv \in Seq(Name), NEW i, Boundary(argv, i), i <= Len(argv), argv[i] # "-o"
  PROVE  Boundary(argv, i + 1)
<1>1. i \in Nat \ {0} /\ i + 1 \in 1 .. Len(argv) + 1
  BY DEF Boundary
<1>2. Preceded(argv, i + 1, 0)
  BY <1>1 DEF Preceded
<1>3. 0 \in 0 .. (i + 1) - 1 /\ 0 % 2 = 0
  BY <1>1
<1> QED
  BY <1>1, <1>2, <1>3 DEF Boundary

\* Main goes on behind the name after an -o.
LEMMA AfterName ==
  ASSUME NEW argv \in Seq(Name), NEW i, Boundary(argv, i), i < Len(argv), argv[i] = "-o"
  PROVE  IsName(argv, i + 1) /\ Boundary(argv, i + 2)
<1>1. i \in Nat \ {0} /\ i + 2 \in 1 .. Len(argv) + 1
  BY DEF Boundary
<1>2. PICK n \in 0 .. i - 1 : n % 2 = 0 /\ Preceded(argv, i, n)
  BY DEF Boundary
<1>3. Preceded(argv, i + 1, n + 1)
  <2>1. \A j \in (i + 1) - (n + 1) .. (i + 1) - 1 : j \in i - n .. i - 1 \/ j = i
    BY <1>1
  <2>2. (i + 1) - (n + 1) = i - n
    BY <1>1
  <2> QED
    BY <1>1, <1>2, <2>1, <2>2 DEF Preceded
<1>4. n + 1 \in 0 .. (i + 1) - 1 /\ (n + 1) % 2 = 1
  BY <1>1, <1>2
<1>5. IsName(argv, i + 1)
  BY <1>3, <1>4 DEF IsName
<1>6. CASE argv[i + 1] # "-o"
  <2>1. Preceded(argv, i + 2, 0)
    BY <1>1, <1>6 DEF Preceded
  <2>2. 0 \in 0 .. (i + 2) - 1 /\ 0 % 2 = 0
    BY <1>1
  <2> QED
    BY <1>1, <1>5, <2>1, <2>2 DEF Boundary
<1>7. CASE argv[i + 1] = "-o"
  <2>1. Preceded(argv, i + 2, n + 2)
    <3>1. \A j \in (i + 2) - (n + 2) .. (i + 2) - 1 :
            j \in (i + 1) - (n + 1) .. (i + 1) - 1 \/ j = i + 1
      BY <1>1
    <3>2. (i + 2) - (n + 2) = (i + 1) - (n + 1)
      BY <1>1
    <3> QED
      BY <1>1, <1>3, <1>7, <3>1, <3>2 DEF Preceded
  <2>2. n + 2 \in 0 .. (i + 2) - 1 /\ (n + 2) % 2 = 0
    BY <1>1, <1>2
  <2> QED
    BY <1>1, <1>5, <2>1, <2>2 DEF Boundary
<1> QED
  BY <1>6, <1>7

\* One more argument is read.
LEMMA ModeOneMore ==
  ASSUME NEW argv, NEW i \in Nat \ {0}, NEW mode, ModeRead(argv, i, mode)
  PROVE  ModeRead(argv, i + 1, IF IsFlag(argv, i) THEN FlagMode(argv, i) ELSE mode)
<1>1. \A j \in 1 .. (i + 1) - 1 : (j \in 1 .. i - 1 \/ j = i) /\ j <= i
  OBVIOUS
<1>2. i \in 1 .. (i + 1) - 1 /\ \A j \in 1 .. i - 1 : j \in 1 .. (i + 1) - 1
  OBVIOUS
<1>3. CASE IsFlag(argv, i)
  BY <1>1, <1>2, <1>3 DEF ModeRead
<1>4. CASE ~IsFlag(argv, i)
  BY <1>1, <1>2, <1>4 DEF ModeRead
<1> QED
  BY <1>3, <1>4

LEMMA OutputOneMore ==
  ASSUME NEW argv, NEW i \in Nat \ {0}, NEW output, OutputRead(argv, i, output)
  PROVE  OutputRead(argv, i + 1,
                    IF IsOutput(argv, i) THEN OutputName(argv, i) ELSE output)
<1>1. \A j \in 1 .. (i + 1) - 1 : (j \in 1 .. i - 1 \/ j = i) /\ j <= i
  OBVIOUS
<1>2. i \in 1 .. (i + 1) - 1 /\ \A j \in 1 .. i - 1 : j \in 1 .. (i + 1) - 1
  OBVIOUS
<1>3. CASE IsOutput(argv, i)
  BY <1>1, <1>2, <1>3 DEF OutputRead
<1>4. CASE ~IsOutput(argv, i)
  BY <1>1, <1>2, <1>4 DEF OutputRead
<1> QED
  BY <1>3, <1>4

LEMMA SourceOneMore ==
  ASSUME NEW argv, NEW i \in Nat \ {0}, NEW source, SourceRead(argv, i, source),
         IsOperand(argv, i) => source = None,
         \A k \in 1 .. i - 1 : argv[k] # None
  PROVE  SourceRead(argv, i + 1, IF IsOperand(argv, i) THEN argv[i] ELSE source)
<1>1. \A j \in 1 .. (i + 1) - 1 : j \in 1 .. i - 1 \/ j = i
  OBVIOUS
<1>2. i \in 1 .. (i + 1) - 1 /\ \A j \in 1 .. i - 1 : j \in 1 .. (i + 1) - 1
  OBVIOUS
<1>3. CASE IsOperand(argv, i)
  <2>1. \A k \in 1 .. i - 1 : ~IsOperand(argv, k)
    BY <1>3 DEF SourceRead
  <2> QED
    BY <1>1, <1>2, <1>3, <2>1 DEF SourceRead
<1>4. CASE ~IsOperand(argv, i)
  BY <1>1, <1>2, <1>4 DEF SourceRead
<1> QED
  BY <1>3, <1>4

\* After the last argument the variables hold what the help text says.
LEMMA ModeOfAll ==
  ASSUME NEW argv \in Seq(Name), NEW mode, ModeRead(argv, Len(argv) + 1, mode)
  PROVE  mode = HelpMode(argv)
<1> DEFINE flags == {k \in DOMAIN argv : argv[k] \in {"-s", "-c"} /\ ~IsName(argv, k)}
<1>1. DOMAIN argv = 1 .. (Len(argv) + 1) - 1 /\ Len(argv) \in Nat
  OBVIOUS
<1>2. \A k : k \in flags <=> k \in 1 .. (Len(argv) + 1) - 1 /\ IsFlag(argv, k)
  BY <1>1 DEF IsFlag
<1>3. CASE flags = {}
  BY <1>2, <1>3 DEF ModeRead, HelpMode
<1>4. CASE flags # {}
  <2>1. PICK k \in flags : mode = FlagMode(argv, k) /\ \A j \in flags : j <= k
    <3> HIDE DEF flags
    <3> QED
      BY <1>2, <1>4 DEF ModeRead
  <2>2. \A a, b \in flags : a \in Nat /\ (a <= b /\ b <= a => a = b)
    BY <1>1
  <2>3. Last(flags) = k
    <3> HIDE DEF flags
    <3> QED
      BY <2>1, <2>2 DEF Last
  <2> QED
    BY <1>4, <2>1, <2>3 DEF HelpMode, FlagMode
<1> QED
  BY <1>3, <1>4

LEMMA OutputOfAll ==
  ASSUME NEW argv \in Seq(Name), NEW output, OutputRead(argv, Len(argv) + 1, output)
  PROVE  output = HelpOutput(argv)
<1> DEFINE named == {k \in DOMAIN argv : IsName(argv, k) \/ (argv[k] \in DOMAIN Joined)}
<1>1. DOMAIN argv = 1 .. (Len(argv) + 1) - 1 /\ Len(argv) \in Nat
  OBVIOUS
<1>2. \A k : k \in named <=> k \in 1 .. (Len(argv) + 1) - 1 /\ IsOutput(argv, k)
  BY <1>1 DEF IsOutput
<1>3. CASE named = {}
  BY <1>2, <1>3 DEF OutputRead, HelpOutput
<1>4. CASE named # {}
  <2>1. PICK k \in named : output = OutputName(argv, k) /\ \A j \in named : j <= k
    <3> HIDE DEF named
    <3> QED
      BY <1>2, <1>4 DEF OutputRead
  <2>2. \A a, b \in named : a \in Nat /\ (a <= b /\ b <= a => a = b)
    BY <1>1
  <2>3. Last(named) = k
    <3> HIDE DEF named
    <3> QED
      BY <2>1, <2>2 DEF Last
  <2> QED
    BY <1>4, <2>1, <2>3 DEF HelpOutput, OutputName
<1> QED
  BY <1>3, <1>4

LEMMA SourceOfAll ==
  ASSUME NEW argv \in Seq(Name), NEW source, SourceRead(argv, Len(argv) + 1, source),
         source # None
  PROVE  {argv[k] : k \in {j \in DOMAIN argv :
            argv[j] \notin Option /\ ~IsName(argv, j)}} = {source}
<1>1. DOMAIN argv = 1 .. (Len(argv) + 1) - 1
  OBVIOUS
<1>2. PICK k \in DOMAIN argv : /\ IsOperand(argv, k) /\ source = argv[k]
                              /\ \A j \in DOMAIN argv : IsOperand(argv, j) => j = k
  BY <1>1 DEF SourceRead
<1> QED
  BY <1>2 DEF IsOperand

-----------------------------------------------------------------------------
(* The steps *)

\* A run at work beside another has -s, so no file between stages is its own.
LEMMA OthersKeepNoStage ==
  ASSUME DriverInv, NEW p \in Process, NEW q \in Process, p # q, ~At(p, "idle"), NEW fs
  PROVE  StagesKept(run[q], fs)
<1> DEFINE r == run[q]
<1>1. r \in Runs /\ ArgsRead(r) /\ StagesKept(r, files)
  BY DEF DriverInv, DriverType
<1>2. CASE r.pc \in {"args", "idle"}
  BY <1>2 DEF StagesKept
<1>3. CASE r.pc \notin {"args", "idle"}
  <2>1. r.argv \in Shareable
    BY <1>3 DEF DriverInv, Together, At
  <2>2. r.mode = HelpMode(r.argv)
    BY <1>1, <1>3, ModeOfAll DEF ArgsRead, Read, Runs
  <2>3. r.mode = "asm"
    BY <2>1, <2>2, ShareAssumption
  <2> QED
    BY <1>1, <2>3 DEF StagesKept
<1> QED
  BY <1>2, <1>3

\* Process p goes on as x.
LEMMA OneRunMoves ==
  ASSUME DriverInv, NEW p \in Process, ~At(p, "idle"),
         NEW x \in Runs, run' = [run EXCEPT ![p] = x],
         x.pc = "idle" \/ x.argv = run[p].argv,
         ArgsRead(x), StagesKept(x, files'),
         files' \in [File -> Products], begun' = begun
  PROVE  DriverInv'
<1>1. run \in [Process -> Runs] /\ begun \in Nat /\ Together
  BY DEF DriverInv, DriverType
<1>2. /\ run' \in [Process -> Runs]
      /\ run'[p] = x /\ \A q \in Process : q # p => run'[q] = run[q]
  BY <1>1
<1>3. DriverType'
  BY <1>1, <1>2 DEF DriverType
<1>4. Together'
  BY <1>1, <1>2 DEF Together, At
<1>5. ASSUME NEW q \in Process
      PROVE  ArgsRead(run'[q]) /\ StagesKept(run'[q], files')
  <2>1. CASE q = p
    BY <1>2, <2>1
  <2>2. CASE q # p
    <3>1. ArgsRead(run[q])
      BY DEF DriverInv
    <3>2. \A fs : StagesKept(run[q], fs)
      BY <2>2, OthersKeepNoStage
    <3> QED
      BY <1>2, <2>2, <3>1, <3>2
  <2> QED
    BY <2>1, <2>2
<1> QED
  BY <1>3, <1>4, <1>5 DEF DriverInv

\* return from main
LEMMA ExitStep ==
  ASSUME DriverInv, NEW p \in Process, ~At(p, "idle"),
         NEW status \in {0, 1}, Exit(p, status),
         files' \in [File -> Products], begun' = begun
  PROVE  DriverInv'
<1> DEFINE x == [Fresh(<<>>) EXCEPT !.pc = "idle", !.status = status]
<1>1. x \in Runs /\ x.pc = "idle"
  <2>1. <<>> \in Seq(Name)
    OBVIOUS
  <2> QED
    BY <2>1 DEF Fresh, Runs
<1>2. ArgsRead(x) /\ StagesKept(x, files')
  BY <1>1 DEF ArgsRead, StagesKept
<1>3. run' = [run EXCEPT ![p] = x]
  BY DEF Exit
<1> HIDE DEF x
<1> QED
  BY <1>1, <1>2, <1>3, OneRunMoves

\* The loop of main goes on with argument i of what it was given.
LEMMA ArgumentStep ==
  ASSUME DriverInv, NEW p \in Process, At(p, "args"), UNCHANGED <<files, begun>>,
         NEW i, NEW mode \in {"exe", "asm", "obj"},
         NEW source \in Name \cup {None}, NEW output \in Name \cup {None},
         run' = [run EXCEPT ![p] = [run[p] EXCEPT !.i = i, !.mode = mode,
                                       !.source = source, !.output = output]],
         Boundary(run[p].argv, i), ModeRead(run[p].argv, i, mode),
         SourceRead(run[p].argv, i, source), OutputRead(run[p].argv, i, output)
  PROVE  DriverInv'
<1> DEFINE x == [run[p] EXCEPT !.i = i, !.mode = mode, !.source = source, !.output = output]
<1>1. run[p] \in Runs /\ run[p].pc = "args" /\ files \in [File -> Products]
  BY DEF DriverInv, DriverType, At
<1>2. i \in Nat
  <2>1. run[p].argv \in Seq(Name)
    BY <1>1 DEF Runs
  <2>2. Len(run[p].argv) \in Nat
    BY <2>1
  <2> QED
    BY <2>2 DEF Boundary
<1>3. x \in Runs /\ x.pc = "args" /\ x.argv = run[p].argv
  BY <1>1, <1>2 DEF Runs
<1>4. x.i = i /\ x.mode = mode /\ x.source = source /\ x.output = output
  BY <1>1 DEF Runs
<1>5. ArgsRead(x) /\ StagesKept(x, files')
  BY <1>3, <1>4 DEF ArgsRead, Read, StagesKept
<1>6. ~At(p, "idle")
  BY DEF At
<1>7. run' = [run EXCEPT ![p] = x]
  OBVIOUS
<1> HIDE DEF x
<1> QED
  BY <1>1, <1>3, <1>5, <1>6, <1>7, OneRunMoves

\* What is known of a run at the arguments.
LEMMA AtArguments ==
  ASSUME DriverInv, NEW p \in Process, Parsing(p)
  PROVE  /\ run[p] \in Runs /\ run[p].argv \in Seq(Name)
         /\ run[p].i \in Nat \ {0} /\ run[p].i <= Len(run[p].argv)
         /\ Boundary(run[p].argv, run[p].i) /\ ~IsName(run[p].argv, run[p].i)
         /\ Read(run[p], run[p].i)
         /\ \A k \in 1 .. run[p].i : run[p].argv[k] # None
<1>1. run[p] \in Runs /\ ArgsRead(run[p]) /\ run[p].pc = "args"
  BY DEF DriverInv, DriverType, Parsing, At
<1>2. run[p].argv \in Seq(Name) /\ Boundary(run[p].argv, run[p].i) /\ Read(run[p], run[p].i)
  BY <1>1 DEF ArgsRead, Runs
<1>3. run[p].i \in 1 .. Len(run[p].argv)
  BY <1>2 DEF Parsing
<1>4. \A k \in 1 .. Len(run[p].argv) : run[p].argv[k] \in Name
  BY <1>2
<1>5. None \notin Name
  BY NameAssumption DEF None, Name
<1>6. \A k \in 1 .. run[p].i : run[p].argv[k] # None
  BY <1>2, <1>3, <1>4, <1>5
<1> QED
  BY <1>1, <1>2, <1>3, <1>6, NoNameAtBoundary

LEMMA ModeOptionStep ==
  ASSUME DriverInv, NEW p \in Process, ModeOption(p)
  PROVE  DriverInv'
<1> DEFINE r == run[p]
<1> DEFINE mode == IF Arg(p) = "-s" THEN "asm" ELSE "obj"
<1>1. Parsing(p) /\ r.argv[r.i] \in {"-s", "-c"}
  BY DEF ModeOption, Arg
<1>2. /\ r \in Runs /\ r.argv \in Seq(Name) /\ r.i \in Nat \ {0} /\ r.i <= Len(r.argv)
      /\ Boundary(r.argv, r.i) /\ ~IsName(r.argv, r.i) /\ Read(r, r.i)
      /\ \A k \in 1 .. r.i : r.argv[k] # None
  BY <1>1, AtArguments
<1>3. /\ IsFlag(r.argv, r.i) /\ FlagMode(r.argv, r.i) = mode
      /\ ~IsOutput(r.argv, r.i) /\ ~IsOperand(r.argv, r.i)
  BY <1>1, <1>2, NameAssumption
     DEF IsFlag, FlagMode, IsOutput, IsOperand, Option, Arg
<1>4. Boundary(r.argv, r.i + 1)
  BY <1>1, <1>2, AfterArgument
<1>5. ModeRead(r.argv, r.i + 1, mode)
  BY <1>2, <1>3, ModeOneMore DEF Read
<1>6. OutputRead(r.argv, r.i + 1, r.output)
  BY <1>2, <1>3, OutputOneMore DEF Read
<1>7. SourceRead(r.argv, r.i + 1, r.source)
  BY <1>2, <1>3, SourceOneMore DEF Read
<1>8. run' = [run EXCEPT ![p] = [r EXCEPT !.i = r.i + 1, !.mode = mode,
                                     !.source = r.source, !.output = r.output]]
  BY <1>2 DEF ModeOption, DriverInv, DriverType, Runs
<1>9. /\ At(p, "args") /\ UNCHANGED <<files, begun>> /\ mode \in {"exe", "asm", "obj"}
      /\ r.source \in Name \cup {None} /\ r.output \in Name \cup {None}
  BY <1>2 DEF ModeOption, Parsing, Runs
<1> HIDE DEF mode
<1> QED
  BY <1>4, <1>5, <1>6, <1>7, <1>8, <1>9, ArgumentStep

LEMMA OutputOptionStep ==
  ASSUME DriverInv, NEW p \in Process, OutputOption(p)
  PROVE  DriverInv'
<1> DEFINE r == run[p]
<1>1. Parsing(p) /\ At(p, "args") /\ UNCHANGED <<files, begun>>
  BY DEF OutputOption, Parsing
<1>2. /\ r \in Runs /\ r.argv \in Seq(Name) /\ r.i \in Nat \ {0} /\ r.i <= Len(r.argv)
      /\ Boundary(r.argv, r.i) /\ ~IsName(r.argv, r.i) /\ Read(r, r.i)
      /\ \A k \in 1 .. r.i : r.argv[k] # None
  BY <1>1, AtArguments
<1>3. /\ r.mode \in {"exe", "asm", "obj"}
      /\ r.source \in Name \cup {None} /\ r.output \in Name \cup {None}
  BY <1>2 DEF Runs
<1>4. CASE /\ Arg(p) \in DOMAIN Joined
           /\ run' = [run EXCEPT ![p].i = @ + 1, ![p].output = Joined[Arg(p)]]
  <2>1. r.argv[r.i] \in DOMAIN Joined
    BY <1>4 DEF Arg
  <2>2. /\ ~IsFlag(r.argv, r.i) /\ ~IsOperand(r.argv, r.i) /\ IsOutput(r.argv, r.i)
        /\ OutputName(r.argv, r.i) = Joined[Arg(p)] /\ r.argv[r.i] # "-o"
    BY <1>2, <2>1, NameAssumption
       DEF IsFlag, IsOperand, IsOutput, OutputName, Option, Arg
  <2>3. Joined[Arg(p)] \in Name \cup {None}
    BY <1>4, NameAssumption DEF Name
  <2>4. Boundary(r.argv, r.i + 1)
    BY <1>2, <2>2, AfterArgument
  <2>5. ModeRead(r.argv, r.i + 1, r.mode)
    BY <1>2, <2>2, ModeOneMore DEF Read
  <2>6. OutputRead(r.argv, r.i + 1, Joined[Arg(p)])
    BY <1>2, <2>2, OutputOneMore DEF Read
  <2>7. SourceRead(r.argv, r.i + 1, r.source)
    BY <1>2, <2>2, SourceOneMore DEF Read
  <2>8. run' = [run EXCEPT ![p] = [r EXCEPT !.i = r.i + 1, !.mode = r.mode,
                                       !.source = r.source, !.output = Joined[Arg(p)]]]
    BY <1>2, <1>4 DEF DriverInv, DriverType, Runs
  <2> QED
    BY <1>1, <1>3, <2>3, <2>4, <2>5, <2>6, <2>7, <2>8, ArgumentStep
<1>5. CASE /\ Arg(p) = "-o" /\ ~IsLast(p)
           /\ run' = [run EXCEPT ![p].i = @ + 2, ![p].output = run[p].argv[run[p].i + 1]]
  <2> DEFINE name == r.argv[r.i + 1]
  <2>1. r.argv[r.i] = "-o" /\ r.i < Len(r.argv)
    <3>1. Len(r.argv) \in Nat
      BY <1>2
    <3> QED
      BY <1>2, <1>5, <3>1 DEF Arg, IsLast
  <2>2. IsName(r.argv, r.i + 1) /\ Boundary(r.argv, r.i + 2)
    BY <1>2, <2>1, AfterName
  <2>3. ~IsFlag(r.argv, r.i) /\ ~IsOperand(r.argv, r.i) /\ ~IsOutput(r.argv, r.i)
    BY <1>2, <2>1, NameAssumption DEF IsFlag, IsOperand, IsOutput, Option
  <2>4. /\ ~IsFlag(r.argv, r.i + 1) /\ ~IsOperand(r.argv, r.i + 1)
        /\ IsOutput(r.argv, r.i + 1) /\ OutputName(r.argv, r.i + 1) = name
    BY <2>2 DEF IsFlag, IsOperand, IsOutput, OutputName
  <2>5. name \in Name \cup {None}
    <3>1. r.i + 1 \in 1 .. Len(r.argv)
      BY <1>2, <2>1
    <3> QED
      BY <1>2, <3>1
  <2>6. r.i + 1 \in Nat \ {0} /\ (r.i + 1) + 1 = r.i + 2 /\ (r.i + 1) - 1 = r.i
    BY <1>2
  <2>7. ModeRead(r.argv, r.i + 2, r.mode)
    <3>1. ModeRead(r.argv, r.i + 1, r.mode)
      BY <1>2, <2>3, ModeOneMore DEF Read
    <3> QED
      BY <2>4, <2>6, <3>1, ModeOneMore
  <2>8. OutputRead(r.argv, r.i + 2, name)
    <3>1. OutputRead(r.argv, r.i + 1, r.output)
      BY <1>2, <2>3, OutputOneMore DEF Read
    <3> QED
      BY <2>4, <2>6, <3>1, OutputOneMore
  <2>9. SourceRead(r.argv, r.i + 2, r.source)
    <3>1. SourceRead(r.argv, r.i + 1, r.source)
      BY <1>2, <2>3, SourceOneMore DEF Read
    <3> QED
      BY <1>2, <2>4, <2>6, <3>1, SourceOneMore
  <2>10. run' = [run EXCEPT ![p] = [r EXCEPT !.i = r.i + 2, !.mode = r.mode,
                                        !.source = r.source, !.output = name]]
    BY <1>2, <1>5 DEF DriverInv, DriverType, Runs
  <2> HIDE DEF name
  <2> QED
    BY <1>1, <1>3, <2>2, <2>5, <2>7, <2>8, <2>9, <2>10, ArgumentStep
<1>6. CASE Arg(p) = "-o" /\ IsLast(p) /\ Exit(p, 1)
  BY <1>1, <1>6, ExitStep DEF DriverInv, DriverType, At
<1> QED
  BY <1>4, <1>5, <1>6 DEF OutputOption

LEMMA UnknownOptionStep ==
  ASSUME DriverInv, NEW p \in Process, UnknownOption(p)
  PROVE  DriverInv'
<1> DEFINE r == run[p]
<1>1. Parsing(p) /\ r.argv[r.i] = "-x" /\ At(p, "args") /\ UNCHANGED <<files, begun>>
  BY DEF UnknownOption, Parsing, Arg
<1>2. /\ r \in Runs /\ r.argv \in Seq(Name) /\ r.i \in Nat \ {0} /\ r.i <= Len(r.argv)
      /\ Boundary(r.argv, r.i) /\ ~IsName(r.argv, r.i) /\ Read(r, r.i)
      /\ \A k \in 1 .. r.i : r.argv[k] # None
  BY <1>1, AtArguments
<1>3. ~IsFlag(r.argv, r.i) /\ ~IsOutput(r.argv, r.i) /\ ~IsOperand(r.argv, r.i)
  BY <1>1, <1>2, NameAssumption DEF IsFlag, IsOutput, IsOperand, Option
<1>4. Boundary(r.argv, r.i + 1)
  BY <1>1, <1>2, AfterArgument
<1>5. /\ ModeRead(r.argv, r.i + 1, r.mode) /\ OutputRead(r.argv, r.i + 1, r.output)
      /\ SourceRead(r.argv, r.i + 1, r.source)
  <2>1. ModeRead(r.argv, r.i + 1, r.mode)
    BY <1>2, <1>3, ModeOneMore DEF Read
  <2>2. OutputRead(r.argv, r.i + 1, r.output)
    BY <1>2, <1>3, OutputOneMore DEF Read
  <2>3. SourceRead(r.argv, r.i + 1, r.source)
    BY <1>2, <1>3, SourceOneMore DEF Read
  <2> QED
    BY <2>1, <2>2, <2>3
<1>6. run' = [run EXCEPT ![p] = [r EXCEPT !.i = r.i + 1, !.mode = r.mode,
                                     !.source = r.source, !.output = r.output]]
  <2>1. run' = [run EXCEPT ![p].i = @ + 1]
    BY DEF UnknownOption
  <2>2. run' = [run EXCEPT ![p] = [r EXCEPT !.i = r.i + 1]]
    BY <2>1 DEF DriverInv, DriverType
  <2>3. [r EXCEPT !.i = r.i + 1, !.mode = r.mode, !.source = r.source, !.output = r.output]
          = [r EXCEPT !.i = r.i + 1]
    BY <1>2 DEF Runs
  <2> QED
    BY <2>2, <2>3
<1>7. /\ r.mode \in {"exe", "asm", "obj"}
      /\ r.source \in Name \cup {None} /\ r.output \in Name \cup {None}
  BY <1>2 DEF Runs
<1> QED
  BY <1>1, <1>4, <1>5, <1>6, <1>7, ArgumentStep

LEMMA SourceArgumentStep ==
  ASSUME DriverInv, NEW p \in Process, SourceArgument(p)
  PROVE  DriverInv'
<1> DEFINE r == run[p]
<1>1. Parsing(p) /\ r.argv[r.i] \notin Option /\ At(p, "args") /\ UNCHANGED <<files, begun>>
  BY DEF SourceArgument, Parsing, Arg
<1>2. /\ r \in Runs /\ r.argv \in Seq(Name) /\ r.i \in Nat \ {0} /\ r.i <= Len(r.argv)
      /\ Boundary(r.argv, r.i) /\ ~IsName(r.argv, r.i) /\ Read(r, r.i)
      /\ \A k \in 1 .. r.i : r.argv[k] # None
  BY <1>1, AtArguments
<1>3. CASE r.source # None
  BY <1>1, <1>3, ExitStep DEF SourceArgument, DriverInv, DriverType, At
<1>4. CASE r.source = None
  <2>1. /\ ~IsFlag(r.argv, r.i) /\ ~IsOutput(r.argv, r.i) /\ IsOperand(r.argv, r.i)
        /\ r.argv[r.i] # "-o"
    BY <1>1, <1>2 DEF IsFlag, IsOutput, IsOperand, Option
  <2>2. Boundary(r.argv, r.i + 1)
    BY <1>2, <2>1, AfterArgument
  <2>3. ModeRead(r.argv, r.i + 1, r.mode) /\ OutputRead(r.argv, r.i + 1, r.output)
    BY <1>2, <2>1, ModeOneMore, OutputOneMore DEF Read
  <2>4. SourceRead(r.argv, r.i + 1, Arg(p))
    BY <1>2, <1>4, <2>1, SourceOneMore DEF Read, Arg
  <2>5. run' = [run EXCEPT ![p] = [r EXCEPT !.i = r.i + 1, !.mode = r.mode,
                                       !.source = Arg(p), !.output = r.output]]
    <3>1. run' = [run EXCEPT ![p].i = @ + 1, ![p].source = Arg(p)]
      BY <1>4 DEF SourceArgument
    <3>2. run' = [run EXCEPT ![p] = [r EXCEPT !.i = r.i + 1, !.source = Arg(p)]]
      BY <3>1 DEF DriverInv, DriverType
    <3>3. [r EXCEPT !.i = r.i + 1, !.mode = r.mode, !.source = Arg(p), !.output = r.output]
            = [r EXCEPT !.i = r.i + 1, !.source = Arg(p)]
      BY <1>2 DEF Runs
    <3> QED
      BY <3>2, <3>3
  <2>6. r.mode \in {"exe", "asm", "obj"} /\ r.output \in Name \cup {None}
    BY <1>2 DEF Runs
  <2>7. Arg(p) \in Name \cup {None}
    <3>1. r.i \in 1 .. Len(r.argv)
      BY <1>2
    <3> QED
      BY <1>2, <3>1 DEF Arg
  <2> QED
    BY <1>1, <2>2, <2>3, <2>4, <2>5, <2>6, <2>7, ArgumentStep
<1> QED
  BY <1>3, <1>4

\* Behind the loop of main a run goes on to pc, with text read.
LEMMA WorkStep ==
  ASSUME DriverInv, NEW p \in Process, ~At(p, "idle"),
         At(p, "args") => run[p].i = Len(run[p].argv) + 1 /\ run[p].source # None,
         NEW pc \in {"read", "check", "open", "write", "nasm", "gcc"},
         NEW text \in Text \cup {None, ""},
         run' = [run EXCEPT ![p] = [run[p] EXCEPT !.pc = pc, !.text = text]],
         StagesKept([run[p] EXCEPT !.pc = pc, !.text = text], files'),
         files' \in [File -> Products], begun' = begun
  PROVE  DriverInv'
<1> DEFINE x == [run[p] EXCEPT !.pc = pc, !.text = text]
<1>1. run[p] \in Runs /\ ArgsRead(run[p])
  BY DEF DriverInv, DriverType
<1>2. x \in Runs /\ x.pc = pc /\ x.pc \notin {"args", "idle"}
  BY <1>1 DEF Runs
<1>3. /\ x.argv = run[p].argv /\ x.i = run[p].i /\ x.mode = run[p].mode
      /\ x.source = run[p].source /\ x.output = run[p].output
  BY <1>1 DEF Runs
<1>4. Read(run[p], Len(run[p].argv) + 1) /\ run[p].source # None
  <2>1. CASE At(p, "args")
    BY <1>1, <2>1 DEF ArgsRead, At
  <2>2. CASE ~At(p, "args")
    BY <1>1, <2>2 DEF ArgsRead, At
  <2> QED
    BY <2>1, <2>2
<1>5. ArgsRead(x)
  BY <1>2, <1>3, <1>4 DEF ArgsRead, Read
<1>6. run' = [run EXCEPT ![p] = x] /\ StagesKept(x, files')
  OBVIOUS
<1> HIDE DEF x
<1> QED
  BY <1>2, <1>3, <1>5, <1>6, OneRunMoves

\* The step Goto(p, pc) is of that kind.
LEMMA GotoStep ==
  ASSUME DriverInv, NEW p \in Process, ~At(p, "idle"),
         At(p, "args") => run[p].i = Len(run[p].argv) + 1 /\ run[p].source # None,
         NEW pc \in {"read", "check", "open", "write", "nasm", "gcc"}, Goto(p, pc),
         StagesKept([run[p] EXCEPT !.pc = pc], files'),
         files' \in [File -> Products], begun' = begun
  PROVE  DriverInv'
<1>1. run[p] \in Runs /\ run \in [Process -> Runs]
  BY DEF DriverInv, DriverType
<1>2. [run[p] EXCEPT !.pc = pc, !.text = run[p].text] = [run[p] EXCEPT !.pc = pc]
  BY <1>1 DEF Runs
<1>3. run' = [run EXCEPT ![p] = [run[p] EXCEPT !.pc = pc]]
  BY <1>1 DEF Goto
<1>4. run[p].text \in Text \cup {None, ""}
  BY <1>1 DEF Runs
<1> QED
  BY <1>2, <1>3, <1>4, WorkStep

LEMMA ArgumentsDoneStep ==
  ASSUME DriverInv, NEW p \in Process, ArgumentsDone(p)
  PROVE  DriverInv'
<1>1. /\ run[p] \in Runs /\ run[p].pc = "args" /\ ArgsRead(run[p])
      /\ files' \in [File -> Products] /\ begun' = begun
  BY DEF ArgumentsDone, DriverInv, DriverType, At
<1>2. ~At(p, "idle")
  BY <1>1 DEF At
<1>3. CASE Exit(p, 0) \/ Exit(p, 1)
  BY <1>1, <1>2, <1>3, ExitStep
<1>4. CASE run[p].source # None /\ Goto(p, "read")
  <2>1. run[p].argv \in Seq(Name) /\ Boundary(run[p].argv, run[p].i)
    BY <1>1 DEF ArgsRead, Runs
  <2>2. run[p].i = Len(run[p].argv) + 1
    <3>1. Len(run[p].argv) \in Nat /\ DOMAIN run[p].argv = 1 .. Len(run[p].argv)
      BY <2>1
    <3>2. run[p].i \notin DOMAIN run[p].argv
      BY DEF ArgumentsDone
    <3> QED
      BY <2>1, <3>1, <3>2 DEF Boundary
  <2>3. StagesKept([run[p] EXCEPT !.pc = "read"], files')
    BY <1>1 DEF StagesKept, Runs
  <2> QED
    BY <1>1, <1>2, <1>4, <2>2, <2>3, GotoStep
<1> QED
  BY <1>3, <1>4 DEF ArgumentsDone

LEMMA ReadSourceStep ==
  ASSUME DriverInv, NEW p \in Process, ReadSource(p) \/ ReadSourceFails(p)
  PROVE  DriverInv'
<1>1. /\ run[p] \in Runs /\ run[p].pc = "read" /\ ArgsRead(run[p])
      /\ files \in [File -> Products] /\ files' = files /\ begun' = begun
  BY DEF ReadSource, ReadSourceFails, DriverInv, DriverType, At
<1>2. ~At(p, "idle") /\ ~At(p, "args")
  BY <1>1 DEF At
<1>3. CASE ReadSourceFails(p)
  BY <1>1, <1>2, <1>3, ExitStep DEF ReadSourceFails
<1>4. CASE ReadSource(p)
  <2> DEFINE file == files[run[p].source]
  <2> DEFINE text == IF file.stage = "text" THEN file.of ELSE None
  <2>1. file \in Products
    <3>1. run[p].source \in File
      BY <1>1 DEF ArgsRead, Runs, Name, File
    <3> QED
      BY <1>1, <3>1
  <2>2. text \in Text \cup {None, ""}
    BY <2>1 DEF Products
  <2>3. run' = [run EXCEPT ![p].pc = "check", ![p].text = text]
    BY <1>4 DEF ReadSource
  <2> HIDE DEF text
  <2>4. run' = [run EXCEPT ![p] = [run[p] EXCEPT !.pc = "check", !.text = text]]
    BY <2>3 DEF DriverInv, DriverType
  <2>5. StagesKept([run[p] EXCEPT !.pc = "check", !.text = text], files')
    BY <1>1 DEF StagesKept, Runs
  <2> QED
    BY <1>1, <1>2, <2>2, <2>4, <2>5, WorkStep
<1> QED
  BY <1>3, <1>4

\* compile returns 0 to main.
LEMMA AfterCompileStep ==
  ASSUME DriverInv, NEW p \in Process, At(p, "check") \/ At(p, "write"), AfterCompile(p),
         files' \in [File -> Products], begun' = begun,
         /\ run[p].mode # "asm" /\ run[p].text \in Valid /\ "write" \notin Faults
         => files'["out.s"] = Product("asm", run[p].text)
  PROVE  DriverInv'
<1>1. run[p] \in Runs /\ run[p].pc \in {"check", "write"}
  BY DEF DriverInv, DriverType, At
<1>2. ~At(p, "idle") /\ ~At(p, "args")
  BY <1>1 DEF At
<1>3. CASE Exit(p, 0)
  BY <1>2, <1>3, ExitStep
<1>4. CASE run[p].mode # "asm" /\ Goto(p, "nasm")
  <2>1. StagesKept([run[p] EXCEPT !.pc = "nasm"], files')
    BY <1>1, <1>4 DEF StagesKept, Runs
  <2> QED
    BY <1>2, <1>4, <2>1, GotoStep
<1> QED
  BY <1>3, <1>4 DEF AfterCompile

LEMMA CheckStep ==
  ASSUME DriverInv, NEW p \in Process, Check(p)
  PROVE  DriverInv'
<1>1. /\ run[p] \in Runs /\ run[p].pc = "check" /\ At(p, "check")
      /\ files' \in [File -> Products] /\ begun' = begun
  BY DEF Check, DriverInv, DriverType, At
<1>2. ~At(p, "idle") /\ ~At(p, "args")
  BY <1>1 DEF At
<1>3. CASE run[p].text \in Valid
  <2>1. Goto(p, "open")
    BY <1>3 DEF Check
  <2>2. StagesKept([run[p] EXCEPT !.pc = "open"], files')
    BY <1>1, <1>3 DEF StagesKept, Runs
  <2> QED
    BY <1>1, <1>2, <2>1, <2>2, GotoStep
<1>4. CASE run[p].text \notin Valid
  <2>1. AfterCompile(p)
    BY <1>4 DEF Check
  <2> QED
    BY <1>1, <1>4, <2>1, AfterCompileStep
<1> QED
  BY <1>3, <1>4

\* Where a run writes is a file, and out.s unless it has -s.
LEMMA AsmFileIsFile ==
  ASSUME DriverInv, NEW p \in Process
  PROVE  AsmFile(p) \in File /\ (run[p].mode # "asm" => AsmFile(p) = "out.s")
<1>1. run[p] \in Runs
  BY DEF DriverInv, DriverType
<1> QED
  BY <1>1 DEF AsmFile, Runs, Name, File

LEMMA OpenOutputStep ==
  ASSUME DriverInv, NEW p \in Process, OpenOutput(p) \/ OpenOutputFails(p)
  PROVE  DriverInv'
<1>1. /\ run[p] \in Runs /\ run[p].pc = "open" /\ StagesKept(run[p], files)
      /\ files \in [File -> Products] /\ begun' = begun
  BY DEF OpenOutput, OpenOutputFails, DriverInv, DriverType, At
<1>2. ~At(p, "idle") /\ ~At(p, "args")
  BY <1>1 DEF At
<1>3. CASE OpenOutputFails(p)
  BY <1>1, <1>2, <1>3, ExitStep DEF OpenOutputFails
<1>4. CASE OpenOutput(p)
  <2>1. Goto(p, "write") /\ files' = [files EXCEPT ![AsmFile(p)] = Partial]
    BY <1>4 DEF OpenOutput, Write
  <2>2. Partial \in Products
    BY DEF Partial, Product, Products
  <2>3. files' \in [File -> Products]
    BY <1>1, <2>1, <2>2
  <2>4. StagesKept([run[p] EXCEPT !.pc = "write"], files')
    BY <1>1 DEF StagesKept, Runs
  <2> QED
    BY <1>1, <1>2, <2>1, <2>3, <2>4, GotoStep
<1> QED
  BY <1>3, <1>4

\* A product of the text of a run.
LEMMA ProductOfText ==
  ASSUME NEW text \in Text \cup {None, ""}, NEW stage \in {"text", "asm", "obj", "exe"}
  PROVE  Product(stage, text) \in Products
BY DEF Product, Products

LEMMA WriteCodeStep ==
  ASSUME DriverInv, NEW p \in Process, WriteCode(p)
  PROVE  DriverInv'
<1>1. /\ run[p] \in Runs /\ At(p, "write") /\ AfterCompile(p)
      /\ files \in [File -> Products] /\ begun' = begun
  BY DEF WriteCode, DriverInv, DriverType
<1>2. run[p].text \in Text \cup {None, ""}
  BY <1>1 DEF Runs
<1>3. AsmFile(p) \in File /\ (run[p].mode # "asm" => AsmFile(p) = "out.s")
  BY AsmFileIsFile
<1>4. CASE files' = [files EXCEPT ![AsmFile(p)] = Product("asm", run[p].text)]
  <2>1. files' \in [File -> Products]
    BY <1>1, <1>2, <1>4, ProductOfText
  <2>2. run[p].mode # "asm" => files'["out.s"] = Product("asm", run[p].text)
    BY <1>1, <1>3, <1>4
  <2> QED
    BY <1>1, <2>1, <2>2, AfterCompileStep
<1>5. CASE "write" \in Faults /\ files' = files
  BY <1>1, <1>5, AfterCompileStep
<1> QED
  BY <1>4, <1>5 DEF WriteCode, Write

\* The file a tool makes is a product, and holds what its input was made of.
LEMMA MadeByTool ==
  ASSUME DriverInv, NEW input \in File, NEW output \in File,
         NEW made \in {"obj", "exe"}, Write(output, Product(made, files[input].of))
  PROVE  /\ files' \in [File -> Products]
         /\ files'[output] = Product(made, files[input].of)
<1>1. files \in [File -> Products]
  BY DEF DriverInv, DriverType
<1>2. files[input].of \in Text \cup {None, ""}
  <2>1. files[input] \in Products
    BY <1>1
  <2> QED
    BY <2>1 DEF Products
<1>3. Product(made, files[input].of) \in Products
  BY <1>2, ProductOfText
<1> QED
  BY <1>1, <1>3 DEF Write

\* A name given with -o, and what stands in for one, are files.
LEMMA NamedIsFile ==
  ASSUME DriverInv, NEW p \in Process, NEW default \in File
  PROVE  Named(p, default) \in File
<1>1. run[p] \in Runs
  BY DEF DriverInv, DriverType
<1> QED
  BY <1>1 DEF Named, Runs, Name, File

\* A tool fails, or makes its file as the last step of main.
LEMMA LastToolStep ==
  ASSUME DriverInv, NEW p \in Process, ~At(p, "idle"),
         NEW input \in File, NEW output \in File, NEW stage, NEW made \in {"obj", "exe"},
         Tool(p, input, stage, output, Exit(p, 0), made), begun' = begun
  PROVE  DriverInv'
<1>1. CASE Exit(p, 0) /\ Write(output, Product(made, files[input].of))
  BY <1>1, MadeByTool, ExitStep
<1>2. CASE Exit(p, 1) /\ files' = files
  <2>1. files' \in [File -> Products]
    BY <1>2 DEF DriverInv, DriverType
  <2> QED
    BY <1>2, <2>1, ExitStep
<1> QED
  BY <1>1, <1>2 DEF Tool

LEMMA NasmStep ==
  ASSUME DriverInv, NEW p \in Process, Nasm(p)
  PROVE  DriverInv'
<1>1. /\ run[p] \in Runs /\ run[p].pc = "nasm" /\ StagesKept(run[p], files)
      /\ begun' = begun
  BY DEF Nasm, DriverInv, DriverType, At
<1>2. ~At(p, "idle") /\ ~At(p, "args")
  BY <1>1 DEF At
<1>3. "out.s" \in File /\ "out.o" \in File
  BY DEF File
<1>4. CASE run[p].mode = "obj"
  <2>1. Tool(p, "out.s", "asm", Named(p, "out.o"), Exit(p, 0), "obj")
    BY <1>4 DEF Nasm
  <2> QED
    BY <1>1, <1>2, <1>3, <2>1, NamedIsFile, LastToolStep
<1>5. CASE run[p].mode # "obj"
  <2>1. CASE Exit(p, 1) /\ files' = files
    <3>1. files' \in [File -> Products]
      BY <2>1 DEF DriverInv, DriverType
    <3> QED
      BY <1>1, <1>2, <2>1, <3>1, ExitStep
  <2>2. CASE Goto(p, "gcc") /\ Write("out.o", Product("obj", files["out.s"].of))
    <3>1. /\ files' \in [File -> Products]
          /\ files'["out.o"] = Product("obj", files["out.s"].of)
      BY <1>3, <2>2, MadeByTool
    <3>2. run[p].mode = "exe"
      BY <1>1, <1>5 DEF StagesKept, Runs
    <3>3. run[p].text \in Valid /\ "write" \notin Faults =>
            files'["out.o"] = Product("obj", run[p].text)
      BY <1>1, <3>1 DEF StagesKept, Product
    <3>4. StagesKept([run[p] EXCEPT !.pc = "gcc"], files')
      BY <1>1, <3>2, <3>3 DEF StagesKept, Runs
    <3> QED
      BY <1>1, <1>2, <2>2, <3>1, <3>4, GotoStep
  <2>3. Tool(p, "out.s", "asm", "out.o", Goto(p, "gcc"), "obj")
    BY <1>5 DEF Nasm
  <2> QED
    BY <2>1, <2>2, <2>3 DEF Tool
<1> QED
  BY <1>4, <1>5

LEMMA GccStep ==
  ASSUME DriverInv, NEW p \in Process, Gcc(p)
  PROVE  DriverInv'
<1>1. ~At(p, "idle") /\ "out.o" \in File /\ "out" \in File
  BY DEF Gcc, At, File
<1>2. Tool(p, "out.o", "obj", Named(p, "out"), Exit(p, 0), "exe") /\ begun' = begun
  BY DEF Gcc
<1> QED
  BY <1>1, <1>2, NamedIsFile, LastToolStep

LEMMA BeginStep ==
  ASSUME DriverInv, NEW p \in Process, Begin(p)
  PROVE  DriverInv'
<1>1. /\ begun \in Nat /\ begun < MaxRuns /\ begun' = begun + 1 /\ files' = files
      /\ run \in [Process -> Runs] /\ files \in [File -> Products]
  BY DEF Begin, DriverInv, DriverType
<1>2. PICK argv \in Argvs(begun + 1) :
        /\ run' = [run EXCEPT ![p] = Fresh(argv)]
        /\ \A q \in Process : At(q, "idle") \/ {argv, run[q].argv} \subseteq Shareable
  BY DEF Begin
<1>3. argv \in Seq(Name)
  <2>1. begun + 1 \in 1 .. MaxRuns
    BY <1>1, BoundAssumption
  <2> QED
    BY <2>1, NameAssumption DEF Name
<1>4. Fresh(argv) \in Runs
  BY <1>3 DEF Fresh, Runs
<1>5. /\ run' \in [Process -> Runs] /\ run'[p] = Fresh(argv)
      /\ \A q \in Process : q # p => run'[q] = run[q]
  BY <1>1, <1>2, <1>4
<1>6. Fresh(argv).argv = argv /\ Fresh(argv).i = 1 /\ Fresh(argv).pc = "args"
  BY DEF Fresh
<1>7. DriverType'
  BY <1>1, <1>5 DEF DriverType
<1>8. Together'
  BY <1>2, <1>5, <1>6 DEF DriverInv, Together, At
<1>9. Boundary(argv, 1)
  <2>1. Preceded(argv, 1, 0)
    BY DEF Preceded
  <2>2. 0 \in 0 .. 1 - 1 /\ 0 % 2 = 0 /\ 1 \in 1 .. Len(argv) + 1
    BY <1>3
  <2> QED
    BY <2>1, <2>2 DEF Boundary
<1>10. Read(Fresh(argv), 1)
  BY DEF Read, ModeRead, OutputRead, SourceRead, Fresh
<1>11. ArgsRead(Fresh(argv)) /\ StagesKept(Fresh(argv), files')
  BY <1>6, <1>9, <1>10 DEF ArgsRead, StagesKept
<1>12. ASSUME NEW q \in Process
       PROVE  ArgsRead(run'[q]) /\ StagesKept(run'[q], files')
  BY <1>1, <1>5, <1>11 DEF DriverInv
<1> QED
  BY <1>7, <1>8, <1>12 DEF DriverInv

LEMMA EditStep ==
  ASSUME DriverInv, Edit
  PROVE  DriverInv'
<1>1. /\ \A p \in Process : run[p].pc = "idle"
      /\ run' = run /\ begun' = begun /\ files \in [File -> Products]
  BY DEF Edit, At, DriverInv, DriverType
<1>2. PICK name \in Sources, t \in Text : Write(name, Product("text", t))
  BY DEF Edit
<1>3. files' \in [File -> Products]
  <2>1. Product("text", t) \in Products
    BY ProductOfText
  <2> QED
    BY <1>1, <1>2, <2>1 DEF Write, File
<1>4. DriverType' /\ Together'
  BY <1>1, <1>3 DEF DriverInv, DriverType, Together, At
<1>5. ASSUME NEW q \in Process
      PROVE  ArgsRead(run'[q]) /\ StagesKept(run'[q], files')
  BY <1>1 DEF ArgsRead, StagesKept
<1> QED
  BY <1>4, <1>5 DEF DriverInv

LEMMA DriverInit == Init => DriverInv
<1> SUFFICES ASSUME Init PROVE DriverInv
  OBVIOUS
<1> DEFINE x == [Fresh(<<>>) EXCEPT !.pc = "idle"]
<1>1. run = [p \in Process |-> x] /\ begun = 0
  BY DEF Init
<1>2. x \in Runs /\ x.pc = "idle"
  <2>1. <<>> \in Seq(Name)
    OBVIOUS
  <2> QED
    BY <2>1 DEF Fresh, Runs
<1>3. files \in [File -> Products]
  <2>1. PICK text \in [Sources -> Text] :
          files = [f \in File |-> IF f \in Sources THEN Product("text", text[f]) ELSE Absent]
    BY DEF Init
  <2>2. Absent \in Products
    BY DEF Absent, Product, Products
  <2>3. \A f \in Sources : Product("text", text[f]) \in Products
    BY ProductOfText
  <2> QED
    BY <2>1, <2>2, <2>3
<1> HIDE DEF x
<1>4. \A p \in Process : run[p] = x
  BY <1>1
<1>5. DriverType
  BY <1>1, <1>2, <1>3 DEF DriverType
<1>6. Together
  BY <1>2, <1>4 DEF Together, At
<1>7. \A p \in Process : ArgsRead(run[p]) /\ StagesKept(run[p], files)
  BY <1>2, <1>4 DEF ArgsRead, StagesKept
<1> QED
  BY <1>5, <1>6, <1>7 DEF DriverInv

LEMMA DriverNext == DriverInv /\ [Next]_vars => DriverInv'
<1> SUFFICES ASSUME DriverInv, [Next]_vars PROVE DriverInv'
  OBVIOUS
<1>1. CASE Edit
  BY <1>1, EditStep
<1>2. CASE \E p \in Process : Begin(p)
  BY <1>2, BeginStep
<1>3. CASE \E p \in Process : Step(p)
  BY <1>3, ModeOptionStep, OutputOptionStep, UnknownOptionStep, SourceArgumentStep,
     ArgumentsDoneStep, ReadSourceStep, CheckStep, OpenOutputStep, WriteCodeStep,
     NasmStep, GccStep DEF Step
<1>4. CASE UNCHANGED vars
  BY <1>4 DEF vars, DriverInv, DriverType, Together, At
<1> QED
  BY <1>1, <1>2, <1>3, <1>4 DEF Next

\* The state of the runs and the files, at every step of every run: what the
\* loop of main has read so far, and what stands between the stages.
THEOREM DriverInvariant == Spec => []DriverInv
BY DriverInit, DriverNext, PTL DEF Spec

\* The loop of main and the help text agree on every vector of arguments: which
\* of -s and -c is effective, what names the output, and that the one argument
\* left over is the source file.
THEOREM ArgumentsAsInHelp == Spec => []OptionsAsInHelp
<1>1. DriverInv => OptionsAsInHelp
  <2> SUFFICES ASSUME DriverInv, NEW p \in Process, At(p, "read")
               PROVE  /\ run[p].mode = HelpMode(run[p].argv)
                      /\ run[p].output = HelpOutput(run[p].argv)
                      /\ {run[p].argv[k] : k \in {j \in DOMAIN run[p].argv :
                            run[p].argv[j] \notin Option /\ ~IsName(run[p].argv, j)}}
                         = {run[p].source}
    BY DEF OptionsAsInHelp
  <2>1. run[p].argv \in Seq(Name)
    BY DEF DriverInv, DriverType, Runs
  <2>2. Read(run[p], Len(run[p].argv) + 1) /\ run[p].source # None
    BY DEF DriverInv, ArgsRead, At
  <2> QED
    BY <2>1, <2>2, ModeOfAll, OutputOfAll, SourceOfAll DEF Read
<1> QED
  BY <1>1, DriverInvariant, PTL

-----------------------------------------------------------------------------
(* What a run makes *)

\* A process that moves leaves the others where they are.
LEMMA OnlyOneMoves ==
  ASSUME DriverInv, NEW q \in Process, Step(q), NEW p \in Process, p # q
  PROVE  run'[p] = run[p]
<1>1. run \in [Process -> Runs]
  BY DEF DriverInv, DriverType
<1>2. \A s : Exit(q, s) => run'[p] = run[p]
  BY <1>1 DEF Exit
<1>3. \A pc : Goto(q, pc) => run'[p] = run[p]
  BY <1>1 DEF Goto
<1>4. ModeOption(q) \/ UnknownOption(q) => run'[p] = run[p]
  BY <1>1 DEF ModeOption, UnknownOption
<1>5. OutputOption(q) => run'[p] = run[p]
  BY <1>1, <1>2 DEF OutputOption
<1>6. SourceArgument(q) => run'[p] = run[p]
  BY <1>1, <1>2 DEF SourceArgument
<1>7. ArgumentsDone(q) \/ ReadSourceFails(q) \/ Check(q) => run'[p] = run[p]
  BY <1>2, <1>3 DEF ArgumentsDone, ReadSourceFails, Check, AfterCompile
<1>8. ReadSource(q) => run'[p] = run[p]
  BY <1>1 DEF ReadSource
<1>9. OpenOutput(q) \/ OpenOutputFails(q) \/ WriteCode(q) => run'[p] = run[p]
  BY <1>2, <1>3 DEF OpenOutput, OpenOutputFails, WriteCode, AfterCompile
<1>10. Nasm(q) \/ Gcc(q) => run'[p] = run[p]
  BY <1>2, <1>3 DEF Nasm, Gcc, Tool
<1> QED
  BY <1>4, <1>5, <1>6, <1>7, <1>8, <1>9, <1>10 DEF Step

\* Goto(p, pc) does not end a run, nor does Exit(p, 1) with status 0.
LEMMA StaysOrFails ==
  ASSUME DriverInv, NEW p \in Process,
         (\E pc : pc # "idle" /\ Goto(p, pc)) \/ Exit(p, 1)
  PROVE  ~Succeeds(p)
<1>1. run \in [Process -> Runs] /\ run[p] \in Runs
  BY DEF DriverInv, DriverType
<1>2. ASSUME NEW pc, pc # "idle", Goto(p, pc)
      PROVE  run'[p].pc # "idle"
  BY <1>1, <1>2 DEF Goto, Runs
<1>3. CASE Exit(p, 1)
  <2>1. run'[p].status = 1
    BY <1>1, <1>3 DEF Exit, Fresh
  <2> QED
    BY <2>1 DEF Succeeds
<1> QED
  BY <1>2, <1>3 DEF Succeeds

LEMMA BuiltByStep ==
  ASSUME DriverInv, NEW p \in Process, Step(p), run[p].text \in Valid, Succeeds(p),
         "write" \notin Faults
  PROVE  files'[FinalFile(run[p])] = Product(run[p].mode, run[p].text)
<1> DEFINE r == run[p]
<1>1. /\ r \in Runs /\ StagesKept(r, files)
      /\ files \in [File -> Products] /\ run \in [Process -> Runs]
  BY DEF DriverInv, DriverType
<1>2. r.pc \notin {"args", "idle"} /\ run'[p].pc = "idle" /\ run'[p].status = 0
  BY DEF Succeeds
<1>3. ~Exit(p, 1) /\ \A pc : pc # "idle" => ~Goto(p, pc)
  BY StaysOrFails
<1>4. CASE Check(p)
  BY <1>3, <1>4, "nasm" # "idle", "open" # "idle" DEF Check, AfterCompile
<1>5. CASE WriteCode(p)
  <2>1. r.mode = "asm" /\ files' = [files EXCEPT ![AsmFile(p)] = Product("asm", r.text)]
    BY <1>3, <1>5 DEF WriteCode, Write, AfterCompile
  <2>2. AsmFile(p) = FinalFile(r) /\ AsmFile(p) \in File
    BY <2>1, AsmFileIsFile DEF AsmFile, FinalFile
  <2> QED
    BY <1>1, <2>1, <2>2
<1>6. CASE Nasm(p)
  <2>1. r.pc = "nasm"
    BY <1>6 DEF Nasm, At
  <2>2. files["out.s"] = Product("asm", r.text) /\ r.mode # "asm"
    BY <1>1, <2>1 DEF StagesKept
  <2>3. r.mode = "obj" /\ Write(Named(p, "out.o"), Product("obj", files["out.s"].of))
    BY <1>3, <1>6 DEF Nasm, Tool
  <2>4. Named(p, "out.o") = FinalFile(r)
    BY <2>3 DEF Named, FinalFile
  <2>5. files'[Named(p, "out.o")] = Product("obj", files["out.s"].of)
    BY <2>3, NamedIsFile, MadeByTool DEF File
  <2> QED
    BY <2>2, <2>3, <2>4, <2>5 DEF Product
<1>7. CASE Gcc(p)
  <2>1. r.pc = "gcc"
    BY <1>7 DEF Gcc, At
  <2>2. files["out.o"] = Product("obj", r.text) /\ r.mode = "exe"
    BY <1>1, <2>1 DEF StagesKept
  <2>3. Write(Named(p, "out"), Product("exe", files["out.o"].of))
    BY <1>3, <1>7 DEF Gcc, Tool
  <2>4. Named(p, "out") = FinalFile(r)
    BY <2>2 DEF Named, FinalFile
  <2>5. files'[Named(p, "out")] = Product("exe", files["out.o"].of)
    BY <2>3, NamedIsFile, MadeByTool DEF File
  <2> QED
    BY <2>2, <2>4, <2>5 DEF Product
<1>8. CASE \/ ModeOption(p) \/ OutputOption(p) \/ UnknownOption(p) \/ SourceArgument(p)
           \/ ArgumentsDone(p)
  BY <1>2, <1>8
     DEF ModeOption, OutputOption, UnknownOption, SourceArgument, ArgumentsDone, Parsing, At
<1>9. CASE ReadSource(p)
  BY <1>1, <1>2, <1>9 DEF ReadSource, Runs
<1>10. CASE ReadSourceFails(p) \/ OpenOutput(p) \/ OpenOutputFails(p)
  BY <1>3, <1>10, "write" # "idle" DEF ReadSourceFails, OpenOutput, OpenOutputFails
<1> QED
  BY <1>4, <1>5, <1>6, <1>7, <1>8, <1>9, <1>10 DEF Step

\* Whatever runs before or beside it leave in the directory, and whichever file
\* or tool fails: a run that ends with status 0 has made its final output of its
\* source, when check accepts that.  A file system that fills up is left out:
\* main does not see it.
THEOREM SourceIsBuilt ==
  ASSUME "write" \notin Faults
  PROVE  Spec => ValidSourceIsBuilt
<1>1. DriverInv /\ [Next]_vars =>
        [\A p \in Process : run[p].text \in Valid => Built(p)]_vars
  <2> SUFFICES ASSUME DriverInv, [Next]_vars, NEW p \in Process,
                      run[p].text \in Valid, Succeeds(p)
               PROVE  files'[FinalFile(run[p])] = Product(run[p].mode, run[p].text)
    BY DEF Built
  <2>1. run[p].pc # "idle" /\ run'[p].pc = "idle"
    BY DEF Succeeds
  <2>2. CASE Edit \/ UNCHANGED vars
    BY <2>1, <2>2 DEF Edit, vars
  <2>3. CASE \E q \in Process : Begin(q)
    <3>1. PICK q \in Process : Begin(q)
      BY <2>3
    <3>2. PICK argv : run' = [run EXCEPT ![q] = Fresh(argv)]
      BY <3>1 DEF Begin
    <3>3. CASE q = p
      BY <2>1, <3>1, <3>3 DEF Begin, At
    <3>4. CASE q # p
      BY <2>1, <3>2, <3>4 DEF DriverInv, DriverType
    <3> QED
      BY <3>3, <3>4
  <2>4. CASE \E q \in Process : Step(q)
    <3>1. PICK q \in Process : Step(q)
      BY <2>4
    <3>2. q = p
      BY <2>1, <3>1, OnlyOneMoves
    <3> QED
      BY <3>1, <3>2, BuiltByStep
  <2> QED
    BY <2>2, <2>3, <2>4 DEF Next
<1> QED
  BY <1>1, DriverInvariant, PTL DEF Spec, ValidSourceIsBuilt
=============================================================================
