-------------------------------- MODULE Driver --------------------------------
(***************************************************************************)
(* main and compile (src/src/main.cpp): runs of the compiler, one after    *)
(* the other or several at a time, in one directory.  nasm and gcc are     *)
(* external: each makes its output file of its input file, or fails.       *)
(*                                                                         *)
(* Faults says what the surroundings may do to a run:                      *)
(*   "read"  the source file cannot be opened or read                      *)
(*   "open"  the output file cannot be opened                              *)
(*   "write" the file system fills up while the code is written            *)
(*   "tool"  nasm or gcc fails for a reason outside of the model           *)
(***************************************************************************)
EXTENDS Integers, Sequences

CONSTANTS
  Process,       \* at most this many runs at a time
  Text, Valid,   \* source texts, and those that parse and check accept
  Sources,       \* names of source files
  Outputs,       \* names of output files
  Joined,        \* Joined[a]: the name in an argument a that is -o and a name
  Long,          \* names with which a command does not fit its 256 bytes
  Argvs(_),      \* Argvs(n): the argument vectors the n-th run may have
  Shareable,     \* those of runs that may work in the directory together
  Faults,
  MaxRuns        \* bound: runs

Option == {"-s", "-c", "-o", "-x"} \cup DOMAIN Joined  \* -x: any other letter

ASSUME BoundAssumption == MaxRuns \in Nat
ASSUME TextAssumption == Valid \subseteq Text /\ "none" \notin Text
ASSUME NameAssumption ==
  /\ \A a \in DOMAIN Joined : Joined[a] \in Outputs
  /\ DOMAIN Joined \cap {"-s", "-c", "-o", "-x"} = {}
  /\ Sources \cap Option = {} /\ "none" \notin Sources
  /\ Option \subseteq Outputs /\ "none" \notin Outputs
  /\ \A n \in 1 .. MaxRuns : \A argv \in Argvs(n) : argv \in Seq(Sources \cup Outputs)

File == Sources \cup Outputs \cup {"out.s", "out.o", "out"}

\* What a file holds: a product of a stage ("text", "asm", "obj" or "exe")
\* made of a source text, or the beginning of one.
Product(stage, text) == [stage |-> stage, of |-> text]
Absent  == Product("absent", "")
Partial == Product("partial", "")

VARIABLES
  files,   \* files[f]: what file f holds
  run,     \* run[p]: the variables of main and compile in process p
  begun    \* the number of runs so far

vars == <<files, run, begun>>

None == "none"

\* A run that has looked at no argument yet.
Fresh(argv) ==
  [pc |-> "args", argv |-> argv, i |-> 1, mode |-> "exe", source |-> None,
   output |-> None, text |-> None, status |-> 0]

Init ==
  /\ \E text \in [Sources -> Text] :
       files = [f \in File |-> IF f \in Sources THEN Product("text", text[f]) ELSE Absent]
  /\ run = [p \in Process |-> [Fresh(<<>>) EXCEPT !.pc = "idle"]]
  /\ begun = 0

At(p, pc) == run[p].pc = pc

Goto(p, pc) == run' = [run EXCEPT ![p].pc = pc]

\* return status from main
Exit(p, status) ==
  run' = [run EXCEPT ![p] = [Fresh(<<>>) EXCEPT !.pc = "idle", !.status = status]]

Write(file, product) == files' = [files EXCEPT ![file] = product]

Begin(p) ==
  /\ At(p, "idle")
  /\ begun < MaxRuns
  /\ begun' = begun + 1
  /\ \E argv \in Argvs(begun + 1) :
       /\ run' = [run EXCEPT ![p] = Fresh(argv)]
       /\ \A q \in Process :
            \/ At(q, "idle")
            \/ argv # run[q].argv /\ {argv, run[q].argv} \subseteq Shareable
  /\ UNCHANGED files

\* Somebody writes another text into a source file.
Edit ==
  /\ \A p \in Process : At(p, "idle")
  /\ \E name \in Sources, t \in Text : Write(name, Product("text", t))
  /\ UNCHANGED <<run, begun>>

-----------------------------------------------------------------------------
(* The arguments: one round of the loop of main *)

Parsing(p) == At(p, "args") /\ run[p].i \in DOMAIN run[p].argv
Arg(p)     == run[p].argv[run[p].i]
IsLast(p)  == run[p].i = Len(run[p].argv)

\* Mutant: the first of -s and -c is effective.
FirstModeOption(p) ==
  /\ Parsing(p)
  /\ Arg(p) \in {"-s", "-c"}
  /\ run' = [run EXCEPT ![p].i = @ + 1,
                        ![p].mode = IF @ # "exe" THEN @
                                    ELSE IF Arg(p) = "-s" THEN "asm" ELSE "obj"]
  /\ UNCHANGED <<files, begun>>

ModeOption(p) ==
  /\ Parsing(p)
  /\ Arg(p) \in {"-s", "-c"}
  /\ run' = [run EXCEPT ![p].i = @ + 1,
                        ![p].mode = IF Arg(p) = "-s" THEN "asm" ELSE "obj"]
  /\ UNCHANGED <<files, begun>>

OutputOption(p) ==
  /\ Parsing(p)
  /\ \/ /\ Arg(p) \in DOMAIN Joined
        /\ run' = [run EXCEPT ![p].i = @ + 1, ![p].output = Joined[Arg(p)]]
     \/ /\ Arg(p) = "-o" /\ ~IsLast(p)
        /\ run' = [run EXCEPT ![p].i = @ + 2,
                              ![p].output = run[p].argv[run[p].i + 1]]
     \/ /\ Arg(p) = "-o" /\ IsLast(p)
        /\ Exit(p, 1)
  /\ UNCHANGED <<files, begun>>

\* A warning, and on to the next argument.
UnknownOption(p) ==
  /\ Parsing(p)
  /\ Arg(p) = "-x"
  /\ run' = [run EXCEPT ![p].i = @ + 1]
  /\ UNCHANGED <<files, begun>>

SourceArgument(p) ==
  /\ Parsing(p)
  /\ Arg(p) \notin Option
  /\ IF run[p].source # None THEN Exit(p, 1)
     ELSE run' = [run EXCEPT ![p].i = @ + 1, ![p].source = Arg(p)]
  /\ UNCHANGED <<files, begun>>

\* Where compile writes.
AsmFile(p) ==
  IF run[p].mode = "asm" /\ run[p].output # None THEN run[p].output ELSE "out.s"

\* No arguments: print_help.  No source: an error.
ArgumentsDone(p) ==
  /\ At(p, "args")
  /\ run[p].i \notin DOMAIN run[p].argv
  /\ IF run[p].argv = <<>> THEN Exit(p, 0)
     ELSE IF run[p].source = None THEN Exit(p, 1)
     ELSE Goto(p, "read")
  /\ UNCHANGED <<files, begun>>

-----------------------------------------------------------------------------
(* compile *)

ReadSource(p) ==
  /\ At(p, "read")
  /\ LET file == files[run[p].source]
     IN  /\ file # Absent
         /\ run' = [run EXCEPT ![p].pc = "check",
                               ![p].text = IF file.stage = "text" THEN file.of ELSE None]
  /\ UNCHANGED <<files, begun>>

ReadSourceFails(p) ==
  /\ At(p, "read")
  /\ files[run[p].source] = Absent \/ "read" \in Faults
  /\ Exit(p, 1)
  /\ UNCHANGED <<files, begun>>

\* Where main goes on after compile has returned 0.
AfterCompile(p) == IF run[p].mode = "asm" THEN Exit(p, 0) ELSE Goto(p, "nasm")

\* parse, check and gen_ir.  compile returns 0 for what check refuses.
Check(p) ==
  /\ At(p, "check")
  /\ IF run[p].text \in Valid THEN Goto(p, "open") ELSE AfterCompile(p)
  /\ UNCHANGED <<files, begun>>

\* fopen(output_file, "w") empties the file.
OpenOutput(p) ==
  /\ At(p, "open")
  /\ Write(AsmFile(p), Partial)
  /\ Goto(p, "write")
  /\ UNCHANGED begun

OpenOutputFails(p) ==
  /\ At(p, "open")
  /\ "open" \in Faults
  /\ Exit(p, 1)
  /\ UNCHANGED <<files, begun>>

\* gen_code and fclose, whose results nobody looks at.
WriteCode(p) ==
  /\ At(p, "write")
  /\ \/ Write(AsmFile(p), Product("asm", run[p].text))
     \/ "write" \in Faults /\ files' = files
  /\ AfterCompile(p)
  /\ UNCHANGED begun

-----------------------------------------------------------------------------
(* invoke: the two tools *)

\* The tool makes product of the file, and main goes on, or it fails.
Tool(p, input, stage, output, next, made) ==
  \/ /\ files[input].stage = stage
     /\ output \notin Long
     /\ Write(output, Product(made, files[input].of))
     /\ next
  \/ /\ files[input].stage # stage \/ output \in Long \/ "tool" \in Faults
     /\ files' = files
     /\ Exit(p, 1)

Named(p, default) == IF run[p].output # None THEN run[p].output ELSE default

\* Mutant: gcc is called although nasm failed.
NasmIgnored(p) ==
  /\ At(p, "nasm")
  /\ IF run[p].mode = "obj"
     THEN Tool(p, "out.s", "asm", Named(p, "out.o"), Exit(p, 0), "obj")
     ELSE /\ Goto(p, "gcc")
          /\ \/ /\ files["out.s"].stage = "asm"
                /\ Write("out.o", Product("obj", files["out.s"].of))
             \/ /\ files["out.s"].stage # "asm" \/ "tool" \in Faults
                /\ files' = files
  /\ UNCHANGED begun

Nasm(p) ==
  /\ At(p, "nasm")
  /\ IF run[p].mode = "obj"
     THEN Tool(p, "out.s", "asm", Named(p, "out.o"), Exit(p, 0), "obj")
     ELSE Tool(p, "out.s", "asm", "out.o", Goto(p, "gcc"), "obj")
  /\ UNCHANGED begun

Gcc(p) ==
  /\ At(p, "gcc")
  /\ Tool(p, "out.o", "obj", Named(p, "out"), Exit(p, 0), "exe")
  /\ UNCHANGED begun

Step(p) ==
  \/ ModeOption(p) \/ OutputOption(p) \/ UnknownOption(p) \/ SourceArgument(p)
  \/ ArgumentsDone(p)
  \/ ReadSource(p) \/ ReadSourceFails(p) \/ Check(p)
  \/ OpenOutput(p) \/ OpenOutputFails(p) \/ WriteCode(p)
  \/ Nasm(p) \/ Gcc(p)

Next == Edit \/ \E p \in Process : Begin(p) \/ Step(p)

Spec == Init /\ [][Next]_vars

-----------------------------------------------------------------------------
\* The options, as the help text explains them: only the last of -s and -c is
\* effective, -o names the final output.

\* n options -o and no more stand right before argument k.
Preceded(argv, k, n) ==
  /\ \A j \in k - n .. k - 1 : argv[j] = "-o"
  /\ k - n = 1 \/ argv[k - n - 1] # "-o"

\* Argument k is the name of an -o: read from the left, every other one of the
\* options -o before it is itself a name.
IsName(argv, k) == \E n \in 0 .. k - 1 : n % 2 = 1 /\ Preceded(argv, k, n)

Last(S) == CHOOSE k \in S : \A j \in S : j <= k

HelpMode(argv) ==
  LET flags == {k \in DOMAIN argv : argv[k] \in {"-s", "-c"} /\ ~IsName(argv, k)}
  IN  IF flags = {} THEN "exe" ELSE IF argv[Last(flags)] = "-s" THEN "asm" ELSE "obj"

HelpOutput(argv) ==
  LET named == {k \in DOMAIN argv :
                  IsName(argv, k) \/ (argv[k] \in DOMAIN Joined)}
  IN  IF named = {} THEN None
      ELSE IF IsName(argv, Last(named)) THEN argv[Last(named)]
      ELSE Joined[argv[Last(named)]]

\* Runs with -s write nothing but the file they are told to, so those with
\* different ones, none of them a source, can share a directory.
ASSUME ShareAssumption ==
  LET Written(argv) == IF HelpOutput(argv) = None THEN "out.s" ELSE HelpOutput(argv)
  IN  \A argv \in Shareable :
        /\ HelpMode(argv) = "asm" /\ Written(argv) \notin Sources
        /\ \A other \in Shareable \ {argv} : Written(other) # Written(argv)

\* When main begins to work, it works on what the arguments say.
OptionsAsInHelp ==
  \A p \in Process : At(p, "read") =>
    /\ run[p].mode = HelpMode(run[p].argv)
    /\ run[p].output = HelpOutput(run[p].argv)
    /\ {run[p].argv[k] : k \in {j \in DOMAIN run[p].argv :
          run[p].argv[j] \notin Option /\ ~IsName(run[p].argv, j)}} = {run[p].source}

\* The final output of a run.
FinalFile(r) ==
  IF r.output # None THEN r.output
  ELSE CASE r.mode = "asm" -> "out.s" [] r.mode = "obj" -> "out.o" [] r.mode = "exe" -> "out"

Succeeds(p) == run[p].pc \notin {"args", "idle"} /\ run'[p].pc = "idle" /\ run'[p].status = 0

\* A run that ends with status 0 has made its final output of its source.
Built(p) ==
  Succeeds(p) => files'[FinalFile(run[p])] = Product(run[p].mode, run[p].text)

\* So it is for sources that check accepts, whatever files earlier runs have
\* left behind and whichever tool fails.
ValidSourceIsBuilt ==
  [][\A p \in Process : run[p].text \in Valid => Built(p)]_vars

=============================================================================
