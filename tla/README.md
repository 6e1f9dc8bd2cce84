# A verification development for the mug compiler

mug (`src/`) is a one-pass-per-phase compiler, written in C++, from the small
procedural language described in `src/mug_language.txt` to NASM assembly for
AMD64 with the Windows calling convention. This directory holds TLA+ models of
the parts of it that are hard to get right, the TLC runs that check them on
small instances, and proofs, checked by TLAPS, that hold for every instance.
Paths below are relative to `src/src/` unless they begin with `src/`.

## 1. The system

```
main/compile -> Lexer -> Parser -> Checker -> IRGen -> CodeGen -> out.s -> nasm -> gcc
 (main.cpp)     (Alloc, AstAlloc)  (SymTable)  (SymTable,  (RegisterAlloc,
                 ErrorContext                   Routine)    Code)
                                                  |
                                                  +-> Evaluator (tests only)
```

The compiler is one sequential process. Nothing it keeps survives it except the
files it writes (`out.s`, `out.o`, the executable), and no two parts run at the
same time. What is hard about it is not interleaving but long chains of state
changes whose effect shows far away: a register taken from a temp while the
operands of a later quad are placed, a slot given in one basic block and read in
another one, a list that two calls share, a scope that must put back exactly
what it shadowed, an error that only a flag remembers while parsing goes on, a
file left over from an earlier run.

| Component | Source | State | Operations | What makes it correct |
|---|---|---|---|---|
| Register allocator | `register_alloc.h` | `register_queue`, `registers[].temp_id` | `alloc_register`, `alloc_any_register`, `dealloc_register`, `reset` | the queue is a permutation; a register and a temp agree about each other |
| Code generator | `code_gen.cpp`, `code.h` | `temps[].reg_id/base_offset/spilled`, `args`, counters, list of instructions | one case of `gen_code` per quad, `spill`, `get_*register*`, basic blocks | the code computes what the quads compute; values cross block ends in slots; calls pass their arguments; the frame holds everything |
| IR generator | `ir.cpp`, `ir.h` | routines with their quads, temp counter, symbol table | one case of `gen_ir` per expression and statement | quads compute what the program means; every label exists; every name is found |
| Evaluator | `ir_eval.cpp` | `env[20][100]`, `env_index`, `lastval` | one case of `eval` per quad | as the meaning of the quads |
| Checker | `check.cpp` | symbol table of types | `type_check` per node | what it accepts, the later phases can handle |
| Symbol table | `sym_table.h`, `str_map.h`, `list.h` | hash table, stash, scope ids | `put`, `has`, `get`, `in_current_scope`, `enter_scope`, `exit_scope` | leaving a scope puts back exactly what was visible before it |
| Driver | `main.cpp` | files, mode, exit code | `main`, `compile`, `invoke` | success means the output is that of this source |
| Lexer | `lexer.cpp` | `input`, `line`, `column`, tokens | `next_token` | the longest lexeme, at its line and column |
| Parser, syntax tree | `parser.cpp`, `ast*` | current token and the next one, `error` | one function per rule | accepts the grammar; the tree is what is written; an error is never forgotten |
| Error context | `error_context.cpp` | number of errors | `print_error` | at most `max_print` messages, the first of them at the first wrong token |
| Arena | `alloc.h`, `alloc.cpp` | list of blocks, `current`, `end` | `allocate`, `alloc_block`, `free_all` | pieces are aligned, disjoint and inside of their block; each block is freed once |
| Tests | `tests.cpp`, `src/tests` | - | - | - |

What is hard in each of them, with the line where it bites and the properties
that watch it, is the list "hazards" of `PROJECT.json`.

## 2. The modules

```
LexerProofs --> Lexer <-- Parser --> Grammar --> Ast <-- Mug <-- Check
                                                  ^               ^
        IRGenProofs --> IRGen --------------------+               |
                          ^                                       |
                          +-------------- IREval -----------------+

CodeGen <-- CodeRun <-- CodeRunLemmas <-- CodeRunQuads <-- CodeRunProofs

Scopes <--implements-- SymTable --> StrMap --implements--> Map
                          ^
                          +-- SymTableProofs

Pieces <--implements-- Arena <-- ArenaProofs          Driver <-- DriverProofs
```

An arrow `A <-- B` says that B extends or instantiates A; `IRGen` instantiates `Scopes`
too. Each state machine that is run, M, has a module MCM with the constants of its
small instances and a configuration per run.

### Back end: CodeGen and CodeRun

`CodeGen` is `CodeGen` and `RegisterAlloc` as operators on one record of tables:
`queue` and `temp` (register_alloc.h), `reg`, `base` and `spilled` (the members
of `Temp` in code_gen.cpp), `count` (`spilled_count`) and `out`, where
instructions go. Each case of `gen_code` that stays within a basic block is one
operator (`Mov`, `MovIm`, `Unary`, `Additive`, `Multiplicative`, `Compare`,
`Return`), built from operators with the names of the helpers (`Spill`,
`GetRegisterFor`, `Take`, ...). What an instruction does to `out` is the
constant operator `Emit`.

`CodeRun` takes a routine through the generator. It is both the generator's loop
over the quads and two executions of what it has seen: `env` is what the quads
compute, and `cg.out` is a machine (registers, memory, flags, the area of
outgoing arguments) on which `Exec`, the `Emit` of this module, runs every
instruction when it is written. So "the code computes what the quads compute" is
an invariant (`HomeHoldsValue`), and a single wrong move or missing spill breaks
it. The loops of `end_basic_block`, of the parameters and of the arguments are
one action per round. At a jump the fall-through path ends, and at a label the
execution may come from anywhere: every temp that has a slot may have any value,
as long as memory holds it, and registers hold nothing.

The routine is not fixed: each step takes any quad of `Ops` that IRGen could
produce there (a result goes to a temp nothing has touched, MOV to any temp;
operands are any temps). `actuals` has what the program has passed so far to the call
that comes next, whatever is in `args`. With the quirk "nested" an argument after
another one may have calls in it: `EnterArgument` puts `actuals` aside into `outer`,
and `EndArgument`, the ARG of that argument, takes it back. `Quirks` switches on three
things IRGen does do and the generator is not up to (section 5).

### Front half: Mug, Check, IRGen, IREval

`Mug` says what a program means, given its AST, with types carried by values at
run time, so that nothing in it depends on checker or generator. `Check` is
`type_check` of every node as a function of scopes and node that returns the
node with its data types.

`IRGen` is `gen_ir` and `gen_quad` of every node as a state machine. `gen_ir` calls
itself for the parts of a node; `todo` has its calls that have not returned, the
innermost first, each with what it does next (`do`), its node (`of`) and its local
variables (`target`, `left`, `at`, `top`, `k`). An action is what a call does between two
calls that it makes: `GenBinary` makes the temp of the result and calls for the
left operand, `LeftEnds` takes that and calls for the right one, `BinaryEnds`
makes the quad. `value` is the operand that the call for an expression has returned
last, and `sym` the generator's symbol table, with the operations of `Scopes`.

`IREval` is the machine that takes a program through both (`Check`, one step per node at
top level; `CheckEnds`, which is `gen_ir` of the whole; `Generate`, a step of
`IRGen`) and then evaluates it, one step per quad, with `env`, `env_index`, `lastval` as in
ir_eval.cpp and the C++ stack of the recursive `eval` in `frames`.

`Garbage` is a word that nobody has written. What depends on one may come out in
any way, in the evaluator (a conditional jump goes both ways) and in the meaning
(`Unknown`).

The two halves meet in `QuadsFitGenerator`, an invariant of `IREval`: it states, of the
quads IRGen makes, what `CodeRun` lets a routine be, with `JumpsLandOnLabels` as a part.
Calls inside argument lists break it, and so does `x = x`; they are excluded by
`NoNestedArgs` and `NoSelfMove`, where `CodeRun` has the quirks "nested" and "selfmove".
`NamesAreOwn` is what the generator expects of the checker: a name that is used is
declared, and in the same routine. The trees that `IREval` takes are built by the
constructors of `Ast`, with which the parser builds its own.

### Text: Lexer, Parser, Grammar, Ast

In `Lexer` a text is a sequence of pieces, each a character or some letters that
no token ends between (so that `while` is one piece); columns count pieces. A
step is a round of the loop of `next_token`, or a round of its inner loop in a
comment of several lines; the word, number or operator at `input` is one step,
as nothing else happens meanwhile. What the tokens should be is `TokensOfText`:
cut the text into lexemes, each the longest that fits (`LexemeEnd`), and make a
token of each that is not white space or a comment (`TokensAt`). It does not follow
how the lexer goes about it.

`Parser` extends `Lexer`. The parse functions are operators with their names on
one record: the place among the tokens, `error`, the number of errors, the
tokens at which messages were printed, and what the last function returned. A
step of the machine is a round of the loop of `parse_top_level`. Functions that
differ only in a table (the five levels of binary operators, which are one macro
in the code) are one operator with the level as its parameter. All tokens are read before
parsing begins: the lexer does not depend on the parser, so when it is asked
makes no difference.

`Grammar` is what the parser promises. `Rules` are those of
`src/mug_language.txt` and `parser.h`; `IsProgram` and `BeginsProgram` recognise
all programs and all beginnings of them by the places where a symbol may end;
`IsWrittenAs` says which tree some tokens stand for, by writing the tree out and
comparing. That operators group from the left is said there of trees, as the
rules of the grammar file would group them from the right.

### Symbol tables: Scopes, SymTable, Map, StrMap

`SymTable` has the members of `SymTable` as variables, and those of the hash
table below it (`HashTable == INSTANCE StrMap`): a step of one is a step of the
other. `enter_scope` is one step; `put` is one step that pushes to the stash and
begins `table.set`, and goes on with a step of `Place` for each `_add` and
`_grow`, which call each other (the list `todo` is what the recursion has still
to add); `exit_scope` is one step per round of its loop, each of which may set or
remove in the hash table.

It is shown to implement `Scopes`, a stack of partial functions: the refinement mapping
`ScopesNow` reads the scopes out of the table and the stash. `IRGen` uses the operations
of `Scopes` and `Check` a stack of that kind. The hash table is shown to implement `Map`,
in the same run: so a key that got lost or was there twice after a removal in the middle
of its run would show as a wrong scope as well.

### Arena: Pieces, Arena

`Arena` has the list of blocks, `current` and `end`, and malloc as a choice of any
address where no other block is. `free_all` is one step per block. `pieces` is a
history of what was given since the last `free_all`. It implements `Pieces`, which
says that a new piece is aligned and has nothing in common with the others, and
that pieces stay until all are freed.

### Driver

`Driver` is `main` and `compile`, one step per argument and per phase, over files that
outlive a run, with up to two runs at a time. nasm and gcc are external: each makes its
output from its input or fails. Runs are at work together only if they have no file in
common but sources (`Shareable`): nothing promises more. `Faults` names what may go wrong
outside.

## 3. The runs

All runs end within about three minutes with two workers.

| Run | Instance | What it shows |
|---|---|---|
| `CodeRun_straight` | 4 temps, 4 registers (2 for parameters), up to 3 parameters, 3 quads of arithmetic, comparison, MOV and RET | `HomeHoldsValue` in straight-line code, through evictions, the fixed registers of mul/div and parameters on the stack; the allocator's two tables agree (`RegistersAgree`) and no register is lost from the queue (`QueueHoldsEachOnce`); RET delivers (`ReturnDeliversValue`) |
| `CodeRun_blocks` | 3 quads of MOV, ADD, JZ, JMP, LABEL, ARG, CALL, calls inside argument lists | values cross the ends of blocks in slots (`BlockLeavesValuesInSlots`) that are disjoint (`SlotsDisjoint`) and kept (`SlotsAreKept`); the stores before a conditional jump do not spoil its test (`BranchTestsValue`) |
| `CodeRun_calls` | up to 3 parameters, 3 arguments, 5 quads | a call finds each argument in its place (`CallPassesArguments`): swaps, cycles, one temp passed twice, arguments on the stack; the frame has room for slots and arguments and is aligned (`FrameHoldsEverything`); above its own frame a routine writes only what its caller has set aside for it (`CallerKeepsFrame`) |
| `SymTable` | 4 symbols, two with one hash and three that share a home in the first table; 2 values, 2 probes, sizes 4 to 32; 3 scopes, 5 items in the stash | it implements `Scopes` step by step (`ScopesSpec`), lookups find the innermost declaration and nothing that has been left (`LookupFindsInnermost`), `in_current_scope` tells redeclaration from shadowing, `exit_scope` comes to its marker (`ExitEnds`); below it the hash table implements `Map` (`MapSpec`), has a key in one place (`InOnePlace`), finds it wherever removals have left gaps (`FindIsRight`), and its `find` and `set` end (`FindEnds`, `SetEnds`) |
| `Driver` | every vector of up to 4 of 6 arguments in a fresh directory; 3 runs with edits between them; 2 at a time if they have -s and different outputs; reading, opening and the tools may fail | options mean what the help says (`OptionsAsInHelp`), status 0 means that the output was made of this run's source (`ValidSourceIsBuilt`) |
| `IREval` | words of 3 bits; every binary operator on 7 by 8 operands of all types; pairs of 20 statements; calls that recurse, are nested first arguments, return nothing or are external | what the checker accepts has a meaning, and the generator finds its names (`AcceptedIsMeaningful`), a routine uses its own temps (`TempsOfRoutine`), jumps land on labels and the quads fit the code generator (`QuadsFitGenerator`), and the evaluator comes to the value the program means (`EvaluatorAgrees`) and comes to an end if the program does (`EvaluationEnds`) |
| `Parser` | 77346 texts: all that up to 6 pieces of comments, 4 pieces of words, numbers and operators, and 3 to 5 chunks of expressions, statements and functions make, right and wrong | tokens are the longest lexemes at their places (`TokensAreOfText`, `PositionsAreOfText`) and nothing behind the terminator is read (`StaysInText`); the parser accepts exactly the grammar (`AcceptsGrammar`) with the tree that is written (`TreeIsOfText`); no error is forgotten (`ErrorsAreKept`), and the first message is at the first token that no program could have there (`FirstMessageIsRight`); parsing ends (`RoundsGetOn`) |
| `Arena` | blocks of 10 bytes with headers of 2 at three addresses; 6 requests with alignments 1 to 4, among them one that just fits and one larger than a block | pieces are aligned and in blocks that are not freed, behind their headers (`PiecesFit`); it implements `Pieces` (`PiecesSpec`); each block is freed once (`ListHasHeap`). Of pieces that do not fit a block behind its header nothing is claimed (section 5) |

Four more runs end in a violation; section 5 explains them.

*Why the bounds are enough.* An eviction needs more temps than free registers: a binary
quad and two parameters or results before it fill four registers, and mul/div occupy three
of them. Four temps are enough for both operands, the result and a bystander that is
evicted. The tables have no memory of older quads beyond who holds what, so three quads
after three parameters reach every pattern of holders for four registers; the proofs of
section 4 make the question moot for the invariants. In `CodeRun_calls` five quads are
three ARGs and a CALL with one quad to spare, and three arguments with two parameter
registers have a cycle and a stack argument. Three bits hold both signs, the least
integer, overflow of every operator and both kinds of trapping division. Pairs of
statements, with blocks, branches and loops that contain others, are enough for each
construct to come before, after and inside each other one; 12 rounds of `Fuel` are more
than the 8 values of a word. Three scopes and five items let a symbol be put twice in a
scope, over an outer one, with a scope entered and left before and after. The symbols of
`SymTable` are chosen so that an entry does not fit in the table of twice the size and
`_grow` calls itself, and so that a removal empties a cell before one that is in use. In
`Parser` five chunks are enough for two operators of any two levels with their three
operands, for two ifs, a while between them and an else, and for an error at every place
of each kind of statement; a chunk may be several tokens (the condition of an if is one).
What the texts of the run leave out is named by `HarmlessLines` (section 5). In `Arena` a
block holds one to eight of the smaller pieces, so each request meets each fill of a
block.

*Fairness.* The program is sequential: fairness only says that a loop the program
is in goes on. `SymTable` has it for the loop of `exit_scope` and the calls of
`_add` and `_grow` (`ExitEnds`, `SetEnds`), `IREval` for the evaluator's loop
(`EvaluationEnds`). Nothing is assumed of what callers do next, so the other
actions have none. The loops of the code generator are bounded by counters, and no
liveness property is stated of them. Of the parser, whose step is a whole round of
parsing, termination is stated without fairness: every step reads on in the text
or takes a token (`RoundsGetOn`), and there is no deadlock.

*Deadlock* is checked in `Parser`, where `Returned` is the only step at the end, and
in `Arena`. The other programs stop (the routine is complete, the bound on scopes
or runs is reached, the evaluation is over), and there it is not.

## 4. The proofs

### The code generator

`CodeRunProofs` proves, for any number of temps, registers (at least four),
parameters, arguments, quads and values, and for any meaning of the operators:

| Theorem | Statement |
|---|---|
| `TypesKept`, `RegistersAlwaysAgree`, `QueueStaysWhole`, `SlotsStayDisjoint`, `FramesHoldEverything`, `SlotsAlwaysKept` | the invariants (and the action property) of those names, with all quirks |
| `CodeComputesQuads`, `BlocksEndInSlots`, `BranchesTestCondition`, `ReturnsDeliverValue` | `HomeHoldsValue`, `BlockLeavesValuesInSlots`, `BranchTestsValue`, `ReturnDeliversValue`, assuming `Sure` |
| `CallsPassArguments` | `CallPassesArguments`, assuming `Sure` and no calls inside argument lists |
| `CallersKeepFrames` | `CallerKeepsFrame`, with all quirks |

`Sure` says that the quirks "selfmove" and "late" are off: with them the
statements are false (section 5).

*Assumptions.* `NoTemp` is no temp; there are at least four registers and fewer
parameter registers than registers; words include 0 and 1 and not `Undef`; the
meaning of an operator on words is a word, of a comparison 0 or 1; the bounds
are natural numbers. All of them are evaluated in the runs.

*The argument.* None of the properties is inductive alone. That a store of one
temp does not destroy another needs disjoint slots; that a load finds the value
needs that what is spilled has been written; that a taken register's temp is
saved needs the two tables to agree; that two registers taken in a row differ
needs the queue to be a permutation. The inductive invariant is

    IInv == ControlOK /\ Sound(cg, Known) /\ ParamsOK /\ FlushOK /\ ArgsOK /\ ReturnOK /\ FrameOK

`Sound(s, e)` is the part about the tables and the machine for values e: types,
slots, agreement, the queue, and `Home`. It is stated of any tables and values,
because one quad is several steps of the helpers: `CodeRunLemmas` shows that each
helper of `CodeGen` (spilling, loading, taking and giving up a register, moving
one to the end of the queue) keeps `Sound`, and what else it leaves alone;
`CodeRunQuads` puts them together to one lemma per quad; `CodeRunProofs` has one
per action. `Known` is `env`, or knows nothing when `Sure` does not hold: so the
theorems without values survive the quirks. The rest is what must be remembered
across the rounds of a loop: the parameters that have not been placed are still
where the caller put them (`ParamsOK`), the registers before the loop counter
have been stored and the flags are still those of the branch (`FlushOK`), the
arguments after the counter are in place (`ArgsOK`), `rax` has the value
(`ReturnOK`), and the area of the arguments stays in its bounds (`FrameOK`).

`CallersKeepFrames` needs one thing more. That a store above the return address goes
to a place of a parameter is true because `spill` stores at slots, and a slot up
there is one that a parameter was given when it was placed. So the positions written
above the frame and the slots above it are looked at together (`Above`): all of them
are among `Places`, and each lemma about a helper says that it adds none.

### The arena

`ArenaProofs` proves, for any size of blocks and headers, any requests with
positive sizes and alignments, and any addresses that malloc may choose:

| Theorem | Statement |
|---|---|
| `Types` | `TypeOK` |
| `PiecesFitAlways` | `PiecesFit` |
| `NoneLost` | `ListHasHeap` |
| `Implements` | `Spec => PiecesSpec`: the initial state is one of `Pieces`, and every step is a step of `Pieces` or a stutter |

The assumptions are that malloc never gives a null pointer (`AddressAssumption`) and
never memory that is in use (`IsFree`, in the action). `Pieces` is implemented for
small pieces, those that leave room for the header (`Small`).

*The argument.* That a new piece has nothing in common with the older ones has two
reasons: blocks do not overlap, and in the newest block all pieces lie below
`current`. So the invariant is

    Inductive == TypeOK /\ PiecesFit /\ ListHasHeap /\ HeapApart /\ PiecesApart
                   /\ NewestBlock /\ (freeing => pieces = {})

where `NewestBlock` says that `current` and `end` are those of the first block of
the list, and that they are 0 when there is none: without the reset at the end of
`free_all` the next piece would be in freed memory. `RoomLemma` and `GiveLemma`
are the arithmetic of aligning and the effect of giving a piece, wherever it is;
`LinkLemma` is the list; `NextLemma` puts the actions together and has both halves,
the invariant and the step of `Pieces`.

### The symbol table and its hash table

`SymTableProofs` proves, for any set of symbols and values, any hash function, any size of
the table and number of probes, and any number of scopes and puts:

| Theorem | Statement |
|---|---|
| `TableIsScopes` | `ScopesSpec`: the flat table with its stash implements a stack of scopes |
| `TableIsMap` | `MapSpec`: the hash table implements a map, and growing changes nothing |
| `LookupsFindInnermost` | `LookupFindsInnermost` |
| `CurrentIsInnermost` | `CurrentScopeIsInnermost` |
| `OnePlace`, `FindRight` | `InOnePlace`, `FindIsRight` |
| `SearchesEnd` | `FindEnds`, if no symbol has the hash 0 |

What is assumed of the hash table is `TableAssumption`: hashes are numbers, an empty
cell has the hash 0 and no symbol for a key, and `MAX_PROBE` is less than the size
of the first table (8 and 61 in the code). Only `SearchesEnd` needs its hypothesis:
`_find` counts a cell that has another hash than the key, and an empty cell has the
hash 0, so for a key with the hash 0 it would not count empty cells.

*The argument.* The invariant is `Inv == TableInv /\ StashInv`. Of the hash table it says
that no two entries have one key, be they in the table or waiting to be added
(`KeysApart`), and that a key is less than `MAX_PROBE` cells from its home (`NearHome`).
The second is why `_find` may give up when it has counted that many cells and need not
stop at an empty one: removals cannot make it wrong. With these, its first half says what
each operation of the hash table does to `Content`, and the rest uses only that. Of the
stash it says that the table has what was put last (`TableHasLast`) and that each item has
what was put before it (`ItemHasPrevious`): the puts of a symbol are a chain through the
stash that ends in the table. An entry has no pointer to its place in the stash, only the
number of a scope; that the number tells the scope is `ScopeIds`: the numbers of the open
scopes increase, except that the outermost one has the number of what is outside of it,
where nothing is ever put. `TableIsScopes` then reads the scopes out of that chain:
`ExitScope` takes away the last one, a round of its loop (`PutBack`) undoes the last link
and changes none of the scopes that remain, and a put, however long its `_add` and `_grow`
take, is seen by `ScopesNow` at once. `TableIsMap` and `TableIsScopes` prove both that the
first state is one of the abstraction and that each step is a step of it or none.

### The driver

`DriverProofs` proves, for argument vectors of any length, any file names and texts,
and any number of runs and processes:

| Theorem | Statement |
|---|---|
| `ArgumentsAsInHelp` | `OptionsAsInHelp` |
| `SourceIsBuilt` | `ValidSourceIsBuilt`, if the file system does not fill up |

The assumptions are that names of sources are no options and that runs which share the
directory at one time have `-s` and different outputs, none of them a source
(`ShareAssumption`; otherwise they write to one `out.s`, and in the middle of it, which
the model, where a file is written in one step, would not show). The hypothesis of the
second theorem is that "write" is no fault: `compile` does not look at the results of
writing, so the statement is false with it.

*The argument.* `DriverInv` has for each run what its variables say of the arguments
already read (`ArgsRead`): the mode is that of the last flag so far, the output that
of the last name, the source the only operand; and that the loop stands where an
argument is one of its own and not the name after an `-o` (`Boundary`). The help text
is about the whole vector, and whether an argument is a name depends on how many
`-o` are in front of it (`IsName` by counting them, `Boundary` by the parity).
For the files (`StagesKept`): before nasm, `out.s` has the code of this run's text,
and before gcc, `out.o` its object file; kept beside other runs because those have
`-s` and so leave `out.o` alone, and never are in these phases themselves.

### The lexer

`LexerProofs` proves, for any texts, letters, keywords and greatest literal:

| Theorem | Statement |
|---|---|
| `TokensRight` | `TokensAreOfText` |
| `PositionsRight` | `PositionsAreOfText` |
| `InTextAlways` | `StaysInText` |

All of them are about texts with `HarmlessLines`, because without it they are false
(`Lexer_comment`, section 5). The assumptions are that a letter is no digit, blank or
operator, that a keyword has a type of its own, and that no text contains the
terminator. The specification is `LexerSpec`; `Parser` runs the same `next_token`
until the terminator has been returned, and leaves the lexer's variables alone after
that.

*The argument.* The invariant `LexInv` says that the tokens so far, followed by those
of the text from some place on, are the tokens of the text (`Aligned`). Between
lexemes that place is `input`; in a comment it is where the comment was opened, and
no end of it has been passed since: that is what looking at one character less, or
skipping one too many, would break. `line` is the number of line ends before `input`
with one more, and `column` the distance from the last of them. Each action then needs that the
pieces it takes are a lexeme and that nothing longer is one (`EndsAt`, `LongerIs`).
For a literal, taking the rest at every digit, as unsigned arithmetic does, is shown
to come to the rest of the number that is written (`Horner`).

`TokensOfText` and the values of literals are recursive functions of numbers. That
they exist and have the values of their equations is shown by induction in the form
of sets: a set of numbers that is not empty has a least element (`LeastNat`, from the
well-founded order of the numbers), so nothing is the first place where a fact fails.

### The IR generator

`IRGenProofs` proves, for any AST whatever, of any depth and with any names:

| Theorem | Statement |
|---|---|
| `Jumping` | `JumpsLandOnLabels` |
| `TempsAreOwn` | `TempsOfRoutine`, if `NamesAreOwn` |
| `QuadsFit` | `QuadsFitGenerator`, if `NamesAreOwn`, `NoSelfMove` and `NoNestedArgs` |
| `PlainQuadsFit` | `QuadsFitGenerator`, if `NamesAreOwn`, of any `PlainProgram` |

The hypotheses are about the AST, as the generator meets its nodes. They cannot be
dropped. `NamesAreOwn` is the checker's task: the run `IREval` checks it as a part of
`AcceptedIsMeaningful`, for what the checker accepts; without it an operand may be
anything (variables of the top level in functions, section 5). `NoSelfMove` and
`NoNestedArgs` are nobody's task, the code relies on them (section 5). They speak of
temps and of calls in `todo`; what a program must be like for them to hold is said by
`PlainProgram`, of its AST alone: no assignment gives a variable its own value, no
declaration gives one the value of another (their temp would be the same one, and then
`x = y` a MOV to itself), and no argument but the first has a call in it. `PlainQuadsFit`
puts this in their place. The programs of the run `IREval` that the checker accepts are
plain; the one of `IREval_alias` is not. Nothing else
is assumed of the AST, not even that it is one: an action whose guard finds no
`kind` that it knows is not taken. The theorems are about `GenSpec`, the generator
alone, which the phase "generate" of `IREval` runs.

`QuadsFit` is the link to `CodeRunProofs`: what it says of the quads of a routine is
what the theorems there take for granted of the quads that a routine may have, apart
from one thing, that a loop brings no value from further down (the quirk "late",
section 5).

*The argument.* A property of quads alone is not inductive, as the generator keeps in
its calls what it will write later: the temp that will be a target, the number
of a jump that will be patched, the count of arguments. The invariant says what
these are for every call in `todo`, in five parts.

- `FlowInv` has the types; which calls may wait for which (`Nested`: a call that waits
  for an expression waits for a call in the same routine, so that a function is never
  generated in the middle of an expression); that nothing comes before the parameters
  (`ParamsInv`); and of jumps (`JumpInv`) that each one without a label is that of
  exactly one waiting call, and that the label of a loop that is being generated is there.
- `TempInv`: what calls have in `target` and `left`, what `value` is when somebody
  waits for it, and what the symbol table has, are temps of the routine they are
  used in. This needs that no step takes temps or routines away.
- `FitInv` is `QuadsFitGenerator` quad by quad: what is said of a quad depends only
  on those before it, so adding one keeps it for the others, and patching a jump changes
  nothing that it speaks of.
- `HeldInv`: between `make_temp` and the quad that writes the temp (in `GenBinary`
  there is the code of two operands in between) no other call has it, no variable is
  named by it, and no quad has touched it; for `&&` and `||`, which write theirs twice,
  no ARG has it.
- `ArgInv`: the ARGs that no CALL follows are as many as the one waiting call with
  arguments has counted, and while there are any, no other call of a function is in
  progress. Therefore there is no jump of a statement and no return between an ARG and
  its CALL: those belong to statements, and a call waits for expressions only.

For plain programs three more parts say what `todo` has to do with the AST. `TreeInv`:
every call is for a part of the program, of the kind that it takes it for; above a call
that waits for a later argument are only parts without calls of functions, and above one
that waits for the value of a variable is that value. `VarsApart`: no two entries of
the symbol table have one temp of a routine; a variable declared with a value takes over the temp
of it, which is new unless the value is a variable. `StoreInv`: the target of a MOV that is
still to come is the temp of its variable, and the value that has come is either that of
another variable, or no variable's temp.

### What is only model-checked

- Liveness under fairness (`ExitEnds`, `SetEnds`, `EvaluationEnds`) is out of the
  prover's reach. So it is not proved that the table stops growing, only that growing
  loses nothing, and not that `exit_scope` ends, only that it never pops from an empty
  stash.
- `Mug` and `Check` are recursive over trees, and `Grammar` and `Parser` over trees and
  tokens, with recursive operators for which the prover has no backend.
  `EvaluatorAgrees` and `AcceptedIsMeaningful` of the run `IREval`, whose meaning of
  programs is such an operator, and `AcceptsGrammar`, `TreeIsOfText`, `ErrorsAreKept`,
  `FirstMessageIsRight` and `RoundsGetOn` of `Parser` are checked by TLC alone. Induction
  over numbers can be had in the form of sets, as above; over trees it would take a
  well-founded order of them and recursive functions instead of operators.
- What the four runs that end in a violation show is in no theorem: where their
  property is in one too, or follows from one (`NoOtherArgument` does, from
  `CallPassesArguments`), the hypothesis of the theorem excludes it.

## 5. Where code and documentation differ

The first four are runs whose only property is violated, and entries in
"findings" with the lines quoted.

- **Calls inside argument lists** (`CodeRun_nested_args`). IRGen gives the ARG of
  `a` in `f(a, g(b))` before it generates `g(b)`, both ARGs have the number 0, and
  CodeGen keeps them in one list that the CALL of `g` empties. `f` gets the wrong
  first argument: the trace is this program, with `a = 0` and `b = 1`, and ends where
  `f` is called with 1 and the result of `g`, against `NoOtherArgument` (a callee
  that finds a value in the place of an argument finds the one that is passed). The
  evaluator has the same problem, by the rows of `env`. A call that is the first
  argument is fine, and the passing runs have such.
- **Refused sources** (`Driver_stale`). `compile` returns 0 when the checker
  refuses. The trace shows it for `-s`: the status is 0, and no output was written.
  Without `-s`, `main` goes on to assemble an `out.s` that this run has not written.
- **Initialising with a variable** (`IREval_alias`). `int x = p;` gives `x` the temp
  of `p`, and assignments to either change both.
- **A comment closed at the beginning of a line** (`Lexer_comment`). In a comment
  the character after the end of a line is skipped without being looked at
  (lexer.cpp:145). If it is the star of `*/`, the comment goes on; if it is another
  end of a line, that line is not counted; if it is the terminator, the lexer is
  behind the text. The example in mug_language.txt (lines 72 to 81) that closes a
  comment on a line of its own is saved by its indentation. The texts of the run
  `Parser`, and those of the theorems, have none of these inside a comment
  (`HarmlessLines`).

The next three have no run, but can be seen with the models:

- **x = x**. The target of a MOV gets its register before the operand is looked at;
  when they are the same temp, it counts as loaded. Run `MCCodeRun` as in
  `CodeRun_straight.cfg` with two temps, `MaxParams = 1`,
  `Ops = {"MOV", "JZ", "LABEL"}`, `Quirks = {"selfmove"}` and the invariant
  `RegisterHasTemp`.
- **A variable that a loop body sets last**. The same with `Quirks = {"late"}`: an
  operand is loaded only if it was spilled earlier in the text, and a loop may
  bring a value from further down.
- **Variables of the top level in functions**. The checker accepts them, and IRGen
  uses a temp id of another routine. Run `MCIREval` as in `IREval_alias.cfg` with
  `Programs <- OuterPrograms` and the invariant `TempsOfRoutine`.

Four more came up while the models were written: the name of a function is
accepted as an operand of `-` and of arithmetic (check.cpp:55), so that IRGen
takes its id for a temp; `env[20][100]` of the evaluator, with the row 0 for the
top level, has no row for the 20th nested call although the assertion in CALL
lets it pass (ir_eval.cpp:138); the grammar file has binary operators group from
the right, while the code groups them from the left, as everyone expects; and
the size of a block for a large piece does not count the header (alloc.h:48), so
that `PiecesFit` is of small pieces only.

`AcceptedIsMeaningful` and `EvaluatorAgrees` hold for programs without these: the
programs of the run `IREval` have no call in an argument list after another
argument, initialise no variable with a variable, use no top-level variable in a
function and no function as an operand. They also declare nothing as the only
statement of a branch: the checker lets such a variable be used after the branch,
where `Mug` has no rule for it.

## 6. What is not modelled

- *Text that is written*: the printing of quads (`print_ir`), of the tree
  (`print_node`, which nothing calls) and of instructions, and the wording of
  messages. An instruction is what it does when it runs, a message the token it
  points at; those of the checker are left out.
- *Characters and hashes*: a string is a value with a hash; comparing, hashing and
  copying its characters is left out. A word of the lexer is a sequence of pieces.
- *Memory that runs out*: malloc never fails. `List` is a sequence that has room,
  except that a resize keeps what the cells held (`args` in `CodeRun`), because that
  shows; the blocks of 64 in which a routine keeps its quads are a sequence.
- *Equal literals*: the symbol table tells a marker by comparing pointers to two
  literals with the same text, which the model takes to be one.
- *The 64 bits of words*: `IREval` has `Width` bits, `CodeRun` any set of words.
- *Division by zero and flags in the code generator*: `Meaning` is total in
  `CodeRun`; which quotients trap is a question of `IREval` only.
- *POSIX*: `main` returns what `system` returns; the model is that of Windows, the
  platform the README of mug recommends.
- *A full disk*: the fault "write" of `Driver` is not used by a run, because the
  code makes no promise about it (it does not look at the results of writing).
- *Tests and examples*: read with the models, not part of them.

## 7. Plan

Done: the back end; symbol tables, in one state machine with their hash table;
driver; front half; lexer and parser; arena. Proved: every safety property of the
back end, the symbol table, the hash table, the driver, the lexer, the arena and the
IR generator that a passing run checks, and their refinements.

Left, in this order:

1. `ErrorsAreKept` of `Parser`: `error` is only ever set while a function runs. It
   needs what `IRGen` has, the calls of the parse functions as a stack in the state,
   so that no recursive operator is left.
2. `NamesAreOwn` from the checker: with `Check` as a machine of that form, its scopes
   and those of `IRGen` would be compared call by call.
3. `Code`: the prologue and epilogue and the frame of a call seen from the callee,
   so that two routines run on one machine.
4. The growth of `List` and the blocks of quads, whose pointers have to stay valid
   while jumps are patched.
