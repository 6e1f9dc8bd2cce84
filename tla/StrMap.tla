-------------------------------- MODULE StrMap --------------------------------
(***************************************************************************)
(* The hash table of the symbol tables (src/src/str_map.h): open addressing *)
(* in which a key is never further than MaxProbe cells from its home, and  *)
(* a removed key just leaves an empty cell.                                *)
(*                                                                         *)
(* _add and _grow call each other.  todo is the list of what they still    *)
(* have to add: _grow puts the entries of the old table before the one     *)
(* that did not fit, also when that one is itself of an older table.       *)
(***************************************************************************)
EXTENDS Integers, Sequences, FiniteSets, FiniteSetsExt

CONSTANTS
  Key, Value,
  NoKey, NoValue,  \* what an empty cell holds
  Hash,            \* Hash[k], 0 for no key
  InitialSize,     \* 61
  MaxProbe,        \* MAX_PROBE
  MaxSize          \* bound: the size of the table

\* What the symbol table assumes of the constants.
TableAssumption ==
  /\ NoKey \notin Key /\ NoValue \notin Value
  /\ Hash \in [Key \cup {NoKey} -> Nat] /\ Hash[NoKey] = 0
  /\ MaxProbe \in Nat \ {0}
  /\ InitialSize \in Nat /\ MaxSize \in Nat
  /\ MaxProbe < InitialSize /\ InitialSize <= MaxSize

VARIABLES
  table_size,
  table,   \* table[i]: the cell with index i
  todo     \* entries that _add still has to place, the next one first

vars == <<table_size, table, todo>>

Empty == [key |-> NoKey, value |-> NoValue]

_alloc_table(size) ==
  /\ table_size' = size
  /\ table' = [i \in 0 .. size - 1 |-> Empty]

Init ==
  /\ table_size = InitialSize
  /\ table = [i \in 0 .. InitialSize - 1 |-> Empty]
  /\ todo = <<>>

Index(key, i) == (Hash[key] + i) % table_size

-----------------------------------------------------------------------------
(* _find looks at one cell after the other until it has counted MaxProbe    *)
(* of them with another hash than that of the key.  It does not count      *)
(* other keys with the same hash, and does not stop at empty cells.        *)

\* Mutant: empty cells are not counted.
DiffersOccupied(key, i) ==
  LET cell == table[Index(key, i)]
  IN  cell # Empty /\ Hash[cell.key] # Hash[key]

Differs(key, i) == Hash[table[Index(key, i)].key] # Hash[key]

\* Mutant: stops at an empty cell, as a table that nothing is removed from may.
ReachedUntilEmpty(key, i) ==
  /\ Cardinality({j \in 0 .. i - 1 : Differs(key, j)}) < MaxProbe
  /\ \A j \in 0 .. i - 1 : table[Index(key, j)] # Empty

\* Mutant: one probe less than _add makes.
ReachedOneLess(key, i) ==
  Cardinality({j \in 0 .. i - 1 : Differs(key, j)}) < MaxProbe - 1

Reached(key, i) == Cardinality({j \in 0 .. i - 1 : Differs(key, j)}) < MaxProbe

\* The rounds in which _find comes to the key.  The cells repeat after
\* table_size rounds.
Hits(key) ==
  {i \in 0 .. table_size - 1 : table[Index(key, i)].key = key /\ Reached(key, i)}

Found(key) == Hits(key) # {}

_find(key) == Index(key, Min(Hits(key)))

-----------------------------------------------------------------------------
Set(key, value) ==
  /\ todo = <<>>
  /\ IF Found(key)
     THEN /\ table' = [table EXCEPT ![_find(key)].value = value]
          /\ todo' = todo
     ELSE /\ todo' = <<[key |-> key, value |-> value]>>
          /\ table' = table
  /\ UNCHANGED table_size

\* remove(find(key)), as exit_scope calls it
Remove(key) ==
  /\ todo = <<>>
  /\ Found(key)
  /\ table' = [table EXCEPT ![_find(key)] = Empty]
  /\ UNCHANGED <<table_size, todo>>

Free(key) == {i \in 0 .. MaxProbe - 1 : table[Index(key, i)] = Empty}

\* _add of the next entry finds an empty cell ...
Add ==
  /\ todo # <<>>
  /\ LET entry == Head(todo)
     IN  /\ Free(entry.key) # {}
         /\ table' = [table EXCEPT ![Index(entry.key, Min(Free(entry.key)))] = entry]
  /\ todo' = Tail(todo)
  /\ UNCHANGED table_size

Used == {i \in DOMAIN table : table[i] # Empty}

\* The used cells before cell i.
Rank(i) == Cardinality({j \in Used : j < i})

\* The entries of the table, in the order of their cells.
Entries ==
  [n \in 1 .. Cardinality(Used) |-> table[CHOOSE i \in Used : Rank(i) = n - 1]]

\* Mutant: the entry that did not fit is not added again.
GrowLosing ==
  /\ todo # <<>>
  /\ Free(Head(todo).key) = {}
  /\ 2 * table_size <= MaxSize
  /\ _alloc_table(2 * table_size)
  /\ todo' = Entries \o Tail(todo)

\* Mutant: the new table is as small as the old one.
GrowNothing ==
  /\ todo # <<>>
  /\ Free(Head(todo).key) = {}
  /\ _alloc_table(table_size)
  /\ todo' = Entries \o todo

\* ... or has to grow the table.
Grow ==
  /\ todo # <<>>
  /\ Free(Head(todo).key) = {}
  /\ 2 * table_size <= MaxSize
  /\ _alloc_table(2 * table_size)
  /\ todo' = Entries \o todo

Next ==
  \/ \E key \in Key : Remove(key) \/ \E value \in Value : Set(key, value)
  \/ Add \/ Grow

Spec == Init /\ [][Next]_vars /\ WF_vars(Add \/ Grow)

-----------------------------------------------------------------------------
Cells(key) == {i \in DOMAIN table : table[i].key = key}
Waiting(key) == {n \in DOMAIN todo : todo[n].key = key}

\* A key is in one cell or waits once to be added, or it is nowhere.
InOnePlace ==
  \A key \in Key : Cardinality(Cells(key)) + Cardinality(Waiting(key)) <= 1

\* What find says of a key is whether it is in the table, wherever removals
\* have left empty cells and however often the table has grown.
FindIsRight == todo = <<>> => \A key \in Key : Found(key) <=> Cells(key) # {}

\* _find ends: it comes to the key or to a cell that it counts.
FindEnds ==
  todo = <<>> => \A key \in Key :
    Found(key) \/ \E i \in 0 .. table_size - 1 : Differs(key, i)

ContentOf(key) ==
  IF Waiting(key) # {} THEN todo[Min(Waiting(key))].value
  ELSE IF Cells(key) # {} THEN table[Min(Cells(key))].value
  ELSE NoValue

Content == [key \in Key |-> ContentOf(key)]

Contents == INSTANCE Map WITH content <- Content

\* The table is a map: a step sets or removes one key, and growing changes
\* nothing although it moves everything.
MapSpec == Contents!Spec /\ [][Add \/ Grow => UNCHANGED Content]_vars

\* set returns: the table does not grow forever.
SetEnds == todo # <<>> ~> todo = <<>>
=============================================================================
