------------------------------- MODULE SymTable -------------------------------
(***************************************************************************)
(* The symbol table of the checker and of the IR generator                 *)
(* (src/src/sym_table.h): one flat table for all scopes, and a stash of    *)
(* what every put has hidden, which exit_scope puts back.                  *)
(*                                                                         *)
(* The table is the hash table of StrMap.  A put that adds a symbol goes   *)
(* on with the steps of its _add, and exit_scope is as many steps as its   *)
(* loop has rounds; nobody looks at the table between them.                *)
(***************************************************************************)
EXTENDS Integers, Sequences, FiniteSets, FiniteSetsExt

CONSTANTS
  Symbol, Value,
  NoValue,    \* what has() reports of a symbol that is not in the table
  NoSymbol,   \* the key of an empty cell
  Hash, InitialSize, MaxProbe, MaxSize,  \* of the hash table
  MaxScopes,  \* bound: scopes entered
  MaxStash    \* bound: items in the stash

ASSUME NoValueAssumption == NoValue \notin Value
ASSUME BoundAssumption == MaxScopes \in Nat /\ MaxStash \in Nat

VARIABLES
  scope_id,
  next_scope_id,
  table_size, table, todo,  \* the hash table
  stash,      \* the most recent item last
  exiting     \* exit_scope is in its loop

hash_table == <<table_size, table, todo>>
vars == <<scope_id, next_scope_id, hash_table, stash, exiting>>

Entry == [value : Value, scope : 0 .. MaxScopes - 1]

\* No entry in the table; in the stash, an entry with the scope ~0u.
NoEntry == [value |-> NoValue, scope |-> -1]

HashTable == INSTANCE StrMap WITH
  Key <- Symbol, Value <- Entry, NoKey <- NoSymbol, NoValue <- NoEntry

ASSUME TableAssumption == HashTable!TableAssumption

Found(symbol) == HashTable!Found(symbol)
Entered(symbol) == IF Found(symbol) THEN table[HashTable!_find(symbol)].value ELSE NoEntry

\* Items of the stash: the marker of a scope, and what a put has hidden.
Marker(id)           == [kind |-> "marker", scope |-> id]
Hidden(symbol, entry) == [kind |-> "hidden", symbol |-> symbol, entry |-> entry]
IsMarker(n)          == stash[n].kind = "marker"

Init ==
  /\ scope_id = 0
  /\ next_scope_id = 0
  /\ HashTable!Init
  /\ stash = <<>>
  /\ exiting = FALSE

Markers == {n \in DOMAIN stash : IsMarker(n)}

\* No function of the table is in the middle of its work.
Idle == ~exiting /\ todo = <<>>

EnterScope ==
  /\ Idle
  /\ next_scope_id < MaxScopes /\ Len(stash) < MaxStash
  /\ stash' = Append(stash, Marker(scope_id))
  /\ scope_id' = next_scope_id
  /\ next_scope_id' = next_scope_id + 1
  /\ UNCHANGED <<hash_table, exiting>>

\* Mutant: only what the current scope did not declare is stashed.
PutOverwriting(symbol, value) ==
  /\ Idle
  /\ Markers # {} /\ Len(stash) < MaxStash
  /\ stash' = IF Found(symbol) THEN stash ELSE Append(stash, Hidden(symbol, NoEntry))
  /\ HashTable!Set(symbol, [value |-> value, scope |-> scope_id])
  /\ UNCHANGED <<scope_id, next_scope_id, exiting>>

\* The whole program is a block (parse_top_level), so the checker and the IR
\* generator have entered a scope before they put anything.
Put(symbol, value) ==
  /\ Idle
  /\ Markers # {} /\ Len(stash) < MaxStash
  /\ stash' = Append(stash, Hidden(symbol, Entered(symbol)))
  /\ HashTable!Set(symbol, [value |-> value, scope |-> scope_id])
  /\ UNCHANGED <<scope_id, next_scope_id, exiting>>

\* table.set goes on with _add if it has not found the symbol.
Place ==
  /\ HashTable!Add \/ HashTable!Grow
  /\ UNCHANGED <<scope_id, next_scope_id, stash, exiting>>

ExitScope ==
  /\ Idle
  /\ Markers # {}
  /\ exiting' = TRUE
  /\ UNCHANGED <<scope_id, next_scope_id, hash_table, stash>>

Last == Len(stash)

\* Mutant: the item is read, but stays.
PopNothing == stash' = stash

Pop == stash' = SubSeq(stash, 1, Last - 1)

Round == exiting /\ todo = <<>>

\* Mutant: a symbol that was not in the table is not removed.
PutBackOnly ==
  /\ Round /\ ~IsMarker(Last)
  /\ LET item == stash[Last]
     IN  IF item.entry = NoEntry THEN UNCHANGED hash_table
         ELSE HashTable!Set(item.symbol, item.entry)
  /\ Pop
  /\ UNCHANGED <<scope_id, next_scope_id, exiting>>

\* A round that puts back what a put has hidden, or removes the symbol.
PutBack ==
  /\ Round /\ ~IsMarker(Last)
  /\ LET item == stash[Last]
     IN  IF item.entry = NoEntry THEN HashTable!Remove(item.symbol)
         ELSE HashTable!Set(item.symbol, item.entry)
  /\ Pop
  /\ UNCHANGED <<scope_id, next_scope_id, exiting>>

\* Mutant: the scope that is left stays the current one.
LeaveScopeKeepingId ==
  /\ Round /\ IsMarker(Last)
  /\ exiting' = FALSE
  /\ Pop
  /\ UNCHANGED <<scope_id, next_scope_id, hash_table>>

\* The last round
LeaveScope ==
  /\ Round /\ IsMarker(Last)
  /\ scope_id' = stash[Last].scope
  /\ exiting' = FALSE
  /\ Pop
  /\ UNCHANGED <<next_scope_id, hash_table>>

Next ==
  \/ EnterScope
  \/ \E symbol \in Symbol, value \in Value : Put(symbol, value)
  \/ Place \/ ExitScope \/ PutBack \/ LeaveScope

Spec == Init /\ [][Next]_vars /\ WF_vars(Place \/ PutBack \/ LeaveScope)

has(symbol) == Found(symbol)
get(symbol) == table[HashTable!_find(symbol)].value.value
in_current_scope(symbol) == Found(symbol) /\ table[HashTable!_find(symbol)].value.scope = scope_id

-----------------------------------------------------------------------------
(* The scopes that the table and the stash stand for: one before the first *)
(* marker and one after each.  A scope that exit_scope is leaving is gone. *)

\* What the puts have hidden of a symbol, as items of the stash.
Hidings(symbol) ==
  {k \in DOMAIN stash : ~IsMarker(k) /\ stash[k].symbol = symbol}

\* The scope that item k is of.
ScopeOf(k) == 1 + Cardinality({m \in Markers : m < k})

Declared(d) ==
  {symbol \in Symbol : \E k \in Hidings(symbol) : ScopeOf(k) = d}

\* What scope d says of a symbol is what the first put of an inner one hid.
EntryIn(d, symbol) ==
  LET inner == {k \in Hidings(symbol) : ScopeOf(k) > d}
  IN  IF inner = {} THEN HashTable!ContentOf(symbol) ELSE stash[Min(inner)].entry

Depth == 1 + Cardinality(Markers) - (IF exiting THEN 1 ELSE 0)

ScopesNow ==
  [d \in 1 .. Depth |-> [s \in Declared(d) |-> EntryIn(d, s).value]]

Promise == INSTANCE Scopes WITH scopes <- ScopesNow

\* Each step does what the step of its name does to the scopes, or nothing.
StepsOfScopes ==
  /\ EnterScope => Promise!EnterScope
  /\ \A s \in Symbol, value \in Value : Put(s, value) => Promise!Put(s, value)
  /\ ExitScope => Promise!ExitScope
  /\ Place \/ PutBack \/ LeaveScope => UNCHANGED ScopesNow

\* The table behaves like a stack of scopes: a put declares its symbol in the
\* innermost one only, and leaving a scope restores all that it had hidden,
\* however often and in whatever order its symbols were put.
ScopesSpec == Promise!Spec /\ [][StepsOfScopes]_vars

\* has and get find the declaration of the innermost scope that has one.
LookupFindsInnermost ==
  Idle =>
    \A s \in Symbol :
      Promise!Lookup(s) = IF has(s) THEN get(s) ELSE NoValue

\* in_current_scope, which the checker trusts to tell a second declaration in
\* one scope from one that shadows, means declared in the innermost scope.
\* The scope outside of the whole program has the number of the first one
\* inside it, but it never declares anything.
CurrentScopeIsInnermost ==
  Idle =>
    \A s \in Symbol :
      in_current_scope(s) <=> Promise!Declares(Promise!Innermost, s)

\* Every loop of exit_scope comes to the marker of its scope: it never pops
\* from an empty stash.
ExitEnds == exiting ~> ~exiting

-----------------------------------------------------------------------------
(* What StrMap says of the hash table, for its puts and removals *)

\* A symbol is in one cell of the hash table, or waits to be added, or neither.
InOnePlace == HashTable!InOnePlace

\* The hash table finds what is in it and nothing else.
FindIsRight == HashTable!FindIsRight

\* A search in the hash table ends.
FindEnds == HashTable!FindEnds

\* The hash table is a map, while it grows and while exit_scope empties it.
MapSpec == HashTable!MapSpec

\* A put and a round of exit_scope return from the hash table.
SetEnds == HashTable!SetEnds
=============================================================================
