---------------------------- MODULE SymTableProofs ----------------------------
(***************************************************************************)
(* Proofs about the symbol table: it is a stack of scopes, and lookups and *)
(* in_current_scope tell the truth about it, for every set of symbols,     *)
(* every hash function and every bound on the scopes and the stash.        *)
(* First the hash table below it (StrMap, as SymTable instantiates it):    *)
(* what each of its operations does to its content.                        *)
(***************************************************************************)
EXTENDS SymTable, TLAPS, FiniteSetTheorems, FunctionTheorems, WellFoundedInduction

Pair == [key : Symbol, value : Entry]

TableType ==
  /\ table_size \in Nat /\ table_size >= InitialSize
  /\ table \in [0 .. table_size - 1 -> Pair \cup {HashTable!Empty}]
  /\ todo \in Seq(Pair)

\* No key has two entries.
KeysApart ==
  /\ \A i, j \in DOMAIN table :
       table[i].key \in Symbol /\ table[i].key = table[j].key => i = j
  /\ \A n, m \in DOMAIN todo : todo[n].key = todo[m].key => n = m
  /\ \A i \in DOMAIN table, n \in DOMAIN todo : table[i].key # todo[n].key

\* _add has probed no further than MaxProbe cells, so _find has not to either.
NearHome ==
  \A i \in DOMAIN table : table[i].key \in Symbol =>
    \E d \in 0 .. MaxProbe - 1 : i = HashTable!Index(table[i].key, d)

TableInv == TableType /\ KeysApart /\ NearHome

-----------------------------------------------------------------------------
LEMMA LeastNatural ==
  ASSUME NEW S \in SUBSET Nat, S # {}
  PROVE  \E x \in S : \A y \in S : x <= y
<1> DEFINE Below == {0 .. n : n \in S}
<1>1. Below \subseteq FiniteSubsetsOf(Nat) /\ Below # {}
  <2>1. \A n \in S : 0 .. n \in SUBSET Nat /\ IsFiniteSet(0 .. n)
    BY FS_Interval
  <2> QED
    BY <2>1 DEF FiniteSubsetsOf
<1>2. PICK B \in Below : \A C \in Below : ~(<<C, B>> \in StrictSubsetOrdering(Nat))
  <2> HIDE DEF Below
  <2> QED
    BY <1>1, WFMin, FS_StrictSubsetOrderingWellFounded
<1>3. PICK x \in S : B = 0 .. x
  BY <1>2
<1>4. \A y \in S : x <= y
  <2> SUFFICES ASSUME NEW y \in S, y < x PROVE FALSE
    OBVIOUS
  <2>1. 0 .. y \in SUBSET Nat /\ 0 .. x \in SUBSET Nat
    OBVIOUS
  <2>2. 0 .. y \subseteq 0 .. x /\ 0 .. y # 0 .. x
    OBVIOUS
  <2>3. <<0 .. y, 0 .. x>> \in StrictSubsetOrdering(Nat)
    BY <2>1, <2>2 DEF StrictSubsetOrdering
  <2> QED
    BY <1>2, <1>3, <2>3
<1> QED
  BY <1>4

\* Min, under the names that SymTable and StrMap have for it.
LEMMA MinIsLeast ==
  ASSUME NEW S \in SUBSET Nat, S # {}
  PROVE  /\ Min(S) \in S /\ \A y \in S : Min(S) <= y
         /\ HashTable!Min(S) \in S /\ \A y \in S : HashTable!Min(S) <= y
BY LeastNatural DEF Min, HashTable!Min

\* StrMap's Cardinality is that of the library.
LEMMA SameCardinality ==
  \A S : HashTable!Cardinality(S) = Cardinality(S)
BY DEF HashTable!Cardinality, Cardinality

-----------------------------------------------------------------------------
LEMMA ConstantFacts ==
  /\ NoSymbol \notin Symbol /\ NoEntry \notin Entry
  /\ Hash \in [Symbol \cup {NoSymbol} -> Nat]
  /\ Hash[NoSymbol] = 0
  /\ MaxProbe \in Nat /\ MaxProbe > 0
  /\ InitialSize \in Nat /\ MaxProbe < InitialSize
BY TableAssumption DEF HashTable!TableAssumption

LEMMA IndexInTable ==
  ASSUME TableType, NEW s \in Symbol, NEW d \in Nat
  PROVE  HashTable!Index(s, d) \in DOMAIN table
<1>1. Hash[s] + d \in Nat /\ table_size \in Nat /\ table_size > 0
  BY ConstantFacts DEF TableType
<1>2. (Hash[s] + d) % table_size \in 0 .. table_size - 1
  BY <1>1
<1> QED
  BY <1>2 DEF TableType, HashTable!Index

\* _find does not stop before it has made MaxProbe rounds.
LEMMA FewDiffer ==
  ASSUME NEW s \in Symbol, NEW d \in 0 .. MaxProbe - 1
  PROVE  HashTable!Reached(s, d)
<1> DEFINE D == {j \in 0 .. d - 1 : HashTable!Differs(s, j)}
<1>1. d \in Nat /\ MaxProbe \in Nat /\ d < MaxProbe
  BY ConstantFacts
<1>2. IsFiniteSet(0 .. d - 1) /\ Cardinality(0 .. d - 1) = d
  BY <1>1, FS_Interval
<1>3. D \in SUBSET (0 .. d - 1)
  OBVIOUS
<1>4. IsFiniteSet(D) /\ Cardinality(D) <= Cardinality(0 .. d - 1)
  <2> HIDE DEF D
  <2> QED
    BY <1>2, <1>3, FS_Subset
<1>5. Cardinality(D) \in Nat
  <2> HIDE DEF D
  <2> QED
    BY <1>4, FS_CardinalityType
<1>6. Cardinality(D) < MaxProbe
  <2> HIDE DEF D
  <2> QED
    BY <1>1, <1>2, <1>4, <1>5
<1> QED
  BY <1>6, SameCardinality DEF HashTable!Reached

LEMMA FindFinds ==
  ASSUME TableInv, NEW s \in Symbol
  PROVE  /\ HashTable!Found(s) <=> HashTable!Cells(s) # {}
         /\ HashTable!Found(s) => HashTable!_find(s) \in HashTable!Cells(s)
<1> USE DEF TableInv
<1>1. HashTable!Hits(s) \in SUBSET Nat
  BY DEF HashTable!Hits, TableType
<1>2. ASSUME HashTable!Found(s)
      PROVE  HashTable!_find(s) \in HashTable!Cells(s)
  <2>1. HashTable!Min(HashTable!Hits(s)) \in HashTable!Hits(s)
    BY <1>1, <1>2, MinIsLeast DEF HashTable!Found
  <2>2. PICK i \in HashTable!Hits(s) : HashTable!_find(s) = HashTable!Index(s, i)
    BY <2>1 DEF HashTable!_find
  <2>3. i \in Nat /\ table[HashTable!Index(s, i)].key = s
    BY <2>2 DEF HashTable!Hits, TableType
  <2> QED
    BY <2>2, <2>3, IndexInTable DEF HashTable!Cells
<1>3. ASSUME NEW i \in HashTable!Cells(s)
      PROVE  HashTable!Found(s)
  <2>1. i \in DOMAIN table /\ table[i].key = s
    BY <1>3 DEF HashTable!Cells
  <2>2. PICK d \in 0 .. MaxProbe - 1 : i = HashTable!Index(s, d)
    BY <2>1 DEF NearHome
  <2>3. d \in 0 .. table_size - 1
    BY ConstantFacts DEF TableType
  <2>4. d \in HashTable!Hits(s)
    BY <2>1, <2>2, <2>3, FewDiffer DEF HashTable!Hits
  <2> QED
    BY <2>4 DEF HashTable!Found
<1> QED
  BY <1>2, <1>3

-----------------------------------------------------------------------------
(* The content of the table, without Min. *)

Held(s, e) ==
  \/ \E n \in DOMAIN todo : todo[n] = [key |-> s, value |-> e]
  \/ \E i \in DOMAIN table : table[i] = [key |-> s, value |-> e]

ContentIsHeld ==
  /\ DOMAIN HashTable!Content = Symbol
  /\ \A s \in Symbol :
       \/ /\ HashTable!Content[s] \in Entry
          /\ \A e \in Entry : Held(s, e) <=> e = HashTable!Content[s]
       \/ /\ HashTable!Content[s] = NoEntry
          /\ \A e \in Entry : ~Held(s, e)

LEMMA ContentOfTable ==
  TableInv => ContentIsHeld
<1> SUFFICES ASSUME TableInv PROVE ContentIsHeld
  OBVIOUS
<1> USE DEF TableInv
<1>1. ASSUME NEW s \in Symbol
      PROVE  \/ /\ HashTable!ContentOf(s) \in Entry
                /\ \A e \in Entry : Held(s, e) <=> e = HashTable!ContentOf(s)
             \/ /\ HashTable!ContentOf(s) = NoEntry
                /\ \A e \in Entry : ~Held(s, e)
  <2> DEFINE W == HashTable!Waiting(s)
             C == HashTable!Cells(s)
  <2>1. W \in SUBSET Nat /\ C \in SUBSET Nat
    BY DEF TableType, HashTable!Waiting, HashTable!Cells
  <2>2. \A n \in W : n \in DOMAIN todo /\ todo[n] \in Pair /\ todo[n].key = s
    BY DEF TableType, HashTable!Waiting
  <2>3. \A i \in C : i \in DOMAIN table /\ table[i] \in Pair /\ table[i].key = s
    <3> SUFFICES ASSUME NEW i \in C
                 PROVE  i \in DOMAIN table /\ table[i] \in Pair /\ table[i].key = s
      OBVIOUS
    <3>1. i \in DOMAIN table /\ table[i].key = s
      BY DEF HashTable!Cells
    <3>2. table[i] # HashTable!Empty
      BY <3>1, ConstantFacts DEF HashTable!Empty
    <3> QED
      BY <3>1, <3>2 DEF TableType
  <2>4. \A e \in Entry : Held(s, e) <=>
          \/ \E n \in W : todo[n].value = e
          \/ \E i \in C : table[i].value = e
    <3> SUFFICES ASSUME NEW e \in Entry
                 PROVE  Held(s, e) <=> \/ \E n \in W : todo[n].value = e
                                      \/ \E i \in C : table[i].value = e
      OBVIOUS
    <3>1. ASSUME NEW n \in W, todo[n].value = e PROVE Held(s, e)
      BY <2>2, <3>1 DEF Held, Pair
    <3>2. ASSUME NEW i \in C, table[i].value = e PROVE Held(s, e)
      BY <2>3, <3>2 DEF Held, Pair
    <3>3. ASSUME NEW n \in DOMAIN todo, todo[n] = [key |-> s, value |-> e]
          PROVE  n \in W /\ todo[n].value = e
      BY <3>3 DEF HashTable!Waiting
    <3>4. ASSUME NEW i \in DOMAIN table, table[i] = [key |-> s, value |-> e]
          PROVE  i \in C /\ table[i].value = e
      BY <3>4 DEF HashTable!Cells
    <3> QED
      BY <3>1, <3>2, <3>3, <3>4 DEF Held
  <2>5. CASE W # {}
    <3>1. HashTable!Min(W) \in W
      BY <2>1, <2>5, MinIsLeast
    <3>2. HashTable!ContentOf(s) = todo[HashTable!Min(W)].value
      BY <2>5 DEF HashTable!ContentOf
    <3>3. \A n, m \in W : n = m
      BY <2>2 DEF KeysApart
    <3>4. C = {}
      BY <2>2, <2>3, <2>5 DEF KeysApart
    <3>5. PICK n \in W : HashTable!ContentOf(s) = todo[n].value
      BY <3>1, <3>2
    <3>6. todo[n].value \in Entry
      BY <2>2 DEF Pair
    <3> HIDE DEF W, C
    <3> QED
      BY <2>4, <3>3, <3>4, <3>5, <3>6
  <2>6. CASE W = {} /\ C # {}
    <3>1. HashTable!Min(C) \in C
      BY <2>1, <2>6, MinIsLeast
    <3>2. HashTable!ContentOf(s) = table[HashTable!Min(C)].value
      BY <2>6 DEF HashTable!ContentOf
    <3>3. \A i, j \in C : i = j
      BY <2>3 DEF KeysApart
    <3>4. PICK i \in C : HashTable!ContentOf(s) = table[i].value
      BY <3>1, <3>2
    <3>5. table[i].value \in Entry
      BY <2>3 DEF Pair
    <3> HIDE DEF W, C
    <3> QED
      BY <2>4, <2>6, <3>3, <3>4, <3>5
  <2>7. CASE W = {} /\ C = {}
    BY <2>4, <2>7 DEF HashTable!ContentOf
  <2> HIDE DEF W, C
  <2> QED
    BY <2>5, <2>6, <2>7
<1>2. /\ DOMAIN HashTable!Content = Symbol
      /\ \A s \in Symbol : HashTable!Content[s] = HashTable!ContentOf(s)
  BY DEF HashTable!Content
<1> QED
  BY <1>1, <1>2 DEF ContentIsHeld

LEMMA ContentOfTableNext ==
  TableInv' => ContentIsHeld'
BY ContentOfTable, PTL

\* A step that holds the same of every symbol but s.
LEMMA ContentDetermined ==
  ASSUME ContentIsHeld, ContentIsHeld',
         NEW s \in Symbol, NEW v \in Entry \cup {NoEntry},
         \A t \in Symbol \ {s}, e \in Entry : Held(t, e)' <=> Held(t, e),
         \A e \in Entry : Held(s, e)' <=> e = v
  PROVE  HashTable!Content' = [HashTable!Content EXCEPT ![s] = v]
<1>1. DOMAIN HashTable!Content = Symbol /\ DOMAIN HashTable!Content' = Symbol
  BY DEF ContentIsHeld
<1>2. \A t \in Symbol \ {s} : HashTable!Content'[t] = HashTable!Content[t]
  BY DEF ContentIsHeld
<1>3. HashTable!Content'[s] = v
  BY ConstantFacts DEF ContentIsHeld
<1> QED
  BY <1>1, <1>2, <1>3 DEF HashTable!Content

LEMMA ContentUnchanged ==
  ASSUME ContentIsHeld, ContentIsHeld',
         \A t \in Symbol, e \in Entry : Held(t, e)' <=> Held(t, e)
  PROVE  HashTable!Content' = HashTable!Content
<1>1. DOMAIN HashTable!Content = Symbol /\ DOMAIN HashTable!Content' = Symbol
  BY DEF ContentIsHeld
<1>2. \A t \in Symbol : HashTable!Content'[t] = HashTable!Content[t]
  BY DEF ContentIsHeld
<1> QED
  BY <1>1, <1>2 DEF HashTable!Content

-----------------------------------------------------------------------------
(* The steps *)

LEMMA InitTable ==
  HashTable!Init => TableInv /\ HashTable!Content = [s \in Symbol |-> NoEntry]
<1> SUFFICES ASSUME HashTable!Init
             PROVE  TableInv /\ HashTable!Content = [s \in Symbol |-> NoEntry]
  OBVIOUS
<1>1. /\ table = [i \in 0 .. InitialSize - 1 |-> HashTable!Empty]
      /\ table_size = InitialSize /\ todo = <<>>
  BY DEF HashTable!Init
<1>2. \A i \in DOMAIN table : table[i].key \notin Symbol
  BY <1>1, ConstantFacts DEF HashTable!Empty
<1>3. TableType
  BY <1>1, ConstantFacts DEF TableType
<1>4. KeysApart /\ NearHome
  BY <1>1, <1>2 DEF KeysApart, NearHome
<1>5. \A s \in Symbol : HashTable!Cells(s) = {} /\ HashTable!Waiting(s) = {}
  BY <1>1, <1>2 DEF HashTable!Cells, HashTable!Waiting
<1>6. \A s \in Symbol : HashTable!ContentOf(s) = NoEntry
  BY <1>5 DEF HashTable!ContentOf
<1> QED
  BY <1>3, <1>4, <1>6 DEF TableInv, HashTable!Content

\* set of a symbol that is in the table, in the cell that it is in.
LEMMA OverwriteStep ==
  ASSUME TableInv, NEW s \in Symbol, NEW e \in Entry, todo = <<>>, todo' = todo,
         HashTable!Found(s), table_size' = table_size,
         table' = [table EXCEPT ![HashTable!_find(s)].value = e]
  PROVE  TableInv' /\ HashTable!Content' = [HashTable!Content EXCEPT ![s] = e]
<1> USE DEF TableInv
<1> DEFINE c == HashTable!_find(s)
<1>1. c \in DOMAIN table /\ table[c].key = s
  BY FindFinds DEF HashTable!Cells
<1>2. table[c] \in Pair
  BY <1>1, ConstantFacts DEF TableType, HashTable!Empty
<1> HIDE DEF c
<1>3. /\ DOMAIN table' = DOMAIN table
      /\ \A i \in DOMAIN table : table'[i] = IF i = c THEN [table[c] EXCEPT !.value = e]
                                               ELSE table[i]
  BY <1>1 DEF TableType, c
<1>4. table'[c] = [key |-> s, value |-> e]
  BY <1>1, <1>2, <1>3 DEF Pair
<1>5. \A i \in DOMAIN table : table'[i].key = table[i].key
  BY <1>1, <1>3, <1>4
<1>6. TableType'
  <2>1. table'[c] \in Pair
    BY <1>4 DEF Pair
  <2>2. DOMAIN table = 0 .. table_size - 1 /\ table' = [i \in DOMAIN table |-> table'[i]]
    BY <1>1 DEF TableType, c
  <2>3. \A i \in DOMAIN table : table'[i] \in Pair \cup {HashTable!Empty}
    BY <1>3, <2>1 DEF TableType
  <2> QED
    BY <2>2, <2>3 DEF TableType
<1>7. KeysApart'
  BY <1>3, <1>5 DEF KeysApart
<1>8. NearHome'
  BY <1>3, <1>5 DEF NearHome, HashTable!Index
<1>9. \A e1 \in Entry : Held(s, e1)' <=> e1 = e
  <2>1. \A i \in DOMAIN table : table[i].key = s => i = c
    BY <1>1 DEF KeysApart
  <2> QED
    BY <1>1, <1>3, <1>4, <2>1 DEF Held
<1>10. \A t \in Symbol \ {s}, e1 \in Entry : Held(t, e1)' <=> Held(t, e1)
  <2> SUFFICES ASSUME NEW t \in Symbol \ {s}, NEW e1 \in Entry
               PROVE  Held(t, e1)' <=> Held(t, e1)
    OBVIOUS
  <2>1. table[c] # [key |-> t, value |-> e1] /\ table'[c] # [key |-> t, value |-> e1]
    BY <1>1, <1>4
  <2> QED
    BY <1>3, <2>1 DEF Held
<1>11. TableInv'
  BY <1>6, <1>7, <1>8
<1>12. ContentIsHeld /\ ContentIsHeld'
  BY <1>11, ContentOfTable, ContentOfTableNext
<1> QED
  BY <1>9, <1>10, <1>11, <1>12, ContentDetermined

\* set of a symbol that is not in the table, before _add looks for a cell.
LEMMA AppendStep ==
  ASSUME TableInv, NEW s \in Symbol, NEW e \in Entry, todo = <<>>,
         ~HashTable!Found(s), table_size' = table_size, table' = table,
         todo' = <<[key |-> s, value |-> e]>>
  PROVE  TableInv' /\ HashTable!Content' = [HashTable!Content EXCEPT ![s] = e]
<1> USE DEF TableInv
<1>1. \A i \in DOMAIN table : table[i].key # s
  BY FindFinds DEF HashTable!Cells
<1>2. TableType'
  BY DEF TableType, Pair
<1>3. KeysApart'
  BY <1>1 DEF KeysApart
<1>4. NearHome'
  BY DEF NearHome, HashTable!Index
<1>5. \A e1 \in Entry : Held(s, e1)' <=> e1 = e
  <2>1. DOMAIN todo' = {1} /\ todo'[1] = [key |-> s, value |-> e]
    OBVIOUS
  <2>2. \A e1 \in Entry, i \in DOMAIN table : table[i] # [key |-> s, value |-> e1]
    BY <1>1
  <2> QED
    BY <2>1, <2>2 DEF Held
<1>6. \A t \in Symbol \ {s}, e1 \in Entry : Held(t, e1)' <=> Held(t, e1)
  <2>1. DOMAIN todo' = {1} /\ todo'[1] = [key |-> s, value |-> e] /\ DOMAIN todo = {}
    OBVIOUS
  <2>2. \A t \in Symbol \ {s}, e1 \in Entry : [key |-> s, value |-> e] # [key |-> t, value |-> e1]
    OBVIOUS
  <2> QED
    BY <2>1, <2>2 DEF Held
<1>7. TableInv'
  BY <1>2, <1>3, <1>4
<1>8. ContentIsHeld /\ ContentIsHeld'
  BY <1>7, ContentOfTable, ContentOfTableNext
<1> QED
  BY <1>5, <1>6, <1>7, <1>8, ContentDetermined

LEMMA SetStep ==
  ASSUME TableInv, NEW s \in Symbol, NEW e \in Entry, HashTable!Set(s, e)
  PROVE  TableInv' /\ HashTable!Content' = [HashTable!Content EXCEPT ![s] = e]
BY OverwriteStep, AppendStep DEF HashTable!Set

LEMMA RemoveStep ==
  ASSUME TableInv, NEW s \in Symbol, HashTable!Remove(s)
  PROVE  TableInv' /\ HashTable!Content' = [HashTable!Content EXCEPT ![s] = NoEntry]
<1> USE DEF TableInv
<1> DEFINE c == HashTable!_find(s)
<1>0. /\ todo = <<>> /\ todo' = todo /\ table_size' = table_size
      /\ table' = [table EXCEPT ![c] = HashTable!Empty]
  BY DEF HashTable!Remove
<1>1. c \in DOMAIN table /\ table[c].key = s
  BY FindFinds DEF HashTable!Cells, HashTable!Remove
<1> HIDE DEF c
<1>2. HashTable!Empty.key \notin Symbol
  BY ConstantFacts DEF HashTable!Empty
<1>3. /\ DOMAIN table' = DOMAIN table
      /\ table'[c] = HashTable!Empty
      /\ \A i \in DOMAIN table \ {c} : table'[i] = table[i]
  BY <1>0, <1>1 DEF TableType
<1>6. TableType'
  BY <1>0 DEF TableType
<1>7. KeysApart'
  <2>1. \A i \in DOMAIN table : table'[i].key \in Symbol => i # c /\ table'[i] = table[i]
    BY <1>2, <1>3
  <2>2. \A i, j \in DOMAIN table' :
          table'[i].key \in Symbol /\ table'[i].key = table'[j].key => i = j
    BY <1>3, <2>1 DEF KeysApart
  <2>3. DOMAIN todo' = {}
    BY <1>0
  <2> QED
    BY <2>2, <2>3 DEF KeysApart
<1>8. NearHome'
  BY <1>0, <1>2, <1>3 DEF NearHome, HashTable!Index
<1>9. \A e1 \in Entry : ~Held(s, e1)'
  <2>1. \A i \in DOMAIN table : table[i].key = s => i = c
    BY <1>1 DEF KeysApart
  <2>2. \A i \in DOMAIN table' : table'[i].key # s
    BY <1>2, <1>3, <2>1
  <2> QED
    BY <1>0, <2>2 DEF Held
<1>10. \A t \in Symbol \ {s}, e1 \in Entry : Held(t, e1)' <=> Held(t, e1)
  <2> SUFFICES ASSUME NEW t \in Symbol \ {s}, NEW e1 \in Entry
               PROVE  Held(t, e1)' <=> Held(t, e1)
    OBVIOUS
  <2>1. table[c] # [key |-> t, value |-> e1] /\ table'[c] # [key |-> t, value |-> e1]
    BY <1>1, <1>2, <1>3
  <2> QED
    BY <1>0, <1>1, <1>3, <2>1 DEF Held
<1>11. TableInv'
  BY <1>6, <1>7, <1>8
<1>12. ContentIsHeld /\ ContentIsHeld'
  BY <1>11, ContentOfTable, ContentOfTableNext
<1>13. \A e1 \in Entry : Held(s, e1)' <=> e1 = NoEntry
  BY <1>9, ConstantFacts
<1> QED
  BY <1>10, <1>11, <1>12, <1>13, ContentDetermined

\* _add of the next entry to an empty cell near the home of its key.
LEMMA AddStep ==
  ASSUME TableInv, HashTable!Add
  PROVE  TableInv' /\ HashTable!Content' = HashTable!Content
<1> USE DEF TableInv
<1> DEFINE entry == Head(todo)
           F     == HashTable!Free(entry.key)
           c     == HashTable!Index(entry.key, HashTable!Min(F))
<1>0. /\ todo # <<>> /\ todo' = Tail(todo) /\ table_size' = table_size
      /\ F # {} /\ table' = [table EXCEPT ![c] = entry]
  BY DEF HashTable!Add
<1>1. entry = todo[1] /\ 1 \in DOMAIN todo /\ entry \in Pair /\ entry.key \in Symbol
  <2>1. entry = todo[1] /\ 1 \in DOMAIN todo /\ todo[1] \in Pair
    BY <1>0 DEF TableType
  <2> QED
    BY <2>1 DEF Pair
<1>2. PICK d \in 0 .. MaxProbe - 1 :
        c = HashTable!Index(entry.key, d) /\ table[c] = HashTable!Empty
  <2>1. F \in SUBSET Nat
    BY DEF HashTable!Free
  <2>2. HashTable!Min(F) \in F
    BY <1>0, <2>1, MinIsLeast
  <2> QED
    BY <2>2 DEF HashTable!Free
<1>3. c \in DOMAIN table
  BY <1>1, <1>2, IndexInTable
<1> HIDE DEF entry, F, c
<1>4. /\ DOMAIN table' = DOMAIN table /\ table'[c] = entry
      /\ \A i \in DOMAIN table \ {c} : table'[i] = table[i]
  BY <1>0, <1>3 DEF TableType
<1>5. /\ DOMAIN todo' = 1 .. Len(todo) - 1
      /\ \A n \in DOMAIN todo' : n + 1 \in DOMAIN todo \ {1} /\ todo'[n] = todo[n + 1]
      /\ \A n \in DOMAIN todo \ {1} : n - 1 \in DOMAIN todo' /\ todo'[n - 1] = todo[n]
      /\ todo' \in Seq(Pair)
  BY <1>0 DEF TableType
<1>6. TableType'
  BY <1>0, <1>1, <1>5 DEF TableType
<1>7. KeysApart'
  <2>1. \A i, j \in DOMAIN table' :
          table'[i].key \in Symbol /\ table'[i].key = table'[j].key => i = j
    <3>1. \A i \in DOMAIN table \ {c} : table'[i].key # entry.key
      BY <1>1, <1>4 DEF KeysApart
    <3> QED
      BY <1>4, <3>1 DEF KeysApart
  <2>2. \A n, m \in DOMAIN todo' : todo'[n].key = todo'[m].key => n = m
    <3> SUFFICES ASSUME NEW n \in DOMAIN todo', NEW m \in DOMAIN todo',
                        todo'[n].key = todo'[m].key
                 PROVE  n = m
      OBVIOUS
    <3>1. n + 1 \in DOMAIN todo /\ m + 1 \in DOMAIN todo /\ todo[n + 1].key = todo[m + 1].key
      BY <1>5
    <3>2. n + 1 = m + 1
      BY <3>1 DEF KeysApart
    <3> QED
      BY <1>5, <3>2
  <2>3. \A i \in DOMAIN table', n \in DOMAIN todo' : table'[i].key # todo'[n].key
    <3> SUFFICES ASSUME NEW i \in DOMAIN table', NEW n \in DOMAIN todo'
                 PROVE  table'[i].key # todo'[n].key
      OBVIOUS
    <3>1. n + 1 \in DOMAIN todo \ {1} /\ todo'[n] = todo[n + 1]
      BY <1>5
    <3>2. todo[n + 1].key # todo[1].key
      BY <1>1, <3>1 DEF KeysApart
    <3> QED
      BY <1>1, <1>4, <3>1, <3>2 DEF KeysApart
  <2> QED
    BY <2>1, <2>2, <2>3 DEF KeysApart
<1>8. NearHome'
  <2> SUFFICES ASSUME NEW i \in DOMAIN table, table'[i].key \in Symbol
               PROVE  \E e \in 0 .. MaxProbe - 1 : i = HashTable!Index(table'[i].key, e)
    BY <1>0, <1>4 DEF NearHome, HashTable!Index
  <2>1. CASE i = c
    BY <1>2, <1>4, <2>1
  <2>2. CASE i # c
    BY <1>4, <2>2 DEF NearHome
  <2> QED
    BY <2>1, <2>2
<1>9. \A t \in Symbol, e \in Entry : Held(t, e)' <=> Held(t, e)
  <2> SUFFICES ASSUME NEW t \in Symbol, NEW e \in Entry
               PROVE  Held(t, e)' <=> Held(t, e)
    OBVIOUS
  <2> DEFINE p == [key |-> t, value |-> e]
  <2>0. p # HashTable!Empty
    BY ConstantFacts DEF HashTable!Empty
  <2> HIDE DEF p
  <2>1. ASSUME NEW n \in DOMAIN todo, todo[n] = p PROVE Held(t, e)'
    <3>1. CASE n = 1
      BY <1>1, <1>3, <1>4, <2>1, <3>1 DEF Held, p
    <3>2. CASE n # 1
      BY <1>5, <2>1, <3>2 DEF Held, p
    <3> QED
      BY <3>1, <3>2
  <2>2. ASSUME NEW i \in DOMAIN table, table[i] = p PROVE Held(t, e)'
    BY <1>2, <1>4, <2>0, <2>2 DEF Held, p
  <2>3. ASSUME NEW n \in DOMAIN todo', todo'[n] = p PROVE Held(t, e)
    BY <1>5, <2>3 DEF Held, p
  <2>4. ASSUME NEW i \in DOMAIN table', table'[i] = p PROVE Held(t, e)
    BY <1>1, <1>4, <2>4 DEF Held, p
  <2> QED
    BY <2>1, <2>2, <2>3, <2>4 DEF Held, p
<1>10. TableInv'
  BY <1>6, <1>7, <1>8
<1> QED
  BY <1>9, <1>10, ContentOfTable, ContentOfTableNext, ContentUnchanged

-----------------------------------------------------------------------------
(* _grow: the entries of a table are those of its used cells, once each. *)

LEMMA RankIsBijection ==
  ASSUME TableType
  PROVE  LET n == Cardinality(HashTable!Used)
         IN  /\ n \in Nat
             /\ \A i \in HashTable!Used : HashTable!Rank(i) \in 0 .. n - 1
             /\ \A i, j \in HashTable!Used :
                  HashTable!Rank(i) = HashTable!Rank(j) => i = j
             /\ \A r \in 0 .. n - 1 : \E i \in HashTable!Used : HashTable!Rank(i) = r
<1> DEFINE U == HashTable!Used
           n == Cardinality(U)
           B(i) == {j \in U : j < i}
<1>1. U \in SUBSET (0 .. table_size - 1) /\ IsFiniteSet(0 .. table_size - 1)
  BY FS_Interval DEF TableType, HashTable!Used
<1>2. U \in SUBSET Nat
  BY <1>1
<1>3. \A i : HashTable!Rank(i) = Cardinality(B(i))
  BY SameCardinality DEF HashTable!Rank
<1> HIDE DEF U
<1>4. IsFiniteSet(U) /\ n \in Nat
  <2>1. IsFiniteSet(U)
    BY <1>1, FS_Subset
  <2> QED
    BY <2>1, FS_CardinalityType
<1>5. \A i \in U : /\ IsFiniteSet(B(i)) /\ Cardinality(B(i)) \in Nat
                   /\ B(i) \cup {i} \in SUBSET U
                   /\ Cardinality(B(i) \cup {i}) = Cardinality(B(i)) + 1
                   /\ Cardinality(B(i)) \in 0 .. n - 1
  <2> SUFFICES ASSUME NEW i \in U
               PROVE  /\ IsFiniteSet(B(i)) /\ Cardinality(B(i)) \in Nat
                      /\ B(i) \cup {i} \in SUBSET U
                      /\ Cardinality(B(i) \cup {i}) = Cardinality(B(i)) + 1
                      /\ Cardinality(B(i)) \in 0 .. n - 1
    OBVIOUS
  <2>1. B(i) \in SUBSET U /\ i \notin B(i) /\ B(i) \cup {i} \in SUBSET U
    BY <1>2
  <2> HIDE DEF B
  <2>2. IsFiniteSet(B(i))
    BY <1>4, <2>1, FS_Subset
  <2>3. Cardinality(B(i)) \in Nat
    BY <2>2, FS_CardinalityType
  <2>4. Cardinality(B(i) \cup {i}) = Cardinality(B(i)) + 1
    BY <2>1, <2>2, FS_AddElement
  <2>5. Cardinality(B(i) \cup {i}) <= n
    BY <1>4, <2>1, FS_Subset
  <2>6. Cardinality(B(i)) \in 0 .. n - 1
    BY <1>4, <2>3, <2>4, <2>5
  <2> QED
    BY <2>1, <2>2, <2>3, <2>4, <2>6
<1>6. \A i, j \in U : i < j => Cardinality(B(i)) < Cardinality(B(j))
  <2> SUFFICES ASSUME NEW i \in U, NEW j \in U, i < j
               PROVE  Cardinality(B(i)) < Cardinality(B(j))
    OBVIOUS
  <2>1. \A k \in B(i) \cup {i} : k \in U /\ k < j
    BY <1>2
  <2>2. B(i) \cup {i} \in SUBSET B(j)
    BY <2>1
  <2> HIDE DEF B
  <2>3. IsFiniteSet(B(j)) /\ Cardinality(B(j)) \in Nat
    BY <1>5
  <2>4. Cardinality(B(i) \cup {i}) <= Cardinality(B(j))
    BY <2>2, <2>3, FS_Subset
  <2>5. Cardinality(B(i)) \in Nat /\ Cardinality(B(i) \cup {i}) = Cardinality(B(i)) + 1
    BY <1>5
  <2> QED
    BY <2>3, <2>4, <2>5
<1> HIDE DEF B
<1>7. \A i, j \in U : Cardinality(B(i)) = Cardinality(B(j)) => i = j
  <2> SUFFICES ASSUME NEW i \in U, NEW j \in U, Cardinality(B(i)) = Cardinality(B(j)), i # j
               PROVE  FALSE
    OBVIOUS
  <2>1. i < j \/ j < i
    BY <1>2
  <2>2. Cardinality(B(i)) \in Nat /\ Cardinality(B(j)) \in Nat
    BY <1>5
  <2> QED
    BY <1>6, <2>1, <2>2
<1>8. \A r \in 0 .. n - 1 : \E i \in U : Cardinality(B(i)) = r
  <2> DEFINE f == [i \in U |-> Cardinality(B(i))]
  <2>1. f \in Injection(U, 0 .. n - 1)
    BY <1>5, <1>7 DEF Injection, IsInjective
  <2>2. IsFiniteSet(0 .. n - 1) /\ Cardinality(0 .. n - 1) = n
    BY <1>4, FS_Interval
  <2>3. f \in Surjection(U, 0 .. n - 1)
    <3> HIDE DEF f
    <3> QED
      BY <2>1, <2>2, FS_Injection
  <2> QED
    BY <2>3 DEF Surjection
<1> QED
  BY <1>3, <1>4, <1>5, <1>7, <1>8 DEF U

LEMMA EntriesOfTable ==
  ASSUME TableInv
  PROVE  /\ HashTable!Entries \in Seq(Pair)
         /\ \A n \in DOMAIN HashTable!Entries :
              \E i \in DOMAIN table : HashTable!Entries[n] = table[i]
         /\ \A i \in DOMAIN table : table[i] \in Pair =>
              \E n \in DOMAIN HashTable!Entries : HashTable!Entries[n] = table[i]
         /\ \A n, m \in DOMAIN HashTable!Entries :
              HashTable!Entries[n].key = HashTable!Entries[m].key => n = m
<1> USE DEF TableInv
<1> DEFINE U     == HashTable!Used
           R(i)  == HashTable!Rank(i)
           At(n) == CHOOSE i \in U : R(i) = n - 1
           size  == Cardinality(U)
<1>1. HashTable!Entries = [n \in 1 .. size |-> table[At(n)]]
  BY SameCardinality DEF HashTable!Entries
<1>2. \A i \in U : i \in DOMAIN table /\ table[i] \in Pair
  BY DEF HashTable!Used, TableType
<1>3. \A i \in DOMAIN table : table[i] \in Pair => i \in U
  BY ConstantFacts DEF HashTable!Used, HashTable!Empty, Pair
<1>4. /\ size \in Nat
      /\ \A i \in U : R(i) \in 0 .. size - 1
      /\ \A i, j \in U : R(i) = R(j) => i = j
      /\ \A r \in 0 .. size - 1 : \E i \in U : R(i) = r
  BY RankIsBijection
<1> HIDE DEF U, R
<1>5. \A n \in 1 .. size : At(n) \in U /\ R(At(n)) = n - 1
  <2> SUFFICES ASSUME NEW n \in 1 .. size PROVE At(n) \in U /\ R(At(n)) = n - 1
    OBVIOUS
  <2>1. n - 1 \in 0 .. size - 1
    BY <1>4
  <2> QED
    BY <1>4, <2>1
<1> HIDE DEF At, size
<1>6. DOMAIN HashTable!Entries = 1 .. size
  BY <1>1
<1>7. \A n \in 1 .. size : HashTable!Entries[n] = table[At(n)]
  BY <1>1
<1>8. HashTable!Entries \in Seq(Pair)
  <2>1. \A n \in 1 .. size : table[At(n)] \in Pair
    BY <1>2, <1>5
  <2> QED
    BY <1>1, <1>4, <2>1
<1>9. \A n \in 1 .. size : \E i \in DOMAIN table : HashTable!Entries[n] = table[i]
  BY <1>2, <1>5, <1>7
<1>10. \A i \in U : \E n \in 1 .. size : HashTable!Entries[n] = table[i]
  <2> SUFFICES ASSUME NEW i \in U
               PROVE  \E n \in 1 .. size : HashTable!Entries[n] = table[i]
    OBVIOUS
  <2>1. R(i) + 1 \in 1 .. size /\ (R(i) + 1) - 1 = R(i)
    BY <1>4
  <2>2. At(R(i) + 1) = i
    BY <1>4, <1>5, <2>1
  <2> QED
    BY <1>7, <2>1, <2>2
<1>11. \A n, m \in 1 .. size :
         HashTable!Entries[n].key = HashTable!Entries[m].key => n = m
  <2> SUFFICES ASSUME NEW n \in 1 .. size, NEW m \in 1 .. size,
                      HashTable!Entries[n].key = HashTable!Entries[m].key
               PROVE  n = m
    OBVIOUS
  <2>1. table[At(n)].key = table[At(m)].key /\ table[At(n)].key \in Symbol
    BY <1>2, <1>5, <1>7 DEF Pair
  <2>2. At(n) = At(m)
    BY <1>2, <1>5, <2>1 DEF KeysApart
  <2>3. n - 1 = m - 1
    BY <1>5, <2>2
  <2> QED
    BY <1>4, <2>3
<1> QED
  BY <1>3, <1>6, <1>8, <1>9, <1>10, <1>11

LEMMA GrowStep ==
  ASSUME TableInv, HashTable!Grow
  PROVE  TableInv' /\ HashTable!Content' = HashTable!Content
<1> USE DEF TableInv
<1> DEFINE E == HashTable!Entries
<1>0. /\ todo' = E \o todo /\ table_size' = 2 * table_size
      /\ table' = [i \in 0 .. 2 * table_size - 1 |-> HashTable!Empty]
  BY DEF HashTable!Grow, HashTable!_alloc_table
<1>1. /\ E \in Seq(Pair)
      /\ \A n \in DOMAIN E : \E i \in DOMAIN table : E[n] = table[i]
      /\ \A i \in DOMAIN table : table[i] \in Pair => \E n \in DOMAIN E : E[n] = table[i]
      /\ \A n, m \in DOMAIN E : E[n].key = E[m].key => n = m
  BY EntriesOfTable
<1> HIDE DEF E
<1>2. \A i \in DOMAIN table' : table'[i] = HashTable!Empty /\ table'[i].key \notin Symbol
  BY <1>0, ConstantFacts DEF HashTable!Empty
<1>3. /\ todo' \in Seq(Pair)
      /\ \A n \in DOMAIN E : n \in DOMAIN todo' /\ todo'[n] = E[n]
      /\ \A n \in DOMAIN todo : Len(E) + n \in DOMAIN todo' /\ todo'[Len(E) + n] = todo[n]
      /\ \A n \in DOMAIN todo' :
           \/ n \in DOMAIN E /\ todo'[n] = E[n]
           \/ /\ n \notin DOMAIN E
              /\ n - Len(E) \in DOMAIN todo /\ todo'[n] = todo[n - Len(E)]
  <2>1. todo \in Seq(Pair)
    BY DEF TableType
  <2> QED
    BY <1>0, <1>1, <2>1
<1>4. TableType'
  <2>1. 2 * table_size \in Nat /\ 2 * table_size >= InitialSize
    BY ConstantFacts DEF TableType
  <2> QED
    BY <1>0, <1>3, <2>1 DEF TableType
<1>5. \A n \in DOMAIN E, m \in DOMAIN todo : E[n].key # todo[m].key
  BY <1>1 DEF KeysApart
<1>6. KeysApart'
  <2>1. \A n, m \in DOMAIN todo' : todo'[n].key = todo'[m].key => n = m
    <3> SUFFICES ASSUME NEW n \in DOMAIN todo', NEW m \in DOMAIN todo',
                        todo'[n].key = todo'[m].key
                 PROVE  n = m
      OBVIOUS
    <3>0. n \in Nat /\ m \in Nat /\ Len(E) \in Nat
      BY <1>1, <1>3
    <3>1. CASE n \in DOMAIN E /\ m \in DOMAIN E
      BY <1>1, <1>3, <3>1
    <3>2. CASE n \notin DOMAIN E /\ m \notin DOMAIN E
      <4>1. n - Len(E) = m - Len(E)
        BY <1>3, <3>2 DEF KeysApart
      <4> QED
        BY <3>0, <4>1
    <3>3. CASE n \in DOMAIN E /\ m \notin DOMAIN E
      BY <1>3, <1>5, <3>3
    <3>4. CASE n \notin DOMAIN E /\ m \in DOMAIN E
      BY <1>3, <1>5, <3>4
    <3> QED
      BY <3>1, <3>2, <3>3, <3>4
  <2>2. \A n \in DOMAIN todo' : todo'[n].key \in Symbol
    <3>1. \A n \in DOMAIN todo' : todo'[n] \in Pair
      BY <1>3
    <3> QED
      BY <3>1 DEF Pair
  <2> QED
    BY <1>2, <2>1, <2>2 DEF KeysApart
<1>7. NearHome'
  BY <1>2 DEF NearHome
<1>8. \A t \in Symbol, e \in Entry : Held(t, e)' <=> Held(t, e)
  <2> SUFFICES ASSUME NEW t \in Symbol, NEW e \in Entry
               PROVE  Held(t, e)' <=> Held(t, e)
    OBVIOUS
  <2> DEFINE p == [key |-> t, value |-> e]
  <2>0. p \in Pair /\ p # HashTable!Empty
    BY ConstantFacts DEF HashTable!Empty, Pair
  <2> HIDE DEF p
  <2>1. ASSUME NEW n \in DOMAIN todo, todo[n] = p PROVE Held(t, e)'
    BY <1>3, <2>1 DEF Held, p
  <2>2. ASSUME NEW i \in DOMAIN table, table[i] = p PROVE Held(t, e)'
    <3>1. PICK n \in DOMAIN E : E[n] = p
      BY <1>1, <2>0, <2>2
    <3> QED
      BY <1>3, <3>1 DEF Held, p
  <2>3. ASSUME NEW n \in DOMAIN todo', todo'[n] = p PROVE Held(t, e)
    <3>1. CASE n \in DOMAIN E
      <4>1. E[n] = p
        BY <1>3, <2>3, <3>1
      <4> QED
        BY <1>1, <3>1, <4>1 DEF Held, p
    <3>2. CASE n \notin DOMAIN E
      BY <1>3, <2>3, <3>2 DEF Held, p
    <3> QED
      BY <3>1, <3>2
  <2>4. ASSUME NEW i \in DOMAIN table', table'[i] = p PROVE FALSE
    BY <1>2, <2>0, <2>4
  <2> QED
    BY <2>1, <2>2, <2>3, <2>4 DEF Held, p
<1>9. TableInv'
  BY <1>4, <1>6, <1>7
<1> QED
  BY <1>8, <1>9, ContentOfTable, ContentOfTableNext, ContentUnchanged

LEMMA TableStutter ==
  ASSUME TableInv, UNCHANGED hash_table
  PROVE  TableInv' /\ HashTable!Content' = HashTable!Content
<1>1. table' = table /\ table_size' = table_size /\ todo' = todo
  BY DEF hash_table
<1>2. TableInv'
  BY <1>1 DEF TableInv, TableType, KeysApart, NearHome, HashTable!Index
<1>3. \A s \in Symbol : HashTable!ContentOf(s)' = HashTable!ContentOf(s)
  BY <1>1 DEF HashTable!ContentOf, HashTable!Waiting, HashTable!Cells
<1> QED
  BY <1>2, <1>3 DEF HashTable!Content

-----------------------------------------------------------------------------
(* The symbol table *)

Items ==
  [kind : {"marker"}, scope : Nat] \cup
  [kind : {"hidden"}, symbol : Symbol, entry : Entry \cup {NoEntry}]

StashType ==
  /\ scope_id \in Nat /\ next_scope_id \in 0 .. MaxScopes
  /\ stash \in Seq(Items)
  /\ stash # <<>> => IsMarker(1)
  /\ exiting \in BOOLEAN
  /\ exiting => stash # <<>>

\* The scopes that are open have different numbers, but for the outermost two.
ScopeIds ==
  /\ stash # <<>> => scope_id < next_scope_id
  /\ \A m \in Markers : m > 1 => stash[m].scope < scope_id
  /\ \A m, n \in Markers : 1 < m /\ m < n => stash[m].scope < stash[n].scope

\* Item k of the stash is of the scope with number id: the marker of the next
\* scope has kept the number, or no scope has been entered since.
InScope(k, id) ==
  \/ \E m \in Markers : /\ k < m /\ stash[m].scope = id
                        /\ \A j \in Markers : k < j => m <= j
  \/ (\A m \in Markers : m < k) /\ scope_id = id

\* The table has of a symbol what was put last.
TableHasLast ==
  \A s \in Symbol :
    \/ Hidings(s) = {} /\ HashTable!Content[s] = NoEntry
    \/ \E k \in Hidings(s) :
         /\ \A j \in Hidings(s) : j <= k
         /\ HashTable!Content[s] \in Entry
         /\ InScope(k, HashTable!Content[s].scope)

\* An item of the stash has what was put before.
ItemHasPrevious ==
  \A s \in Symbol : \A k \in Hidings(s) :
    \/ (\A j \in Hidings(s) : k <= j) /\ stash[k].entry = NoEntry
    \/ \E i \in Hidings(s) :
         /\ i < k /\ \A j \in Hidings(s) : j < k => j <= i
         /\ stash[k].entry \in Entry
         /\ InScope(i, stash[k].entry.scope)

StashInv == StashType /\ ScopeIds /\ TableHasLast /\ ItemHasPrevious

Inv == TableInv /\ StashInv

-----------------------------------------------------------------------------
LEMMA StashDomain ==
  ASSUME StashType
  PROVE  /\ Last \in Nat /\ DOMAIN stash = 1 .. Last
         /\ \A k \in DOMAIN stash : stash[k] \in Items
         /\ Markers \subseteq 1 .. Last
         /\ \A s : Hidings(s) \subseteq 1 .. Last
         /\ \A m \in Markers : stash[m].scope \in Nat
         /\ stash # <<>> => 1 \in Markers
<1>1. Last \in Nat /\ DOMAIN stash = 1 .. Last /\ \A k \in DOMAIN stash : stash[k] \in Items
  BY DEF StashType, Last
<1>2. \A m \in Markers : stash[m].scope \in Nat
  BY <1>1 DEF Markers, IsMarker, Items
<1>3. stash # <<>> => 1 \in Markers
  <2>1. stash # <<>> => 1 \in DOMAIN stash
    BY DEF StashType
  <2> QED
    BY <2>1 DEF StashType, Markers
<1> QED
  BY <1>1, <1>2, <1>3 DEF Markers, Hidings

LEMMA PushMarker ==
  ASSUME StashType, NEW id \in Nat, stash' = Append(stash, Marker(id))
  PROVE  /\ stash' \in Seq(Items) /\ Last' = Last + 1 /\ DOMAIN stash' = 1 .. Last + 1
         /\ \A k \in 1 .. Last : stash'[k] = stash[k]
         /\ stash'[Last + 1] = Marker(id)
         /\ Markers' = Markers \cup {Last + 1}
         /\ \A s : Hidings(s)' = Hidings(s)
<1>1. Last \in Nat /\ DOMAIN stash = 1 .. Last /\ stash \in Seq(Items)
  BY StashDomain DEF StashType
<1>2. Marker(id) \in Items
  BY DEF Marker, Items
<1>3. /\ stash' \in Seq(Items) /\ Last' = Last + 1 /\ DOMAIN stash' = 1 .. Last + 1
      /\ \A k \in 1 .. Last : stash'[k] = stash[k]
      /\ stash'[Last + 1] = Marker(id)
  BY <1>1, <1>2 DEF Last
<1>4. stash'[Last + 1].kind = "marker"
  BY <1>3 DEF Marker
<1>5. Markers' = Markers \cup {Last + 1}
  BY <1>1, <1>3, <1>4 DEF Markers, IsMarker
<1>6. \A s : Hidings(s)' = Hidings(s)
  BY <1>1, <1>3, <1>4 DEF Hidings, IsMarker
<1> QED
  BY <1>3, <1>5, <1>6

LEMMA PushHidden ==
  ASSUME StashType, NEW s \in Symbol, NEW e \in Entry \cup {NoEntry},
         stash' = Append(stash, Hidden(s, e))
  PROVE  /\ stash' \in Seq(Items) /\ Last' = Last + 1 /\ DOMAIN stash' = 1 .. Last + 1
         /\ \A k \in 1 .. Last : stash'[k] = stash[k]
         /\ stash'[Last + 1] = Hidden(s, e)
         /\ Markers' = Markers
         /\ Hidings(s)' = Hidings(s) \cup {Last + 1}
         /\ \A t : t # s => Hidings(t)' = Hidings(t)
<1>1. Last \in Nat /\ DOMAIN stash = 1 .. Last /\ stash \in Seq(Items)
  BY StashDomain DEF StashType
<1>2. Hidden(s, e) \in Items
  BY DEF Hidden, Items
<1>3. /\ stash' \in Seq(Items) /\ Last' = Last + 1 /\ DOMAIN stash' = 1 .. Last + 1
      /\ \A k \in 1 .. Last : stash'[k] = stash[k]
      /\ stash'[Last + 1] = Hidden(s, e)
  BY <1>1, <1>2 DEF Last
<1>4. stash'[Last + 1].kind # "marker" /\ stash'[Last + 1].symbol = s
  BY <1>3 DEF Hidden
<1>5. Markers' = Markers
  BY <1>1, <1>3, <1>4 DEF Markers, IsMarker
<1>6. /\ Hidings(s)' = Hidings(s) \cup {Last + 1}
      /\ \A t : t # s => Hidings(t)' = Hidings(t)
  BY <1>1, <1>3, <1>4 DEF Hidings, IsMarker
<1> QED
  BY <1>3, <1>5, <1>6

LEMMA PopItem ==
  ASSUME StashType, stash # <<>>, Pop
  PROVE  /\ stash' \in Seq(Items) /\ Last \in 1 .. Last
         /\ Last' = Last - 1 /\ DOMAIN stash' = 1 .. Last - 1
         /\ \A k \in 1 .. Last - 1 : stash'[k] = stash[k]
         /\ Markers' = Markers \ {Last}
         /\ \A s : Hidings(s)' = Hidings(s) \ {Last}
<1>1. Last \in Nat /\ DOMAIN stash = 1 .. Last /\ stash \in Seq(Items) /\ Last # 0
  BY StashDomain DEF StashType, Last
<1>2. /\ stash' \in Seq(Items) /\ Last' = Last - 1 /\ DOMAIN stash' = 1 .. Last - 1
      /\ \A k \in 1 .. Last - 1 : stash'[k] = stash[k]
  BY <1>1 DEF Last, Pop
<1>3. Markers' = Markers \ {Last}
  BY <1>1, <1>2 DEF Markers, IsMarker
<1>4. \A s : Hidings(s)' = Hidings(s) \ {Last}
  BY <1>1, <1>2 DEF Hidings, IsMarker
<1> QED
  BY <1>1, <1>2, <1>3, <1>4

-----------------------------------------------------------------------------
(* What each action does to the content of the table *)

LEMMA ConstantBounds ==
  MaxScopes \in Nat /\ Entry = [value : Value, scope : 0 .. MaxScopes - 1]
BY BoundAssumption DEF Entry

\* Content, and what has and get read.
LEMMA ReadsContent ==
  ASSUME TableInv, NEW s \in Symbol
  PROVE  /\ HashTable!Content[s] = HashTable!ContentOf(s)
         /\ todo = <<>> =>
              /\ HashTable!Content[s] = Entered(s)
              /\ Found(s) <=> HashTable!Content[s] # NoEntry
              /\ Found(s) => HashTable!Content[s] = table[HashTable!_find(s)].value
<1>1. HashTable!Content[s] = HashTable!ContentOf(s)
  BY DEF HashTable!Content
<1>2. ASSUME todo = <<>>, HashTable!Found(s)
      PROVE  /\ HashTable!Content[s] = table[HashTable!_find(s)].value
             /\ HashTable!Content[s] # NoEntry
  <2> DEFINE c == HashTable!_find(s)
  <2>1. c \in DOMAIN table /\ table[c].key = s
    BY <1>2, FindFinds DEF HashTable!Cells
  <2> HIDE DEF c
  <2>2. table[c] \in Pair
    BY <2>1, ConstantFacts DEF TableInv, TableType, HashTable!Empty
  <2>3. table[c].value \in Entry /\ table[c] = [key |-> s, value |-> table[c].value]
    BY <2>1, <2>2 DEF Pair
  <2>4. Held(s, table[c].value)
    BY <2>1, <2>3 DEF Held
  <2>5. HashTable!Content[s] = table[c].value
    BY <2>3, <2>4, ContentOfTable DEF ContentIsHeld
  <2> QED
    BY <2>3, <2>5, ConstantFacts DEF c
<1>3. ASSUME todo = <<>>, ~HashTable!Found(s)
      PROVE  HashTable!Content[s] = NoEntry
  <2>1. HashTable!Cells(s) = {} /\ HashTable!Waiting(s) = {}
    BY <1>3, FindFinds DEF HashTable!Waiting
  <2> QED
    BY <1>1, <2>1 DEF HashTable!ContentOf
<1> QED
  BY <1>1, <1>2, <1>3 DEF Found, Entered

\* The scope that a put is in has a number that fits an entry.
LEMMA PutContent ==
  ASSUME Inv, NEW s \in Symbol, NEW value \in Value, Put(s, value)
  PROVE  LET e == [value |-> value, scope |-> scope_id]
         IN  /\ e \in Entry /\ HashTable!Set(s, e)
             /\ TableInv' /\ HashTable!Content' = [HashTable!Content EXCEPT ![s] = e]
             /\ Entered(s) \in Entry \cup {NoEntry}
             /\ Entered(s) = HashTable!Content[s]
             /\ stash # <<>>
<1> DEFINE e == [value |-> value, scope |-> scope_id]
<1>1. stash # <<>> /\ todo = <<>> /\ HashTable!Set(s, e)
  BY DEF Put, Idle, Markers
<1>2. scope_id \in 0 .. MaxScopes - 1
  BY <1>1, ConstantBounds DEF Inv, StashInv, StashType, ScopeIds
<1>3. e \in Entry
  BY <1>2 DEF Entry
<1>4. Entered(s) = HashTable!Content[s] /\ HashTable!Content[s] \in Entry \cup {NoEntry}
  BY <1>1, ReadsContent, ContentOfTable DEF Inv, ContentIsHeld
<1> HIDE DEF e
<1>5. TableInv' /\ HashTable!Content' = [HashTable!Content EXCEPT ![s] = e]
  BY <1>1, <1>3, SetStep DEF Inv
<1> QED
  BY <1>1, <1>3, <1>4, <1>5 DEF e

LEMMA PlaceContent ==
  ASSUME Inv, Place
  PROVE  TableInv' /\ HashTable!Content' = HashTable!Content
BY AddStep, GrowStep DEF Inv, Place

LEMMA PutBackContent ==
  ASSUME Inv, PutBack
  PROVE  LET item == stash[Last]
         IN  /\ stash # <<>> /\ Last \in Hidings(item.symbol) /\ item.symbol \in Symbol
             /\ item.entry = NoEntry => HashTable!Remove(item.symbol)
             /\ item.entry # NoEntry =>
                  item.entry \in Entry /\ HashTable!Set(item.symbol, item.entry)
             /\ TableInv'
             /\ HashTable!Content' = [HashTable!Content EXCEPT ![item.symbol] = item.entry]
<1> DEFINE item == stash[Last]
<1>1. stash # <<>>
  BY DEF PutBack, Round, Inv, StashInv, StashType
<1>2. Last \in DOMAIN stash /\ item \in Items /\ item.kind # "marker"
  <2>1. Last \in Nat /\ Last # 0 /\ DOMAIN stash = 1 .. Last
    BY <1>1, StashDomain DEF Inv, StashInv, StashType, Last
  <2> QED
    BY <2>1, StashDomain DEF PutBack, IsMarker, Inv, StashInv
<1>3. item.symbol \in Symbol /\ item.entry \in Entry \cup {NoEntry}
  BY <1>2 DEF Items
<1>4. Last \in Hidings(item.symbol)
  BY <1>2 DEF Hidings, IsMarker
<1>5. IF item.entry = NoEntry THEN HashTable!Remove(item.symbol)
      ELSE HashTable!Set(item.symbol, item.entry)
  BY DEF PutBack
<1> HIDE DEF item
<1>6. TableInv' /\ HashTable!Content' = [HashTable!Content EXCEPT ![item.symbol] = item.entry]
  <2>1. CASE item.entry = NoEntry
    BY <1>3, <1>5, <2>1, RemoveStep DEF Inv
  <2>2. CASE item.entry # NoEntry
    BY <1>3, <1>5, <2>2, SetStep DEF Inv
  <2> QED
    BY <2>1, <2>2
<1> QED
  BY <1>1, <1>3, <1>4, <1>5, <1>6 DEF item

-----------------------------------------------------------------------------
(* The invariant *)

LEMMA InvInit ==
  Init => Inv
<1> SUFFICES ASSUME Init PROVE Inv
  OBVIOUS
<1>1. TableInv /\ HashTable!Content = [s \in Symbol |-> NoEntry]
  BY InitTable DEF Init
<1>2. stash = <<>> /\ DOMAIN stash = {} /\ scope_id = 0 /\ next_scope_id = 0 /\ exiting = FALSE
  BY DEF Init
<1>3. Markers = {} /\ \A s : Hidings(s) = {}
  BY <1>2 DEF Markers, Hidings
<1>4. StashType
  <2>1. exiting \in BOOLEAN /\ ~exiting
    BY <1>2
  <2>2. scope_id \in Nat /\ next_scope_id \in 0 .. MaxScopes /\ stash \in Seq(Items)
    BY <1>2, ConstantBounds
  <2> QED
    BY <1>2, <2>1, <2>2 DEF StashType
<1>5. ScopeIds /\ TableHasLast /\ ItemHasPrevious
  BY <1>1, <1>2, <1>3 DEF ScopeIds, TableHasLast, ItemHasPrevious
<1> QED
  BY <1>1, <1>4, <1>5 DEF Inv, StashInv

LEMMA InvEnterScope ==
  ASSUME Inv, EnterScope
  PROVE  Inv' /\ HashTable!Content' = HashTable!Content
<1> USE DEF Inv, StashInv
<1>1. /\ stash' = Append(stash, Marker(scope_id))
      /\ scope_id' = next_scope_id /\ next_scope_id' = next_scope_id + 1
      /\ next_scope_id < MaxScopes /\ exiting' = exiting /\ exiting = FALSE
      /\ UNCHANGED hash_table
  BY DEF EnterScope, Idle, StashType
<1>2. TableInv' /\ HashTable!Content' = HashTable!Content
  BY <1>1, TableStutter
<1>3. scope_id \in Nat
  BY DEF StashType
<1>4. /\ Last \in Nat /\ Markers \subseteq 1 .. Last /\ \A s : Hidings(s) \subseteq 1 .. Last
      /\ \A m \in Markers : stash[m].scope \in Nat
      /\ stash # <<>> => 1 \in Markers
  BY StashDomain
<1>5. /\ stash' \in Seq(Items) /\ DOMAIN stash' = 1 .. Last + 1
      /\ \A k \in 1 .. Last : stash'[k] = stash[k]
      /\ stash'[Last + 1] = Marker(scope_id)
      /\ Markers' = Markers \cup {Last + 1}
      /\ \A s : Hidings(s)' = Hidings(s)
  BY <1>1, <1>3, PushMarker
<1>6. stash'[Last + 1].scope = scope_id /\ stash'[Last + 1].kind = "marker"
  BY <1>5 DEF Marker
<1>7. StashType'
  <2>1. IsMarker(1)'
    <3>1. CASE stash = <<>>
      BY <1>5, <1>6, <3>1 DEF IsMarker, Last
    <3>2. CASE stash # <<>>
      BY <1>4, <1>5, <3>2 DEF IsMarker, Markers
    <3> QED
      BY <3>1, <3>2
  <2>2. exiting' \in BOOLEAN /\ ~exiting'
    BY <1>1
  <2>3. scope_id' \in Nat /\ next_scope_id' \in 0 .. MaxScopes
    BY <1>1, ConstantBounds DEF StashType
  <2> QED
    BY <1>5, <2>1, <2>2, <2>3 DEF StashType
<1>8. ScopeIds'
  <2>0. next_scope_id \in Nat
    BY DEF StashType
  <2>1. stash = <<>> => Last + 1 = 1
    BY DEF Last
  <2>2. \A m \in Markers' : m > 1 => stash'[m].scope < scope_id'
    BY <1>1, <1>3, <1>4, <1>5, <1>6, <2>0, <2>1 DEF ScopeIds
  <2>3. \A m, n \in Markers' : 1 < m /\ m < n => stash'[m].scope < stash'[n].scope
    <3> SUFFICES ASSUME NEW m \in Markers', NEW n \in Markers', 1 < m, m < n
                 PROVE  stash'[m].scope < stash'[n].scope
      OBVIOUS
    <3>1. m \in Markers /\ stash'[m] = stash[m]
      BY <1>4, <1>5
    <3>2. CASE n \in Markers
      BY <1>4, <1>5, <3>1, <3>2 DEF ScopeIds
    <3>3. CASE n = Last + 1
      BY <1>6, <3>1, <3>3 DEF ScopeIds
    <3> QED
      BY <1>5, <3>2, <3>3
  <2>4. scope_id' < next_scope_id'
    BY <1>1, <2>0
  <2> QED
    BY <2>2, <2>3, <2>4 DEF ScopeIds
<1>9. \A id : \A k \in 1 .. Last : InScope(k, id) => InScope(k, id)'
  <2> SUFFICES ASSUME NEW id, NEW k \in 1 .. Last, InScope(k, id)
               PROVE  InScope(k, id)'
    OBVIOUS
  <2>1. CASE \E m \in Markers : /\ k < m /\ stash[m].scope = id
                                /\ \A j \in Markers : k < j => m <= j
    BY <1>4, <1>5, <2>1 DEF InScope
  <2>2. CASE (\A m \in Markers : m < k) /\ scope_id = id
    <3>1. Last + 1 \in Markers' /\ k < Last + 1 /\ stash'[Last + 1].scope = id
      BY <1>4, <1>5, <1>6, <2>2
    <3>2. \A j \in Markers' : k < j => Last + 1 <= j
      BY <1>4, <1>5, <2>2
    <3> QED
      BY <3>1, <3>2 DEF InScope
  <2> QED
    BY <2>1, <2>2 DEF InScope
<1>10. TableHasLast'
  BY <1>2, <1>4, <1>5, <1>9 DEF TableHasLast
<1>11. ItemHasPrevious'
  <2> SUFFICES ASSUME NEW s \in Symbol, NEW k \in Hidings(s)
               PROVE  \/ (\A j \in Hidings(s) : k <= j) /\ stash'[k].entry = NoEntry
                      \/ \E i \in Hidings(s) :
                           /\ i < k /\ \A j \in Hidings(s) : j < k => j <= i
                           /\ stash'[k].entry \in Entry
                           /\ InScope(i, stash[k].entry.scope)'
    BY <1>5 DEF ItemHasPrevious
  <2>1. stash'[k] = stash[k]
    BY <1>4, <1>5
  <2> QED
    BY <1>4, <1>9, <2>1 DEF ItemHasPrevious
<1> QED
  BY <1>2, <1>7, <1>8, <1>10, <1>11

LEMMA InvPut ==
  ASSUME Inv, NEW s \in Symbol, NEW value \in Value, Put(s, value)
  PROVE  Inv'
<1> USE DEF Inv, StashInv
<1> DEFINE e == [value |-> value, scope |-> scope_id]
<1>1. /\ e \in Entry /\ e.scope = scope_id /\ TableInv'
      /\ HashTable!Content' = [HashTable!Content EXCEPT ![s] = e]
      /\ Entered(s) \in Entry \cup {NoEntry} /\ Entered(s) = HashTable!Content[s]
      /\ stash # <<>>
  BY PutContent
<1> HIDE DEF e
<1>2. /\ stash' = Append(stash, Hidden(s, Entered(s)))
      /\ scope_id' = scope_id /\ next_scope_id' = next_scope_id /\ exiting' = exiting
  BY DEF Put
<1>3. /\ Last \in Nat /\ Markers \subseteq 1 .. Last /\ \A t : Hidings(t) \subseteq 1 .. Last
      /\ 1 \in Markers
  BY <1>1, StashDomain
<1>4. /\ stash' \in Seq(Items) /\ DOMAIN stash' = 1 .. Last + 1
      /\ \A k \in 1 .. Last : stash'[k] = stash[k]
      /\ stash'[Last + 1] = Hidden(s, Entered(s))
      /\ Markers' = Markers
      /\ Hidings(s)' = Hidings(s) \cup {Last + 1}
      /\ \A t : t # s => Hidings(t)' = Hidings(t)
  BY <1>1, <1>2, PushHidden
<1>5. stash'[Last + 1].entry = HashTable!Content[s]
  BY <1>1, <1>4 DEF Hidden
<1>6. StashType'
  <2>1. IsMarker(1)'
    BY <1>3, <1>4 DEF IsMarker, Markers
  <2>2. exiting' \in BOOLEAN /\ (exiting' => stash' # <<>>)
    BY <1>2, <1>3, <1>4 DEF StashType
  <2> QED
    BY <1>2, <1>4, <2>1, <2>2 DEF StashType
<1>7. ScopeIds'
  <2>1. \A m \in Markers : stash'[m] = stash[m]
    BY <1>3, <1>4
  <2> QED
    BY <1>1, <1>2, <1>4, <2>1 DEF ScopeIds
<1>8. \A id : \A k \in 1 .. Last : InScope(k, id) => InScope(k, id)'
  BY <1>2, <1>3, <1>4 DEF InScope
<1>9. TableHasLast'
  <2>1. DOMAIN HashTable!Content = Symbol
    BY DEF HashTable!Content
  <2>2. /\ HashTable!Content'[s] = e
        /\ \A t \in Symbol \ {s} : HashTable!Content'[t] = HashTable!Content[t]
    BY <1>1, <2>1
  <2>3. \A k : k = Last + 1 => InScope(k, HashTable!Content[s].scope)'
    <3>1. HashTable!Content'[s].scope = scope_id' /\ \A m \in Markers' : m < Last + 1
      BY <1>1, <1>2, <1>3, <1>4, <2>2
    <3> QED
      BY <3>1 DEF InScope
  <2>4. \A j \in Hidings(s)' : j <= Last + 1
    BY <1>3, <1>4
  <2>5. \E k \in Hidings(s)' : /\ \A j \in Hidings(s)' : j <= k
                               /\ HashTable!Content'[s] \in Entry
                               /\ InScope(k, HashTable!Content[s].scope)'
    BY <1>1, <1>4, <2>2, <2>3, <2>4
  <2>6. ASSUME NEW t \in Symbol \ {s}
        PROVE  \/ Hidings(t)' = {} /\ HashTable!Content'[t] = NoEntry
               \/ \E k \in Hidings(t)' : /\ \A j \in Hidings(t)' : j <= k
                                          /\ HashTable!Content'[t] \in Entry
                                          /\ InScope(k, HashTable!Content[t].scope)'
    BY <1>3, <1>4, <1>8, <2>2 DEF TableHasLast
  <2> QED
    BY <2>5, <2>6 DEF TableHasLast
<1>10. ItemHasPrevious'
  <2>1. ASSUME NEW t \in Symbol, NEW k \in Hidings(t)
        PROVE  \/ (\A j \in Hidings(t)' : k <= j) /\ stash'[k].entry = NoEntry
               \/ \E i \in Hidings(t)' :
                    /\ i < k /\ \A j \in Hidings(t)' : j < k => j <= i
                    /\ stash'[k].entry \in Entry
                    /\ InScope(i, stash[k].entry.scope)'
    <3>1. stash'[k] = stash[k] /\ k \in 1 .. Last
      BY <1>3, <1>4
    <3>2. /\ Hidings(t) \subseteq Hidings(t)'
          /\ \A j \in Hidings(t)' : j \in Hidings(t) \/ j = Last + 1
      BY <1>4
    <3>3. CASE (\A j \in Hidings(t) : k <= j) /\ stash[k].entry = NoEntry
      BY <1>3, <3>1, <3>2, <3>3
    <3>4. CASE \E i \in Hidings(t) :
                 /\ i < k /\ \A j \in Hidings(t) : j < k => j <= i
                 /\ stash[k].entry \in Entry
                 /\ InScope(i, stash[k].entry.scope)
      <4>1. PICK i \in Hidings(t) :
                 /\ i < k /\ \A j \in Hidings(t) : j < k => j <= i
                 /\ stash[k].entry \in Entry
                 /\ InScope(i, stash[k].entry.scope)
        BY <3>4
      <4>2. i \in 1 .. Last
        BY <1>3
      <4>3. InScope(i, stash[k].entry.scope)'
        BY <1>8, <3>1, <4>1, <4>2
      <4>4. \A j \in Hidings(t)' : j < k => j <= i
        BY <1>3, <3>1, <3>2, <4>1
      <4> QED
        BY <3>1, <3>2, <4>1, <4>3, <4>4
    <3> QED
      BY <3>3, <3>4 DEF ItemHasPrevious
  <2>4. \/ (\A j \in Hidings(s)' : Last + 1 <= j) /\ stash'[Last + 1].entry = NoEntry
        \/ \E i \in Hidings(s)' :
             /\ i < Last + 1 /\ \A j \in Hidings(s)' : j < Last + 1 => j <= i
             /\ stash'[Last + 1].entry \in Entry
             /\ InScope(i, HashTable!Content[s].scope) /\ i \in 1 .. Last
    <3>1. CASE Hidings(s) = {} /\ HashTable!Content[s] = NoEntry
      BY <1>3, <1>4, <1>5, <3>1
    <3>2. CASE \E k \in Hidings(s) : /\ \A j \in Hidings(s) : j <= k
                                     /\ HashTable!Content[s] \in Entry
                                     /\ InScope(k, HashTable!Content[s].scope)
      <4>1. PICK k \in Hidings(s) : /\ \A j \in Hidings(s) : j <= k
                                    /\ HashTable!Content[s] \in Entry
                                    /\ InScope(k, HashTable!Content[s].scope)
        BY <3>2
      <4>2. k \in 1 .. Last /\ k < Last + 1 /\ k \in Hidings(s)'
        BY <1>3, <1>4
      <4>3. \A j \in Hidings(s)' : j < Last + 1 => j <= k
        BY <1>3, <1>4, <4>1
      <4> QED
        BY <1>5, <4>1, <4>2, <4>3
    <3> QED
      BY <3>1, <3>2 DEF TableHasLast
  <2> SUFFICES ASSUME NEW t \in Symbol, NEW k \in Hidings(t)'
               PROVE  \/ (\A j \in Hidings(t)' : k <= j) /\ stash'[k].entry = NoEntry
                      \/ \E i \in Hidings(t)' :
                           /\ i < k /\ \A j \in Hidings(t)' : j < k => j <= i
                           /\ stash'[k].entry \in Entry
                           /\ InScope(i, stash[k].entry.scope)'
    BY DEF ItemHasPrevious
  <2>5. CASE k \in Hidings(t)
    BY <2>1, <2>5
  <2>6. CASE t = s /\ k = Last + 1
    <3>1. CASE (\A j \in Hidings(s)' : Last + 1 <= j) /\ stash'[Last + 1].entry = NoEntry
      BY <2>6, <3>1
    <3>2. CASE \E i \in Hidings(s)' :
             /\ i < Last + 1 /\ \A j \in Hidings(s)' : j < Last + 1 => j <= i
             /\ stash'[Last + 1].entry \in Entry
             /\ InScope(i, HashTable!Content[s].scope) /\ i \in 1 .. Last
      <4>1. PICK i \in Hidings(s)' :
             /\ i < Last + 1 /\ \A j \in Hidings(s)' : j < Last + 1 => j <= i
             /\ stash'[Last + 1].entry \in Entry
             /\ InScope(i, HashTable!Content[s].scope) /\ i \in 1 .. Last
        BY <3>2
      <4> DEFINE id == HashTable!Content[s].scope
      <4>2. stash'[k].entry.scope = id
        BY <1>5, <2>6
      <4>3. InScope(i, id) => InScope(i, stash[k].entry.scope)'
        BY <1>2, <1>3, <1>4, <4>1, <4>2 DEF InScope
      <4> QED
        BY <2>6, <4>1, <4>3
    <3> QED
      BY <2>4, <3>1, <3>2
  <2> QED
    BY <1>4, <2>5, <2>6
<1> QED
  BY <1>1, <1>6, <1>7, <1>9, <1>10

\* A step that leaves the stash and the content alone.
LEMMA InvKept ==
  ASSUME Inv, TableInv', HashTable!Content' = HashTable!Content,
         UNCHANGED <<scope_id, next_scope_id, stash>>,
         exiting' \in BOOLEAN, exiting' => stash # <<>>
  PROVE  Inv'
<1> USE DEF Inv, StashInv
<1>1. Markers' = Markers /\ \A s : Hidings(s)' = Hidings(s)
  BY DEF Markers, Hidings, IsMarker
<1>2. \A k, id : InScope(k, id)' <=> InScope(k, id)
  BY <1>1 DEF InScope
<1>3. StashType'
  BY DEF StashType, IsMarker
<1>4. ScopeIds'
  BY <1>1 DEF ScopeIds
<1>5. TableHasLast'
  BY <1>1, <1>2 DEF TableHasLast
<1>6. ItemHasPrevious'
  BY <1>1, <1>2 DEF ItemHasPrevious
<1> QED
  BY <1>3, <1>4, <1>5, <1>6

LEMMA InvPlace ==
  ASSUME Inv, Place
  PROVE  Inv'
<1>1. TableInv' /\ HashTable!Content' = HashTable!Content
  BY PlaceContent
<1>2. UNCHANGED <<scope_id, next_scope_id, stash, exiting>>
  BY DEF Place
<1>3. exiting' \in BOOLEAN /\ (exiting' => stash # <<>>)
  BY <1>2 DEF Inv, StashInv, StashType
<1> QED
  BY <1>1, <1>2, <1>3, InvKept

LEMMA InvExitScope ==
  ASSUME Inv, ExitScope
  PROVE  Inv' /\ HashTable!Content' = HashTable!Content
<1>1. TableInv' /\ HashTable!Content' = HashTable!Content
  BY TableStutter DEF ExitScope, Inv
<1>2. UNCHANGED <<scope_id, next_scope_id, stash>>
  BY DEF ExitScope
<1>3. exiting' \in BOOLEAN /\ stash # <<>>
  BY DEF ExitScope, Markers
<1> QED
  BY <1>1, <1>2, <1>3, InvKept

LEMMA InvStutter ==
  ASSUME Inv, UNCHANGED vars
  PROVE  Inv'
<1>1. TableInv' /\ HashTable!Content' = HashTable!Content
  BY TableStutter DEF vars, Inv
<1>2. UNCHANGED <<scope_id, next_scope_id, stash, exiting>>
  BY DEF vars
<1>3. exiting' \in BOOLEAN /\ (exiting' => stash # <<>>)
  BY <1>2 DEF Inv, StashInv, StashType
<1> QED
  BY <1>1, <1>2, <1>3, InvKept

LEMMA InvPutBack ==
  ASSUME Inv, PutBack
  PROVE  Inv'
<1> USE DEF Inv, StashInv
<1>1. PICK s \in Symbol, e \in {stash[Last].entry} :
        /\ s = stash[Last].symbol /\ Last \in Hidings(s) /\ stash # <<>> /\ TableInv'
        /\ HashTable!Content' = [HashTable!Content EXCEPT ![s] = e]
  BY PutBackContent
<1>2. Pop /\ UNCHANGED <<scope_id, next_scope_id, exiting>>
  BY DEF PutBack
<1>3. /\ stash' \in Seq(Items) /\ Last \in 1 .. Last /\ Last' = Last - 1
      /\ \A k \in 1 .. Last - 1 : stash'[k] = stash[k]
      /\ Markers' = Markers \ {Last}
      /\ \A t : Hidings(t)' = Hidings(t) \ {Last}
  BY <1>1, <1>2, PopItem
<1>4. /\ Markers \subseteq 1 .. Last /\ \A t : Hidings(t) \subseteq 1 .. Last
      /\ 1 \in Markers /\ Last \in Nat
  BY <1>1, StashDomain
<1>5. Last \notin Markers /\ \A t : t # s => Last \notin Hidings(t)
  BY <1>1 DEF Markers, Hidings
<1>6. Markers' = Markers /\ \A m \in Markers : m \in 1 .. Last - 1 /\ stash'[m] = stash[m]
  BY <1>3, <1>4, <1>5
<1>7. StashType'
  <2>1. 1 \in 1 .. Last - 1
    BY <1>3, <1>4, <1>5
  <2>2. IsMarker(1)' /\ stash' # <<>>
    BY <1>3, <1>4, <2>1 DEF IsMarker, Markers, Last
  <2> QED
    BY <1>2, <1>3, <2>2 DEF StashType
<1>8. ScopeIds'
  BY <1>1, <1>2, <1>6 DEF ScopeIds
<1>9. \A k, id : InScope(k, id) => InScope(k, id)'
  BY <1>2, <1>6 DEF InScope
<1>10. \A t \in Symbol : /\ Hidings(t)' \subseteq Hidings(t)
                         /\ \A k \in Hidings(t)' : k < Last /\ stash'[k] = stash[k]
                         /\ \A k \in Hidings(t) : k < Last => k \in Hidings(t)'
  BY <1>3, <1>4
<1>11. TableHasLast'
  <2>1. /\ HashTable!Content'[s] = e
        /\ \A t \in Symbol \ {s} : HashTable!Content'[t] = HashTable!Content[t]
    BY <1>1 DEF HashTable!Content
  <2>2. ASSUME NEW t \in Symbol \ {s}
        PROVE  \/ Hidings(t)' = {} /\ HashTable!Content'[t] = NoEntry
               \/ \E k \in Hidings(t)' : /\ \A j \in Hidings(t)' : j <= k
                                          /\ HashTable!Content'[t] \in Entry
                                          /\ InScope(k, HashTable!Content[t].scope)'
    <3>1. Hidings(t)' = Hidings(t)
      BY <1>3, <1>5
    <3> QED
      BY <1>9, <2>1, <3>1 DEF TableHasLast
  <2>3. CASE (\A j \in Hidings(s) : Last <= j) /\ stash[Last].entry = NoEntry
    <3>1. Hidings(s)' = {}
      BY <1>4, <1>10, <2>3
    <3> QED
      BY <1>1, <2>1, <2>2, <2>3, <3>1 DEF TableHasLast
  <2>4. CASE \E i \in Hidings(s) :
               /\ i < Last /\ \A j \in Hidings(s) : j < Last => j <= i
               /\ stash[Last].entry \in Entry
               /\ InScope(i, stash[Last].entry.scope)
    <3>1. PICK i \in Hidings(s) :
               /\ i < Last /\ \A j \in Hidings(s) : j < Last => j <= i
               /\ e \in Entry /\ InScope(i, e.scope)
      BY <1>1, <2>4
    <3>2. i \in Hidings(s)' /\ \A j \in Hidings(s)' : j <= i
      BY <1>10, <3>1
    <3>3. InScope(i, e.scope)'
      BY <1>9, <3>1
    <3>4. InScope(i, HashTable!Content[s].scope)'
      BY <2>1, <3>3 DEF InScope
    <3> QED
      BY <2>1, <2>2, <3>1, <3>2, <3>4 DEF TableHasLast
  <2> QED
    BY <1>1, <2>3, <2>4 DEF ItemHasPrevious
<1>12. ItemHasPrevious'
  <2> SUFFICES ASSUME NEW t \in Symbol, NEW k \in Hidings(t)'
               PROVE  \/ (\A j \in Hidings(t)' : k <= j) /\ stash'[k].entry = NoEntry
                      \/ \E i \in Hidings(t)' :
                           /\ i < k /\ \A j \in Hidings(t)' : j < k => j <= i
                           /\ stash'[k].entry \in Entry
                           /\ InScope(i, stash[k].entry.scope)'
    BY DEF ItemHasPrevious
  <2>1. k \in Hidings(t) /\ k < Last /\ stash'[k] = stash[k] /\ k \in Nat
    BY <1>4, <1>10
  <2>2. CASE (\A j \in Hidings(t) : k <= j) /\ stash[k].entry = NoEntry
    BY <1>10, <2>1, <2>2
  <2>3. CASE \E i \in Hidings(t) :
               /\ i < k /\ \A j \in Hidings(t) : j < k => j <= i
               /\ stash[k].entry \in Entry
               /\ InScope(i, stash[k].entry.scope)
    <3>1. PICK i \in Hidings(t) :
               /\ i < k /\ \A j \in Hidings(t) : j < k => j <= i
               /\ stash[k].entry \in Entry
               /\ InScope(i, stash[k].entry.scope)
      BY <2>3
    <3>2. i \in Hidings(t)'
      BY <1>4, <1>10, <2>1, <3>1
    <3>3. InScope(i, stash[k].entry.scope)'
      BY <1>9, <2>1, <3>1
    <3> QED
      BY <1>10, <2>1, <3>1, <3>2, <3>3
  <2> QED
    BY <2>1, <2>2, <2>3 DEF ItemHasPrevious
<1> QED
  BY <1>1, <1>7, <1>8, <1>11, <1>12

LEMMA InvLeaveScope ==
  ASSUME Inv, LeaveScope
  PROVE  Inv' /\ HashTable!Content' = HashTable!Content
<1> USE DEF Inv, StashInv
<1>1. TableInv' /\ HashTable!Content' = HashTable!Content
  BY TableStutter DEF LeaveScope
<1>2. /\ Pop /\ next_scope_id' = next_scope_id /\ exiting' = FALSE
      /\ scope_id' = stash[Last].scope /\ IsMarker(Last) /\ stash # <<>>
  BY DEF LeaveScope, Round, StashType
<1>3. /\ stash' \in Seq(Items) /\ Last \in 1 .. Last /\ Last' = Last - 1
      /\ DOMAIN stash' = 1 .. Last - 1
      /\ \A k \in 1 .. Last - 1 : stash'[k] = stash[k]
      /\ Markers' = Markers \ {Last}
      /\ \A t : Hidings(t)' = Hidings(t) \ {Last}
  BY <1>2, PopItem
<1>4. /\ Markers \subseteq 1 .. Last /\ \A t : Hidings(t) \subseteq 1 .. Last
      /\ 1 \in Markers /\ Last \in Nat /\ \A m \in Markers : stash[m].scope \in Nat
      /\ DOMAIN stash = 1 .. Last
  BY <1>2, StashDomain
<1>5. Last \in Markers /\ \A t : Hidings(t)' = Hidings(t)
  <2>1. Last \in Markers
    BY <1>2, <1>3, <1>4 DEF Markers
  <2>2. \A t : Last \notin Hidings(t)
    BY <1>2 DEF Hidings
  <2> QED
    BY <1>3, <2>1, <2>2
<1>6. \A m \in Markers' : m \in Markers /\ m \in 1 .. Last - 1 /\ stash'[m] = stash[m]
  <2> SUFFICES ASSUME NEW m \in Markers'
               PROVE  m \in Markers /\ m \in 1 .. Last - 1 /\ stash'[m] = stash[m]
    OBVIOUS
  <2>1. m \in Markers /\ m # Last /\ m \in 1 .. Last
    BY <1>3, <1>4
  <2>2. m \in 1 .. Last - 1
    BY <1>4, <2>1
  <2> QED
    BY <1>3, <2>1, <2>2
<1>7. StashType'
  <2>1. stash' # <<>> => IsMarker(1)'
    <3>1. stash' # <<>> => 1 \in 1 .. Last - 1
      BY <1>3, <1>4 DEF Last
    <3> QED
      BY <1>3, <1>4, <3>1 DEF IsMarker, Markers
  <2>2. exiting' \in BOOLEAN /\ ~exiting'
    BY <1>2
  <2>3. scope_id' \in Nat
    BY <1>2, <1>4, <1>5
  <2> QED
    BY <1>2, <1>3, <2>1, <2>2, <2>3 DEF StashType
<1>8. ScopeIds'
  <2>1. ASSUME stash' # <<>> PROVE scope_id' < next_scope_id'
    <3>1. Last > 1
      BY <1>3, <1>4, <2>1 DEF Last
    <3>2. stash[Last].scope < scope_id /\ scope_id < next_scope_id
      BY <1>2, <1>5, <3>1 DEF ScopeIds
    <3>3. stash[Last].scope \in Nat /\ scope_id \in Nat /\ next_scope_id \in Nat
      BY <1>4, <1>5 DEF StashType
    <3> QED
      BY <1>2, <3>2, <3>3
  <2>2. \A m \in Markers' : m > 1 => stash'[m].scope < scope_id'
    BY <1>2, <1>4, <1>5, <1>6 DEF ScopeIds
  <2>3. \A m, n \in Markers' : 1 < m /\ m < n => stash'[m].scope < stash'[n].scope
    BY <1>6 DEF ScopeIds
  <2> QED
    BY <2>1, <2>2, <2>3 DEF ScopeIds
<1>9. \A t : \A k \in Hidings(t) :
        k \in 1 .. Last - 1 /\ k \notin Markers /\ stash'[k] = stash[k]
  BY <1>2, <1>3, <1>4 DEF Hidings, Markers
<1>10. \A t, id : \A k \in Hidings(t) : InScope(k, id) => InScope(k, id)'
  <2> SUFFICES ASSUME NEW t, NEW id, NEW k \in Hidings(t), InScope(k, id)
               PROVE  InScope(k, id)'
    OBVIOUS
  <2>1. k \in 1 .. Last - 1 /\ k \notin Markers
    BY <1>9
  <2>2. PICK m \in Markers : /\ k < m /\ stash[m].scope = id
                             /\ \A j \in Markers : k < j => m <= j
    BY <1>4, <1>5, <2>1 DEF InScope
  <2>3. CASE m = Last
    <3>1. \A j \in Markers' : j < k
      BY <1>4, <1>6, <2>1, <2>2, <2>3
    <3> QED
      BY <1>2, <2>2, <2>3, <3>1 DEF InScope
  <2>4. CASE m # Last
    <3>1. m \in Markers' /\ stash'[m].scope = id
      BY <1>3, <1>6, <2>2, <2>4
    <3> QED
      BY <1>6, <2>2, <3>1 DEF InScope
  <2> QED
    BY <2>3, <2>4
<1>11. TableHasLast'
  BY <1>1, <1>5, <1>10 DEF TableHasLast
<1>12. ItemHasPrevious'
  <2> SUFFICES ASSUME NEW t \in Symbol, NEW k \in Hidings(t)
               PROVE  \/ (\A j \in Hidings(t) : k <= j) /\ stash'[k].entry = NoEntry
                      \/ \E i \in Hidings(t) :
                           /\ i < k /\ \A j \in Hidings(t) : j < k => j <= i
                           /\ stash'[k].entry \in Entry
                           /\ InScope(i, stash[k].entry.scope)'
    BY <1>5 DEF ItemHasPrevious
  <2>1. stash'[k] = stash[k]
    BY <1>9
  <2> QED
    BY <1>10, <2>1 DEF ItemHasPrevious
<1> QED
  BY <1>1, <1>7, <1>8, <1>11, <1>12

LEMMA InvNext ==
  Inv /\ [Next]_vars => Inv'
<1> SUFFICES ASSUME Inv, [Next]_vars PROVE Inv'
  OBVIOUS
<1>1. CASE EnterScope
  BY <1>1, InvEnterScope
<1>2. ASSUME NEW s \in Symbol, NEW value \in Value, Put(s, value) PROVE Inv'
  BY <1>2, InvPut
<1>3. CASE Place
  BY <1>3, InvPlace
<1>4. CASE ExitScope
  BY <1>4, InvExitScope
<1>5. CASE PutBack
  BY <1>5, InvPutBack
<1>6. CASE LeaveScope
  BY <1>6, InvLeaveScope
<1>7. CASE UNCHANGED vars
  BY <1>7, InvStutter
<1> QED
  BY <1>1, <1>2, <1>3, <1>4, <1>5, <1>6, <1>7 DEF Next

\* The inductive invariant of the symbol table and its hash table: types, a key
\* is in one place and near its home, open scopes have their own numbers, and
\* the table and the stash have the puts of a symbol in their order.
THEOREM SymTableInvariant == Spec => []Inv
<1>1. Init => Inv
  BY InvInit
<1>2. Inv /\ [Next]_vars => Inv'
  BY InvNext
<1> QED
  BY <1>1, <1>2, PTL DEF Spec

-----------------------------------------------------------------------------
(* What the invariant says of the hash table *)

LEMMA AtMostOne ==
  ASSUME NEW S, \A x, y \in S : x = y
  PROVE  Cardinality(S) \in {0, 1} /\ (Cardinality(S) = 1 => S # {})
<1>1. CASE S = {}
  BY <1>1, FS_EmptySet
<1>2. CASE S # {}
  <2>1. PICK x \in S : S = {x}
    BY <1>2
  <2> QED
    BY <2>1, FS_Singleton
<1> QED
  BY <1>1, <1>2

\* A symbol is in one cell of the hash table or waits once to be added to it
\* (_add and _grow, str_map.h), however the table was filled and emptied.
THEOREM OnePlace == Spec => []InOnePlace
<1>1. Inv => InOnePlace
  <2> SUFFICES ASSUME Inv, NEW s \in Symbol
               PROVE  HashTable!Cardinality(HashTable!Cells(s)) +
                      HashTable!Cardinality(HashTable!Waiting(s)) <= 1
    BY DEF InOnePlace, HashTable!InOnePlace
  <2> DEFINE C == HashTable!Cells(s)
             W == HashTable!Waiting(s)
  <2>1. \A i, j \in C : i = j
    BY DEF Inv, TableInv, KeysApart, HashTable!Cells
  <2>2. \A n, m \in W : n = m
    BY DEF Inv, TableInv, KeysApart, HashTable!Waiting
  <2>3. C = {} \/ W = {}
    BY DEF Inv, TableInv, KeysApart, HashTable!Cells, HashTable!Waiting
  <2> HIDE DEF C, W
  <2>4. Cardinality(C) + Cardinality(W) <= 1
    <3>1. /\ Cardinality(C) \in {0, 1} /\ (Cardinality(C) = 1 => C # {})
          /\ Cardinality(W) \in {0, 1} /\ (Cardinality(W) = 1 => W # {})
      BY <2>1, <2>2, AtMostOne
    <3> QED
      BY <2>3, <3>1
  <2> QED
    BY <2>4, SameCardinality DEF C, W
<1> QED
  BY <1>1, SymTableInvariant, PTL

\* What _find says of a symbol is whether it is in the hash table (str_map.h:87).
THEOREM FindRight == Spec => []FindIsRight
<1>1. Inv => FindIsRight
  BY FindFinds DEF Inv, FindIsRight, HashTable!FindIsRight
<1> QED
  BY <1>1, SymTableInvariant, PTL

LEMMA IndicesApart ==
  ASSUME NEW n \in Nat, NEW h \in Nat, NEW i \in Nat, NEW j \in Nat, i < j, j < n
  PROVE  (h + i) % n # (h + j) % n
<1> DEFINE q(x) == x \div n
           r(x) == x % n
<1>1. \A x \in Nat : q(x) \in Nat /\ r(x) \in 0 .. n - 1 /\ x = n * q(x) + r(x)
  OBVIOUS
<1>2. PICK a \in Nat : h + i = n * a + r(h + i)
  <2>1. h + i \in Nat
    OBVIOUS
  <2> HIDE DEF q, r
  <2> QED
    BY <1>1, <2>1
<1>3. PICK b \in Nat : h + j = n * b + r(h + j)
  <2>1. h + j \in Nat
    OBVIOUS
  <2> HIDE DEF q, r
  <2> QED
    BY <1>1, <2>1
<1> SUFFICES ASSUME r(h + i) = r(h + j) PROVE FALSE
  OBVIOUS
<1>4. r(h + i) \in Nat /\ r(h + j) \in Nat
  BY <1>1
<1> HIDE DEF r, q
<1>5. n * b - n * a = j - i
  BY <1>2, <1>3, <1>4
<1>6. CASE b <= a
  <2>1. n * b <= n * a
    BY <1>6
  <2> QED
    BY <1>5, <2>1
<1>7. CASE b >= a + 1
  <2>1. n * b >= n * (a + 1) /\ n * (a + 1) = n * a + n
    BY <1>7
  <2> QED
    BY <1>5, <2>1
<1> QED
  BY <1>6, <1>7

\* _find ends (str_map.h:91): it comes to the key, or to a cell that it counts,
\* if no symbol has the hash 0 of an empty cell.
THEOREM SearchesEnd ==
  ASSUME \A s \in Symbol : Hash[s] # 0
  PROVE  Spec => []FindEnds
<1>1. Inv => FindEnds
  <2> SUFFICES ASSUME Inv, NEW s \in Symbol,
                      \A i \in 0 .. table_size - 1 : ~HashTable!Differs(s, i)
               PROVE  FALSE
    BY DEF FindEnds, HashTable!FindEnds
  <2> USE DEF Inv, TableInv
  <2>1. MaxProbe \in 0 .. table_size - 1 /\ MaxProbe \in Nat
    BY ConstantFacts DEF TableType
  <2> DEFINE c == HashTable!Index(s, MaxProbe)
  <2>2. c \in DOMAIN table /\ Hash[table[c].key] = Hash[s]
    BY <2>1, IndexInTable DEF HashTable!Differs
  <2>3. table[c].key \in Symbol
    BY <2>2, ConstantFacts DEF TableType, Pair, HashTable!Empty
  <2>4. PICK d \in 0 .. MaxProbe - 1 : c = HashTable!Index(table[c].key, d)
    BY <2>2, <2>3 DEF NearHome
  <2>5. (Hash[s] + MaxProbe) % table_size = (Hash[s] + d) % table_size
    BY <2>2, <2>4 DEF HashTable!Index
  <2>6. Hash[s] \in Nat /\ d \in Nat /\ d < MaxProbe /\ MaxProbe < table_size /\ table_size \in Nat
    BY <2>1, ConstantFacts DEF TableType
  <2> QED
    BY <2>1, <2>5, <2>6, IndicesApart
<1> QED
  BY <1>1, SymTableInvariant, PTL

-----------------------------------------------------------------------------
LEMMA HashTableSteps ==
  ASSUME Inv, [Next]_vars
  PROVE  /\ [HashTable!Contents!Next]_(HashTable!Content)
         /\ HashTable!Add \/ HashTable!Grow => UNCHANGED HashTable!Content
<1>1. CASE EnterScope
  BY <1>1, InvEnterScope
<1>2. ASSUME NEW s \in Symbol, NEW value \in Value, Put(s, value)
      PROVE  [HashTable!Contents!Next]_(HashTable!Content)
  BY <1>2, PutContent DEF HashTable!Contents!Next, HashTable!Contents!Set
<1>3. CASE Place
  BY <1>3, PlaceContent
<1>4. CASE ExitScope
  BY <1>4, InvExitScope
<1>5. ASSUME PutBack
      PROVE  [HashTable!Contents!Next]_(HashTable!Content)
  <2>1. PICK s \in Symbol, e \in Entry \cup {NoEntry} :
          HashTable!Content' = [HashTable!Content EXCEPT ![s] = e]
    <3>1. /\ stash[Last].symbol \in Symbol /\ stash[Last].entry \in Entry \cup {NoEntry}
          /\ HashTable!Content' =
               [HashTable!Content EXCEPT ![stash[Last].symbol] = stash[Last].entry]
      BY <1>5, PutBackContent
    <3> QED
      BY <3>1
  <2>2. HashTable!Contents!Next
    BY <2>1 DEF HashTable!Contents!Next, HashTable!Contents!Set, HashTable!Contents!Remove
  <2> QED
    BY <2>2
<1>6. CASE LeaveScope
  BY <1>6, InvLeaveScope
<1>7. CASE UNCHANGED vars
  BY <1>7, TableStutter DEF vars, Inv
<1>8. HashTable!Add \/ HashTable!Grow => UNCHANGED HashTable!Content
  BY AddStep, GrowStep DEF Inv
<1> QED
  BY <1>1, <1>2, <1>3, <1>4, <1>5, <1>6, <1>7, <1>8 DEF Next

\* The hash table is a map (str_map.h): set and remove change what they are
\* called for, and _add and _grow, which move everything, change nothing.
THEOREM TableIsMap == Spec => MapSpec
<1>1. Init => HashTable!Contents!Init
  BY InitTable DEF Init, HashTable!Contents!Init
<1>2. Inv /\ [Next]_vars =>
        /\ [HashTable!Contents!Next]_(HashTable!Content)
        /\ [HashTable!Add \/ HashTable!Grow => UNCHANGED HashTable!Content]_(HashTable!vars)
  BY HashTableSteps
<1> QED
  BY <1>1, <1>2, SymTableInvariant, PTL
  DEF Spec, MapSpec, HashTable!MapSpec, HashTable!Contents!Spec

-----------------------------------------------------------------------------
(* The scopes *)

Rows == {[s \in Declared(d) |-> EntryIn(d, s).value] : d \in 1 .. Depth}

LEMMA ScopeFacts ==
  ASSUME StashType
  PROVE  /\ IsFiniteSet(Markers) /\ Cardinality(Markers) \in Nat
         /\ \A k \in Nat :
              /\ ScopeOf(k) \in 1 .. 1 + Cardinality(Markers)
              /\ ScopeOf(k) = 1 + Cardinality(Markers) <=> \A m \in Markers : m < k
         /\ Depth \in Nat /\ Depth >= 1
         /\ exiting => Depth = Cardinality(Markers)
         /\ ~exiting => Depth = 1 + Cardinality(Markers)
         /\ Markers # {} /\ ~exiting => Depth > 1
<1>1. Markers \in SUBSET (1 .. Last) /\ IsFiniteSet(1 .. Last)
  BY StashDomain, FS_Interval
<1>2. IsFiniteSet(Markers) /\ Cardinality(Markers) \in Nat
  <2>1. IsFiniteSet(Markers)
    BY <1>1, FS_Subset
  <2> QED
    BY <2>1, FS_CardinalityType
<1>3. ASSUME NEW k \in Nat
      PROVE  /\ ScopeOf(k) \in 1 .. 1 + Cardinality(Markers)
             /\ ScopeOf(k) = 1 + Cardinality(Markers) <=> \A m \in Markers : m < k
  <2> DEFINE B == {m \in Markers : m < k}
  <2>1. B \in SUBSET Markers /\ (B = Markers <=> \A m \in Markers : m < k)
    OBVIOUS
  <2>2. ScopeOf(k) = 1 + Cardinality(B)
    BY DEF ScopeOf
  <2> HIDE DEF B
  <2>3. IsFiniteSet(B) /\ Cardinality(B) <= Cardinality(Markers)
        /\ (Cardinality(B) = Cardinality(Markers) => B = Markers)
    BY <1>2, <2>1, FS_Subset
  <2>4. Cardinality(B) \in Nat
    BY <2>3, FS_CardinalityType
  <2> QED
    BY <1>2, <2>1, <2>2, <2>3, <2>4
<1>4. Markers # {} => Cardinality(Markers) > 0
  BY <1>2, FS_EmptySet
<1>5. exiting => Markers # {}
  BY StashDomain DEF StashType
<1> QED
  BY <1>2, <1>3, <1>4, <1>5 DEF Depth

LEMMA ScopesAreRows ==
  ASSUME StashType
  PROVE  /\ ScopesNow \in Seq(Rows) /\ Len(ScopesNow) = Depth
         /\ DOMAIN ScopesNow = 1 .. Depth
         /\ \A d \in 1 .. Depth :
              ScopesNow[d] = [s \in Declared(d) |-> EntryIn(d, s).value]
<1>1. Depth \in Nat
  BY ScopeFacts
<1>2. \A d \in 1 .. Depth : [s \in Declared(d) |-> EntryIn(d, s).value] \in Rows
  BY DEF Rows
<1> QED
  BY <1>1, <1>2 DEF ScopesNow

LEMMA InnerFacts ==
  ASSUME StashType, NEW d, NEW s
  PROVE  LET inner == {k \in Hidings(s) : ScopeOf(k) > d}
         IN  inner # {} => Min(inner) \in inner /\ \A k \in inner : Min(inner) <= k
<1>1. Hidings(s) \in SUBSET Nat
  BY StashDomain
<1> QED
  BY <1>1, MinIsLeast

\* has and get find the declaration of the innermost scope that has one
\* (sym_table.h:38, 78), however often the symbol was put and hidden.
THEOREM LookupsFindInnermost == Spec => []LookupFindsInnermost
<1>1. Inv => LookupFindsInnermost
  <2> SUFFICES ASSUME Inv, Idle, NEW s \in Symbol
               PROVE  Promise!Lookup(s) = IF has(s) THEN get(s) ELSE NoValue
    BY DEF LookupFindsInnermost
  <2> USE DEF Inv, StashInv
  <2>1. HashTable!Content[s] = HashTable!ContentOf(s) /\ ~exiting
    BY ReadsContent DEF Idle
  <2>2. (IF has(s) THEN get(s) ELSE NoValue) = HashTable!ContentOf(s).value
    BY <2>1, ReadsContent DEF Idle, has, get, NoEntry
  <2>3. \A k \in Hidings(s) : ScopeOf(k) \in DOMAIN ScopesNow /\ s \in Declared(ScopeOf(k))
    <3> SUFFICES ASSUME NEW k \in Hidings(s)
                 PROVE  ScopeOf(k) \in DOMAIN ScopesNow /\ s \in Declared(ScopeOf(k))
      OBVIOUS
    <3>0. Depth = 1 + Cardinality(Markers)
      BY ScopeFacts DEF Idle
    <3>1. ScopeOf(k) \in 1 .. Depth
      <4>1. ScopeOf(k) \in 1 .. 1 + Cardinality(Markers)
        BY ScopeFacts, StashDomain
      <4> QED
        BY <3>0, <4>1
    <3>2. s \in Declared(ScopeOf(k))
      BY DEF Declared
    <3> QED
      BY <3>1, <3>2, ScopesAreRows
  <2>4. \A d \in DOMAIN ScopesNow :
          /\ DOMAIN ScopesNow[d] = Declared(d)
          /\ s \in Declared(d) => ScopesNow[d][s] = EntryIn(d, s).value
    BY ScopesAreRows
  <2>5. CASE \E n \in DOMAIN ScopesNow : s \in DOMAIN ScopesNow[n]
    <3> DEFINE D == {n \in DOMAIN ScopesNow : s \in DOMAIN ScopesNow[n]}
               Is(k) == /\ s \in DOMAIN ScopesNow[k]
                        /\ \A j \in DOMAIN ScopesNow : s \in DOMAIN ScopesNow[j] => j <= k
    <3>1. \E k \in DOMAIN ScopesNow : Is(k)
      <4> DEFINE N == {Depth - n : n \in D}
      <4>1. Depth \in Nat /\ DOMAIN ScopesNow = 1 .. Depth
        BY ScopeFacts, ScopesAreRows
      <4>2. N \in SUBSET Nat /\ N # {}
        BY <2>5, <4>1
      <4>3. PICK x \in N : \A y \in N : x <= y
        <5> HIDE DEF N
        <5> QED
          BY <4>2, LeastNatural
      <4>4. PICK k \in D : x = Depth - k
        BY <4>3
      <4>5. \A j \in D : Depth - j \in N /\ j \in 1 .. Depth
        BY <4>1
      <4>6. \A j \in D : j <= k
        <5> SUFFICES ASSUME NEW j \in D PROVE j <= k
          OBVIOUS
        <5>1. x <= Depth - j /\ j \in 1 .. Depth /\ k \in 1 .. Depth
          BY <4>3, <4>4, <4>5
        <5> HIDE DEF D, N
        <5> QED
          BY <4>1, <4>4, <5>1
      <4> QED
        BY <4>4, <4>6
    <3> DEFINE n == CHOOSE k \in DOMAIN ScopesNow : Is(k)
    <3>2. n \in DOMAIN ScopesNow /\ Is(n)
      BY <3>1
    <3>3. Promise!Lookup(s) = ScopesNow[n][s]
      BY <2>5 DEF Promise!Lookup, Promise!Declares
    <3> HIDE DEF n
    <3>4. ScopesNow[n][s] = EntryIn(n, s).value
      BY <2>4, <3>2
    <3>5. {k \in Hidings(s) : ScopeOf(k) > n} = {}
      <4> SUFFICES ASSUME NEW k \in Hidings(s), ScopeOf(k) > n PROVE FALSE
        OBVIOUS
      <4>1. ScopeOf(k) \in DOMAIN ScopesNow /\ s \in DOMAIN ScopesNow[ScopeOf(k)]
        BY <2>3, <2>4
      <4>2. ScopeOf(k) <= n
        BY <3>2, <4>1
      <4>3. ScopeOf(k) \in Nat /\ n \in Nat
        BY <3>2, <4>1, ScopesAreRows
      <4> QED
        BY <4>2, <4>3
    <3>6. EntryIn(n, s) = HashTable!ContentOf(s)
      BY <3>5 DEF EntryIn
    <3> QED
      BY <2>2, <3>3, <3>4, <3>6
  <2>6. CASE ~\E n \in DOMAIN ScopesNow : s \in DOMAIN ScopesNow[n]
    <3>1. Promise!Lookup(s) = NoValue
      BY <2>6 DEF Promise!Lookup, Promise!Declares
    <3>2. Hidings(s) = {}
      BY <2>3, <2>4, <2>6
    <3>3. HashTable!Content[s] = NoEntry
      BY <3>2 DEF TableHasLast
    <3> QED
      BY <2>1, <2>2, <3>1, <3>3 DEF NoEntry
  <2> QED
    BY <2>5, <2>6
<1> QED
  BY <1>1, SymTableInvariant, PTL

\* in_current_scope (sym_table.h:52) tells whether the innermost scope has
\* declared a symbol, though it compares numbers and the outermost two scopes
\* have the same one.
THEOREM CurrentIsInnermost == Spec => []CurrentScopeIsInnermost
<1>1. Inv => CurrentScopeIsInnermost
  <2> SUFFICES ASSUME Inv, Idle, NEW s \in Symbol
               PROVE  in_current_scope(s) <=> Promise!Declares(Promise!Innermost, s)
    BY DEF CurrentScopeIsInnermost
  <2> USE DEF Inv, StashInv
  <2>1. /\ ~exiting /\ Depth = 1 + Cardinality(Markers)
        /\ Depth \in 1 .. Depth
    BY ScopeFacts DEF Idle
  <2>2. Promise!Declares(Promise!Innermost, s) <=>
          \E k \in Hidings(s) : \A m \in Markers : m < k
    <3>1. Promise!Innermost = Depth
      BY ScopesAreRows DEF Promise!Innermost
    <3>2. DOMAIN ScopesNow[Depth] = Declared(Depth)
      BY <2>1, ScopesAreRows
    <3>3. s \in Declared(Depth) <=> \E k \in Hidings(s) : \A m \in Markers : m < k
      <4>1. \A k \in Hidings(s) : ScopeOf(k) = Depth <=> \A m \in Markers : m < k
        <5> TAKE k \in Hidings(s)
        <5>1. k \in Nat
          BY StashDomain
        <5> QED
          BY <2>1, <5>1, ScopeFacts
      <4> QED
        BY <4>1 DEF Declared
    <3> QED
      BY <3>1, <3>2, <3>3 DEF Promise!Declares
  <2>3. in_current_scope(s) <=>
          HashTable!Content[s] # NoEntry /\ HashTable!Content[s].scope = scope_id
    BY ReadsContent DEF Idle, in_current_scope
  <2>4. CASE Hidings(s) = {} /\ HashTable!Content[s] = NoEntry
    BY <2>2, <2>3, <2>4
  <2>5. CASE \E k \in Hidings(s) :
               /\ \A j \in Hidings(s) : j <= k
               /\ HashTable!Content[s] \in Entry
               /\ InScope(k, HashTable!Content[s].scope)
    <3> DEFINE id == HashTable!Content[s].scope
    <3>1. PICK k \in Hidings(s) : /\ \A j \in Hidings(s) : j <= k
                                 /\ HashTable!Content[s] \in Entry /\ InScope(k, id)
      BY <2>5
    <3>2. /\ Last \in Nat /\ Markers \subseteq 1 .. Last /\ Hidings(s) \subseteq 1 .. Last
          /\ \A m \in Markers : stash[m].scope \in Nat
      BY StashDomain
    <3>3. in_current_scope(s) <=> id = scope_id
      BY <2>3, <3>1, ConstantFacts
    <3> HIDE DEF id
    <3>4. (\E j \in Hidings(s) : \A m \in Markers : m < j) <=> \A m \in Markers : m < k
      <4>1. ASSUME NEW j \in Hidings(s), NEW m \in Markers, m < j PROVE m < k
        <5>1. j <= k /\ j \in Nat /\ k \in Nat /\ m \in Nat
          BY <3>1, <3>2
        <5> QED
          BY <4>1, <5>1
      <4> QED
        BY <4>1
    <3>5. id = scope_id <=> \A m \in Markers : m < k
      <4>1. CASE (\A m \in Markers : m < k) /\ scope_id = id
        BY <4>1
      <4>2. CASE \E m \in Markers : k < m /\ stash[m].scope = id
        <5>1. PICK m \in Markers : k < m /\ stash[m].scope = id
          BY <4>2
        <5>2. m > 1 /\ m \in Nat /\ k \in Nat
          BY <3>2, <5>1
        <5>3. stash[m].scope < scope_id /\ scope_id \in Nat /\ stash[m].scope \in Nat
          BY <3>2, <5>2 DEF ScopeIds, StashType
        <5> QED
          BY <5>1, <5>2, <5>3
      <4> QED
        BY <3>1, <4>1, <4>2 DEF InScope
    <3> QED
      BY <2>2, <3>3, <3>4, <3>5
  <2> QED
    BY <2>4, <2>5 DEF TableHasLast
<1> QED
  BY <1>1, SymTableInvariant, PTL

-----------------------------------------------------------------------------
(* The refinement: what each action does to the scopes *)

ScopesHaveRows ==
  /\ ScopesNow \in Seq(Rows) /\ Len(ScopesNow) = Depth
  /\ DOMAIN ScopesNow = 1 .. Depth
  /\ \A d \in 1 .. Depth :
       ScopesNow[d] = [s \in Declared(d) |-> EntryIn(d, s).value]

LEMMA ScopesAreRowsNext ==
  StashType' => ScopesHaveRows'
<1>1. StashType => ScopesHaveRows
  BY ScopesAreRows DEF ScopesHaveRows
<1> QED
  BY <1>1, PTL

\* A scope that declares the same symbols as before, of which no item that an
\* inner scope has hidden is gone or new.
LEMMA RowKept ==
  ASSUME StashType, StashType', NEW d \in 1 .. Depth, d \in 1 .. Depth',
         Declared(d)' = Declared(d),
         \A s \in Declared(d) : EntryIn(d, s)' = EntryIn(d, s)
  PROVE  ScopesNow'[d] = ScopesNow[d]
BY ScopesAreRows, ScopesAreRowsNext DEF ScopesHaveRows

LEMMA EntryKept ==
  ASSUME StashType, NEW d, NEW s \in Symbol,
         {k \in Hidings(s) : ScopeOf(k) > d}' = {k \in Hidings(s) : ScopeOf(k) > d},
         \A k \in Hidings(s) : ScopeOf(k) > d => stash'[k] = stash[k],
         HashTable!ContentOf(s)' = HashTable!ContentOf(s)
  PROVE  EntryIn(d, s)' = EntryIn(d, s)
<1> DEFINE inner == {k \in Hidings(s) : ScopeOf(k) > d}
<1>1. CASE inner = {}
  BY <1>1 DEF EntryIn
<1>2. CASE inner # {}
  <2>1. Min(inner) \in inner
    BY <1>2, InnerFacts
  <2>2. stash'[Min(inner)] = stash[Min(inner)]
    BY <2>1
  <2>3. EntryIn(d, s) = stash[Min(inner)].entry
    BY <1>2 DEF EntryIn
  <2>4. EntryIn(d, s)' = stash'[Min(inner)].entry
    BY <1>2 DEF EntryIn
  <2> QED
    BY <2>2, <2>3, <2>4
<1> QED
  BY <1>1, <1>2

LEMMA ContentKept ==
  ASSUME NEW s \in Symbol, HashTable!Content'[s] = HashTable!Content[s]
  PROVE  HashTable!ContentOf(s)' = HashTable!ContentOf(s)
BY DEF HashTable!Content

\* A step that leaves the markers, the items and the content alone.
LEMMA ScopesKept ==
  ASSUME Inv, Inv', UNCHANGED <<stash, exiting>>, HashTable!Content' = HashTable!Content
  PROVE  ScopesNow' = ScopesNow
<1>1. Markers' = Markers /\ \A s : Hidings(s)' = Hidings(s)
  BY DEF Markers, Hidings, IsMarker
<1>2. \A k : ScopeOf(k)' = ScopeOf(k)
  BY <1>1 DEF ScopeOf
<1>3. Depth' = Depth /\ \A d : Declared(d)' = Declared(d)
  BY <1>1, <1>2 DEF Depth, Declared
<1>4. \A s \in Symbol : HashTable!ContentOf(s)' = HashTable!ContentOf(s)
  BY ContentKept
<1>5. \A d : \A s \in Symbol : EntryIn(d, s)' = EntryIn(d, s)
  BY <1>1, <1>2, <1>4, EntryKept DEF Inv, StashInv
<1>6. \A d : \A s \in Declared(d) : EntryIn(d, s)' = EntryIn(d, s)
  BY <1>5 DEF Declared
<1> QED
  BY <1>3, <1>6 DEF ScopesNow

LEMMA EnterScopeIsEnter ==
  ASSUME Inv, Inv', EnterScope
  PROVE  Promise!EnterScope
<1> USE DEF Inv, StashInv
<1>1. /\ stash' = Append(stash, Marker(scope_id)) /\ ~exiting /\ ~exiting' /\ scope_id \in Nat
      /\ HashTable!Content' = HashTable!Content
  BY InvEnterScope DEF EnterScope, Idle, StashType
<1>2. /\ Last \in Nat /\ \A s : Hidings(s) \subseteq 1 .. Last
      /\ Markers \subseteq 1 .. Last
  BY StashDomain
<1>3. /\ Markers' = Markers \cup {Last + 1} /\ \A s : Hidings(s)' = Hidings(s)
      /\ \A k \in 1 .. Last : stash'[k] = stash[k]
  BY <1>1, PushMarker
<1>4. \A k \in 1 .. Last : ScopeOf(k)' = ScopeOf(k)
  <2> SUFFICES ASSUME NEW k \in 1 .. Last PROVE ScopeOf(k)' = ScopeOf(k)
    OBVIOUS
  <2>1. {m \in Markers' : m < k} = {m \in Markers : m < k}
    BY <1>2, <1>3
  <2> QED
    BY <2>1 DEF ScopeOf
<1>5. /\ Depth \in Nat /\ Depth >= 1 /\ Depth = 1 + Cardinality(Markers)
      /\ Cardinality(Markers) \in Nat /\ IsFiniteSet(Markers)
  BY <1>1, ScopeFacts
<1>6. Depth' = Depth + 1
  <2>1. Last + 1 \notin Markers
    BY <1>2
  <2>2. Cardinality(Markers \cup {Last + 1}) = Cardinality(Markers) + 1
    BY <1>5, <2>1, FS_AddElement
  <2>3. Depth' = 1 + Cardinality(Markers')
    BY <1>1, <1>3, <1>5, <2>2 DEF Depth
  <2> QED
    BY <1>3, <1>5, <2>2, <2>3
<1>7. \A d : Declared(d)' = Declared(d)
  BY <1>2, <1>3, <1>4 DEF Declared
<1>8. Declared(Depth + 1) = {}
  <2>1. \A s : \A k \in Hidings(s) : ScopeOf(k) \in 1 .. Depth
    <3> TAKE s
    <3> TAKE k \in Hidings(s)
    <3>1. k \in Nat
      BY <1>2
    <3> QED
      BY <1>5, <3>1, ScopeFacts
  <2>2. \A s : \A k \in Hidings(s) : ScopeOf(k) # Depth + 1
    BY <1>5, <2>1
  <2> QED
    BY <2>2 DEF Declared
<1>9. \A d : \A s \in Symbol : EntryIn(d, s)' = EntryIn(d, s)
  <2> SUFFICES ASSUME NEW d, NEW s \in Symbol PROVE EntryIn(d, s)' = EntryIn(d, s)
    OBVIOUS
  <2>1. {k \in Hidings(s) : ScopeOf(k) > d}' = {k \in Hidings(s) : ScopeOf(k) > d}
    BY <1>2, <1>3, <1>4
  <2>2. \A k \in Hidings(s) : stash'[k] = stash[k]
    BY <1>2, <1>3
  <2>3. HashTable!ContentOf(s)' = HashTable!ContentOf(s)
    BY <1>1, ContentKept
  <2> QED
    BY <2>1, <2>2, <2>3, EntryKept
<1>10. \A d \in 1 .. Depth : ScopesNow'[d] = ScopesNow[d]
  <2> SUFFICES ASSUME NEW d \in 1 .. Depth PROVE ScopesNow'[d] = ScopesNow[d]
    OBVIOUS
  <2>1. d \in 1 .. Depth'
    BY <1>5, <1>6
  <2>2. \A s \in Declared(d) : EntryIn(d, s)' = EntryIn(d, s)
    BY <1>9 DEF Declared
  <2> QED
    BY <1>7, <2>1, <2>2, RowKept
<1>11. ScopesNow'[Depth + 1] = Promise!NoSymbols
  <2>1. \A d : d = Depth + 1 => Declared(d)' = {}
    BY <1>7, <1>8
  <2>2. \A d \in 1 .. Depth' : Declared(d)' = {} => ScopesNow'[d] = [s \in {} |-> NoValue]
    BY ScopesAreRowsNext DEF ScopesHaveRows
  <2> QED
    BY <1>5, <1>6, <2>1, <2>2 DEF Promise!NoSymbols
<1>12. /\ ScopesNow \in Seq(Rows) /\ Len(ScopesNow) = Depth
       /\ ScopesNow' \in Seq(Rows') /\ Len(ScopesNow') = Depth + 1
  BY <1>6, ScopesAreRows, ScopesAreRowsNext DEF ScopesHaveRows
<1> QED
  BY <1>5, <1>10, <1>11, <1>12 DEF Promise!EnterScope

\* An item that comes after the others of a symbol is not the first one of them.
LEMMA LaterItem ==
  ASSUME NEW S \in SUBSET Nat, NEW k \in Nat, S # {}, \A j \in S : j < k
  PROVE  Min(S \cup {k}) = Min(S)
<1> DEFINE m == Min(S)
           n == Min(S \cup {k})
<1>1. m \in S /\ \A j \in S : m <= j
  BY MinIsLeast
<1>2. n \in S \cup {k} /\ \A j \in S \cup {k} : n <= j
  <2>1. S \cup {k} \in SUBSET Nat /\ S \cup {k} # {}
    OBVIOUS
  <2> QED
    BY <2>1, MinIsLeast
<1> HIDE DEF m, n
<1>3. m = n
  BY <1>1, <1>2
<1> QED
  BY <1>3 DEF m, n

LEMMA PutIsPut ==
  ASSUME Inv, Inv', NEW s \in Symbol, NEW value \in Value, Put(s, value)
  PROVE  Promise!Put(s, value)
<1> USE DEF Inv, StashInv
<1> DEFINE e == [value |-> value, scope |-> scope_id]
<1>1. /\ HashTable!Content' = [HashTable!Content EXCEPT ![s] = e]
      /\ Entered(s) \in Entry \cup {NoEntry} /\ Entered(s) = HashTable!Content[s]
  BY PutContent
<1>2. /\ HashTable!ContentOf(s)' = e /\ HashTable!ContentOf(s) = Entered(s)
      /\ \A t \in Symbol \ {s} : HashTable!ContentOf(t)' = HashTable!ContentOf(t)
  BY <1>1 DEF HashTable!Content
<1>3. e.value = value
  OBVIOUS
<1> HIDE DEF e
<1>4. stash' = Append(stash, Hidden(s, Entered(s))) /\ ~exiting /\ ~exiting'
  BY DEF Put, Idle
<1>5. /\ Last \in Nat /\ Markers \subseteq 1 .. Last /\ \A t : Hidings(t) \subseteq 1 .. Last
  BY StashDomain
<1>6. /\ \A k \in 1 .. Last : stash'[k] = stash[k]
      /\ stash'[Last + 1] = Hidden(s, Entered(s))
      /\ Markers' = Markers
      /\ Hidings(s)' = Hidings(s) \cup {Last + 1}
      /\ \A t : t # s => Hidings(t)' = Hidings(t)
  BY <1>1, <1>4, PushHidden
<1>7. \A k : ScopeOf(k)' = ScopeOf(k)
  BY <1>6 DEF ScopeOf
<1>8. /\ Depth \in Nat /\ Depth >= 1 /\ Depth = 1 + Cardinality(Markers)
      /\ Depth' = Depth /\ \A k \in Nat : ScopeOf(k) \in 1 .. Depth
      /\ ScopeOf(Last + 1) = Depth
  <2>1. /\ Depth \in Nat /\ Depth >= 1 /\ Depth = 1 + Cardinality(Markers)
        /\ \A k \in Nat : ScopeOf(k) \in 1 .. 1 + Cardinality(Markers)
    BY <1>4, ScopeFacts
  <2>2. Depth' = Depth
    BY <1>4, <1>6 DEF Depth
  <2>3. ScopeOf(Last + 1) = 1 + Cardinality(Markers)
    <3>1. Last + 1 \in Nat /\ \A m \in Markers : m < Last + 1
      BY <1>5
    <3> QED
      BY <3>1, ScopeFacts
  <2> QED
    BY <2>1, <2>2, <2>3
<1>9. \A d \in 1 .. Depth - 1 : Declared(d)' = Declared(d)
  <2> SUFFICES ASSUME NEW d \in 1 .. Depth - 1, NEW t \in Symbol
               PROVE  (\E k \in Hidings(t)' : ScopeOf(k)' = d) <=> \E k \in Hidings(t) : ScopeOf(k) = d
    BY DEF Declared
  <2>1. d # Depth
    BY <1>8
  <2> QED
    BY <1>6, <1>7, <1>8, <2>1
<1>10. \A d : d = Depth => Declared(d)' = Declared(d) \cup {s}
  <2> SUFFICES ASSUME NEW d, d = Depth PROVE Declared(d)' = Declared(d) \cup {s}
    OBVIOUS
  <2>1. ASSUME NEW t \in Symbol \ {s}
        PROVE  (\E k \in Hidings(t)' : ScopeOf(k)' = d) <=> \E k \in Hidings(t) : ScopeOf(k) = d
    BY <1>6, <1>7
  <2>2. \E k \in Hidings(s)' : ScopeOf(k)' = d
    BY <1>6, <1>7, <1>8
  <2> QED
    BY <2>1, <2>2 DEF Declared
<1>11. \A d \in 1 .. Depth - 1 : \A t \in Symbol : EntryIn(d, t)' = EntryIn(d, t)
  <2> SUFFICES ASSUME NEW d \in 1 .. Depth - 1, NEW t \in Symbol
               PROVE  EntryIn(d, t)' = EntryIn(d, t)
    OBVIOUS
  <2> DEFINE inner == {k \in Hidings(t) : ScopeOf(k) > d}
  <2>1. CASE t # s
    <3>1. {k \in Hidings(t) : ScopeOf(k) > d}' = inner
      BY <1>6, <1>7, <2>1
    <3>2. \A k \in Hidings(t) : stash'[k] = stash[k]
      BY <1>5, <1>6
    <3> QED
      BY <1>2, <2>1, <3>1, <3>2, EntryKept
  <2>2. CASE t = s
    <3>1. ScopeOf(Last + 1) > d
      BY <1>8
    <3>2. {k \in Hidings(t) : ScopeOf(k) > d}' = inner \cup {Last + 1}
      BY <1>6, <1>7, <2>2, <3>1
    <3>3. EntryIn(d, t)' = stash'[Min(inner \cup {Last + 1})].entry
      BY <3>2 DEF EntryIn
    <3>4. inner \in SUBSET Nat /\ Last + 1 \in Nat /\ \A j \in inner : j < Last + 1
      BY <1>5
    <3>5. CASE inner = {}
      <4>1. inner \cup {Last + 1} \in SUBSET Nat /\ inner \cup {Last + 1} # {}
        BY <3>4
      <4>2. Min(inner \cup {Last + 1}) = Last + 1
        BY <3>5, <4>1, MinIsLeast
      <4>3. EntryIn(d, t)' = Entered(s)
        BY <1>6, <3>3, <4>2 DEF Hidden
      <4> QED
        BY <1>2, <2>2, <3>5, <4>3 DEF EntryIn
    <3>6. CASE inner # {}
      <4>1. Min(inner \cup {Last + 1}) = Min(inner) /\ Min(inner) \in inner
        <5> HIDE DEF inner
        <5> QED
          BY <3>4, <3>6, LaterItem, MinIsLeast
      <4>2. stash'[Min(inner)] = stash[Min(inner)]
        BY <1>5, <1>6, <4>1
      <4>3. EntryIn(d, t) = stash[Min(inner)].entry
        BY <3>6 DEF EntryIn
      <4> QED
        BY <3>3, <4>1, <4>2, <4>3
    <3> QED
      BY <3>5, <3>6
  <2> QED
    BY <2>1, <2>2
<1>12. \A d, t : d = Depth => /\ EntryIn(d, t) = HashTable!ContentOf(t)
                             /\ EntryIn(d, t)' = HashTable!ContentOf(t)'
  <2> SUFFICES ASSUME NEW d, NEW t, d = Depth
               PROVE  /\ EntryIn(d, t) = HashTable!ContentOf(t)
                      /\ EntryIn(d, t)' = HashTable!ContentOf(t)'
    OBVIOUS
  <2>1. \A k \in Nat : ~(ScopeOf(k) > d)
    BY <1>8
  <2>2. Hidings(t) \subseteq Nat /\ Hidings(t)' \subseteq Nat
    BY <1>5, <1>6
  <2>3. {k \in Hidings(t) : ScopeOf(k) > d} = {} /\ {k \in Hidings(t) : ScopeOf(k) > d}' = {}
    BY <1>7, <2>1, <2>2
  <2> QED
    BY <2>3 DEF EntryIn
<1>13. \A d \in 1 .. Depth - 1 : ScopesNow'[d] = ScopesNow[d]
  <2> SUFFICES ASSUME NEW d \in 1 .. Depth - 1 PROVE ScopesNow'[d] = ScopesNow[d]
    OBVIOUS
  <2>1. d \in 1 .. Depth /\ d \in 1 .. Depth'
    BY <1>8
  <2>2. \A t \in Declared(d) : EntryIn(d, t)' = EntryIn(d, t)
    BY <1>11 DEF Declared
  <2> QED
    BY <1>9, <2>1, <2>2, RowKept
<1>14. \A d : d = Depth =>
         ScopesNow'[d] = [t \in DOMAIN ScopesNow[d] \cup {s} |->
                            IF t = s THEN value ELSE ScopesNow[d][t]]
  <2> SUFFICES ASSUME NEW d, d = Depth
               PROVE  ScopesNow'[d] = [t \in DOMAIN ScopesNow[d] \cup {s} |->
                                         IF t = s THEN value ELSE ScopesNow[d][t]]
    OBVIOUS
  <2>1. d \in 1 .. Depth /\ d \in 1 .. Depth'
    BY <1>8
  <2>2. /\ ScopesNow[d] = [t \in Declared(d) |-> EntryIn(d, t).value]
        /\ ScopesNow'[d] = [t \in Declared(d) |-> EntryIn(d, t).value]'
    BY <2>1, ScopesAreRows, ScopesAreRowsNext DEF ScopesHaveRows
  <2>3. Declared(d) \subseteq Symbol
    BY DEF Declared
  <2>4. EntryIn(d, s)'.value = value
    BY <1>2, <1>3, <1>12
  <2>5. \A t \in Declared(d) \ {s} : EntryIn(d, t)' = EntryIn(d, t)
    BY <1>2, <1>12, <2>3
  <2>6. ScopesNow'[d] = [t \in Declared(d) \cup {s} |-> EntryIn(d, t)'.value]
    BY <1>10, <2>2
  <2>7. DOMAIN ScopesNow[d] = Declared(d) /\ \A t \in Declared(d) : ScopesNow[d][t] = EntryIn(d, t).value
    BY <2>2
  <2> QED
    BY <2>4, <2>5, <2>6, <2>7
<1>15. /\ ScopesNow \in Seq(Rows) /\ Len(ScopesNow) = Depth /\ DOMAIN ScopesNow = 1 .. Depth
       /\ ScopesNow' \in Seq(Rows') /\ Len(ScopesNow') = Depth
  BY <1>8, ScopesAreRows, ScopesAreRowsNext DEF ScopesHaveRows
<1> DEFINE row == [t \in DOMAIN ScopesNow[Depth] \cup {s} |->
                    IF t = s THEN value ELSE ScopesNow[Depth][t]]
<1>16. ScopesNow'[Depth] = row
  BY <1>14
<1>17. Depth \in 1 .. Depth /\ \A d \in 1 .. Depth : d # Depth => d \in 1 .. Depth - 1
  BY <1>8
<1>18. Promise!Put(s, value) <=> ScopesNow' = [ScopesNow EXCEPT ![Depth] = row]
  BY <1>15 DEF Promise!Put, Promise!Innermost
<1>19. /\ ScopesNow' = [d \in 1 .. Depth |-> ScopesNow'[d]]
       /\ ScopesNow = [d \in 1 .. Depth |-> ScopesNow[d]]
  BY <1>8 DEF ScopesNow
<1> HIDE DEF row
<1>20. [ScopesNow EXCEPT ![Depth] = row]
       = [d \in 1 .. Depth |-> IF d = Depth THEN row ELSE ScopesNow[d]]
  BY <1>17, <1>19
<1>21. \A d \in 1 .. Depth : ScopesNow'[d] = IF d = Depth THEN row ELSE ScopesNow[d]
  BY <1>13, <1>16, <1>17
<1> QED
  BY <1>18, <1>19, <1>20, <1>21

LEMMA ExitScopeIsExit ==
  ASSUME Inv, Inv', ExitScope
  PROVE  Promise!ExitScope
<1> USE DEF Inv, StashInv
<1>1. /\ stash' = stash /\ ~exiting /\ exiting' /\ Markers # {}
      /\ HashTable!Content' = HashTable!Content
  BY InvExitScope DEF ExitScope, Idle
<1>2. Markers' = Markers /\ \A s : Hidings(s)' = Hidings(s)
  BY <1>1 DEF Markers, Hidings, IsMarker
<1>3. \A k : ScopeOf(k)' = ScopeOf(k)
  BY <1>2 DEF ScopeOf
<1>4. Depth \in Nat /\ Depth > 1 /\ Depth' = Depth - 1
  <2>1. /\ Depth \in Nat /\ Depth > 1 /\ Depth = 1 + Cardinality(Markers)
        /\ Cardinality(Markers) \in Nat
    BY <1>1, ScopeFacts
  <2> QED
    BY <1>1, <1>2, <2>1 DEF Depth
<1>5. \A d : Declared(d)' = Declared(d)
  BY <1>2, <1>3 DEF Declared
<1>6. \A d : \A s \in Symbol : EntryIn(d, s)' = EntryIn(d, s)
  BY <1>1, <1>2, <1>3, ContentKept, EntryKept
<1>7. \A d \in 1 .. Depth - 1 : ScopesNow'[d] = ScopesNow[d]
  <2> SUFFICES ASSUME NEW d \in 1 .. Depth - 1 PROVE ScopesNow'[d] = ScopesNow[d]
    OBVIOUS
  <2>1. d \in 1 .. Depth /\ d \in 1 .. Depth'
    BY <1>4
  <2>2. \A s \in Declared(d) : EntryIn(d, s)' = EntryIn(d, s)
    BY <1>6 DEF Declared
  <2> QED
    BY <1>5, <2>1, <2>2, RowKept
<1>8. /\ ScopesNow \in Seq(Rows) /\ Len(ScopesNow) = Depth
      /\ ScopesNow' \in Seq(Rows') /\ Len(ScopesNow') = Depth - 1
  BY <1>4, ScopesAreRows, ScopesAreRowsNext DEF ScopesHaveRows
<1>9. ScopesNow' = SubSeq(ScopesNow, 1, Depth - 1)
  BY <1>4, <1>7, <1>8
<1> QED
  BY <1>4, <1>8, <1>9 DEF Promise!ExitScope, Promise!Innermost

LEMMA PutBackIsNothing ==
  ASSUME Inv, Inv', PutBack
  PROVE  ScopesNow' = ScopesNow
<1> USE DEF Inv, StashInv
<1>1. PICK s \in Symbol, e \in {stash[Last].entry} :
        /\ s = stash[Last].symbol /\ Last \in Hidings(s) /\ stash # <<>>
        /\ HashTable!Content' = [HashTable!Content EXCEPT ![s] = e]
  BY PutBackContent
<1>2. Pop /\ exiting' = exiting /\ exiting
  BY DEF PutBack, Round
<1>3. /\ Last \in Nat /\ Markers \subseteq 1 .. Last /\ \A t : Hidings(t) \subseteq 1 .. Last
  BY StashDomain
<1>4. /\ \A k \in 1 .. Last - 1 : stash'[k] = stash[k]
      /\ Markers' = Markers \ {Last} /\ \A t : Hidings(t)' = Hidings(t) \ {Last}
  BY <1>1, <1>2, PopItem
<1>5. Last \notin Markers /\ \A t : t # s => Last \notin Hidings(t)
  BY <1>1 DEF Markers, Hidings
<1>6. Markers' = Markers /\ \A t : t # s => Hidings(t)' = Hidings(t)
  BY <1>4, <1>5
<1>7. /\ HashTable!ContentOf(s)' = e
      /\ \A t \in Symbol \ {s} : HashTable!ContentOf(t)' = HashTable!ContentOf(t)
  BY <1>1 DEF HashTable!Content
<1>8. \A k : ScopeOf(k)' = ScopeOf(k)
  BY <1>6 DEF ScopeOf
<1>9. Depth' = Depth /\ Depth \in Nat /\ ScopeOf(Last) = Depth + 1
  <2>1. \A m \in Markers : m < Last
    BY <1>3, <1>5
  <2>2. Depth = Cardinality(Markers) /\ Depth \in Nat
    BY <1>2, ScopeFacts
  <2>3. ScopeOf(Last) = 1 + Cardinality(Markers)
    BY <1>3, <2>1, ScopeFacts
  <2> QED
    BY <1>2, <1>6, <2>2, <2>3 DEF Depth
<1>10. \A d \in 1 .. Depth : Declared(d)' = Declared(d)
  <2> SUFFICES ASSUME NEW d \in 1 .. Depth, NEW t \in Symbol
               PROVE  (\E k \in Hidings(t)' : ScopeOf(k)' = d) <=> \E k \in Hidings(t) : ScopeOf(k) = d
    BY DEF Declared
  <2>1. ScopeOf(Last) # d
    BY <1>9
  <2> QED
    BY <1>4, <1>8, <2>1
<1>11. \A d \in 1 .. Depth : \A t \in Symbol : EntryIn(d, t)' = EntryIn(d, t)
  <2> SUFFICES ASSUME NEW d \in 1 .. Depth, NEW t \in Symbol
               PROVE  EntryIn(d, t)' = EntryIn(d, t)
    OBVIOUS
  <2> DEFINE inner == {k \in Hidings(t) : ScopeOf(k) > d}
             rest  == {k \in Hidings(t) \ {Last} : ScopeOf(k) > d}
  <2>1. CASE t # s
    <3>1. {k \in Hidings(t) : ScopeOf(k) > d}' = inner
      BY <1>6, <1>8, <2>1
    <3>2. \A k \in Hidings(t) : k \in 1 .. Last - 1
      <4> TAKE k \in Hidings(t)
      <4>1. k \in 1 .. Last /\ k # Last
        BY <1>3, <1>5, <2>1
      <4> QED
        BY <1>3, <4>1
    <3>3. \A k \in Hidings(t) : stash'[k] = stash[k]
      BY <1>4, <3>2
    <3> QED
      BY <1>7, <2>1, <3>1, <3>3, EntryKept
  <2>2. CASE t = s
    <3>1. ScopeOf(Last) > d
      BY <1>9
    <3>2. {k \in Hidings(t) : ScopeOf(k) > d}' = rest /\ inner = rest \cup {Last}
      BY <1>1, <1>4, <1>8, <2>2, <3>1
    <3>3. EntryIn(d, t) = stash[Min(rest \cup {Last})].entry
      BY <3>2 DEF EntryIn
    <3>4. rest \in SUBSET Nat /\ \A j \in rest : j < Last /\ j \in 1 .. Last - 1
      <4> SUFFICES ASSUME NEW j \in rest PROVE j \in Nat /\ j < Last /\ j \in 1 .. Last - 1
        OBVIOUS
      <4>1. j \in 1 .. Last /\ j # Last
        BY <1>3
      <4> QED
        BY <1>3, <4>1
    <3>5. CASE rest = {}
      <4>1. rest \cup {Last} \in SUBSET Nat /\ rest \cup {Last} # {}
        BY <1>3, <3>4
      <4>2. Min(rest \cup {Last}) = Last
        BY <3>5, <4>1, MinIsLeast
      <4>3. EntryIn(d, t)' = HashTable!ContentOf(t)'
        BY <3>2, <3>5 DEF EntryIn
      <4> QED
        BY <1>1, <1>7, <2>2, <3>3, <4>2, <4>3
    <3>6. CASE rest # {}
      <4>1. Min(rest \cup {Last}) = Min(rest) /\ Min(rest) \in rest
        <5> HIDE DEF rest
        <5> QED
          BY <1>3, <3>4, <3>6, LaterItem, MinIsLeast
      <4>2. stash'[Min(rest)] = stash[Min(rest)]
        BY <1>4, <3>4, <4>1
      <4>3. EntryIn(d, t)' = stash'[Min(rest)].entry
        BY <3>2, <3>6 DEF EntryIn
      <4> QED
        BY <3>3, <4>1, <4>2, <4>3
    <3> QED
      BY <3>5, <3>6
  <2> QED
    BY <2>1, <2>2
<1>12. \A d \in 1 .. Depth : \A t \in Declared(d) : EntryIn(d, t)' = EntryIn(d, t)
  BY <1>11 DEF Declared
<1> QED
  BY <1>9, <1>10, <1>12 DEF ScopesNow

LEMMA LeaveScopeIsNothing ==
  ASSUME Inv, Inv', LeaveScope
  PROVE  ScopesNow' = ScopesNow
<1> USE DEF Inv, StashInv
<1>1. /\ Pop /\ ~exiting' /\ exiting /\ IsMarker(Last) /\ stash # <<>>
      /\ HashTable!Content' = HashTable!Content
  BY InvLeaveScope DEF LeaveScope, Round, StashType
<1>2. /\ Last \in Nat /\ Markers \subseteq 1 .. Last /\ \A t : Hidings(t) \subseteq 1 .. Last
      /\ DOMAIN stash = 1 .. Last
  BY StashDomain
<1>3. /\ \A k \in 1 .. Last - 1 : stash'[k] = stash[k] /\ Last \in 1 .. Last
      /\ Markers' = Markers \ {Last} /\ \A t : Hidings(t)' = Hidings(t) \ {Last}
  BY <1>1, PopItem
<1>4. Last \in Markers /\ \A t : Hidings(t)' = Hidings(t)
  <2>1. Last \in Markers
    <3>1. Last # 0
      BY <1>1 DEF StashType, Last
    <3> QED
      BY <1>1, <1>2, <3>1 DEF Markers
  <2>2. \A t : Last \notin Hidings(t)
    BY <1>1 DEF Hidings
  <2> QED
    BY <1>3, <2>1, <2>2
<1>5. \A t : \A k \in Hidings(t) : k \in 1 .. Last - 1 /\ stash'[k] = stash[k]
  <2> TAKE t
  <2> TAKE k \in Hidings(t)
  <2>1. k \in 1 .. Last /\ k # Last
    BY <1>1, <1>2 DEF Hidings
  <2>2. k \in 1 .. Last - 1
    BY <1>2, <2>1
  <2> QED
    BY <1>3, <2>2
<1>6. \A k \in 1 .. Last - 1 : ScopeOf(k)' = ScopeOf(k)
  <2> SUFFICES ASSUME NEW k \in 1 .. Last - 1 PROVE ScopeOf(k)' = ScopeOf(k)
    OBVIOUS
  <2>1. {m \in Markers' : m < k} = {m \in Markers : m < k}
    BY <1>2, <1>3
  <2> QED
    BY <2>1 DEF ScopeOf
<1>7. Depth' = Depth
  <2>1. IsFiniteSet(Markers) /\ Cardinality(Markers) \in Nat /\ Depth = Cardinality(Markers)
    BY <1>1, ScopeFacts
  <2>2. Cardinality(Markers') = Cardinality(Markers) - 1
    BY <1>3, <1>4, <2>1, FS_RemoveElement
  <2> QED
    BY <1>1, <2>1, <2>2 DEF Depth
<1>8. \A d : Declared(d)' = Declared(d)
  BY <1>4, <1>5, <1>6 DEF Declared
<1>9. \A d : \A t \in Symbol : EntryIn(d, t)' = EntryIn(d, t)
  <2> SUFFICES ASSUME NEW d, NEW t \in Symbol PROVE EntryIn(d, t)' = EntryIn(d, t)
    OBVIOUS
  <2>1. {k \in Hidings(t) : ScopeOf(k) > d}' = {k \in Hidings(t) : ScopeOf(k) > d}
    BY <1>4, <1>5, <1>6
  <2>2. HashTable!ContentOf(t)' = HashTable!ContentOf(t)
    BY <1>1, ContentKept
  <2> QED
    BY <1>5, <2>1, <2>2, EntryKept
<1>10. \A d : \A t \in Declared(d) : EntryIn(d, t)' = EntryIn(d, t)
  BY <1>9 DEF Declared
<1> QED
  BY <1>7, <1>8, <1>10 DEF ScopesNow

LEMMA ScopesInit ==
  Init => Promise!Init
<1> SUFFICES ASSUME Init PROVE Promise!Init
  OBVIOUS
<1>1. Inv
  BY InvInit
<1>2. stash = <<>> /\ DOMAIN stash = {} /\ ~exiting
  BY DEF Init
<1>3. Markers = {} /\ \A s : Hidings(s) = {}
  BY <1>2 DEF Markers, Hidings
<1>4. Depth = 1
  <2>1. Cardinality(Markers) = 0
    BY <1>3, FS_EmptySet
  <2> QED
    BY <1>2, <2>1 DEF Depth
<1>5. Declared(1) = {}
  BY <1>3 DEF Declared
<1>6. ScopesNow \in Seq(Rows) /\ Len(ScopesNow) = 1 /\ ScopesNow[1] = [s \in {} |-> NoValue]
  BY <1>1, <1>4, <1>5, ScopesAreRows DEF Inv, StashInv
<1> QED
  BY <1>6 DEF Promise!Init, Promise!NoSymbols

LEMMA ScopesSteps ==
  ASSUME Inv, [Next]_vars
  PROVE  [Promise!Next]_ScopesNow /\ [StepsOfScopes]_vars
<1>0. Inv'
  BY InvNext
<1>1. EnterScope => Promise!EnterScope
  BY <1>0, EnterScopeIsEnter
<1>2. \A s \in Symbol, value \in Value : Put(s, value) => Promise!Put(s, value)
  BY <1>0, PutIsPut
<1>3. ExitScope => Promise!ExitScope
  BY <1>0, ExitScopeIsExit
<1>4. Place => ScopesNow' = ScopesNow
  BY <1>0, PlaceContent, ScopesKept DEF Place
<1>5. PutBack => ScopesNow' = ScopesNow
  BY <1>0, PutBackIsNothing
<1>6. LeaveScope => ScopesNow' = ScopesNow
  BY <1>0, LeaveScopeIsNothing
<1>7. UNCHANGED vars => ScopesNow' = ScopesNow
  <2> SUFFICES ASSUME UNCHANGED vars PROVE ScopesNow' = ScopesNow
    OBVIOUS
  <2>1. UNCHANGED hash_table /\ UNCHANGED <<stash, exiting>>
    BY DEF vars
  <2>2. HashTable!Content' = HashTable!Content
    BY <2>1, TableStutter DEF Inv
  <2> QED
    BY <1>0, <2>1, <2>2, ScopesKept
<1>8. StepsOfScopes
  BY <1>1, <1>2, <1>3, <1>4, <1>5, <1>6 DEF StepsOfScopes
<1>9. [Promise!Next]_ScopesNow
  BY <1>1, <1>2, <1>3, <1>4, <1>5, <1>6, <1>7 DEF Next, Promise!Next
<1> QED
  BY <1>8, <1>9

\* The refinement: one flat table with a stash behaves like a stack of scopes
\* (sym_table.h), step by step.  put declares in the innermost scope only, and
\* what the rounds of exit_scope and the growth of the table do is not seen.
THEOREM TableIsScopes == Spec => ScopesSpec
<1>1. Init => Promise!Init
  BY ScopesInit
<1>2. Inv /\ [Next]_vars => [Promise!Next]_ScopesNow /\ [StepsOfScopes]_vars
  BY ScopesSteps
<1> QED
  BY <1>1, <1>2, SymTableInvariant, PTL DEF Spec, ScopesSpec, Promise!Spec
=============================================================================
