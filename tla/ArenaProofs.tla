----------------------------- MODULE ArenaProofs -----------------------------
(***************************************************************************)
(* Proofs about Arena.  The pieces are apart because the blocks are, and   *)
(* because those of the newest block lie below current: Inductive says so. *)
(***************************************************************************)
EXTENDS Arena, TLAPS

InBlock(x, b) == b.memory <= x.at /\ x.at + x.size <= EndOf(b)

HeapApart == \A b, c \in heap : b # c => EndOf(b) <= c.memory \/ EndOf(c) <= b.memory

PiecesApart == \A x, y \in SmallPieces : x # y => Promise!Apart(x, y)

\* Without blocks there is nothing; otherwise the newest block is in use up to
\* current.
NewestBlock ==
  ~freeing =>
    IF blocks = <<>> THEN current = 0 /\ end = 0 /\ pieces = {}
    ELSE /\ blocks[1].memory + Header <= current /\ end = EndOf(blocks[1])
         /\ \A x \in SmallPieces : InBlock(x, blocks[1]) => x.at + x.size <= current

Inductive ==
  /\ TypeOK /\ PiecesFit /\ ListHasHeap
  /\ HeapApart /\ PiecesApart /\ NewestBlock
  /\ freeing => pieces = {}

(* align returns the next multiple of the alignment (src/src/alloc.cpp:7). *)
LEMMA AlignLemma ==
  ASSUME NEW p \in Nat, NEW a \in Nat \ {0}
  PROVE  /\ align(p, a) \in Nat
         /\ p <= align(p, a) /\ align(p, a) <= p + a - 1
         /\ \E n \in 0 .. align(p, a) : align(p, a) = n * a
<1> DEFINE m == p + a - 1
           q == m \div a
<1>1. m \in Nat /\ q \in Int
  OBVIOUS
<1>2. m = a * q + (m % a) /\ m % a \in 0 .. a - 1
  BY <1>1
<1>3. align(p, a) = q * a
  BY DEF align
<1> QED
  BY <1>1, <1>2, <1>3

LEMMA BlockLemma ==
  ASSUME NEW b \in Block
  PROVE  b.memory \in Nat \ {0} /\ b.size \in Nat /\ EndOf(b) \in Nat /\ EndOf(b) = b.memory + b.size
<1>1. b.memory \in Address /\ b.size \in Nat
  BY DEF Block
<1>2. b.memory \in Nat \ {0}
  BY <1>1, AddressAssumption
<1>3. EndOf(b) = b.memory + b.size
  BY DEF EndOf
<1> QED
  BY <1>1, <1>2, <1>3

(* The initial state. *)
LEMMA InitLemma == Init => Inductive
<1> SUFFICES ASSUME Init PROVE Inductive
  OBVIOUS
<1> USE DEF Init
<1>1. TypeOK
  <2>1. <<>> \in Seq(Block)
    OBVIOUS
  <2>2. heap \subseteq Block /\ pieces \subseteq [at : Nat, size : Nat \ {0}, alignment : Nat \ {0}]
    OBVIOUS
  <2> QED
    BY <2>1, <2>2 DEF TypeOK
<1>2. SmallPieces = {}
  BY DEF SmallPieces
<1>3. PiecesFit /\ PiecesApart
  BY <1>2 DEF PiecesFit, PiecesApart
<1>4. ListHasHeap /\ HeapApart /\ NewestBlock
  BY DEF ListHasHeap, HeapApart, NewestBlock
<1> QED
  BY <1>1, <1>3, <1>4 DEF Inductive

(* The room for a request is in the newest block (src/src/alloc.h:46): there *)
(* is one.                                                                   *)
LEMMA RoomLemma ==
  ASSUME Inductive, ~freeing, NEW r \in Request, Fits(r)
  PROVE  /\ blocks # <<>> /\ blocks[1] \in heap
         /\ end = EndOf(blocks[1])
<1>1. blocks # <<>>
  <2>1. SUFFICES ASSUME blocks = <<>> PROVE FALSE
    OBVIOUS
  <2>2. current = 0 /\ end = 0
    BY <2>1 DEF Inductive, NewestBlock
  <2>3. align(0, r.alignment) \in Nat
    BY AlignLemma, RequestAssumption
  <2> QED
    BY <2>2, <2>3, RequestAssumption DEF Fits
<1>2. blocks[1] \in heap
  BY <1>1 DEF Inductive, TypeOK, ListHasHeap
<1> QED
  BY <1>1, <1>2 DEF Inductive, NewestBlock

(* A new piece that is in a block behind all that is in the same block keeps *)
(* the pieces apart.                                                         *)
LEMMA GiveLemma ==
  ASSUME Inductive,
         NEW from \in Nat, NEW r \in Request, Give(from, r),
         NEW b \in Block, b.memory + Header <= from,
         \A x \in SmallPieces :
           IF InBlock(x, b) THEN x.at + x.size <= from
           ELSE \E c \in heap : InBlock(x, c) /\ (EndOf(b) <= c.memory \/ EndOf(c) <= b.memory),
         Small(r) => align(from, r.alignment) + r.size <= EndOf(b)
  PROVE  /\ pieces' \subseteq [at : Nat, size : Nat \ {0}, alignment : Nat \ {0}]
         /\ current' \in Nat /\ from <= current'
         /\ PiecesApart'
         /\ \A x \in SmallPieces' : InBlock(x, b) => x.at + x.size <= current'
         /\ \A x \in SmallPieces' \ SmallPieces :
              /\ Promise!Aligned(x)
              /\ b.memory + Header <= x.at /\ x.at + x.size <= EndOf(b)
              /\ \A y \in SmallPieces : Promise!Apart(x, y)
<1> DEFINE ptr == align(from, r.alignment)
           new == Piece(ptr, r)
<1>1. /\ r.size \in Nat \ {0} /\ r.alignment \in Nat \ {0}
      /\ ptr \in Nat /\ from <= ptr
      /\ \E n \in 0 .. ptr : ptr = n * r.alignment
  BY AlignLemma, RequestAssumption
<1>2. /\ new \in [at : Nat, size : Nat \ {0}, alignment : Nat \ {0}]
      /\ new.at = ptr /\ new.size = r.size /\ new.alignment = r.alignment
  BY <1>1 DEF Piece
<1>3. pieces' = pieces \cup {new} /\ current' = ptr + r.size
  BY DEF Give
<1>4. pieces \subseteq [at : Nat, size : Nat \ {0}, alignment : Nat \ {0}]
  BY DEF Inductive, TypeOK
<1>5. SmallPieces \subseteq pieces /\ \A x \in SmallPieces' : x \in SmallPieces \/ (x = new /\ Small(new))
  BY <1>3 DEF SmallPieces
<1>6. Small(new) => Small(r)
  BY <1>2 DEF Small
<1>7. /\ b.memory \in Nat /\ Header \in Nat /\ EndOf(b) \in Nat
      /\ \A c \in heap : c.memory \in Nat /\ EndOf(c) \in Nat
  BY BlockLemma, BlockAssumption DEF Inductive, TypeOK
<1>8. ASSUME NEW y \in SmallPieces, Small(new) PROVE Promise!Apart(new, y) /\ Promise!Apart(y, new)
  <2>1. y.at \in Nat /\ y.size \in Nat
    BY <1>4, <1>5
  <2>2. CASE InBlock(y, b)
    BY <2>1, <2>2, <1>1, <1>2 DEF Promise!Apart
  <2>3. CASE ~InBlock(y, b)
    <3>1. PICK c \in heap : InBlock(y, c) /\ (EndOf(b) <= c.memory \/ EndOf(c) <= b.memory)
      BY <2>3
    <3>2. ptr + r.size <= EndOf(b) /\ b.memory <= ptr
      BY <1>1, <1>6, <1>7, <1>8
    <3> QED
      BY <2>1, <3>1, <3>2, <1>1, <1>2, <1>7 DEF Promise!Apart, InBlock
  <2> QED
    BY <2>2, <2>3
<1>9. PiecesApart'
  <2>1. SUFFICES ASSUME NEW x \in SmallPieces', NEW y \in SmallPieces', x # y
                 PROVE  Promise!Apart(x, y)
    BY DEF PiecesApart, Promise!Apart
  <2>2. CASE x \in SmallPieces /\ y \in SmallPieces
    BY <2>1, <2>2 DEF Inductive, PiecesApart
  <2> QED
    BY <1>5, <1>8, <2>1, <2>2
<1>10. ASSUME NEW x \in SmallPieces', InBlock(x, b) PROVE x.at + x.size <= current'
  BY <1>1, <1>2, <1>3, <1>4, <1>5, <1>10
<1>11. ASSUME NEW x \in SmallPieces' \ SmallPieces
       PROVE  /\ Promise!Aligned(x)
              /\ b.memory + Header <= x.at /\ x.at + x.size <= EndOf(b)
              /\ \A y \in SmallPieces : Promise!Apart(x, y)
  BY <1>1, <1>2, <1>5, <1>6, <1>7, <1>8, <1>11 DEF Promise!Aligned
<1> QED
  BY <1>1, <1>2, <1>3, <1>4, <1>9, <1>10, <1>11

(* One more block, which malloc has found free (src/src/alloc.cpp:16). *)
LEMMA LinkLemma ==
  ASSUME Inductive, ~freeing, NEW b \in Block, IsFree(b), 0 < b.size,
         heap' = heap \cup {b}, Link(b), freeing' = freeing
  PROVE  /\ blocks' \in Seq(Block) /\ heap' \subseteq Block
         /\ blocks' # <<>> /\ blocks'[1] = b
         /\ ListHasHeap' /\ HeapApart'
<1>1. blocks \in Seq(Block) /\ heap \subseteq Block /\ blocks' = <<b>> \o blocks
  BY DEF Inductive, TypeOK, Link
<1>2. /\ blocks' \in Seq(Block) /\ Len(blocks') = Len(blocks) + 1
      /\ blocks'[1] = b
      /\ \A n \in 1 .. Len(blocks) : blocks'[n + 1] = blocks[n]
      /\ \A n \in DOMAIN blocks' : n = 1 \/ (n - 1 \in 1 .. Len(blocks) /\ blocks'[n] = blocks[n - 1])
  BY <1>1
<1>3. b \notin heap
  <2>1. ~(EndOf(b) <= b.memory)
    BY BlockLemma
  <2> QED
    BY <2>1 DEF IsFree
<1>4. /\ heap = {blocks[n] : n \in DOMAIN blocks}
      /\ \A m, n \in DOMAIN blocks : blocks[m] = blocks[n] => m = n
  BY DEF Inductive, ListHasHeap
<1>5. heap' = {blocks'[n] : n \in DOMAIN blocks'}
  <2>1. ASSUME NEW c \in heap' PROVE \E n \in DOMAIN blocks' : c = blocks'[n]
    <3>1. CASE c = b
      BY <1>2, <3>1
    <3>2. CASE c \in heap
      <4>1. PICK n \in 1 .. Len(blocks) : c = blocks[n]
        BY <1>1, <1>4, <3>2
      <4>2. n + 1 \in DOMAIN blocks' /\ blocks'[n + 1] = c
        BY <1>1, <1>2, <4>1
      <4> QED
        BY <4>2
    <3> QED
      BY <3>1, <3>2
  <2>2. ASSUME NEW n \in DOMAIN blocks' PROVE blocks'[n] \in heap'
    BY <1>1, <1>2, <1>4
  <2> QED
    BY <2>1, <2>2
<1>6. ASSUME NEW m \in DOMAIN blocks', NEW n \in DOMAIN blocks', blocks'[m] = blocks'[n]
      PROVE  m = n
  <2>1. CASE m = 1 \/ n = 1
    BY <1>1, <1>2, <1>3, <1>4, <1>6, <2>1
  <2>2. CASE m # 1 /\ n # 1
    BY <1>1, <1>2, <1>4, <1>6, <2>2
  <2> QED
    BY <2>1, <2>2
<1>7. HeapApart'
  BY DEF Inductive, HeapApart, IsFree
<1> QED
  BY <1>1, <1>2, <1>5, <1>6, <1>7 DEF ListHasHeap

(* A piece that is in one block is not in another. *)
LEMMA ElsewhereLemma ==
  ASSUME Inductive, NEW x \in SmallPieces, NEW b \in Block,
         IsFree(b) \/ b \in heap
  PROVE  InBlock(x, b) \/ \E c \in heap : InBlock(x, c) /\ (EndOf(b) <= c.memory \/ EndOf(c) <= b.memory)
<1>1. PICK c \in heap : c.memory + Header <= x.at /\ x.at + x.size <= EndOf(c)
  BY DEF Inductive, PiecesFit
<1>2. InBlock(x, c)
  <2>1. x.at \in Nat /\ c.memory \in Nat
    BY BlockLemma DEF Inductive, TypeOK, SmallPieces
  <2> QED
    BY <1>1, <2>1, BlockAssumption DEF InBlock
<1>3. CASE IsFree(b)
  BY <1>2, <1>3 DEF IsFree
<1>4. CASE b \in heap
  BY <1>2, <1>4 DEF Inductive, HeapApart
<1> QED
  BY <1>3, <1>4

(* What is given is a step of the promise, or not small. *)
LEMMA StepLemma ==
  ASSUME NEW from, NEW r, Give(from, r),
         \A x \in SmallPieces' \ SmallPieces :
           Promise!Aligned(x) /\ \A y \in SmallPieces : Promise!Apart(x, y)
  PROVE  Promise!Next \/ UNCHANGED SmallPieces
<1> DEFINE new == Piece(align(from, r.alignment), r)
<1>1. pieces' = pieces \cup {new}
  BY DEF Give
<1>2. SmallPieces' = IF Small(new) THEN SmallPieces \cup {new} ELSE SmallPieces
  BY <1>1 DEF SmallPieces, Small
<1>3. CASE SmallPieces' = SmallPieces
  BY <1>3
<1>4. CASE SmallPieces' # SmallPieces
  <2>1. new \in SmallPieces' \ SmallPieces /\ SmallPieces' = SmallPieces \cup {new}
    BY <1>2, <1>4
  <2>2. Promise!Give(new)
    BY <2>1 DEF Promise!Give, Promise!Aligned
  <2> QED
    BY <2>1, <2>2 DEF Promise!Next
<1> QED
  BY <1>3, <1>4

(* One lemma for each action *)

LEMMA AllocateHereLemma ==
  ASSUME Inductive, NEW r \in Request, AllocateHere(r)
  PROVE  Inductive' /\ [Promise!Next]_SmallPieces
<1> DEFINE b == blocks[1]
<1>1. /\ blocks # <<>> /\ b \in heap /\ end = EndOf(b)
      /\ ~freeing /\ UNCHANGED <<blocks, end, heap, freeing, block>>
  BY RoomLemma DEF AllocateHere
<1>2. b \in Block /\ current \in Nat
  BY <1>1 DEF Inductive, TypeOK
<1>3. /\ b.memory + Header <= current
      /\ \A x \in SmallPieces : InBlock(x, b) => x.at + x.size <= current
  BY <1>1 DEF Inductive, NewestBlock
<1>4. Give(current, r) /\ align(current, r.alignment) + r.size <= EndOf(b)
  BY <1>1 DEF AllocateHere, Fits
<1> HIDE DEF b
<1>5. /\ pieces' \subseteq [at : Nat, size : Nat \ {0}, alignment : Nat \ {0}]
      /\ current' \in Nat /\ current <= current'
      /\ PiecesApart'
      /\ \A x \in SmallPieces' : InBlock(x, b) => x.at + x.size <= current'
      /\ \A x \in SmallPieces' \ SmallPieces :
           /\ Promise!Aligned(x)
           /\ b.memory + Header <= x.at /\ x.at + x.size <= EndOf(b)
           /\ \A y \in SmallPieces : Promise!Apart(x, y)
  <2>1. \A x \in SmallPieces :
          IF InBlock(x, b) THEN x.at + x.size <= current
          ELSE \E c \in heap : InBlock(x, c) /\ (EndOf(b) <= c.memory \/ EndOf(c) <= b.memory)
    BY <1>1, <1>2, <1>3, ElsewhereLemma
  <2> QED
    BY <1>2, <1>3, <1>4, <2>1, GiveLemma
<1>6. TypeOK' /\ ListHasHeap' /\ HeapApart'
  BY <1>1, <1>5 DEF Inductive, TypeOK, ListHasHeap, HeapApart
<1>7. PiecesFit'
  BY <1>1, <1>5 DEF Inductive, PiecesFit, Promise!Aligned
<1>8. NewestBlock'
  <2>1. b.memory + Header <= current'
    BY <1>2, <1>3, <1>5, BlockLemma, BlockAssumption
  <2> QED
    BY <1>1, <1>5, <2>1 DEF NewestBlock, b
<1>9. Promise!Next \/ UNCHANGED SmallPieces
  BY <1>4, <1>5, StepLemma
<1> QED
  BY <1>1, <1>5, <1>6, <1>7, <1>8, <1>9 DEF Inductive

LEMMA AllocateInBlockLemma ==
  ASSUME Inductive, NEW r \in Request, NEW memory \in Address, AllocateInBlock(r, memory)
  PROVE  Inductive' /\ [Promise!Next]_SmallPieces
<1> DEFINE b == [memory |-> memory, size |-> SizeOfBlock(r)]
           from == b.memory + Header
<1>1. r.size \in Nat \ {0} /\ r.alignment \in Nat \ {0} /\ BlockSize \in Nat /\ Header \in Nat
  BY RequestAssumption, BlockAssumption
<1>2. SizeOfBlock(r) \in Nat /\ 0 < SizeOfBlock(r) /\ (Small(r) => SizeOfBlock(r) = BlockSize)
  BY <1>1 DEF SizeOfBlock, Small
<1>3. b \in Block /\ b.memory = memory /\ b.size = SizeOfBlock(r) /\ from \in Nat
  BY <1>1, <1>2, AddressAssumption DEF Block
<1>4. /\ ~freeing /\ IsFree(b) /\ heap' = heap \cup {b} /\ Link(b)
      /\ end' = EndOf(b) /\ Give(from, r) /\ UNCHANGED <<freeing, block>>
  BY DEF AllocateInBlock
<1>5. Small(r) => align(from, r.alignment) + r.size <= EndOf(b)
  <2>1. SUFFICES ASSUME Small(r) PROVE align(from, r.alignment) + r.size <= EndOf(b)
    OBVIOUS
  <2>2. align(from, r.alignment) \in Nat /\ align(from, r.alignment) <= from + r.alignment - 1
    BY <1>1, <1>3, AlignLemma
  <2>3. EndOf(b) = memory + BlockSize /\ memory \in Nat
    BY <1>2, <1>3, <2>1, BlockLemma
  <2> QED
    BY <1>1, <1>3, <2>1, <2>2, <2>3 DEF Small
<1> HIDE DEF b
<1>6. \A x \in SmallPieces :
        /\ ~InBlock(x, b)
        /\ \E c \in heap : InBlock(x, c) /\ (EndOf(b) <= c.memory \/ EndOf(c) <= b.memory)
  <2>1. SUFFICES ASSUME NEW x \in SmallPieces
                 PROVE  /\ ~InBlock(x, b)
                        /\ \E c \in heap : InBlock(x, c) /\ (EndOf(b) <= c.memory \/ EndOf(c) <= b.memory)
    OBVIOUS
  <2>2. PICK c \in heap : c.memory + Header <= x.at /\ x.at + x.size <= EndOf(c)
    BY DEF Inductive, PiecesFit
  <2>3. /\ x.at \in Nat /\ x.size \in Nat \ {0}
        /\ c.memory \in Nat /\ EndOf(c) \in Nat /\ b.memory \in Nat /\ EndOf(b) \in Nat
    BY <1>3, BlockLemma DEF Inductive, TypeOK, SmallPieces
  <2>4. EndOf(b) <= c.memory \/ EndOf(c) <= b.memory
    BY <1>4 DEF IsFree
  <2> QED
    BY <1>1, <2>2, <2>3, <2>4 DEF InBlock
<1>7. /\ pieces' \subseteq [at : Nat, size : Nat \ {0}, alignment : Nat \ {0}]
      /\ current' \in Nat /\ from <= current'
      /\ PiecesApart'
      /\ \A x \in SmallPieces' : InBlock(x, b) => x.at + x.size <= current'
      /\ \A x \in SmallPieces' \ SmallPieces :
           /\ Promise!Aligned(x)
           /\ b.memory + Header <= x.at /\ x.at + x.size <= EndOf(b)
           /\ \A y \in SmallPieces : Promise!Apart(x, y)
  <2>1. b.memory + Header <= from
    BY <1>3
  <2> QED
    BY <1>3, <1>4, <1>5, <1>6, <2>1, GiveLemma
<1>8. /\ blocks' \in Seq(Block) /\ heap' \subseteq Block
      /\ blocks' # <<>> /\ blocks'[1] = b
      /\ ListHasHeap' /\ HeapApart'
  BY <1>2, <1>3, <1>4, LinkLemma
<1>9. TypeOK'
  BY <1>3, <1>4, <1>7, <1>8, BlockLemma DEF Inductive, TypeOK
<1>10. PiecesFit'
  BY <1>4, <1>7 DEF Inductive, PiecesFit, Promise!Aligned
<1>11. NewestBlock'
  BY <1>4, <1>7, <1>8 DEF NewestBlock
<1>12. Promise!Next \/ UNCHANGED SmallPieces
  BY <1>4, <1>7, StepLemma
<1> QED
  BY <1>4, <1>7, <1>8, <1>9, <1>10, <1>11, <1>12 DEF Inductive

LEMMA FreeAllLemma ==
  ASSUME Inductive, free_all
  PROVE  Inductive' /\ [Promise!Next]_SmallPieces
<1> USE DEF free_all
<1>1. TypeOK' /\ ListHasHeap' /\ HeapApart'
  BY DEF Inductive, TypeOK, ListHasHeap, HeapApart
<1>2. SmallPieces' = {}
  BY DEF SmallPieces
<1>3. PiecesFit' /\ PiecesApart' /\ NewestBlock'
  BY <1>2 DEF PiecesFit, PiecesApart, NewestBlock
<1>4. Promise!Next
  BY <1>2 DEF Promise!Next, Promise!FreeAll
<1> QED
  BY <1>1, <1>3, <1>4 DEF Inductive

LEMMA FreeBlockLemma ==
  ASSUME Inductive, FreeBlock
  PROVE  Inductive' /\ [Promise!Next]_SmallPieces
<1>1. /\ freeing /\ block # <<>> /\ block \in Seq(Block)
      /\ heap' = heap \ {block[1]} /\ block' = Tail(block)
      /\ UNCHANGED <<blocks, current, end, pieces, freeing>>
  BY DEF FreeBlock, Inductive, TypeOK
<1>2. /\ block' \in Seq(Block) /\ Len(block') = Len(block) - 1 /\ Len(block) \in Nat \ {0}
      /\ \A n \in DOMAIN block' : n + 1 \in DOMAIN block /\ block'[n] = block[n + 1]
      /\ \A n \in DOMAIN block : n = 1 \/ (n - 1 \in DOMAIN block' /\ block[n] = block'[n - 1])
  BY <1>1
<1>3. /\ heap = {block[n] : n \in DOMAIN block}
      /\ \A m, n \in DOMAIN block : block[m] = block[n] => m = n
  BY <1>1 DEF Inductive, ListHasHeap
<1>4. heap' = {block'[n] : n \in DOMAIN block'}
  <2>1. ASSUME NEW c \in heap' PROVE \E n \in DOMAIN block' : c = block'[n]
    BY <1>1, <1>2, <1>3
  <2>2. ASSUME NEW n \in DOMAIN block' PROVE block'[n] \in heap'
    <3>1. n + 1 \in DOMAIN block /\ 1 \in DOMAIN block /\ n + 1 # 1
      BY <1>1, <1>2
    <3> QED
      BY <1>1, <1>2, <1>3, <3>1
  <2> QED
    BY <2>1, <2>2
<1>5. ASSUME NEW m \in DOMAIN block', NEW n \in DOMAIN block', block'[m] = block'[n]
      PROVE  m = n
  <2>1. m + 1 = n + 1
    BY <1>2, <1>3, <1>5
  <2> QED
    BY <1>1, <1>2, <2>1
<1>6. ListHasHeap'
  BY <1>1, <1>4, <1>5 DEF ListHasHeap
<1>7. TypeOK' /\ HeapApart'
  BY <1>1, <1>2 DEF Inductive, TypeOK, HeapApart
<1>8. pieces = {} /\ SmallPieces' = {} /\ UNCHANGED SmallPieces
  BY <1>1 DEF Inductive, SmallPieces
<1>9. PiecesFit' /\ PiecesApart' /\ NewestBlock'
  BY <1>1, <1>8 DEF PiecesFit, PiecesApart, NewestBlock
<1> QED
  BY <1>1, <1>6, <1>7, <1>8, <1>9 DEF Inductive

LEMMA FreedLemma ==
  ASSUME Inductive, Freed
  PROVE  Inductive' /\ [Promise!Next]_SmallPieces
<1>1. /\ freeing /\ block = <<>> /\ pieces = {} /\ heap = {}
      /\ blocks' = <<>> /\ current' = 0 /\ end' = 0 /\ ~freeing' /\ freeing' \in BOOLEAN
      /\ UNCHANGED <<pieces, heap, block>>
  <2>1. freeing /\ block = <<>> /\ heap = {block[n] : n \in DOMAIN block}
    BY DEF Freed, Inductive, ListHasHeap
  <2>2. heap = {}
    BY <2>1
  <2> QED
    BY <2>1, <2>2 DEF Freed, Inductive
<1>2. TypeOK'
  <2>1. blocks' \in Seq(Block)
    BY <1>1
  <2> QED
    BY <1>1, <2>1 DEF Inductive, TypeOK
<1>3. SmallPieces' = {} /\ UNCHANGED SmallPieces
  BY <1>1 DEF SmallPieces
<1>4. PiecesFit' /\ PiecesApart'
  BY <1>3 DEF PiecesFit, PiecesApart
<1>5. ListHasHeap' /\ HeapApart' /\ NewestBlock'
  BY <1>1 DEF ListHasHeap, HeapApart, NewestBlock
<1> QED
  BY <1>1, <1>2, <1>3, <1>4, <1>5 DEF Inductive

LEMMA UnchangedLemma ==
  ASSUME Inductive, UNCHANGED arena
  PROVE  Inductive' /\ [Promise!Next]_SmallPieces
  BY DEF arena, Inductive, TypeOK, PiecesFit, ListHasHeap, HeapApart, PiecesApart, NewestBlock,
         SmallPieces, Promise!Aligned, Promise!Apart

LEMMA NextLemma == Inductive /\ [Next]_arena => Inductive' /\ [Promise!Next]_SmallPieces
<1> SUFFICES ASSUME Inductive, [Next]_arena
             PROVE  Inductive' /\ [Promise!Next]_SmallPieces
  OBVIOUS
<1>1. CASE allocate
  BY <1>1, AllocateHereLemma, AllocateInBlockLemma DEF allocate
<1>2. CASE free_all
  BY <1>2, FreeAllLemma
<1>3. CASE FreeBlock
  BY <1>3, FreeBlockLemma
<1>4. CASE Freed
  BY <1>4, FreedLemma
<1>5. CASE UNCHANGED arena
  BY <1>5, UnchangedLemma
<1> QED
  BY <1>1, <1>2, <1>3, <1>4, <1>5 DEF Next

(* The variables of the arena keep their types (src/src/alloc.h:22). *)
THEOREM Types == Spec => []TypeOK
<1>1. Inductive => TypeOK
  BY DEF Inductive
<1> QED
  BY <1>1, InitLemma, NextLemma, PTL DEF Spec

(* Small pieces are aligned and in a live block, behind its header            *)
(* (src/src/alloc.h:42), whatever is asked for and wherever malloc puts it.   *)
THEOREM PiecesFitAlways == Spec => []PiecesFit
<1>1. Inductive => PiecesFit
  BY DEF Inductive
<1> QED
  BY <1>1, InitLemma, NextLemma, PTL DEF Spec

(* The list of the blocks has each block once, and so has free_all            *)
(* (src/src/alloc.cpp:29): none is lost, none is freed twice.                 *)
THEOREM NoneLost == Spec => []ListHasHeap
<1>1. Inductive => ListHasHeap
  BY DEF Inductive
<1> QED
  BY <1>1, InitLemma, NextLemma, PTL DEF Spec

(* The arena does what Pieces promises: what it gives is apart from what it   *)
(* gave before and stays until free_all (src/src/alloc.h:6).                  *)
THEOREM Implements == Spec => PiecesSpec
<1>1. Init => Promise!Init
  BY DEF Init, Promise!Init, SmallPieces
<1> QED
  BY <1>1, InitLemma, NextLemma, PTL DEF Spec, PiecesSpec, Promise!Spec
=============================================================================
