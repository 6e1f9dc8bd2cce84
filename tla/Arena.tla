-------------------------------- MODULE Arena --------------------------------
(***************************************************************************)
(* The arena (src/src/alloc.h, src/src/alloc.cpp): pieces of memory are    *)
(* cut from the newest block, behind the header that links the blocks, and *)
(* all blocks are freed at once.                                           *)
(*                                                                         *)
(* An address is a number, and a null pointer is 0.  heap holds the blocks *)
(* that malloc has given and free has not got back.  The loop of free_all  *)
(* is a step for each round.                                               *)
(***************************************************************************)
EXTENDS Integers, Sequences

CONSTANTS
  BlockSize,  \* BLOCK_SIZE
  Header,     \* sizeof(Block)
  Request,    \* what is asked for: [size, alignment]
  Address     \* where malloc may put a block

ASSUME BlockAssumption == BlockSize \in Nat /\ Header \in Nat
ASSUME AddressAssumption == Address \subseteq Nat \ {0}

ASSUME RequestAssumption ==
  \A r \in Request : r.size \in Nat \ {0} /\ r.alignment \in Nat \ {0}

\* align asserts it.
ASSUME AlignmentAssumption ==
  \A r \in Request : \E n \in 0 .. r.alignment : r.alignment = 2^n

VARIABLES
  blocks,        \* the list of the blocks, the newest first
  current, end,
  pieces,        \* those given since the last free_all
  heap,
  freeing, block \* in the loop of free_all; the blocks it has still to free

arena == <<blocks, current, end, pieces, heap, freeing, block>>

Init ==
  /\ blocks = <<>>
  /\ current = 0 /\ end = 0
  /\ pieces = {}
  /\ heap = {}
  /\ freeing = FALSE /\ block = <<>>

\* (ptr + mask) & ~mask, where alignment is a power of two
align(ptr, alignment) == ((ptr + alignment - 1) \div alignment) * alignment

Piece(at, r) == [at |-> at, size |-> r.size, alignment |-> r.alignment]

EndOf(b) == b.memory + b.size

\* Mutant: the room is measured before the pointer is aligned.
FitsUnaligned(r) == current + r.size <= end

Fits(r) == align(current, r.alignment) + r.size <= end

\* Mutant: what aligning has skipped is not counted.
GiveUnaligned(from, r) ==
  /\ pieces' = pieces \cup {Piece(align(from, r.alignment), r)}
  /\ current' = from + r.size

Give(from, r) ==
  LET ptr == align(from, r.alignment)
  IN  /\ pieces' = pieces \cup {Piece(ptr, r)}
      /\ current' = ptr + r.size

\* allocate finds room in the newest block ...
AllocateHere(r) ==
  /\ ~freeing /\ Fits(r)
  /\ Give(current, r)
  /\ UNCHANGED <<blocks, end, heap, freeing, block>>

SizeOfBlock(r) ==
  IF r.size + r.alignment - 1 > BlockSize THEN r.size + r.alignment ELSE BlockSize

\* Mutant: the list begins anew.
LinkOnly(b) == blocks' = <<b>>

Link(b) == blocks' = <<b>> \o blocks

\* malloc gives what nobody has.
IsFree(b) == \A other \in heap : EndOf(b) <= other.memory \/ EndOf(other) <= b.memory

\* ... or takes another one.
AllocateInBlock(r, memory) ==
  /\ ~freeing /\ ~Fits(r)
  /\ LET b == [memory |-> memory, size |-> SizeOfBlock(r)]
     IN  /\ IsFree(b)
         /\ heap' = heap \cup {b}
         /\ Link(b)
         /\ end' = EndOf(b)
         /\ Give(memory + Header, r)
  /\ UNCHANGED <<freeing, block>>

free_all ==
  /\ ~freeing
  /\ freeing' = TRUE
  /\ block' = blocks
  /\ pieces' = {}
  /\ UNCHANGED <<blocks, current, end, heap>>

FreeBlock ==
  /\ freeing /\ block # <<>>
  /\ heap' = heap \ {block[1]}
  /\ block' = Tail(block)
  /\ UNCHANGED <<blocks, current, end, pieces, freeing>>

\* Mutant: what is left of the newest block is used again.
FreedButCurrent ==
  /\ freeing /\ block = <<>>
  /\ blocks' = <<>>
  /\ freeing' = FALSE
  /\ UNCHANGED <<current, end, pieces, heap, block>>

Freed ==
  /\ freeing /\ block = <<>>
  /\ blocks' = <<>>
  /\ current' = 0 /\ end' = 0
  /\ freeing' = FALSE
  /\ UNCHANGED <<pieces, heap, block>>

allocate ==
  \E r \in Request : AllocateHere(r) \/ \E memory \in Address : AllocateInBlock(r, memory)

Next == allocate \/ free_all \/ FreeBlock \/ Freed

Spec == Init /\ [][Next]_arena

-----------------------------------------------------------------------------
\* Pieces that fit into a block of the usual size, behind its header and
\* aligned.  A block that is made for a larger one has no room for the header.
Small(x) == Header + x.size + x.alignment - 1 <= BlockSize

SmallPieces == {x \in pieces : Small(x)}

Promise == INSTANCE Pieces WITH pieces <- SmallPieces

Block == [memory : Address, size : Nat]

TypeOK ==
  /\ blocks \in Seq(Block) /\ block \in Seq(Block)
  /\ heap \subseteq Block
  /\ current \in Nat /\ end \in Nat
  /\ pieces \subseteq [at : Nat, size : Nat \ {0}, alignment : Nat \ {0}]
  /\ freeing \in BOOLEAN

\* A piece is in a block that malloc has given and nobody has freed, behind
\* its header and aligned, whatever was asked for before.
PiecesFit ==
  \A x \in SmallPieces :
    /\ Promise!Aligned(x)
    /\ \E b \in heap : b.memory + Header <= x.at /\ x.at + x.size <= EndOf(b)

\* What the arena gives has nothing in common with anything it has given
\* before, and stays until free_all takes all of it.
PiecesSpec == Promise!Spec

\* The list has every block of the heap once, and so has what free_all has
\* still to free: none is lost and none freed twice.
ListHasHeap ==
  LET list == IF freeing THEN block ELSE blocks
  IN  /\ heap = {list[n] : n \in DOMAIN list}
      /\ \A m, n \in DOMAIN list : list[m] = list[n] => m = n
=============================================================================
