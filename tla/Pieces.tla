-------------------------------- MODULE Pieces --------------------------------
(***************************************************************************)
(* What an arena promises: pieces of memory that stay where they are and   *)
(* have nothing in common with each other, until all are freed at once.    *)
(***************************************************************************)
EXTENDS Integers

VARIABLE pieces

Aligned(x)  == \E n \in 0 .. x.at : x.at = n * x.alignment
Apart(x, y) == x.at + x.size <= y.at \/ y.at + y.size <= x.at

Init == pieces = {}

Give(piece) ==
  /\ Aligned(piece)
  /\ \A other \in pieces : Apart(piece, other)
  /\ pieces' = pieces \cup {piece}

FreeAll == pieces' = {}

Next == FreeAll \/ \E piece \in pieces' : Give(piece)

Spec == Init /\ [][Next]_pieces
=============================================================================
