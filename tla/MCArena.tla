------------------------------- MODULE MCArena -------------------------------
(***************************************************************************)
(* A small instance of Arena: blocks of ten bytes with a header of two,    *)
(* pieces up to one that just fits and one that does not.                  *)
(***************************************************************************)
EXTENDS Arena

MCRequest ==
  {[size |-> 1, alignment |-> 1], [size |-> 3, alignment |-> 2], [size |-> 4, alignment |-> 4],
   [size |-> 5, alignment |-> 4], [size |-> 8, alignment |-> 1], [size |-> 11, alignment |-> 2]}
=============================================================================
