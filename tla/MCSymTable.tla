------------------------------ MODULE MCSymTable ------------------------------
(***************************************************************************)
(* A small instance of SymTable: two probes in a table of four cells, and  *)
(* symbols that share a home in tables of four and eight cells, two of     *)
(* them with one hash, and one that comes between: the table grows while   *)
(* it grows, and symbols put first end up behind those put later.          *)
(***************************************************************************)
EXTENDS SymTable

CONSTANTS a, b, c, d

MCHash ==
  [k \in Symbol \cup {NoSymbol} |->
    CASE k = a -> 3 [] k = b -> 11 [] k = c -> 11 [] k = d -> 4 [] OTHER -> 0]
=============================================================================
