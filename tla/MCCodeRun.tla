------------------------------ MODULE MCCodeRun ------------------------------
(***************************************************************************)
(* Small instances of CodeRun: four registers (rax, rcx, rdx, r8), two of  *)
(* them for parameters, bits for words.                                    *)
(***************************************************************************)
EXTENDS CodeRun, TLC

\* Any operators will do; these tell left from right and one from another.
MCMeaning(op, a, b) ==
  CASE op = "ADD" -> (a + b) % 2
    [] op = "CQO" -> 1 - a
    [] op \in {"NEG", "NOT"} -> 1 - a
    [] op = "LT"  -> IF a < b THEN 1 ELSE 0
    [] OTHER      -> IF a = 1 /\ b = 0 THEN 1 ELSE 0

TempSymmetry == Permutations(Temp)
=============================================================================
