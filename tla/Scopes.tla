-------------------------------- MODULE Scopes --------------------------------
(***************************************************************************)
(* What a symbol table promises its users: a stack of scopes, each a       *)
(* partial function from the symbols declared in it to values.  A symbol   *)
(* means what the innermost scope that declares it says.  Leaving a scope  *)
(* makes everything visible again that it shadowed.                        *)
(***************************************************************************)
EXTENDS Integers, Sequences

CONSTANTS Symbol, Value, NoValue

VARIABLE scopes   \* the innermost scope last; the first one is never left

NoSymbols == [symbol \in {} |-> NoValue]

Innermost == Len(scopes)

Init == scopes = <<NoSymbols>>

EnterScope == scopes' = Append(scopes, NoSymbols)

Put(symbol, value) ==
  LET scope == scopes[Innermost]
  IN  scopes' = [scopes EXCEPT ![Innermost] =
        [s \in DOMAIN scope \cup {symbol} |->
          IF s = symbol THEN value ELSE scope[s]]]

ExitScope ==
  /\ Innermost > 1
  /\ scopes' = SubSeq(scopes, 1, Innermost - 1)

Next ==
  \/ EnterScope
  \/ \E symbol \in Symbol, value \in Value : Put(symbol, value)
  \/ ExitScope

Spec == Init /\ [][Next]_scopes

Declares(n, symbol) == symbol \in DOMAIN scopes[n]

\* The value of a symbol, if a scope declares it.
Lookup(symbol) ==
  IF \E n \in DOMAIN scopes : Declares(n, symbol)
  THEN LET n == CHOOSE k \in DOMAIN scopes :
                  /\ Declares(k, symbol)
                  /\ \A j \in DOMAIN scopes : Declares(j, symbol) => j <= k
       IN  scopes[n][symbol]
  ELSE NoValue
=============================================================================
