--------------------------------- MODULE Map ---------------------------------
(***************************************************************************)
(* What a hash table promises: a map that one key at a time is set in or   *)
(* removed from.                                                           *)
(***************************************************************************)
CONSTANTS Key, Value, NoValue

VARIABLE content   \* content[k]: the value of key k, or NoValue

Init == content = [k \in Key |-> NoValue]

Set(key, value) == content' = [content EXCEPT ![key] = value]

Remove(key) == content' = [content EXCEPT ![key] = NoValue]

Next == \E key \in Key : Remove(key) \/ \E value \in Value : Set(key, value)

Spec == Init /\ [][Next]_content
=============================================================================
