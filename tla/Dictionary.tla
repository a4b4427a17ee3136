------------------------------ MODULE Dictionary ------------------------------
(***************************************************************************)
(* What users of a hash table may rely on: a value never changes while its *)
(* key is there, adding a key loses no other one, and a key goes only when *)
(* one is removed.  A removal may take others with it.  Module Hash        *)
(* implements it.                                                          *)
(***************************************************************************)
CONSTANTS Keys, Vals

VARIABLE dict     \* a function from the keys that are there to their values

Init == dict = [k \in {} |-> {}]

With(d, k, v) == [j \in DOMAIN d \cup {k} |-> IF j \in DOMAIN d THEN d[j] ELSE v]
Without(d, gone) == [k \in DOMAIN d \ gone |-> d[k]]

\* The first value wins.
Add == \E k \in Keys, v \in Vals : dict' = With(dict, k, v)

Remove == \E gone \in SUBSET DOMAIN dict : dict' = Without(dict, gone)

\* A value is replaced by removing it first.
Replace ==
  \E k \in DOMAIN dict, v \in Vals : \E gone \in SUBSET DOMAIN dict :
    k \in gone /\ dict' = With(Without(dict, gone), k, v)

Next == Add \/ Remove \/ Replace

Spec == Init /\ [][Next]_dict
===============================================================================
