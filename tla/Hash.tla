--------------------------------- MODULE Hash ---------------------------------
(***************************************************************************)
(* The hash table of hash.c.  A chain is the set of its nodes: no function *)
(* of hash.c that siege calls shows their order.                           *)
(***************************************************************************)
EXTENDS Integers, FiniteSets

CONSTANTS Keys, Vals,
          Fnv,      \* fnv_32_buf: a number for each key
          Powers,   \* the powers of two an int holds, from 2 on
          Initial   \* the buckets of a new table; 10240 in new_hash

ASSUME HashAssumption ==
  /\ Fnv \in [Keys -> Nat] /\ Powers \subseteq Nat \ {0} /\ Initial \in Nat \ {0}

VARIABLE hash       \* [size, entries, table]

Nodes == [key : Keys, val : Vals]

GenKey(size, k) == Fnv[k] % size

NewHash(size) == [size |-> size, entries |-> 0, table |-> [x \in 0 .. size - 1 |-> {}]]

NodesOf(h) == UNION { h.table[x] : x \in 0 .. h.size - 1 }

\* __lookup and hash_get search one chain only.
Lookup(h, k) == \E n \in h.table[GenKey(h.size, k)] : n.key = k
Get(h, k) == (CHOOSE n \in h.table[GenKey(h.size, k)] : n.key = k).val

\* hash_reset: the next power of two from twice the size.
Sizes(h) == { p \in Powers : p >= 2 * h.size /\ \A q \in Powers : q >= 2 * h.size => p <= q }

\* Mutant: of a chain only the first node is carried over.
ResizeHeads(h) ==
  LET size  == CHOOSE p \in Sizes(h) : TRUE
      heads == { CHOOSE n \in h.table[x] : TRUE : x \in { y \in 0 .. h.size - 1 : h.table[y] # {} } }
  IN [size |-> size, entries |-> Cardinality(heads),
      table |-> [x \in 0 .. size - 1 |-> { n \in heads : GenKey(size, n.key) = x }]]

\* Mutant: the chains stay where they are.
ResizeInPlace(h) ==
  LET size == CHOOSE p \in Sizes(h) : TRUE
  IN [size |-> size, entries |-> h.entries,
      table |-> [x \in 0 .. size - 1 |-> IF x < h.size THEN h.table[x] ELSE {}]]

\* __resize: every node goes to the chain of its key in the new table and is counted anew.
Resize(h) ==
  LET size == CHOOSE p \in Sizes(h) : TRUE
  IN [size |-> size, entries |-> Cardinality(NodesOf(h)),
      table |-> [x \in 0 .. size - 1 |-> { n \in NodesOf(h) : GenKey(size, n.key) = x }]]

Full(h) == h.entries >= h.size \div 4
\* Twice the size is still an int.
Growable(h) == Full(h) => Sizes(h) # {}

Insert(h, k, v) ==
  [size |-> h.size, entries |-> h.entries + 1,
   table |-> [h.table EXCEPT ![GenKey(h.size, k)] = @ \cup {[key |-> k, val |-> v]}]]

\* hash_nadd; the first value wins.
NAdd(h, k, v) ==
  IF Lookup(h, k) THEN h ELSE Insert(IF Full(h) THEN Resize(h) ELSE h, k, v)

\* hash_remove empties the whole chain of the key.
Drop(h, k) ==
  IF ~Lookup(h, k) THEN h
  ELSE LET x == GenKey(h.size, k)
       IN [size |-> h.size, entries |-> h.entries - Cardinality(h.table[x]),
           table |-> [h.table EXCEPT ![x] = {}]]

-----------------------------------------------------------------------------
HashInit == hash = NewHash(Initial)

\* hash_destroy leaves no table.
Destroyed == hash.size = 0
AddKey(k, v) == ~Destroyed /\ Growable(hash) /\ hash' = NAdd(hash, k, v)
RemoveKey(k) == ~Destroyed /\ hash' = Drop(hash, k)
Destroy   == ~Destroyed /\ hash' = NewHash(0)

HashNext ==
  \/ \E k \in Keys : RemoveKey(k) \/ \E v \in Vals : AddKey(k, v)
  \/ Destroy

HashSpec == HashInit /\ [][HashNext]_hash

-----------------------------------------------------------------------------
HashTypeOK(h) ==
  /\ h = [size |-> h.size, entries |-> h.entries, table |-> h.table]
  /\ h.size \in Nat /\ h.entries \in Nat
  /\ h.table \in [0 .. h.size - 1 -> SUBSET Nodes]

\* A node is in the chain a lookup of its key searches, after a resize too,
InOwnChain(h) == \A x \in 0 .. h.size - 1 : \A n \in h.table[x] : GenKey(h.size, n.key) = x
\* once,
OneOfEachKey(h) == \A m, n \in NodesOf(h) : m.key = n.key => m = n
\* and the entries are the nodes.
Counted(h) == IsFiniteSet(NodesOf(h)) /\ h.entries = Cardinality(NodesOf(h))

Ordered(h) == HashTypeOK(h) /\ InOwnChain(h) /\ OneOfEachKey(h) /\ Counted(h)

(***************************************************************************)
(* The table of hash.c stays in order: whatever was added, removed and     *)
(* rehashed, each node is in the one chain its key is looked up in, no key *)
(* is there twice, and the count that decides when to grow is exact.       *)
(***************************************************************************)
TableInOrder == Ordered(hash)

Dict(h) == [k \in { n.key : n \in NodesOf(h) } |-> (CHOOSE n \in NodesOf(h) : n.key = k).val]

D == INSTANCE Dictionary WITH dict <- Dict(hash)

(***************************************************************************)
(* The table is a dictionary whose removals may take other keys along      *)
(* (hash_remove frees the chain): no value changes, and no key is lost by  *)
(* an addition, even one that makes the table grow.                        *)
(***************************************************************************)
DictSpec == D!Spec
===============================================================================
