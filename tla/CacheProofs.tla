----------------------------- MODULE CacheProofs -----------------------------
(***************************************************************************)
(* The cache with its table and its dates, for every set of URLs, answers  *)
(* and times, every hash function and every initial size: the table stays  *)
(* in order and is a dictionary; a text that is a date of HTTP is read as  *)
(* it is meant, and what is printed is read back; so what the cache serves *)
(* is fresh, and what its requests name is what answers told last.         *)
(***************************************************************************)
EXTENDS Cache, FiniteSetTheorems, SequenceTheorems, TLAPS

-----------------------------------------------------------------------------
(* The table.                                                              *)

\* A number of a key leads to one of the chains.
LEMMA KeyRange ==
  ASSUME NEW size \in Nat \ {0}, NEW k \in Keys
  PROVE  GenKey(size, k) \in 0 .. size - 1
<1>1. Fnv[k] \in Nat
  BY HashAssumption
<1>. QED
  BY <1>1, SMT DEF GenKey

\* What new_hash makes, and what hash_destroy leaves.
LEMMA NewInOrder ==
  ASSUME NEW size \in Nat
  PROVE  Ordered(NewHash(size)) /\ NodesOf(NewHash(size)) = {}
<1>1. NodesOf(NewHash(size)) = {}
  BY DEF NodesOf, NewHash
<1>2. Counted(NewHash(size))
  BY <1>1, FS_EmptySet DEF Counted, NewHash
<1>3. HashTypeOK(NewHash(size)) /\ InOwnChain(NewHash(size))
  BY DEF HashTypeOK, InOwnChain, NewHash
<1>. QED
  BY <1>1, <1>2, <1>3 DEF Ordered, OneOfEachKey

\* A lookup finds a key if and only if some chain has it.
LEMMA LookupFinds ==
  ASSUME NEW h, Ordered(h), h.size > 0, NEW k \in Keys
  PROVE  Lookup(h, k) <=> \E n \in NodesOf(h) : n.key = k
<1>1. GenKey(h.size, k) \in 0 .. h.size - 1
  BY KeyRange DEF Ordered, HashTypeOK
<1>2. ASSUME Lookup(h, k) PROVE \E n \in NodesOf(h) : n.key = k
  BY <1>1, <1>2 DEF Lookup, NodesOf
<1>3. ASSUME NEW n \in NodesOf(h), n.key = k PROVE Lookup(h, k)
  BY <1>3 DEF Ordered, InOwnChain, NodesOf, Lookup
<1>. QED
  BY <1>2, <1>3

\* A node put into the chain of its key, which no node has, is one entry more.
LEMMA InsertInOrder ==
  ASSUME NEW h, Ordered(h), h.size > 0, NEW k \in Keys, NEW v \in Vals, ~Lookup(h, k)
  PROVE  /\ Ordered(Insert(h, k, v))
         /\ NodesOf(Insert(h, k, v)) = NodesOf(h) \cup {[key |-> k, val |-> v]}
<1>. DEFINE x == GenKey(h.size, k)
            n == [key |-> k, val |-> v]
            i == Insert(h, k, v)
<1>1. x \in 0 .. h.size - 1 /\ n \in Nodes
  BY KeyRange DEF Ordered, HashTypeOK, Nodes
<1>2. /\ i = [size |-> h.size, entries |-> h.entries + 1,
               table |-> [h.table EXCEPT ![x] = h.table[x] \cup {n}]]
      /\ HashTypeOK(i)
  BY <1>1 DEF Ordered, HashTypeOK, Insert
<1>3. NodesOf(i) = NodesOf(h) \cup {n}
  BY <1>1, <1>2 DEF NodesOf, Ordered, HashTypeOK
<1>4. InOwnChain(i)
  BY <1>1, <1>2 DEF InOwnChain, Ordered, HashTypeOK
<1>5. \A m \in NodesOf(h) : m.key # k
  BY LookupFinds
<1>6. OneOfEachKey(i)
  BY <1>3, <1>5 DEF OneOfEachKey, Ordered
<1>7. Counted(i)
  <2>1. n \notin NodesOf(h)
    BY <1>5
  <2>2. IsFiniteSet(NodesOf(h)) /\ h.entries = Cardinality(NodesOf(h))
    BY DEF Ordered, Counted
  <2>3. IsFiniteSet(NodesOf(h) \cup {n}) /\ Cardinality(NodesOf(h) \cup {n}) = Cardinality(NodesOf(h)) + 1
    BY <2>1, <2>2, FS_AddElement
  <2>4. i.entries = h.entries + 1
    BY <1>2
  <2>. HIDE DEF i, n
  <2>. QED
    BY <1>3, <2>2, <2>3, <2>4 DEF Counted
<1>. QED
  BY <1>2, <1>3, <1>4, <1>6, <1>7 DEF Ordered

\* A table that grows keeps its nodes.
LEMMA ResizeInOrder ==
  ASSUME NEW h, Ordered(h), Sizes(h) # {}
  PROVE  /\ Ordered(Resize(h)) /\ Resize(h).size > 0
         /\ NodesOf(Resize(h)) = NodesOf(h)
<1>. DEFINE s == CHOOSE p \in Sizes(h) : TRUE
            r == Resize(h)
<1>1. s \in Nat \ {0}
  BY HashAssumption DEF Sizes
<1>2. r = [size |-> s, entries |-> Cardinality(NodesOf(h)),
           table |-> [x \in 0 .. s - 1 |-> { n \in NodesOf(h) : GenKey(s, n.key) = x }]]
  BY DEF Resize
<1>3. NodesOf(h) \subseteq Nodes
  BY DEF NodesOf, Ordered, HashTypeOK
<1>4. NodesOf(r) = NodesOf(h)
  <2>1. \A n \in NodesOf(h) : GenKey(s, n.key) \in 0 .. s - 1
    BY <1>1, <1>3, KeyRange DEF Nodes
  <2>. HIDE DEF s
  <2>. QED
    BY <1>1, <1>2, <2>1 DEF NodesOf
<1>5. IsFiniteSet(NodesOf(h)) /\ Cardinality(NodesOf(h)) \in Nat
  BY FS_CardinalityType DEF Ordered, Counted
<1>6. HashTypeOK(r) /\ InOwnChain(r)
  <2>. HIDE DEF s
  <2>. QED
    BY <1>1, <1>2, <1>3, <1>5 DEF HashTypeOK, InOwnChain
<1>7. OneOfEachKey(r) /\ Counted(r)
  <2>1. r.entries = Cardinality(NodesOf(h))
    BY <1>2
  <2>. HIDE DEF r
  <2>. QED
    BY <1>4, <1>5, <2>1 DEF OneOfEachKey, Counted, Ordered
<1>. QED
  BY <1>1, <1>2, <1>4, <1>6, <1>7 DEF Ordered

\* Without a chain the table is in order too.
LEMMA DropInOrder ==
  ASSUME NEW h, Ordered(h), h.size > 0, NEW k \in Keys
  PROVE  /\ Ordered(Drop(h, k)) /\ Drop(h, k).size = h.size
         /\ NodesOf(Drop(h, k)) \subseteq NodesOf(h)
<1>. DEFINE x == GenKey(h.size, k)
            d == Drop(h, k)
<1>1. CASE ~Lookup(h, k)
  BY <1>1 DEF Drop
<1>2. CASE Lookup(h, k)
  <2>1. x \in 0 .. h.size - 1
    BY KeyRange DEF Ordered, HashTypeOK
  <2>2. d = [size |-> h.size, entries |-> h.entries - Cardinality(h.table[x]),
             table |-> [h.table EXCEPT ![x] = {}]]
    BY <1>2, <2>1 DEF Drop, Ordered, HashTypeOK
  <2>3. h.table[x] \subseteq NodesOf(h)
    BY <2>1 DEF NodesOf
  <2>4. NodesOf(d) = NodesOf(h) \ h.table[x]
    <3>1. \A n \in h.table[x] : \A y \in 0 .. h.size - 1 : n \in h.table[y] => y = x
      BY <2>1 DEF Ordered, InOwnChain
    <3>. HIDE DEF x
    <3>. QED
      BY <2>1, <2>2, <3>1 DEF NodesOf, Ordered, HashTypeOK
  <2>5. Counted(d)
    <3>1. IsFiniteSet(NodesOf(h)) /\ h.entries = Cardinality(NodesOf(h))
      BY DEF Ordered, Counted
    <3>2. IsFiniteSet(h.table[x]) /\ NodesOf(h) \cap h.table[x] = h.table[x]
      BY <2>3, <3>1, FS_Subset
    <3>3. /\ IsFiniteSet(NodesOf(h) \ h.table[x])
          /\ Cardinality(NodesOf(h) \ h.table[x]) = Cardinality(NodesOf(h)) - Cardinality(NodesOf(h) \cap h.table[x])
      BY <3>1, <3>2, FS_Difference
    <3>4. d.entries = Cardinality(NodesOf(h)) - Cardinality(h.table[x])
      BY <2>2, <3>1
    <3>. HIDE DEF d, x
    <3>. QED
      BY <2>4, <3>2, <3>3, <3>4 DEF Counted
  <2>6. HashTypeOK(d)
    <3>1. d.entries \in Nat
      BY <2>2, <2>5, FS_CardinalityType DEF Counted
    <3>. QED
      BY <2>1, <2>2, <3>1 DEF HashTypeOK, Ordered
  <2>7. InOwnChain(d)
    BY <2>1, <2>2 DEF InOwnChain, Ordered, HashTypeOK
  <2>8. d.size = h.size
    BY <2>2
  <2>9. Ordered(d) /\ NodesOf(d) \subseteq NodesOf(h)
    <3>. HIDE DEF d, x
    <3>. QED
      BY <2>4, <2>5, <2>6, <2>7 DEF Ordered, OneOfEachKey
  <2>. QED
    BY <2>8, <2>9
<1>. QED
  BY <1>1, <1>2

-----------------------------------------------------------------------------
\* hash_nadd: nothing when the key is there, else one node more.
LEMMA NAddAdds ==
  ASSUME NEW h, Ordered(h), h.size > 0, Growable(h), NEW k \in Keys, NEW v \in Vals
  PROVE  /\ Ordered(NAdd(h, k, v))
         /\ Lookup(h, k) => NAdd(h, k, v) = h
         /\ ~Lookup(h, k) => NodesOf(NAdd(h, k, v)) = NodesOf(h) \cup {[key |-> k, val |-> v]}
<1>. DEFINE r == IF Full(h) THEN Resize(h) ELSE h
<1>1. CASE Lookup(h, k)
  BY <1>1 DEF NAdd
<1>2. CASE ~Lookup(h, k)
  <2>1. Ordered(r) /\ r.size > 0 /\ NodesOf(r) = NodesOf(h)
    BY ResizeInOrder DEF Growable
  <2>2. ~Lookup(r, k)
    BY <1>2, <2>1, LookupFinds
  <2>3. NAdd(h, k, v) = Insert(r, k, v)
    BY <1>2 DEF NAdd
  <2>. HIDE DEF r
  <2>. QED
    BY <1>2, <2>1, <2>2, <2>3, InsertInOrder
<1>. QED
  BY <1>1, <1>2

LEMMA Inductive == HashSpec => []TableInOrder
<1>1. HashInit => TableInOrder
  BY NewInOrder, HashAssumption DEF HashInit, TableInOrder
<1>2. TableInOrder /\ [HashNext]_hash => TableInOrder'
  <2>. SUFFICES ASSUME TableInOrder, [HashNext]_hash PROVE TableInOrder'
    OBVIOUS
  <2>. USE DEF TableInOrder
  <2>1. hash.size \in Nat
    BY DEF Ordered, HashTypeOK
  <2>2. ASSUME NEW k \in Keys, NEW v \in Vals, AddKey(k, v) PROVE Ordered(hash')
    BY <2>1, <2>2, NAddAdds DEF AddKey, Destroyed
  <2>3. ASSUME NEW k \in Keys, RemoveKey(k) PROVE Ordered(hash')
    BY <2>1, <2>3, DropInOrder DEF RemoveKey, Destroyed
  <2>4. ASSUME Destroy PROVE Ordered(hash')
    BY <2>4, NewInOrder DEF Destroy
  <2>5. ASSUME UNCHANGED hash PROVE Ordered(hash')
    BY <2>5
  <2>6. Ordered(hash')
    BY <2>2, <2>3, <2>4, <2>5 DEF HashNext
  <2>. QED
    BY <2>6
<1>. QED
  BY <1>1, <1>2, PTL DEF HashSpec

(***************************************************************************)
(* Whatever is added, removed and rehashed, each node is in the chain its  *)
(* key is looked up in, no key is there twice and the count is exact.      *)
(***************************************************************************)
THEOREM TableStaysInOrder == HashSpec => []TableInOrder
  BY Inductive

-----------------------------------------------------------------------------
\* The value of a key is that of its node.
LEMMA DictAt ==
  ASSUME NEW h, Ordered(h)
  PROVE  /\ DOMAIN Dict(h) = { n.key : n \in NodesOf(h) }
         /\ Dict(h) = [j \in DOMAIN Dict(h) |-> Dict(h)[j]]
         /\ \A n \in NodesOf(h) : Dict(h)[n.key] = n.val
<1>1. DOMAIN Dict(h) = { n.key : n \in NodesOf(h) } /\ Dict(h) = [j \in DOMAIN Dict(h) |-> Dict(h)[j]]
  BY DEF Dict
<1>2. ASSUME NEW n \in NodesOf(h) PROVE Dict(h)[n.key] = n.val
  <2>1. \A m \in NodesOf(h) : m.key = n.key => m = n
    BY DEF Ordered, OneOfEachKey
  <2>2. (CHOOSE m \in NodesOf(h) : m.key = n.key) = n
    BY <2>1
  <2>3. n.key \in { m.key : m \in NodesOf(h) }
    OBVIOUS
  <2>. QED
    BY <2>2, <2>3 DEF Dict
<1>. QED
  BY <1>1, <1>2

LEMMA DictOfAdd ==
  ASSUME NEW h, Ordered(h), NEW g, Ordered(g), NEW k \in Keys, NEW v \in Vals,
         \A n \in NodesOf(h) : n.key # k,
         NodesOf(g) = NodesOf(h) \cup {[key |-> k, val |-> v]}
  PROVE  Dict(g) = D!With(Dict(h), k, v)
<1>. DEFINE n == [key |-> k, val |-> v]
<1>1. DOMAIN Dict(g) = DOMAIN Dict(h) \cup {k}
  <2>1. { m.key : m \in NodesOf(g) } = { m.key : m \in NodesOf(h) } \cup {n.key}
    OBVIOUS
  <2>. QED
    BY <2>1, DictAt
<1>2. ASSUME NEW j \in DOMAIN Dict(h) PROVE Dict(g)[j] = Dict(h)[j]
  <2>1. DOMAIN Dict(h) = { m.key : m \in NodesOf(h) }
    BY DictAt
  <2>2. PICK m \in NodesOf(h) : m.key = j
    BY <2>1
  <2>3. m \in NodesOf(g)
    OBVIOUS
  <2>. QED
    BY <2>2, <2>3, DictAt
<1>3. Dict(g)[k] = v
  <2>1. n \in NodesOf(g) /\ n.key = k /\ n.val = v
    OBVIOUS
  <2>2. Dict(g)[n.key] = n.val
    BY <2>1, DictAt
  <2>. QED
    BY <2>1, <2>2
<1>4. k \notin DOMAIN Dict(h)
  <2>1. DOMAIN Dict(h) = { m.key : m \in NodesOf(h) }
    BY DictAt
  <2>. QED
    BY <2>1
<1>5. Dict(g) = [j \in DOMAIN Dict(g) |-> Dict(g)[j]]
  BY DictAt
<1>. QED
  BY <1>1, <1>2, <1>3, <1>4, <1>5 DEF D!With

LEMMA DictOfFewer ==
  ASSUME NEW h, Ordered(h), NEW g, Ordered(g), NodesOf(g) \subseteq NodesOf(h)
  PROVE  \E gone \in SUBSET DOMAIN Dict(h) : Dict(g) = D!Without(Dict(h), gone)
<1>. DEFINE gone == DOMAIN Dict(h) \ DOMAIN Dict(g)
<1>1. DOMAIN Dict(g) = DOMAIN Dict(h) \ gone
  <2>1. { n.key : n \in NodesOf(g) } \subseteq { n.key : n \in NodesOf(h) }
    OBVIOUS
  <2>. QED
    BY <2>1, DictAt
<1>2. ASSUME NEW j \in DOMAIN Dict(g) PROVE Dict(g)[j] = Dict(h)[j]
  <2>1. DOMAIN Dict(g) = { m.key : m \in NodesOf(g) }
    BY DictAt
  <2>2. PICK m \in NodesOf(g) : m.key = j
    BY <2>1
  <2>3. m \in NodesOf(h)
    OBVIOUS
  <2>. QED
    BY <2>2, <2>3, DictAt
<1>3. Dict(g) = [j \in DOMAIN Dict(g) |-> Dict(g)[j]]
  BY DictAt
<1>4. Dict(g) = [j \in DOMAIN Dict(h) \ gone |-> Dict(h)[j]]
  <2>1. Dict(g) = [j \in DOMAIN Dict(g) |-> Dict(h)[j]]
    BY <1>2, <1>3
  <2>. QED
    BY <1>1, <2>1
<1>5. gone \in SUBSET DOMAIN Dict(h)
  OBVIOUS
<1>. QED
  <2>1. Dict(g) = D!Without(Dict(h), gone)
    BY <1>4, Zenon DEF D!Without
  <2>. HIDE DEF gone
  <2>. QED
    BY <1>5, <2>1, Zenon

(***************************************************************************)
(* The table implements Dictionary: a value stays as long as its key, an   *)
(* addition loses nothing, and what hash_remove takes along are whole keys.*)
(***************************************************************************)
THEOREM ImplementsDictionary == HashSpec => DictSpec
<1>1. HashInit => D!Init
  <2>. SUFFICES ASSUME HashInit PROVE Dict(hash) = [k \in {} |-> {}]
    BY DEF D!Init
  <2>1. NodesOf(hash) = {}
    BY NewInOrder, HashAssumption DEF HashInit
  <2>. QED
    BY <2>1 DEF Dict
<1>2. TableInOrder /\ TableInOrder' /\ [HashNext]_hash => [D!Next]_(Dict(hash))
  <2>. SUFFICES ASSUME TableInOrder, TableInOrder', [HashNext]_hash
                PROVE  D!Next \/ UNCHANGED Dict(hash)
    OBVIOUS
  <2>1. Ordered(hash) /\ Ordered(hash') /\ hash.size \in Nat
    BY DEF TableInOrder, Ordered, HashTypeOK
  <2>2. ASSUME NEW k \in Keys, NEW v \in Vals, AddKey(k, v) PROVE D!Next \/ UNCHANGED Dict(hash)
    <3>1. hash' = NAdd(hash, k, v) /\ hash.size > 0 /\ Growable(hash)
      BY <2>1, <2>2 DEF AddKey, Destroyed
    <3>2. CASE Lookup(hash, k)
      <4>1. hash' = hash
        BY <2>1, <3>1, <3>2, NAddAdds
      <4>. QED
        BY <4>1
    <3>3. CASE ~Lookup(hash, k)
      <4>1. NodesOf(hash') = NodesOf(hash) \cup {[key |-> k, val |-> v]}
        BY <2>1, <3>1, <3>3, NAddAdds
      <4>2. \A n \in NodesOf(hash) : n.key # k
        BY <2>1, <3>1, <3>3, LookupFinds
      <4>3. Dict(hash') = D!With(Dict(hash), k, v)
        BY <2>1, <4>1, <4>2, DictOfAdd
      <4>. QED
        BY <4>3 DEF D!Next, D!Add
    <3>. QED
      BY <3>2, <3>3
  <2>3. ASSUME NodesOf(hash') \subseteq NodesOf(hash) PROVE D!Next
    <3>1. \E gone \in SUBSET DOMAIN Dict(hash) : Dict(hash') = D!Without(Dict(hash), gone)
      BY <2>1, <2>3, DictOfFewer
    <3>. QED
      BY <3>1 DEF D!Next, D!Remove
  <2>4. ASSUME NEW k \in Keys, RemoveKey(k) PROVE NodesOf(hash') \subseteq NodesOf(hash)
    BY <2>1, <2>4, DropInOrder DEF RemoveKey, Destroyed
  <2>5. ASSUME Destroy PROVE NodesOf(hash') \subseteq NodesOf(hash)
    BY <2>5, NewInOrder DEF Destroy
  <2>6. ASSUME UNCHANGED hash PROVE UNCHANGED Dict(hash)
    BY <2>6
  <2>. QED
    BY <2>2, <2>3, <2>4, <2>5, <2>6 DEF HashNext
<1>. QED
  BY <1>1, <1>2, Inductive, PTL DEF HashSpec, DictSpec, D!Spec

-----------------------------------------------------------------------------
(* Dates: the calendar.                                                    *)

\* The first day of a year.
LEMMA YearBegins ==
  ASSUME NEW y \in Int
  PROVE  /\ Days(y, 0, 1) = 365 * (y - 1970) + LeapDays(y) - 477
         /\ LeapDays(y) \in Int /\ Days(y, 0, 1) \in Int
<1>1. LeapDays(y) \in Int /\ LeapDays(1970) = 477
  BY DEF LeapDays
<1>2. Before[0 + 1] = 0
  BY DEF Before
<1>3. Days(y, 0, 1) = 365 * (y - 1970) + LeapDays(y) - 477 + 0 + 0 + 1 - 1
  BY <1>1, <1>2 DEF Days
<1>. QED
  BY <1>1, <1>3

LEMMA YearsFollow ==
  ASSUME NEW y \in Int, NEW z \in Int, y < z
  PROVE  Days(y, 0, 1) < Days(z, 0, 1)
<1>1. LeapDays(z) - LeapDays(y) >= -3
  BY DEF LeapDays
<1>. QED
  BY <1>1, YearBegins

\* The year of a day: among the eight that YearOf looks at, one begins at or before the day and
\* ends after it.
LEMMA YearFound ==
  ASSUME NEW n \in Int, Days(1901, 0, 1) <= n, n < Days(3871, 0, 1)
  PROVE  /\ YearOf(n) \in 1901 .. 3870
         /\ Days(YearOf(n), 0, 1) <= n /\ n < Days(YearOf(n) + 1, 0, 1)
<1>. DEFINE e == 1970 + (n \div 365)
            In(y) == Days(y, 0, 1) <= n /\ n < Days(y + 1, 0, 1)
<1>1. Days(1901, 0, 1) = -25202 /\ Days(3871, 0, 1) = 694326
  <2>1. LeapDays(1901) = 460 /\ LeapDays(3871) = 938
    BY DEF LeapDays
  <2>2. /\ Days(1901, 0, 1) = 365 * (1901 - 1970) + LeapDays(1901) - 477
        /\ Days(3871, 0, 1) = 365 * (3871 - 1970) + LeapDays(3871) - 477
    BY YearBegins
  <2>. QED
    BY <2>1, <2>2
<1>2. e \in Int /\ e >= 1900 /\ e =< 3873 /\ 365 * (e - 1970) <= n /\ n < 365 * (e - 1969)
  BY <1>1
<1>. HIDE DEF e
<1>3. Days(e - 6, 0, 1) <= n
  <2>1. LeapDays(e - 6) - 477 =< 2190
    BY <1>2 DEF LeapDays
  <2>2. Days(e - 6, 0, 1) = 365 * ((e - 6) - 1970) + LeapDays(e - 6) - 477
    BY <1>2, YearBegins
  <2>3. LeapDays(e - 6) \in Int
    BY <1>2, YearBegins
  <2>. QED
    BY <1>2, <2>1, <2>2, <2>3
<1>4. n < Days(e + 2, 0, 1)
  <2>1. LeapDays(e + 2) - 477 >= -20
    BY <1>2 DEF LeapDays
  <2>2. Days(e + 2, 0, 1) = 365 * ((e + 2) - 1970) + LeapDays(e + 2) - 477
    BY <1>2, YearBegins
  <2>3. LeapDays(e + 2) \in Int
    BY <1>2, YearBegins
  <2>. QED
    BY <1>2, <2>1, <2>2, <2>3
<1>5. \E y \in e - 6 .. e + 1 : In(y)
  <2>. DEFINE Day(k) == Days(e + k, 0, 1)
  <2>1. /\ e - 6 = e + (-6) /\ \A k \in -6 .. 2 : Day(k) \in Int
        /\ \A k \in -6 .. 1 : (e + k) + 1 = e + (k + 1)
    BY <1>2, YearBegins
  <2>2. Day(-6) <= n /\ n < Day(2)
    BY <1>3, <1>4, <2>1
  <2>3. \A k \in -6 .. 1 : Day(k) <= n /\ n < Day(k + 1) => In(e + k)
    BY <2>1
  <2>. HIDE DEF Day
  <2>4. \E k \in -6 .. 1 : Day(k) <= n /\ n < Day(k + 1)
    <3>1. /\ Day(-6) \in Int /\ Day(-5) \in Int /\ Day(-4) \in Int /\ Day(-3) \in Int /\ Day(-2) \in Int
          /\ Day(-1) \in Int /\ Day(0) \in Int /\ Day(1) \in Int /\ Day(2) \in Int
      BY <2>1
    <3>. SUFFICES ASSUME \A k \in -6 .. 1 : ~(Day(k) <= n /\ n < Day(k + 1)) PROVE FALSE
      OBVIOUS
    <3>2. /\ ~(Day(-6) <= n /\ n < Day(-5)) /\ ~(Day(-5) <= n /\ n < Day(-4)) /\ ~(Day(-4) <= n /\ n < Day(-3))
          /\ ~(Day(-3) <= n /\ n < Day(-2)) /\ ~(Day(-2) <= n /\ n < Day(-1)) /\ ~(Day(-1) <= n /\ n < Day(0))
          /\ ~(Day(0) <= n /\ n < Day(1)) /\ ~(Day(1) <= n /\ n < Day(2))
      OBVIOUS
    <3>. QED
      BY <2>2, <3>1, <3>2
  <2>5. PICK k \in -6 .. 1 : Day(k) <= n /\ n < Day(k + 1)
    BY <2>4
  <2>6. In(e + k) /\ e + k \in e - 6 .. e + 1
    BY <1>2, <2>3, <2>5
  <2>. HIDE DEF In
  <2>. QED
    BY <2>6
<1>. DEFINE y == YearOf(n)
<1>6. y = CHOOSE z \in e - 6 .. e + 1 : In(z)
  BY DEF YearOf, e
<1>7. y \in e - 6 .. e + 1 /\ In(y)
  <2>. HIDE DEF In, y
  <2>. QED
    BY <1>5, <1>6
<1>. HIDE DEF y
<1>8. y \in Int
  BY <1>2, <1>7
<1>9. y >= 1901
  <2>1. ASSUME y < 1901 PROVE FALSE
    <3>1. y + 1 \in Int /\ (y + 1 < 1901 \/ y + 1 = 1901)
      BY <1>8, <2>1
    <3>2. Days(y + 1, 0, 1) <= Days(1901, 0, 1)
      <4>1. CASE y + 1 < 1901
        <5>1. Days(y + 1, 0, 1) < Days(1901, 0, 1) /\ Days(y + 1, 0, 1) \in Int
          BY <3>1, <4>1, YearsFollow, YearBegins
        <5>. QED
          BY <1>1, <5>1
      <4>2. CASE y + 1 = 1901
        BY <1>1, <4>2
      <4>. QED
        BY <3>1, <4>1, <4>2
    <3>. QED
      BY <1>1, <1>7, <3>1, <3>2, YearBegins
  <2>. QED
    BY <1>8, <2>1
<1>10. y =< 3870
  <2>1. ASSUME y > 3870 PROVE FALSE
    <3>1. 3871 < y \/ 3871 = y
      BY <1>8, <2>1
    <3>2. Days(3871, 0, 1) <= Days(y, 0, 1)
      <4>1. CASE 3871 < y
        <5>. DEFINE z == 3871
        <5>1. z \in Int /\ z < y
          BY <4>1
        <5>. HIDE DEF z
        <5>2. Days(z, 0, 1) < Days(y, 0, 1)
          BY <1>8, <5>1, YearsFollow
        <5>3. Days(y, 0, 1) \in Int
          BY <1>8, YearBegins
        <5>. QED
          BY <1>1, <5>2, <5>3 DEF z
      <4>2. CASE 3871 = y
        BY <1>1, <4>2
      <4>. QED
        BY <3>1, <4>1, <4>2
    <3>. QED
      BY <1>1, <1>7, <1>8, <3>2, YearBegins
  <2>. QED
    BY <1>8, <2>1
<1>. QED
  BY <1>7, <1>8, <1>9, <1>10 DEF y

\* A month begins after those before it, and the year after the last.
LEMMA MonthBegins ==
  ASSUME NEW y \in Int, NEW m \in 0 .. 11
  PROVE  /\ Before[m + 1] \in Nat
         /\ Days(y, m, 1) = Days(y, 0, 1) + Before[m + 1] + (IF Leap(y) /\ m > 1 THEN 1 ELSE 0)
<1>1. Before[m + 1] \in Nat
  BY DEF Before
<1>2. LeapDays(y) \in Int /\ LeapDays(1970) = 477
  BY DEF LeapDays
<1>. DEFINE leap == IF Leap(y) /\ m > 1 THEN 1 ELSE 0
<1>3. leap \in Int
  OBVIOUS
<1>4. Days(y, m, 1) = 365 * (y - 1970) + LeapDays(y) - 477 + Before[m + 1] + leap + 1 - 1
  BY <1>2 DEF Days
<1>. HIDE DEF leap
<1>5. Days(y, m, 1) = Days(y, 0, 1) + Before[m + 1] + leap
  <2>1. Days(y, 0, 1) = 365 * (y - 1970) + LeapDays(y) - 477
    BY YearBegins
  <2>. DEFINE b == Before[m + 1]
              l == LeapDays(y)
  <2>2. b \in Int /\ l \in Int
    BY <1>1, <1>2
  <2>3. Days(y, m, 1) = 365 * (y - 1970) + l - 477 + b + leap + 1 - 1
    BY <1>4
  <2>4. Days(y, 0, 1) = 365 * (y - 1970) + l - 477
    BY <2>1
  <2>. HIDE DEF b, l
  <2>5. Days(y, m, 1) = Days(y, 0, 1) + b + leap
    BY <1>3, <2>2, <2>3, <2>4
  <2>. QED
    BY <2>5 DEF b
<1>. QED
  BY <1>1, <1>5 DEF leap

LEMMA YearEnds ==
  ASSUME NEW y \in Int
  PROVE  Days(y + 1, 0, 1) = Days(y, 0, 1) + 365 + (IF Leap(y) THEN 1 ELSE 0)
<1>1. LeapDays(y + 1) = LeapDays(y) + (IF Leap(y) THEN 1 ELSE 0)
  <2>1. (y + 1) - 1 = y
    OBVIOUS
  <2>2. ASSUME NEW d \in {4, 100, 400}
        PROVE  y \div d = (y - 1) \div d + (IF y % d = 0 THEN 1 ELSE 0)
    <3>1. CASE d = 4
      BY <3>1
    <3>2. CASE d = 100
      BY <3>2
    <3>3. CASE d = 400
      BY <3>3
    <3>. QED
      BY <3>1, <3>2, <3>3
  <2>3. (y % 400 = 0 => y % 100 = 0) /\ (y % 100 = 0 => y % 4 = 0)
    OBVIOUS
  <2>4. /\ y \div 4 = (y - 1) \div 4 + (IF y % 4 = 0 THEN 1 ELSE 0)
        /\ y \div 100 = (y - 1) \div 100 + (IF y % 100 = 0 THEN 1 ELSE 0)
        /\ y \div 400 = (y - 1) \div 400 + (IF y % 400 = 0 THEN 1 ELSE 0)
    BY <2>2
  <2>. QED
    BY <2>1, <2>3, <2>4 DEF LeapDays, Leap
<1>. QED
  BY <1>1, YearBegins

\* The day of the month of a day of year y.
LEMMA MonthFound ==
  ASSUME NEW n \in Int, NEW y \in Int, Days(y, 0, 1) <= n, n < Days(y + 1, 0, 1)
  PROVE  MonthOf(n, y) \in 0 .. 11 /\ n - Days(y, MonthOf(n, y), 1) + 1 \in 1 .. 31
<1>. DEFINE In(m) == Days(y, m, 1) <= n /\ (m = 11 \/ n < Days(y, m + 1, 1))
            Day(m) == Days(y, m, 1)
            first == Days(y, 0, 1)
            leap == IF Leap(y) THEN 1 ELSE 0
<1>1. first \in Int /\ leap \in 0 .. 1 /\ first <= n /\ n < first + 365 + leap
  BY YearBegins, YearEnds
<1>2. ASSUME NEW m \in 0 .. 11
      PROVE  Day(m) = first + Before[m + 1] + (IF m > 1 THEN leap ELSE 0) /\ Day(m) \in Int
  <2>1. Before[m + 1] \in Nat /\ Day(m) = first + Before[m + 1] + (IF Leap(y) /\ m > 1 THEN 1 ELSE 0)
    BY MonthBegins
  <2>. HIDE DEF Day, first
  <2>2. (IF Leap(y) /\ m > 1 THEN 1 ELSE 0) = (IF m > 1 THEN leap ELSE 0)
    OBVIOUS
  <2>3. (IF m > 1 THEN leap ELSE 0) \in Int
    OBVIOUS
  <2>. HIDE DEF leap
  <2>. QED
    BY <1>1, <2>1, <2>2, <2>3
<1>. HIDE DEF first, leap
<1>3. /\ Day(0) = first /\ Day(1) = first + 31 /\ Day(2) = first + 59 + leap /\ Day(3) = first + 90 + leap
      /\ Day(4) = first + 120 + leap /\ Day(5) = first + 151 + leap /\ Day(6) = first + 181 + leap
      /\ Day(7) = first + 212 + leap /\ Day(8) = first + 243 + leap /\ Day(9) = first + 273 + leap
      /\ Day(10) = first + 304 + leap /\ Day(11) = first + 334 + leap
  <2>. HIDE DEF Day
  <2>. QED
    BY <1>1, <1>2 DEF Before
<1>4. \E m \in 0 .. 11 : In(m)
  <2>1. \A m \in 0 .. 11 : In(m) <=> Day(m) <= n /\ (m = 11 \/ n < Day(m + 1))
    OBVIOUS
  <2>. HIDE DEF In, Day
  <2>2. SUFFICES ASSUME \A m \in 0 .. 11 : ~In(m) PROVE FALSE
    OBVIOUS
  <2>3. /\ ~(Day(0) <= n /\ n < Day(1)) /\ ~(Day(1) <= n /\ n < Day(2)) /\ ~(Day(2) <= n /\ n < Day(3))
        /\ ~(Day(3) <= n /\ n < Day(4)) /\ ~(Day(4) <= n /\ n < Day(5)) /\ ~(Day(5) <= n /\ n < Day(6))
        /\ ~(Day(6) <= n /\ n < Day(7)) /\ ~(Day(7) <= n /\ n < Day(8)) /\ ~(Day(8) <= n /\ n < Day(9))
        /\ ~(Day(9) <= n /\ n < Day(10)) /\ ~(Day(10) <= n /\ n < Day(11)) /\ ~(Day(11) <= n)
    BY <2>1, <2>2
  <2>. QED
    BY <1>1, <1>3, <2>3
<1>. DEFINE m == MonthOf(n, y)
<1>5. m = CHOOSE k \in 0 .. 11 : In(k)
  BY DEF MonthOf
<1>6. m \in 0 .. 11 /\ In(m)
  <2>. HIDE DEF In, m
  <2>. QED
    BY <1>4, <1>5
<1>. HIDE DEF m
<1>7. Day(m) \in Int /\ Day(m) <= n /\ (m = 11 \/ n < Day(m + 1))
  BY <1>2, <1>6
<1>. HIDE DEF Day, In
<1>8. n - Day(m) + 1 \in 1 .. 31
  <2>1. m \in {0, 1, 2, 3, 4, 5, 6, 7, 8, 9, 10, 11}
    BY <1>6
  <2>2. ASSUME m # 11 PROVE n < Day(m) + 31
    <3>1. Day(m + 1) <= Day(m) + 31
      BY <1>1, <1>3, <2>1, <2>2
    <3>2. m + 1 \in 0 .. 11
      BY <1>6, <2>2
    <3>. QED
      BY <1>2, <1>7, <2>2, <3>1, <3>2
  <2>3. ASSUME m = 11 PROVE n < Day(m) + 31
    BY <1>1, <1>3, <2>3
  <2>. QED
    BY <1>7, <2>2, <2>3
<1>. QED
  BY <1>6, <1>8 DEF m, Day

-----------------------------------------------------------------------------
(* Dates: reading a text word by word.                                     *)

\* The fold over the first n words, for every set of them.
IsReading(h, n, text) ==
  h = [s \in SUBSET (1 .. n) |-> IF s = {} THEN Unread ELSE Word(h[s \ {Max(s)}], text[Max(s)])]

LEMMA MaxIs ==
  ASSUME NEW s \in SUBSET Nat, NEW m \in s, \A y \in s : m >= y
  PROVE  Max(s) = m
<1>1. \E x \in s : \A y \in s : x >= y
  OBVIOUS
<1>2. Max(s) \in s /\ \A y \in s : Max(s) >= y
  BY <1>1 DEF Max
<1>3. Max(s) \in Nat /\ m \in Nat /\ Max(s) >= m /\ m >= Max(s)
  BY <1>2
<1>. QED
  BY <1>3

LEMMA OneMoreWord ==
  ASSUME NEW n \in Nat, NEW text, \E h : IsReading(h, n, text)
  PROVE  \E h : IsReading(h, n + 1, text)
<1>1. PICK h : IsReading(h, n, text)
  OBVIOUS
<1>2. \A s \in SUBSET (1 .. n) :
        h[s] = IF s = {} THEN Unread ELSE Word(h[s \ {Max(s)}], text[Max(s)])
  BY <1>1 DEF IsReading
<1>. DEFINE g == [s \in SUBSET (1 .. n + 1) |->
                    IF n + 1 \in s THEN Word(h[s \ {n + 1}], text[n + 1]) ELSE h[s]]
<1>3. ASSUME NEW s \in SUBSET (1 .. n + 1)
      PROVE  g[s] = IF s = {} THEN Unread ELSE Word(g[s \ {Max(s)}], text[Max(s)])
  <2>1. CASE n + 1 \in s
    <3>1. Max(s) = n + 1 /\ s # {}
      BY <2>1, MaxIs
    <3>. DEFINE r == s \ {n + 1}
    <3>2. r \in SUBSET (1 .. n + 1) /\ n + 1 \notin r
      OBVIOUS
    <3>3. g[s] = Word(h[r], text[n + 1])
      BY <2>1
    <3>. HIDE DEF r
    <3>4. g[r] = h[r]
      BY <3>2
    <3>. HIDE DEF g
    <3>. QED
      BY <3>1, <3>3, <3>4 DEF r
  <2>2. CASE n + 1 \notin s
    <3>1. s \in SUBSET (1 .. n) /\ g[s] = h[s]
      BY <2>2
    <3>. DEFINE r == s \ {Max(s)}
    <3>2. r \in SUBSET (1 .. n + 1) /\ n + 1 \notin r
      BY <2>2
    <3>. HIDE DEF r
    <3>3. g[r] = h[r]
      BY <3>2
    <3>. HIDE DEF g
    <3>4. h[s] = IF s = {} THEN Unread ELSE Word(h[r], text[Max(s)])
      BY <1>2, <3>1 DEF r
    <3>. QED
      BY <3>1, <3>3, <3>4 DEF r
  <2>. QED
    BY <2>1, <2>2
<1>4. IsReading(g, n + 1, text)
  <2>1. g = [s \in SUBSET (1 .. n + 1) |-> g[s]]
    OBVIOUS
  <2>. HIDE DEF g
  <2>. QED
    BY <1>3, <2>1 DEF IsReading
<1>. HIDE DEF g
<1>. QED
  BY <1>4

\* What is read of a text of n words, from one word to the next.
Read(text) == FoldLeft(Word, Unread, text)
Reads(f, n, text) ==
  /\ f[0] = Unread /\ Read(text) = f[n]
  /\ \A i \in 1 .. n : f[i] = Word(f[i - 1], text[i])

LEMMA WordByWord ==
  ASSUME NEW n \in 0 .. 6, NEW text, DOMAIN text = 1 .. n
  PROVE  \E f : Reads(f, n, text)
<1>1. \E h : IsReading(h, n, text)
  <2>. DEFINE E(k) == \E h : IsReading(h, k, text)
  <2>1. E(0)
    <3>1. IsReading([s \in SUBSET (1 .. 0) |-> Unread], 0, text)
      <4>1. SUBSET (1 .. 0) = {{}}
        OBVIOUS
      <4>. QED
        BY <4>1 DEF IsReading
    <3>. QED
      BY <3>1
  <2>2. \A k \in Nat : E(k) => E(k + 1)
    BY OneMoreWord
  <2>. HIDE DEF E
  <2>3. E(1) /\ E(2) /\ E(3) /\ E(4) /\ E(5) /\ E(6)
    <3>1. E(1)
      BY <2>1, <2>2
    <3>2. E(2)
      BY <3>1, <2>2
    <3>3. E(3)
      BY <3>2, <2>2
    <3>4. E(4)
      BY <3>3, <2>2
    <3>5. E(5)
      BY <3>4, <2>2
    <3>6. E(6)
      BY <3>5, <2>2
    <3>. QED
      BY <3>1, <3>2, <3>3, <3>4, <3>5, <3>6
  <2>4. E(n)
    BY <2>1, <2>3
  <2>. QED
    BY <2>4 DEF E
<1>. DEFINE iter == CHOOSE h : IsReading(h, n, text)
<1>2. IsReading(iter, n, text)
  BY <1>1
<1>3. FoldLeft(Word, Unread, text) = iter[1 .. n]
  <2>1. FoldLeft(Word, Unread, text) = iter[DOMAIN text]
    BY DEF FoldLeft, MapThenFoldSet, IsReading
  <2>. HIDE DEF iter
  <2>. QED
    BY <2>1
<1>. HIDE DEF iter
<1>. DEFINE f == [i \in 0 .. n |-> iter[1 .. i]]
<1>4. \A s \in SUBSET (1 .. n) :
        iter[s] = IF s = {} THEN Unread ELSE Word(iter[s \ {Max(s)}], text[Max(s)])
  BY <1>2 DEF IsReading
<1>5. iter[1 .. 0] = Unread
  <2>1. 1 .. 0 = {} /\ 1 .. 0 \in SUBSET (1 .. n)
    OBVIOUS
  <2>. QED
    BY <1>4, <2>1
<1>6. ASSUME NEW i \in 1 .. n PROVE f[i] = Word(f[i - 1], text[i])
  <2>0. n \in Nat /\ i \in Nat /\ 1 =< i /\ i =< n /\ i \in 1 .. i
    OBVIOUS
  <2>1. /\ 1 .. i \in SUBSET (1 .. n) /\ 1 .. i # {} /\ (1 .. i) \ {i} = 1 .. i - 1
        /\ i \in 0 .. n /\ i - 1 \in 0 .. n
    <3>1. (1 .. i) \ {i} = 1 .. i - 1
      BY <2>0
    <3>2. 1 .. i \in SUBSET (1 .. n)
      BY <2>0
    <3>. QED
      BY <2>0, <3>1, <3>2
  <2>2. Max(1 .. i) = i
    <3>1. i \in 1 .. i /\ 1 .. i \in SUBSET Nat /\ \A y \in 1 .. i : i >= y
      OBVIOUS
    <3>. QED
      BY <3>1, MaxIs
  <2>3. iter[1 .. i] = Word(iter[1 .. i - 1], text[i])
    BY <1>4, <2>1, <2>2
  <2>4. f[i] = iter[1 .. i] /\ f[i - 1] = iter[1 .. i - 1]
    BY <2>1
  <2>. HIDE DEF f
  <2>. QED
    BY <2>3, <2>4
<1>7. f[0] = Unread /\ f[n] = iter[1 .. n]
  BY <1>5
<1>. HIDE DEF f
<1>8. Reads(f, n, text)
  BY <1>3, <1>6, <1>7 DEF Read, Reads
<1>. QED
  BY <1>8

\* What is read so far of a date, and the kinds of words it has.
Got(mon, mday, year, tz, sec, next) ==
  [wday |-> 0, mon |-> mon, mday |-> mday, year |-> year, tz |-> tz, sec |-> sec, next |-> next]
IsDay(w) == w.kind = "name" /\ w.name \in ToSet(Wdays) \cup Weekdays
IsMonth(w) == w.kind = "name" /\ w.name \in ToSet(Months)
IsSec(sec) == sec \in Nat /\ sec < 86400
IsClock(w) == w.kind = "time" /\ IsSec(w.sec)
IsTime(w) == IsClock(w) /\ ~(w.width < 7)
IsCount(w) == /\ w.kind = "number" /\ w.val \in Nat /\ w.digits # 8
              /\ ~(w.digits = 4 /\ w.val < 1300 /\ w.sign # "none")
Gmt == [kind |-> "name", name |-> "GMT"]

\* __checkmonth finds the number of a month.
LEMMA MonthNoIs ==
  ASSUME NEW k \in 1 .. 12
  PROVE  MonthNo(Months[k]) = k - 1
<1>. DEFINE I == { i \in 1 .. Len(Months) : Months[i] = Months[k] }
<1>1. Len(Months) = 12
  BY DEF Months
<1>2. \A i \in 1 .. 12 : Months[i] = Months[k] => i = k
  BY DEF Months
<1>3. I = {k}
  BY <1>1, <1>2
<1>4. Min(I) = k
  <2>. HIDE DEF I
  <2>. QED
    BY <1>3 DEF Min
<1>5. MonthNo(Months[k]) = (IF I # {} THEN Min(I) ELSE 0) - 1
  BY DEF MonthNo, SelectInSeq
<1>. HIDE DEF I
<1>. QED
  BY <1>3, <1>4, <1>5

LEMMA MonthRange ==
  ASSUME NEW w, IsMonth(w)
  PROVE  MonthNo(w.name) \in 0 .. 11
<1>1. DOMAIN Months = 1 .. 12
  BY DEF Months
<1>2. PICK k \in 1 .. 12 : w.name = Months[k]
  BY <1>1 DEF IsMonth, ToSet
<1>3. MonthNo(w.name) = k - 1
  BY <1>2, MonthNoIs
<1>. QED
  BY <1>3

\* Each kind of word, where it is expected.
LEMMA DayWord ==
  ASSUME NEW w, IsDay(w)
  PROVE  Word(Unread, w) = Got(-1, -1, -1, -1, -1, "mday")
<1>1. Word(Unread, w) = Name(Unread, w.name)
  BY DEF Word, Unread, IsDay
<1>2. Name(Unread, w.name) = [Unread EXCEPT !.wday = 0]
  BY DEF Name, Unread, IsDay
<1>. QED
  BY <1>1, <1>2 DEF Unread, Got

\* A number that is no offset of a zone is the day of the month or, after that, the year.
LEMMA CountWord ==
  ASSUME NEW d, NEW w, IsCount(w)
  PROVE  /\ d.next = "mday" /\ d.mday = -1 /\ w.val \in 1 .. 31 =>
              Number(d, w) = [[d EXCEPT !.next = "year"] EXCEPT !.mday = w.val]
         /\ d.next = "year" /\ d.year = -1 /\ d.mday # -1 =>
              Number(d, w) = [d EXCEPT !.year = Since1900(w.val), !.next = @]
<1>. DEFINE zone == d.tz = -1 /\ w.digits = 4 /\ w.val < 1300 /\ w.sign # "none"
            off == ((w.val \div 100) * 60 + (w.val % 100)) * 60
            shifted == [d EXCEPT !.tz = IF w.sign = "+" THEN -off ELSE off]
            Day(e) == e.next = "mday" /\ e.mday = -1
            Turned(e) == [e EXCEPT !.next = "year"]
            F(e) == IF Day(e) THEN Turned(e) ELSE e
            Whole(e) == [e EXCEPT !.year = w.val \div 10000, !.mon = ((w.val % 10000) \div 100) - 1,
                                  !.mday = w.val % 100]
            Mday(f) == [f EXCEPT !.mday = w.val]
            Year(f) == [f EXCEPT !.year = Since1900(w.val), !.next = IF f.mday = -1 THEN "mday" ELSE @]
            Not(f) == [f EXCEPT !.next = "bad"]
            R(e) == IF w.digits = 8 /\ e.year = -1 /\ e.mon = -1 /\ e.mday = -1 THEN Whole(e)
                    ELSE IF zone THEN e
                    ELSE IF Day(e) /\ w.val \in 1 .. 31 THEN Mday(F(e))
                    ELSE IF F(e).next = "year" /\ F(e).year = -1 THEN Year(F(e))
                    ELSE Not(F(e))
<1>1. Number(d, w) = R(IF zone THEN shifted ELSE d)
  BY DEF Number
<1>2. ~zone /\ w.digits # 8
  BY DEF IsCount
<1>. HIDE DEF shifted, zone, Whole, Mday, Year, Not, Turned
<1>3. Number(d, w) = R(d)
  BY <1>1, <1>2
<1>4. ASSUME d.next = "mday", d.mday = -1, w.val \in 1 .. 31
      PROVE  Number(d, w) = Mday(Turned(d))
  BY <1>2, <1>3, <1>4
<1>5. ASSUME d.next = "year", d.year = -1
      PROVE  Number(d, w) = Year(d)
  BY <1>2, <1>3, <1>5
<1>6. ASSUME d.mday # -1 PROVE Year(d) = [d EXCEPT !.year = Since1900(w.val), !.next = @]
  BY <1>6 DEF Year
<1>. QED
  BY <1>4, <1>5, <1>6 DEF Mday, Turned

LEMMA MdayWord ==
  ASSUME NEW w, IsCount(w), w.val \in 1 .. 31, NEW mon, NEW sec
  PROVE  Word(Got(mon, -1, -1, -1, sec, "mday"), w) = Got(mon, w.val, -1, -1, sec, "year")
<1>. DEFINE d == Got(mon, -1, -1, -1, sec, "mday")
<1>1. Word(d, w) = Number(d, w)
  BY DEF Word, Got, IsCount
<1>. HIDE DEF d
<1>2. d.next = "mday" /\ d.mday = -1
  BY DEF d, Got
<1>3. Number(d, w) = [[d EXCEPT !.next = "year"] EXCEPT !.mday = w.val]
  BY <1>2, CountWord
<1>. QED
  BY <1>1, <1>3 DEF d, Got

LEMMA MonthWord ==
  ASSUME NEW w, IsMonth(w), NEW mday, NEW next \in {"mday", "year"}
  PROVE  Word(Got(-1, mday, -1, -1, -1, next), w) = Got(MonthNo(w.name), mday, -1, -1, -1, next)
<1>. DEFINE d == Got(-1, mday, -1, -1, -1, next)
<1>1. Word(d, w) = Name(d, w.name)
  BY DEF Word, Got, IsMonth
<1>2. MonthNo(w.name) # -1
  BY MonthRange
<1>3. Name(d, w.name) = [d EXCEPT !.mon = MonthNo(w.name)]
  BY <1>2 DEF Name, Got
<1>. QED
  BY <1>1, <1>3 DEF Got

LEMMA YearWord ==
  ASSUME NEW w, IsCount(w), NEW mon, NEW mday \in 1 .. 31, NEW sec
  PROVE  Word(Got(mon, mday, -1, -1, sec, "year"), w) = Got(mon, mday, Since1900(w.val), -1, sec, "year")
<1>. DEFINE d == Got(mon, mday, -1, -1, sec, "year")
<1>1. Word(d, w) = Number(d, w)
  BY DEF Word, Got, IsCount
<1>. HIDE DEF d
<1>2. d.next = "year" /\ d.year = -1 /\ d.mday # -1
  BY DEF d, Got
<1>3. Number(d, w) = [d EXCEPT !.year = Since1900(w.val), !.next = @]
  BY <1>2, CountWord
<1>. QED
  BY <1>1, <1>3 DEF d, Got

LEMMA TimeWord ==
  ASSUME NEW w, IsTime(w), NEW mon \in Int, NEW mday \in Int, NEW year \in Int, NEW next \in {"mday", "year"}
  PROVE  Word(Got(mon, mday, year, -1, -1, next), w) = Got(mon, mday, year, -1, w.sec, next)
<1>. DEFINE d == Got(mon, mday, year, -1, -1, next)
            sec == w.sec
            e == [d EXCEPT !.sec = sec, !.next = IF w.width < 7 THEN "bad" ELSE @]
<1>1. w.kind = "time" /\ d.next # "bad" /\ ~(w.width < 7)
  BY DEF IsTime, IsClock, Got
<1>2. e = [d EXCEPT !.sec = sec]
  <2>. DEFINE bad == "bad"
              short == w.width < 7
  <2>1. ~short
    BY <1>1
  <2>. HIDE DEF bad, short, d, sec
  <2>2. [d EXCEPT !.sec = sec, !.next = IF short THEN bad ELSE @] = [d EXCEPT !.sec = sec]
    <3>1. [d EXCEPT !.sec = sec, !.next = IF short THEN bad ELSE @] = [d EXCEPT !.sec = sec, !.next = @]
      BY <2>1
    <3>. QED
      BY <3>1
  <2>. QED
    BY <2>2 DEF bad, short
<1>3. ASSUME NEW x \in Int PROVE [d EXCEPT !.sec = x] = Got(mon, mday, year, -1, x, next)
  BY DEF Got
<1>4. Word(d, w) = IF d.next = "bad" THEN d
                ELSE CASE w.kind = "name" -> Name(d, w.name) [] w.kind = "number" -> Number(d, w)
                       [] w.kind = "time" -> e
  BY DEF Word
<1>. HIDE DEF d, e
<1>5. Word(d, w) = e
  BY <1>1, <1>4
<1>6. sec \in Int
  BY DEF IsTime, IsClock, IsSec
<1>. HIDE DEF sec
<1>7. [d EXCEPT !.sec = sec] = Got(mon, mday, year, -1, sec, next)
  BY <1>3, <1>6 DEF d
<1>. QED
  BY <1>5, <1>7, <1>2, Zenon DEF d, sec

\* A time that is too short ends the reading.
LEMMA ShortWord ==
  ASSUME NEW w, IsClock(w), w.width < 7, NEW mon, NEW mday, NEW year, NEW next \in {"mday", "year"},
         NEW z
  PROVE  Word(Word(Got(mon, mday, year, -1, -1, next), w), z).next = "bad"
<1>. DEFINE d == Got(mon, mday, year, -1, -1, next)
            sec == w.sec
            short == w.width < 7
            e == [d EXCEPT !.sec = sec, !.next = IF short THEN "bad" ELSE @]
<1>1. w.kind = "time" /\ d.next # "bad"
  BY DEF IsClock, Got
<1>2. Word(d, w) = IF d.next = "bad" THEN d
                ELSE CASE w.kind = "name" -> Name(d, w.name) [] w.kind = "number" -> Number(d, w)
                       [] w.kind = "time" -> e
  BY DEF Word
<1>3. e.next = "bad"
  <2>. HIDE DEF sec
  <2>. QED
    BY DEF Got
<1>. HIDE DEF d, e
<1>4. Word(d, w) = e
  BY <1>1, <1>2
<1>5. Word(e, z) = e
  BY <1>3 DEF Word
<1>. QED
  BY <1>3, <1>4, <1>5, Zenon DEF d

LEMMA GmtWord ==
  ASSUME NEW mon \in 0 .. 11, NEW mday \in Int, NEW year \in Int, NEW sec \in Int, NEW next \in {"mday", "year"}
  PROVE  Word(Got(mon, mday, year, -1, sec, next), Gmt) = Got(mon, mday, year, 0, sec, next)
<1>. DEFINE d == Got(mon, mday, year, -1, sec, next)
<1>1. Word(d, Gmt) = Name(d, "GMT")
  BY DEF Word, Got, Gmt
<1>2. TzOffset("GMT") = 0
  BY DEF TzOffset
<1>3. Name(d, "GMT") = [d EXCEPT !.tz = TzOffset("GMT")]
  BY <1>2 DEF Name, Got
<1>. QED
  BY <1>1, <1>2, <1>3 DEF Got

\* The time of a date that was read.
Late == <<24855, 11647>>
DateRead(year, mon, mday, sec) ==
  IF year > 2037 THEN Late ELSE <<Days(1900 + year, mon, mday), sec>>

LEMMA DaysIsInt ==
  ASSUME NEW y \in Int, NEW m \in 0 .. 11, NEW d \in Int
  PROVE  Days(y, m, d) \in Int /\ Days(y, m, d) = Days(y, m, 1) + d - 1
<1>. DEFINE b == Before[m + 1]
            leap == IF Leap(y) /\ m > 1 THEN 1 ELSE 0
            c == 365 * (y - 1970) + LeapDays(y) - LeapDays(1970)
<1>1. b \in Int /\ leap \in Int
  BY DEF Before
<1>2. c \in Int
  BY DEF LeapDays
<1>3. Days(y, m, d) = c + b + leap + d - 1 /\ Days(y, m, 1) = c + b + leap + 1 - 1
  BY DEF Days
<1>. HIDE DEF b, leap, c
<1>. QED
  BY <1>1, <1>2, <1>3

\* The time that is made of what was read of a text.
At(d, s) == <<Days(1900 + d.year, d.mon, d.mday) + (s \div 86400), s % 86400>>
Seconds(d) == (IF d.sec = -1 THEN 0 ELSE d.sec) + (IF d.tz = -1 THEN 0 ELSE d.tz)
Outcome(text, d) ==
  IF text = <<>> THEN <<0, 0>>
  ELSE IF d.next = "bad" \/ d.mday = -1 \/ d.mon = -1 \/ d.year = -1 THEN Bad
  ELSE IF d.year > 2037 THEN Late
  ELSE At(d, Seconds(d))

LEMMA ReadIs ==
  ASSUME NEW S, NEW text \in Seq(S), 0 < Len(text), Len(text) < 7, NEW val \in Nat, NEW mon \in 0 .. 11,
         NEW mday \in 1 .. 31, NEW sec, IsSec(sec), NEW tz \in {-1, 0}, NEW next \in {"mday", "year"},
         Read(text) = Got(mon, mday, Since1900(val), tz, sec, next)
  PROVE  Strtotime(text) = DateRead(Since1900(val), mon, mday, sec)
<1>. DEFINE n == Len(text)
            year == Since1900(val)
<1>1. year \in Nat
  BY DEF Since1900
<1>2. SubSeq(text, 1, IF Len(text) > 6 THEN 6 ELSE Len(text)) = text /\ text # <<>>
  <2>1. (IF n > 6 THEN 6 ELSE n) = n
    OBVIOUS
  <2>2. SubSeq(text, 1, n) = text
    BY SubSeqFull
  <2>3. n # 0
    OBVIOUS
  <2>. HIDE DEF n
  <2>4. text # <<>>
    BY <2>3 DEF n
  <2>. QED
    BY <2>1, <2>2, <2>4, Zenon DEF n
<1>. DEFINE d == Got(mon, mday, year, tz, sec, next)
<1>3. Strtotime(text) = Outcome(text, d)
  <2>1. Strtotime(text) =
          Outcome(text, FoldLeft(Word, Unread, SubSeq(text, 1, IF Len(text) > 6 THEN 6 ELSE Len(text))))
    BY DEF Strtotime, Outcome, Late, At, Seconds
  <2>. HIDE DEF d
  <2>2. Read(text) = d
    BY DEF d
  <2>. QED
    BY <1>2, <2>1, <2>2, Zenon DEF Read
<1>4. d.next = next /\ d.mday = mday /\ d.mon = mon /\ d.year = year /\ d.sec = sec /\ d.tz = tz
  <2>. HIDE DEF year
  <2>. QED
    BY Zenon DEF Got
<1>. HIDE DEF d
<1>5. Seconds(d) = sec /\ sec \div 86400 = 0 /\ sec % 86400 = sec
  <2>1. Seconds(d) = (IF sec = -1 THEN 0 ELSE sec) + (IF tz = -1 THEN 0 ELSE tz)
    BY <1>4 DEF Seconds
  <2>2. sec \div 86400 = 0 /\ sec % 86400 = sec
    BY DEF IsSec
  <2>. QED
    BY <2>1, <2>2 DEF IsSec
<1>6. next # "bad" /\ mday # -1 /\ mon # -1 /\ year # -1
  BY <1>1
<1>. HIDE DEF year
<1>7. Strtotime(text) = IF year > 2037 THEN Late ELSE At(d, sec)
  <2>. DEFINE bad == d.next = "bad" \/ d.mday = -1 \/ d.mon = -1 \/ d.year = -1
              late == d.year > 2037
              at == At(d, Seconds(d))
  <2>1. ~bad
    BY <1>4, <1>6
  <2>2. Outcome(text, d) = IF text = <<>> THEN <<0, 0>> ELSE IF bad THEN Bad ELSE IF late THEN Late ELSE at
    BY DEF Outcome
  <2>3. late <=> year > 2037
    BY <1>4
  <2>4. at = At(d, sec)
    <3>1. Seconds(d) = sec
      BY <1>5
    <3>. QED
      BY <3>1, Zenon
  <2>. HIDE DEF bad, late, at
  <2>5. Outcome(text, d) = IF late THEN Late ELSE at
    BY <1>2, <2>1, <2>2
  <2>. QED
    BY <1>3, <2>3, <2>4, <2>5
<1>. DEFINE y == 1900 + year
            days == Days(y, mon, mday)
<1>8. y \in Int /\ mday \in Int
  BY <1>1
<1>9. At(d, sec) = <<days + 0, sec>>
  <2>. DEFINE z == 1900 + d.year
              e == Days(z, d.mon, d.mday)
              quot == sec \div 86400
              rem == sec % 86400
  <2>1. At(d, sec) = <<e + quot, rem>>
    BY DEF At
  <2>2. e = days
    <3>1. z = y /\ d.mon = mon /\ d.mday = mday
      BY <1>4
    <3>. HIDE DEF y, z
    <3>. QED
      BY <3>1, Zenon
  <2>3. quot = 0 /\ rem = sec
    BY <1>5
  <2>. HIDE DEF e, quot, rem, days
  <2>. QED
    BY <2>1, <2>2, <2>3, Zenon
<1>. HIDE DEF y
<1>10. days \in Int
  BY <1>8, DaysIsInt
<1>. HIDE DEF days
<1>11. days + 0 = days
  BY <1>10
<1>12. At(d, sec) = <<days, sec>>
  BY <1>9, <1>11, Zenon
<1>13. Strtotime(text) = IF year > 2037 THEN Late ELSE <<days, sec>>
  BY <1>7, <1>12
<1>. QED
  BY <1>13 DEF DateRead, year, y, days

LEMMA CountIs ==
  ASSUME NEW w, IsCount(w)
  PROVE  w.val \in Nat /\ Since1900(w.val) \in Nat
<1>1. w.val \in Nat
  BY DEF IsCount
<1>. QED
  BY <1>1 DEF Since1900

\* What is read of the two orders of the words: that of the day, the month, the year, the time and
\* the zone, and that of the month, the day, the time and the year.
LEMMA FourWords ==
  ASSUME NEW a, IsDay(a), NEW b, IsCount(b), b.val \in 1 .. 31, NEW c, IsMonth(c), NEW d, IsCount(d)
  PROVE  Word(Word(Word(Word(Unread, a), b), c), d) =
           Got(MonthNo(c.name), b.val, Since1900(d.val), -1, -1, "year")
<1>. DEFINE mday == b.val
            mon == MonthNo(c.name)
            year == Since1900(d.val)
<1>1. mon \in 0 .. 11 /\ year \in Int /\ mday \in 1 .. 31
  BY MonthRange, CountIs
<1>2. Word(Unread, a) = Got(-1, -1, -1, -1, -1, "mday")
  BY DayWord
<1>3. Word(Got(-1, -1, -1, -1, -1, "mday"), b) = Got(-1, mday, -1, -1, -1, "year")
  BY MdayWord
<1>4. Word(Got(-1, mday, -1, -1, -1, "year"), c) = Got(mon, mday, -1, -1, -1, "year")
  <2>. DEFINE next == "year"
  <2>1. next \in {"mday", "year"}
    OBVIOUS
  <2>. HIDE DEF next, mday
  <2>2. Word(Got(-1, mday, -1, -1, -1, next), c) = Got(mon, mday, -1, -1, -1, next)
    BY <2>1, MonthWord
  <2>. QED
    BY <2>2 DEF next
<1>. HIDE DEF mday, mon
<1>5. Word(Got(mon, mday, -1, -1, -1, "year"), d) = Got(mon, mday, year, -1, -1, "year")
  BY <1>1, YearWord
<1>. QED
  BY <1>2, <1>3, <1>4, <1>5 DEF mday, mon, year

LEMMA SixWords ==
  ASSUME NEW a, IsDay(a), NEW b, IsCount(b), b.val \in 1 .. 31, NEW c, IsMonth(c), NEW d, IsCount(d),
         NEW e, IsTime(e)
  PROVE  Word(Word(Word(Word(Word(Word(Unread, a), b), c), d), e), Gmt) =
           Got(MonthNo(c.name), b.val, Since1900(d.val), 0, e.sec, "year")
<1>. DEFINE mday == b.val
            mon == MonthNo(c.name)
            year == Since1900(d.val)
            sec == e.sec
<1>1. mon \in 0 .. 11 /\ year \in Int /\ sec \in Int /\ mday \in 1 .. 31
  <2>1. sec \in Int
    BY DEF IsTime, IsClock, IsSec
  <2>. QED
    BY <2>1, MonthRange, CountIs
<1>. HIDE DEF mday, mon, sec, year
<1>2. Word(Word(Word(Word(Unread, a), b), c), d) = Got(mon, mday, year, -1, -1, "year")
  BY FourWords DEF mday, mon, year
<1>3. Word(Got(mon, mday, year, -1, -1, "year"), e) = Got(mon, mday, year, -1, sec, "year")
  <2>. DEFINE next == "year"
  <2>1. next \in {"mday", "year"} /\ mon \in Int /\ mday \in Int
    BY <1>1
  <2>. HIDE DEF next
  <2>2. Word(Got(mon, mday, year, -1, -1, next), e) = Got(mon, mday, year, -1, sec, next)
    BY <1>1, <2>1, TimeWord DEF sec
  <2>. QED
    BY <2>2 DEF next
<1>4. Word(Got(mon, mday, year, -1, sec, "year"), Gmt) = Got(mon, mday, year, 0, sec, "year")
  <2>. DEFINE next == "year"
  <2>1. next \in {"mday", "year"} /\ mday \in Int
    BY <1>1
  <2>. HIDE DEF next
  <2>2. Word(Got(mon, mday, year, -1, sec, next), Gmt) = Got(mon, mday, year, 0, sec, next)
    BY <1>1, <2>1, GmtWord
  <2>. QED
    BY <2>2 DEF next
<1>. QED
  BY <1>2, <1>3, <1>4 DEF mday, mon, year, sec

LEMMA FiveWords ==
  ASSUME NEW a, IsDay(a), NEW b, IsMonth(b), NEW c, IsCount(c), c.val \in 1 .. 31, NEW d, IsTime(d),
         NEW e, IsCount(e)
  PROVE  Word(Word(Word(Word(Word(Unread, a), b), c), d), e) =
           Got(MonthNo(b.name), c.val, Since1900(e.val), -1, d.sec, "year")
<1>. DEFINE mday == c.val
            mon == MonthNo(b.name)
            year == Since1900(e.val)
            sec == d.sec
<1>1. mon \in 0 .. 11 /\ year \in Int /\ sec \in Int /\ mday \in 1 .. 31
  <2>1. sec \in Int
    BY DEF IsTime, IsClock, IsSec
  <2>. QED
    BY <2>1, MonthRange, CountIs
<1>2. Word(Unread, a) = Got(-1, -1, -1, -1, -1, "mday")
  BY DayWord
<1>3. Word(Got(-1, -1, -1, -1, -1, "mday"), b) = Got(mon, -1, -1, -1, -1, "mday")
  <2>. DEFINE next == "mday"
  <2>1. next \in {"mday", "year"}
    OBVIOUS
  <2>. HIDE DEF next
  <2>2. Word(Got(-1, -1, -1, -1, -1, next), b) = Got(mon, -1, -1, -1, -1, next)
    BY <2>1, MonthWord
  <2>. QED
    BY <2>2 DEF next
<1>. HIDE DEF mon
<1>4. Word(Got(mon, -1, -1, -1, -1, "mday"), c) = Got(mon, mday, -1, -1, -1, "year")
  BY MdayWord
<1>. HIDE DEF mday, sec
<1>5. Word(Got(mon, mday, -1, -1, -1, "year"), d) = Got(mon, mday, -1, -1, sec, "year")
  <2>. DEFINE next == "year"
              year0 == -1
  <2>1. next \in {"mday", "year"} /\ mon \in Int /\ mday \in Int /\ year0 \in Int
    BY <1>1
  <2>. HIDE DEF next, year0
  <2>2. Word(Got(mon, mday, year0, -1, -1, next), d) = Got(mon, mday, year0, -1, sec, next)
    BY <1>1, <2>1, TimeWord DEF sec
  <2>. QED
    BY <2>2 DEF next, year0
<1>6. Word(Got(mon, mday, -1, -1, sec, "year"), e) = Got(mon, mday, year, -1, sec, "year")
  BY <1>1, YearWord
<1>. QED
  BY <1>2, <1>3, <1>4, <1>5, <1>6 DEF mday, mon, year, sec

LEMMA SixRead ==
  ASSUME NEW S, NEW text \in Seq(S), Len(text) = 6, IsDay(text[1]), IsCount(text[2]), text[2].val \in 1 .. 31,
         IsMonth(text[3]), IsCount(text[4]), IsTime(text[5]), text[6] = Gmt
  PROVE  Strtotime(text) =
           DateRead(Since1900(text[4].val), MonthNo(text[3].name), text[2].val, text[5].sec)
<1>. DEFINE n == 6
            d == Got(MonthNo(text[3].name), text[2].val, Since1900(text[4].val), 0, text[5].sec, "year")
<1>1. n \in 0 .. 6 /\ DOMAIN text = 1 .. n
  OBVIOUS
<1>. HIDE DEF n
<1>2. PICK f : Reads(f, n, text)
  BY <1>1, WordByWord
<1>. USE DEF n
<1>3. /\ f[1] = Word(f[0], text[1]) /\ f[2] = Word(f[1], text[2]) /\ f[3] = Word(f[2], text[3])
      /\ f[4] = Word(f[3], text[4]) /\ f[5] = Word(f[4], text[5]) /\ f[6] = Word(f[5], text[6])
      /\ f[0] = Unread /\ Read(text) = f[6]
  BY <1>2 DEF Reads
<1>4. Word(Word(Word(Word(Word(Word(Unread, text[1]), text[2]), text[3]), text[4]), text[5]), Gmt) = d
  BY SixWords
<1>. HIDE DEF d
<1>5. Read(text) = d
  BY <1>3, <1>4, Zenon
<1>. DEFINE mon == MonthNo(text[3].name)
            val == text[4].val
            sec == text[5].sec
            mday == text[2].val
<1>6. mon \in 0 .. 11 /\ val \in Nat /\ IsSec(sec) /\ mday \in 1 .. 31
  <2>1. IsSec(sec)
    BY DEF IsTime, IsClock
  <2>. QED
    BY <2>1, MonthRange, CountIs
<1>7. Read(text) = Got(mon, mday, Since1900(val), 0, sec, "year")
  BY <1>5, Zenon DEF d
<1>. HIDE DEF mon, val, sec, mday
<1>8. Strtotime(text) = DateRead(Since1900(val), mon, mday, sec)
  <2>. DEFINE next == "year"
              tz == 0
  <2>1. next \in {"mday", "year"} /\ tz \in {-1, 0} /\ 0 < Len(text) /\ Len(text) < 7
    OBVIOUS
  <2>2. Read(text) = Got(mon, mday, Since1900(val), tz, sec, next)
    BY <1>7
  <2>. HIDE DEF next, tz
  <2>. QED
    BY <1>6, <2>1, <2>2, ReadIs
<1>. QED
  BY <1>8, Zenon DEF mon, val, sec, mday

\* A time that is too short leaves no date.
LEMMA ShortRead ==
  ASSUME NEW S, NEW text \in Seq(S), Len(text) = 6, IsDay(text[1]), IsCount(text[2]), text[2].val \in 1 .. 31,
         IsMonth(text[3]), IsCount(text[4]), IsClock(text[5]), text[5].width < 7
  PROVE  Strtotime(text) = Bad
<1>. DEFINE n == 6
            d == Read(text)
<1>1. n \in 0 .. 6 /\ DOMAIN text = 1 .. n
  OBVIOUS
<1>. HIDE DEF n
<1>2. PICK f : Reads(f, n, text)
  BY <1>1, WordByWord
<1>. USE DEF n
<1>3. /\ f[1] = Word(f[0], text[1]) /\ f[2] = Word(f[1], text[2]) /\ f[3] = Word(f[2], text[3])
      /\ f[4] = Word(f[3], text[4]) /\ f[5] = Word(f[4], text[5]) /\ f[6] = Word(f[5], text[6])
      /\ f[0] = Unread /\ d = f[6]
  BY <1>2 DEF Reads
<1>4. f[4] = Got(MonthNo(text[3].name), text[2].val, Since1900(text[4].val), -1, -1, "year")
  <2>1. Word(Word(Word(Word(Unread, text[1]), text[2]), text[3]), text[4]) =
          Got(MonthNo(text[3].name), text[2].val, Since1900(text[4].val), -1, -1, "year")
    BY FourWords
  <2>. QED
    BY <1>3, <2>1, Zenon
<1>5. d.next = "bad"
  <2>. DEFINE next == "year"
              mon == MonthNo(text[3].name)
              mday == text[2].val
              year == Since1900(text[4].val)
  <2>1. next \in {"mday", "year"}
    OBVIOUS
  <2>. HIDE DEF next, mon, mday, year
  <2>2. Word(Word(Got(mon, mday, year, -1, -1, next), text[5]), text[6]).next = "bad"
    BY <2>1, ShortWord
  <2>. QED
    BY <1>3, <1>4, <2>2, Zenon DEF next, mon, mday, year
<1>6. SubSeq(text, 1, IF Len(text) > 6 THEN 6 ELSE Len(text)) = text /\ text # <<>>
  <2>1. SubSeq(text, 1, 6) = text
    BY SubSeqFull
  <2>2. text # <<>>
    <3>1. Len(<<>>) = 0 /\ Len(text) # 0
      OBVIOUS
    <3>. QED
      BY <3>1
  <2>. QED
    BY <2>1, <2>2
<1>7. Strtotime(text) = Outcome(text, d)
  <2>1. Strtotime(text) =
          Outcome(text, FoldLeft(Word, Unread, SubSeq(text, 1, IF Len(text) > 6 THEN 6 ELSE Len(text))))
    BY DEF Strtotime, Outcome, Late, At, Seconds
  <2>. QED
    BY <1>6, <2>1, Zenon DEF Read
<1>8. Outcome(text, d) = Bad
  <2>. DEFINE bad == d.next = "bad" \/ d.mday = -1 \/ d.mon = -1 \/ d.year = -1
              rest == IF d.year > 2037 THEN Late ELSE At(d, Seconds(d))
  <2>1. bad
    BY <1>5
  <2>2. Outcome(text, d) = IF text = <<>> THEN <<0, 0>> ELSE IF bad THEN Bad ELSE rest
    BY DEF Outcome
  <2>. HIDE DEF bad, rest
  <2>. QED
    BY <1>6, <2>1, <2>2
<1>. QED
  BY <1>7, <1>8

LEMMA FiveRead ==
  ASSUME NEW S, NEW text \in Seq(S), Len(text) = 5, IsDay(text[1]), IsMonth(text[2]), IsCount(text[3]),
         text[3].val \in 1 .. 31, IsTime(text[4]), IsCount(text[5])
  PROVE  Strtotime(text) =
           DateRead(Since1900(text[5].val), MonthNo(text[2].name), text[3].val, text[4].sec)
<1>. DEFINE n == 5
            d == Got(MonthNo(text[2].name), text[3].val, Since1900(text[5].val), -1, text[4].sec, "year")
<1>1. n \in 0 .. 6 /\ DOMAIN text = 1 .. n
  OBVIOUS
<1>. HIDE DEF n
<1>2. PICK f : Reads(f, n, text)
  BY <1>1, WordByWord
<1>. USE DEF n
<1>3. /\ f[1] = Word(f[0], text[1]) /\ f[2] = Word(f[1], text[2]) /\ f[3] = Word(f[2], text[3])
      /\ f[4] = Word(f[3], text[4]) /\ f[5] = Word(f[4], text[5])
      /\ f[0] = Unread /\ Read(text) = f[5]
  BY <1>2 DEF Reads
<1>4. Word(Word(Word(Word(Word(Unread, text[1]), text[2]), text[3]), text[4]), text[5]) = d
  BY FiveWords
<1>. HIDE DEF d
<1>5. Read(text) = d
  BY <1>3, <1>4, Zenon
<1>. DEFINE mon == MonthNo(text[2].name)
            val == text[5].val
            sec == text[4].sec
            mday == text[3].val
<1>6. mon \in 0 .. 11 /\ val \in Nat /\ IsSec(sec) /\ mday \in 1 .. 31
  <2>1. IsSec(sec)
    BY DEF IsTime, IsClock
  <2>. QED
    BY <2>1, MonthRange, CountIs
<1>7. Read(text) = Got(mon, mday, Since1900(val), -1, sec, "year")
  BY <1>5, Zenon DEF d
<1>. HIDE DEF mon, val, sec, mday
<1>8. Strtotime(text) = DateRead(Since1900(val), mon, mday, sec)
  <2>. DEFINE next == "year"
              tz == -1
  <2>1. next \in {"mday", "year"} /\ tz \in {-1, 0} /\ 0 < Len(text) /\ Len(text) < 7
    OBVIOUS
  <2>2. Read(text) = Got(mon, mday, Since1900(val), tz, sec, next)
    BY <1>7
  <2>. HIDE DEF next, tz
  <2>. QED
    BY <1>6, <2>1, <2>2, ReadIs
<1>. QED
  BY <1>8, Zenon DEF mon, val, sec, mday
-----------------------------------------------------------------------------
(* Dates: what every text is read as.                                      *)

Times == Int \X { s \in Nat : s < 86400 }

Mons == -1 .. 11
Nexts == {"mday", "year", "bad"}
Fold == [wday : Int, mon : Mons, mday : Int, year : Int, tz : Int, sec : Int, next : Nexts]

LEMMA FoldInt ==
  ASSUME NEW d \in Fold, NEW x \in Int
  PROVE  /\ [d EXCEPT !.wday = x] \in Fold /\ [d EXCEPT !.mday = x] \in Fold
         /\ [d EXCEPT !.tz = x] \in Fold /\ [d EXCEPT !.sec = x] \in Fold
<1>1. [d EXCEPT !.wday = x] \in Fold
  BY DEF Fold
<1>2. [d EXCEPT !.mday = x] \in Fold
  BY DEF Fold
<1>3. [d EXCEPT !.tz = x] \in Fold
  BY DEF Fold
<1>4. [d EXCEPT !.sec = x] \in Fold
  BY DEF Fold
<1>. QED
  BY <1>1, <1>2, <1>3, <1>4, Zenon

LEMMA FoldNext ==
  ASSUME NEW d \in Fold, NEW s \in Nexts
  PROVE  [d EXCEPT !.next = s] \in Fold
  BY DEF Fold

LEMMA FoldSec ==
  ASSUME NEW d \in Fold, NEW x \in Int, NEW s \in Nexts, NEW short
  PROVE  [d EXCEPT !.sec = x, !.next = IF short THEN s ELSE @] \in Fold
  BY DEF Fold

LEMMA FoldMon ==
  ASSUME NEW d \in Fold, NEW mon \in Mons
  PROVE  [d EXCEPT !.mon = mon] \in Fold
  BY DEF Fold

LEMMA FoldYear ==
  ASSUME NEW d \in Fold, NEW y \in Int, NEW s \in Nexts
  PROVE  [d EXCEPT !.year = y, !.next = IF d.mday = -1 THEN s ELSE @] \in Fold
  BY DEF Fold

LEMMA FoldDate ==
  ASSUME NEW d \in Fold, NEW y \in Int, NEW m \in Mons, NEW a \in Int
  PROVE  [d EXCEPT !.year = y, !.mon = m, !.mday = a] \in Fold
  BY DEF Fold

IsNumber(w) == w.val \in Nat /\ (w.digits = 8 => (w.val % 10000) \div 100 \in 1 .. 12)

LEMMA WordIs ==
  ASSUME NEW w \in Words
  PROVE  w.kind = "name" \/ (w.kind = "number" /\ IsNumber(w)) \/ IsClock(w)
  BY DEF Words, IsNumber, IsClock, IsSec

LEMMA MonthNoRange ==
  ASSUME NEW n
  PROVE  MonthNo(n) \in -1 .. 11
<1>. DEFINE I == { i \in 1 .. Len(Months) : Months[i] = n }
<1>1. Len(Months) = 12
  BY DEF Months
<1>2. I \in SUBSET (1 .. 12)
  BY <1>1
<1>3. MonthNo(n) = (IF I # {} THEN Min(I) ELSE 0) - 1
  BY DEF MonthNo, SelectInSeq
<1>. HIDE DEF I
<1>4. ASSUME I # {} PROVE Min(I) \in 1 .. 12
  <2>1. \E x \in I : \A y \in I : x <= y
    <3>. SUFFICES ASSUME \A x \in I : \E y \in I : ~(x <= y) PROVE FALSE
      OBVIOUS
    <3>1. PICK k \in I : TRUE
      BY <1>4
    <3>2. /\ 1 \notin I /\ 2 \notin I /\ 3 \notin I /\ 4 \notin I /\ 5 \notin I /\ 6 \notin I
          /\ 7 \notin I /\ 8 \notin I /\ 9 \notin I /\ 10 \notin I /\ 11 \notin I /\ 12 \notin I
      <4>1. 1 \notin I
        BY <1>2
      <4>2. 2 \notin I
        BY <1>2, <4>1
      <4>3. 3 \notin I
        BY <1>2, <4>1, <4>2
      <4>4. 4 \notin I
        BY <1>2, <4>1, <4>2, <4>3
      <4>5. 5 \notin I
        BY <1>2, <4>1, <4>2, <4>3, <4>4
      <4>6. 6 \notin I
        BY <1>2, <4>1, <4>2, <4>3, <4>4, <4>5
      <4>7. 7 \notin I
        BY <1>2, <4>1, <4>2, <4>3, <4>4, <4>5, <4>6
      <4>8. 8 \notin I
        BY <1>2, <4>1, <4>2, <4>3, <4>4, <4>5, <4>6, <4>7
      <4>9. 9 \notin I
        BY <1>2, <4>1, <4>2, <4>3, <4>4, <4>5, <4>6, <4>7, <4>8
      <4>10. 10 \notin I
        BY <1>2, <4>1, <4>2, <4>3, <4>4, <4>5, <4>6, <4>7, <4>8, <4>9
      <4>11. 11 \notin I
        BY <1>2, <4>1, <4>2, <4>3, <4>4, <4>5, <4>6, <4>7, <4>8, <4>9, <4>10
      <4>12. 12 \notin I
        BY <1>2, <4>1, <4>2, <4>3, <4>4, <4>5, <4>6, <4>7, <4>8, <4>9, <4>10, <4>11
      <4>. QED
        BY <4>1, <4>2, <4>3, <4>4, <4>5, <4>6, <4>7, <4>8, <4>9, <4>10, <4>11, <4>12
    <3>. QED
      BY <1>2, <3>1, <3>2
  <2>2. Min(I) \in I
    BY <2>1 DEF Min
  <2>. QED
    BY <1>2, <2>2
<1>. QED
  BY <1>3, <1>4

LEMMA NameTyped ==
  ASSUME NEW d \in Fold, NEW n
  PROVE  Name(d, n) \in Fold
<1>. DEFINE mon == MonthNo(n)
            tz == TzOffset(n)
<1>1. mon \in -1 .. 11
  BY MonthNoRange
<1>2. tz \in Int
  BY DEF TzOffset
<1>. DEFINE zero == 0
            bad == "bad"
<1>3. zero \in Int /\ bad \in Nexts /\ mon \in Mons
  BY <1>1 DEF Mons, Nexts
<1>4. \/ Name(d, n) = [d EXCEPT !.wday = zero] \/ Name(d, n) = [d EXCEPT !.mon = mon]
      \/ Name(d, n) = [d EXCEPT !.tz = tz] \/ Name(d, n) = [d EXCEPT !.next = bad]
  BY Zenon DEF Name
<1>. HIDE DEF mon, tz, zero, bad
<1>5. /\ [d EXCEPT !.wday = zero] \in Fold /\ [d EXCEPT !.mon = mon] \in Fold
      /\ [d EXCEPT !.tz = tz] \in Fold /\ [d EXCEPT !.next = bad] \in Fold
  BY <1>2, <1>3, FoldInt, FoldMon, FoldNext
<1>. QED
  BY <1>4, <1>5, Zenon

LEMMA NumberTyped ==
  ASSUME NEW d \in Fold, NEW w, IsNumber(w)
  PROVE  Number(d, w) \in Fold
<1>. DEFINE zone == d.tz = -1 /\ w.digits = 4 /\ w.val < 1300 /\ w.sign # "none"
            off == ((w.val \div 100) * 60 + (w.val % 100)) * 60
            tz == IF w.sign = "+" THEN -off ELSE off
            shifted == [d EXCEPT !.tz = tz]
            Day(e) == e.next = "mday" /\ e.mday = -1
            Turned(e) == [e EXCEPT !.next = "year"]
            F(e) == IF Day(e) THEN Turned(e) ELSE e
            Whole(e) == [e EXCEPT !.year = w.val \div 10000, !.mon = ((w.val % 10000) \div 100) - 1,
                                  !.mday = w.val % 100]
            Mday(f) == [f EXCEPT !.mday = w.val]
            Year(f) == [f EXCEPT !.year = Since1900(w.val), !.next = IF f.mday = -1 THEN "mday" ELSE @]
            Not(f) == [f EXCEPT !.next = "bad"]
            R(e) == IF w.digits = 8 /\ e.year = -1 /\ e.mon = -1 /\ e.mday = -1 THEN Whole(e)
                    ELSE IF zone THEN e
                    ELSE IF Day(e) /\ w.val \in 1 .. 31 THEN Mday(F(e))
                    ELSE IF F(e).next = "year" /\ F(e).year = -1 THEN Year(F(e))
                    ELSE Not(F(e))
            e == IF zone THEN shifted ELSE d
<1>1. Number(d, w) = R(e)
  BY DEF Number
<1>2. off \in Int
  <2>0. w.val \in Nat
    BY DEF IsNumber
  <2>. DEFINE q == w.val \div 100
              m == w.val % 100
  <2>1. q \in Int /\ m \in Int
    BY <2>0
  <2>. HIDE DEF q, m
  <2>2. (q * 60 + m) * 60 \in Int
    BY <2>1
  <2>. QED
    BY <2>2 DEF q, m
<1>. HIDE DEF off
<1>3. tz \in Int
  BY <1>2
<1>. HIDE DEF tz
<1>4. e \in Fold
  <2>1. shifted \in Fold
    BY <1>3, FoldInt
  <2>. HIDE DEF zone, shifted
  <2>. QED
    BY <2>1
<1>. HIDE DEF zone, e
<1>5. ASSUME NEW f \in Fold
      PROVE  Turned(f) \in Fold /\ Mday(f) \in Fold /\ Not(f) \in Fold
  <2>. DEFINE next == "year"
              bad == "bad"
              mday == w.val
  <2>1. next \in Nexts /\ bad \in Nexts /\ mday \in Int
    BY DEF Nexts, IsNumber
  <2>. HIDE DEF next, bad, mday
  <2>2. [f EXCEPT !.next = next] \in Fold /\ [f EXCEPT !.mday = mday] \in Fold /\ [f EXCEPT !.next = bad] \in Fold
    BY <2>1, FoldInt, FoldNext
  <2>. QED
    BY <2>2 DEF next, bad, mday
<1>6. ASSUME NEW f \in Fold
      PROVE  Year(f) \in Fold
  <2>. DEFINE y == Since1900(w.val)
              next == "mday"
  <2>1. y \in Int /\ next \in Nexts
    BY DEF Since1900, Nexts, IsNumber
  <2>. HIDE DEF y, next
  <2>2. [f EXCEPT !.year = y, !.next = IF f.mday = -1 THEN next ELSE @] \in Fold
    BY <2>1, FoldYear
  <2>. QED
    BY <2>2 DEF y, next
<1>7. ASSUME NEW f \in Fold, w.digits = 8
      PROVE  Whole(f) \in Fold
  <2>. DEFINE y == w.val \div 10000
              m == ((w.val % 10000) \div 100) - 1
              a == w.val % 100
  <2>1. y \in Int /\ a \in Int
    BY DEF IsNumber
  <2>2. m \in Mons
    BY <1>7 DEF Mons, IsNumber
  <2>. HIDE DEF y, m, a
  <2>3. [f EXCEPT !.year = y, !.mon = m, !.mday = a] \in Fold
    BY <2>1, <2>2, FoldDate
  <2>. QED
    BY <2>3 DEF y, m, a
<1>. HIDE DEF Turned, Mday, Year, Not, Whole
<1>8. F(e) \in Fold
  BY <1>4, <1>5
<1>9. \/ w.digits = 8 /\ R(e) = Whole(e)
      \/ R(e) = e \/ R(e) = Mday(F(e)) \/ R(e) = Year(F(e)) \/ R(e) = Not(F(e))
  <2>. DEFINE big == w.digits = 8 /\ e.year = -1 /\ e.mon = -1 /\ e.mday = -1
              day == Day(e) /\ w.val \in 1 .. 31
              f == F(e)
              year == f.next = "year" /\ f.year = -1
  <2>1. R(e) = IF big THEN Whole(e) ELSE IF zone THEN e ELSE IF day THEN Mday(f)
               ELSE IF year THEN Year(f) ELSE Not(f)
    OBVIOUS
  <2>2. big => w.digits = 8
    OBVIOUS
  <2>. HIDE DEF big, day, f, year, R, zone
  <2>3. \/ w.digits = 8 /\ R(e) = Whole(e)
        \/ R(e) = e \/ R(e) = Mday(f) \/ R(e) = Year(f) \/ R(e) = Not(f)
    BY <2>1, <2>2
  <2>. QED
    BY <2>3, Zenon DEF f
<1>. HIDE DEF F, R
<1>. QED
  BY <1>1, <1>4, <1>5, <1>6, <1>7, <1>8, <1>9, Zenon

LEMMA WordTyped ==
  ASSUME NEW d \in Fold, NEW w \in Words
  PROVE  Word(d, w) \in Fold
<1>. DEFINE name == Name(d, w.name)
            number == Number(d, w)
            sec == w.sec
            short == w.width < 7
            time == [d EXCEPT !.sec = sec, !.next = IF short THEN "bad" ELSE @]
<1>1. Word(d, w) = IF d.next = "bad" THEN d
                ELSE CASE w.kind = "name" -> name [] w.kind = "number" -> number [] w.kind = "time" -> time
  BY DEF Word
<1>2. name \in Fold
  BY NameTyped
<1>3. ASSUME w.kind = "number" PROVE number \in Fold
  <2>1. IsNumber(w)
    BY <1>3, WordIs DEF IsClock
  <2>. QED
    BY <2>1, NumberTyped
<1>4. ASSUME w.kind = "time" PROVE time \in Fold
  <2>. DEFINE bad == "bad"
  <2>1. sec \in Int /\ bad \in Nexts
    BY <1>4, WordIs DEF IsClock, IsSec, Nexts
  <2>. HIDE DEF sec, short, bad
  <2>2. [d EXCEPT !.sec = sec, !.next = IF short THEN bad ELSE @] \in Fold
    BY <2>1, FoldSec
  <2>. QED
    BY <2>2 DEF bad
<1>5. w.kind = "name" \/ w.kind = "number" \/ w.kind = "time"
  BY WordIs DEF IsClock
<1>. HIDE DEF name, number, time
<1>. QED
  BY <1>1, <1>2, <1>3, <1>4, <1>5

\* A text of six words or fewer.
LEMMA ReadTyped ==
  ASSUME NEW text \in Seq(Words), NEW n \in 0 .. 6, DOMAIN text = 1 .. n
  PROVE  Read(text) \in Fold
<1>1. PICK f : Reads(f, n, text)
  BY WordByWord
<1>. DEFINE T(k) == k <= n => f[k] \in Fold
<1>2. T(0)
  <2>1. Unread \in Fold
    BY DEF Unread, Fold, Mons, Nexts
  <2>. QED
    BY <1>1, <2>1 DEF Reads
<1>3. ASSUME NEW k \in 0 .. 5, T(k) PROVE T(k + 1)
  <2>. SUFFICES ASSUME k + 1 <= n PROVE f[k + 1] \in Fold
    OBVIOUS
  <2>1. k + 1 \in 1 .. n /\ (k + 1) - 1 = k /\ f[k] \in Fold
    BY <1>3
  <2>2. f[k + 1] = Word(f[k], text[k + 1])
    BY <1>1, <2>1 DEF Reads
  <2>3. text[k + 1] \in Words
    BY <2>1
  <2>. QED
    BY <2>1, <2>2, <2>3, WordTyped
<1>. HIDE DEF T
<1>4. T(0) /\ T(1) /\ T(2) /\ T(3) /\ T(4) /\ T(5) /\ T(6)
  <2>1. T(1)
    BY <1>2, <1>3
  <2>2. T(2)
    BY <1>3, <2>1
  <2>3. T(3)
    BY <1>3, <2>2
  <2>4. T(4)
    BY <1>3, <2>3
  <2>5. T(5)
    BY <1>3, <2>4
  <2>6. T(6)
    BY <1>3, <2>5
  <2>. QED
    BY <1>2, <2>1, <2>2, <2>3, <2>4, <2>5, <2>6
<1>5. T(n)
  BY <1>4
<1>6. f[n] \in Fold
  BY <1>5 DEF T
<1>. QED
  BY <1>1, <1>6 DEF Reads

\* Whatever the text, what it is read as is a time.
LEMMA StrtotimeTyped ==
  ASSUME NEW text \in Seq(Words)
  PROVE  Strtotime(text) \in Times
<1>. DEFINE m == IF Len(text) > 6 THEN 6 ELSE Len(text)
            u == SubSeq(text, 1, m)
            d == FoldLeft(Word, Unread, u)
            s == Seconds(d)
            days == Days(1900 + d.year, d.mon, d.mday)
<1>1. m \in 0 .. 6 /\ m <= Len(text)
  <2>. DEFINE n == Len(text)
  <2>1. n \in Nat
    OBVIOUS
  <2>. HIDE DEF n
  <2>2. (IF n > 6 THEN 6 ELSE n) \in 0 .. 6 /\ (IF n > 6 THEN 6 ELSE n) <= n
    BY <2>1
  <2>. QED
    BY <2>2 DEF n
<1>. HIDE DEF m
<1>2. u \in Seq(Words) /\ DOMAIN u = 1 .. m
  BY <1>1
<1>. HIDE DEF u
<1>3. d \in Fold
  BY <1>1, <1>2, ReadTyped DEF Read
<1>4. Strtotime(text) = Outcome(text, d)
  BY DEF Strtotime, Outcome, Late, At, Seconds, m, u
<1>. HIDE DEF d
<1>5. s \in Int
  BY <1>3 DEF Fold, Seconds
<1>6. ASSUME d.mon # -1 PROVE days \in Int
  <2>. DEFINE y == 1900 + d.year
              a == d.mon
              b == d.mday
  <2>1. y \in Int /\ a \in 0 .. 11 /\ b \in Int
    BY <1>3, <1>6 DEF Fold, Mons
  <2>. HIDE DEF y, a, b
  <2>2. Days(y, a, b) \in Int
    BY <2>1, DaysIsInt
  <2>. QED
    BY <2>2 DEF y, a, b
<1>7. ASSUME d.mon # -1 PROVE At(d, s) \in Times
  <2>. DEFINE quot == s \div 86400
              rem == s % 86400
              days1 == days
  <2>1. quot \in Int /\ rem \in Nat /\ rem < 86400
    BY <1>5
  <2>2. days1 \in Int
    BY <1>6, <1>7
  <2>3. At(d, s) = <<days1 + quot, rem>>
    BY DEF At
  <2>. HIDE DEF quot, rem, days1
  <2>. QED
    BY <2>1, <2>2, <2>3 DEF Times
<1>8. <<0, 0>> \in Times /\ Bad \in Times /\ Late \in Times
  BY DEF Times, Bad, Late
<1>9. \/ Outcome(text, d) = <<0, 0>> \/ Outcome(text, d) = Bad \/ Outcome(text, d) = Late
      \/ d.mon # -1 /\ Outcome(text, d) = At(d, s)
  <2>. DEFINE bad == d.next = "bad" \/ d.mday = -1 \/ d.mon = -1 \/ d.year = -1
              late == d.year > 2037
              at == At(d, s)
  <2>1. ~bad => d.mon # -1
    OBVIOUS
  <2>2. Outcome(text, d) = IF text = <<>> THEN <<0, 0>> ELSE IF bad THEN Bad ELSE IF late THEN Late ELSE at
    BY DEF Outcome
  <2>. HIDE DEF bad, late, at
  <2>3. \/ Outcome(text, d) = <<0, 0>> \/ Outcome(text, d) = Bad \/ Outcome(text, d) = Late
        \/ d.mon # -1 /\ Outcome(text, d) = at
    BY <2>1, <2>2
  <2>. QED
    BY <2>3, Zenon DEF at
<1>. QED
  BY <1>4, <1>7, <1>8, <1>9, Zenon

(***************************************************************************)
(* What date_get_rfc850 prints of a date from 1901 to 3870, a year counted *)
(* from 1900 and no number with a zero before it, is read back by          *)
(* __strtotime as the second it was printed from if at most one of hour,   *)
(* minute and second has one digit, and as the time -1 if two of them do:  *)
(* 18:0:0 is passed over as eight characters, which leaves half of GMT.    *)
(***************************************************************************)
THEOREM RoundTrip ==
  ASSUME NEW at \in Times, Printable(at)
  PROVE  Rfc850(at) # <<>> /\ Strtotime(Rfc850(at)) = IF Rereadable(at) THEN at ELSE Bad
<1>. DEFINE n == at[1]
            sec == at[2]
            year == YearOf(n)
            mon == MonthOf(n, year)
            mday == n - Days(year, mon, 1) + 1
            val == year - 1900
            abs(i) == IF i < 0 THEN -i ELSE i
            num(i) == [kind |-> "number", val |-> abs(i), digits |-> Digits(abs(i)),
                       sign |-> IF i < 0 THEN "-" ELSE "none"]
            word(s) == [kind |-> "name", name |-> s]
            w1 == word(Wdays[((n + 4) % 7) + 1])
            w2 == num(mday)
            w3 == word(Months[mon + 1])
            w4 == num(val)
            w5 == [kind |-> "time", sec |-> sec, width |-> Width(sec)]
            w6 == word("GMT")
            text == <<w1, w2, w3, w4, w5, w6>>
            S == {w1, w2, w3, w4, w5, w6}
<1>1. n \in Int /\ IsSec(sec) /\ at = <<n, sec>>
  BY DEF Times, IsSec
<1>2. n \in Int /\ Days(1901, 0, 1) <= n /\ n < Days(3871, 0, 1)
  BY <1>1 DEF Printable
<1>. HIDE DEF n, sec
<1>3. year \in 1901 .. 3870 /\ Days(year, 0, 1) <= n /\ n < Days(year + 1, 0, 1)
  BY <1>2, YearFound
<1>. HIDE DEF year
<1>4. year \in Int /\ val \in Nat /\ 0 < val /\ val <= 1970 /\ year # 1900 /\ 1900 + val = year
  BY <1>3
<1>5. mon \in 0 .. 11 /\ mday \in 1 .. 31
  BY <1>2, <1>3, <1>4, MonthFound
<1>6. Rfc850(at) = text
  <2>1. Rfc850(at) = IF year = 1900 THEN <<>> ELSE text
    BY DEF Rfc850, year, n, sec
  <2>. HIDE DEF text
  <2>. QED
    BY <1>4, <2>1
<1>7. Days(year, mon, mday) = n
  <2>. DEFINE first == Days(year, mon, 1)
              one == 1
  <2>1. Days(year, mon, mday) = first + mday - 1 /\ first \in Int
    <3>1. year \in Int /\ mon \in 0 .. 11 /\ mday \in Int /\ one \in Int
      BY <1>4, <1>5
    <3>. HIDE DEF mon, mday, one
    <3>2. Days(year, mon, mday) \in Int /\ Days(year, mon, mday) = Days(year, mon, 1) + mday - 1
      BY <3>1, DaysIsInt
    <3>3. Days(year, mon, one) \in Int /\ Days(year, mon, one) = Days(year, mon, 1) + one - 1
      BY <3>1, DaysIsInt
    <3>. QED
      BY <3>2, <3>3 DEF one
  <2>2. mday = n - first + 1
    OBVIOUS
  <2>. HIDE DEF first, mday
  <2>. QED
    BY <1>1, <2>1, <2>2
<1>. HIDE DEF mon, mday, val
<1>8. IsDay(w1) /\ w6 = Gmt
  <2>1. ((n + 4) % 7) + 1 \in 1 .. 7
    BY <1>1
  <2>2. DOMAIN Wdays = 1 .. 7
    BY DEF Wdays
  <2>. DEFINE i == ((n + 4) % 7) + 1
  <2>. HIDE DEF i
  <2>3. Wdays[i] \in ToSet(Wdays)
    BY <2>1, <2>2 DEF i, ToSet
  <2>. QED
    BY <2>3 DEF IsDay, Gmt, i
<1>9. IsCount(w2) /\ w2.val = mday /\ IsCount(w4) /\ w4.val = val
  <2>1. ASSUME NEW i \in Nat PROVE IsCount(num(i)) /\ num(i).val = i
    <3>1. abs(i) = i /\ ~(i < 0)
      OBVIOUS
    <3>2. Digits(i) \in 1 .. 4
      BY DEF Digits
    <3>3. num(i).kind = "number" /\ num(i).val = i /\ num(i).digits = Digits(i) /\ num(i).sign = "none"
      BY <3>1
    <3>. QED
      BY <3>2, <3>3 DEF IsCount
  <2>2. mday \in Nat /\ val \in Nat
    BY <1>4, <1>5
  <2>. HIDE DEF num
  <2>. QED
    BY <2>1, <2>2
<1>10. IsMonth(w3) /\ MonthNo(w3.name) = mon
  <2>1. mon + 1 \in 1 .. 12 /\ (mon + 1) - 1 = mon
    BY <1>5
  <2>2. DOMAIN Months = 1 .. 12
    BY DEF Months
  <2>. DEFINE k == mon + 1
  <2>. HIDE DEF k
  <2>3. Months[k] \in ToSet(Months) /\ MonthNo(Months[k]) = mon
    BY <2>1, <2>2, MonthNoIs DEF k, ToSet
  <2>. QED
    BY <2>3 DEF IsMonth, k
<1>11. IsClock(w5) /\ w5.sec = sec /\ w5.width = Width(sec)
  BY <1>1 DEF IsClock
<1>. HIDE DEF w1, w2, w3, w4, w5, w6
<1>12. /\ text \in Seq(S) /\ Len(text) = 6 /\ text # <<>>
       /\ text[1] = w1 /\ text[2] = w2 /\ text[3] = w3 /\ text[4] = w4 /\ text[5] = w5 /\ text[6] = w6
  OBVIOUS
<1>. HIDE DEF text, S
<1>13. ASSUME ~(Width(sec) < 7) PROVE Strtotime(text) = DateRead(Since1900(val), mon, mday, sec)
  <2>1. Strtotime(text) =
          DateRead(Since1900(text[4].val), MonthNo(text[3].name), text[2].val, text[5].sec)
    <3>1. /\ IsDay(text[1]) /\ IsCount(text[2]) /\ text[2].val \in 1 .. 31 /\ IsMonth(text[3])
          /\ IsCount(text[4]) /\ IsTime(text[5]) /\ text[6] = Gmt
      BY <1>5, <1>8, <1>9, <1>10, <1>11, <1>12, <1>13, Zenon DEF IsTime
    <3>. QED
      BY <1>12, <3>1, SixRead
  <2>. QED
    BY <1>9, <1>10, <1>11, <1>12, <2>1, Zenon
<1>14. Since1900(val) = val /\ ~(val > 2037)
  BY <1>4 DEF Since1900
<1>15. DateRead(val, mon, mday, sec) = <<Days(1900 + val, mon, mday), sec>>
  BY <1>14 DEF DateRead
<1>16. ASSUME ~(Width(sec) < 7) PROVE Strtotime(text) = <<n, sec>>
  <2>1. 1900 + val = year
    BY <1>4
  <2>2. Strtotime(text) = <<Days(1900 + val, mon, mday), sec>>
    <3>. DEFINE v == Since1900(val)
                days == Days(1900 + val, mon, mday)
    <3>1. v = val
      BY <1>14
    <3>. HIDE DEF v, days
    <3>2. Strtotime(text) = DateRead(v, mon, mday, sec)
      BY <1>13, <1>16 DEF v
    <3>3. DateRead(val, mon, mday, sec) = <<days, sec>>
      BY <1>15 DEF days
    <3>4. Strtotime(text) = <<days, sec>>
      BY <3>1, <3>2, <3>3, Zenon
    <3>. QED
      BY <3>4 DEF days
  <2>. QED
    BY <1>7, <2>1, <2>2
<1>17. ASSUME Width(sec) < 7 PROVE Strtotime(text) = Bad
  <2>1. /\ IsDay(text[1]) /\ IsCount(text[2]) /\ text[2].val \in 1 .. 31 /\ IsMonth(text[3])
        /\ IsCount(text[4]) /\ IsClock(text[5])
    BY <1>5, <1>8, <1>9, <1>10, <1>11, <1>12, Zenon
  <2>2. text[5].width < 7
    BY <1>11, <1>12, <1>17, Zenon
  <2>. QED
    BY <1>12, <2>1, <2>2, ShortRead
<1>18. Rereadable(at) <=> ~(Width(sec) < 7)
  <2>1. Rereadable(at) <=> Width(sec) >= 7
    BY DEF Rereadable, sec
  <2>2. Width(sec) \in Int
    BY <1>1 DEF Width, Digits, IsSec
  <2>. DEFINE w == Width(sec)
  <2>. HIDE DEF w
  <2>3. w \in Int => (w >= 7 <=> ~(w < 7))
    OBVIOUS
  <2>. QED
    BY <2>1, <2>2, <2>3 DEF w
<1>19. Strtotime(text) = IF Rereadable(at) THEN at ELSE Bad
  BY <1>1, <1>16, <1>17, <1>18
<1>. QED
  BY <1>6, <1>12, <1>19, Zenon

\* A year as date.c reads it: what a sender means by it.
IsYear(year) ==
  /\ year.val \in Nat
  /\ \/ year.digits = 2 /\ 70 <= year.val /\ year.val <= 99
     \/ year.digits = 4 /\ 1971 <= year.val /\ year.val <= 3937

LEMMA MeantIs ==
  ASSUME NEW year, IsYear(year), NEW mon, NEW mday, NEW sec
  PROVE  DateRead(Since1900(year.val), mon, mday, sec) = <<Days(FullYear(year), mon, mday), sec>>
<1>. DEFINE y == Since1900(year.val)
            c == FullYear(year)
<1>1. ~(y > 2037) /\ 1900 + y = c
  BY DEF Since1900, FullYear, IsYear
<1>2. DateRead(y, mon, mday, sec) = <<Days(1900 + y, mon, mday), sec>>
  BY <1>1 DEF DateRead
<1>. HIDE DEF y, c
<1>3. DateRead(y, mon, mday, sec) = <<Days(c, mon, mday), sec>>
  BY <1>1, <1>2
<1>. QED
  BY <1>3 DEF y, c

LEMMA YearRead ==
  ASSUME NEW year, year.digits \in {2, 4}, year.val \in ReadYears(year.digits)
  PROVE  IsYear(year)
<1>. DEFINE v == year.val
            g == year.digits
            a == IF g = 2 THEN 70 ELSE 1971
            b == IF g = 2 THEN 99 ELSE 3937
<1>1. ReadYears(g) = a .. b /\ a \in Nat /\ b \in Nat
  BY DEF ReadYears
<1>2. v \in a .. b
  <2>. HIDE DEF a, b
  <2>. QED
    BY <1>1, Zenon
<1>3. v \in Nat /\ a <= v /\ v <= b
  <2>. HIDE DEF a, b, v, g
  <2>. QED
    BY <1>1, <1>2
<1>. HIDE DEF v
<1>. QED
  BY <1>3 DEF IsYear, v

(***************************************************************************)
(* A date in one of the three forms of HTTP, of a year of two digits from  *)
(* 70 on or one of four from 1971 to 3937, is read as what its sender      *)
(* means, whatever the order of its words makes of them on the way.        *)
(***************************************************************************)
THEOREM ReadAsMeant ==
  ASSUME NEW text \in Seq(Words), ~Misdated(text)
  PROVE  Strtotime(text) = Meant(text)
<1>. DEFINE d == PartsOf(text)
            wday == d.wday
            mday == d.mday
            mon == d.mon
            year == d.year
            time == d.time
            no == MonthNo(mon.name)
<1>1. IsHttpDate(text) /\ year.val \in ReadYears(year.digits)
  BY Zenon DEF Misdated
<1>2. Len(text) = 5 \/ (Len(text) = 6 /\ text[6] = Gmt)
  BY <1>1, Zenon DEF IsHttpDate, Gmt
<1>3. IsDay(wday) /\ IsMonth(mon) /\ time.kind = "time" /\ time.width = 8
  BY <1>1, Zenon DEF IsHttpDate, IsDay, IsMonth
<1>4. mday.kind = "number" /\ mday.val \in 1 .. 31 /\ mday.digits \in 1 .. 2
  BY <1>1, Zenon DEF IsHttpDate
<1>5. year.kind = "number" /\ year.digits \in {2, 4} /\ (year.digits = 4 => year.sign = "none")
  BY <1>1, Zenon DEF IsHttpDate
<1>6. \/ Len(text) = 6 /\ wday = text[1] /\ mday = text[2] /\ mon = text[3] /\ year = text[4] /\ time = text[5]
      \/ Len(text) = 5 /\ wday = text[1] /\ mon = text[2] /\ mday = text[3] /\ time = text[4] /\ year = text[5]
  BY <1>2 DEF PartsOf
<1>7. Meant(text) = <<Days(FullYear(year), no, mday.val), time.sec>>
  BY DEF Meant
<1>. HIDE DEF d
<1>. HIDE DEF wday, mday, mon, year, time
<1>8. IsTime(time)
  <2>1. time.kind # "name" /\ time.kind # "number"
    BY <1>3
  <2>2. time \in Words
    BY <1>6
  <2>3. IsClock(time)
    BY <2>1, <2>2, WordIs, Zenon
  <2>4. ~(8 < 7)
    OBVIOUS
  <2>. QED
    BY <1>3, <2>3, <2>4, Zenon DEF IsTime
<1>9. mday.val \in 1 .. 31 /\ IsCount(mday)
  <2>. DEFINE v == mday.val
              g == mday.digits
  <2>1. v \in 1 .. 31 /\ g \in 1 .. 2
    BY <1>4, Zenon
  <2>. HIDE DEF v, g
  <2>2. v \in Nat /\ g # 8 /\ ~(g = 4 /\ v < 1300 /\ mday.sign # "none")
    BY <2>1
  <2>. QED
    BY <1>4, <2>2 DEF IsCount, v, g
<1>10. IsYear(year)
  BY <1>1, <1>5, YearRead
<1>11. IsCount(year)
  BY <1>5, <1>10 DEF IsYear, IsCount
<1>12. Strtotime(text) = DateRead(Since1900(year.val), no, mday.val, time.sec)
  <2>1. CASE Len(text) = 6
    <3>1. /\ wday = text[1] /\ mday = text[2] /\ mon = text[3] /\ year = text[4] /\ time = text[5]
          /\ text[6] = Gmt
      BY <1>2, <1>6, <2>1
    <3>2. /\ IsDay(text[1]) /\ IsCount(text[2]) /\ text[2].val \in 1 .. 31 /\ IsMonth(text[3])
          /\ IsCount(text[4]) /\ IsTime(text[5]) /\ text[6] = Gmt
      BY <1>3, <1>8, <1>9, <1>11, <3>1, Zenon
    <3>3. Strtotime(text) =
            DateRead(Since1900(text[4].val), MonthNo(text[3].name), text[2].val, text[5].sec)
      BY <2>1, <3>2, SixRead
    <3>. QED
      BY <3>1, <3>3, Zenon
  <2>2. CASE Len(text) = 5
    <3>1. wday = text[1] /\ mon = text[2] /\ mday = text[3] /\ time = text[4] /\ year = text[5]
      BY <1>6, <2>2
    <3>2. /\ IsDay(text[1]) /\ IsMonth(text[2]) /\ IsCount(text[3]) /\ text[3].val \in 1 .. 31
          /\ IsTime(text[4]) /\ IsCount(text[5])
      BY <1>3, <1>8, <1>9, <1>11, <3>1, Zenon
    <3>3. Strtotime(text) =
            DateRead(Since1900(text[5].val), MonthNo(text[2].name), text[3].val, text[4].sec)
      BY <2>2, <3>2, FiveRead
    <3>. QED
      BY <3>1, <3>3, Zenon
  <2>. QED
    BY <1>6, <2>1, <2>2
<1>13. DateRead(Since1900(year.val), no, mday.val, time.sec) = <<Days(FullYear(year), no, mday.val), time.sec>>
  BY <1>10, MeantIs
<1>. QED
  BY <1>7, <1>12, <1>13, Zenon

-----------------------------------------------------------------------------
(* The cache.                                                              *)

Paths == { u.path : u \in Urls }
ValueOf(l) == IF l.name = "etag" THEN Etag(l.value) ELSE DateOf(l.value)
Sendable == { l \in Lines : ValueOf(l) \in Vals }

\* What an answer brings.
Told == [etag : STRING \cup {NoTag}, modified : Seq(Words) \cup {NoText}, expires : SUBSET Seq(Words)]

Typed ==
  /\ told \in [Paths -> Told] /\ head \in Seq(Sendable)
  /\ pc \in {"sent", "head", "crash"} => cur \in Urls

InOrder == Ordered(hash) /\ (pc # "gone" => hash.size > 0)

\* A node holds what an answer for its path brought: the last tag or date of change, or some date
\* of expiry.
HeldOf(n, p) ==
  LET t == told[p]
  IN /\ n.key = <<"expires", p>> => \E d \in t.expires : n.val = DateOf(d)
     /\ n.key = <<"etag", p>> => n.val = Etag(t.etag)
     /\ n.key = <<"last-modified", p>> => t.modified \in Seq(Words) /\ n.val = DateOf(t.modified)
Held == \A n \in NodesOf(hash) : \A p \in Paths : HeldOf(n, p)

\* The headers of the request are made of that.
Conditions ==
  pc \in {"sent", "crash"} =>
    LET t == told[cur.path]
        date == Rfc850(Strtotime(t.modified))
    IN /\ sent.ifnon.kind = "etag" => sent.ifnon.tag = t.etag
       /\ sent.ifmod.kind = "since" => t.modified \in Seq(Words) /\ sent.ifmod.text = date
       /\ pc = "crash" => t.etag = Blank \/ (t.modified \in Seq(Words) /\ date = <<>>)

Serving ==
  served # NoUrl =>
    served \in Urls /\ \E t \in told[served.path].expires : ~Earlier(Strtotime(t), Clock[now])

CacheInv == Typed /\ InOrder /\ Held /\ Conditions /\ Serving

\* A removal leaves no entry of its key, and whatever may grow may grow after it.
LEMMA DropDrops ==
  ASSUME NEW h, Ordered(h), h.size > 0, NEW k \in Keys
  PROVE  ~Lookup(Drop(h, k), k) /\ (Growable(h) => Growable(Drop(h, k)))
<1>. DEFINE d == Drop(h, k)
            x == GenKey(h.size, k)
<1>1. Ordered(d) /\ d.size = h.size /\ NodesOf(d) \subseteq NodesOf(h)
  BY DropInOrder
<1>2. ~Lookup(d, k)
  <2>1. CASE ~Lookup(h, k)
    BY <2>1 DEF Drop
  <2>2. CASE Lookup(h, k)
    <3>1. x \in 0 .. h.size - 1
      BY KeyRange DEF Ordered, HashTypeOK
    <3>2. d.table = [h.table EXCEPT ![x] = {}]
      BY <2>2 DEF Drop
    <3>3. d.table[x] = {}
      BY <3>1, <3>2 DEF Ordered, HashTypeOK
    <3>. HIDE DEF d
    <3>. QED
      BY <1>1, <3>3 DEF Lookup
  <2>. QED
    BY <2>1, <2>2
<1>3. h.entries \in Nat /\ d.entries \in Nat /\ d.entries <= h.entries /\ h.size \in Nat
  <2>1. /\ IsFiniteSet(NodesOf(h)) /\ h.entries = Cardinality(NodesOf(h))
        /\ d.entries = Cardinality(NodesOf(d))
    BY <1>1 DEF Ordered, Counted
  <2>2. Cardinality(NodesOf(d)) <= Cardinality(NodesOf(h))
    BY <1>1, <2>1, FS_Subset
  <2>. HIDE DEF d
  <2>. QED
    BY <1>1, <2>1, <2>2 DEF Ordered, HashTypeOK
<1>. HIDE DEF d
<1>4. Sizes(d) = Sizes(h)
  BY <1>1 DEF Sizes
<1>5. Full(d) => Full(h)
  <2>. DEFINE q == h.size \div 4
  <2>1. q \in Int
    BY <1>3
  <2>2. (Full(d) <=> d.entries >= q) /\ (Full(h) <=> h.entries >= q)
    BY <1>1 DEF Full
  <2>. HIDE DEF q
  <2>. QED
    BY <1>3, <2>1, <2>2
<1>. QED
  BY <1>2, <1>4, <1>5 DEF Growable, d

LEMMA NAddSize ==
  ASSUME NEW h, Ordered(h), h.size > 0, Growable(h), NEW k, NEW v
  PROVE  NAdd(h, k, v).size > 0
<1>. DEFINE r == IF Full(h) THEN Resize(h) ELSE h
<1>1. r.size > 0
  BY ResizeInOrder DEF Growable
<1>2. Insert(r, k, v).size = r.size
  BY DEF Insert
<1>3. NAdd(h, k, v) = h \/ NAdd(h, k, v) = Insert(r, k, v)
  BY DEF NAdd
<1>. HIDE DEF r
<1>. QED
  BY <1>1, <1>2, <1>3

\* cache_add: what is not a date of expiry is there once more, with its new value.
LEMMA CacheAddAdds ==
  ASSUME NEW h, Ordered(h), h.size > 0, Growable(h), NEW type, NEW u, KeyOf(type, u) \in Keys, NEW v \in Vals
  PROVE  LET g == CacheAdd(h, type, u, v)
             new == [key |-> KeyOf(type, u), val |-> v]
         IN /\ Ordered(g) /\ g.size > 0
            /\ NodesOf(g) \subseteq NodesOf(h) \cup {new}
            /\ type # "expires" => \A n \in NodesOf(g) : n.key = new.key => n = new
<1>. DEFINE k == KeyOf(type, u)
            g == CacheAdd(h, type, u, v)
            new == [key |-> k, val |-> v]
            e == IF type # "expires" THEN Drop(h, k) ELSE h
<1>1. g = NAdd(e, k, v) /\ k \in Keys
  BY DEF CacheAdd
<1>2. /\ Ordered(e) /\ e.size > 0 /\ NodesOf(e) \subseteq NodesOf(h) /\ Growable(e)
      /\ type # "expires" => ~Lookup(e, k)
  BY DropInOrder, DropDrops
<1>. HIDE DEF e, k
<1>3. /\ Ordered(g) /\ (Lookup(e, k) => g = e)
      /\ ~Lookup(e, k) => NodesOf(g) = NodesOf(e) \cup {new}
  BY <1>1, <1>2, NAddAdds
<1>4. g.size > 0
  BY <1>1, <1>2, NAddSize
<1>5. ~Lookup(e, k) => \A n \in NodesOf(e) : n.key # k
  BY <1>1, <1>2, LookupFinds
<1>6. new.key = k
  OBVIOUS
<1>. HIDE DEF g, new
<1>7. NodesOf(g) \subseteq NodesOf(h) \cup {new}
  BY <1>2, <1>3
<1>8. ASSUME type # "expires", NEW n \in NodesOf(g), n.key = k PROVE n = new
  BY <1>2, <1>3, <1>5, <1>8
<1>. QED
  BY <1>3, <1>4, <1>6, <1>7, <1>8 DEF g, new, k

LEMMA GetIs ==
  ASSUME NEW h, Ordered(h), h.size > 0, NEW k \in Keys, Lookup(h, k)
  PROVE  \E n \in NodesOf(h) : n.key = k /\ Get(h, k) = n.val
<1>. DEFINE x == GenKey(h.size, k)
            n == CHOOSE m \in h.table[x] : m.key = k
<1>1. x \in 0 .. h.size - 1
  BY KeyRange DEF Ordered, HashTypeOK
<1>2. n \in h.table[x] /\ n.key = k
  BY DEF Lookup
<1>3. Get(h, k) = n.val
  BY DEF Get
<1>. HIDE DEF n
<1>4. n \in NodesOf(h)
  BY <1>1, <1>2 DEF NodesOf
<1>. QED
  BY <1>2, <1>3, <1>4

LEMMA KeyIs ==
  ASSUME NEW type \in Fields, NEW u \in Urls
  PROVE  KeyOf(type, u) = <<type, u.path>> /\ KeyOf(type, u) \in Keys /\ u.path \in Paths
  BY CacheAssumption DEF KeyOf, Paths

-----------------------------------------------------------------------------
\* A table that holds what was told.
Holds(h) ==
  /\ Ordered(h) /\ h.size > 0
  /\ \A n \in NodesOf(h) : \A p \in Paths : HeldOf(n, p)

\* What a lookup finds.
LEMMA HeldFor ==
  ASSUME NEW h, Holds(h), NEW u \in Urls, NEW type \in Fields, Has(h, type, u)
  PROVE  LET d == Get(h, KeyOf(type, u))
             t == told[u.path]
         IN /\ type = "expires" => \E e \in t.expires : d = DateOf(e)
            /\ type = "etag" => d = Etag(t.etag)
            /\ type = "last-modified" => t.modified \in Seq(Words) /\ d = DateOf(t.modified)
<1>. DEFINE k == KeyOf(type, u)
            p == u.path
<1>1. k = <<type, p>> /\ k \in Keys /\ p \in Paths
  BY KeyIs
<1>. HIDE DEF k, p
<1>2. PICK n \in NodesOf(h) : n.key = k /\ Get(h, k) = n.val
  BY <1>1, GetIs DEF Holds, Has, k
<1>3. HeldOf(n, p)
  BY <1>1, <1>2 DEF Holds
<1>4. /\ type = "expires" => \E e \in told[p].expires : n.val = DateOf(e)
      /\ type = "etag" => n.val = Etag(told[p].etag)
      /\ type = "last-modified" => told[p].modified \in Seq(Words) /\ n.val = DateOf(told[p].modified)
  BY <1>1, <1>2, <1>3 DEF HeldOf
<1>. QED
  BY <1>2, <1>4 DEF k, p

LEMMA Kinds ==
  /\ NoHeader.kind = "none" /\ Literal.kind = "literal"
  /\ \A tag : Etag(tag).kind = "etag" /\ Etag(tag).tag = tag
  /\ \A text : DateOf(text).kind = "date" /\ DateOf(text).at = Strtotime(text)
  BY DEF NoHeader, Literal, Etag, DateOf

\* cache_get_header: the tag that was told last,
LEMMA EtagHeader ==
  ASSUME NEW h, Holds(h), NEW u \in Urls
  PROVE  LET x == CacheHeader(h, "etag", u)
         IN /\ x.kind = "etag" => x.tag = told[u.path].etag
            /\ x = Literal => told[u.path].etag = Blank
            /\ x.kind # "since"
<1>. DEFINE x == CacheHeader(h, "etag", u)
            d == Get(h, KeyOf("etag", u))
            tag == told[u.path].etag
<1>1. CASE ~Has(h, "etag", u) \/ ~Fresh(h, u)
  <2>1. x = NoHeader
    BY <1>1 DEF CacheHeader
  <2>. HIDE DEF x
  <2>2. x.kind # "etag" /\ x # Literal /\ x.kind # "since"
    BY <2>1, Kinds
  <2>. QED
    BY <2>2 DEF x
<1>2. CASE ~(~Has(h, "etag", u) \/ ~Fresh(h, u))
  <2>1. x = IF d.tag = Blank THEN Literal ELSE d
    BY <1>2 DEF CacheHeader
  <2>2. d = Etag(tag)
    BY <1>2, HeldFor DEF Fields
  <2>. HIDE DEF x, d, tag
  <2>3. d.kind = "etag" /\ d.tag = tag /\ Literal.kind = "literal"
    BY <2>2, Kinds
  <2>4. /\ x.kind = "etag" => x.tag = tag
        /\ x = Literal => tag = Blank
        /\ x.kind # "since"
    BY <2>1, <2>3
  <2>. QED
    BY <2>4 DEF x, tag
<1>. QED
  BY <1>1, <1>2

\* and the date of change that was told last.
LEMMA ModifiedHeader ==
  ASSUME NEW h, Holds(h), NEW u \in Urls
  PROVE  LET x == CacheHeader(h, "last-modified", u)
             text == told[u.path].modified
             date == Rfc850(Strtotime(text))
         IN /\ x.kind = "since" => text \in Seq(Words) /\ x.text = date
            /\ x = Literal => text \in Seq(Words) /\ date = <<>>
<1>. DEFINE x == CacheHeader(h, "last-modified", u)
            d == Get(h, KeyOf("last-modified", u))
            text == told[u.path].modified
            date == Rfc850(Strtotime(text))
<1>1. CASE ~Has(h, "last-modified", u) \/ ~Fresh(h, u)
  <2>1. x = NoHeader
    BY <1>1 DEF CacheHeader
  <2>. HIDE DEF x
  <2>2. x.kind # "since" /\ x # Literal
    BY <2>1, Kinds
  <2>. QED
    BY <2>2 DEF x
<1>2. CASE ~(~Has(h, "last-modified", u) \/ ~Fresh(h, u))
  <2>. DEFINE printed == Rfc850(d.at)
              none == <<>>
  <2>1. x = IF printed = none THEN Literal ELSE [kind |-> "since", text |-> printed]
    BY <1>2 DEF CacheHeader
  <2>2. text \in Seq(Words) /\ d = DateOf(text)
    BY <1>2, HeldFor DEF Fields
  <2>3. printed = date
    <3>1. d.at = Strtotime(text)
      BY <2>2, Kinds
    <3>. QED
      BY <3>1
  <2>. HIDE DEF x, printed, date, none
  <2>4. x.kind = "since" => x.text = date
    BY <2>1, <2>3, Kinds
  <2>5. x = Literal => date = none
    <3>1. [kind |-> "since", text |-> printed].kind = "since"
      OBVIOUS
    <3>2. [kind |-> "since", text |-> printed] # Literal
      BY <3>1, Kinds
    <3>. QED
      BY <2>1, <2>3, <3>2
  <2>. QED
    BY <2>2, <2>4, <2>5 DEF x, date, none
<1>. QED
  BY <1>1, <1>2

\* What is fresh has a date of expiry that is not over.
LEMMA FreshUntil ==
  ASSUME NEW h, Holds(h), NEW u \in Urls, Fresh(h, u)
  PROVE  \E t \in told[u.path].expires : ~Earlier(Strtotime(t), Clock[now])
<1>. DEFINE d == Get(h, KeyOf("expires", u))
<1>1. Has(h, "expires", u) /\ ~Expired(d, Clock[now])
  BY DEF Fresh
<1>2. PICK t \in told[u.path].expires : d = DateOf(t)
  BY <1>1, HeldFor DEF Fields
<1>. HIDE DEF d
<1>3. d.at = Strtotime(t)
  BY <1>2, Kinds
<1>4. ~Earlier(Strtotime(t), Clock[now])
  BY <1>1, <1>3 DEF Expired
<1>. QED
  BY <1>4

-----------------------------------------------------------------------------
\* A request: its conditions are what was told last.
LEMMA SendKeeps ==
  ASSUME CacheInv, NEW u \in Urls, NEW h, Holds(h), Send(h, u)
  PROVE  CacheInv'
<1>. DEFINE e == CacheHeader(h, "etag", u)
            m == CacheHeader(h, "last-modified", u)
            t == told[u.path]
            date == Rfc850(Strtotime(t.modified))
<1>1. /\ sent' = [ifnon |-> e, ifmod |-> m]
      /\ pc' = IF Literal \in {e, m} THEN "crash" ELSE "sent"
      /\ cur' = u /\ served' = NoUrl /\ hash' = h /\ told' = told /\ head' = head
  BY DEF Send, ghosts
<1>2. /\ e.kind = "etag" => e.tag = t.etag
      /\ e = Literal => t.etag = Blank
  BY EtagHeader
<1>3. /\ m.kind = "since" => t.modified \in Seq(Words) /\ m.text = date
      /\ m = Literal => t.modified \in Seq(Words) /\ date = <<>>
  BY ModifiedHeader
<1>4. Typed'
  BY <1>1 DEF CacheInv, Typed
<1>5. InOrder'
  BY <1>1 DEF Holds, InOrder
<1>6. Held'
  BY <1>1 DEF Holds, Held, HeldOf
<1>7. Conditions'
  <2>1. sent'.ifnon = e /\ sent'.ifmod = m
    BY <1>1
  <2>2. pc' = "crash" => e = Literal \/ m = Literal
    BY <1>1
  <2>3. told'[cur'.path] = t /\ Rfc850(Strtotime(t.modified)) = date
    BY <1>1
  <2>. HIDE DEF e, m, t, date
  <2>4. /\ sent'.ifnon.kind = "etag" => sent'.ifnon.tag = t.etag
        /\ sent'.ifmod.kind = "since" => t.modified \in Seq(Words) /\ sent'.ifmod.text = date
        /\ pc' = "crash" => t.etag = Blank \/ (t.modified \in Seq(Words) /\ date = <<>>)
    BY <1>2, <1>3, <2>1, <2>2
  <2>. QED
    BY <2>3, <2>4, Zenon DEF Conditions
<1>8. Serving'
  BY <1>1 DEF Serving
<1>. QED
  BY <1>4, <1>5, <1>6, <1>7, <1>8 DEF CacheInv

\* The table of the cache, which is there until the end,
LEMMA CacheHolds ==
  ASSUME CacheInv, pc # "gone"
  PROVE  Holds(hash)
BY DEF CacheInv, InOrder, Held, Holds

\* and what a removal leaves of it.
LEMMA DropHolds ==
  ASSUME NEW h, Holds(h), NEW k \in Keys
  PROVE  Holds(Drop(h, k)) /\ NodesOf(Drop(h, k)) \subseteq NodesOf(h)
<1>1. Ordered(h) /\ h.size > 0
  BY DEF Holds
<1>2. /\ Ordered(Drop(h, k)) /\ Drop(h, k).size = h.size
      /\ NodesOf(Drop(h, k)) \subseteq NodesOf(h)
  BY <1>1, DropInOrder
<1>3. \A n \in NodesOf(h) : \A p \in Paths : HeldOf(n, p)
  BY DEF Holds
<1>. QED
  BY <1>1, <1>2, <1>3 DEF Holds

LEMMA PageKeeps ==
  ASSUME CacheInv, NEW u \in Urls, Page(u)
  PROVE  CacheInv'
BY CacheHolds, SendKeeps DEF Page

LEMMA PartKeeps ==
  ASSUME CacheInv, NEW u \in Urls, Part(u)
  PROVE  CacheInv'
<1>. DEFINE h == Drop(hash, KeyOf("expires", u))
<1>1. KeyOf("expires", u) \in Keys
  BY KeyIs DEF Fields
<1>2. Holds(h)
  BY <1>1, CacheHolds, DropHolds DEF Part
<1>3. Send(h, u)
  BY DEF Part
<1>. HIDE DEF h
<1>. QED
  BY <1>2, <1>3, SendKeeps

LEMMA FromCacheKeeps ==
  ASSUME CacheInv, NEW u \in Urls, FromCache(u)
  PROVE  CacheInv'
<1>1. served' = u /\ UNCHANGED <<hash, pc, now, cur, sent, head, told>>
  BY DEF FromCache, ghosts
<1>2. \E t \in told[u.path].expires : ~Earlier(Strtotime(t), Clock[now])
  BY CacheHolds, FreshUntil DEF FromCache
<1>3. Serving'
  BY <1>1, <1>2, Zenon DEF Serving
<1>4. Typed' /\ InOrder'
  BY <1>1 DEF CacheInv, Typed, InOrder
<1>5. Held'
  BY <1>1, Zenon DEF CacheInv, Held, HeldOf
<1>6. Conditions'
  BY <1>1, Zenon DEF CacheInv, Conditions
<1>. QED
  BY <1>3, <1>4, <1>5, <1>6 DEF CacheInv

\* What an answer, the end of one and the clock leave alone.
LEMMA OthersKeep ==
  ASSUME CacheInv, Answer \/ Done \/ Tick \/ UNCHANGED cacheVars
  PROVE  CacheInv'
<1>1. UNCHANGED <<hash, cur, sent, told>>
  BY DEF Answer, Done, Tick, cacheVars, ghosts
<1>2. head' \in Seq(Sendable)
  <2>1. CASE Answer
    <3>1. head' \in Answers
      BY <2>1 DEF Answer
    <3>2. ASSUME NEW a \in Answers PROVE a \in Seq(Lines) /\ \A i \in DOMAIN a : ValueOf(a[i]) \in Vals
      BY CacheAssumption DEF ValueOf
    <3>. QED
      BY <3>1, <3>2 DEF Sendable
  <2>2. head \in Seq(Sendable) /\ <<>> \in Seq(Sendable)
    BY DEF CacheInv, Typed
  <2>3. Answer \/ head' = head \/ head' = <<>>
    BY DEF Done, Tick, cacheVars
  <2>. QED
    BY <2>1, <2>2, <2>3
<1>3. pc' \in {pc, "idle"} \/ (pc = "sent" /\ pc' = "head")
  BY DEF Answer, Done, Tick, cacheVars
<1>4. served' = NoUrl \/ (served' = served /\ now' = now)
  BY DEF Answer, Done, Tick, cacheVars
<1>5. pc = "gone" => pc' = "gone"
  BY DEF Answer, Done, Tick, cacheVars
<1>6. Typed'
  BY <1>1, <1>2, <1>3 DEF CacheInv, Typed
<1>7. InOrder'
  BY <1>1, <1>5 DEF CacheInv, InOrder
<1>8. Held'
  BY <1>1, Zenon DEF CacheInv, Held, HeldOf
<1>9. Conditions'
  <2>1. pc' \in {"sent", "crash"} => pc' = pc
    BY <1>3
  <2>. QED
    BY <1>1, <2>1, Zenon DEF CacheInv, Conditions
<1>10. Serving'
  BY <1>1, <1>4, Zenon DEF CacheInv, Serving
<1>. QED
  BY <1>6, <1>7, <1>8, <1>9, <1>10 DEF CacheInv

LEMMA EndKeeps ==
  ASSUME CacheInv, End
  PROVE  CacheInv'
<1>1. /\ pc' = "gone" /\ hash' = NewHash(0) /\ served' = NoUrl
      /\ UNCHANGED <<cur, head, told>>
  BY DEF End, Destroy, ghosts
<1>2. Ordered(hash') /\ NodesOf(hash') = {}
  BY <1>1, NewInOrder
<1>. QED
  BY <1>1, <1>2 DEF CacheInv, Typed, InOrder, Held, Conditions, Serving

-----------------------------------------------------------------------------
\* What a line of an answer tells.
Heard(t, l) ==
  CASE l.name = "etag" -> [t EXCEPT !.etag = l.value]
    [] l.name = "last-modified" -> [t EXCEPT !.modified = l.value]
    [] l.name = "expires" -> [t EXCEPT !.expires = @ \cup {l.value}]

LEMMA SendableIs ==
  ASSUME NEW l \in Sendable
  PROVE  /\ l.name \in Fields /\ ValueOf(l) \in Vals
         /\ IF l.name = "etag" THEN l.value \in STRING /\ ValueOf(l) = Etag(l.value)
            ELSE l.value \in Seq(Words) /\ ValueOf(l) = DateOf(l.value)
<1>. DEFINE texts == Seq(Words)
            names == STRING
<1>1. l \in Lines /\ ValueOf(l) \in Vals
  BY DEF Sendable
<1>2. l \in [name : {"etag"}, value : names] \cup [name : {"last-modified", "expires"}, value : texts]
  <2>1. Texts \subseteq texts
    BY DEF Texts
  <2>. HIDE DEF texts, names
  <2>. QED
    BY <1>1, <2>1 DEF Lines, names
<1>. HIDE DEF texts, names
<1>3. l.name \in Fields /\ IF l.name = "etag" THEN l.value \in names ELSE l.value \in texts
  BY <1>2 DEF Fields
<1>. QED
  BY <1>1, <1>3 DEF ValueOf, texts, names

LEMMA HeardIs ==
  ASSUME NEW t \in Told, NEW l \in Sendable
  PROVE  LET g == Heard(t, l)
         IN /\ g \in Told /\ t.expires \subseteq g.expires
            /\ g.etag = IF l.name = "etag" THEN l.value ELSE t.etag
            /\ g.modified = IF l.name = "last-modified" THEN l.value ELSE t.modified
            /\ l.name = "expires" => l.value \in g.expires
<1>. DEFINE texts == Seq(Words)
            names == STRING \cup {NoTag}
            olds == texts \cup {NoText}
            v == l.value
            g == Heard(t, l)
<1>1. t \in [etag : names, modified : olds, expires : SUBSET texts]
  BY DEF Told
<1>2. l.name \in Fields /\ (l.name = "etag" => v \in names) /\ (l.name # "etag" => v \in texts)
  BY SendableIs
<1>3. v \in texts => v \in olds
  OBVIOUS
<1>. HIDE DEF texts, names, olds, v
<1>4. CASE l.name = "etag"
  <2>1. g = [t EXCEPT !.etag = v]
    BY <1>4 DEF Heard, v
  <2>. QED
    BY <1>1, <1>2, <1>4, <2>1 DEF Told, texts, names, olds, v
<1>5. CASE l.name = "last-modified"
  <2>1. g = [t EXCEPT !.modified = v]
    BY <1>5 DEF Heard, v
  <2>. HIDE DEF g
  <2>2. /\ g \in [etag : names, modified : olds, expires : SUBSET texts]
        /\ g.expires = t.expires /\ g.etag = t.etag /\ g.modified = v
    BY <1>1, <1>2, <1>3, <1>5, <2>1
  <2>. QED
    BY <1>5, <2>2 DEF Told, texts, names, olds, v, g
<1>6. CASE l.name = "expires"
  <2>1. g = [t EXCEPT !.expires = @ \cup {v}]
    BY <1>6 DEF Heard, v
  <2>. HIDE DEF g
  <2>2. /\ g \in [etag : names, modified : olds, expires : SUBSET texts]
        /\ g.expires = t.expires \cup {v} /\ g.etag = t.etag /\ g.modified = t.modified
    BY <1>1, <1>2, <1>6, <2>1
  <2>. QED
    BY <1>6, <2>2 DEF Told, texts, names, olds, v, g
<1>. QED
  BY <1>2, <1>4, <1>5, <1>6 DEF Fields

\* A line of the answer: its value replaces the one of before, or is a date of expiry more.
LEMMA LineKeeps ==
  ASSUME CacheInv, Line
  PROVE  CacheInv'
<1>. DEFINE l == Head(head)
            p0 == cur.path
            k == KeyOf(l.name, cur)
            v == ValueOf(l)
            new == [key |-> k, val |-> v]
            t == told[p0]
            g == Heard(t, l)
<1>1. /\ pc = "head" /\ head # <<>> /\ head' = Tail(head) /\ Growable(hash)
      /\ hash' = CacheAdd(hash, l.name, cur, v) /\ told' = [told EXCEPT ![p0] = g]
      /\ UNCHANGED <<pc, now, cur, sent, served>>
  <2>1. pc = "head" /\ head # <<>> /\ head' = Tail(head) /\ UNCHANGED <<pc, now, cur, sent, served>>
    BY DEF Line
  <2>2. Growable(hash) /\ hash' = CacheAdd(hash, l.name, cur, v)
    BY Zenon DEF Line, ValueOf
  <2>3. told' = [told EXCEPT ![p0] = g]
    BY DEF Line, Heard
  <2>. QED
    BY <2>1, <2>2, <2>3
<1>2. /\ cur \in Urls /\ head \in Seq(Sendable) /\ told \in [Paths -> Told]
  BY <1>1 DEF CacheInv, Typed
<1>3. l \in Sendable /\ Tail(head) \in Seq(Sendable)
  BY <1>1, <1>2
<1>4. /\ l.name \in Fields /\ v \in Vals
      /\ IF l.name = "etag" THEN l.value \in STRING /\ v = Etag(l.value)
         ELSE l.value \in Seq(Words) /\ v = DateOf(l.value)
  BY <1>3, SendableIs
<1>5. k = <<l.name, p0>> /\ k \in Keys /\ p0 \in Paths
  BY <1>2, <1>4, KeyIs
<1>6. t \in Told
  BY <1>2, <1>5
<1>. HIDE DEF l, p0, k, v, t
<1>7. /\ g \in Told /\ t.expires \subseteq g.expires
      /\ g.etag = IF l.name = "etag" THEN l.value ELSE t.etag
      /\ g.modified = IF l.name = "last-modified" THEN l.value ELSE t.modified
      /\ l.name = "expires" => l.value \in g.expires
  BY <1>3, <1>6, HeardIs
<1>. HIDE DEF g
<1>8. told' \in [Paths -> Told] /\ told'[p0] = g /\ \A p \in Paths : p # p0 => told'[p] = told[p]
  BY <1>1, <1>2, <1>5, <1>7
<1>9. Typed'
  BY <1>1, <1>2, <1>3, <1>8 DEF Typed
<1>10. Holds(hash)
  BY <1>1, CacheHolds
<1>11. /\ Ordered(hash') /\ hash'.size > 0
       /\ NodesOf(hash') \subseteq NodesOf(hash) \cup {new}
       /\ l.name # "expires" => \A n \in NodesOf(hash') : n.key = k => n = new
  <2>1. Ordered(hash) /\ hash.size > 0
    BY <1>10 DEF Holds
  <2>2. KeyOf(l.name, cur) \in Keys
    BY <1>5 DEF k
  <2>3. new = [key |-> KeyOf(l.name, cur), val |-> v] /\ new.key = k
    BY DEF k
  <2>. HIDE DEF new
  <2>. QED
    BY <1>1, <1>4, <2>1, <2>2, <2>3, CacheAddAdds
<1>12. InOrder'
  BY <1>11 DEF InOrder
<1>13. new.key = <<l.name, p0>> /\ new.val = v
  BY <1>5
<1>. HIDE DEF new
<1>14. ASSUME NEW n \in NodesOf(hash'), NEW p \in Paths
       PROVE  /\ n.key = <<"expires", p>> => \E d \in told'[p].expires : n.val = DateOf(d)
              /\ n.key = <<"etag", p>> => n.val = Etag(told'[p].etag)
              /\ n.key = <<"last-modified", p>> =>
                   told'[p].modified \in Seq(Words) /\ n.val = DateOf(told'[p].modified)
  <2>1. CASE n = new
    <3>1. \A f : n.key = <<f, p>> => f = l.name /\ p = p0
      BY <1>13, <2>1
    <3>2. n.val = v
      BY <1>13, <2>1
    <3>3. ASSUME n.key = <<"expires", p>> PROVE \E d \in told'[p].expires : n.val = DateOf(d)
      <4>1. l.name = "expires" /\ p = p0
        BY <3>1, <3>3
      <4>. QED
        BY <1>4, <1>7, <1>8, <3>2, <4>1
    <3>4. ASSUME n.key = <<"etag", p>> PROVE n.val = Etag(told'[p].etag)
      <4>1. l.name = "etag" /\ p = p0
        BY <3>1, <3>4
      <4>. QED
        BY <1>4, <1>7, <1>8, <3>2, <4>1
    <3>5. ASSUME n.key = <<"last-modified", p>>
          PROVE  told'[p].modified \in Seq(Words) /\ n.val = DateOf(told'[p].modified)
      <4>1. l.name = "last-modified" /\ p = p0
        BY <3>1, <3>5
      <4>. QED
        BY <1>4, <1>7, <1>8, <3>2, <4>1
    <3>. QED
      BY <3>3, <3>4, <3>5
  <2>2. CASE n # new
    <3>1. n \in NodesOf(hash)
      BY <1>11, <2>2
    <3>2. /\ n.key = <<"expires", p>> => \E d \in told[p].expires : n.val = DateOf(d)
          /\ n.key = <<"etag", p>> => n.val = Etag(told[p].etag)
          /\ n.key = <<"last-modified", p>> =>
               told[p].modified \in Seq(Words) /\ n.val = DateOf(told[p].modified)
      BY <1>10, <3>1, Zenon DEF Holds, HeldOf
    <3>3. CASE p # p0
      BY <1>8, <3>2, <3>3
    <3>4. CASE p = p0
      <4>1. told[p] = t /\ told'[p] = g
        BY <1>8, <3>4 DEF t
      <4>2. l.name # "expires" => n.key # <<l.name, p>>
        BY <1>5, <1>11, <2>2, <3>4
      <4>3. n.key = <<"expires", p>> => \E d \in g.expires : n.val = DateOf(d)
        BY <1>7, <3>2, <4>1
      <4>4. n.key = <<"etag", p>> => g.etag = t.etag
        BY <1>7, <4>2
      <4>5. n.key = <<"last-modified", p>> => g.modified = t.modified
        BY <1>7, <4>2
      <4>. QED
        BY <3>2, <4>1, <4>3, <4>4, <4>5
    <3>. QED
      BY <3>3, <3>4
  <2>. QED
    BY <2>1, <2>2
<1>15. Held'
  BY <1>14, Zenon DEF Held, HeldOf
<1>16. Conditions'
  BY <1>1 DEF Conditions
<1>17. Serving'
  <2>. SUFFICES ASSUME served' # NoUrl
                PROVE  served' \in Urls /\ \E s \in told'[served'.path].expires : ~Earlier(Strtotime(s), Clock[now'])
    BY Zenon DEF Serving
  <2>1. PICK s \in told[served.path].expires : ~Earlier(Strtotime(s), Clock[now])
    BY <1>1, Zenon DEF CacheInv, Serving
  <2>2. served \in Urls
    BY <1>1 DEF CacheInv, Serving
  <2>3. served.path \in Paths
    BY <2>2 DEF Paths
  <2>4. s \in told'[served.path].expires
    <3>1. CASE served.path = p0
      BY <1>7, <1>8, <2>1, <3>1 DEF t
    <3>2. CASE served.path # p0
      BY <1>8, <2>1, <2>3, <3>2
    <3>. QED
      BY <3>1, <3>2
  <2>. QED
    BY <1>1, <2>1, <2>2, <2>4, Zenon
<1>. QED
  BY <1>9, <1>12, <1>15, <1>16, <1>17 DEF CacheInv

LEMMA InitCache == Init => CacheInv
<1>. SUFFICES ASSUME Init PROVE CacheInv
  OBVIOUS
<1>. DEFINE t == [etag |-> NoTag, modified |-> NoText, expires |-> {}]
            texts == Seq(Words)
            names == STRING \cup {NoTag}
            olds == texts \cup {NoText}
<1>1. pc = "idle" /\ head = <<>> /\ served = NoUrl /\ told = [p \in Paths |-> t]
  BY DEF Init, Paths
<1>2. t \in Told
  <2>1. NoTag \in names
    OBVIOUS
  <2>2. NoText \in olds
    OBVIOUS
  <2>. HIDE DEF names, olds
  <2>3. t \in [etag : names, modified : olds, expires : SUBSET texts]
    BY <2>1, <2>2
  <2>. HIDE DEF t, texts
  <2>. QED
    BY <2>3 DEF Told, names, olds, texts
<1>. HIDE DEF t
<1>3. Typed
  BY <1>1, <1>2 DEF Typed
<1>4. hash = NewHash(Initial) /\ Initial \in Nat \ {0}
  BY HashAssumption DEF Init, HashInit
<1>5. Ordered(hash) /\ NodesOf(hash) = {} /\ hash.size > 0
  <2>1. hash.size = Initial
    BY <1>4 DEF NewHash
  <2>. QED
    BY <1>4, <2>1, NewInOrder
<1>. QED
  BY <1>1, <1>3, <1>5 DEF CacheInv, InOrder, Held, Conditions, Serving

LEMMA CacheInductive == Spec => []CacheInv
<1>1. CacheInv /\ [Next]_cacheVars => CacheInv'
  <2>. SUFFICES ASSUME CacheInv, [Next]_cacheVars PROVE CacheInv'
    OBVIOUS
  <2>1. ASSUME NEW u \in Urls, Page(u) PROVE CacheInv'
    BY <2>1, PageKeeps
  <2>2. ASSUME NEW u \in Urls, Part(u) PROVE CacheInv'
    BY <2>2, PartKeeps
  <2>3. ASSUME NEW u \in Urls, FromCache(u) PROVE CacheInv'
    BY <2>3, FromCacheKeeps
  <2>4. CASE Answer \/ Done \/ Tick \/ UNCHANGED cacheVars
    BY <2>4, OthersKeep
  <2>5. CASE Line
    BY <2>5, LineKeeps
  <2>6. CASE End
    BY <2>6, EndKeeps
  <2>. QED
    BY <2>1, <2>2, <2>3, <2>4, <2>5, <2>6 DEF Next
<1>. QED
  BY <1>1, InitCache, PTL DEF Spec

(***************************************************************************)
(* The table of a browser's cache stays in order: http.c never adds to one *)
(* that is gone, and a key that it removes is really gone before the key   *)
(* is added again.                                                         *)
(***************************************************************************)
THEOREM CacheStaysInOrder == Spec => []TableInOrder
<1>1. CacheInv => TableInOrder
  BY DEF CacheInv, InOrder, TableInOrder
<1>. QED
  BY <1>1, CacheInductive, PTL

(***************************************************************************)
(* What is taken from the cache has a date of expiry that is not over, one *)
(* that an answer for its path carried: read as it is meant, if date.c     *)
(* reads it.                                                               *)
(***************************************************************************)
THEOREM PartsAreFresh == Spec => []ServedWhileFresh
<1>1. CacheInv => ServedWhileFresh
  <2>. SUFFICES ASSUME CacheInv, served # NoUrl
                PROVE  \E t \in told[served.path].expires : Misdated(t) \/ ~Earlier(Meant(t), Clock[now])
    BY Zenon DEF ServedWhileFresh
  <2>1. PICK t \in told[served.path].expires : ~Earlier(Strtotime(t), Clock[now])
    BY Zenon DEF CacheInv, Serving
  <2>2. t \in Seq(Words)
    <3>1. served.path \in Paths /\ told \in [Paths -> Told]
      BY DEF CacheInv, Serving, Typed, Paths
    <3>2. told[served.path] \in Told
      BY <3>1
    <3>3. told[served.path].expires \in SUBSET Seq(Words)
      BY <3>2 DEF Told
    <3>. QED
      BY <3>3
  <2>3. ~Misdated(t) => Strtotime(t) = Meant(t)
    BY <2>2, ReadAsMeant
  <2>. QED
    BY <2>1, <2>3, Zenon
<1>. QED
  BY <1>1, CacheInductive, PTL

(***************************************************************************)
(* A conditional request names the tag and the date of change that answers *)
(* for its path brought last, the date in the form date_get_rfc850 prints: *)
(* date.c, though no server, reads it back as the same second if at most   *)
(* one number of its time has one digit.  The date is the one that was     *)
(* meant; only an empty tag or a year out of date.c's reach ends siege.    *)
(***************************************************************************)
THEOREM RequestsNameTheLast == Spec => []ValidatorsAreCurrent
<1>1. CacheInv => ValidatorsAreCurrent
  <2>. SUFFICES ASSUME CacheInv, pc \in {"sent", "crash"}
                PROVE  LET t == told[cur.path]
                       IN /\ sent.ifnon.kind = "etag" => sent.ifnon.tag = t.etag
                          /\ sent.ifmod.kind = "since" =>
                               /\ sent.ifmod.text = Rfc850(Strtotime(t.modified))
                               /\ Printable(Strtotime(t.modified)) /\ Rereadable(Strtotime(t.modified)) =>
                                    Strtotime(sent.ifmod.text) = Strtotime(t.modified)
                               /\ Misdated(t.modified) \/ Strtotime(t.modified) = Meant(t.modified)
                          /\ pc = "crash" => t.etag = Blank \/ ~Printable(Strtotime(t.modified))
    BY Zenon DEF ValidatorsAreCurrent
  <2>. DEFINE t == told[cur.path]
              at == Strtotime(t.modified)
              date == Rfc850(at)
  <2>1. /\ sent.ifnon.kind = "etag" => sent.ifnon.tag = t.etag
        /\ sent.ifmod.kind = "since" => t.modified \in Seq(Words) /\ sent.ifmod.text = date
        /\ pc = "crash" => t.etag = Blank \/ (t.modified \in Seq(Words) /\ date = <<>>)
    BY Zenon DEF CacheInv, Conditions
  <2>2. t.modified \in Seq(Words) => at \in Times
    BY StrtotimeTyped
  <2>3. at \in Times /\ Printable(at) => date # <<>> /\ (Rereadable(at) => Strtotime(date) = at)
    BY RoundTrip
  <2>4. t.modified \in Seq(Words) /\ ~Misdated(t.modified) => at = Meant(t.modified)
    BY ReadAsMeant
  <2>. HIDE DEF at, date
  <2>5. /\ sent.ifmod.kind = "since" => /\ sent.ifmod.text = date
                                        /\ Printable(at) /\ Rereadable(at) => Strtotime(sent.ifmod.text) = at
                                        /\ Misdated(t.modified) \/ at = Meant(t.modified)
        /\ pc = "crash" => t.etag = Blank \/ ~Printable(at)
    BY <2>1, <2>2, <2>3, <2>4
  <2>. QED
    BY <2>1, <2>5, Zenon DEF at, date
<1>. QED
  BY <1>1, CacheInductive, PTL

-----------------------------------------------------------------------------
\* Adding to a table, as in Dictionary.
LEMMA AddIsAdd ==
  ASSUME NEW h, Ordered(h), h.size > 0, Growable(h), NEW k \in Keys, NEW v \in Vals
  PROVE  Dict(NAdd(h, k, v)) = IF Lookup(h, k) THEN Dict(h) ELSE D!With(Dict(h), k, v)
<1>. DEFINE g == NAdd(h, k, v)
<1>1. /\ Ordered(g) /\ (Lookup(h, k) => g = h)
      /\ ~Lookup(h, k) => NodesOf(g) = NodesOf(h) \cup {[key |-> k, val |-> v]}
  BY NAddAdds
<1>2. ~Lookup(h, k) => \A n \in NodesOf(h) : n.key # k
  BY LookupFinds
<1>. HIDE DEF g
<1>3. ~Lookup(h, k) => Dict(g) = D!With(Dict(h), k, v)
  BY <1>1, <1>2, DictOfAdd
<1>. QED
  BY <1>1, <1>3 DEF g

(***************************************************************************)
(* The cache uses its table as a dictionary, and replaces a value only by  *)
(* removing its key first: what an answer did not name keeps its value, or *)
(* is removed with a key that shares its chain.                            *)
(***************************************************************************)
THEOREM CacheIsADictionary == Spec => DictSpec
<1>1. Init => D!Init
  <2>. SUFFICES ASSUME Init PROVE Dict(hash) = [k \in {} |-> {}]
    BY DEF D!Init
  <2>1. NodesOf(hash) = {}
    BY NewInOrder, HashAssumption DEF Init, HashInit
  <2>. QED
    BY <2>1 DEF Dict
<1>2. CacheInv /\ CacheInv' /\ [Next]_cacheVars => [D!Next]_(Dict(hash))
  <2>. SUFFICES ASSUME CacheInv, CacheInv', [Next]_cacheVars
                PROVE  D!Next \/ UNCHANGED Dict(hash)
    OBVIOUS
  <2>1. Ordered(hash) /\ Ordered(hash') /\ (pc # "gone" => hash.size > 0)
    BY DEF CacheInv, InOrder
  <2>2. ASSUME NodesOf(hash') \subseteq NodesOf(hash) PROVE D!Next
    <3>1. \E gone \in SUBSET DOMAIN Dict(hash) : Dict(hash') = D!Without(Dict(hash), gone)
      BY <2>1, <2>2, DictOfFewer
    <3>. QED
      BY <3>1 DEF D!Next, D!Remove
  <2>3. ASSUME NEW u \in Urls, Part(u) PROVE NodesOf(hash') \subseteq NodesOf(hash)
    <3>1. KeyOf("expires", u) \in Keys
      BY KeyIs DEF Fields
    <3>2. Holds(hash) /\ hash' = Drop(hash, KeyOf("expires", u))
      BY <2>3, CacheHolds DEF Part, Send
    <3>. QED
      BY <3>1, <3>2, DropHolds
  <2>4. ASSUME End PROVE NodesOf(hash') \subseteq NodesOf(hash)
    BY <2>4, NewInOrder DEF End, Destroy
  <2>5. CASE UNCHANGED hash
    BY <2>5
  <2>6. ASSUME Line PROVE D!Next \/ UNCHANGED Dict(hash)
    <3>. DEFINE l == Head(head)
                k == KeyOf(l.name, cur)
                v == ValueOf(l)
                e == IF l.name # "expires" THEN Drop(hash, k) ELSE hash
    <3>1. pc = "head" /\ head # <<>> /\ Growable(hash)
      BY <2>6 DEF Line
    <3>2. hash' = NAdd(e, k, v)
      BY <2>6, Zenon DEF Line, ValueOf, CacheAdd
    <3>3. cur \in Urls /\ l \in Sendable
      BY <3>1 DEF CacheInv, Typed
    <3>4. k \in Keys /\ v \in Vals
      BY <3>3, KeyIs, SendableIs
    <3>5. /\ Ordered(e) /\ e.size > 0 /\ NodesOf(e) \subseteq NodesOf(hash) /\ Growable(e)
          /\ l.name # "expires" => ~Lookup(e, k)
      BY <2>1, <3>1, <3>4, DropInOrder, DropDrops
    <3>6. e = hash \/ ~Lookup(e, k)
      BY <3>5
    <3>. HIDE DEF k, v, e
    <3>7. Dict(hash') = IF Lookup(e, k) THEN Dict(e) ELSE D!With(Dict(e), k, v)
      BY <3>2, <3>4, <3>5, AddIsAdd
    <3>8. CASE Lookup(e, k)
      BY <3>6, <3>7, <3>8
    <3>9. CASE ~Lookup(e, k)
      <4>1. Dict(hash') = D!With(Dict(e), k, v)
        BY <3>7, <3>9
      <4>2. CASE k \in DOMAIN Dict(hash)
        <5>1. PICK gone \in SUBSET DOMAIN Dict(hash) : Dict(e) = D!Without(Dict(hash), gone)
          BY <2>1, <3>5, DictOfFewer
        <5>2. k \notin DOMAIN Dict(e)
          <6>1. \A n \in NodesOf(e) : n.key # k
            BY <3>4, <3>5, <3>9, LookupFinds
          <6>2. DOMAIN Dict(e) = { n.key : n \in NodesOf(e) }
            BY <3>5, DictAt
          <6>. QED
            BY <6>1, <6>2
        <5>3. k \in gone
          <6>1. DOMAIN Dict(e) = DOMAIN Dict(hash) \ gone
            BY <5>1 DEF D!Without
          <6>. QED
            BY <4>2, <5>2, <6>1
        <5>4. D!Replace
          BY <3>4, <4>1, <4>2, <5>1, <5>3, Zenon DEF D!Replace
        <5>. QED
          BY <5>4 DEF D!Next
      <4>3. CASE k \notin DOMAIN Dict(hash)
        <5>1. NodesOf(e) = NodesOf(hash)
          <6>1. \A n \in NodesOf(hash) : n.key # k
            <7>1. DOMAIN Dict(hash) = { n.key : n \in NodesOf(hash) }
              BY <2>1, DictAt
            <7>. QED
              BY <4>3, <7>1
          <6>2. ~Lookup(hash, k)
            BY <2>1, <3>1, <3>4, <6>1, LookupFinds
          <6>. QED
            BY <6>2 DEF e, Drop
        <5>2. Dict(e) = Dict(hash)
          BY <5>1 DEF Dict
        <5>3. D!Add
          BY <3>4, <4>1, <5>2, Zenon DEF D!Add
        <5>. QED
          BY <5>3 DEF D!Next
      <4>. QED
        BY <4>2, <4>3
    <3>. QED
      BY <3>8, <3>9
  <2>7. ASSUME NEW u \in Urls, Page(u) \/ FromCache(u) PROVE UNCHANGED hash
    BY <2>7 DEF Page, Send, FromCache
  <2>8. ASSUME Answer \/ Done \/ Tick \/ UNCHANGED cacheVars PROVE UNCHANGED hash
    BY <2>8 DEF Answer, Done, Tick, cacheVars
  <2>. QED
    BY <2>2, <2>3, <2>4, <2>5, <2>6, <2>7, <2>8 DEF Next
<1>. QED
  BY <1>1, <1>2, CacheInductive, PTL DEF Spec, DictSpec, D!Spec
===============================================================================
