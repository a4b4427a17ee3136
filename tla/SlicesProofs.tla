----------------------------- MODULE SlicesProofs -----------------------------
(***************************************************************************)
(* The slices of --reps=once, for every length of the URL list and every   *)
(* number of browsers.                                                     *)
(***************************************************************************)
EXTENDS Slices, TLAPS

\* Division with remainder.
LEMMA DivMod ==
  ASSUME NEW n \in Nat, NEW k \in Nat \ {0}
  PROVE  /\ n \div k \in Nat /\ n % k \in 0 .. k - 1
         /\ n = k * (n \div k) + (n % k)
  OBVIOUS

\* Products of naturals grow with their factors.
LEMMA Monotone ==
  ASSUME NEW a \in Nat, NEW b \in Nat, a <= b, NEW q \in Nat
  PROVE  a * q <= b * q
<1>1. PICK d \in Nat : b = a + d
  <2>. WITNESS b - a \in Nat
  <2>. QED
    OBVIOUS
<1>2. b * q = a * q + d * q /\ d * q \in Nat
  BY <1>1
<1>. QED
  BY <1>2

\* What a browser gets, in terms of the quotient and the remainder.
LEMMA SliceOf ==
  ASSUME NEW n \in Nat, NEW k \in Nat \ {0}, NEW i \in 0 .. k - 1
  PROVE  LET q == n \div k
             r == n % k
         IN /\ BeginUrl(i, n, k) = i * q + (IF i < r THEN i ELSE r)
            /\ EndUrl(i, n, k) = i * q + q + (IF i < r THEN i + 1 ELSE r)
            /\ BeginUrl(i, n, k) \in Nat /\ EndUrl(i, n, k) \in Nat
<1>. DEFINE q == n \div k
            r == n % k
<1>1. q \in Nat /\ r \in 0 .. k - 1
  BY DivMod
<1>2. (i + 1) * q = i * q + q /\ i * q \in Nat
  BY <1>1
<1>3. /\ BeginUrl(i, n, k) = i * q + (IF i < r THEN i ELSE r)
      /\ EndUrl(i, n, k) = (i + 1) * q + (IF i < r THEN i + 1 ELSE r)
  BY DEF BeginUrl, EndUrl, Part
<1>. HIDE DEF q, r
<1>4. BeginUrl(i, n, k) \in Nat /\ EndUrl(i, n, k) \in Nat
  BY <1>1, <1>2, <1>3
<1>. QED
  BY <1>2, <1>3, <1>4 DEF q, r

(***************************************************************************)
(* The slices of main.c follow each other without a gap, from the first    *)
(* entry to the last, and no browser gets more than one entry more than    *)
(* another.                                                                *)
(***************************************************************************)
THEOREM SlicesFollow ==
  ASSUME NEW n \in Nat, NEW k \in Nat \ {0}
  PROVE  /\ BeginUrl(0, n, k) = 0
         /\ EndUrl(k - 1, n, k) = n
         /\ \A i \in 0 .. k - 2 : EndUrl(i, n, k) = BeginUrl(i + 1, n, k)
         /\ \A i \in 0 .. k - 1 :
              EndUrl(i, n, k) - BeginUrl(i, n, k) \in {n \div k, n \div k + 1}
<1>. DEFINE q == n \div k
            r == n % k
<1>1. q \in Nat /\ r \in 0 .. k - 1 /\ n = k * q + r
  BY DivMod
<1>2. \A i \in 0 .. k - 1 : /\ BeginUrl(i, n, k) = i * q + (IF i < r THEN i ELSE r)
                            /\ EndUrl(i, n, k) = i * q + q + (IF i < r THEN i + 1 ELSE r)
  BY SliceOf
<1>3. \A i \in Nat : i * q \in Nat /\ (i + 1) * q = i * q + q
  BY <1>1
<1>. HIDE DEF q, r
<1>4. BeginUrl(0, n, k) = 0
  BY <1>1, <1>2
<1>5. EndUrl(k - 1, n, k) = n
  <2>1. k - 1 \in Nat /\ k - 1 + 1 = k
    OBVIOUS
  <2>2. k * q = (k - 1) * q + q
    BY <1>3, <2>1
  <2>. QED
    BY <1>1, <1>2, <1>3, <2>1, <2>2
<1>6. \A i \in 0 .. k - 2 : EndUrl(i, n, k) = BeginUrl(i + 1, n, k)
  <2>. TAKE i \in 0 .. k - 2
  <2>1. i \in 0 .. k - 1 /\ i + 1 \in 0 .. k - 1 /\ (i + 1) * q = i * q + q
    BY <1>3
  <2>. QED
    BY <1>1, <1>2, <1>3, <2>1
<1>7. \A i \in 0 .. k - 1 : EndUrl(i, n, k) - BeginUrl(i, n, k) \in {q, q + 1}
  BY <1>1, <1>2, <1>3
<1>. QED
  BY <1>4, <1>5, <1>6, <1>7 DEF q

(***************************************************************************)
(* No entry is requested by two browsers.                                  *)
(***************************************************************************)
THEOREM SlicesDisjoint ==
  ASSUME NEW n \in Nat, NEW k \in Nat \ {0}, NEW i \in 0 .. k - 1, NEW j \in 0 .. k - 1, i < j
  PROVE  Slice(i, n, k) \cap Slice(j, n, k) = {}
<1>. DEFINE q == n \div k
            r == n % k
<1>1. q \in Nat /\ r \in 0 .. k - 1
  BY DivMod
<1>2. (i + 1) * q <= j * q /\ (i + 1) * q = i * q + q /\ j * q \in Nat /\ i * q \in Nat
  BY <1>1, Monotone
<1>3. EndUrl(i, n, k) = i * q + q + (IF i < r THEN i + 1 ELSE r) /\ EndUrl(i, n, k) \in Nat
  BY SliceOf
<1>4. BeginUrl(j, n, k) = j * q + (IF j < r THEN j ELSE r) /\ BeginUrl(j, n, k) \in Nat
  BY SliceOf
<1>5. BeginUrl(i, n, k) \in Nat /\ EndUrl(j, n, k) \in Nat
  BY SliceOf
<1>. HIDE DEF q, r
<1>6. EndUrl(i, n, k) <= BeginUrl(j, n, k)
  BY <1>1, <1>2, <1>3, <1>4
<1>. QED
  BY <1>3, <1>4, <1>5, <1>6 DEF Slice

(***************************************************************************)
(* Every entry is requested by a browser.                                  *)
(***************************************************************************)
THEOREM SlicesCover ==
  ASSUME NEW n \in Nat, NEW k \in Nat \ {0}, NEW e \in 0 .. n - 1
  PROVE  \E i \in 0 .. k - 1 : e \in Slice(i, n, k)
<1>. DEFINE q == n \div k
            r == n % k
<1>1. q \in Nat /\ r \in 0 .. k - 1 /\ n = k * q + r
  BY DivMod
<1>2. \A i \in 0 .. k - 1 : /\ BeginUrl(i, n, k) = i * q + (IF i < r THEN i ELSE r)
                            /\ EndUrl(i, n, k) = i * q + q + (IF i < r THEN i + 1 ELSE r)
                            /\ BeginUrl(i, n, k) \in Nat /\ EndUrl(i, n, k) \in Nat
  BY SliceOf
<1>. HIDE DEF q, r
\* The first r slices have q + 1 entries each,
<1>3. CASE e < r * (q + 1)
  <2>. DEFINE i == e \div (q + 1)
              m == e % (q + 1)
  <2>1. i \in Nat /\ m \in 0 .. q /\ e = (q + 1) * i + m
    <3>1. q + 1 \in Nat \ {0} /\ e \in Nat
      BY <1>1
    <3>2. \A b \in Nat \ {0} : /\ e \div b \in Nat /\ e % b \in 0 .. b - 1
                              /\ e = b * (e \div b) + (e % b)
      BY <3>1, DivMod
    <3>3. /\ i \in Nat /\ m \in 0 .. (q + 1) - 1
          /\ e = (q + 1) * i + m
      BY <3>1, <3>2, Zenon
    <3>. HIDE DEF i, m
    <3>. QED
      BY <1>1, <3>3
  <2>. HIDE DEF i, m
  <2>2. i < r
    <3>1. CASE r <= i
      <4>1. r * (q + 1) <= i * (q + 1)
        BY <1>1, <2>1, <3>1, Monotone
      <4>2. i * (q + 1) = (q + 1) * i /\ i * (q + 1) \in Nat /\ r * (q + 1) \in Nat
        BY <1>1, <2>1
      <4>. QED
        BY <1>1, <1>3, <2>1, <4>1, <4>2
    <3>. QED
      BY <1>1, <2>1, <3>1
  <2>3. i \in 0 .. k - 1 /\ (q + 1) * i = i * q + i /\ i * q \in Nat
    BY <1>1, <2>1, <2>2
  <2>4. BeginUrl(i, n, k) <= e /\ e < EndUrl(i, n, k)
    BY <1>1, <1>2, <2>1, <2>2, <2>3
  <2>. QED
    BY <1>2, <2>3, <2>4 DEF Slice
\* and the others q.
<1>4. CASE r * (q + 1) <= e
  <2>1. r * (q + 1) = r * q + r /\ r * q \in Nat /\ (k - r) * q = k * q - r * q
    BY <1>1
  <2>2. q \in Nat \ {0}
    <3>1. CASE q = 0
      <4>1. k * q = 0 /\ r * q = 0
        BY <1>1, <3>1
      <4>. QED
        BY <1>1, <1>4, <2>1, <4>1
    <3>. QED
      BY <1>1, <3>1
  <2>. DEFINE f == e - r * (q + 1)
              j == f \div q
              m == f % q
  <2>3. f \in Nat /\ e = r * q + r + f
    <3>1. e \in Nat /\ r * (q + 1) \in Nat
      BY <1>1, <2>1
    <3>. QED
      BY <1>1, <1>4, <2>1, <3>1
  <2>4. j \in Nat /\ m \in 0 .. q - 1 /\ f = q * j + m
    <3>. HIDE DEF f
    <3>. QED
      BY <2>2, <2>3, DivMod
  <2>. HIDE DEF f, j, m
  <2>5. j < k - r
    <3>1. CASE k - r <= j
      <4>1. (k - r) * q <= j * q
        BY <1>1, <2>2, <2>4, <3>1, Monotone
      <4>2. j * q = q * j /\ j * q \in Nat /\ k * q \in Nat
        BY <1>1, <2>4
      <4>. QED
        BY <1>1, <2>1, <2>3, <2>4, <4>1, <4>2
    <3>. QED
      BY <1>1, <2>4, <3>1
  <2>. DEFINE i == r + j
  <2>6. i \in 0 .. k - 1 /\ ~(i < r) /\ i * q = r * q + j * q /\ q * j = j * q /\ j * q \in Nat
    BY <1>1, <2>4, <2>5
  <2>7. BeginUrl(i, n, k) = r * q + j * q + r /\ EndUrl(i, n, k) = r * q + j * q + q + r
    <3>. HIDE DEF i
    <3>. QED
      BY <1>2, <2>6
  <2>8. BeginUrl(i, n, k) <= e /\ e < EndUrl(i, n, k)
    BY <1>1, <2>1, <2>3, <2>4, <2>6, <2>7
  <2>. HIDE DEF i
  <2>. QED
    BY <1>2, <2>6, <2>8 DEF Slice
<1>. QED
  BY <1>1, <1>3, <1>4
===============================================================================
