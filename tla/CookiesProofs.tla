---------------------------- MODULE CookiesProofs ----------------------------
(***************************************************************************)
(* Cookies, for every number of users, lines and sieges and whatever the   *)
(* lines say: a jar has a cookie once, sends what a map of the cookies     *)
(* would, and survives the file.                                           *)
(***************************************************************************)
EXTENDS Cookies, WellFoundedInduction, FiniteSetTheorems, SequenceTheorems, TLAPS

-----------------------------------------------------------------------------
(* The inductive invariant.                                                *)

\* What a line describes, half read and whole.
Maybe == Texts \cup {None}
Drafts == {d \in [name : Maybe, value : Maybe, path : Maybe, domain : Maybe,
                  persistent : BOOLEAN, age : Nat, date : Nat, began : Nat] :
             d.name = None <=> d.value = None}
Wholes == {c \in [name : Maybe, value : Maybe, path : Texts, domain : Maybe,
                  hostonly : BOOLEAN, persistent : BOOLEAN, expires : Nat, session : BOOLEAN] :
             /\ c.session <=> c.expires = 0
             /\ c.domain = None => c.hostonly
             /\ c.name = None <=> c.value = None}

\* A jar has a cookie once.
Single(list) == \A j, k \in DOMAIN list : Identity(list[j]) = Identity(list[k]) => j = k
Jars == {list \in Seq(Wholes) : Single(list)}

Typed == /\ now \in 1 .. MaxTime /\ users \in 0 .. MaxUsers /\ mixed \in BOOLEAN
         /\ file \in [Users -> Seq(Seq(Tokens))]
         /\ jar \in [Users -> Jars] /\ ideal \in [Users -> SUBSET Wholes]
         /\ draft \in [Users -> Drafts] /\ left \in [of : 0 .. MaxUsers, tokens : Seq(Tokens)]
         /\ from \in [Users -> [host : Maybe, cookie : Wholes \cup {NoDraft}]]

\* Only browsers that exist have cookies and parse lines, those of a host.
Placed(i) == /\ i > users => jar[i] = << >> /\ draft[i] = NoDraft
             /\ draft[i] # NoDraft => from[i].host \in Hosts /\ from[i].cookie \in Wholes

\* What strtok has left of the line will complete the draft.
Rest(d, tokens) == FoldLeft(Taken, d, tokens)
Drafted(i) == draft[i] # NoDraft /\ left.of = i =>
                Complete(Rest(draft[i], left.tokens), from[i].host) = from[i].cookie

\* The jar has the cookies of the map, but for the mark that they are to be kept.
Alike(c, d) == /\ c.name = d.name /\ c.value = d.value /\ c.path = d.path /\ c.domain = d.domain
               /\ c.hostonly = d.hostonly /\ c.expires = d.expires /\ c.session = d.session
MirrorOf(list, map) == /\ \A j \in DOMAIN list : \E d \in map : Alike(list[j], d)
                       /\ \A d \in map : \E j \in DOMAIN list : Alike(list[j], d)
Mirrored(i) == MirrorOf(jar[i], ideal[i])

\* Every cookie of the file has its like in the jar that was filled from it.
IdentityIn(line) == Identity(Parsed(Readable(line), 0, None))
HasAll(list, text) == \A k \in DOMAIN text :
                        \E j \in DOMAIN list : Identity(list[j]) = IdentityIn(text[k])
FromFile(i) == i =< users => HasAll(jar[i], file[i])

CInv == /\ Typed
        /\ \A i \in Users : Placed(i) /\ FromFile(i) /\ (mixed \/ (Drafted(i) /\ Mirrored(i)))

-----------------------------------------------------------------------------
(* Induction, and what the folds and selections of the model amount to.    *)

\* The least-number principle, for proofs by induction over sets of numbers.
LEMMA NatIsWellFounded ==
    \E R : IsWellFoundedOn(R, Nat) /\ \A x, y \in Nat : x < y => <<x, y>> \in R
<1>1. IsWellFoundedOn(OpToRel(<, Nat), Nat)
  BY NatLessThanWellFounded
<1>2. \A x, y \in Nat : x < y => <<x, y>> \in OpToRel(<, Nat)
  BY Zenon DEF OpToRel
<1>. QED
  BY <1>1, <1>2, Zenon

\* A set of numbers that holds 0, and the next number up to N, holds all up to N.
LEMMA Induction ==
    ASSUME NEW N \in Nat, NEW S, 0 \in S, \A n \in 0 .. N - 1 : n \in S => n + 1 \in S
    PROVE  \A n \in 0 .. N : n \in S
<1>. DEFINE T == {n \in 0 .. N : n \notin S}
<1>. SUFFICES ASSUME T # {} PROVE FALSE
  OBVIOUS
<1>1. PICK R : IsWellFoundedOn(R, Nat) /\ \A x, y \in Nat : x < y => <<x, y>> \in R
  BY NatIsWellFounded
<1>2. T \subseteq Nat
  OBVIOUS
<1>3. PICK m \in T : \A y \in T : ~(<<y, m>> \in R)
  <2>1. IsWellFoundedOn(R, Nat)
    BY <1>1
  <2>. HIDE <1>1 DEF T
  <2>. QED
    BY <1>2, <2>1, WFMin, Zenon
<1>4. m \in Nat /\ m # 0 /\ m =< N
  OBVIOUS
<1>5. m - 1 \in 0 .. N - 1 /\ m - 1 < m /\ m - 1 \in Nat
  BY <1>4
<1>6. m - 1 \notin T
  <2>1. <<m - 1, m>> \in R
    BY <1>1, <1>4, <1>5
  <2>. QED
    BY <1>3, <2>1
<1>7. m - 1 \in S
  BY <1>5, <1>6
<1>8. m \in S
  <2>1. (m - 1) + 1 \in S
    BY <1>5, <1>7
  <2>. QED
    BY <1>4, <2>1
<1>. QED
  BY <1>8


LEMMA MaxIs ==
    ASSUME NEW s \in SUBSET Nat, NEW m \in s, \A y \in s : m >= y
    PROVE  Max(s) = m
<1>1. \E x \in s : \A y \in s : x >= y
  OBVIOUS
<1>2. Max(s) \in s /\ \A y \in s : Max(s) >= y
  BY <1>1 DEF Max
<1>3. Max(s) \in Nat /\ m \in Nat /\ Max(s) >= m /\ m >= Max(s)
  BY <1>2
<1>. QED
  BY <1>3

\* The values of a fold of F, by the places of seq it is a fold over.
IsFold(h, A, B, F, d, seq) ==
    /\ h \in [SUBSET DOMAIN seq -> A]
    /\ \A s \in SUBSET DOMAIN seq :
         IF s = {} THEN h[s] = d
         ELSE /\ h[s] = F[<<h[s \ {Max(s)}], seq[Max(s)]>>]
              /\ h[s \ {Max(s)}] \in A /\ seq[Max(s)] \in B

LEMMA FoldExists ==
    ASSUME NEW A, NEW B, NEW F \in [A \X B -> A], NEW d \in A, NEW seq \in Seq(B)
    PROVE  \E h : IsFold(h, A, B, F, d, seq)
<1>. DEFINE N == Len(seq)
            Eq(n, h) == /\ h \in [SUBSET (1 .. n) -> A]
                        /\ \A s \in SUBSET (1 .. n) :
                             IF s = {} THEN h[s] = d
                             ELSE /\ h[s] = F[<<h[s \ {Max(s)}], seq[Max(s)]>>]
                                  /\ h[s \ {Max(s)}] \in A /\ seq[Max(s)] \in B
            S == {n \in Nat : \E h : Eq(n, h)}
<1>1. 0 \in S
  <2>1. Eq(0, [s \in SUBSET (1 .. 0) |-> d])
    OBVIOUS
  <2>. HIDE DEF Eq
  <2>. QED
    BY <2>1
<1>2. ASSUME NEW n \in 0 .. N - 1, n \in S PROVE n + 1 \in S
  <2>1. PICK h : Eq(n, h)
    BY <1>2
  <2>2. n + 1 \in 1 .. N /\ seq[n + 1] \in B /\ n \in Nat
    OBVIOUS
  <2>. DEFINE g == [s \in SUBSET (1 .. n + 1) |->
                      IF n + 1 \in s THEN F[<<h[s \ {n + 1}], seq[n + 1]>>] ELSE h[s]]
  <2>3. ASSUME NEW s \in SUBSET (1 .. n + 1)
        PROVE  s \ {n + 1} \in SUBSET (1 .. n) /\ h[s \ {n + 1}] \in A
    <3>1. s \ {n + 1} \in SUBSET (1 .. n)
      BY <2>2
    <3>. QED
      BY <2>1, <3>1
  <2>4. g \in [SUBSET (1 .. n + 1) -> A]
    <3>1. ASSUME NEW s \in SUBSET (1 .. n + 1) PROVE g[s] \in A
      <4>1. CASE n + 1 \in s
        BY <2>2, <2>3, <4>1
      <4>2. CASE n + 1 \notin s
        <5>1. s = s \ {n + 1}
          BY <4>2
        <5>. QED
          BY <2>3, <4>2, <5>1
      <4>. QED
        BY <4>1, <4>2
    <3>. QED
      BY <3>1
  <2>5. ASSUME NEW s \in SUBSET (1 .. n + 1), s # {}
        PROVE  /\ g[s] = F[<<g[s \ {Max(s)}], seq[Max(s)]>>]
               /\ g[s \ {Max(s)}] \in A /\ seq[Max(s)] \in B
    <3>1. CASE n + 1 \in s
      <4>1. Max(s) = n + 1
        BY <2>2, <3>1, MaxIs
      <4>. DEFINE r == s \ {n + 1}
      <4>2. r \in SUBSET (1 .. n + 1) /\ n + 1 \notin r /\ h[r] \in A
        BY <2>3
      <4>. HIDE DEF r
      <4>3. g[r] = h[r]
        BY <4>2
      <4>4. g[s] = F[<<h[r], seq[n + 1]>>]
        BY <3>1 DEF r
      <4>. QED
        BY <2>2, <4>1, <4>2, <4>3, <4>4 DEF r
    <3>2. CASE n + 1 \notin s
      <4>1. s \in SUBSET (1 .. n)
        BY <2>2, <3>2
      <4>. DEFINE r == s \ {Max(s)}
      <4>2. r \in SUBSET (1 .. n + 1) /\ n + 1 \notin r
        BY <3>2
      <4>3. h[s] = F[<<h[r], seq[Max(s)]>>] /\ h[r] \in A /\ seq[Max(s)] \in B
        BY <2>1, <2>5, <4>1
      <4>. HIDE DEF r
      <4>4. g[r] = h[r] /\ g[s] = h[s]
        BY <3>2, <4>2
      <4>. QED
        BY <4>3, <4>4 DEF r
    <3>. QED
      BY <3>1, <3>2
  <2>6. g[{}] = d
    BY <2>1
  <2>7. Eq(n + 1, g)
    <3>. HIDE DEF g
    <3>. QED
      BY <2>4, <2>5, <2>6
  <2>. HIDE DEF Eq, g
  <2>. QED
    BY <2>2, <2>7
<1>3. N \in Nat /\ DOMAIN seq = 1 .. N
  OBVIOUS
<1>4. N \in S
  <2>. HIDE DEF S, N
  <2>1. \A n \in 0 .. N : n \in S
    BY <1>1, <1>2, <1>3, Induction
  <2>. QED
    BY <1>3, <2>1
<1>5. PICK h : Eq(N, h)
  BY <1>4
<1>. QED
  BY <1>3, <1>5 DEF IsFold

\* The initial segments.
LEMMA Segments ==
    ASSUME NEW N \in Nat, NEW n \in 1 .. N
    PROVE  /\ Max(1 .. n) = n /\ (1 .. n) \ {n} = 1 .. n - 1 /\ 1 .. n # {}
           /\ 1 .. n \in SUBSET (1 .. N) /\ n \in 0 .. N /\ n - 1 \in 0 .. N
<1>1. n \in Nat /\ n =< N /\ n >= 1 /\ n \in 1 .. n
  OBVIOUS
<1>2. Max(1 .. n) = n
  BY <1>1, MaxIs
<1>. QED
  BY <1>1, <1>2

\* One more token, and all of them: the cookie after each.
LEMMA TakenIsDraft ==
    ASSUME NEW d \in Drafts, NEW token \in Tokens
    PROVE  Taken(d, token) \in Drafts
<1>. USE CookiesAssumption DEF Drafts, Maybe
<1>1. CASE token \in [key : {"max-age", "expires", "digits"}, val : Int]
  <2>1. token.val \in Int /\ token.key # "path" /\ token.key # "domain"
        /\ token.key # "persistent" /\ token.key # "pair"
    BY <1>1
  <2>2. ASSUME token.key = "max-age", token.val > 0 PROVE Taken(d, token) \in Drafts
    <3>1. Taken(d, token) = [d EXCEPT !.age = d.began + token.val]
      BY <2>2 DEF Taken
    <3>2. d.began + token.val \in Nat
      BY <2>1, <2>2
    <3>. QED
      BY <3>1, <3>2
  <2>3. ASSUME token.key = "max-age", ~(token.val > 0) PROVE Taken(d, token) \in Drafts
    BY <2>1, <2>3 DEF Taken
  <2>4. ASSUME token.key \in {"expires", "digits"} PROVE Taken(d, token) \in Drafts
    <3>1. DateOf(token, d.began) \in Int
      BY <2>1 DEF DateOf
    <3>2. CASE DateOf(token, d.began) > 0
      <4>1. Taken(d, token) = [d EXCEPT !.date = DateOf(token, d.began)]
        BY <2>4, <3>2 DEF Taken
      <4>. QED
        BY <3>1, <3>2, <4>1
    <3>3. CASE ~(DateOf(token, d.began) > 0)
      <4>1. Taken(d, token) = d
        BY <2>1, <2>4, <3>3 DEF Taken
      <4>. QED
        BY <4>1
    <3>. QED
      BY <3>2, <3>3
  <2>. QED
    BY <1>1, <2>2, <2>3, <2>4
<1>2. CASE token \in [key : {"path", "domain"}, val : Texts]
  BY <1>2 DEF Taken
<1>3. CASE token \in [key : {"persistent"}, val : {TRUE}]
  BY <1>3 DEF Taken
<1>4. CASE token \in [key : {"pair"}, name : Texts, val : Texts]
  BY <1>4 DEF Taken
<1>. QED
  BY <1>1, <1>2, <1>3, <1>4 DEF Tokens

LEMMA TakenInTurn ==
    ASSUME NEW d \in Drafts, NEW tokens \in Seq(Tokens)
    PROVE  \E f \in [0 .. Len(tokens) -> Drafts] :
             /\ f[0] = d /\ Rest(d, tokens) = f[Len(tokens)]
             /\ \A n \in 1 .. Len(tokens) : f[n] = Taken(f[n - 1], tokens[n])
<1>. DEFINE N == Len(tokens)
            F == [p \in Drafts \X Tokens |-> Taken(p[1], p[2])]
            Fold(h) == h = [s \in SUBSET DOMAIN tokens |->
                              IF s = {} THEN d
                              ELSE Taken(h[s \ {Max(s)}], tokens[Max(s)])]
            iter == CHOOSE h : Fold(h)
<1>1. N \in Nat /\ DOMAIN tokens = 1 .. N
  OBVIOUS
<1>2. F \in [Drafts \X Tokens -> Drafts]
  BY TakenIsDraft
<1>3. \E h : Fold(h)
  <2>1. d \in Drafts
    OBVIOUS
  <2>. HIDE DEF F
  <2>2. PICK h : IsFold(h, Drafts, Tokens, F, d, tokens)
    BY <1>2, <2>1, FoldExists
  <2>3. ASSUME NEW s \in SUBSET DOMAIN tokens
        PROVE  h[s] = IF s = {} THEN d ELSE Taken(h[s \ {Max(s)}], tokens[Max(s)])
    BY <2>2 DEF F, IsFold
  <2>4. h = [s \in SUBSET DOMAIN tokens |-> h[s]]
    BY <2>2 DEF IsFold
  <2>5. Fold(h)
    BY <2>3, <2>4
  <2>. HIDE DEF Fold
  <2>. QED
    BY <2>5
<1>4. Fold(iter)
  <2>. HIDE DEF Fold
  <2>. QED
    BY <1>3
<1>5. Rest(d, tokens) = iter[1 .. N]
  <2>1. Rest(d, tokens) = iter[DOMAIN tokens]
    BY DEF Rest, FoldLeft, MapThenFoldSet
  <2>. HIDE DEF iter
  <2>. QED
    BY <1>1, <2>1
<1>. HIDE DEF iter
<1>. DEFINE f == [n \in 0 .. N |-> iter[1 .. n]]
            S == {n \in Nat : iter[1 .. n] \in Drafts}
<1>6. iter[1 .. 0] = d
  BY <1>4
<1>7. ASSUME NEW n \in 1 .. N PROVE iter[1 .. n] = Taken(iter[1 .. n - 1], tokens[n])
  <2>1. iter[1 .. n] = Taken(iter[(1 .. n) \ {Max(1 .. n)}], tokens[Max(1 .. n)])
    BY <1>1, <1>4, Segments
  <2>. QED
    BY <1>1, <2>1, Segments
<1>8. ASSUME NEW n \in 0 .. N PROVE iter[1 .. n] \in Drafts
  <2>1. 0 \in S
    BY <1>6
  <2>2. ASSUME NEW m \in 0 .. N - 1, m \in S PROVE m + 1 \in S
    <3>1. m + 1 \in 1 .. N /\ (m + 1) - 1 = m /\ iter[1 .. m] \in Drafts /\ m + 1 \in Nat
      BY <1>1, <2>2
    <3>2. tokens[m + 1] \in Tokens
      BY <1>1, <3>1
    <3>3. iter[1 .. m + 1] = Taken(iter[1 .. m], tokens[m + 1])
      BY <1>7, <3>1
    <3>. QED
      BY <3>1, <3>2, <3>3, TakenIsDraft
  <2>. HIDE DEF S
  <2>3. \A m \in 0 .. N : m \in S
    BY <1>1, <2>1, <2>2, Induction
  <2>. QED
    BY <2>3 DEF S
<1>9. f \in [0 .. N -> Drafts] /\ f[0] = d /\ Rest(d, tokens) = f[N]
  BY <1>1, <1>5, <1>6, <1>8
<1>10. ASSUME NEW n \in 1 .. N PROVE f[n] = Taken(f[n - 1], tokens[n])
  <2>1. n \in 0 .. N /\ n - 1 \in 0 .. N
    BY <1>1
  <2>2. f[n] = iter[1 .. n] /\ f[n - 1] = iter[1 .. n - 1]
    BY <2>1
  <2>. QED
    BY <1>7, <2>2
<1>. HIDE DEF f
<1>. QED
  BY <1>9, <1>10


LEMMA RestIsDraft ==
    ASSUME NEW d \in Drafts, NEW tokens \in Seq(Tokens)
    PROVE  Rest(d, tokens) \in Drafts
<1>1. Len(tokens) \in 0 .. Len(tokens)
  OBVIOUS
<1>. QED
  BY <1>1, TakenInTurn

LEMMA RestEmpty ==
    ASSUME NEW d \in Drafts
    PROVE  Rest(d, << >>) = d
<1>1. << >> \in Seq(Tokens) /\ Len(<< >>) = 0
  OBVIOUS
<1>. DEFINE none == << >>
<1>. HIDE DEF none
<1>2. none \in Seq(Tokens) /\ Len(none) = 0
  BY <1>1 DEF none
<1>3. PICK f \in [0 .. Len(none) -> Drafts] :
             /\ f[0] = d /\ Rest(d, none) = f[Len(none)]
             /\ \A n \in 1 .. Len(none) : f[n] = Taken(f[n - 1], none[n])
  BY <1>2, TakenInTurn
<1>. QED
  BY <1>2, <1>3 DEF none

\* The first token first.
LEMMA RestNext ==
    ASSUME NEW d \in Drafts, NEW tokens \in Seq(Tokens), tokens # << >>
    PROVE  /\ Head(tokens) \in Tokens /\ Tail(tokens) \in Seq(Tokens)
           /\ Taken(d, Head(tokens)) \in Drafts
           /\ Rest(d, tokens) = Rest(Taken(d, Head(tokens)), Tail(tokens))
<1>. DEFINE N == Len(tokens)
            first == Taken(d, Head(tokens))
            tail == Tail(tokens)
<1>1. /\ N \in Nat \ {0} /\ Head(tokens) = tokens[1] /\ Head(tokens) \in Tokens
      /\ tail \in Seq(Tokens) /\ Len(tail) = N - 1
      /\ \A n \in 1 .. N - 1 : tail[n] = tokens[n + 1]
  OBVIOUS
<1>2. first \in Drafts
  BY <1>1, TakenIsDraft
<1>3. PICK f : /\ f[0] = d /\ Rest(d, tokens) = f[N]
               /\ \A n \in 1 .. N : f[n] = Taken(f[n - 1], tokens[n])
  BY TakenInTurn
<1>4. PICK g : /\ g[0] = first /\ Rest(first, tail) = g[Len(tail)]
               /\ \A n \in 1 .. Len(tail) : g[n] = Taken(g[n - 1], tail[n])
  BY <1>1, <1>2, TakenInTurn
<1>5. f[1] = first
  <2>1. 1 \in 1 .. N /\ 1 - 1 = 0
    BY <1>1
  <2>. QED
    BY <1>1, <1>3, <2>1
<1>. HIDE DEF first, tail, N
<1>. DEFINE S == {n \in Nat : g[n] = f[n + 1]}
<1>6. 0 \in S
  BY <1>4, <1>5
<1>7. ASSUME NEW n \in 0 .. (N - 1) - 1, n \in S PROVE n + 1 \in S
  <2>1. /\ n + 1 \in 1 .. N - 1 /\ (n + 1) - 1 = n /\ n + 2 \in 1 .. N /\ (n + 2) - 1 = n + 1
        /\ (n + 1) + 1 = n + 2 /\ n + 1 \in Nat
    BY <1>1
  <2>2. g[n] = f[n + 1]
    BY <1>7
  <2>3. g[n + 1] = Taken(g[n], tail[n + 1])
    BY <1>1, <1>4, <2>1
  <2>4. f[n + 2] = Taken(f[n + 1], tokens[n + 2])
    BY <1>3, <2>1
  <2>5. tail[n + 1] = tokens[n + 2]
    BY <1>1, <2>1
  <2>. QED
    BY <2>1, <2>2, <2>3, <2>4, <2>5
<1>8. N - 1 \in S
  <2>1. N - 1 \in Nat /\ N - 1 \in 0 .. N - 1
    BY <1>1
  <2>. HIDE DEF S
  <2>2. \A n \in 0 .. N - 1 : n \in S
    BY <1>6, <1>7, <2>1, Induction
  <2>. QED
    BY <2>1, <2>2
<1>9. g[N - 1] = f[N]
  BY <1>1, <1>8
<1>. QED
  BY <1>1, <1>2, <1>3, <1>4, <1>9 DEF first, tail, N

\* Dates and lives do not matter to the identity of a cookie.
SameNames(d, e) == d.name = e.name /\ d.path = e.path /\ d.domain = e.domain

LEMMA TakenSameNames ==
    ASSUME NEW d \in Drafts, NEW e \in Drafts, SameNames(d, e), NEW token \in Tokens
    PROVE  SameNames(Taken(d, token), Taken(e, token))
<1>. USE CookiesAssumption DEF Drafts, Maybe, SameNames
<1>1. CASE token \in [key : {"max-age", "expires", "digits"}, val : Int]
  <2>1. ASSUME NEW c \in Drafts
        PROVE  /\ Taken(c, token).name = c.name /\ Taken(c, token).path = c.path
               /\ Taken(c, token).domain = c.domain
    <3>1. CASE token.key = "max-age" /\ token.val > 0
      BY <3>1 DEF Taken
    <3>2. CASE token.key \in {"expires", "digits"} /\ DateOf(token, c.began) > 0
      BY <3>2 DEF Taken
    <3>3. CASE ~(token.key = "max-age" /\ token.val > 0)
               /\ ~(token.key \in {"expires", "digits"} /\ DateOf(token, c.began) > 0)
      BY <1>1, <3>3 DEF Taken
    <3>. QED
      BY <3>1, <3>2, <3>3
  <2>. QED
    BY <2>1
<1>2. CASE token \in [key : {"path", "domain"}, val : Texts]
  BY <1>2 DEF Taken
<1>3. CASE token \in [key : {"persistent"}, val : {TRUE}]
  BY <1>3 DEF Taken
<1>4. CASE token \in [key : {"pair"}, name : Texts, val : Texts]
  BY <1>4 DEF Taken
<1>. QED
  BY <1>1, <1>2, <1>3, <1>4 DEF Tokens

LEMMA RestSameNames ==
    ASSUME NEW d \in Drafts, NEW e \in Drafts, SameNames(d, e), NEW tokens \in Seq(Tokens)
    PROVE  SameNames(Rest(d, tokens), Rest(e, tokens))
<1>. DEFINE N == Len(tokens)
<1>1. N \in Nat /\ \A n \in 1 .. N : tokens[n] \in Tokens
  OBVIOUS
<1>2. PICK f \in [0 .. N -> Drafts] :
             /\ f[0] = d /\ Rest(d, tokens) = f[N]
             /\ \A n \in 1 .. N : f[n] = Taken(f[n - 1], tokens[n])
  BY TakenInTurn
<1>3. PICK g \in [0 .. N -> Drafts] :
             /\ g[0] = e /\ Rest(e, tokens) = g[N]
             /\ \A n \in 1 .. N : g[n] = Taken(g[n - 1], tokens[n])
  BY TakenInTurn
<1>. DEFINE S == {n \in Nat : SameNames(f[n], g[n])}
<1>4. 0 \in S
  BY <1>2, <1>3
<1>5. ASSUME NEW n \in 0 .. N - 1, n \in S PROVE n + 1 \in S
  <2>1. /\ n + 1 \in 1 .. N /\ (n + 1) - 1 = n /\ n + 1 \in Nat /\ n \in 0 .. N
    BY <1>1
  <2>2. /\ f[n + 1] = Taken(f[n], tokens[n + 1]) /\ f[n] \in Drafts
        /\ g[n + 1] = Taken(g[n], tokens[n + 1]) /\ g[n] \in Drafts
        /\ tokens[n + 1] \in Tokens /\ SameNames(f[n], g[n])
    BY <1>1, <1>2, <1>3, <1>5, <2>1
  <2>3. SameNames(f[n + 1], g[n + 1])
    BY <2>2, TakenSameNames
  <2>. QED
    BY <2>1, <2>3
<1>6. N \in S
  <2>. HIDE DEF S, N
  <2>1. \A n \in 0 .. N : n \in S
    BY <1>1, <1>4, <1>5, Induction
  <2>. QED
    BY <1>1, <2>1
<1>. QED
  BY <1>2, <1>3, <1>6

\* What a line describes.
LEMMA BlankIsDraft ==
    ASSUME NEW time \in Nat
    PROVE  Blank(time) \in Drafts /\ Blank(time).began = time
  BY CookiesAssumption DEF Blank, Drafts, Maybe

LEMMA CompleteIsWhole ==
    ASSUME NEW d \in Drafts, NEW host \in Maybe
    PROVE  Complete(d, host) \in Wholes
<1>. DEFINE c == Complete(d, host)
<1>1. (IF d.path = None THEN "/" ELSE d.path) \in Texts
  BY CookiesAssumption DEF Drafts, Maybe
<1>2. /\ (IF d.domain = None THEN host ELSE d.domain) \in Maybe
      /\ (IF d.age > 0 THEN d.age ELSE d.date) \in Nat
      /\ Session(d) <=> (IF d.age > 0 THEN d.age ELSE d.date) = 0
      /\ Session(d) \in BOOLEAN
  BY DEF Drafts, Session
<1>3. d.name \in Maybe /\ d.value \in Maybe /\ d.persistent \in BOOLEAN
      /\ (d.name = None <=> d.value = None)
  BY DEF Drafts
<1>. QED
  BY <1>1, <1>2, <1>3 DEF Complete, Wholes

LEMMA ParsedIs ==
    ASSUME NEW line \in Seq(Tokens), NEW time \in Nat, NEW host \in Maybe
    PROVE  /\ Parsed(line, time, host) = Complete(Rest(Blank(time), line), host)
           /\ Rest(Blank(time), line) \in Drafts
           /\ Parsed(line, time, host) \in Wholes
  BY BlankIsDraft, RestIsDraft, CompleteIsWhole DEF Parsed, Rest

LEMMA ParsedIdentity ==
    ASSUME NEW line \in Seq(Tokens), NEW time \in Nat
    PROVE  Identity(Parsed(line, time, None)) = Identity(Parsed(line, 0, None))
<1>1. None \in Maybe
  BY DEF Maybe
<1>. DEFINE d == Rest(Blank(time), line)
            e == Rest(Blank(0), line)
<1>2. /\ Parsed(line, time, None) = Complete(d, None) /\ d \in Drafts
      /\ Parsed(line, 0, None) = Complete(e, None) /\ e \in Drafts
  BY <1>1, ParsedIs
<1>3. SameNames(Blank(time), Blank(0))
  BY DEF SameNames, Blank
<1>4. SameNames(d, e)
  BY <1>3, BlankIsDraft, RestSameNames
<1>. HIDE DEF d, e
<1>. QED
  BY <1>2, <1>4 DEF SameNames, Complete, Identity

-----------------------------------------------------------------------------
(* Jars.                                                                   *)

LEMMA MinIs ==
    ASSUME NEW I \in SUBSET Nat, I # {}
    PROVE  Min(I) \in I /\ \A y \in I : Min(I) =< y
<1>1. PICK R : IsWellFoundedOn(R, Nat) /\ \A x, y \in Nat : x < y => <<x, y>> \in R
  BY NatIsWellFounded
<1>2. PICK m \in I : \A y \in I : ~(<<y, m>> \in R)
  <2>1. IsWellFoundedOn(R, Nat)
    BY <1>1
  <2>. HIDE <1>1
  <2>. QED
    BY <2>1, WFMin, Zenon
<1>3. ASSUME NEW y \in I PROVE m =< y
  <2>1. ~(y < m)
    BY <1>1, <1>2
  <2>. QED
    BY <2>1
<1>. QED
  BY <1>3 DEF Min

\* A token that is cut is a token still, or none.
LEMMA StumpIs ==
    ASSUME NEW token \in Tokens, ~IsPlain(token)
    PROVE  Stump(token) \in Seq(Tokens)
<1>. DEFINE cut == [token EXCEPT !.val = Upto[@]]
<1>1. CASE token.key = "pair" /\ token.name \notin Plain
  BY <1>1 DEF Stump
<1>2. CASE token.key = "pair" /\ token.name \in Plain
  <2>1. token \in [key : {"pair"}, name : Texts, val : Texts]
    BY <1>2 DEF Tokens
  <2>2. Upto[token.val] \in Texts
    BY <2>1, CookiesAssumption
  <2>3. cut \in [key : {"pair"}, name : Texts, val : Texts]
    BY <2>1, <2>2
  <2>4. cut \in Tokens
    BY <2>3 DEF Tokens
  <2>. HIDE DEF cut
  <2>5. <<cut>> \in Seq(Tokens)
    BY <2>4
  <2>6. Stump(token) = <<cut>>
    BY <1>2 DEF Stump, cut
  <2>. QED
    BY <2>5, <2>6
<1>3. CASE token.key # "pair"
  <2>1. token.key \in {"path", "domain"}
    BY <1>3 DEF IsPlain
  <2>2. token \in [key : {"path", "domain"}, val : Texts]
    BY <2>1 DEF Tokens
  <2>3. Upto[token.val] \in Texts
    BY <2>2, CookiesAssumption
  <2>4. cut \in [key : {"path", "domain"}, val : Texts]
    BY <2>2, <2>3
  <2>5. cut \in Tokens
    BY <2>4 DEF Tokens
  <2>. HIDE DEF cut
  <2>6. <<cut>> \in Seq(Tokens)
    BY <2>5
  <2>7. Stump(token) = <<cut>>
    BY <1>3 DEF Stump, cut
  <2>. QED
    BY <2>6, <2>7
<1>. QED
  BY <1>1, <1>2, <1>3

\* What the reader sees of a line is a line, and all of it if nothing in it is cut.
LEMMA ReadableIs ==
    ASSUME NEW line \in Seq(Tokens)
    PROVE  /\ Readable(line) \in Seq(Tokens)
           /\ (\A n \in 1 .. Len(line) : IsPlain(line[n])) => Readable(line) = line
<1>. DEFINE I == {i \in 1 .. Len(line) : ~IsPlain(line[i])}
            k == SelectInSeq(line, LAMBDA token : ~IsPlain(token))
<1>1. k = IF I # {} THEN Min(I) ELSE 0
  BY DEF SelectInSeq
<1>2. Readable(line) = IF k = 0 THEN line ELSE SubSeq(line, 1, k - 1) \o Stump(line[k])
  BY DEF Readable
<1>3. CASE I = {}
  BY <1>1, <1>2, <1>3
<1>4. CASE I # {}
  <2>1. k \in I
    <3>1. I \in SUBSET Nat
      OBVIOUS
    <3>. HIDE DEF I, k
    <3>. QED
      BY <1>1, <1>4, <3>1, MinIs
  <2>. HIDE DEF k
  <2>2. k \in 1 .. Len(line) /\ ~IsPlain(line[k]) /\ line[k] \in Tokens /\ k # 0
    BY <2>1
  <2>3. SubSeq(line, 1, k - 1) \in Seq(Tokens)
    <3>1. k - 1 \in Int /\ 1 \in Int /\ \A j \in 1 .. k - 1 : line[j] \in Tokens
      BY <2>2
    <3>. HIDE DEF I
    <3>. QED
      BY <3>1, SubSeqProperties
  <2>4. Stump(line[k]) \in Seq(Tokens)
    BY <2>2, StumpIs
  <2>5. Readable(line) \in Seq(Tokens)
    <3>1. Readable(line) = SubSeq(line, 1, k - 1) \o Stump(line[k])
      BY <1>2, <2>2
    <3>. QED
      BY <2>3, <2>4, <3>1, ConcatProperties, Zenon
  <2>. QED
    BY <2>2, <2>5
<1>. QED
  BY <1>3, <1>4

\* A line of the file: a cookie, whose identity does not depend on the time.
LEMMA ReadBackIs ==
    ASSUME now \in Nat, NEW line \in Seq(Tokens)
    PROVE  /\ ReadBack(line) \in Wholes /\ Identity(ReadBack(line)) = IdentityIn(line)
           /\ (\A n \in 1 .. Len(line) : IsPlain(line[n])) => ReadBack(line) = Parsed(line, now, None)
<1>1. None \in Maybe
  BY DEF Maybe
<1>2. Readable(line) \in Seq(Tokens)
  BY ReadableIs
<1>3. Parsed(Readable(line), now, None) \in Wholes
  BY <1>1, <1>2, ParsedIs
<1>4. Identity(Parsed(Readable(line), now, None)) = IdentityIn(line)
  BY <1>2, ParsedIdentity DEF IdentityIn
<1>. QED
  BY <1>3, <1>4, ReadableIs DEF ReadBack

LEMMA MarkedIsWhole ==
    ASSUME NEW c \in Wholes, NEW b \in BOOLEAN
    PROVE  \E e \in Wholes : /\ e = [c EXCEPT !.persistent = b]
                             /\ Alike(e, c) /\ Identity(e) = Identity(c)
<1>. DEFINE e == [c EXCEPT !.persistent = b]
<1>1. /\ e.name = c.name /\ e.value = c.value /\ e.path = c.path /\ e.domain = c.domain
      /\ e.hostonly = c.hostonly /\ e.expires = c.expires /\ e.session = c.session
  BY DEF Wholes
<1>2. e \in [name : Maybe, value : Maybe, path : Texts, domain : Maybe,
             hostonly : BOOLEAN, persistent : BOOLEAN, expires : Nat, session : BOOLEAN]
  BY DEF Wholes
<1>. HIDE DEF e
<1>3. e \in Wholes
  BY <1>1, <1>2 DEF Wholes
<1>. QED
  BY <1>1, <1>3 DEF Alike, Identity, e

\* cookies_add: the place of the cookie is that of the one of its identity, or a new one.
AddedAt(add, list, c, i, e) ==
    /\ add \in Seq(Wholes) /\ DOMAIN add = DOMAIN list \cup {i}
    /\ add[i] = e /\ Alike(e, c) /\ Identity(e) = Identity(c)
    /\ \A j \in DOMAIN list \ {i} : add[j] = list[j] /\ Identity(list[j]) # Identity(c)
    /\ i \in DOMAIN list => Identity(list[i]) = Identity(c)
    /\ i \notin DOMAIN list => add = Append(list, c)

LEMMA AddIs ==
    ASSUME NEW list \in Jars, NEW c \in Wholes
    PROVE  \E i \in 1 .. Len(list) + 1, e \in Wholes : AddedAt(Add(list, c), list, c, i, e)
<1>. DEFINE I == {i \in 1 .. Len(list) : SameIdentity(list[i], c)}
            k == SelectInSeq(list, LAMBDA d : SameIdentity(d, c))
<1>1. k = IF I # {} THEN Min(I) ELSE 0
  BY DEF SelectInSeq
<1>2. list \in Seq(Wholes) /\ Single(list) /\ DOMAIN list = 1 .. Len(list) /\ Len(list) \in Nat
  BY DEF Jars
<1>3. Add(list, c) = IF k = 0 THEN Append(list, c) ELSE [list EXCEPT ![k] = Renewed(list[k], c)]
  BY DEF Add
<1>. HIDE DEF k
<1>4. CASE I = {}
  <2>1. Add(list, c) = Append(list, c)
    BY <1>1, <1>3, <1>4
  <2>2. \A j \in DOMAIN list : Identity(list[j]) # Identity(c)
    BY <1>2, <1>4 DEF SameIdentity
  <2>. DEFINE i == Len(list) + 1
              add == Append(list, c)
  <2>3. /\ add \in Seq(Wholes) /\ DOMAIN add = DOMAIN list \cup {i} /\ add[i] = c
        /\ i \notin DOMAIN list /\ i \in 1 .. Len(list) + 1
        /\ \A j \in DOMAIN list \ {i} : add[j] = list[j]
    BY <1>2
  <2>4. Alike(c, c)
    BY DEF Alike
  <2>5. AddedAt(add, list, c, i, c)
    <3>. HIDE DEF i, add
    <3>. QED
      BY <2>2, <2>3, <2>4 DEF AddedAt, add
  <2>. HIDE DEF add, i
  <2>. QED
    BY <2>1, <2>3, <2>5 DEF add
<1>5. CASE I # {}
  <2>1. k \in I
    <3>1. I \in SUBSET Nat
      BY <1>2
    <3>. HIDE DEF I
    <3>. QED
      BY <1>1, <1>5, <3>1, MinIs
  <2>2. /\ k \in DOMAIN list /\ k # 0 /\ Identity(list[k]) = Identity(c)
        /\ k \in 1 .. Len(list) + 1
    BY <1>2, <2>1 DEF SameIdentity
  <2>. DEFINE e == Renewed(list[k], c)
              add == [list EXCEPT ![k] = e]
  <2>3. e \in Wholes /\ Alike(e, c) /\ Identity(e) = Identity(c)
    <3>. DEFINE b == Persistent(c)
    <3>1. b \in BOOLEAN
      BY DEF Persistent, Wholes
    <3>2. Renewed(list[k], c) = [c EXCEPT !.persistent = b]
      BY DEF Renewed
    <3>. HIDE DEF b, e
    <3>3. PICK m \in Wholes : /\ m = [c EXCEPT !.persistent = b]
                            /\ Alike(m, c) /\ Identity(m) = Identity(c)
      BY <3>1, MarkedIsWhole
    <3>. QED
      BY <3>2, <3>3 DEF e
  <2>4. Add(list, c) = add
    BY <1>3, <2>2
  <2>. HIDE DEF e
  <2>5. /\ add \in Seq(Wholes) /\ DOMAIN add = DOMAIN list \cup {k} /\ add[k] = e
        /\ \A j \in DOMAIN list \ {k} : add[j] = list[j]
    BY <1>2, <2>2, <2>3
  <2>6. \A j \in DOMAIN list \ {k} : Identity(list[j]) # Identity(c)
    BY <1>2, <2>2 DEF Single
  <2>. HIDE DEF add
  <2>7. AddedAt(add, list, c, k, e)
    BY <2>2, <2>3, <2>5, <2>6 DEF AddedAt
  <2>. QED
    BY <2>2, <2>3, <2>4, <2>7
<1>. QED
  BY <1>4, <1>5

\* So it makes a jar, one that mirrors the map with the cookie in it and loses nothing.
LEMMA AddIsJar ==
    ASSUME NEW list \in Jars, NEW c \in Wholes
    PROVE  /\ Add(list, c) \in Jars
           /\ \E j \in DOMAIN Add(list, c) : Identity(Add(list, c)[j]) = Identity(c)
           /\ \A j \in DOMAIN list : \E k \in DOMAIN Add(list, c) :
                Identity(Add(list, c)[k]) = Identity(list[j])
           /\ \A map \in SUBSET Wholes :
                MirrorOf(list, map) => MirrorOf(Add(list, c), Without(map, c) \cup {c})
<1>. DEFINE add == Add(list, c)
<1>0. PICK i \in 1 .. Len(list) + 1, e \in Wholes : AddedAt(add, list, c, i, e)
  BY AddIs
<1>1. /\ add \in Seq(Wholes) /\ DOMAIN add = DOMAIN list \cup {i}
      /\ add[i] = e /\ Alike(e, c) /\ Identity(e) = Identity(c)
      /\ \A j \in DOMAIN list \ {i} : add[j] = list[j] /\ Identity(list[j]) # Identity(c)
      /\ i \in DOMAIN list => Identity(list[i]) = Identity(c)
  BY <1>0 DEF AddedAt
<1>2. list \in Seq(Wholes) /\ Single(list)
  BY DEF Jars
<1>. HIDE DEF add
<1>3. Single(add)
  <2>. SUFFICES ASSUME NEW j \in DOMAIN add, NEW k \in DOMAIN add,
                       Identity(add[j]) = Identity(add[k])
                PROVE  j = k
    BY DEF Single
  <2>1. CASE j = i /\ k # i
    BY <1>1, <2>1
  <2>2. CASE j # i /\ k = i
    BY <1>1, <2>2
  <2>3. CASE j # i /\ k # i
    BY <1>1, <1>2, <2>3 DEF Single
  <2>. QED
    BY <2>1, <2>2, <2>3
<1>4. ASSUME NEW j \in DOMAIN list
      PROVE  \E k \in DOMAIN add : Identity(add[k]) = Identity(list[j])
  BY <1>1
<1>5. ASSUME NEW map \in SUBSET Wholes, MirrorOf(list, map)
      PROVE  MirrorOf(add, Without(map, c) \cup {c})
  <2>1. \A f, g \in Wholes : Alike(f, g) => Identity(f) = Identity(g)
    BY DEF Alike, Identity
  <2>2. ASSUME NEW j \in DOMAIN add
        PROVE  \E d \in Without(map, c) \cup {c} : Alike(add[j], d)
    <3>1. CASE j = i
      BY <1>1, <3>1
    <3>2. CASE j # i
      <4>1. j \in DOMAIN list /\ add[j] = list[j] /\ Identity(list[j]) # Identity(c)
            /\ list[j] \in Wholes
        BY <1>1, <1>2, <3>2
      <4>2. PICK d \in map : Alike(list[j], d)
        BY <1>5, <4>1 DEF MirrorOf
      <4>3. Identity(d) # Identity(c)
        BY <2>1, <4>1, <4>2
      <4>. QED
        BY <4>1, <4>2, <4>3 DEF Without
    <3>. QED
      BY <3>1, <3>2
  <2>3. ASSUME NEW d \in Without(map, c) \cup {c}
        PROVE  \E j \in DOMAIN add : Alike(add[j], d)
    <3>1. CASE d = c
      BY <1>1, <3>1
    <3>2. CASE d # c
      <4>1. d \in map /\ Identity(d) # Identity(c) /\ d \in Wholes
        BY <3>2 DEF Without
      <4>2. PICK j \in DOMAIN list : Alike(list[j], d)
        BY <1>5, <4>1 DEF MirrorOf
      <4>3. Identity(list[j]) = Identity(d)
        BY <1>2, <2>1, <4>1, <4>2
      <4>4. j # i
        BY <1>1, <4>1, <4>3
      <4>. QED
        BY <1>1, <4>2, <4>4
    <3>. QED
      BY <3>1, <3>2
  <2>. QED
    BY <2>2, <2>3 DEF MirrorOf
<1>. QED
  BY <1>1, <1>3, <1>4, <1>5 DEF Jars, add

\* Nothing is a jar, and has all of nothing.
LEMMA NothingIsJar ==
    << >> \in Jars /\ HasAll(<< >>, << >>) /\ MirrorOf(<< >>, {})
  BY DEF Jars, Single, HasAll, MirrorOf

\* __load_cookies, line by line.
LEMMA LoadedInTurn ==
    ASSUME now \in Nat, NEW text \in Seq(Seq(Tokens))
    PROVE  \E f \in [0 .. Len(text) -> Jars] :
             /\ f[0] = << >> /\ Loaded(text) = f[Len(text)]
             /\ \A n \in 1 .. Len(text) : f[n] = Add(f[n - 1], ReadBack(text[n]))
<1>. DEFINE none == << >>
<1>0. none \in Jars
  BY NothingIsJar
<1>. HIDE DEF none
<1>. DEFINE N == Len(text)
            F == [p \in Jars \X Seq(Tokens) |-> Add(p[1], ReadBack(p[2]))]
            Fold(h) == h = [s \in SUBSET DOMAIN text |->
                              IF s = {} THEN none
                              ELSE Add(h[s \ {Max(s)}], ReadBack(text[Max(s)]))]
            iter == CHOOSE h : Fold(h)
<1>a. ASSUME NEW list \in Jars, NEW line \in Seq(Tokens)
      PROVE  Add(list, ReadBack(line)) \in Jars
  BY ReadBackIs, AddIsJar
<1>1. N \in Nat /\ DOMAIN text = 1 .. N
  OBVIOUS
<1>2. F \in [Jars \X Seq(Tokens) -> Jars]
  BY <1>a
<1>3. \E h : Fold(h)
  <2>1. none \in Jars
    BY <1>0
  <2>. HIDE DEF F
  <2>2. PICK h : IsFold(h, Jars, Seq(Tokens), F, none, text)
    BY <1>2, <2>1, FoldExists
  <2>3. ASSUME NEW s \in SUBSET DOMAIN text
        PROVE  h[s] = IF s = {} THEN none ELSE Add(h[s \ {Max(s)}], ReadBack(text[Max(s)]))
    BY <2>2 DEF F, IsFold
  <2>4. h = [s \in SUBSET DOMAIN text |-> h[s]]
    BY <2>2 DEF IsFold
  <2>5. Fold(h)
    BY <2>3, <2>4
  <2>. HIDE DEF Fold
  <2>. QED
    BY <2>5
<1>4. Fold(iter)
  <2>. HIDE DEF Fold
  <2>. QED
    BY <1>3
<1>5. Loaded(text) = iter[1 .. N]
  <2>1. Loaded(text) = iter[DOMAIN text]
    BY DEF Loaded, FoldLeft, MapThenFoldSet, none
  <2>. HIDE DEF iter
  <2>. QED
    BY <1>1, <2>1
<1>. HIDE DEF iter
<1>. DEFINE f == [n \in 0 .. N |-> iter[1 .. n]]
            S == {n \in Nat : iter[1 .. n] \in Jars}
<1>6. iter[1 .. 0] = none
  BY <1>4
<1>7. ASSUME NEW n \in 1 .. N PROVE iter[1 .. n] = Add(iter[1 .. n - 1], ReadBack(text[n]))
  <2>1. iter[1 .. n] = Add(iter[(1 .. n) \ {Max(1 .. n)}], ReadBack(text[Max(1 .. n)]))
    <3>1. 1 .. n \in SUBSET DOMAIN text /\ 1 .. n # {}
      BY <1>1, Segments
    <3>. QED
      BY <1>4, <3>1
  <2>. QED
    BY <1>1, <2>1, Segments
<1>8. ASSUME NEW n \in 0 .. N PROVE iter[1 .. n] \in Jars
  <2>1. 0 \in S
    BY <1>6, <1>0
  <2>2. ASSUME NEW m \in 0 .. N - 1, m \in S PROVE m + 1 \in S
    <3>1. m + 1 \in 1 .. N /\ (m + 1) - 1 = m /\ iter[1 .. m] \in Jars /\ m + 1 \in Nat
      BY <1>1, <2>2
    <3>2. text[m + 1] \in Seq(Tokens)
      BY <1>1, <3>1
    <3>3. iter[1 .. m + 1] = Add(iter[1 .. m], ReadBack(text[m + 1]))
      BY <1>7, <3>1
    <3>. QED
      BY <3>1, <3>2, <3>3, <1>a
  <2>. HIDE DEF S
  <2>3. \A m \in 0 .. N : m \in S
    BY <1>1, <2>1, <2>2, Induction
  <2>. QED
    BY <2>3 DEF S
<1>9. f \in [0 .. N -> Jars] /\ f[0] = none /\ Loaded(text) = f[N]
  BY <1>1, <1>5, <1>6, <1>8
<1>10. ASSUME NEW n \in 1 .. N PROVE f[n] = Add(f[n - 1], ReadBack(text[n]))
  <2>1. n \in 0 .. N /\ n - 1 \in 0 .. N
    BY <1>1
  <2>2. f[n] = iter[1 .. n] /\ f[n - 1] = iter[1 .. n - 1]
    BY <2>1
  <2>. QED
    BY <1>7, <2>2
<1>. HIDE DEF f
<1>. QED
  BY <1>9, <1>10 DEF none

\* What was loaded: a jar with all of the file, and the map it is.
LEMMA LoadedIs ==
    ASSUME now \in Nat, NEW text \in Seq(Seq(Tokens))
    PROVE  Loaded(text) \in Jars /\ HasAll(Loaded(text), text)
<1>. DEFINE N == Len(text)
<1>1. N \in Nat /\ DOMAIN text = 1 .. N /\ \A n \in 1 .. N : text[n] \in Seq(Tokens)
  OBVIOUS
<1>2. PICK f \in [0 .. N -> Jars] :
             /\ f[0] = << >> /\ Loaded(text) = f[N]
             /\ \A n \in 1 .. N : f[n] = Add(f[n - 1], ReadBack(text[n]))
  BY LoadedInTurn
<1>. DEFINE Has(n) == \A k \in 1 .. n : \E j \in DOMAIN f[n] : Identity(f[n][j]) = IdentityIn(text[k])
            S == {n \in Nat : Has(n)}
<1>3. 0 \in S
  OBVIOUS
<1>4. ASSUME NEW n \in 0 .. N - 1, n \in S PROVE n + 1 \in S
  <2>1. n + 1 \in 1 .. N /\ (n + 1) - 1 = n /\ n + 1 \in Nat /\ n \in 0 .. N
    BY <1>1
  <2>. DEFINE c == ReadBack(text[n + 1])
  <2>2. f[n] \in Jars /\ f[n + 1] = Add(f[n], c) /\ text[n + 1] \in Seq(Tokens)
    BY <1>1, <1>2, <2>1
  <2>3. c \in Wholes /\ Identity(c) = IdentityIn(text[n + 1])
    BY <2>2, ReadBackIs
  <2>. HIDE DEF c
  <2>4. /\ \E j \in DOMAIN f[n + 1] : Identity(f[n + 1][j]) = Identity(c)
        /\ \A j \in DOMAIN f[n] : \E k \in DOMAIN f[n + 1] :
             Identity(f[n + 1][k]) = Identity(f[n][j])
    BY <2>2, <2>3, AddIsJar
  <2>5. ASSUME NEW k \in 1 .. n + 1
        PROVE  \E j \in DOMAIN f[n + 1] : Identity(f[n + 1][j]) = IdentityIn(text[k])
    <3>1. CASE k = n + 1
      BY <2>3, <2>4, <3>1
    <3>2. CASE k # n + 1
      <4>1. k \in 1 .. n
        BY <2>1, <3>2
      <4>2. PICK j \in DOMAIN f[n] : Identity(f[n][j]) = IdentityIn(text[k])
        BY <1>4, <4>1
      <4>. QED
        BY <2>4, <4>2
    <3>. QED
      BY <3>1, <3>2
  <2>. QED
    BY <2>1, <2>5
<1>5. N \in S
  <2>. HIDE DEF S, N
  <2>1. \A n \in 0 .. N : n \in S
    BY <1>1, <1>3, <1>4, Induction
  <2>. QED
    BY <1>1, <2>1
<1>6. f[N] \in Jars
  BY <1>1, <1>2
<1>. QED
  BY <1>1, <1>2, <1>5, <1>6 DEF HasAll

LEMMA MapOf ==
    ASSUME NEW list \in Seq(Wholes)
    PROVE  ToSet(list) \in SUBSET Wholes /\ MirrorOf(list, ToSet(list))
<1>1. ToSet(list) \in SUBSET Wholes
  BY DEF ToSet
<1>2. \A c \in Wholes : Alike(c, c)
  BY DEF Alike
<1>3. \A j \in DOMAIN list : list[j] \in Wholes
  OBVIOUS
<1>. QED
  BY <1>1, <1>2, <1>3 DEF ToSet, MirrorOf

-----------------------------------------------------------------------------
(* The file.                                                               *)

\* cookies_next, cookie by cookie.
LEMMA LastingInTurn ==
    ASSUME NEW list \in Seq(Wholes)
    PROVE  \E f \in [0 .. Len(list) -> Seq(Wholes)] :
             /\ f[0] = << >> /\ Lasting(list) = f[Len(list)]
             /\ \A n \in 1 .. Len(list) : f[n] = (IF Persistent(list[n]) THEN Append(f[n - 1], list[n]) ELSE f[n - 1])
<1>. DEFINE none == << >>
<1>0. none \in Seq(Wholes)
  OBVIOUS
<1>. HIDE DEF none
<1>. DEFINE N == Len(list)
            F == [p \in Seq(Wholes) \X Wholes |-> (IF Persistent(p[2]) THEN Append(p[1], p[2]) ELSE p[1])]
            Fold(h) == h = [s \in SUBSET DOMAIN list |->
                              IF s = {} THEN none
                              ELSE (IF Persistent(list[Max(s)]) THEN Append(h[s \ {Max(s)}], list[Max(s)]) ELSE h[s \ {Max(s)}])]
            iter == CHOOSE h : Fold(h)
<1>a. ASSUME NEW seq \in Seq(Wholes), NEW c \in Wholes
      PROVE  (IF Persistent(c) THEN Append(seq, c) ELSE seq) \in Seq(Wholes)
  OBVIOUS
<1>1. N \in Nat /\ DOMAIN list = 1 .. N
  OBVIOUS
<1>2. F \in [Seq(Wholes) \X Wholes -> Seq(Wholes)]
  OBVIOUS
<1>3. \E h : Fold(h)
  <2>1. none \in Seq(Wholes)
    BY <1>0
  <2>. HIDE DEF F
  <2>2. PICK h : IsFold(h, Seq(Wholes), Wholes, F, none, list)
    BY <1>2, <2>1, FoldExists
  <2>3. ASSUME NEW s \in SUBSET DOMAIN list
        PROVE  h[s] = IF s = {} THEN none ELSE (IF Persistent(list[Max(s)]) THEN Append(h[s \ {Max(s)}], list[Max(s)]) ELSE h[s \ {Max(s)}])
    BY <2>2 DEF F, IsFold
  <2>4. h = [s \in SUBSET DOMAIN list |-> h[s]]
    BY <2>2 DEF IsFold
  <2>5. Fold(h)
    BY <2>3, <2>4
  <2>. HIDE DEF Fold
  <2>. QED
    BY <2>5
<1>4. Fold(iter)
  <2>. HIDE DEF Fold
  <2>. QED
    BY <1>3
<1>5. Lasting(list) = iter[1 .. N]
  <2>1. Lasting(list) = iter[DOMAIN list]
    BY DEF Lasting, FoldLeft, MapThenFoldSet, none
  <2>. HIDE DEF iter
  <2>. QED
    BY <1>1, <2>1
<1>. HIDE DEF iter
<1>. DEFINE f == [n \in 0 .. N |-> iter[1 .. n]]
            S == {n \in Nat : iter[1 .. n] \in Seq(Wholes)}
<1>6. iter[1 .. 0] = none
  BY <1>4
<1>7. ASSUME NEW n \in 1 .. N PROVE iter[1 .. n] = (IF Persistent(list[n]) THEN Append(iter[1 .. n - 1], list[n]) ELSE iter[1 .. n - 1])
  <2>1. iter[1 .. n] = (IF Persistent(list[Max(1 .. n)]) THEN Append(iter[(1 .. n) \ {Max(1 .. n)}], list[Max(1 .. n)]) ELSE iter[(1 .. n) \ {Max(1 .. n)}])
    BY <1>1, <1>4, Segments
  <2>. QED
    BY <1>1, <2>1, Segments
<1>8. ASSUME NEW n \in 0 .. N PROVE iter[1 .. n] \in Seq(Wholes)
  <2>1. 0 \in S
    BY <1>6, <1>0
  <2>2. ASSUME NEW m \in 0 .. N - 1, m \in S PROVE m + 1 \in S
    <3>1. m + 1 \in 1 .. N /\ (m + 1) - 1 = m /\ iter[1 .. m] \in Seq(Wholes) /\ m + 1 \in Nat
      BY <1>1, <2>2
    <3>2. list[m + 1] \in Wholes
      BY <1>1, <3>1
    <3>3. iter[1 .. m + 1] = (IF Persistent(list[m + 1]) THEN Append(iter[1 .. m], list[m + 1]) ELSE iter[1 .. m])
      BY <1>7, <3>1
    <3>. QED
      BY <3>1, <3>2, <3>3, <1>a
  <2>. HIDE DEF S
  <2>3. \A m \in 0 .. N : m \in S
    BY <1>1, <2>1, <2>2, Induction
  <2>. QED
    BY <2>3 DEF S
<1>9. f \in [0 .. N -> Seq(Wholes)] /\ f[0] = none /\ Lasting(list) = f[N]
  BY <1>1, <1>5, <1>6, <1>8
<1>10. ASSUME NEW n \in 1 .. N PROVE f[n] = (IF Persistent(list[n]) THEN Append(f[n - 1], list[n]) ELSE f[n - 1])
  <2>1. n \in 0 .. N /\ n - 1 \in 0 .. N
    BY <1>1
  <2>2. f[n] = iter[1 .. n] /\ f[n - 1] = iter[1 .. n - 1]
    BY <2>1
  <2>. QED
    BY <1>7, <2>2
<1>. HIDE DEF f
<1>. QED
  BY <1>9, <1>10 DEF none


\* It passes over what is not persistent, and over nothing else.
LEMMA LastingIs ==
    ASSUME NEW list \in Jars
    PROVE  /\ Lasting(list) \in Jars
           /\ \A k \in DOMAIN Lasting(list) : \E j \in DOMAIN list :
                Lasting(list)[k] = list[j] /\ Persistent(list[j])
           /\ \A j \in DOMAIN list : Persistent(list[j]) =>
                \E k \in DOMAIN Lasting(list) : Lasting(list)[k] = list[j]
<1>. DEFINE N == Len(list)
<1>1. /\ N \in Nat /\ list \in Seq(Wholes) /\ DOMAIN list = 1 .. N /\ Single(list)
      /\ \A n \in 1 .. N : list[n] \in Wholes
  BY DEF Jars
<1>2. PICK f \in [0 .. N -> Seq(Wholes)] :
             /\ f[0] = << >> /\ Lasting(list) = f[N]
             /\ \A n \in 1 .. N :
                  f[n] = IF Persistent(list[n]) THEN Append(f[n - 1], list[n]) ELSE f[n - 1]
  BY <1>1, LastingInTurn
<1>. DEFINE OnlyLasting(n) == \A k \in DOMAIN f[n] : \E j \in 1 .. n :
                           f[n][k] = list[j] /\ Persistent(list[j])
            AllLasting(n) == \A j \in 1 .. n : Persistent(list[j]) =>
                           \E k \in DOMAIN f[n] : f[n][k] = list[j]
            S == {n \in Nat : Single(f[n]) /\ OnlyLasting(n) /\ AllLasting(n)}
<1>3. 0 \in S
  BY <1>2 DEF Single
<1>4. ASSUME NEW n \in 0 .. N - 1, n \in S PROVE n + 1 \in S
  <2>1. n + 1 \in 1 .. N /\ (n + 1) - 1 = n /\ n + 1 \in Nat /\ n \in 0 .. N
    BY <1>1
  <2>. DEFINE c == list[n + 1]
  <2>2. /\ f[n + 1] = IF Persistent(c) THEN Append(f[n], c) ELSE f[n]
        /\ f[n] \in Seq(Wholes) /\ c \in Wholes
    BY <1>1, <1>2, <2>1
  <2>3. Single(f[n]) /\ OnlyLasting(n) /\ AllLasting(n)
    BY <1>4
  <2>4. CASE ~Persistent(c)
    <3>1. f[n + 1] = f[n]
      BY <2>2, <2>4
    <3>2. OnlyLasting(n + 1)
      BY <2>1, <2>3, <3>1
    <3>3. AllLasting(n + 1)
      <4>. SUFFICES ASSUME NEW j \in 1 .. n + 1, Persistent(list[j])
                    PROVE  \E k \in DOMAIN f[n] : f[n][k] = list[j]
        BY <3>1
      <4>1. j \in 1 .. n
        BY <2>1, <2>4
      <4>. QED
        BY <2>3, <4>1
    <3>. QED
      BY <2>1, <2>3, <3>1, <3>2, <3>3
  <2>5. CASE Persistent(c)
    <3>. DEFINE g == f[n]
                h == Append(g, c)
    <3>1. /\ DOMAIN h = DOMAIN g \cup {Len(g) + 1} /\ h[Len(g) + 1] = c
          /\ Len(g) + 1 \notin DOMAIN g
          /\ \A k \in DOMAIN g : h[k] = g[k]
      BY <2>2
    <3>2. f[n + 1] = h
      BY <2>2, <2>5
    <3>3. ASSUME NEW k \in DOMAIN g PROVE Identity(g[k]) # Identity(c)
      <4>1. PICK j \in 1 .. n : g[k] = list[j]
        BY <2>3
      <4>2. j \in DOMAIN list /\ n + 1 \in DOMAIN list /\ j # n + 1
        BY <1>1, <2>1
      <4>. QED
        BY <1>1, <4>1, <4>2 DEF Single
    <3>4. Single(h)
      <4>. HIDE DEF h, g, c
      <4>. SUFFICES ASSUME NEW j \in DOMAIN h, NEW k \in DOMAIN h, Identity(h[j]) = Identity(h[k])
                    PROVE  j = k
        BY DEF Single
      <4>1. Single(g)
        BY <2>3 DEF g
      <4>2. CASE j \in DOMAIN g /\ k \in DOMAIN g
        BY <3>1, <4>1, <4>2 DEF Single
      <4>3. CASE j \notin DOMAIN g \/ k \notin DOMAIN g
        BY <3>1, <3>3, <4>3
      <4>. QED
        BY <4>2, <4>3
    <3>5. OnlyLasting(n + 1)
      <4>1. \A k \in DOMAIN g : \E j \in 1 .. n + 1 : h[k] = list[j] /\ Persistent(list[j])
        <5>. SUFFICES ASSUME NEW k \in DOMAIN g
                      PROVE  \E j \in 1 .. n + 1 : h[k] = list[j] /\ Persistent(list[j])
          OBVIOUS
        <5>1. PICK j \in 1 .. n : g[k] = list[j] /\ Persistent(list[j])
          BY <2>3
        <5>2. h[k] = g[k] /\ j \in 1 .. n + 1
          BY <2>1, <3>1
        <5>. QED
          BY <5>1, <5>2
      <4>2. n + 1 \in 1 .. n + 1 /\ h[Len(g) + 1] = list[n + 1]
        BY <2>1, <3>1
      <4>. HIDE DEF h, g
      <4>. QED
        BY <2>5, <3>1, <3>2, <4>1, <4>2
    <3>6. AllLasting(n + 1)
      <4>. SUFFICES ASSUME NEW j \in 1 .. n + 1, Persistent(list[j])
                    PROVE  \E k \in DOMAIN h : h[k] = list[j]
        BY <3>2
      <4>1. CASE j = n + 1
        BY <3>1, <4>1
      <4>2. CASE j # n + 1
        <5>1. j \in 1 .. n
          BY <2>1, <4>2
        <5>2. PICK k \in DOMAIN g : g[k] = list[j]
          BY <2>3, <5>1
        <5>. QED
          BY <3>1, <5>2
      <4>. QED
        BY <4>1, <4>2
    <3>. HIDE DEF OnlyLasting, AllLasting
    <3>. QED
      BY <2>1, <3>2, <3>4, <3>5, <3>6
  <2>. QED
    BY <2>4, <2>5
<1>5. N \in S
  <2>. HIDE DEF S, N
  <2>1. \A n \in 0 .. N : n \in S
    BY <1>1, <1>3, <1>4, Induction
  <2>. QED
    BY <1>1, <2>1
<1>6. f[N] \in Seq(Wholes)
  BY <1>1, <1>2
<1>7. Single(f[N]) /\ OnlyLasting(N) /\ AllLasting(N)
  BY <1>5
<1>8. f[N] \in Jars
  BY <1>6, <1>7 DEF Jars
<1>9. /\ \A k \in DOMAIN f[N] : \E j \in DOMAIN list : f[N][k] = list[j] /\ Persistent(list[j])
      /\ \A j \in DOMAIN list : Persistent(list[j]) => \E k \in DOMAIN f[N] : f[N][k] = list[j]
  BY <1>1, <1>7
<1>. QED
  BY <1>2, <1>8, <1>9

\* cookie_to_string, read back: the cookie, for the subdomains of its host as well.
LEMMA LineIs ==
    ASSUME NEW c \in Wholes, Writable(c), Persistent(c), now \in Nat
    PROVE  /\ ToLine(c) \in Seq(Tokens) \ {<< >>}
           /\ Parsed(ToLine(c), now, None) \in Wholes
           /\ Identity(Parsed(ToLine(c), now, None)) = Identity(c)
           /\ AfterLoading(Parsed(ToLine(c), now, None)) = AfterLoading(c)
           /\ Intact(c) => \A n \in 1 .. Len(ToLine(c)) : IsPlain(ToLine(c)[n])
<1>. DEFINE pair == Pair(c.name, c.value)
            domain == Token("domain", c.domain)
            path == Token("path", c.path)
            digits == Token("digits", c.expires)
            kept == Token("persistent", TRUE)
            line == ToLine(c)
            b == Blank(now)
<1>1. /\ c.name \in Texts /\ c.value \in Texts /\ c.domain \in Texts /\ c.path \in Texts
      /\ c.expires \in Nat /\ (c.session <=> c.expires = 0) /\ c.session \in BOOLEAN
      /\ c.persistent \in BOOLEAN /\ c.hostonly \in BOOLEAN
  BY DEF Wholes, Maybe, Writable
<1>2. pair \in Tokens /\ domain \in Tokens /\ path \in Tokens /\ digits \in Tokens /\ kept \in Tokens
  <2>1. pair \in [key : {"pair"}, name : Texts, val : Texts]
    BY <1>1 DEF Pair
  <2>2. /\ domain \in [key : {"path", "domain"}, val : Texts]
        /\ path \in [key : {"path", "domain"}, val : Texts]
    BY <1>1 DEF Token
  <2>3. digits \in [key : {"max-age", "expires", "digits"}, val : Int]
    BY <1>1 DEF Token
  <2>4. kept \in [key : {"persistent"}, val : {TRUE}]
    BY DEF Token
  <2>. HIDE DEF pair, domain, path, digits, kept
  <2>. QED
    BY <2>1, <2>2, <2>3, <2>4 DEF Tokens
<1>3. line = <<pair, domain, path, digits>> \o IF c.persistent THEN <<kept>> ELSE << >>
  BY DEF ToLine
<1>4. /\ line \in Seq(Tokens) /\ Len(line) = IF c.persistent THEN 5 ELSE 4
      /\ line[1] = pair /\ line[2] = domain /\ line[3] = path /\ line[4] = digits
      /\ c.persistent => line[5] = kept
  <2>. HIDE DEF pair, domain, path, digits, kept, line
  <2>1. CASE c.persistent
    <3>. DEFINE four == <<pair, domain, path, digits>>
                one == <<kept>>
    <3>1. /\ four \in Seq(Tokens) /\ Len(four) = 4 /\ one \in Seq(Tokens) /\ Len(one) = 1
          /\ four[1] = pair /\ four[2] = domain /\ four[3] = path /\ four[4] = digits
          /\ one[1] = kept
      BY <1>2
    <3>2. line = four \o one
      BY <1>3, <2>1
    <3>. HIDE DEF four, one
    <3>3. /\ line \in Seq(Tokens) /\ Len(line) = Len(four) + Len(one)
          /\ \A i \in 1 .. Len(four) + Len(one) :
               line[i] = IF i <= Len(four) THEN four[i] ELSE one[i - Len(four)]
      <4>1. four \in Seq(Tokens) /\ one \in Seq(Tokens)
        BY <3>1
      <4>. QED
        BY <3>2, <4>1, ConcatProperties, Zenon
    <3>4. Len(line) = 5 /\ \A i \in 1 .. 5 : line[i] = IF i =< 4 THEN four[i] ELSE one[i - 4]
      BY <3>1, <3>3
    <3>5. line[1] = four[1] /\ line[2] = four[2] /\ line[3] = four[3] /\ line[4] = four[4]
      BY <3>4
    <3>6. line[5] = one[1]
      BY <3>4
    <3>. QED
      BY <2>1, <3>1, <3>3, <3>4, <3>5, <3>6
  <2>2. CASE ~c.persistent
    <3>1. line = <<pair, domain, path, digits>>
      BY <1>3, <2>2
    <3>. QED
      BY <1>2, <2>2, <3>1
  <2>. QED
    BY <1>1, <2>1, <2>2
<1>5. PICK f \in [0 .. Len(line) -> Drafts] :
             /\ f[0] = b /\ Rest(b, line) = f[Len(line)]
             /\ \A n \in 1 .. Len(line) : f[n] = Taken(f[n - 1], line[n])
  <2>1. b \in Drafts
    BY BlankIsDraft
  <2>. HIDE DEF line, b
  <2>. QED
    BY <1>4, <2>1, TakenInTurn
<1>. DEFINE b1 == [b EXCEPT !.name = c.name, !.value = c.value]
            b2 == [b1 EXCEPT !.domain = c.domain]
            b3 == [b2 EXCEPT !.path = c.path]
            b4 == IF c.expires > 0 THEN [b3 EXCEPT !.date = c.expires] ELSE b3
<1>6. f[1] = b1 /\ f[2] = b2 /\ f[3] = b3 /\ f[4] = b4
  <2>1. /\ f[0] = b /\ f[1] = Taken(f[0], pair) /\ f[2] = Taken(f[1], domain)
        /\ f[3] = Taken(f[2], path) /\ f[4] = Taken(f[3], digits)
    <3>. HIDE DEF line, pair, domain, path, digits, kept, b
    <3>1. {1, 2, 3, 4} \subseteq 1 .. Len(line)
      BY <1>4
    <3>2. 1 - 1 = 0 /\ 2 - 1 = 1 /\ 3 - 1 = 2 /\ 4 - 1 = 3
      OBVIOUS
    <3>. QED
      BY <1>4, <1>5, <3>1, <3>2
  <2>2. Taken(b, pair) = b1
    BY DEF Taken, Pair, Blank
  <2>3. Taken(b1, domain) = b2
    BY DEF Taken, Token
  <2>4. Taken(b2, path) = b3
    BY DEF Taken, Token
  <2>5. Taken(b3, digits) = b4
    BY DEF Taken, Token, DateOf
  <2>. HIDE DEF b, b1, b2, b3, b4, pair, domain, path, digits
  <2>. QED
    BY <2>1, <2>2, <2>3, <2>4, <2>5
<1>. DEFINE d == f[Len(line)]
<1>7. d = IF c.persistent THEN [b4 EXCEPT !.persistent = TRUE] ELSE b4
  <2>1. CASE c.persistent
    <3>1. Taken(b4, kept) = [b4 EXCEPT !.persistent = TRUE]
      BY DEF Taken, Token
    <3>. HIDE DEF line, kept, b4
    <3>2. Len(line) = 5 /\ line[5] = kept /\ 5 - 1 = 4 /\ 5 \in 1 .. 5
      BY <1>4, <2>1
    <3>3. f[5] = Taken(f[4], line[5])
      BY <1>5, <3>2
    <3>. QED
      BY <1>6, <2>1, <3>1, <3>2, <3>3
  <2>2. CASE ~c.persistent
    <3>1. Len(line) = 4
      BY <1>4, <2>2
    <3>. HIDE DEF line, b4
    <3>. QED
      BY <1>6, <2>2, <3>1
  <2>. QED
    BY <2>1, <2>2
<1>8. /\ d.name = c.name /\ d.value = c.value /\ d.path = c.path /\ d.domain = c.domain
      /\ d.age = 0 /\ d.date = c.expires
  <2>1. /\ b4.name = c.name /\ b4.value = c.value /\ b4.path = c.path /\ b4.domain = c.domain
        /\ b4.age = 0 /\ b4.date = c.expires
        /\ DOMAIN b4 = {"name", "value", "path", "domain", "persistent", "age", "date", "began"}
    BY <1>1 DEF Blank
  <2>. HIDE DEF b4, d
  <2>. QED
    BY <1>7, <2>1
<1>. DEFINE p == Parsed(line, now, None)
<1>9. p = Complete(d, None) /\ p \in Wholes
  <2>1. None \in Maybe
    BY DEF Maybe
  <2>. HIDE DEF line, b4
  <2>. QED
    BY <1>4, <1>5, <2>1, ParsedIs
<1>10. /\ p.name = c.name /\ p.value = c.value /\ p.path = c.path /\ p.domain = c.domain
       /\ p.expires = c.expires /\ p.session = c.session
  <2>. HIDE DEF d, p
  <2>. QED
    BY <1>1, <1>8, <1>9, CookiesAssumption DEF Complete, Session
<1>11. AfterLoading(p) = AfterLoading(c)
  <2>. HIDE DEF p
  <2>. QED
    BY <1>9, <1>10 DEF AfterLoading, Wholes
<1>. HIDE DEF p
<1>12. Identity(p) = Identity(c)
  BY <1>10 DEF Identity
<1>13. line # << >>
  BY <1>4
<1>14. ASSUME Intact(c), NEW n \in 1 .. Len(line) PROVE IsPlain(line[n])
  <2>1. c.name \in Plain /\ c.value \in Plain /\ c.domain \in Plain /\ c.path \in Plain
    BY <1>14 DEF Intact
  <2>2. IsPlain(pair) /\ IsPlain(domain) /\ IsPlain(path) /\ IsPlain(digits) /\ IsPlain(kept)
    BY <2>1 DEF IsPlain, Pair, Token
  <2>. HIDE DEF line, pair, domain, path, digits, kept
  <2>. QED
    BY <1>4, <2>2
<1>. QED
  BY <1>4, <1>9, <1>11, <1>12, <1>13, <1>14 DEF p

\* Without '#' and '|', read back from the file as well.
LEMMA LineReadBack ==
    ASSUME NEW c \in Wholes, Writable(c), Persistent(c), Intact(c), now \in Nat
    PROVE  /\ ReadBack(ToLine(c)) \in Wholes
           /\ Identity(ReadBack(ToLine(c))) = Identity(c)
           /\ AfterLoading(ReadBack(ToLine(c))) = AfterLoading(c)
<1>1. ToLine(c) \in Seq(Tokens) /\ \A n \in 1 .. Len(ToLine(c)) : IsPlain(ToLine(c)[n])
  BY LineIs
<1>2. ReadBack(ToLine(c)) = Parsed(ToLine(c), now, None)
  BY <1>1, ReadBackIs
<1>. QED
  BY <1>2, LineIs

\* get_cookies: the lines of what lasts before the first cookie that cannot be written.
LEMMA SavedIs ==
    ASSUME NEW list \in Jars, now \in Nat
    PROVE  /\ Saved(list) \in Seq(Seq(Tokens))
           /\ (\A j \in DOMAIN list : ~Stops(list[j])) =>
                /\ DOMAIN Saved(list) = DOMAIN Lasting(list)
                /\ \A k \in DOMAIN Lasting(list) : /\ Saved(list)[k] = ToLine(Lasting(list)[k])
                                                   /\ Writable(Lasting(list)[k])
<1>. DEFINE N == Len(list)
            I == {i \in 1 .. N : Stops(list[i])}
            stop == SelectInSeq(list, Stops)
            end == IF stop = 0 THEN N ELSE stop - 1
            part == SubSeq(list, 1, end)
            lasting == Lasting(part)
            text == [i \in DOMAIN lasting |-> ToLine(lasting[i])]
<1>1. /\ N \in Nat /\ list \in Seq(Wholes) /\ DOMAIN list = 1 .. N /\ Single(list)
      /\ \A n \in 1 .. N : list[n] \in Wholes
  BY DEF Jars
<1>2. stop = IF I # {} THEN Min(I) ELSE 0
  BY DEF SelectInSeq
<1>3. end \in 0 .. N /\ (\A j \in 1 .. end : ~Stops(list[j])) /\ (I = {} => end = N)
  <2>1. CASE I = {}
    BY <1>1, <1>2, <2>1
  <2>2. CASE I # {}
    <3>1. I \in SUBSET Nat
      BY <1>1
    <3>2. stop \in I /\ \A y \in I : stop =< y
      <4>. HIDE DEF I, stop
      <4>. QED
        BY <1>2, <2>2, <3>1, MinIs
    <3>. HIDE DEF stop
    <3>3. stop \in 1 .. N /\ end = stop - 1
      BY <3>2
    <3>4. \A j \in 1 .. stop - 1 : j \in 1 .. N /\ j \notin I
      BY <1>1, <3>2, <3>3
    <3>. QED
      BY <1>1, <2>2, <3>3, <3>4
  <2>. QED
    BY <2>1, <2>2
<1>. HIDE DEF stop, end
<1>4. /\ part \in Seq(Wholes) /\ DOMAIN part = 1 .. end /\ 1 .. end \subseteq DOMAIN list
      /\ \A j \in 1 .. end : part[j] = list[j]
  <2>1. end \in Nat /\ end =< N /\ 1 .. end \subseteq 1 .. N
    <3>1. end \in 0 .. N
      BY <1>3
    <3>. HIDE DEF N
    <3>. QED
      BY <1>1, <3>1
  <2>2. end \in Int /\ 1 \in Int /\ \A j \in 1 .. end : list[j] \in Wholes
    BY <1>1, <2>1
  <2>3. /\ part \in Seq(Wholes) /\ Len(part) = IF 1 <= end THEN end - 1 + 1 ELSE 0
        /\ \A j \in 1 .. end - 1 + 1 : part[j] = list[1 + j - 1]
    <3>. HIDE <1>2 DEF part
    <3>. QED
      BY <2>2, SubSeqProperties DEF part
  <2>. HIDE DEF part
  <2>4. end - 1 + 1 = end /\ \A j \in 1 .. end : 1 + j - 1 = j
    BY <2>2
  <2>5. Len(part) = end
    BY <2>1, <2>3
  <2>6. DOMAIN part = 1 .. end
    BY <2>3, <2>5
  <2>. QED
    BY <1>1, <2>1, <2>3, <2>4, <2>6
<1>5. end = N => part = list
  BY <1>1, SubSeqFull
<1>. HIDE DEF part
<1>6. part \in Jars
  BY <1>1, <1>4 DEF Jars, Single
<1>7. lasting \in Seq(Wholes)
  BY <1>6, LastingIs DEF Jars
<1>8. ASSUME NEW k \in DOMAIN lasting
      PROVE  Writable(lasting[k]) /\ ToLine(lasting[k]) \in Seq(Tokens)
  <2>1. PICK j \in DOMAIN part : lasting[k] = part[j] /\ Persistent(part[j])
    BY <1>6, LastingIs
  <2>2. ~Stops(part[j]) /\ part[j] \in Wholes
    BY <1>1, <1>3, <1>4
  <2>3. Writable(part[j])
    BY <2>1, <2>2 DEF Stops
  <2>. QED
    BY <2>1, <2>2, <2>3, LineIs
<1>. HIDE DEF lasting
<1>9. Saved(list) = text
  BY DEF Saved, stop, end, part, lasting
<1>10. text \in Seq(Seq(Tokens)) /\ DOMAIN text = DOMAIN lasting
  BY <1>7, <1>8
<1>11. ASSUME \A j \in DOMAIN list : ~Stops(list[j])
       PROVE  lasting = Lasting(list)
  BY <1>1, <1>3, <1>5, <1>11 DEF lasting
<1>. QED
  BY <1>8, <1>9, <1>10, <1>11

\* What is written is read: the cookies that last, in their order.
LEMMA RoundTrip ==
    ASSUME NEW list \in Jars, now \in Nat,
           \A j \in DOMAIN list : ~Stops(list[j]) /\ (Persistent(list[j]) => Intact(list[j]))
    PROVE  /\ DOMAIN Loaded(Saved(list)) = DOMAIN Lasting(list)
           /\ \A k \in DOMAIN Lasting(list) :
                AfterLoading(Loaded(Saved(list))[k]) = AfterLoading(Lasting(list)[k])
<1>. DEFINE text == Saved(list)
            lasting == Lasting(list)
            N == Len(text)
            P(n) == ReadBack(text[n])
<1>1. /\ text \in Seq(Seq(Tokens)) /\ N \in Nat /\ DOMAIN text = 1 .. N /\ DOMAIN lasting = 1 .. N
      /\ \A n \in 1 .. N : text[n] = ToLine(lasting[n]) /\ Writable(lasting[n])
  BY SavedIs
<1>2. lasting \in Seq(Wholes) /\ Single(lasting) /\ \A n \in 1 .. N : lasting[n] \in Wholes
  BY <1>1, LastingIs DEF Jars
<1>3. ASSUME NEW n \in 1 .. N
      PROVE  /\ P(n) \in Wholes /\ Identity(P(n)) = Identity(lasting[n])
             /\ AfterLoading(P(n)) = AfterLoading(lasting[n])
  <2>1. PICK j \in DOMAIN list : lasting[n] = list[j] /\ Persistent(list[j])
    BY <1>1, LastingIs
  <2>. HIDE DEF lasting, text
  <2>. QED
    BY <1>1, <1>2, <2>1, LineReadBack
<1>. HIDE DEF text, lasting, P
<1>4. PICK f \in [0 .. N -> Jars] :
             /\ f[0] = << >> /\ Loaded(text) = f[N]
             /\ \A n \in 1 .. N : f[n] = Add(f[n - 1], P(n))
  BY <1>1, LoadedInTurn DEF P
<1>. DEFINE Same(n) == Len(f[n]) = n /\ \A k \in 1 .. n : f[n][k] = P(k)
            S == {n \in Nat : Same(n)}
<1>5. 0 \in S
  BY <1>4
<1>6. ASSUME NEW n \in 0 .. N - 1, n \in S PROVE n + 1 \in S
  <2>1. n + 1 \in 1 .. N /\ (n + 1) - 1 = n /\ n + 1 \in Nat /\ n \in 0 .. N
    BY <1>1
  <2>. DEFINE g == f[n]
  <2>2. /\ g \in Jars /\ f[n + 1] = Add(g, P(n + 1)) /\ P(n + 1) \in Wholes
    BY <1>3, <1>4, <2>1
  <2>3. g \in Seq(Wholes) /\ Len(g) = n /\ \A k \in 1 .. n : g[k] = P(k)
    BY <1>6, <2>2 DEF Jars
  <2>. HIDE DEF g
  <2>4. PICK i \in 1 .. Len(g) + 1, e \in Wholes : AddedAt(Add(g, P(n + 1)), g, P(n + 1), i, e)
    BY <2>2, AddIs
  <2>5. i \notin DOMAIN g
    <3>. SUFFICES ASSUME i \in DOMAIN g PROVE FALSE
      OBVIOUS
    <3>1. i \in 1 .. n /\ Identity(g[i]) = Identity(P(n + 1))
      BY <2>3, <2>4 DEF AddedAt
    <3>2. i \in 1 .. N /\ i # n + 1 /\ g[i] = P(i)
      BY <2>1, <2>3, <3>1
    <3>3. Identity(lasting[i]) = Identity(lasting[n + 1])
      BY <1>3, <2>1, <3>1, <3>2
    <3>. QED
      BY <1>1, <1>2, <2>1, <3>2, <3>3 DEF Single
  <2>6. f[n + 1] = Append(g, P(n + 1))
    BY <2>2, <2>4, <2>5 DEF AddedAt
  <2>7. Len(f[n + 1]) = n + 1 /\ \A k \in 1 .. n + 1 : f[n + 1][k] = P(k)
    <3>. HIDE DEF P
    <3>1. f[n + 1] = Append(g, P(n + 1)) /\ g \in Seq(Wholes) /\ P(n + 1) \in Wholes /\ Len(g) = n
      BY <2>2, <2>3, <2>6
    <3>2. Len(f[n + 1]) = n + 1 /\ f[n + 1][n + 1] = P(n + 1)
      BY <2>1, <3>1
    <3>3. \A k \in 1 .. n : f[n + 1][k] = g[k]
      BY <3>1
    <3>4. \A k \in 1 .. n + 1 : k \in 1 .. n \/ k = n + 1
      BY <2>1
    <3>. QED
      BY <2>3, <3>2, <3>3, <3>4
  <2>. QED
    BY <2>1, <2>7
<1>7. N \in S
  <2>. HIDE DEF S, N
  <2>1. \A n \in 0 .. N : n \in S
    BY <1>1, <1>5, <1>6, Induction
  <2>. QED
    BY <1>1, <2>1
<1>8. f[N] \in Seq(Wholes) /\ Len(f[N]) = N /\ \A k \in 1 .. N : f[N][k] = P(k)
  <2>1. f[N] \in Jars
    BY <1>1, <1>4
  <2>2. Same(N)
    BY <1>7
  <2>. QED
    BY <2>1, <2>2 DEF Jars
<1>9. DOMAIN f[N] = 1 .. N
  BY <1>8
<1>. QED
  BY <1>1, <1>3, <1>4, <1>8, <1>9 DEF text, lasting

-----------------------------------------------------------------------------
(* Every action keeps the inductive invariant.                             *)

LEMMA NoDraftIsDraft ==
    NoDraft \in Drafts /\ Nobody \in [Users -> Drafts] /\ \A i \in Users : Nobody[i] = NoDraft
<1>1. NoDraft \in Drafts
  BY BlankIsDraft DEF NoDraft
<1>. QED
  BY <1>1 DEF Nobody

LEMMA HostsAre == Hosts \subseteq Maybe /\ None \in Maybe
  BY CookiesAssumption DEF Maybe

\* Between two sieges there is nothing to say of the browsers.
LEMMA CInvNobody ==
    ASSUME now' \in 1 .. MaxTime, mixed' \in BOOLEAN, file' \in [Users -> Seq(Seq(Tokens))],
           users' = 0, jar' = Empty, ideal' = [i \in Users |-> {}],
           draft' = Nobody, from' = Nowhere, left' = [of |-> 0, tokens |-> << >>]
    PROVE  CInv'
<1>1. Typed'
  <2>1. jar' \in [Users -> Jars] /\ ideal' \in [Users -> SUBSET Wholes]
    BY NothingIsJar DEF Empty
  <2>2. draft' \in [Users -> Drafts]
    BY NoDraftIsDraft
  <2>3. from' \in [Users -> [host : Maybe, cookie : Wholes \cup {NoDraft}]]
    BY HostsAre DEF Nowhere
  <2>4. left' \in [of : 0 .. MaxUsers, tokens : Seq(Tokens)] /\ users' \in 0 .. MaxUsers
    BY CookiesAssumption
  <2>. QED
    BY <2>1, <2>2, <2>3, <2>4 DEF Typed
<1>2. ASSUME NEW i \in Users
      PROVE  Placed(i)' /\ FromFile(i)' /\ Drafted(i)' /\ Mirrored(i)'
  <2>1. draft'[i] = NoDraft /\ jar'[i] = << >> /\ ideal'[i] = {} /\ i > users' /\ ~(i =< users')
    BY NoDraftIsDraft DEF Empty, Users
  <2>2. MirrorOf(jar'[i], ideal'[i])
    BY <2>1, NothingIsJar
  <2>. QED
    BY <2>1, <2>2 DEF Placed, FromFile, Drafted, Mirrored
<1>. QED
  BY <1>1, <1>2 DEF CInv

LEMMA CInvInit ==
    ASSUME Init PROVE CInv
<1>1. file \in [Users -> Seq(Seq(Tokens))]
  <2>1. \A line \in ByHand : <<line>> \in Seq(Seq(Tokens))
    BY CookiesAssumption
  <2>2. << >> \in Seq(Seq(Tokens))
    OBVIOUS
  <2>. QED
    BY <2>1, <2>2 DEF Init
<1>2. Typed
  <2>1. jar \in [Users -> Jars] /\ ideal \in [Users -> SUBSET Wholes]
    BY NothingIsJar DEF Init, Empty
  <2>2. draft \in [Users -> Drafts]
    BY NoDraftIsDraft DEF Init
  <2>3. from \in [Users -> [host : Maybe, cookie : Wholes \cup {NoDraft}]]
    BY HostsAre DEF Init, Nowhere
  <2>4. now \in 1 .. MaxTime /\ users \in 0 .. MaxUsers
    BY CookiesAssumption DEF Init
  <2>5. left \in [of : 0 .. MaxUsers, tokens : Seq(Tokens)]
    BY CookiesAssumption DEF Init
  <2>6. mixed \in BOOLEAN
    BY DEF Init
  <2>. QED
    BY <1>1, <2>1, <2>2, <2>3, <2>4, <2>5, <2>6 DEF Typed
<1>3. ASSUME NEW i \in Users
      PROVE  Placed(i) /\ FromFile(i) /\ Drafted(i) /\ Mirrored(i)
  <2>1. draft[i] = NoDraft /\ jar[i] = << >> /\ ideal[i] = {} /\ i > users /\ ~(i =< users)
    BY NoDraftIsDraft DEF Init, Empty, Users
  <2>2. MirrorOf(jar[i], ideal[i])
    BY <2>1, NothingIsJar
  <2>. QED
    BY <2>1, <2>2 DEF Placed, FromFile, Drafted, Mirrored
<1>. QED
  BY <1>2, <1>3 DEF CInv

LEMMA CInvStart ==
    ASSUME CInv, Start PROVE CInv'
<1>1. /\ now \in Nat /\ users = 0 /\ users' \in Users /\ file' = file /\ draft' = draft
      /\ left' = left /\ from' = from /\ mixed' = mixed /\ now' = now
  BY CookiesAssumption DEF CInv, Typed, Start
<1>2. ASSUME NEW i \in Users
      PROVE  /\ jar'[i] \in Jars /\ MirrorOf(jar'[i], ideal'[i]) /\ ideal'[i] \in SUBSET Wholes
             /\ i > users' => jar'[i] = << >>
             /\ i =< users' => HasAll(jar'[i], file[i])
             /\ draft[i] = NoDraft
  <2>1. file[i] \in Seq(Seq(Tokens))
    BY DEF CInv, Typed
  <2>2. jar'[i] = IF i <= users' THEN Loaded(file[i]) ELSE << >>
    BY DEF Start
  <2>3. ideal'[i] = ToSet(jar'[i])
    BY DEF Start
  <2>4. i \in Nat /\ users' \in Nat /\ i > users
    BY <1>1, CookiesAssumption DEF Users
  <2>5. draft[i] = NoDraft
    BY <2>4 DEF CInv, Placed
  <2>6. CASE i <= users'
    <3>1. jar'[i] \in Jars /\ HasAll(jar'[i], file[i])
      BY <1>1, <2>1, <2>2, <2>6, LoadedIs
    <3>2. jar'[i] \in Seq(Wholes)
      BY <3>1 DEF Jars
    <3>. QED
      BY <2>3, <2>4, <2>5, <2>6, <3>1, <3>2, MapOf
  <2>7. CASE ~(i <= users')
    <3>1. jar'[i] = << >>
      BY <2>2, <2>7
    <3>2. jar'[i] \in Jars /\ jar'[i] \in Seq(Wholes)
      BY <3>1, NothingIsJar
    <3>. QED
      BY <2>3, <2>4, <2>5, <2>7, <3>1, <3>2, MapOf
  <2>. QED
    BY <2>6, <2>7
<1>3. Typed'
  <2>1. jar' \in [Users -> Jars]
    <3>1. jar' = [i \in Users |-> jar'[i]]
      BY DEF Start
    <3>. QED
      BY <1>2, <3>1
  <2>2. ideal' \in [Users -> SUBSET Wholes]
    <3>1. ideal' = [i \in Users |-> ideal'[i]]
      BY DEF Start
    <3>. QED
      BY <1>2, <3>1
  <2>3. users' \in 0 .. MaxUsers
    BY <1>1, CookiesAssumption DEF Users
  <2>. QED
    BY <1>1, <2>1, <2>2, <2>3 DEF CInv, Typed
<1>4. ASSUME NEW i \in Users
      PROVE  Placed(i)' /\ FromFile(i)' /\ Drafted(i)' /\ Mirrored(i)'
  BY <1>1, <1>2 DEF Placed, FromFile, Drafted, Mirrored
<1>. QED
  BY <1>3, <1>4 DEF CInv

LEMMA CInvReceive ==
    ASSUME CInv, NEW i \in Users, Receive(i) PROVE CInv'
<1>1. PICK line \in Lines, host \in Hosts :
        /\ draft' = [draft EXCEPT ![i] = Taken(Blank(now), Head(line))]
        /\ left' = [of |-> i, tokens |-> Tail(line)]
        /\ from' = [from EXCEPT ![i] = [host |-> host, cookie |-> Parsed(line, now, host)]]
  BY DEF Receive
<1>2. /\ i <= users /\ draft[i] = NoDraft /\ users' = users /\ file' = file /\ jar' = jar
      /\ mixed' = mixed /\ ideal' = ideal /\ now' = now /\ now \in Nat
  BY CookiesAssumption DEF Receive, CInv, Typed
<1>3. line \in Seq(Tokens) /\ line # << >> /\ host \in Maybe
  BY CookiesAssumption DEF Maybe
<1>. DEFINE first == Taken(Blank(now), Head(line))
            cookie == Parsed(line, now, host)
<1>4. /\ first \in Drafts /\ Tail(line) \in Seq(Tokens)
      /\ Rest(Blank(now), line) = Rest(first, Tail(line))
  BY <1>2, <1>3, BlankIsDraft, RestNext
<1>5. cookie \in Wholes /\ Complete(Rest(first, Tail(line)), host) = cookie
  BY <1>2, <1>3, <1>4, ParsedIs
<1>. HIDE DEF first, cookie
<1>6. Typed'
  <2>1. draft' \in [Users -> Drafts]
    BY <1>1, <1>4 DEF CInv, Typed, first
  <2>2. left' \in [of : 0 .. MaxUsers, tokens : Seq(Tokens)]
    BY <1>1, <1>4, CookiesAssumption DEF Users
  <2>3. from' \in [Users -> [host : Maybe, cookie : Wholes \cup {NoDraft}]]
    BY <1>1, <1>3, <1>5 DEF CInv, Typed, cookie
  <2>. QED
    BY <1>2, <2>1, <2>2, <2>3 DEF CInv, Typed
<1>7. ASSUME NEW j \in Users
      PROVE  Placed(j)' /\ FromFile(j)' /\ (mixed' \/ (Drafted(j)' /\ Mirrored(j)'))
  <2>1. Placed(j) /\ FromFile(j) /\ (mixed \/ Mirrored(j))
    BY DEF CInv
  <2>2. FromFile(j)' /\ (mixed' \/ Mirrored(j)')
    BY <1>2, <2>1 DEF FromFile, Mirrored
  <2>3. CASE j = i
    <3>1. /\ draft'[i] = first /\ from'[i].host = host /\ from'[i].cookie = cookie
          /\ left'.tokens = Tail(line)
      BY <1>1 DEF CInv, Typed, first, cookie
    <3>2. i \in Nat /\ users \in Nat
      BY CookiesAssumption DEF CInv, Typed, Users
    <3>3. Placed(i)'
      BY <1>2, <1>5, <3>1, <3>2 DEF Placed
    <3>4. Drafted(i)'
      BY <1>5, <3>1 DEF Drafted
    <3>. QED
      BY <2>2, <2>3, <3>3, <3>4
  <2>4. CASE j # i
    <3>1. draft'[j] = draft[j] /\ from'[j] = from[j] /\ left'.of # j
      BY <1>1, <2>4 DEF CInv, Typed
    <3>2. Placed(j)'
      BY <1>2, <2>1, <3>1 DEF Placed
    <3>3. Drafted(j)'
      BY <3>1 DEF Drafted
    <3>. QED
      BY <2>2, <3>2, <3>3
  <2>. QED
    BY <2>3, <2>4
<1>. QED
  BY <1>6, <1>7 DEF CInv

LEMMA CInvNextToken ==
    ASSUME CInv, NEW i \in Users, NextToken(i) PROVE CInv'
<1>1. /\ draft[i] # NoDraft /\ left.tokens # << >>
      /\ draft' = [draft EXCEPT ![i] = Taken(@, Head(left.tokens))]
      /\ left' = [left EXCEPT !.tokens = Tail(@)]
      /\ mixed' = (mixed \/ left.of # i)
      /\ users' = users /\ file' = file /\ jar' = jar /\ from' = from
      /\ ideal' = ideal /\ now' = now
  BY DEF NextToken
<1>2. draft[i] \in Drafts /\ left.tokens \in Seq(Tokens) /\ left.of \in 0 .. MaxUsers
  BY DEF CInv, Typed
<1>. DEFINE next == Taken(draft[i], Head(left.tokens))
<1>3. /\ next \in Drafts /\ Tail(left.tokens) \in Seq(Tokens)
      /\ Rest(draft[i], left.tokens) = Rest(next, Tail(left.tokens))
  BY <1>1, <1>2, RestNext
<1>. HIDE DEF next
<1>4. left'.of = left.of /\ left'.tokens = Tail(left.tokens) /\ draft'[i] = next
  BY <1>1 DEF CInv, Typed, next
<1>5. Typed'
  <2>1. draft' \in [Users -> Drafts]
    BY <1>1, <1>3 DEF CInv, Typed, next
  <2>2. left' \in [of : 0 .. MaxUsers, tokens : Seq(Tokens)]
    BY <1>1, <1>3 DEF CInv, Typed
  <2>3. mixed' \in BOOLEAN
    BY <1>1 DEF CInv, Typed
  <2>. QED
    BY <1>1, <2>1, <2>2, <2>3 DEF CInv, Typed
<1>6. ASSUME NEW j \in Users
      PROVE  Placed(j)' /\ FromFile(j)' /\ (mixed' \/ (Drafted(j)' /\ Mirrored(j)'))
  <2>1. Placed(j) /\ FromFile(j) /\ (mixed \/ (Drafted(j) /\ Mirrored(j)))
    BY DEF CInv
  <2>2. FromFile(j)' /\ (mixed \/ Mirrored(j)')
    BY <1>1, <2>1 DEF FromFile, Mirrored
  <2>3. CASE j = i
    <3>1. Placed(i)'
      BY <1>1, <2>1, <2>3 DEF Placed
    <3>2. mixed \/ Drafted(i)'
      BY <1>1, <1>3, <1>4, <2>1, <2>3 DEF Drafted
    <3>. QED
      BY <1>1, <2>2, <2>3, <3>1, <3>2
  <2>4. CASE j # i
    <3>1. draft'[j] = draft[j]
      BY <1>1, <2>4 DEF CInv, Typed
    <3>2. Placed(j)'
      BY <1>1, <2>1, <3>1 DEF Placed
    <3>3. mixed' \/ Drafted(j)'
      BY <1>1, <1>4, <2>4 DEF Drafted
    <3>. QED
      BY <1>1, <2>2, <3>2, <3>3
  <2>. QED
    BY <2>3, <2>4
<1>. QED
  BY <1>5, <1>6 DEF CInv

LEMMA CInvStore ==
    ASSUME CInv, NEW i \in Users, Store(i) PROVE CInv'
<1>. DEFINE host == from[i].host
            cookie == from[i].cookie
            parsed == Complete(draft[i], host)
<1>1. /\ draft[i] # NoDraft /\ left.tokens = << >>
      /\ draft' = [draft EXCEPT ![i] = NoDraft]
      /\ jar' = IF Matches(parsed, host) THEN [jar EXCEPT ![i] = Add(@, parsed)] ELSE jar
      /\ ideal' = IF Matches(cookie, host)
                  THEN [ideal EXCEPT ![i] = Without(@, cookie) \cup {cookie}] ELSE ideal
      /\ from' = [from EXCEPT ![i] = Nowhere[i]]
      /\ mixed' = (mixed \/ left.of # i)
      /\ users' = users /\ file' = file /\ left' = left /\ now' = now
  BY DEF Store
<1>2. /\ draft[i] \in Drafts /\ jar[i] \in Jars /\ ideal[i] \in SUBSET Wholes
      /\ users \in Nat /\ i \in Nat
  <2>1. users \in Nat /\ i \in Nat
    BY CookiesAssumption DEF CInv, Typed, Users
  <2>. QED
    BY <2>1 DEF CInv, Typed
<1>3. host \in Maybe /\ cookie \in Wholes /\ i <= users
  BY <1>1, <1>2, HostsAre DEF CInv, Placed
<1>4. parsed \in Wholes
  BY <1>2, <1>3, CompleteIsWhole
<1>5. ~mixed' => parsed = cookie
  <2>1. ASSUME ~mixed' PROVE Complete(Rest(draft[i], << >>), host) = cookie
    <3>1. left.of = i /\ Drafted(i)
      BY <1>1, <2>1 DEF CInv
    <3>. QED
      BY <1>1, <3>1 DEF Drafted
  <2>. QED
    BY <1>2, <2>1, RestEmpty
<1>. HIDE DEF host, cookie, parsed
<1>. DEFINE list == jar'[i]
            map == ideal'[i]
<1>6. /\ list = IF Matches(parsed, host) THEN Add(jar[i], parsed) ELSE jar[i]
      /\ map = IF Matches(cookie, host) THEN Without(ideal[i], cookie) \cup {cookie} ELSE ideal[i]
      /\ draft'[i] = NoDraft
      /\ \A j \in Users \ {i} : /\ jar'[j] = jar[j] /\ ideal'[j] = ideal[j]
                                /\ draft'[j] = draft[j] /\ from'[j] = from[j]
  BY <1>1 DEF CInv, Typed
<1>. HIDE DEF list, map
<1>7. list \in Jars /\ map \in SUBSET Wholes
  BY <1>2, <1>3, <1>4, <1>6, AddIsJar DEF Without
<1>8. Typed'
  <2>1. jar' \in [Users -> Jars]
    BY <1>1, <1>2, <1>4, AddIsJar DEF CInv, Typed
  <2>2. ideal' \in [Users -> SUBSET Wholes]
    BY <1>1, <1>2, <1>3 DEF CInv, Typed, Without
  <2>3. from' \in [Users -> [host : Maybe, cookie : Wholes \cup {NoDraft}]]
    BY <1>1, HostsAre DEF CInv, Typed, Nowhere
  <2>4. draft' \in [Users -> Drafts] /\ mixed' \in BOOLEAN
    BY <1>1, NoDraftIsDraft DEF CInv, Typed
  <2>. QED
    BY <1>1, <2>1, <2>2, <2>3, <2>4 DEF CInv, Typed
<1>9. FromFile(i)'
  <2>1. HasAll(jar[i], file[i])
    BY <1>3 DEF CInv, FromFile
  <2>2. \A j \in DOMAIN jar[i] : \E k \in DOMAIN list : Identity(list[k]) = Identity(jar[i][j])
    BY <1>2, <1>4, <1>6, AddIsJar
  <2>3. HasAll(list, file[i])
    BY <2>1, <2>2 DEF HasAll
  <2>. QED
    BY <1>1, <2>3 DEF FromFile, list
<1>10. mixed' \/ Mirrored(i)'
  <2>. SUFFICES ASSUME ~mixed' PROVE MirrorOf(list, map)
    BY DEF Mirrored, list, map
  <2>1. MirrorOf(jar[i], ideal[i]) /\ parsed = cookie
    BY <1>1, <1>5 DEF CInv, Mirrored
  <2>. QED
    BY <1>2, <1>3, <1>6, <2>1, AddIsJar
<1>11. ASSUME NEW j \in Users
       PROVE  Placed(j)' /\ FromFile(j)' /\ (mixed' \/ (Drafted(j)' /\ Mirrored(j)'))
  <2>1. Placed(j) /\ FromFile(j) /\ (mixed \/ (Drafted(j) /\ Mirrored(j)))
    BY DEF CInv
  <2>2. CASE j = i
    <3>1. Placed(i)' /\ Drafted(i)'
      BY <1>1, <1>2, <1>3, <1>6 DEF Placed, Drafted
    <3>. QED
      BY <1>9, <1>10, <2>2, <3>1
  <2>3. CASE j # i
    <3>1. jar'[j] = jar[j] /\ ideal'[j] = ideal[j] /\ draft'[j] = draft[j] /\ from'[j] = from[j]
      BY <1>6, <2>3
    <3>2. Placed(j)' /\ FromFile(j)'
      BY <1>1, <2>1, <3>1 DEF Placed, FromFile
    <3>3. mixed' \/ (Drafted(j)' /\ Mirrored(j)')
      BY <1>1, <2>1, <3>1 DEF Drafted, Mirrored
    <3>. QED
      BY <3>2, <3>3
  <2>. QED
    BY <2>2, <2>3
<1>. QED
  BY <1>8, <1>11 DEF CInv

\* However a siege ends, the file has lines that are no line but those of cookies.
LEMMA SavedUpToIs ==
    ASSUME CInv, NEW k \in Nat
    PROVE  SavedUpTo(k) \in [Users -> Seq(Seq(Tokens))]
<1>1. now \in Nat
  BY CookiesAssumption DEF CInv, Typed
<1>2. ASSUME NEW i \in Users
      PROVE  (IF i <= k THEN Saved(jar[i]) ELSE << >>) \in Seq(Seq(Tokens))
  <2>1. jar[i] \in Jars
    BY DEF CInv, Typed
  <2>2. Saved(jar[i]) \in Seq(Seq(Tokens)) /\ << >> \in Seq(Seq(Tokens))
    BY <1>1, <2>1, SavedIs
  <2>. QED
    BY <2>2
<1>. QED
  BY <1>2 DEF SavedUpTo

LEMMA CInvGone ==
    ASSUME CInv, NEW text \in [Users -> Seq(Seq(Tokens))], Gone(text) PROVE CInv'
<1>1. now \in 1 .. MaxTime /\ mixed \in BOOLEAN
  BY DEF CInv, Typed
<1>. QED
  BY <1>1, CInvNobody DEF Gone

LEMMA CInvTick ==
    ASSUME CInv, Tick PROVE CInv'
<1>1. /\ now' = now + 1 /\ now < MaxTime /\ file' = file /\ users' = users /\ jar' = jar
      /\ draft' = draft /\ left' = left /\ from' = from /\ mixed' = mixed /\ ideal' = ideal
  BY DEF Tick
<1>2. Typed'
  <2>1. now' \in 1 .. MaxTime
    BY <1>1, CookiesAssumption DEF CInv, Typed
  <2>. QED
    BY <1>1, <2>1 DEF CInv, Typed
<1>3. ASSUME NEW i \in Users
      PROVE  Placed(i)' /\ FromFile(i)' /\ (mixed' \/ (Drafted(i)' /\ Mirrored(i)'))
  BY <1>1 DEF CInv, Placed, FromFile, Drafted, Mirrored
<1>. QED
  BY <1>2, <1>3 DEF CInv

LEMMA CInvStep ==
    ASSUME CInv, [Next]_vars PROVE CInv'
<1>1. ASSUME NEW i \in Users, Receive(i) \/ NextToken(i) \/ Store(i) PROVE CInv'
  BY <1>1, CInvReceive, CInvNextToken, CInvStore
<1>2. CASE Start
  BY <1>2, CInvStart
<1>3. CASE End
  <2>1. users \in Nat
    BY CookiesAssumption DEF CInv, Typed
  <2>. QED
    BY <1>3, <2>1, SavedUpToIs, CInvGone DEF End
<1>4. CASE Killed
  <2>1. file \in [Users -> Seq(Seq(Tokens))]
    BY DEF CInv, Typed
  <2>. QED
    BY <1>4, <2>1, CInvGone DEF Killed
<1>5. CASE CutShort
  <2>1. PICK k \in 0 .. users - 1 : Gone(SavedUpTo(k))
    BY <1>5 DEF CutShort
  <2>2. k \in Nat
    BY CookiesAssumption DEF CInv, Typed
  <2>. QED
    BY <2>1, <2>2, SavedUpToIs, CInvGone
<1>6. CASE Tick
  BY <1>6, CInvTick
<1>7. CASE UNCHANGED vars
  <2>1. /\ now' = now /\ file' = file /\ users' = users /\ jar' = jar /\ draft' = draft
        /\ left' = left /\ from' = from /\ mixed' = mixed /\ ideal' = ideal
    BY <1>7 DEF vars
  <2>2. Typed'
    BY <2>1 DEF CInv, Typed
  <2>3. ASSUME NEW i \in Users
        PROVE  Placed(i)' /\ FromFile(i)' /\ (mixed' \/ (Drafted(i)' /\ Mirrored(i)'))
    BY <2>1 DEF CInv, Placed, FromFile, Drafted, Mirrored
  <2>. QED
    BY <2>2, <2>3 DEF CInv
<1>. QED
  BY <1>1, <1>2, <1>3, <1>4, <1>5, <1>6, <1>7 DEF Next

LEMMA CInvHolds == Spec => []CInv
<1>1. Init => CInv
  BY CInvInit
<1>2. CInv /\ [Next]_vars => CInv'
  BY CInvStep
<1>. QED
  BY <1>1, <1>2, PTL DEF Spec

-----------------------------------------------------------------------------
(* What follows.                                                           *)

\* Whatever was received, loaded or mixed up, by any number of browsers over any number of
\* sieges, cookies_add leaves a jar with whole cookies, and with each of them once.
THEOREM JarsAreTyped == Spec => []CookieTypeOK
<1>1. ASSUME CInv PROVE CookieTypeOK
  <2>1. now \in 1 .. MaxTime /\ users \in 0 .. MaxUsers
    BY <1>1 DEF CInv, Typed
  <2>2. ASSUME NEW i \in Users
        PROVE  /\ i > users => jar[i] = << >> /\ draft[i] = NoDraft
               /\ \A c \in ToSet(jar[i]) :
                     /\ c.expires \in Nat /\ c.session = (c.expires = 0)
                     /\ c.domain = None => c.hostonly
                     /\ c.name = None <=> c.value = None
               /\ \A j, k \in DOMAIN jar[i] :
                     Identity(jar[i][j]) = Identity(jar[i][k]) => j = k
    <3>1. jar[i] \in Seq(Wholes) /\ Single(jar[i]) /\ Placed(i)
      BY <1>1 DEF CInv, Typed, Jars
    <3>2. \A c \in ToSet(jar[i]) : c \in Wholes
      BY <3>1, MapOf
    <3>3. \A c \in Wholes : /\ c.expires \in Nat /\ c.session = (c.expires = 0)
                            /\ c.domain = None => c.hostonly
                            /\ c.name = None <=> c.value = None
      BY DEF Wholes
    <3>. QED
      BY <3>1, <3>2, <3>3 DEF Placed, Single
  <2>. QED
    BY <2>1, <2>2 DEF CookieTypeOK
<1>. QED
  BY <1>1, CInvHolds, PTL

\* cookies_header takes one cookie of each name that a map has a live one of, with a value
\* of the map.
IdealFor(sent, live) ==
    /\ {c.name : c \in sent} = {c.name : c \in live}
    /\ {<<c.name, c.value>> : c \in sent} \subseteq {<<c.name, c.value>> : c \in live}
    /\ Cardinality(sent) = Cardinality({c.name : c \in live})

LEMMA HeaderIs ==
    ASSUME NEW list \in Seq(Wholes), NEW map, MirrorOf(list, map), NEW host
    PROVE  IdealFor(Header(list, host), {c \in map : Sendable(c, host)})
<1>. DEFINE sent == Header(list, host)
            live == {c \in map : Sendable(c, host)}
            able == {j \in DOMAIN list : Sendable(list[j], host)}
            first == {j \in able : \A k \in able : list[k].name = list[j].name => j <= k}
            names == {c.name : c \in live}
<1>1. sent = {list[j] : j \in first}
  BY DEF Header
<1>2. \A c, d : Alike(c, d) => /\ Sendable(c, host) <=> Sendable(d, host)
                               /\ c.name = d.name /\ c.value = d.value
  BY DEF Alike, Sendable, Matches
<1>3. DOMAIN list = 1 .. Len(list) /\ Len(list) \in Nat /\ able \in SUBSET Nat
  OBVIOUS
<1>4. ASSUME NEW j \in first
      PROVE  \E d \in live : d.name = list[j].name /\ d.value = list[j].value
  <2>1. PICK d \in map : Alike(list[j], d)
    BY DEF MirrorOf
  <2>. QED
    BY <1>2, <2>1
<1>5. ASSUME NEW d \in live PROVE \E j \in first : list[j].name = d.name
  <2>1. PICK j \in DOMAIN list : Alike(list[j], d)
    BY DEF MirrorOf
  <2>. DEFINE I == {k \in able : list[k].name = d.name}
  <2>2. j \in I
    BY <1>2, <2>1
  <2>3. I \in SUBSET Nat /\ I # {}
    BY <1>3, <2>2
  <2>. DEFINE m == Min(I)
  <2>4. m \in I /\ \A k \in I : m =< k
    <3>. HIDE DEF I
    <3>. QED
      BY <2>3, MinIs
  <2>. HIDE DEF m
  <2>5. m \in first
    BY <2>4
  <2>. QED
    BY <2>4, <2>5
<1>6. ASSUME NEW j \in first, NEW k \in first, list[j].name = list[k].name PROVE j = k
  <2>1. j <= k /\ k <= j /\ j \in Nat /\ k \in Nat
    BY <1>3, <1>6
  <2>. QED
    BY <2>1
<1>7. IsFiniteSet(first)
  <2>1. IsFiniteSet(1 .. Len(list))
    BY <1>3, FS_Interval
  <2>2. first \in SUBSET (1 .. Len(list))
    BY <1>3
  <2>. HIDE DEF first
  <2>. QED
    BY <2>1, <2>2, FS_Subset
<1>. HIDE DEF sent, live, first
<1>8. {c.name : c \in sent} = names
  BY <1>1, <1>4, <1>5
<1>9. {<<c.name, c.value>> : c \in sent} \subseteq {<<c.name, c.value>> : c \in live}
  BY <1>1, <1>4
<1>10. Cardinality(sent) = Cardinality(first)
  <2>. DEFINE f == [j \in first |-> list[j]]
  <2>1. f \in [first -> sent] /\ (\A c \in sent : \E j \in first : f[j] = c)
    BY <1>1
  <2>2. \A j, k \in first : f[j] = f[k] => j = k
    BY <1>6
  <2>3. f \in Bijection(first, sent)
    BY <2>1, <2>2 DEF Bijection, Injection, Surjection, IsInjective
  <2>. QED
    BY <1>7, <2>3, FS_Bijection DEF ExistsBijection
<1>11. Cardinality(names) = Cardinality(first)
  <2>. DEFINE f == [j \in first |-> list[j].name]
  <2>1. f \in [first -> names] /\ (\A c \in names : \E j \in first : f[j] = c)
    BY <1>4, <1>5
  <2>2. \A j, k \in first : f[j] = f[k] => j = k
    BY <1>6
  <2>3. f \in Bijection(first, names)
    BY <2>1, <2>2 DEF Bijection, Injection, Surjection, IsInjective
  <2>. HIDE DEF names
  <2>. QED
    BY <1>7, <2>3, FS_Bijection DEF ExistsBijection
<1>. QED
  BY <1>8, <1>9, <1>10, <1>11 DEF IdealFor, sent, live

\* However the lines of all browsers came in between, one that was not mixed with another
\* browser's is answered as by a map: the cookie header has one cookie of each name that
\* is to be sent, with the value that was last received for it.
THEOREM HeadersAreIdeal == Spec => []HeaderIsIdeal
<1>1. ASSUME CInv PROVE HeaderIsIdeal
  <2>. SUFFICES ASSUME ~mixed, NEW i \in Users, NEW host \in Hosts
                PROVE  IdealFor(Header(jar[i], host), {c \in ideal[i] : Sendable(c, host)})
    BY DEF HeaderIsIdeal, IdealFor
  <2>1. jar[i] \in Seq(Wholes) /\ MirrorOf(jar[i], ideal[i])
    BY <1>1 DEF CInv, Typed, Jars, Mirrored
  <2>. QED
    BY <2>1, HeaderIs
<1>. QED
  BY <1>1, CInvHolds, PTL

\* No cookie is lost but for a reason.
LEMMA LossStep ==
    ASSUME CInv, [Next]_vars, NEW i \in Users, NEW c \in InFile(file[i])
    PROVE  \/ \E d \in InFile(file'[i]) : Identity(d) = Identity(c)
           \/ i > users \/ CutShort
           \/ \E d \in ToSet(jar[i]) :
                \/ Stops(d)
                \/ Identity(d) = Identity(c) /\ ~(Persistent(d) /\ Intact(d))
<1>1. CASE file' = file
  BY <1>1
<1>2. CASE CutShort
  BY <1>2
<1>3. CASE End
  <2>. SUFFICES ASSUME ~(i > users), \A d \in ToSet(jar[i]) :
                         ~Stops(d) /\ (Identity(d) = Identity(c) => Persistent(d) /\ Intact(d))
                PROVE  \E d \in InFile(file'[i]) : Identity(d) = Identity(c)
    OBVIOUS
  <2>1. /\ now \in Nat /\ i \in Nat /\ users \in Nat /\ i =< users /\ jar[i] \in Jars
        /\ file[i] \in Seq(Seq(Tokens))
    <3>1. now \in Nat /\ i \in Nat /\ users \in Nat
      BY CookiesAssumption DEF CInv, Typed, Users
    <3>. QED
      BY <3>1 DEF CInv, Typed
  <2>2. file'[i] = Saved(jar[i])
    BY <1>3, <2>1 DEF End, Gone, SavedUpTo
  <2>3. PICK k \in DOMAIN file[i] : c = ReadBack(file[i][k])
    BY DEF InFile
  <2>4. Identity(c) = IdentityIn(file[i][k])
    BY <2>1, <2>3, ReadBackIs
  <2>5. PICK j \in DOMAIN jar[i] : Identity(jar[i][j]) = Identity(c)
    BY <2>1, <2>4 DEF CInv, FromFile, HasAll
  <2>6. \A m \in DOMAIN jar[i] : jar[i][m] \in ToSet(jar[i])
    BY DEF ToSet
  <2>7. Persistent(jar[i][j]) /\ Intact(jar[i][j]) /\ \A m \in DOMAIN jar[i] : ~Stops(jar[i][m])
    BY <2>5, <2>6
  <2>8. PICK m \in DOMAIN Lasting(jar[i]) : Lasting(jar[i])[m] = jar[i][j]
    BY <2>1, <2>7, LastingIs
  <2>. DEFINE e == jar[i][j]
  <2>9. m \in DOMAIN Saved(jar[i]) /\ Saved(jar[i])[m] = ToLine(e) /\ Writable(e)
    BY <2>1, <2>7, <2>8, SavedIs
  <2>10. e \in Wholes
    BY <2>1 DEF Jars
  <2>11. Identity(ReadBack(ToLine(e))) = Identity(c)
    BY <2>1, <2>5, <2>7, <2>9, <2>10, LineReadBack
  <2>. QED
    BY <2>2, <2>9, <2>11 DEF InFile
<1>4. ASSUME NEW j \in Users, Receive(j) \/ NextToken(j) \/ Store(j) PROVE file' = file
  BY <1>4 DEF Receive, NextToken, Store
<1>. QED
  BY <1>1, <1>2, <1>3, <1>4 DEF Next, Start, Killed, Gone, Tick, vars

\* A jar that is written and loaded again keeps the cookies that last, in their order, when
\* no '#' or '|' in them cuts their lines; and the file loses no cookie that has not expired
\* but to a siege with fewer users, one that was cut short, a cookie of the session or one
\* that is cut in its place, or one that cannot be written.
THEOREM LossesAreExplained == Spec => LossesExplained
<1>1. ASSUME CInv
      PROVE  \A i \in Users :
                LET lasting == Lasting(jar[i])
                    loaded == Loaded(Saved(jar[i]))
                IN  (\A c \in ToSet(jar[i]) : ~Stops(c) /\ (Persistent(c) => Intact(c))) =>
                        [k \in DOMAIN loaded |-> AfterLoading(loaded[k])]
                            = [k \in DOMAIN lasting |-> AfterLoading(lasting[k])]
  <2>. SUFFICES ASSUME NEW i \in Users,
                       \A c \in ToSet(jar[i]) : ~Stops(c) /\ (Persistent(c) => Intact(c))
                PROVE  [k \in DOMAIN Loaded(Saved(jar[i])) |-> AfterLoading(Loaded(Saved(jar[i]))[k])]
                         = [k \in DOMAIN Lasting(jar[i]) |-> AfterLoading(Lasting(jar[i])[k])]
    OBVIOUS
  <2>1. jar[i] \in Jars /\ now \in Nat
    BY <1>1, CookiesAssumption DEF CInv, Typed
  <2>2. \A j \in DOMAIN jar[i] :
           ~Stops(jar[i][j]) /\ (Persistent(jar[i][j]) => Intact(jar[i][j]))
    BY DEF ToSet
  <2>. QED
    BY <2>1, <2>2, RoundTrip
<1>2. ASSUME CInv, [Next]_vars
      PROVE  [\A i \in Users : \A c \in InFile(file[i]) :
                \/ c.expires <= now
                \/ \E d \in InFile(file'[i]) : Identity(d) = Identity(c)
                \/ i > users \/ CutShort
                \/ \E d \in ToSet(jar[i]) :
                     \/ Stops(d)
                     \/ Identity(d) = Identity(c) /\ ~(Persistent(d) /\ Intact(d))]_vars
  BY <1>2, LossStep
<1>. QED
  BY <1>1, <1>2, CInvHolds, PTL DEF Spec, LossesExplained
=============================================================================
