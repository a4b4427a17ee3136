---------------------------- MODULE BrowserProofs ----------------------------
(***************************************************************************)
(* Browser, for every number of users, repetitions, bids, logins and       *)
(* replies, and every threshold of failures: the counters and the bounds   *)
(* its run checks of two users.                                            *)
(***************************************************************************)
EXTENDS Browser, FiniteSetTheorems, WellFoundedInduction, TLAPS

-----------------------------------------------------------------------------
(* Sums over the browsers.                                                 *)

\* The least-number principle, for proofs by induction over sets of numbers.
LEMMA NatIsWellFounded ==
    \E R : IsWellFoundedOn(R, Nat) /\ \A x, y \in Nat : x < y => <<x, y>> \in R
<1>1. IsWellFoundedOn(OpToRel(<, Nat), Nat)
  BY NatLessThanWellFounded
<1>2. \A x, y \in Nat : x < y => <<x, y>> \in OpToRel(<, Nat)
  BY Zenon DEF OpToRel
<1>. QED
  BY <1>1, <1>2, Zenon

\* A set of numbers that holds 0, and the next number up to N, holds all up to N.
LEMMA Induction ==
    ASSUME NEW N \in Nat, NEW S, 0 \in S, \A n \in 0 .. N - 1 : n \in S => n + 1 \in S
    PROVE  \A n \in 0 .. N : n \in S
<1>. DEFINE T == {n \in 0 .. N : n \notin S}
<1>. SUFFICES ASSUME T # {} PROVE FALSE
  OBVIOUS
<1>1. PICK R : IsWellFoundedOn(R, Nat) /\ \A x, y \in Nat : x < y => <<x, y>> \in R
  BY NatIsWellFounded
<1>2. T \subseteq Nat
  OBVIOUS
<1>3. PICK m \in T : \A y \in T : ~(<<y, m>> \in R)
  <2>1. IsWellFoundedOn(R, Nat)
    BY <1>1
  <2>. HIDE <1>1 DEF T
  <2>. QED
    BY <1>2, <2>1, WFMin, Zenon
<1>4. m \in Nat /\ m # 0 /\ m =< N
  OBVIOUS
<1>5. m - 1 \in 0 .. N - 1 /\ m - 1 < m /\ m - 1 \in Nat
  BY <1>4
<1>6. m - 1 \notin T
  <2>1. <<m - 1, m>> \in R
    BY <1>1, <1>4, <1>5
  <2>. QED
    BY <1>3, <2>1
<1>7. m - 1 \in S
  BY <1>5, <1>6
<1>8. m \in S
  <2>1. (m - 1) + 1 \in S
    BY <1>5, <1>7
  <2>. QED
    BY <1>4, <2>1
<1>. QED
  BY <1>8

\* The running sums that Summed is the last of.
IsSum(sum, of) == /\ sum \in [0 .. MaxUsers -> Int] /\ sum[0] = 0
                  /\ \A n \in 1 .. MaxUsers : sum[n] = sum[n - 1] + of[n]

LEMMA SummedIs ==
    ASSUME NEW of \in [Browsers -> Int]
    PROVE  \E sum : IsSum(sum, of) /\ Summed(of) = sum[MaxUsers]
<1>. USE BrowserAssumption
<1>. DEFINE Prefix(n, g) == /\ g \in [0 .. n -> Int] /\ g[0] = 0
                            /\ \A k \in 1 .. n : g[k] = g[k - 1] + of[k]
            S == {n \in Nat : \E g : Prefix(n, g)}
<1>1. 0 \in S
  <2>. DEFINE g == [k \in 0 .. 0 |-> 0]
  <2>1. Prefix(0, g)
    OBVIOUS
  <2>. HIDE DEF g, Prefix
  <2>. QED
    BY <2>1
<1>2. ASSUME NEW n \in 0 .. MaxUsers - 1, n \in S PROVE n + 1 \in S
  <2>1. PICK g : Prefix(n, g)
    BY <1>2
  <2>. DEFINE h == [k \in 0 .. n + 1 |-> IF k = n + 1 THEN g[n] + of[n + 1] ELSE g[k]]
  <2>2. n + 1 \in Browsers /\ of[n + 1] \in Int /\ n \in 0 .. n
    BY DEF Browsers
  <2>3. h \in [0 .. n + 1 -> Int]
    BY <2>1, <2>2
  <2>4. h[0] = 0
    BY <2>1
  <2>5. ASSUME NEW k \in 1 .. n + 1 PROVE h[k] = h[k - 1] + of[k]
    BY <2>1
  <2>6. Prefix(n + 1, h)
    BY <2>3, <2>4, <2>5
  <2>. HIDE DEF h, Prefix
  <2>. QED
    BY <2>6
<1>. HIDE DEF Prefix
<1>3. MaxUsers \in S
  <2>1. MaxUsers \in Nat /\ MaxUsers \in 0 .. MaxUsers
    OBVIOUS
  <2>. HIDE DEF S
  <2>2. \A n \in 0 .. MaxUsers : n \in S
    BY <1>1, <1>2, <2>1, Induction
  <2>. QED
    BY <2>1, <2>2
<1>4. PICK g : Prefix(MaxUsers, g)
  BY <1>3
<1>. DEFINE Eq(h) == h = [n \in 0 .. MaxUsers |-> IF n = 0 THEN 0 ELSE h[n - 1] + of[n]]
            sum == CHOOSE h : Eq(h)
<1>5. Eq(g)
  BY <1>4 DEF Prefix
<1>6. Eq(sum)
  <2>. HIDE DEF Eq
  <2>. QED
    BY <1>5
<1>7. Summed(of) = sum[MaxUsers]
  BY DEF Summed
<1>. HIDE DEF sum
<1>8. sum[0] = 0 /\ \A n \in 1 .. MaxUsers : sum[n] = sum[n - 1] + of[n]
  BY <1>6
<1>9. \A n \in 0 .. MaxUsers : n \in {m \in Nat : sum[m] \in Int}
  <2>. DEFINE T == {m \in Nat : sum[m] \in Int}
  <2>1. 0 \in T
    BY <1>8
  <2>2. ASSUME NEW n \in 0 .. MaxUsers - 1, n \in T PROVE n + 1 \in T
    <3>1. n + 1 \in Browsers /\ n + 1 \in 1 .. MaxUsers /\ (n + 1) - 1 = n
      BY DEF Browsers
    <3>2. sum[n + 1] = sum[n] + of[n + 1]
      BY <1>8, <3>1
    <3>. QED
      BY <2>2, <3>1, <3>2
  <2>. HIDE DEF T
  <2>3. \A n \in 0 .. MaxUsers : n \in T
    BY <2>1, <2>2, Induction
  <2>. QED
    BY <2>3 DEF T
<1>10. sum \in [0 .. MaxUsers -> Int]
  BY <1>6, <1>9
<1>. QED
  BY <1>7, <1>8, <1>10 DEF IsSum

\* A sum is a number, and when one browser has more the sum is as much more.
LEMMA SumIsInt == ASSUME NEW of \in [Browsers -> Int] PROVE Summed(of) \in Int
  BY SummedIs, BrowserAssumption DEF IsSum

LEMMA SumMoves ==
    ASSUME NEW f \in [Browsers -> Int], NEW g \in [Browsers -> Int], NEW b \in Browsers,
           \A c \in Browsers \ {b} : g[c] = f[c]
    PROVE  Summed(g) = Summed(f) + (g[b] - f[b])
<1>. USE BrowserAssumption
<1>1. PICK s : IsSum(s, f) /\ Summed(f) = s[MaxUsers]
  BY SummedIs
<1>2. PICK t : IsSum(t, g) /\ Summed(g) = t[MaxUsers]
  BY SummedIs
<1>. DEFINE S == {n \in Nat : t[n] = s[n] + (IF n < b THEN 0 ELSE g[b] - f[b])}
<1>3. 0 \in S
  BY <1>1, <1>2 DEF IsSum, Browsers
<1>4. ASSUME NEW n \in 0 .. MaxUsers - 1, n \in S PROVE n + 1 \in S
  <2>1. /\ n + 1 \in Browsers /\ n + 1 \in 1 .. MaxUsers /\ (n + 1) - 1 = n
        /\ n \in 0 .. MaxUsers
    BY DEF Browsers
  <2>2. /\ s[n + 1] = s[n] + f[n + 1] /\ t[n + 1] = t[n] + g[n + 1]
        /\ s[n] \in Int /\ t[n] \in Int /\ f[n + 1] \in Int /\ g[n + 1] \in Int
        /\ f[b] \in Int /\ g[b] \in Int
    BY <1>1, <1>2, <2>1 DEF IsSum
  <2>3. t[n] = s[n] + (IF n < b THEN 0 ELSE g[b] - f[b])
    BY <1>4
  <2>4. CASE n + 1 = b
    BY <2>2, <2>3, <2>4
  <2>5. CASE n + 1 # b
    <3>1. g[n + 1] = f[n + 1]
      BY <2>1, <2>5
    <3>2. (n + 1 < b) <=> (n < b)
      BY <2>5 DEF Browsers
    <3>. QED
      BY <2>2, <2>3, <3>1, <3>2
  <2>. QED
    BY <2>4, <2>5
<1>5. MaxUsers \in S
  <2>1. MaxUsers \in Nat /\ MaxUsers \in 0 .. MaxUsers
    OBVIOUS
  <2>. HIDE DEF S
  <2>2. \A n \in 0 .. MaxUsers : n \in S
    BY <1>3, <1>4, <2>1, Induction
  <2>. QED
    BY <2>1, <2>2
<1>. QED
  BY <1>1, <1>2, <1>5 DEF Browsers

\* What holds of each browser holds of the sums.
LEMMA SumAtMost ==
    ASSUME NEW f \in [Browsers -> Int], NEW g \in [Browsers -> Int],
           NEW h \in [Browsers -> Int], \A b \in Browsers : f[b] =< g[b] + h[b]
    PROVE  Summed(f) =< Summed(g) + Summed(h)
<1>. USE BrowserAssumption
<1>1. PICK s : IsSum(s, f) /\ Summed(f) = s[MaxUsers]
  BY SummedIs
<1>2. PICK t : IsSum(t, g) /\ Summed(g) = t[MaxUsers]
  BY SummedIs
<1>3. PICK u : IsSum(u, h) /\ Summed(h) = u[MaxUsers]
  BY SummedIs
<1>. DEFINE S == {n \in Nat : s[n] =< t[n] + u[n]}
<1>4. 0 \in S
  BY <1>1, <1>2, <1>3 DEF IsSum
<1>5. ASSUME NEW n \in 0 .. MaxUsers - 1, n \in S PROVE n + 1 \in S
  <2>1. /\ n + 1 \in Browsers /\ n + 1 \in 1 .. MaxUsers /\ (n + 1) - 1 = n
        /\ n \in 0 .. MaxUsers
    BY DEF Browsers
  <2>2. /\ s[n + 1] = s[n] + f[n + 1] /\ t[n + 1] = t[n] + g[n + 1]
        /\ u[n + 1] = u[n] + h[n + 1]
        /\ s[n] \in Int /\ t[n] \in Int /\ u[n] \in Int
        /\ f[n + 1] \in Int /\ g[n + 1] \in Int /\ h[n + 1] \in Int
    BY <1>1, <1>2, <1>3, <2>1 DEF IsSum
  <2>3. s[n] =< t[n] + u[n] /\ f[n + 1] =< g[n + 1] + h[n + 1]
    BY <1>5, <2>1
  <2>4. \A a, d, e, i, j, k \in Int : a =< d + e /\ i =< j + k => a + i =< (d + j) + (e + k)
    OBVIOUS
  <2>5. s[n] + f[n + 1] =< (t[n] + g[n + 1]) + (u[n] + h[n + 1])
    BY <2>2, <2>3, <2>4
  <2>6. s[n + 1] =< t[n + 1] + u[n + 1]
    BY <2>2, <2>5, Zenon
  <2>. QED
    BY <2>6
<1>6. MaxUsers \in S
  <2>1. MaxUsers \in Nat /\ MaxUsers \in 0 .. MaxUsers
    OBVIOUS
  <2>. HIDE DEF S
  <2>2. \A n \in 0 .. MaxUsers : n \in S
    BY <1>4, <1>5, <2>1, Induction
  <2>. QED
    BY <2>1, <2>2
<1>. QED
  BY <1>1, <1>2, <1>3, <1>6

\* A sum of nothing is nothing.
LEMMA SumOfNone == Summed([b \in Browsers |-> 0]) = 0
<1>. USE BrowserAssumption
<1>. DEFINE f == [b \in Browsers |-> 0]
<1>1. f \in [Browsers -> Int] /\ \A b \in Browsers : f[b] =< f[b] + f[b] /\ f[b] = 0
  OBVIOUS
<1>. HIDE DEF f
<1>2. PICK s : IsSum(s, f) /\ Summed(f) = s[MaxUsers]
  BY <1>1, SummedIs
<1>. DEFINE S == {n \in Nat : s[n] = 0}
<1>3. 0 \in S
  BY <1>2 DEF IsSum
<1>4. ASSUME NEW n \in 0 .. MaxUsers - 1, n \in S PROVE n + 1 \in S
  <2>1. n + 1 \in Browsers /\ n + 1 \in 1 .. MaxUsers /\ (n + 1) - 1 = n
    BY DEF Browsers
  <2>2. s[n + 1] = s[n] + f[n + 1] /\ f[n + 1] = 0 /\ s[n] = 0
    BY <1>1, <1>2, <1>4, <2>1 DEF IsSum
  <2>. QED
    BY <2>2
<1>5. MaxUsers \in S
  <2>1. MaxUsers \in Nat /\ MaxUsers \in 0 .. MaxUsers
    OBVIOUS
  <2>. HIDE DEF S
  <2>2. \A n \in 0 .. MaxUsers : n \in S
    BY <1>3, <1>4, <2>1, Induction
  <2>. QED
    BY <2>1, <2>2
<1>. QED
  BY <1>2, <1>5 DEF f

-----------------------------------------------------------------------------
(* The inductive invariant.                                                *)

Reasons == {"login", "page", "part", "redirect", "answer", "site", "again"}
Places == {"start", "head", "send", "logins", "return", "parts", "done"}
Codes == {None, 200, 301, 401, 403, 404, 407, 500}

FrameOf == [why : Reasons, i : 0 .. AuthUrls]
LocalOf == [pc : Places, x : 0 .. Reps, stack : Seq(FrameOf), code : Codes,
            ret : BOOLEAN, parts : Nat, www : Nat, proxy : Nat]
StatsOf == [hits : Nat, code : Nat, okay : Nat, fail : Nat]
SeenOf == [tops : Nat, loops : Nat, late : Nat, answers : Nat, proxied : Nat]

Typed == /\ my \in [timed : BOOLEAN, users : 1 .. MaxUsers]
         /\ failed \in Nat /\ replies \in Nat /\ cancelled \subseteq Browsers
         /\ at \in [Browsers -> LocalOf] /\ stats \in [Browsers -> StatsOf]
         /\ seen \in [Browsers -> SeenOf]

\* A browser that waits for a request to return, and the reasons start() has for one.
Asking == {"send", "logins", "return"}
Tops == {"login", "page", "part"}

\* The stack of the requests under way, with one of start() at its bottom.
StackOK(l) ==
    /\ l.pc \in Asking => l.stack # << >> /\ l.stack[1].why \in Tops
    /\ l.pc \in {"start", "head", "parts"} => l.stack = << >>
    /\ \A n \in 2 .. Len(l.stack) :
         /\ l.stack[n].why \notin Tops
         /\ l.stack[n].why = "site" => l.stack[n - 1].i < AuthUrls
    /\ l.pc = "start" => l.x = 0
    /\ l.pc \in Asking \cup {"parts"} => l.x < Reps

\* What was answered to challenges was counted as a bid.
Bidding(b) ==
    /\ seen[b].answers =< at[b].www /\ seen[b].answers < Bids
    /\ seen[b].proxied =< at[b].proxy /\ seen[b].proxied < Bids
    /\ at[b].pc \in {"start", "head", "parts"} => seen[b].answers = 0

\* A pass that was begun too late is the last; and the passes are those of the loop.
Turns(b) ==
    /\ seen[b].late =< 1
    /\ seen[b].late = 1 => /\ failed >= Failures
                           /\ \/ at[b].pc \in {"parts", "done"}
                              \/ at[b].pc \in Asking /\ at[b].stack[1].why # "login"
    /\ b =< my.users /\ ~my.timed =>
         /\ at[b].pc = "start" => seen[b].loops = 0 /\ at[b].x = 0
         /\ at[b].pc = "head" => seen[b].loops = at[b].x
         /\ at[b].pc \in Asking =>
              seen[b].loops = IF at[b].stack[1].why = "login" THEN at[b].x ELSE at[b].x + 1
         /\ at[b].pc = "parts" => seen[b].loops = at[b].x + 1
         /\ at[b].pc = "done" => b \in cancelled \/ failed >= Failures \/ seen[b].loops = Reps

\* The requests under way that will be hits when what they needed succeeds.
Owing(stack) == {n \in 1 .. Len(stack) : stack[n].why \in {"redirect", "answer"}}

Classed(b) ==
    /\ stats[b].hits + Cardinality(Owing(at[b].stack)) =< stats[b].code + stats[b].fail
    /\ stats[b].okay =< stats[b].code

\* How many more requests of b start() counted, or is about to, than b has hits.
Unmatched(b) == seen[b].tops + One(at[b].pc = "return" /\ at[b].ret) - stats[b].hits
Counted ==
    /\ Summed([b \in Browsers |-> Unmatched(b)]) =< failed
    /\ Total("code") + Total("fail") =< replies

BInv == /\ Typed /\ Counted
        /\ \A b \in Browsers : StackOK(at[b]) /\ Bidding(b) /\ Turns(b) /\ Classed(b)

-----------------------------------------------------------------------------
(* Stacks of requests.                                                     *)

\* What is true of every stack, and of that of a browser that asks for something.
Stacked(stack) == \A n \in 2 .. Len(stack) :
                     /\ stack[n].why \notin Tops
                     /\ stack[n].why = "site" => stack[n - 1].i < AuthUrls
Bottomed(stack) == stack # << >> /\ stack[1].why \in Tops

LEMMA OwingIsFinite ==
    ASSUME NEW stack \in Seq(FrameOf)
    PROVE  IsFiniteSet(Owing(stack)) /\ Cardinality(Owing(stack)) \in Nat
<1>1. IsFiniteSet(1 .. Len(stack))
  BY FS_Interval
<1>2. Owing(stack) \subseteq 1 .. Len(stack)
  BY DEF Owing
<1>. QED
  BY <1>1, <1>2, FS_Subset, FS_CardinalityType

\* A request that calls for another.
LEMMA Pushed ==
    ASSUME NEW stack \in Seq(FrameOf), Stacked(stack),
           NEW why \in Reasons,
           why \in Tops <=> stack = << >>,
           stack # << >> => stack[1].why \in Tops,
           why = "site" => stack[Len(stack)].i < AuthUrls
    PROVE  LET new == Append(stack, Frame(why)) IN
           /\ new \in Seq(FrameOf) /\ Stacked(new) /\ Bottomed(new)
           /\ Len(new) = Len(stack) + 1 /\ new[Len(new)].why = why
           /\ stack = << >> => new[1].why = why
           /\ stack # << >> => new[1] = stack[1]
           /\ Cardinality(Owing(new))
                = Cardinality(Owing(stack)) + One(why \in {"redirect", "answer"})
<1>. DEFINE f == [why |-> why, i |-> 0]
            new == Append(stack, f)
            n == Len(stack)
<1>1. Frame(why) = f /\ f \in FrameOf /\ f.why = why
  <2>1. 0 \in 0 .. AuthUrls
    BY BrowserAssumption
  <2>. QED
    BY <2>1 DEF Frame, FrameOf
<1>. HIDE DEF f
<1>2. /\ new \in Seq(FrameOf) /\ Len(new) = n + 1 /\ n \in Nat /\ new[n + 1] = f
      /\ \A k \in 1 .. n : new[k] = stack[k]
  BY <1>1
<1>. HIDE DEF new
<1>3. stack = << >> <=> n = 0
  OBVIOUS
<1>. HIDE DEF n
<1>4. Stacked(new)
  <2>. SUFFICES ASSUME NEW k \in 2 .. Len(new)
                PROVE  /\ new[k].why \notin Tops
                       /\ new[k].why = "site" => new[k - 1].i < AuthUrls
    BY DEF Stacked
  <2>1. CASE k = n + 1
    BY <1>1, <1>2, <1>3, <2>1 DEF n
  <2>2. CASE k # n + 1
    BY <1>2, <2>2 DEF Stacked, n
  <2>. QED
    BY <2>1, <2>2
<1>5. Bottomed(new) /\ (n = 0 => new[1].why = why) /\ (n # 0 => new[1] = stack[1])
  BY <1>1, <1>2, <1>3 DEF Bottomed, Tops
<1>6. IsFiniteSet(Owing(stack)) /\ Cardinality(Owing(stack)) \in Nat
  BY OwingIsFinite
<1>7. Cardinality(Owing(new))
        = Cardinality(Owing(stack)) + One(why \in {"redirect", "answer"})
  <2>1. CASE why \in {"redirect", "answer"}
    <3>1. Owing(new) = Owing(stack) \cup {n + 1} /\ n + 1 \notin Owing(stack)
      BY <1>1, <1>2, <2>1 DEF Owing, n
    <3>. QED
      BY <1>6, <2>1, <3>1, FS_AddElement DEF One
  <2>2. CASE why \notin {"redirect", "answer"}
    <3>1. Owing(new) = Owing(stack)
      BY <1>1, <1>2, <2>2 DEF Owing, n
    <3>. QED
      BY <1>6, <2>2, <3>1 DEF One
  <2>. QED
    BY <2>1, <2>2
<1>. QED
  BY <1>1, <1>2, <1>3, <1>4, <1>5, <1>7 DEF new, n

\* A request that is over.
LEMMA Popped ==
    ASSUME NEW stack \in Seq(FrameOf), Stacked(stack), Bottomed(stack)
    PROVE  /\ Front(stack) \in Seq(FrameOf) /\ Stacked(Front(stack))
           /\ Len(Front(stack)) = Len(stack) - 1
           /\ Last(stack) = stack[Len(stack)] /\ Last(stack) \in FrameOf
           /\ Last(stack).why \in Tops => Front(stack) = << >> /\ Last(stack) = stack[1]
           /\ Last(stack).why \notin Tops =>
                Bottomed(Front(stack)) /\ Front(stack)[1] = stack[1]
           /\ Last(stack).why = "site" => Front(stack)[Len(Front(stack))].i < AuthUrls
           /\ Cardinality(Owing(stack))
                = Cardinality(Owing(Front(stack))) + One(Last(stack).why \in {"redirect", "answer"})
<1>. DEFINE n == Len(stack)
            new == Front(stack)
<1>1. n \in Nat \ {0} /\ Last(stack) = stack[n] /\ stack[n] \in FrameOf
  BY DEF Bottomed, Last
<1>2. /\ new \in Seq(FrameOf) /\ Len(new) = n - 1
      /\ \A k \in 1 .. n - 1 : new[k] = stack[k]
  <2>1. new = SubSeq(stack, 1, n - 1)
    BY DEF Front
  <2>2. n - 1 \in 0 .. Len(stack) /\ n - 1 \in Nat /\ 1 \in 1 .. Len(stack)
    BY <1>1
  <2>. HIDE DEF new, n
  <2>3. Len(new) = n - 1 /\ \A k \in 1 .. n - 1 : new[k] = stack[k]
    BY <2>1, <2>2
  <2>4. new \in Seq(FrameOf)
    BY <2>1, <2>2
  <2>. QED
    BY <2>3, <2>4
<1>3. n - 1 = 0 <=> new = << >>
  BY <1>2
<1>. HIDE DEF n, new
<1>4. stack[n].why \in Tops <=> n = 1
  <2>1. CASE n = 1
    BY <2>1 DEF Bottomed
  <2>2. CASE n # 1
    <3>1. n \in 2 .. n
      BY <1>1, <2>2
    <3>2. n = Len(stack)
      BY DEF n
    <3>. QED
      BY <2>2, <3>1, <3>2 DEF Stacked
  <2>. QED
    BY <2>1, <2>2
<1>5. Stacked(new)
  BY <1>1, <1>2 DEF Stacked, n
<1>6. n # 1 => Bottomed(new) /\ new[1] = stack[1]
  BY <1>1, <1>2, <1>3 DEF Bottomed
<1>7. stack[n].why = "site" => new[n - 1].i < AuthUrls
  <2>1. stack[n].why = "site" => n # 1
    BY <1>4 DEF Tops
  <2>. QED
    BY <1>1, <1>2, <2>1 DEF Stacked, n
<1>8. IsFiniteSet(Owing(new)) /\ Cardinality(Owing(new)) \in Nat
  BY <1>2, OwingIsFinite
<1>9. Cardinality(Owing(stack))
        = Cardinality(Owing(new)) + One(stack[n].why \in {"redirect", "answer"})
  <2>1. CASE stack[n].why \in {"redirect", "answer"}
    <3>1. Owing(stack) = Owing(new) \cup {n} /\ n \notin Owing(new)
      BY <1>1, <1>2, <2>1 DEF Owing, n
    <3>. QED
      BY <1>8, <2>1, <3>1, FS_AddElement DEF One
  <2>2. CASE stack[n].why \notin {"redirect", "answer"}
    <3>1. Owing(stack) = Owing(new)
      BY <1>1, <1>2, <2>2 DEF Owing, n
    <3>. QED
      BY <1>8, <2>2, <3>1 DEF One
  <2>. QED
    BY <2>1, <2>2
<1>. QED
  BY <1>1, <1>2, <1>3, <1>4, <1>5, <1>6, <1>7, <1>9 DEF n, new

\* A forbidden request goes on to the next login.
LEMMA Passed ==
    ASSUME NEW stack \in Seq(FrameOf), Stacked(stack), Bottomed(stack),
           stack[Len(stack)].i < AuthUrls
    PROVE  LET new == PassedOver(stack) IN
           /\ new \in Seq(FrameOf) /\ Stacked(new) /\ Bottomed(new)
           /\ new[1].why = stack[1].why
           /\ Cardinality(Owing(new)) = Cardinality(Owing(stack))
<1>. DEFINE n == Len(stack)
            f == [stack[n] EXCEPT !.i = @ + 1]
            new == [stack EXCEPT ![n] = f]
<1>1. n \in Nat \ {0} /\ stack[n] \in FrameOf
  BY DEF Bottomed
<1>2. f \in FrameOf /\ f.why = stack[n].why
  <2>1. stack[n].i + 1 \in 0 .. AuthUrls
    BY <1>1, BrowserAssumption DEF FrameOf
  <2>. HIDE DEF n
  <2>. QED
    BY <1>1, <2>1 DEF FrameOf
<1>3. PassedOver(stack) = new
  BY DEF PassedOver
<1>. HIDE DEF f
<1>4. /\ new \in Seq(FrameOf) /\ Len(new) = n /\ new[n] = f
      /\ \A k \in 1 .. n : k # n => new[k] = stack[k]
  BY <1>1, <1>2
<1>. HIDE DEF new, n
<1>5. \A k \in 1 .. n : new[k].why = stack[k].why
  BY <1>1, <1>2, <1>4
<1>6. Stacked(new)
  BY <1>1, <1>4, <1>5 DEF Stacked, n
<1>7. Bottomed(new) /\ new[1].why = stack[1].why
  BY <1>1, <1>4, <1>5 DEF Bottomed
<1>8. Owing(new) = Owing(stack)
  BY <1>4, <1>5 DEF Owing, n
<1>. QED
  BY <1>3, <1>4, <1>6, <1>7, <1>8

-----------------------------------------------------------------------------
(* What a step of browser b leaves to the others.                          *)

OnlySteps(b) ==
    /\ my' = my /\ failed' \in Nat /\ failed' >= failed /\ replies' \in Nat
    /\ cancelled \subseteq cancelled' /\ cancelled' \subseteq Browsers
    /\ at' \in [Browsers -> LocalOf] /\ stats' \in [Browsers -> StatsOf]
    /\ seen' \in [Browsers -> SeenOf]
    /\ \A c \in Browsers \ {b} : at'[c] = at[c] /\ stats'[c] = stats[c] /\ seen'[c] = seen[c]

\* What is known of the browser that takes a step.
LEMMA Own ==
    ASSUME BInv, NEW b \in Browsers
    PROVE  /\ Typed /\ at[b] \in LocalOf /\ stats[b] \in StatsOf /\ seen[b] \in SeenOf
           /\ StackOK(at[b]) /\ Bidding(b) /\ Turns(b) /\ Classed(b)
           /\ at[b].stack \in Seq(FrameOf) /\ Stacked(at[b].stack)
           /\ at[b].pc \in Asking => Bottomed(at[b].stack)
  BY DEF BInv, Typed, StackOK, Stacked, Bottomed, LocalOf

\* So it is enough to look at b, and at what it adds to the sums.
LEMMA OthersHold ==
    ASSUME BInv, NEW b \in Browsers, OnlySteps(b), NEW c \in Browsers \ {b}
    PROVE  StackOK(at'[c]) /\ Bidding(c)' /\ Turns(c)' /\ Classed(c)'
<1>. USE Own DEF OnlySteps
<1>1. at'[c] = at[c] /\ stats'[c] = stats[c] /\ seen'[c] = seen[c]
  OBVIOUS
<1>2. StackOK(at'[c])
  BY <1>1
<1>3. Bidding(c)'
  BY <1>1 DEF Bidding
<1>4. Turns(c)'
  BY <1>1, BrowserAssumption DEF Turns, Typed
<1>5. Classed(c)'
  BY <1>1 DEF Classed
<1>. QED
  BY <1>2, <1>3, <1>4, <1>5

LEMMA OwnSuffices ==
    ASSUME BInv, NEW b \in Browsers, OnlySteps(b),
           StackOK(at'[b]), Bidding(b)', Turns(b)', Classed(b)',
           Unmatched(b)' - Unmatched(b) =< failed' - failed,
           (stats'[b].code + stats'[b].fail) - (stats[b].code + stats[b].fail)
             =< replies' - replies
    PROVE  BInv'
<1>1. Typed'
  BY DEF BInv, Typed, OnlySteps
<1>2. \A c \in Browsers : StackOK(at'[c]) /\ Bidding(c)' /\ Turns(c)' /\ Classed(c)'
  BY OthersHold
<1>3. Typed /\ Counted
  BY DEF BInv
<1>4. Summed([c \in Browsers |-> Unmatched(c)])' =< failed'
  <2>. DEFINE f == [c \in Browsers |-> Unmatched(c)]
              g == [c \in Browsers |-> Unmatched(c)']
  <2>1. \A c \in Browsers : Unmatched(c) \in Int /\ Unmatched(c)' \in Int
    BY <1>1, <1>3 DEF Typed, Unmatched, One, StatsOf, SeenOf
  <2>2. f \in [Browsers -> Int] /\ g \in [Browsers -> Int]
    BY <2>1
  <2>3. \A c \in Browsers \ {b} : g[c] = f[c]
    BY DEF OnlySteps, Unmatched
  <2>4. Summed(g) = Summed(f) + (Unmatched(b)' - Unmatched(b))
    <3>1. Summed(g) = Summed(f) + (g[b] - f[b])
      <4>. HIDE DEF f, g
      <4>. QED
        BY <2>2, <2>3, SumMoves
    <3>. QED
      BY <3>1
  <2>5. Summed(f) \in Int /\ Summed(f) =< failed
    <3>1. Summed(f) =< failed
      BY <1>3 DEF Counted
    <3>. HIDE DEF f
    <3>. QED
      BY <2>2, <3>1, SumIsInt
  <2>6. Summed(g) =< failed'
    <3>. HIDE DEF f, g
    <3>. QED
      BY <1>3, <2>1, <2>4, <2>5 DEF OnlySteps, Typed
  <2>. QED
    BY <2>6 DEF Summed
<1>5. (Total("code") + Total("fail") =< replies)'
  <2>. DEFINE f(field) == [c \in Browsers |-> stats[c][field]]
              g(field) == [c \in Browsers |-> stats'[c][field]]
  <2>1. \A c \in Browsers :
          /\ stats[c].code \in Int /\ stats[c].fail \in Int
          /\ stats'[c].code \in Int /\ stats'[c].fail \in Int
    BY <1>1, <1>3 DEF Typed, StatsOf
  <2>2. ASSUME NEW field \in {"code", "fail"}
        PROVE  /\ Summed(g(field)) = Summed(f(field)) + (stats'[b][field] - stats[b][field])
               /\ Summed(f(field)) \in Int
    <3>1. f(field) \in [Browsers -> Int] /\ g(field) \in [Browsers -> Int]
      BY <2>1
    <3>2. \A c \in Browsers \ {b} : g(field)[c] = f(field)[c]
      BY DEF OnlySteps
    <3>3. Summed(g(field)) = Summed(f(field)) + (g(field)[b] - f(field)[b])
      <4>. HIDE DEF f, g
      <4>. QED
        BY <3>1, <3>2, SumMoves
    <3>4. Summed(f(field)) \in Int
      <4>. HIDE DEF f, g
      <4>. QED
        BY <3>1, SumIsInt
    <3>. QED
      BY <3>3, <3>4
  <2>3. Summed(f("code")) + Summed(f("fail")) =< replies
    BY <1>3 DEF Counted, Total
  <2>4. Summed(g("code")) + Summed(g("fail")) =< replies'
    <3>1. /\ Summed(g("code")) = Summed(f("code")) + (stats'[b].code - stats[b].code)
          /\ Summed(g("fail")) = Summed(f("fail")) + (stats'[b].fail - stats[b].fail)
          /\ Summed(f("code")) \in Int /\ Summed(f("fail")) \in Int
      BY <2>2
    <3>. HIDE DEF f, g
    <3>. QED
      BY <1>1, <1>3, <2>1, <2>3, <3>1 DEF Typed
  <2>. QED
    BY <2>4 DEF Total, Summed
<1>. QED
  BY <1>1, <1>2, <1>4, <1>5 DEF BInv, Counted

-----------------------------------------------------------------------------
(* Where a step takes browser b, and with which counters and history.      *)

Takes(b, local, count, did) ==
    /\ at' = [at EXCEPT ![b] = local]
    /\ stats' = [stats EXCEPT ![b] = count] /\ seen' = [seen EXCEPT ![b] = did]

LEMMA TakesOnly ==
    ASSUME BInv, NEW b \in Browsers, NEW local \in LocalOf, NEW count \in StatsOf,
           NEW did \in SeenOf, Takes(b, local, count, did), my' = my,
           failed' \in Nat, failed' >= failed, replies' \in Nat,
           cancelled \subseteq cancelled', cancelled' \subseteq Browsers
    PROVE  OnlySteps(b) /\ at'[b] = local /\ stats'[b] = count /\ seen'[b] = did
  BY DEF BInv, Typed, OnlySteps, Takes

\* The local state of a browser that asks for something, or has an answer.
LEMMA RequestingIs ==
    ASSUME BInv, NEW b \in Browsers,
           NEW why \in Reasons,
           why \in Tops <=> at[b].stack = << >>,
           at[b].stack # << >> => Bottomed(at[b].stack),
           why = "site" => Top(b).i < AuthUrls
    PROVE  LET l == Requesting(b, why) IN
           /\ l \in LocalOf /\ l.pc = "send" /\ l.x = at[b].x /\ l.code = at[b].code
           /\ l.parts = at[b].parts /\ l.www = at[b].www /\ l.proxy = at[b].proxy
           /\ Stacked(l.stack) /\ Bottomed(l.stack)
           /\ at[b].stack = << >> => l.stack[1].why = why
           /\ at[b].stack # << >> => l.stack[1] = at[b].stack[1]
           /\ Cardinality(Owing(l.stack))
                = Cardinality(Owing(at[b].stack)) + One(why \in {"redirect", "answer"})
<1>. DEFINE s == at[b].stack
            new == Append(s, Frame(why))
<1>1. at[b] \in LocalOf /\ s \in Seq(FrameOf) /\ Stacked(s)
  BY Own
<1>2. why = "site" => s[Len(s)].i < AuthUrls
  BY DEF Top, Last
<1>3. /\ s # << >> => s[1].why \in Tops
      /\ why \in Tops <=> s = << >>
  BY DEF Bottomed
<1>4. /\ new \in Seq(FrameOf) /\ Stacked(new) /\ Bottomed(new)
      /\ s = << >> => new[1].why = why
      /\ s # << >> => new[1] = s[1]
      /\ Cardinality(Owing(new)) = Cardinality(Owing(s)) + One(why \in {"redirect", "answer"})
  <2>. HIDE DEF s
  <2>. QED
    BY <1>1, <1>2, <1>3, Pushed
<1>5. Requesting(b, why) = [at[b] EXCEPT !.pc = "send", !.stack = new]
  BY DEF Requesting
<1>. HIDE DEF new
<1>6. PICK r \in LocalOf : r = at[b]
  BY <1>1
<1>7. PICK l : l = [r EXCEPT !.pc = "send", !.stack = new]
  OBVIOUS
<1>8. /\ l \in LocalOf /\ l.pc = "send" /\ l.stack = new /\ l.x = r.x /\ l.code = r.code
      /\ l.parts = r.parts /\ l.www = r.www /\ l.proxy = r.proxy
  <2>1. new \in Seq(FrameOf)
    BY <1>4
  <2>2. "send" \in Places
    BY DEF Places
  <2>3. PICK k : k = [r EXCEPT !.pc = "send"]
    OBVIOUS
  <2>4. l = [k EXCEPT !.stack = new]
    BY <1>7, <2>3
  <2>5. /\ k \in LocalOf /\ k.pc = "send" /\ k.x = r.x /\ k.code = r.code
        /\ k.parts = r.parts /\ k.www = r.www /\ k.proxy = r.proxy
    BY <2>2, <2>3 DEF LocalOf
  <2>. QED
    BY <2>1, <2>4, <2>5 DEF LocalOf
<1>. QED
  BY <1>4, <1>5, <1>6, <1>7, <1>8

LEMMA ReturningIs ==
    ASSUME BInv, NEW b \in Browsers, NEW value \in BOOLEAN,
           NEW code \in Codes
    PROVE  LET l == Returning(b, value, code) IN
           /\ l \in LocalOf /\ l.pc = "return" /\ l.x = at[b].x /\ l.stack = at[b].stack
           /\ l.parts = at[b].parts /\ l.www = at[b].www /\ l.proxy = at[b].proxy
           /\ l.ret <=> value
<1>1. PICK r \in LocalOf : r = at[b]
  BY Own
<1>2. PICK l : l = [r EXCEPT !.pc = "return", !.ret = value, !.code = code]
  OBVIOUS
<1>3. /\ l \in LocalOf /\ l.pc = "return" /\ l.x = r.x /\ l.stack = r.stack
      /\ l.parts = r.parts /\ l.www = r.www /\ l.proxy = r.proxy /\ l.ret = value
  <2>1. PICK k : k = [r EXCEPT !.pc = "return"]
    OBVIOUS
  <2>2. PICK m : m = [k EXCEPT !.ret = value]
    OBVIOUS
  <2>3. /\ k \in LocalOf /\ k.pc = "return" /\ k.x = r.x /\ k.stack = r.stack
        /\ k.parts = r.parts /\ k.www = r.www /\ k.proxy = r.proxy
    <3>1. "return" \in Places
      BY DEF Places
    <3>. QED
      BY <2>1, <3>1 DEF LocalOf
  <2>4. /\ m \in LocalOf /\ m.pc = "return" /\ m.x = r.x /\ m.stack = r.stack
        /\ m.parts = r.parts /\ m.www = r.www /\ m.proxy = r.proxy /\ m.ret = value
    BY <2>2, <2>3 DEF LocalOf
  <2>5. l = [m EXCEPT !.code = code]
    BY <1>2, <2>1, <2>2
  <2>. QED
    BY <2>4, <2>5 DEF LocalOf
<1>. QED
  BY <1>1, <1>2, <1>3 DEF Returning

LEMMA Succeeds ==
    ASSUME BInv, NEW b \in Browsers, NEW code \in Codes
    PROVE  \E l \in LocalOf :
             /\ l = Returning(b, TRUE, code)
             /\ l.pc = "return" /\ l.x = at[b].x /\ l.stack = at[b].stack
             /\ l.www = at[b].www /\ l.proxy = at[b].proxy
  BY ReturningIs

LEMMA Fails ==
    ASSUME BInv, NEW b \in Browsers, NEW code \in Codes
    PROVE  \E l \in LocalOf :
             /\ l = Returning(b, FALSE, code)
             /\ l.pc = "return" /\ l.x = at[b].x /\ l.stack = at[b].stack
             /\ l.www = at[b].www /\ l.proxy = at[b].proxy /\ ~l.ret
  BY ReturningIs

LEMMA GoneTo ==
    ASSUME BInv, NEW b \in Browsers, NEW pc \in Places, Goto(b, pc)
    PROVE  \E l \in LocalOf :
             /\ at' = [at EXCEPT ![b] = l]
             /\ l.pc = pc /\ l.x = at[b].x /\ l.stack = at[b].stack
             /\ l.parts = at[b].parts /\ l.www = at[b].www /\ l.proxy = at[b].proxy
<1>1. PICK r \in LocalOf : r = at[b]
  BY Own
<1>2. PICK l : l = [r EXCEPT !.pc = pc]
  OBVIOUS
<1>3. /\ l \in LocalOf /\ l.pc = pc /\ l.x = r.x /\ l.stack = r.stack
      /\ l.parts = r.parts /\ l.www = r.www /\ l.proxy = r.proxy
  BY <1>2 DEF LocalOf
<1>4. at' = [at EXCEPT ![b] = l]
  BY <1>1, <1>2 DEF Goto
<1>. QED
  BY <1>1, <1>3, <1>4

\* A step that no statistics tell of.
LEMMA Quiet ==
    ASSUME BInv, NEW b \in Browsers, NEW l \in LocalOf, at' = [at EXCEPT ![b] = l],
           UNCHANGED <<my, failed, cancelled, stats, replies>>,
           seen' \in [Browsers -> SeenOf], \A c \in Browsers \ {b} : seen'[c] = seen[c],
           seen'[b].tops = seen[b].tops, StackOK(l), at[b].pc # "return", l.pc = "return" => ~l.ret,
           Cardinality(Owing(l.stack)) = Cardinality(Owing(at[b].stack)),
           Bidding(b)', Turns(b)'
    PROVE  BInv'
<1>. USE Own
<1>1. OnlySteps(b) /\ at'[b] = l
  BY DEF Typed, OnlySteps
<1>2. Classed(b)'
  BY <1>1 DEF Classed
<1>3. Unmatched(b)' - Unmatched(b) =< failed' - failed
  <2>1. Unmatched(b)' = Unmatched(b)
    BY <1>1 DEF Unmatched, One
  <2>2. Unmatched(b) \in Int /\ failed \in Int
    <3>1. seen[b].tops \in Nat /\ stats[b].hits \in Nat /\ failed \in Nat
      BY DEF Typed, StatsOf, SeenOf
    <3>. QED
      BY <3>1 DEF Unmatched, One
  <2>. QED
    BY <2>1, <2>2
<1>4. (stats'[b].code + stats'[b].fail) - (stats[b].code + stats[b].fail)
        =< replies' - replies
  BY DEF Typed, StatsOf
<1>. QED
  BY <1>1, <1>2, <1>3, <1>4, OwnSuffices

LEMMA StartStep == ASSUME BInv, NEW b \in Browsers, Start(b) PROVE BInv'
<1>. USE Own
<1>1. at[b].pc = "start" /\ at[b].stack = << >>
  BY DEF Start, At, StackOK
<1>2. CASE Goto(b, "head")
  <2>1. PICK l \in LocalOf :
          /\ at' = [at EXCEPT ![b] = l] /\ l.pc = "head"
          /\ l.x = at[b].x /\ l.stack = at[b].stack
          /\ l.www = at[b].www /\ l.proxy = at[b].proxy
    <3>1. "head" \in Places
      BY DEF Places
    <3>. QED
      BY <1>2, <3>1, GoneTo
  <2>2. at'[b] = l
    BY <2>1 DEF Typed
  <2>3. StackOK(l)
    BY <1>1, <2>1 DEF StackOK, Asking
  <2>4. Bidding(b)'
    BY <1>1, <2>1, <2>2 DEF Start, Bidding
  <2>5. Turns(b)'
    BY <1>1, <2>1, <2>2 DEF Start, Turns, Asking
  <2>. QED
    BY <1>1, <2>1, <2>3, <2>4, <2>5, Quiet DEF Start, Typed
<1>3. CASE at' = [at EXCEPT ![b] = Requesting(b, "login")]
  <2>1. PICK l \in LocalOf :
          /\ l = Requesting(b, "login") /\ l.pc = "send" /\ l.x = at[b].x
          /\ l.www = at[b].www /\ l.proxy = at[b].proxy
          /\ Stacked(l.stack) /\ Bottomed(l.stack) /\ l.stack[1].why = "login"
          /\ Cardinality(Owing(l.stack)) = Cardinality(Owing(at[b].stack))
    BY <1>1, RequestingIs, OwingIsFinite DEF Reasons, Tops, One
  <2>2. at'[b] = l /\ at' = [at EXCEPT ![b] = l]
    BY <1>3, <2>1 DEF Typed
  <2>3. l.x < Reps
    BY <1>1, <2>1, BrowserAssumption DEF StackOK
  <2>4. StackOK(l)
    BY <1>1, <2>1, <2>3 DEF StackOK, Asking, Stacked, Bottomed
  <2>5. Bidding(b)'
    BY <1>1, <2>1, <2>2 DEF Start, Bidding
  <2>6. Turns(b)'
    BY <1>1, <2>1, <2>2 DEF Start, Turns, Asking
  <2>. QED
    BY <1>1, <2>1, <2>2, <2>4, <2>5, <2>6, Quiet DEF Start, Typed
<1>. QED
  BY <1>2, <1>3 DEF Start

\* A pass that begins: what the history says of it.
LEMMA PassBegun ==
    ASSUME BInv, NEW b \in Browsers, NextPass(b)
    PROVE  /\ seen' \in [Browsers -> SeenOf] /\ \A c \in Browsers \ {b} : seen'[c] = seen[c]
           /\ seen'[b].tops = seen[b].tops /\ seen'[b].answers = seen[b].answers
           /\ seen'[b].proxied = seen[b].proxied
           /\ seen'[b].loops = IF my.timed THEN seen[b].loops ELSE seen[b].loops + 1
           /\ seen'[b].late = IF failed >= Failures THEN seen[b].late + 1 ELSE seen[b].late
<1>1. PICK r \in SeenOf : r = seen[b]
  BY Own
<1>. DEFINE n == IF my.timed THEN r.loops ELSE r.loops + 1
            m == IF failed >= Failures THEN r.late + 1 ELSE r.late
<1>2. n \in Nat /\ m \in Nat
  BY DEF SeenOf
<1>3. PICK k : k = [r EXCEPT !.loops = n]
  OBVIOUS
<1>4. PICK did : did = [k EXCEPT !.late = m]
  OBVIOUS
<1>5. seen' = [seen EXCEPT ![b] = did]
  <2>1. seen \in [Browsers -> SeenOf]
    BY Own DEF Typed
  <2>2. k.late = r.late
    BY <1>3 DEF SeenOf
  <2>. QED
    BY <1>1, <1>3, <1>4, <2>1, <2>2 DEF NextPass
<1>. HIDE DEF n, m
<1>6. /\ k \in SeenOf /\ k.tops = r.tops /\ k.answers = r.answers /\ k.proxied = r.proxied
      /\ k.loops = n
  BY <1>2, <1>3 DEF SeenOf
<1>7. /\ did \in SeenOf /\ did.tops = r.tops /\ did.answers = r.answers
      /\ did.proxied = r.proxied /\ did.loops = n /\ did.late = m
  BY <1>2, <1>4, <1>6 DEF SeenOf
<1>. QED
  BY <1>1, <1>5, <1>7, Own DEF Typed, n, m

LEMMA NextPassStep == ASSUME BInv, NEW b \in Browsers, NextPass(b) PROVE BInv'
<1>. USE Own
<1>1. at[b].pc = "head" /\ at[b].stack = << >> /\ at[b].x < Reps
  BY DEF NextPass, At, StackOK, More
<1>. DEFINE x == IF my.timed THEN 0 ELSE at[b].x
<1>2. x \in 0 .. Reps /\ x < Reps /\ (~my.timed => x = at[b].x)
  BY <1>1, BrowserAssumption DEF LocalOf
<1>3. /\ seen' \in [Browsers -> SeenOf] /\ \A c \in Browsers \ {b} : seen'[c] = seen[c]
      /\ seen'[b].tops = seen[b].tops /\ seen'[b].answers = seen[b].answers
      /\ seen'[b].proxied = seen[b].proxied
      /\ seen'[b].loops = IF my.timed THEN seen[b].loops ELSE seen[b].loops + 1
      /\ seen'[b].late = IF failed >= Failures THEN seen[b].late + 1 ELSE seen[b].late
  BY PassBegun
<1>4. /\ seen'[b].late =< 1
      /\ seen'[b].late = 1 => failed >= Failures
      /\ seen[b].loops \in Nat
  <2>1. seen[b].late \in Nat /\ seen[b].loops \in Nat
    BY DEF SeenOf
  <2>2. seen[b].late =< 1 /\ seen[b].late # 1
    BY <1>1 DEF Turns, Asking
  <2>. QED
    BY <1>3, <2>1, <2>2
<1>5. CASE at' = [at EXCEPT ![b] = [Requesting(b, "page") EXCEPT !.x = x, !.www = 0]]
  <2>. HIDE DEF x
  <2>1. PICK r \in LocalOf :
          /\ r = Requesting(b, "page") /\ r.pc = "send" /\ r.proxy = at[b].proxy
          /\ Stacked(r.stack) /\ Bottomed(r.stack) /\ r.stack[1].why = "page"
          /\ Cardinality(Owing(r.stack)) = Cardinality(Owing(at[b].stack))
    BY <1>1, RequestingIs, OwingIsFinite DEF Reasons, Tops, One
  <2>2. PICK k : k = [r EXCEPT !.x = x]
    OBVIOUS
  <2>3. PICK l : l = [k EXCEPT !.www = 0]
    OBVIOUS
  <2>4. k \in LocalOf /\ k.pc = "send" /\ k.proxy = r.proxy /\ k.x = x /\ k.stack = r.stack
    BY <1>2, <2>1, <2>2 DEF LocalOf
  <2>5. /\ l \in LocalOf /\ l.pc = "send" /\ l.proxy = r.proxy /\ l.x = x
        /\ l.stack = r.stack /\ l.www = 0
    BY <2>3, <2>4 DEF LocalOf
  <2>6. at' = [at EXCEPT ![b] = l]
    BY <1>5, <2>1, <2>2, <2>3
  <2>7. at'[b] = l
    BY <2>6 DEF Typed
  <2>8. StackOK(l)
    BY <1>2, <2>1, <2>5 DEF StackOK, Asking, Stacked, Bottomed
  <2>9. Bidding(b)'
    BY <1>1, <1>3, <2>1, <2>5, <2>7 DEF Bidding
  <2>10. Turns(b)'
    <3>1. at[b].pc = "head" /\ my' = my /\ failed' = failed /\ cancelled' = cancelled
      BY <1>1 DEF NextPass
    <3>2. at'[b].pc = "send" /\ at'[b].stack[1].why = "page" /\ at'[b].x = x
      BY <2>1, <2>5, <2>7
    <3>. QED
      BY <1>2, <1>3, <1>4, <3>1, <3>2 DEF Turns, Asking
  <2>. QED
    BY <1>1, <1>3, <2>1, <2>5, <2>6, <2>8, <2>9, <2>10, Quiet DEF NextPass
<1>6. CASE at' = [at EXCEPT ![b].pc = "parts", ![b].x = x]
  <2>. HIDE DEF x
  <2>1. PICK r \in LocalOf : r = at[b]
    OBVIOUS
  <2>2. PICK k : k = [r EXCEPT !.pc = "parts"]
    OBVIOUS
  <2>3. PICK l : l = [k EXCEPT !.x = x]
    OBVIOUS
  <2>4. /\ k \in LocalOf /\ k.pc = "parts" /\ k.proxy = r.proxy /\ k.www = r.www
        /\ k.stack = r.stack
    <3>1. "parts" \in Places
      BY DEF Places
    <3>. QED
      BY <2>2, <3>1 DEF LocalOf
  <2>5. /\ l \in LocalOf /\ l.pc = "parts" /\ l.proxy = r.proxy /\ l.x = x
        /\ l.stack = r.stack /\ l.www = r.www
    BY <1>2, <2>3, <2>4 DEF LocalOf
  <2>6. at' = [at EXCEPT ![b] = l]
    BY <1>6, <2>1, <2>2, <2>3 DEF Typed
  <2>7. at'[b] = l
    BY <2>6 DEF Typed
  <2>8. StackOK(l)
    BY <1>1, <1>2, <2>1, <2>5 DEF StackOK, Asking
  <2>9. Bidding(b)'
    BY <1>1, <1>3, <2>1, <2>5, <2>7 DEF Bidding
  <2>10. Turns(b)'
    <3>1. at[b].pc = "head" /\ my' = my /\ failed' = failed /\ cancelled' = cancelled
      BY <1>1 DEF NextPass
    <3>2. at'[b].pc = "parts" /\ at'[b].x = x
      BY <2>5, <2>7
    <3>. QED
      BY <1>2, <1>3, <1>4, <3>1, <3>2 DEF Turns, Asking
  <2>. QED
    BY <1>1, <1>3, <2>1, <2>5, <2>6, <2>8, <2>9, <2>10, Quiet DEF NextPass
<1>. QED
  BY <1>5, <1>6 DEF NextPass

LEMMA PopPartStep == ASSUME BInv, NEW b \in Browsers, PopPart(b) PROVE BInv'
<1>. USE Own
<1>1. /\ at[b].pc = "parts" /\ at[b].stack = << >> /\ at[b].x < Reps
      /\ at[b].parts - 1 \in Nat
  BY DEF PopPart, At, StackOK, LocalOf
<1>. DEFINE n == at[b].parts - 1
<1>2. n \in Nat
  BY <1>1
<1>3. CASE at' = [at EXCEPT ![b].parts = @ - 1]
  <2>1. PICK r \in LocalOf : r = at[b]
    OBVIOUS
  <2>2. PICK l : l = [r EXCEPT !.parts = n]
    OBVIOUS
  <2>3. at' = [at EXCEPT ![b] = l]
    BY <1>3, <2>1, <2>2 DEF Typed
  <2>. HIDE DEF n
  <2>4. /\ l \in LocalOf /\ l.pc = r.pc /\ l.proxy = r.proxy /\ l.x = r.x
        /\ l.stack = r.stack /\ l.www = r.www
    BY <1>2, <2>2 DEF LocalOf
  <2>5. at'[b] = l
    BY <2>3 DEF Typed
  <2>6. StackOK(l)
    BY <1>1, <2>1, <2>4 DEF StackOK, Asking
  <2>7. Bidding(b)'
    BY <2>1, <2>4, <2>5 DEF PopPart, Bidding
  <2>8. Turns(b)'
    BY <1>1, <2>1, <2>4, <2>5 DEF PopPart, Turns, Asking
  <2>. QED
    BY <1>1, <2>1, <2>3, <2>4, <2>6, <2>7, <2>8, Quiet DEF PopPart, Typed
<1>4. CASE at' = [at EXCEPT ![b] = [Requesting(b, "part") EXCEPT !.parts = @ - 1, !.www = 0]]
  <2>1. PICK r \in LocalOf :
          /\ r = Requesting(b, "part") /\ r.pc = "send" /\ r.proxy = at[b].proxy
          /\ r.x = at[b].x /\ r.parts = at[b].parts
          /\ Stacked(r.stack) /\ Bottomed(r.stack) /\ r.stack[1].why = "part"
          /\ Cardinality(Owing(r.stack)) = Cardinality(Owing(at[b].stack))
    BY <1>1, RequestingIs, OwingIsFinite DEF Reasons, Tops, One
  <2>2. PICK k : k = [r EXCEPT !.parts = n]
    OBVIOUS
  <2>3. PICK l : l = [k EXCEPT !.www = 0]
    OBVIOUS
  <2>4. at' = [at EXCEPT ![b] = l]
    BY <1>4, <2>1, <2>2, <2>3
  <2>. HIDE DEF n
  <2>5. k \in LocalOf /\ k.pc = "send" /\ k.proxy = r.proxy /\ k.x = r.x /\ k.stack = r.stack
    BY <1>2, <2>1, <2>2 DEF LocalOf
  <2>6. /\ l \in LocalOf /\ l.pc = "send" /\ l.proxy = r.proxy /\ l.x = r.x
        /\ l.stack = r.stack /\ l.www = 0
    BY <2>3, <2>5 DEF LocalOf
  <2>7. at'[b] = l
    BY <2>4 DEF Typed
  <2>8. StackOK(l)
    BY <1>1, <2>1, <2>6 DEF StackOK, Asking, Stacked, Bottomed
  <2>9. Bidding(b)'
    BY <1>1, <2>1, <2>6, <2>7 DEF PopPart, Bidding
  <2>10. Turns(b)'
    <3>1. /\ my' = my /\ failed' = failed /\ cancelled' = cancelled /\ seen' = seen
      BY DEF PopPart
    <3>2. at'[b].pc = "send" /\ at'[b].stack[1].why = "part" /\ at'[b].x = at[b].x
      BY <2>1, <2>6, <2>7
    <3>. QED
      BY <1>1, <3>1, <3>2 DEF Turns, Asking
  <2>. QED
    BY <1>1, <2>1, <2>4, <2>6, <2>8, <2>9, <2>10, Quiet DEF PopPart, Typed
<1>. QED
  BY <1>3, <1>4 DEF PopPart

\* A browser is done: it was told to stop, or has made its passes.
LEMMA DoneStep ==
    ASSUME BInv, NEW b \in Browsers, Goto(b, "done"), at[b].pc # "return",
           UNCHANGED <<my, failed, cancelled, stats, seen, replies>>,
           \/ b \in cancelled \/ failed >= Failures
           \/ at[b].pc = "head" /\ at[b].x = Reps
    PROVE  BInv'
<1>. USE Own
<1>1. PICK l \in LocalOf :
          /\ at' = [at EXCEPT ![b] = l] /\ l.pc = "done"
          /\ l.x = at[b].x /\ l.stack = at[b].stack
          /\ l.www = at[b].www /\ l.proxy = at[b].proxy
  <2>1. "done" \in Places
    BY DEF Places
  <2>. QED
    BY <2>1, GoneTo
<1>2. at'[b] = l
  BY <1>1 DEF Typed
<1>3. StackOK(l)
  BY <1>1 DEF StackOK, Asking
<1>4. Bidding(b)'
  BY <1>1, <1>2 DEF Bidding
<1>5. Turns(b)'
  BY <1>1, <1>2 DEF Turns, Asking
<1>. QED
  BY <1>1, <1>3, <1>4, <1>5, Quiet DEF Typed

LEMMA EndOfPassStep == ASSUME BInv, NEW b \in Browsers, EndOfPass(b) PROVE BInv'
<1>. USE Own
<1>1. at[b].pc = "parts" /\ at[b].stack = << >> /\ at[b].x < Reps
  BY DEF EndOfPass, At, StackOK
<1>2. CASE TooManyFailures
  BY <1>1, <1>2, DoneStep DEF EndOfPass, TooManyFailures
<1>3. CASE ~TooManyFailures
  <2>. DEFINE x == at[b].x + 1
  <2>0. x \in 0 .. Reps
    BY <1>1, BrowserAssumption DEF LocalOf
  <2>1. PICK r \in LocalOf : r = at[b]
    OBVIOUS
  <2>2. PICK k : k = [r EXCEPT !.pc = "head"]
    OBVIOUS
  <2>3. PICK l : l = [k EXCEPT !.x = x]
    OBVIOUS
  <2>4. /\ k \in LocalOf /\ k.pc = "head" /\ k.proxy = r.proxy /\ k.www = r.www
        /\ k.stack = r.stack /\ k.x = r.x
    <3>1. "head" \in Places
      BY DEF Places
    <3>. QED
      BY <2>2, <3>1 DEF LocalOf
  <2>5. at' = [at EXCEPT ![b] = l]
    BY <1>3, <2>1, <2>2, <2>3, <2>4 DEF EndOfPass, Typed
  <2>. HIDE DEF x
  <2>6. /\ l \in LocalOf /\ l.pc = "head" /\ l.proxy = r.proxy /\ l.x = x
        /\ l.stack = r.stack /\ l.www = r.www
    BY <2>0, <2>3, <2>4 DEF LocalOf
  <2>7. at'[b] = l
    BY <2>5 DEF Typed
  <2>8. StackOK(l)
    BY <1>1, <2>1, <2>6 DEF StackOK, Asking
  <2>9. Bidding(b)'
    BY <1>1, <2>1, <2>6, <2>7 DEF EndOfPass, Bidding
  <2>10. Turns(b)'
    <3>1. /\ my' = my /\ failed' = failed /\ cancelled' = cancelled /\ seen' = seen
      BY DEF EndOfPass
    <3>2. at'[b].pc = "head" /\ at'[b].x = at[b].x + 1
      BY <2>6, <2>7 DEF x
    <3>. QED
      BY <1>1, <1>3, <3>1, <3>2 DEF Turns, Asking, TooManyFailures
  <2>. QED
    BY <1>1, <2>1, <2>5, <2>6, <2>8, <2>9, <2>10, Quiet DEF EndOfPass, Typed
<1>. QED
  BY <1>2, <1>3

LEMMA FinishStep == ASSUME BInv, NEW b \in Browsers, Finish(b) PROVE BInv'
<1>1. at[b].pc = "head" /\ at[b].x = Reps
  BY Own, BrowserAssumption DEF Finish, At, More, LocalOf
<1>. QED
  BY <1>1, DoneStep DEF Finish

LEMMA DieStep == ASSUME BInv, NEW b \in Browsers, Die(b) PROVE BInv'
  BY DoneStep DEF Die

\* A browser whose request is still under way is in the same turn.
LEMMA SameTurn ==
    ASSUME BInv, NEW b \in Browsers, NEW l \in LocalOf, at'[b] = l,
           at[b].pc \in Asking, l.pc \in Asking, l.x = at[b].x,
           Stacked(l.stack), Bottomed(l.stack), l.stack[1].why = at[b].stack[1].why,
           UNCHANGED <<my, failed, cancelled>>,
           seen'[b].late = seen[b].late, seen'[b].loops = seen[b].loops
    PROVE  StackOK(l) /\ Turns(b)'
<1>. USE Own
<1>1. at[b].x < Reps
  BY DEF StackOK
<1>2. StackOK(l)
  BY <1>1 DEF StackOK, Asking, Stacked, Bottomed
<1>3. /\ at[b].pc \notin {"start", "head", "parts", "done"}
      /\ l.pc \notin {"start", "head", "parts", "done"}
  BY DEF Asking
<1>4. Turns(b)'
  BY <1>3 DEF Turns
<1>. QED
  BY <1>2, <1>4

LEMMA SameBids ==
    ASSUME BInv, NEW b \in Browsers, NEW l \in LocalOf, at'[b] = l, l.pc \in Asking,
           l.www >= at[b].www, l.proxy >= at[b].proxy,
           seen'[b].answers = seen[b].answers, seen'[b].proxied = seen[b].proxied
    PROVE  Bidding(b)'
<1>1. /\ at[b].www \in Nat /\ at[b].proxy \in Nat /\ l.www \in Nat /\ l.proxy \in Nat
      /\ seen[b].answers \in Nat /\ seen[b].proxied \in Nat
  BY Own DEF LocalOf, SeenOf
<1>2. /\ seen[b].answers =< at[b].www /\ seen[b].answers < Bids
      /\ seen[b].proxied =< at[b].proxy /\ seen[b].proxied < Bids
  BY Own DEF Bidding
<1>3. at'[b].pc \notin {"start", "head", "parts"}
  BY DEF Asking
<1>. QED
  BY <1>1, <1>2, <1>3 DEF Bidding

LEMMA LoginStep == ASSUME BInv, NEW b \in Browsers, Login(b) PROVE BInv'
<1>. USE Own
<1>1. /\ at[b].pc = "logins" /\ at[b].pc \in Asking /\ at[b].stack # << >>
      /\ Bottomed(at[b].stack) /\ Top(b) = at[b].stack[Len(at[b].stack)]
      /\ at[b].www >= at[b].www /\ at[b].proxy >= at[b].proxy
  BY DEF Login, At, Asking, Bottomed, Top, Last, LocalOf
<1>2. /\ UNCHANGED <<my, failed, cancelled, stats, seen, replies>>
      /\ seen' \in [Browsers -> SeenOf]
  BY DEF Login, Typed
<1>3. ASSUME NEW l \in LocalOf, at' = [at EXCEPT ![b] = l], l.pc \in Asking,
             l.x = at[b].x, l.www = at[b].www, l.proxy = at[b].proxy,
             Stacked(l.stack), Bottomed(l.stack), l.stack[1].why = at[b].stack[1].why,
             l.pc = "return" => ~l.ret,
             Cardinality(Owing(l.stack)) = Cardinality(Owing(at[b].stack))
      PROVE  BInv'
  <2>1. at'[b] = l
    BY <1>3 DEF Typed
  <2>2. StackOK(l) /\ Turns(b)'
    BY <1>1, <1>2, <1>3, <2>1, SameTurn
  <2>3. Bidding(b)'
    BY <1>1, <1>2, <1>3, <2>1, SameBids
  <2>. QED
    BY <1>1, <1>2, <1>3, <2>2, <2>3, Quiet
<1>4. CASE Top(b).i < AuthUrls /\ at' = [at EXCEPT ![b] = Requesting(b, "site")]
  <2>1. PICK l \in LocalOf :
          /\ l = Requesting(b, "site") /\ l.pc = "send" /\ l.x = at[b].x
          /\ l.www = at[b].www /\ l.proxy = at[b].proxy
          /\ Stacked(l.stack) /\ Bottomed(l.stack) /\ l.stack[1] = at[b].stack[1]
          /\ Cardinality(Owing(l.stack)) = Cardinality(Owing(at[b].stack))
    BY <1>1, <1>4, RequestingIs, OwingIsFinite DEF Reasons, Tops, One
  <2>2. l.pc \in Asking
    BY <2>1 DEF Asking
  <2>. QED
    BY <1>3, <1>4, <2>1, <2>2
<1>5. CASE Top(b).i < AuthUrls /\ at' = [at EXCEPT ![b].stack = PassedOver(@)]
  <2>1. PICK s \in Seq(FrameOf) :
          /\ s = PassedOver(at[b].stack) /\ Stacked(s) /\ Bottomed(s)
          /\ s[1].why = at[b].stack[1].why
          /\ Cardinality(Owing(s)) = Cardinality(Owing(at[b].stack))
    BY <1>1, <1>5, Passed
  <2>2. PICK r \in LocalOf : r = at[b]
    OBVIOUS
  <2>3. PICK l : l = [r EXCEPT !.stack = s]
    OBVIOUS
  <2>4. at' = [at EXCEPT ![b] = l]
    BY <1>5, <2>1, <2>2, <2>3 DEF Typed
  <2>5. /\ l \in LocalOf /\ l.pc = r.pc /\ l.x = r.x /\ l.www = r.www /\ l.proxy = r.proxy
        /\ l.stack = s
    BY <2>3 DEF LocalOf
  <2>. QED
    BY <1>1, <1>3, <2>1, <2>2, <2>4, <2>5
<1>6. CASE ~(Top(b).i < AuthUrls) /\ at' = [at EXCEPT ![b] = Returning(b, FALSE, 403)]
  <2>1. PICK l \in LocalOf :
          /\ l = Returning(b, FALSE, 403)
          /\ l.pc = "return" /\ l.x = at[b].x /\ l.stack = at[b].stack
          /\ l.www = at[b].www /\ l.proxy = at[b].proxy /\ ~l.ret
    <3>1. FALSE \in BOOLEAN /\ 403 \in Codes
      BY DEF Codes
    <3>. QED
      BY <3>1, Fails, ZenonT(40)
  <2>2. l.pc \in Asking /\ l.stack[1].why = at[b].stack[1].why
    BY <2>1 DEF Asking
  <2>3. at' = [at EXCEPT ![b] = l]
    BY <1>6, <2>1
  <2>4. /\ Stacked(l.stack) /\ Bottomed(l.stack)
        /\ Cardinality(Owing(l.stack)) = Cardinality(Owing(at[b].stack))
    <3>1. l.stack = at[b].stack /\ Stacked(at[b].stack) /\ Bottomed(at[b].stack)
      BY <1>1, <2>1
    <3>. QED
      BY <3>1, Zenon
  <2>5. l.pc = "return" => ~l.ret
    BY <2>1
  <2>6. l.x = at[b].x /\ l.www = at[b].www /\ l.proxy = at[b].proxy
    BY <2>1
  <2>. QED
    BY <1>3, <2>2, <2>3, <2>4, <2>5, <2>6, ZenonT(40)
<1>. QED
  BY <1>4, <1>5, <1>6 DEF Login

-----------------------------------------------------------------------------
(* An exchange with a server.                                              *)

LEMMA LeaveIs ==
    ASSUME BInv, NEW b \in Browsers, NEW l \in LocalOf,
           NEW hits \in {0, 1}, NEW good \in {0, 1}, NEW fail \in {0, 1}, NEW ok \in {0, 1},
           Leave(b, l, hits, good, fail, ok)
    PROVE  /\ at' = [at EXCEPT ![b] = l]
           /\ stats' \in [Browsers -> StatsOf] /\ \A c \in Browsers \ {b} : stats'[c] = stats[c]
           /\ stats'[b].hits = stats[b].hits + hits /\ stats'[b].code = stats[b].code + good
           /\ stats'[b].fail = stats[b].fail + fail /\ stats'[b].okay = stats[b].okay + ok
<1>1. PICK r \in StatsOf : r = stats[b]
  BY Own
<1>2. r.hits \in Nat /\ r.code \in Nat /\ r.fail \in Nat /\ r.okay \in Nat
  BY DEF StatsOf
<1>3. PICK s1 : s1 = [r EXCEPT !.hits = r.hits + hits]
  OBVIOUS
<1>4. PICK s2 : s2 = [s1 EXCEPT !.code = r.code + good]
  OBVIOUS
<1>5. PICK s3 : s3 = [s2 EXCEPT !.fail = r.fail + fail]
  OBVIOUS
<1>6. PICK s4 : s4 = [s3 EXCEPT !.okay = r.okay + ok]
  OBVIOUS
<1>7. /\ s1 \in StatsOf /\ s1.hits = r.hits + hits /\ s1.code = r.code
      /\ s1.fail = r.fail /\ s1.okay = r.okay
  BY <1>2, <1>3 DEF StatsOf
<1>8. /\ s2 \in StatsOf /\ s2.hits = r.hits + hits /\ s2.code = r.code + good
      /\ s2.fail = r.fail /\ s2.okay = r.okay
  BY <1>2, <1>4, <1>7 DEF StatsOf
<1>9. /\ s3 \in StatsOf /\ s3.hits = r.hits + hits /\ s3.code = r.code + good
      /\ s3.fail = r.fail + fail /\ s3.okay = r.okay
  BY <1>2, <1>5, <1>8 DEF StatsOf
<1>10. /\ s4 \in StatsOf /\ s4.hits = r.hits + hits /\ s4.code = r.code + good
       /\ s4.fail = r.fail + fail /\ s4.okay = r.okay + ok
  BY <1>2, <1>6, <1>9 DEF StatsOf
<1>11. stats \in [Browsers -> StatsOf]
  BY Own DEF Typed
<1>12. stats' = [stats EXCEPT ![b] = s4]
  <2>. DEFINE t1 == [stats EXCEPT ![b] = s1]
              t2 == [stats EXCEPT ![b] = s2]
              t3 == [stats EXCEPT ![b] = s3]
              t4 == [stats EXCEPT ![b] = s4]
  <2>1. stats' = [stats EXCEPT ![b].hits = @ + hits, ![b].code = @ + good,
                               ![b].fail = @ + fail, ![b].okay = @ + ok]
    BY DEF Leave
  <2>2. t1 = [stats EXCEPT ![b].hits = @ + hits]
    BY <1>1, <1>3, <1>11
  <2>3. t1 \in [Browsers -> StatsOf] /\ t1[b] = s1
    BY <1>7, <1>11
  <2>4. t2 = [stats EXCEPT ![b].hits = @ + hits, ![b].code = @ + good]
    <3>1. t2 = [t1 EXCEPT ![b].code = @ + good]
      BY <1>4, <1>7, <1>11, <2>3
    <3>. HIDE DEF t1, t2
    <3>. QED
      BY <2>2, <3>1
  <2>5. t2 \in [Browsers -> StatsOf] /\ t2[b] = s2
    BY <1>8, <1>11
  <2>6. t3 = [stats EXCEPT ![b].hits = @ + hits, ![b].code = @ + good, ![b].fail = @ + fail]
    <3>1. t3 = [t2 EXCEPT ![b].fail = @ + fail]
      BY <1>5, <1>8, <1>11, <2>5
    <3>. HIDE DEF t2, t3
    <3>. QED
      BY <2>4, <3>1
  <2>7. t3 \in [Browsers -> StatsOf] /\ t3[b] = s3
    BY <1>9, <1>11
  <2>8. t4 = [stats EXCEPT ![b].hits = @ + hits, ![b].code = @ + good,
                           ![b].fail = @ + fail, ![b].okay = @ + ok]
    <3>1. t4 = [t3 EXCEPT ![b].okay = @ + ok]
      BY <1>6, <1>9, <1>11, <2>7
    <3>. HIDE DEF t3, t4
    <3>. QED
      BY <2>6, <3>1
  <2>. HIDE DEF t4
  <2>9. stats' = t4
    BY <2>1, <2>8
  <2>. QED
    BY <2>9 DEF t4
<1>13. at' = [at EXCEPT ![b] = l]
  BY DEF Leave
<1>. QED
  BY <1>1, <1>10, <1>11, <1>12, <1>13

\* What every exchange has to see to: a hit is a reply classified, a reply is classified
\* once, and what returns as a success is a hit, or will be what it was needed for.
LEMMA Reply ==
    ASSUME BInv, NEW b \in Browsers, NEW l \in LocalOf,
           NEW hits \in {0, 1}, NEW good \in {0, 1}, NEW fail \in {0, 1}, NEW ok \in {0, 1},
           Leave(b, l, hits, good, fail, ok), UNCHANGED <<my, failed, cancelled>>,
           replies' \in Nat, good + fail =< replies' - replies, ok =< good,
           at[b].pc = "send", l.pc \in Asking, l.x = at[b].x,
           l.pc = "return" /\ l.ret => hits = 1,
           Stacked(l.stack), Bottomed(l.stack), l.stack[1].why = at[b].stack[1].why,
           hits + Cardinality(Owing(l.stack)) =< Cardinality(Owing(at[b].stack)) + good + fail,
           seen' \in [Browsers -> SeenOf], \A c \in Browsers \ {b} : seen'[c] = seen[c],
           seen'[b].tops = seen[b].tops, seen'[b].late = seen[b].late,
           seen'[b].loops = seen[b].loops, Bidding(b)'
    PROVE  BInv'
<1>1. /\ at' = [at EXCEPT ![b] = l]
      /\ stats' \in [Browsers -> StatsOf] /\ \A c \in Browsers \ {b} : stats'[c] = stats[c]
      /\ stats'[b].hits = stats[b].hits + hits /\ stats'[b].code = stats[b].code + good
      /\ stats'[b].fail = stats[b].fail + fail /\ stats'[b].okay = stats[b].okay + ok
  BY LeaveIs
<1>2. Typed
  BY Own
<1>3. /\ failed \in Nat /\ replies \in Nat /\ cancelled \subseteq Browsers
      /\ at \in [Browsers -> LocalOf]
  BY <1>2 DEF Typed
<1>4. replies' >= replies
  BY <1>3
<1>5. at'[b] = l /\ at' \in [Browsers -> LocalOf]
      /\ \A c \in Browsers \ {b} : at'[c] = at[c]
  BY <1>1, <1>3
<1>6. OnlySteps(b)
  BY <1>1, <1>3, <1>4, <1>5 DEF OnlySteps
<1>7. StackOK(at'[b]) /\ Turns(b)'
  <2>1. at[b].pc \in Asking
    BY DEF Asking
  <2>. QED
    BY <1>5, <2>1, SameTurn
<1>8. /\ stats[b].hits \in Nat /\ stats[b].code \in Nat /\ stats[b].fail \in Nat
      /\ stats[b].okay \in Nat /\ seen[b].tops \in Nat
  BY Own DEF StatsOf, SeenOf
<1>9. /\ Cardinality(Owing(l.stack)) \in Nat /\ Cardinality(Owing(at[b].stack)) \in Nat
  <2>1. l.stack \in Seq(FrameOf) /\ at[b].stack \in Seq(FrameOf)
    BY Own DEF LocalOf
  <2>. QED
    BY <2>1, OwingIsFinite
<1>10. Classed(b)'
  <2>1. /\ stats[b].hits + Cardinality(Owing(at[b].stack)) =< stats[b].code + stats[b].fail
        /\ stats[b].okay =< stats[b].code
    BY Own DEF Classed
  <2>. QED
    BY <1>1, <1>5, <1>8, <1>9, <2>1 DEF Classed
<1>11. Unmatched(b)' - Unmatched(b) =< failed' - failed
  <2>1. Unmatched(b) = seen[b].tops - stats[b].hits
    BY <1>8 DEF Unmatched, One
  <2>2. Unmatched(b)' = seen[b].tops + One(l.pc = "return" /\ l.ret) - (stats[b].hits + hits)
    BY <1>1, <1>5 DEF Unmatched
  <2>3. One(l.pc = "return" /\ l.ret) \in {0, 1} /\ One(l.pc = "return" /\ l.ret) =< hits
    BY DEF One
  <2>. HIDE DEF One
  <2>4. PICK o \in {0, 1} : o = One(l.pc = "return" /\ l.ret)
    BY <2>3
  <2>5. o =< hits
    BY <2>3, <2>4
  <2>6. Unmatched(b)' = seen[b].tops + o - (stats[b].hits + hits)
    BY <2>2, <2>4
  <2>7. failed' - failed = 0
    BY <1>3
  <2>. QED
    BY <1>8, <2>1, <2>5, <2>6, <2>7
<1>12. (stats'[b].code + stats'[b].fail) - (stats[b].code + stats[b].fail)
         =< replies' - replies
  BY <1>1, <1>3, <1>8
<1>. QED
  BY <1>6, <1>7, <1>10, <1>11, <1>12, OwnSuffices

\* A reply that calls for no other request.
LEMMA Ends ==
    ASSUME BInv, NEW b \in Browsers, NEW l \in LocalOf,
           NEW hits \in {0, 1}, NEW good \in {0, 1}, NEW fail \in {0, 1}, NEW ok \in {0, 1},
           Leave(b, l, hits, good, fail, ok), Sends(b), seen' = seen,
           Answered \/ (good + fail = 0 /\ replies' = replies),
           good + fail =< 1, ok =< good, hits =< good + fail,
           l.pc \in {"return", "logins"}, l.x = at[b].x, l.stack = at[b].stack,
           l.www >= at[b].www, l.proxy >= at[b].proxy, l.pc = "return" /\ l.ret => hits = 1
    PROVE  BInv'
<1>1. /\ at[b].pc = "send" /\ at[b].pc \in Asking /\ l.pc \in Asking
      /\ UNCHANGED <<my, failed, cancelled>>
  BY DEF Sends, At, Asking
<1>2. replies \in Nat /\ seen \in [Browsers -> SeenOf] /\ at \in [Browsers -> LocalOf]
  BY Own DEF Typed
<1>3. replies' \in Nat /\ good + fail =< replies' - replies
  BY <1>2 DEF Answered
<1>4. /\ Stacked(l.stack) /\ Bottomed(l.stack) /\ l.stack[1].why = at[b].stack[1].why
      /\ Cardinality(Owing(l.stack)) \in Nat
      /\ Cardinality(Owing(l.stack)) = Cardinality(Owing(at[b].stack))
  <2>1. /\ at[b].stack \in Seq(FrameOf) /\ Stacked(at[b].stack) /\ Bottomed(at[b].stack)
    BY <1>1, Own
  <2>. QED
    BY <2>1, OwingIsFinite
<1>5. hits + Cardinality(Owing(l.stack)) =< Cardinality(Owing(at[b].stack)) + good + fail
  BY <1>4
<1>6. at'[b] = l
  BY <1>2 DEF Leave
<1>7. Bidding(b)'
  BY <1>1, <1>6, SameBids
<1>8. /\ seen' \in [Browsers -> SeenOf] /\ \A c \in Browsers \ {b} : seen'[c] = seen[c]
      /\ seen'[b].tops = seen[b].tops /\ seen'[b].late = seen[b].late
      /\ seen'[b].loops = seen[b].loops
  BY <1>2
<1>. QED
  BY <1>1, <1>3, <1>4, <1>5, <1>7, <1>8, Reply, ZenonT(40)

\* A reply that calls for another request.
LEMMA Needs ==
    ASSUME BInv, NEW b \in Browsers, NEW l \in LocalOf,
           NEW good \in {0, 1}, NEW fail \in {0, 1}, NEW ok \in {0, 1},
           Leave(b, l, 0, good, fail, ok), Sends(b), Answered,
           good + fail = 1, ok =< good, l.pc = "send", l.x = at[b].x,
           Stacked(l.stack), Bottomed(l.stack), l.stack[1] = at[b].stack[1],
           Cardinality(Owing(l.stack)) = Cardinality(Owing(at[b].stack)) + 1,
           seen' \in [Browsers -> SeenOf], \A c \in Browsers \ {b} : seen'[c] = seen[c],
           seen'[b].tops = seen[b].tops, seen'[b].late = seen[b].late,
           seen'[b].loops = seen[b].loops, Bidding(b)'
    PROVE  BInv'
<1>1. /\ at[b].pc = "send" /\ l.pc \in Asking /\ UNCHANGED <<my, failed, cancelled>>
  BY DEF Sends, At, Asking
<1>2. replies \in Nat
  BY Own DEF Typed
<1>3. replies' \in Nat /\ good + fail =< replies' - replies
  BY <1>2 DEF Answered
<1>4. Cardinality(Owing(at[b].stack)) \in Nat
  BY Own, OwingIsFinite
<1>5. 0 + Cardinality(Owing(l.stack)) =< Cardinality(Owing(at[b].stack)) + good + fail
  BY <1>4
<1>. QED
  BY <1>1, <1>3, <1>5, Reply

LEMMA SocketFailsStep == ASSUME BInv, NEW b \in Browsers, SocketFails(b) PROVE BInv'
<1>. DEFINE l == Returning(b, FALSE, None)
<1>1. /\ l \in LocalOf /\ l.pc = "return" /\ l.x = at[b].x /\ l.stack = at[b].stack
      /\ l.www = at[b].www /\ l.proxy = at[b].proxy /\ ~l.ret
  <2>1. FALSE \in BOOLEAN /\ None \in Codes
    BY DEF Codes
  <2>. QED
    BY <2>1, ReturningIs
<1>2. at[b].www \in Nat /\ at[b].proxy \in Nat
  BY Own DEF LocalOf
<1>3. /\ Leave(b, l, 0, 0, 0, 0) /\ Sends(b) /\ seen' = seen /\ replies' = replies
  BY DEF SocketFails
<1>. HIDE DEF l
<1>. QED
  BY <1>1, <1>2, <1>3, Ends

LEMMA UselessStep == ASSUME BInv, NEW b \in Browsers, Useless(b) PROVE BInv'
<1>. DEFINE l == Returning(b, FALSE, None)
<1>1. /\ l \in LocalOf /\ l.pc = "return" /\ l.x = at[b].x /\ l.stack = at[b].stack
      /\ l.www = at[b].www /\ l.proxy = at[b].proxy /\ ~l.ret
  <2>1. FALSE \in BOOLEAN /\ None \in Codes
    BY DEF Codes
  <2>. QED
    BY <2>1, ReturningIs
<1>2. at[b].www \in Nat /\ at[b].proxy \in Nat
  BY Own DEF LocalOf
<1>3. PICK count \in {<<0, 0>>, <<0, 1>>, <<1, 1>>} : Leave(b, l, count[1], 0, count[2], 0)
  BY DEF Useless
<1>4. /\ count[1] \in {0, 1} /\ count[2] \in {0, 1} /\ count[1] =< 0 + count[2]
      /\ 0 + count[2] =< 1
  OBVIOUS
<1>5. Sends(b) /\ Answered /\ seen' = seen
  BY DEF Useless
<1>. HIDE DEF l
<1>. QED
  BY <1>1, <1>2, <1>3, <1>4, <1>5, Ends

LEMMA FtpReplyStep == ASSUME BInv, NEW b \in Browsers, FtpReply(b) PROVE BInv'
<1>. DEFINE l == Returning(b, TRUE, None)
<1>1. /\ l \in LocalOf /\ l.pc = "return" /\ l.x = at[b].x /\ l.stack = at[b].stack
      /\ l.www = at[b].www /\ l.proxy = at[b].proxy
  <2>1. TRUE \in BOOLEAN /\ None \in Codes
    BY DEF Codes
  <2>. QED
    BY <2>1, ReturningIs
<1>2. at[b].www \in Nat /\ at[b].proxy \in Nat
  BY Own DEF LocalOf
<1>3. PICK good \in {0, 1} : Leave(b, l, 1, good, 1 - good, 0)
  BY DEF FtpReply
<1>4. 1 - good \in {0, 1} /\ good + (1 - good) = 1 /\ 0 =< good
  OBVIOUS
<1>5. Sends(b) /\ Answered /\ seen' = seen
  BY DEF FtpReply
<1>. HIDE DEF l
<1>. QED
  BY <1>1, <1>2, <1>3, <1>4, <1>5, Ends

LEMMA FoundIs ==
    ASSUME NEW r \in LocalOf, NEW found \in 0 .. MaxParts
    PROVE  LET l == Found(r, found) IN
           /\ l \in LocalOf /\ l.pc = r.pc /\ l.x = r.x /\ l.stack = r.stack
           /\ l.www = r.www /\ l.proxy = r.proxy
<1>. DEFINE n == r.parts + found
<1>1. n \in Nat
  BY BrowserAssumption DEF LocalOf
<1>2. PICK l : l = [r EXCEPT !.parts = n]
  OBVIOUS
<1>3. Found(r, found) = l
  BY <1>2 DEF Found
<1>. HIDE DEF n
<1>4. /\ l \in LocalOf /\ l.pc = r.pc /\ l.x = r.x /\ l.stack = r.stack
      /\ l.www = r.www /\ l.proxy = r.proxy
  BY <1>1, <1>2 DEF LocalOf
<1>. QED
  BY <1>3, <1>4

\* The class of a status: a success, a failure, and whether it is a 200.
LEMMA Classes ==
    ASSUME NEW b, NEW l, NEW hits
    PROVE  /\ Classified(b, l, hits, 200) => Leave(b, l, hits, 1, 0, 1)
           /\ \A code \in {301, 401, 407} :
                Classified(b, l, hits, code) => Leave(b, l, hits, 1, 0, 0)
           /\ \A code \in {403, 404, 500} :
                Classified(b, l, hits, code) => Leave(b, l, hits, 0, 1, 0)
<1>1. /\ One(Success(200)) = 1 /\ One(Failure(200)) = 0 /\ One(200 = 200) = 1
      /\ \A code \in {301, 401, 407} :
           One(Success(code)) = 1 /\ One(Failure(code)) = 0 /\ One(code = 200) = 0
      /\ \A code \in {403, 404, 500} :
           One(Success(code)) = 0 /\ One(Failure(code)) = 1 /\ One(code = 200) = 0
  BY DEF Success, Failure, One
<1>. QED
  BY <1>1 DEF Classified

\* A page or a location, there or to be followed.
LEMMA Follows ==
    ASSUME BInv, NEW b \in Browsers, Sends(b), Answered, seen' = seen,
           NEW code \in {200, 301}, NEW found \in 0 .. MaxParts,
           \/ Classified(b, Found(Returning(b, TRUE, code), found), 1, code)
           \/ Classified(b, Found(Requesting(b, "redirect"), found), 0, code)
    PROVE  BInv'
<1>1. /\ at[b].pc = "send" /\ at[b].stack \in Seq(FrameOf) /\ at[b].stack # << >>
      /\ Bottomed(at[b].stack) /\ at[b].www \in Nat /\ at[b].proxy \in Nat
      /\ seen \in [Browsers -> SeenOf]
  BY Own DEF Sends, At, Asking, Bottomed, LocalOf, Typed
<1>2. \A l, hits : Classified(b, l, hits, code) =>
                     \E ok \in {0, 1} : Leave(b, l, hits, 1, 0, ok)
  BY Classes
<1>3. CASE Classified(b, Found(Returning(b, TRUE, code), found), 1, code)
  <2>1. PICK r \in LocalOf :
          /\ r = Returning(b, TRUE, code)
          /\ r.pc = "return" /\ r.x = at[b].x /\ r.stack = at[b].stack
          /\ r.www = at[b].www /\ r.proxy = at[b].proxy
    <3>1. code \in Codes
      BY DEF Codes
    <3>. QED
      BY <3>1, Succeeds
  <2>2. PICK l \in LocalOf :
          /\ l = Found(r, found) /\ l.pc = r.pc /\ l.x = r.x /\ l.stack = r.stack
          /\ l.www = r.www /\ l.proxy = r.proxy
    BY <2>1, FoundIs
  <2>3. Classified(b, l, 1, code)
    BY <1>3, <2>1, <2>2
  <2>4. PICK ok \in {0, 1} : Leave(b, l, 1, 1, 0, ok)
    BY <1>2, <2>3
  <2>5. /\ l.pc = "return" /\ l.x = at[b].x /\ l.stack = at[b].stack
        /\ l.www = at[b].www /\ l.proxy = at[b].proxy
    BY <2>1, <2>2
  <2>. HIDE <1>3
  <2>. QED
    BY <1>1, <2>4, <2>5, Ends
<1>4. CASE Classified(b, Found(Requesting(b, "redirect"), found), 0, code)
  <2>1. PICK r \in LocalOf :
          /\ r = Requesting(b, "redirect") /\ r.pc = "send" /\ r.x = at[b].x
          /\ r.www = at[b].www /\ r.proxy = at[b].proxy
          /\ Stacked(r.stack) /\ Bottomed(r.stack) /\ r.stack[1] = at[b].stack[1]
          /\ Cardinality(Owing(r.stack)) = Cardinality(Owing(at[b].stack)) + 1
    BY <1>1, RequestingIs DEF Reasons, Tops, One
  <2>2. PICK l \in LocalOf :
          /\ l = Found(r, found) /\ l.pc = r.pc /\ l.x = r.x /\ l.stack = r.stack
          /\ l.www = r.www /\ l.proxy = r.proxy
    BY <2>1, FoundIs
  <2>3. Classified(b, l, 0, code)
    BY <1>4, <2>1, <2>2
  <2>4. PICK ok \in {0, 1} : Leave(b, l, 0, 1, 0, ok)
    BY <1>2, <2>3
  <2>5. at'[b] = l
    BY <2>4, Own DEF Leave, Typed
  <2>6. Bidding(b)'
    <3>1. l.pc \in Asking /\ l.www >= at[b].www /\ l.proxy >= at[b].proxy
      BY <1>1, <2>1, <2>2 DEF Asking
    <3>. QED
      BY <2>2, <2>5, <3>1, SameBids
  <2>. QED
    BY <1>1, <2>1, <2>2, <2>4, <2>6, Needs
<1>. QED
  BY <1>3, <1>4

LEMMA PageStep == ASSUME BInv, NEW b \in Browsers, Page(b) PROVE BInv'
<1>1. PICK code \in {200, 301} : code = 200
  OBVIOUS
<1>2. PICK found \in 0 .. MaxParts :
         \/ Classified(b, Found(Returning(b, TRUE, code), found), 1, code)
         \/ Classified(b, Found(Requesting(b, "redirect"), found), 0, code)
  BY <1>1, ZenonT(40) DEF Page
<1>3. Sends(b) /\ Answered /\ seen' = seen
  BY DEF Page
<1>. QED
  BY <1>2, <1>3, Follows, ZenonT(40)

LEMMA LocationStep == ASSUME BInv, NEW b \in Browsers, Location(b) PROVE BInv'
<1>1. PICK code \in {200, 301} : code = 301
  OBVIOUS
<1>2. PICK found \in 0 .. MaxParts :
         \/ Classified(b, Found(Returning(b, TRUE, code), found), 1, code)
         \/ Classified(b, Found(Requesting(b, "redirect"), found), 0, code)
  BY <1>1, ZenonT(40) DEF Location
<1>3. Sends(b) /\ Answered /\ seen' = seen
  BY DEF Location
<1>. QED
  BY <1>2, <1>3, Follows, ZenonT(40)

\* An error that calls for nothing.
LEMMA ErrorStep ==
    ASSUME BInv, NEW b \in Browsers, ClientError(b) \/ ServerError(b)
    PROVE  BInv'
<1>1. at[b].www \in Nat /\ at[b].proxy \in Nat
  BY Own DEF LocalOf
<1>2. Sends(b) /\ Answered /\ seen' = seen
  BY DEF ClientError, ServerError
<1>3. 404 \in Codes /\ 500 \in Codes
  BY DEF Codes
<1>4. ASSUME ClientError(b) PROVE BInv'
  <2>1. PICK l \in LocalOf :
          /\ l = Returning(b, TRUE, 404)
          /\ l.pc = "return" /\ l.x = at[b].x /\ l.stack = at[b].stack
          /\ l.www = at[b].www /\ l.proxy = at[b].proxy
    BY <1>3, Succeeds, ZenonT(40)
  <2>2. Classified(b, l, 1, 404)
    BY <1>4, <2>1, Zenon DEF ClientError, ClientErrorHit
  <2>3. /\ l.pc = "return" /\ l.x = at[b].x /\ l.stack = at[b].stack
        /\ l.www = at[b].www /\ l.proxy = at[b].proxy
    BY <2>1, Zenon
  <2>4. Leave(b, l, 1, 0, 1, 0)
    BY <2>2, Classes
  <2>. QED
    BY <1>1, <1>2, <2>3, <2>4, Ends
<1>5. ASSUME ServerError(b) PROVE BInv'
  <2>1. PICK l \in LocalOf :
          /\ l = Returning(b, FALSE, 500)
          /\ l.pc = "return" /\ l.x = at[b].x /\ l.stack = at[b].stack
          /\ l.www = at[b].www /\ l.proxy = at[b].proxy /\ ~l.ret
    BY <1>3, Fails, ZenonT(40)
  <2>2. Classified(b, l, 0, 500)
    BY <1>5, <2>1, Zenon DEF ServerError
  <2>3. /\ l.pc = "return" /\ l.x = at[b].x /\ l.stack = at[b].stack
        /\ l.www = at[b].www /\ l.proxy = at[b].proxy /\ ~l.ret
    BY <2>1, Zenon
  <2>4. Leave(b, l, 0, 0, 1, 0)
    BY <2>2, Classes
  <2>. QED
    BY <1>1, <1>2, <2>3, <2>4, Ends
<1>. QED
  BY <1>4, <1>5

LEMMA ForbiddenStep == ASSUME BInv, NEW b \in Browsers, Forbidden(b) PROVE BInv'
<1>1. PICK r \in LocalOf : r = at[b]
  BY Own
<1>2. PICK k : k = [r EXCEPT !.pc = "logins"]
  OBVIOUS
<1>3. PICK l : l = [k EXCEPT !.code = 403]
  OBVIOUS
<1>4. k \in LocalOf /\ k.pc = "logins" /\ k.x = r.x /\ k.stack = r.stack
      /\ k.www = r.www /\ k.proxy = r.proxy
  <2>1. "logins" \in Places
    BY DEF Places
  <2>. QED
    BY <1>2, <2>1 DEF LocalOf
<1>5. l \in LocalOf /\ l.pc = "logins" /\ l.x = r.x /\ l.stack = r.stack
      /\ l.www = r.www /\ l.proxy = r.proxy
  <2>1. 403 \in Codes
    BY DEF Codes
  <2>. QED
    BY <1>3, <1>4, <2>1 DEF LocalOf
<1>6. Leave(b, l, 0, 0, 1, 0)
  <2>1. Classified(b, l, 0, 403)
    BY <1>1, <1>2, <1>3 DEF Forbidden
  <2>. QED
    BY <2>1, Classes
<1>7. Sends(b) /\ Answered /\ seen' = seen
  BY DEF Forbidden
<1>8. r.www \in Nat /\ r.proxy \in Nat
  BY DEF LocalOf
<1>. QED
  BY <1>1, <1>5, <1>6, <1>7, <1>8, Ends

\* A bid more, or an answer more.
OneMore(r, field) == [r EXCEPT ![field] = @ + 1]

LEMMA Bid ==
    ASSUME NEW r \in LocalOf, NEW bids \in {"www", "proxy"},
           NEW l, l = OneMore(r, bids)
    PROVE  /\ l \in LocalOf /\ l.pc = r.pc /\ l.x = r.x /\ l.stack = r.stack
           /\ l.ret <=> r.ret
           /\ bids = "www" => l.www = r.www + 1 /\ l.proxy = r.proxy
           /\ bids = "proxy" => l.www = r.www /\ l.proxy = r.proxy + 1
<1>1. r.www \in Nat /\ r.proxy \in Nat
  BY DEF LocalOf
<1>2. CASE bids = "www"
  <2>. DEFINE n == r.www + 1
  <2>1. n \in Nat
    BY <1>1
  <2>2. l = [r EXCEPT !.www = n]
    BY <1>2 DEF OneMore
  <2>. HIDE DEF n
  <2>3. /\ l \in LocalOf /\ l.pc = r.pc /\ l.x = r.x /\ l.stack = r.stack
        /\ l.www = n /\ l.proxy = r.proxy
    BY <2>1, <2>2 DEF LocalOf
  <2>4. l.ret = r.ret
    BY <2>2 DEF LocalOf
  <2>. QED
    BY <1>2, <2>3, <2>4 DEF n
<1>3. CASE bids = "proxy"
  <2>. DEFINE n == r.proxy + 1
  <2>1. n \in Nat
    BY <1>1
  <2>2. l = [r EXCEPT !.proxy = n]
    BY <1>3 DEF OneMore
  <2>. HIDE DEF n
  <2>3. /\ l \in LocalOf /\ l.pc = r.pc /\ l.x = r.x /\ l.stack = r.stack
        /\ l.www = r.www /\ l.proxy = n
    BY <2>1, <2>2 DEF LocalOf
  <2>4. l.ret = r.ret
    BY <2>2 DEF LocalOf
  <2>. QED
    BY <1>3, <2>3, <2>4 DEF n
<1>. QED
  BY <1>2, <1>3

Answering(b, answers) == seen' = [seen EXCEPT ![b][answers] = @ + 1]

\* An answer more, to a server or to a proxy.
LEMMA AnswerCounted ==
    ASSUME BInv, NEW b \in Browsers, NEW answers \in {"answers", "proxied"},
           Answering(b, answers)
    PROVE  /\ seen' \in [Browsers -> SeenOf] /\ \A c \in Browsers \ {b} : seen'[c] = seen[c]
           /\ seen'[b].tops = seen[b].tops /\ seen'[b].late = seen[b].late
           /\ seen'[b].loops = seen[b].loops
           /\ answers = "answers" => /\ seen'[b].answers = seen[b].answers + 1
                                     /\ seen'[b].proxied = seen[b].proxied
           /\ answers = "proxied" => /\ seen'[b].answers = seen[b].answers
                                     /\ seen'[b].proxied = seen[b].proxied + 1
<1>1. PICK r \in SeenOf : r = seen[b]
  BY Own
<1>2. seen \in [Browsers -> SeenOf] /\ r.answers \in Nat /\ r.proxied \in Nat
  BY Own DEF Typed, SeenOf
<1>3. CASE answers = "answers"
  <2>. DEFINE n == r.answers + 1
  <2>1. n \in Nat
    BY <1>2
  <2>2. PICK did : did = [r EXCEPT !.answers = n]
    OBVIOUS
  <2>3. seen' = [seen EXCEPT ![b] = did]
    BY <1>1, <1>2, <1>3, <2>2 DEF Answering
  <2>. HIDE DEF n
  <2>4. /\ did \in SeenOf /\ did.tops = r.tops /\ did.late = r.late /\ did.loops = r.loops
        /\ did.answers = n /\ did.proxied = r.proxied
    BY <2>1, <2>2 DEF SeenOf
  <2>5. /\ seen' \in [Browsers -> SeenOf] /\ \A c \in Browsers \ {b} : seen'[c] = seen[c]
        /\ seen'[b] = did
    BY <1>2, <2>3, <2>4
  <2>. QED
    BY <1>1, <1>2, <1>3, <2>4, <2>5 DEF n
<1>4. CASE answers = "proxied"
  <2>. DEFINE n == r.proxied + 1
  <2>1. n \in Nat
    BY <1>2
  <2>2. PICK did : did = [r EXCEPT !.proxied = n]
    OBVIOUS
  <2>3. seen' = [seen EXCEPT ![b] = did]
    BY <1>1, <1>2, <1>4, <2>2 DEF Answering
  <2>. HIDE DEF n
  <2>4. /\ did \in SeenOf /\ did.tops = r.tops /\ did.late = r.late /\ did.loops = r.loops
        /\ did.answers = r.answers /\ did.proxied = n
    BY <2>1, <2>2 DEF SeenOf
  <2>5. /\ seen' \in [Browsers -> SeenOf] /\ \A c \in Browsers \ {b} : seen'[c] = seen[c]
        /\ seen'[b] = did
    BY <1>2, <2>3, <2>4
  <2>. QED
    BY <1>1, <1>2, <1>4, <2>4, <2>5 DEF n
<1>. QED
  BY <1>3, <1>4

LEMMA ChallengeStep ==
    ASSUME BInv, NEW b \in Browsers, NEW code \in {401, 407},
           NEW bids \in {"www", "proxy"}, NEW answers \in {"answers", "proxied"},
           bids = "www" <=> answers = "answers", Challenge(b, code, bids, answers)
    PROVE  BInv'
<1>1. /\ at[b].pc = "send" /\ at[b].stack \in Seq(FrameOf) /\ at[b].stack # << >>
      /\ Bottomed(at[b].stack) /\ at[b].www \in Nat /\ at[b].proxy \in Nat
      /\ at \in [Browsers -> LocalOf]
  BY Own DEF Challenge, Sends, At, Asking, Bottomed, LocalOf, Typed
<1>2. Sends(b) /\ Answered /\ code \in Codes
  BY DEF Challenge, Codes
<1>4. CASE /\ MayBid(at[b][bids])
           /\ Classified(b, OneMore(Requesting(b, "answer"), bids), 0, code)
           /\ seen' = [seen EXCEPT ![b][answers] = @ + 1]
  <2>1. PICK r \in LocalOf :
          /\ r = Requesting(b, "answer") /\ r.pc = "send" /\ r.x = at[b].x
          /\ r.www = at[b].www /\ r.proxy = at[b].proxy
          /\ Stacked(r.stack) /\ Bottomed(r.stack) /\ r.stack[1] = at[b].stack[1]
          /\ Cardinality(Owing(r.stack)) = Cardinality(Owing(at[b].stack)) + 1
    BY <1>1, RequestingIs DEF Reasons, Tops, One
  <2>2. PICK l : l = OneMore(r, bids)
    OBVIOUS
  <2>3. /\ l \in LocalOf /\ l.pc = r.pc /\ l.x = r.x /\ l.stack = r.stack
        /\ bids = "www" => l.www = r.www + 1 /\ l.proxy = r.proxy
        /\ bids = "proxy" => l.www = r.www /\ l.proxy = r.proxy + 1
    BY <2>2, Bid
  <2>4. Leave(b, l, 0, 1, 0, 0)
    <3>1. Classified(b, l, 0, code)
      BY <1>4, <2>1, <2>2
    <3>. QED
      BY <3>1, Classes
  <2>5. at'[b] = l
    BY <1>1, <2>3, <2>4 DEF Leave
  <2>6. /\ seen' \in [Browsers -> SeenOf] /\ \A c \in Browsers \ {b} : seen'[c] = seen[c]
        /\ seen'[b].tops = seen[b].tops /\ seen'[b].late = seen[b].late
        /\ seen'[b].loops = seen[b].loops
        /\ answers = "answers" => /\ seen'[b].answers = seen[b].answers + 1
                                  /\ seen'[b].proxied = seen[b].proxied
        /\ answers = "proxied" => /\ seen'[b].answers = seen[b].answers
                                  /\ seen'[b].proxied = seen[b].proxied + 1
    <3>1. Answering(b, answers)
      BY <1>4 DEF Answering
    <3>. HIDE <1>4
    <3>. QED
      BY <3>1, AnswerCounted
  <2>7. Bidding(b)'
    <3>1. /\ seen[b].answers =< at[b].www /\ seen[b].answers < Bids
          /\ seen[b].proxied =< at[b].proxy /\ seen[b].proxied < Bids
          /\ seen[b].answers \in Nat /\ seen[b].proxied \in Nat /\ Bids \in Nat
      BY Own, BrowserAssumption DEF Bidding, SeenOf
    <3>2. at'[b].pc = "send"
      BY <2>1, <2>3, <2>5
    <3>3. CASE bids = "www"
      <4>1. at[b].www < Bids - 1
        BY <1>4, <3>3 DEF MayBid
      <4>2. /\ l.www = at[b].www + 1 /\ l.proxy = at[b].proxy
            /\ seen'[b].answers = seen[b].answers + 1 /\ seen'[b].proxied = seen[b].proxied
        BY <1>1, <2>1, <2>3, <2>6, <3>1, <3>3
      <4>. QED
        BY <1>1, <2>5, <3>1, <3>2, <4>1, <4>2 DEF Bidding
    <3>4. CASE bids = "proxy"
      <4>1. at[b].proxy < Bids - 1
        BY <1>4, <3>4 DEF MayBid
      <4>2. /\ l.www = at[b].www /\ l.proxy = at[b].proxy + 1
            /\ seen'[b].answers = seen[b].answers /\ seen'[b].proxied = seen[b].proxied + 1
        BY <1>1, <2>1, <2>3, <2>6, <3>1, <3>4
      <4>. QED
        BY <1>1, <2>5, <3>1, <3>2, <4>1, <4>2 DEF Bidding
    <3>. QED
      BY <3>3, <3>4
  <2>8. /\ l.pc = "send" /\ l.x = at[b].x
        /\ Stacked(l.stack) /\ Bottomed(l.stack) /\ l.stack[1] = at[b].stack[1]
        /\ Cardinality(Owing(l.stack)) = Cardinality(Owing(at[b].stack)) + 1
    BY <2>1, <2>3
  <2>. QED
    BY <1>2, <2>3, <2>4, <2>6, <2>7, <2>8, Needs
<1>5. CASE Classified(b, OneMore(Returning(b, FALSE, code), bids), 0, code) /\ seen' = seen
  <2>1. PICK r \in LocalOf :
          /\ r = Returning(b, FALSE, code)
          /\ r.pc = "return" /\ r.x = at[b].x /\ r.stack = at[b].stack
          /\ r.www = at[b].www /\ r.proxy = at[b].proxy /\ ~r.ret
    BY <1>2, Fails, ZenonT(40)
  <2>2. PICK l : l = OneMore(r, bids)
    OBVIOUS
  <2>3. Classified(b, l, 0, code)
    BY <1>5, <2>1, <2>2
  <2>4. /\ r.pc = "return" /\ r.x = at[b].x /\ r.stack = at[b].stack
        /\ r.www = at[b].www /\ r.proxy = at[b].proxy /\ ~r.ret
    BY <2>1, Zenon
  <2>5. /\ l \in LocalOf /\ l.pc = r.pc /\ l.x = r.x /\ l.stack = r.stack /\ ~l.ret
        /\ bids = "www" => l.www = r.www + 1 /\ l.proxy = r.proxy
        /\ bids = "proxy" => l.www = r.www /\ l.proxy = r.proxy + 1
    BY <2>2, <2>4, Bid
  <2>6. Leave(b, l, 0, 1, 0, 0)
    BY <2>3, Classes
  <2>7. l.www >= at[b].www /\ l.proxy >= at[b].proxy
    BY <1>1, <2>4, <2>5
  <2>. QED
    BY <1>2, <1>5, <2>4, <2>5, <2>6, <2>7, Ends
<1>6. CASE Classified(b, OneMore(Returning(b, TRUE, code), bids), 1, code) /\ seen' = seen
  <2>1. PICK r \in LocalOf :
          /\ r = Returning(b, TRUE, code)
          /\ r.pc = "return" /\ r.x = at[b].x /\ r.stack = at[b].stack
          /\ r.www = at[b].www /\ r.proxy = at[b].proxy
    BY <1>2, Succeeds, ZenonT(40)
  <2>2. PICK l : l = OneMore(r, bids)
    OBVIOUS
  <2>3. Classified(b, l, 1, code)
    BY <1>6, <2>1, <2>2
  <2>4. /\ r.pc = "return" /\ r.x = at[b].x /\ r.stack = at[b].stack
        /\ r.www = at[b].www /\ r.proxy = at[b].proxy
    BY <2>1, Zenon
  <2>5. /\ l \in LocalOf /\ l.pc = r.pc /\ l.x = r.x /\ l.stack = r.stack
        /\ bids = "www" => l.www = r.www + 1 /\ l.proxy = r.proxy
        /\ bids = "proxy" => l.www = r.www /\ l.proxy = r.proxy + 1
    BY <2>2, <2>4, Bid
  <2>6. Leave(b, l, 1, 1, 0, 0)
    BY <2>3, Classes
  <2>7. l.www >= at[b].www /\ l.proxy >= at[b].proxy
    BY <1>1, <2>4, <2>5
  <2>. QED
    BY <1>2, <1>6, <2>4, <2>5, <2>6, <2>7, Ends
<1>. QED
  BY <1>4, <1>5, <1>6, Zenon DEF Challenge, OneMore

-----------------------------------------------------------------------------
(* A request returns.                                                      *)

LEMMA TopIs ==
    ASSUME BInv, NEW b \in Browsers, at[b].pc = "return"
    PROVE  LET s == at[b].stack
               new == Caller(b) IN
           /\ new \in Seq(FrameOf) /\ Stacked(new) /\ Top(b) \in FrameOf
           /\ Top(b).why \in Tops => new = << >> /\ Top(b) = s[1]
           /\ Top(b).why \notin Tops => Bottomed(new) /\ new[1] = s[1]
           /\ Top(b).why = "site" => new[Len(new)].i < AuthUrls
           /\ Cardinality(Owing(s)) = Cardinality(Owing(new)) + One(Top(b).why \in {"redirect", "answer"})
           /\ Cardinality(Owing(new)) \in Nat
<1>1. /\ at[b].stack \in Seq(FrameOf) /\ Stacked(at[b].stack) /\ Bottomed(at[b].stack)
  BY Own DEF Asking
<1>2. Caller(b) = Front(at[b].stack) /\ Top(b) = Last(at[b].stack)
  BY DEF Caller, Top
<1>3. Front(at[b].stack) \in Seq(FrameOf)
  BY <1>1, Popped
<1>. QED
  BY <1>1, <1>2, <1>3, Popped, OwingIsFinite

\* A return that the request below goes on after.
LEMMA GoesOn ==
    ASSUME BInv, NEW b \in Browsers, at[b].pc = "return",
           NEW l \in LocalOf, at' = [at EXCEPT ![b] = l],
           UNCHANGED <<my, failed, cancelled, seen, replies>>,
           stats' \in [Browsers -> StatsOf], \A c \in Browsers \ {b} : stats'[c] = stats[c],
           NEW hits \in {0, 1}, stats'[b].hits = stats[b].hits + hits,
           stats'[b].code = stats[b].code, stats'[b].fail = stats[b].fail,
           stats'[b].okay = stats[b].okay,
           l.pc \in Asking, l.x = at[b].x, l.www = at[b].www, l.proxy = at[b].proxy,
           Stacked(l.stack), Bottomed(l.stack), l.stack[1].why = at[b].stack[1].why,
           hits + Cardinality(Owing(l.stack)) =< Cardinality(Owing(at[b].stack)),
           l.pc = "return" /\ l.ret => at[b].ret
    PROVE  BInv'
<1>1. /\ failed \in Nat /\ replies \in Nat /\ cancelled \subseteq Browsers
      /\ at \in [Browsers -> LocalOf] /\ seen \in [Browsers -> SeenOf]
  BY Own DEF Typed
<1>2. /\ at'[b] = l /\ at' \in [Browsers -> LocalOf]
      /\ \A c \in Browsers \ {b} : at'[c] = at[c]
  BY <1>1
<1>3. OnlySteps(b)
  BY <1>1, <1>2 DEF OnlySteps
<1>4. at[b].pc \in Asking /\ at[b].www \in Nat /\ at[b].proxy \in Nat
  BY Own DEF Asking, LocalOf
<1>5. StackOK(at'[b]) /\ Turns(b)'
  BY <1>2, <1>4, SameTurn
<1>6. Bidding(b)'
  BY <1>2, <1>4, SameBids
<1>7. /\ stats[b].hits \in Nat /\ stats[b].code \in Nat /\ stats[b].fail \in Nat
      /\ stats[b].okay \in Nat /\ seen[b].tops \in Nat
  BY Own DEF StatsOf, SeenOf
<1>8. Cardinality(Owing(l.stack)) \in Nat /\ Cardinality(Owing(at[b].stack)) \in Nat
  <2>1. l.stack \in Seq(FrameOf) /\ at[b].stack \in Seq(FrameOf)
    BY Own DEF LocalOf
  <2>. QED
    BY <2>1, OwingIsFinite
<1>9. Classed(b)'
  <2>1. /\ stats[b].hits + Cardinality(Owing(at[b].stack)) =< stats[b].code + stats[b].fail
        /\ stats[b].okay =< stats[b].code
    BY Own DEF Classed
  <2>. QED
    BY <1>2, <1>7, <1>8, <2>1 DEF Classed
<1>10. Unmatched(b)' - Unmatched(b) =< failed' - failed
  <2>1. PICK o \in {0, 1} : o = One(at[b].pc = "return" /\ at[b].ret) /\ (at[b].ret <=> o = 1)
    BY DEF One
  <2>2. PICK p \in {0, 1} : p = One(l.pc = "return" /\ l.ret) /\ (l.pc = "return" /\ l.ret <=> p = 1)
    BY DEF One
  <2>3. p =< o
    BY <2>1, <2>2
  <2>4. Unmatched(b) = seen[b].tops + o - stats[b].hits
    BY <2>1 DEF Unmatched
  <2>5. Unmatched(b)' = seen[b].tops + p - (stats[b].hits + hits)
    BY <1>2, <2>2 DEF Unmatched
  <2>6. failed' - failed = 0
    BY <1>1
  <2>. QED
    BY <1>7, <2>3, <2>4, <2>5, <2>6
<1>11. (stats'[b].code + stats'[b].fail) - (stats[b].code + stats[b].fail)
         =< replies' - replies
  BY <1>1, <1>7
<1>. QED
  BY <1>3, <1>5, <1>6, <1>9, <1>10, <1>11, OwnSuffices

LEMMA BackInRequestStep ==
    ASSUME BInv, NEW b \in Browsers, at[b].pc = "return", BackInRequest(b),
           UNCHANGED <<my, cancelled, replies>>
    PROVE  BInv'
<1>1. PICK new \in Seq(FrameOf) :
        /\ new = Caller(b) /\ Stacked(new) /\ Bottomed(new) /\ new[1] = at[b].stack[1]
        /\ Cardinality(Owing(at[b].stack)) = Cardinality(Owing(new)) + 1
        /\ Cardinality(Owing(new)) \in Nat
  BY TopIs DEF BackInRequest, Tops, One
<1>2. PICK r \in LocalOf : r = at[b]
  BY Own
<1>3. PICK l : l = [r EXCEPT !.stack = new]
  OBVIOUS
<1>4. at' = [at EXCEPT ![b] = l]
  BY <1>1, <1>2, <1>3, Own DEF BackInRequest, Typed
<1>5. /\ l \in LocalOf /\ l.pc = r.pc /\ l.x = r.x /\ l.stack = new
      /\ l.www = r.www /\ l.proxy = r.proxy
  BY <1>3 DEF LocalOf
<1>6. l.ret = r.ret
  BY <1>3 DEF LocalOf
<1>7. PICK hits \in {0, 1} : hits = One(at[b].ret)
  BY DEF One
<1>8. PICK s \in StatsOf : s = stats[b]
  BY Own
<1>9. PICK t : t = [s EXCEPT !.hits = s.hits + hits]
  OBVIOUS
<1>10. stats' = [stats EXCEPT ![b] = t] /\ stats \in [Browsers -> StatsOf]
  BY <1>7, <1>8, <1>9, Own DEF BackInRequest, Typed
<1>11. /\ t \in StatsOf /\ t.hits = s.hits + hits /\ t.code = s.code
       /\ t.fail = s.fail /\ t.okay = s.okay
  <2>1. s.hits + hits \in Nat
    BY DEF StatsOf
  <2>. QED
    BY <1>9, <2>1 DEF StatsOf
<1>12. /\ stats' \in [Browsers -> StatsOf] /\ \A c \in Browsers \ {b} : stats'[c] = stats[c]
       /\ stats'[b].hits = stats[b].hits + hits
       /\ stats'[b].code = stats[b].code /\ stats'[b].fail = stats[b].fail
       /\ stats'[b].okay = stats[b].okay
  BY <1>8, <1>10, <1>11
<1>13. hits + Cardinality(Owing(l.stack)) =< Cardinality(Owing(at[b].stack))
  BY <1>1, <1>5
<1>14. l.pc \in Asking /\ l.stack[1].why = at[b].stack[1].why
  BY <1>1, <1>2, <1>5 DEF Asking
<1>15. l.ret => at[b].ret
  BY <1>2, <1>6
<1>16. UNCHANGED <<my, failed, cancelled, seen, replies>>
  BY DEF BackInRequest
<1>. QED
  BY <1>1, <1>2, <1>4, <1>5, <1>12, <1>13, <1>14, <1>15, <1>16, GoesOn

LEMMA BackFromAgainStep ==
    ASSUME BInv, NEW b \in Browsers, at[b].pc = "return", BackFromAgain(b),
           UNCHANGED <<my, cancelled, replies>>
    PROVE  BInv'
<1>1. PICK new \in Seq(FrameOf) :
        /\ new = Caller(b) /\ Stacked(new) /\ Bottomed(new) /\ new[1] = at[b].stack[1]
        /\ 0 + Cardinality(Owing(new)) =< Cardinality(Owing(at[b].stack))
  BY TopIs DEF BackFromAgain, Tops, One
<1>2. PICK r \in LocalOf : r = at[b]
  BY Own
<1>3. PICK l : l = [r EXCEPT !.stack = new]
  OBVIOUS
<1>4. at' = [at EXCEPT ![b] = l]
  BY <1>1, <1>2, <1>3, Own DEF BackFromAgain, Typed
<1>5. /\ l \in LocalOf /\ l.pc = r.pc /\ l.x = r.x /\ l.stack = new
      /\ l.www = r.www /\ l.proxy = r.proxy
  BY <1>3 DEF LocalOf
<1>6. l.ret = r.ret
  BY <1>3 DEF LocalOf
<1>7. l.pc \in Asking /\ l.stack[1].why = at[b].stack[1].why
  BY <1>1, <1>2, <1>5 DEF Asking
<1>8. l.ret => at[b].ret
  BY <1>2, <1>6
<1>9. /\ UNCHANGED <<my, failed, cancelled, seen, replies>> /\ stats' = stats
      /\ stats \in [Browsers -> StatsOf] /\ stats[b].hits + 0 = stats[b].hits
  BY Own DEF BackFromAgain, Typed, StatsOf
<1>. QED
  BY <1>1, <1>2, <1>4, <1>5, <1>7, <1>8, <1>9, GoesOn

LEMMA BackFromLoginStep ==
    ASSUME BInv, NEW b \in Browsers, at[b].pc = "return", BackFromLogin(b),
           UNCHANGED <<my, cancelled, replies>>
    PROVE  BInv'
<1>1. PICK new \in Seq(FrameOf) :
        /\ new = Caller(b) /\ Stacked(new) /\ Bottomed(new) /\ new[1] = at[b].stack[1]
        /\ 0 + Cardinality(Owing(new)) =< Cardinality(Owing(at[b].stack))
        /\ new[Len(new)].i < AuthUrls /\ Cardinality(Owing(new)) \in Nat
  BY TopIs DEF BackFromLogin, Tops, One
<1>2. PICK r \in LocalOf : r = at[b]
  BY Own
<1>3. /\ UNCHANGED <<my, failed, cancelled, seen, replies>> /\ stats' = stats
      /\ stats \in [Browsers -> StatsOf] /\ stats[b].hits + 0 = stats[b].hits
      /\ at \in [Browsers -> LocalOf]
  BY Own DEF BackFromLogin, Typed, StatsOf
<1>4. ASSUME NEW pc \in {"send", "logins"}, NEW stack \in Seq(FrameOf),
             Stacked(stack), Bottomed(stack), stack[1].why = at[b].stack[1].why,
             Cardinality(Owing(stack)) = Cardinality(Owing(new)),
             at' = [at EXCEPT ![b].pc = pc, ![b].stack = stack]
      PROVE  BInv'
  <2>1. PICK k : k = [r EXCEPT !.pc = pc]
    OBVIOUS
  <2>2. PICK l : l = [k EXCEPT !.stack = stack]
    OBVIOUS
  <2>3. k \in LocalOf /\ k.pc = pc /\ k.x = r.x /\ k.www = r.www /\ k.proxy = r.proxy
    <3>1. pc \in Places
      BY DEF Places
    <3>. QED
      BY <2>1, <3>1 DEF LocalOf
  <2>4. /\ l \in LocalOf /\ l.pc = pc /\ l.x = r.x /\ l.stack = stack
        /\ l.www = r.www /\ l.proxy = r.proxy
    BY <2>2, <2>3 DEF LocalOf
  <2>5. at' = [at EXCEPT ![b] = l]
    BY <1>2, <1>3, <1>4, <2>1, <2>2, <2>3
  <2>6. l.pc \in Asking /\ l.pc # "return"
    BY <2>4 DEF Asking
  <2>7. 0 + Cardinality(Owing(l.stack)) =< Cardinality(Owing(at[b].stack))
    BY <1>1, <1>4, <2>4
  <2>. QED
    BY <1>2, <1>3, <1>4, <2>4, <2>5, <2>6, <2>7, GoesOn
<1>5. CASE at[b].ret
  <2>1. PICK stack \in Seq(FrameOf) :
          /\ stack = Append(new, Frame("again"))
          /\ Stacked(stack) /\ Bottomed(stack) /\ stack[1] = new[1]
          /\ Cardinality(Owing(stack)) = Cardinality(Owing(new))
    <3>1. "again" \in Reasons /\ "again" \notin Tops
      BY DEF Reasons, Tops
    <3>2. One("again" \in {"redirect", "answer"}) = 0
      BY DEF One
    <3>3. new # << >> /\ new[1].why \in Tops
      BY <1>1 DEF Bottomed
    <3>. DEFINE new2 == Append(new, Frame("again"))
    <3>4. /\ new2 \in Seq(FrameOf) /\ Stacked(new2) /\ Bottomed(new2) /\ new2[1] = new[1]
          /\ Cardinality(Owing(new2))
               = Cardinality(Owing(new)) + One("again" \in {"redirect", "answer"})
      BY <1>1, <3>1, <3>3, Pushed, Zenon
    <3>5. Cardinality(Owing(new2)) = Cardinality(Owing(new)) + 0
      BY <3>2, <3>4, Zenon
    <3>. HIDE DEF new2
    <3>6. Cardinality(Owing(new2)) = Cardinality(Owing(new))
      BY <1>1, <3>5
    <3>. QED
      BY <3>4, <3>6, Zenon DEF new2
  <2>2. at' = [at EXCEPT ![b].pc = "send", ![b].stack = stack]
    BY <1>1, <1>5, <2>1 DEF BackFromLogin
  <2>. QED
    BY <1>1, <1>4, <2>1, <2>2
<1>6. CASE ~at[b].ret
  <2>1. PICK stack \in Seq(FrameOf) :
          /\ stack = PassedOver(new)
          /\ Stacked(stack) /\ Bottomed(stack) /\ stack[1].why = new[1].why
          /\ Cardinality(Owing(stack)) = Cardinality(Owing(new))
    BY <1>1, Passed
  <2>2. at' = [at EXCEPT ![b].pc = "logins", ![b].stack = stack]
    BY <1>1, <1>6, <2>1 DEF BackFromLogin
  <2>. QED
    BY <1>1, <1>4, <2>1, <2>2
<1>. QED
  BY <1>5, <1>6

\* Fewer owed answers leave the count below the replies.
LEMMA StillBelow ==
    ASSUME NEW h \in Nat, NEW old \in Nat, NEW now \in Nat, NEW c \in Nat, NEW f \in Nat,
           now =< old, h + old =< c + f
    PROVE  h + now =< c + f
  OBVIOUS

\* Back in start(): the pass, its parts or the next login.
LEMMA BackInStartStep ==
    ASSUME BInv, NEW b \in Browsers, at[b].pc = "return", BackInStart(b),
           UNCHANGED <<my, cancelled, replies>>
    PROVE  BInv'
<1>1. PICK new \in Seq(FrameOf) :
        /\ new = Caller(b) /\ new = << >> /\ Top(b) = at[b].stack[1]
        /\ Cardinality(Owing(new)) =< Cardinality(Owing(at[b].stack))
        /\ Cardinality(Owing(new)) \in Nat /\ Cardinality(Owing(at[b].stack)) \in Nat
  <2>1. Top(b).why \in Tops
    BY DEF BackInStart, Tops
  <2>2. Top(b).why \notin {"redirect", "answer"}
    BY <2>1 DEF Tops
  <2>. QED
    BY <2>1, <2>2, TopIs DEF One
<1>2. PICK mine \in {0, 1} : mine = 1 <=> at[b].stack[1].why # "login"
  OBVIOUS
<1>3. PICK ret \in {0, 1} : ret = 1 <=> at[b].ret
  OBVIOUS
<1>. DEFINE pc == IF mine = 1 THEN "parts" ELSE "head"
<1>4. /\ at \in [Browsers -> LocalOf] /\ seen \in [Browsers -> SeenOf] /\ failed \in Nat
      /\ replies \in Nat /\ cancelled \subseteq Browsers /\ stats \in [Browsers -> StatsOf]
  BY Own DEF Typed
<1>5. PICK r \in LocalOf : r = at[b]
  BY <1>4
<1>6. \E l \in LocalOf : /\ at' = [at EXCEPT ![b] = l] /\ l.pc = pc /\ l.x = r.x
                         /\ l.stack = << >> /\ l.www = r.www /\ l.proxy = r.proxy
  <2>1. PICK l1 : l1 = [r EXCEPT !.pc = pc]
    OBVIOUS
  <2>2. PICK l2 : l2 = [l1 EXCEPT !.stack = new]
    OBVIOUS
  <2>3. PICK l3 : l3 = [l2 EXCEPT !.ret = FALSE]
    OBVIOUS
  <2>4. PICK l4 : l4 = [l3 EXCEPT !.code = None]
    OBVIOUS
  <2>5. pc \in Places /\ None \in Codes
    BY DEF Places, Codes
  <2>6. at' = [at EXCEPT ![b].pc = pc, ![b].stack = new, ![b].ret = FALSE, ![b].code = None]
    BY <1>1, <1>2 DEF BackInStart
  <2>. HIDE DEF pc
  <2>7. l1 \in LocalOf /\ l1.pc = pc /\ l1.x = r.x /\ l1.www = r.www /\ l1.proxy = r.proxy
    BY <2>1, <2>5 DEF LocalOf
  <2>8. /\ l2 \in LocalOf /\ l2.pc = pc /\ l2.x = r.x /\ l2.stack = new
        /\ l2.www = r.www /\ l2.proxy = r.proxy
    BY <2>2, <2>7 DEF LocalOf
  <2>9. /\ l3 \in LocalOf /\ l3.pc = pc /\ l3.x = r.x /\ l3.stack = new
        /\ l3.www = r.www /\ l3.proxy = r.proxy
    BY <2>3, <2>8 DEF LocalOf
  <2>10. /\ l4 \in LocalOf /\ l4.pc = pc /\ l4.x = r.x /\ l4.stack = new
         /\ l4.www = r.www /\ l4.proxy = r.proxy
    BY <2>4, <2>5, <2>9 DEF LocalOf
  <2>11. at' = [at EXCEPT ![b] = l4]
    BY <1>4, <1>5, <2>1, <2>2, <2>3, <2>4, <2>6, <2>7, <2>8, <2>9
  <2>. QED
    BY <1>1, <2>10, <2>11
<1>7. PICK l \in LocalOf : /\ at' = [at EXCEPT ![b] = l] /\ l.pc = pc /\ l.x = r.x
                           /\ l.stack = << >> /\ l.www = r.www /\ l.proxy = r.proxy
  BY <1>6
<1>8. /\ seen' \in [Browsers -> SeenOf] /\ \A c \in Browsers \ {b} : seen'[c] = seen[c]
      /\ seen'[b].tops = seen[b].tops + mine /\ seen'[b].answers = 0
      /\ seen'[b].late = seen[b].late /\ seen'[b].loops = seen[b].loops
      /\ seen'[b].proxied = seen[b].proxied
  <2>. DEFINE n == seen[b].tops + mine
  <2>1. PICK d \in SeenOf : d = seen[b]
    BY <1>4
  <2>2. PICK d1 : d1 = [d EXCEPT !.tops = n]
    OBVIOUS
  <2>3. PICK d2 : d2 = [d1 EXCEPT !.answers = 0]
    OBVIOUS
  <2>4. n \in Nat
    BY <2>1 DEF SeenOf
  <2>5. seen' = [seen EXCEPT ![b].tops = n, ![b].answers = 0]
    BY <1>1, <1>2 DEF BackInStart, One
  <2>. HIDE DEF n
  <2>6. /\ d1 \in SeenOf /\ d1.tops = n /\ d1.loops = d.loops /\ d1.late = d.late
        /\ d1.proxied = d.proxied
    BY <2>2, <2>4 DEF SeenOf
  <2>7. /\ d2 \in SeenOf /\ d2.tops = n /\ d2.loops = d.loops /\ d2.late = d.late
        /\ d2.proxied = d.proxied /\ d2.answers = 0
    BY <2>3, <2>6 DEF SeenOf
  <2>8. seen' = [seen EXCEPT ![b] = d2]
    BY <1>4, <2>1, <2>2, <2>3, <2>5
  <2>. QED
    BY <1>4, <2>1, <2>7, <2>8 DEF n
<1>9. PICK more \in {0, 1} : failed' = failed + more /\ (more = 1 <=> mine = 1 /\ ret = 0)
  BY <1>1, <1>2, <1>3 DEF BackInStart, One
<1>10. stats' = stats
  BY DEF BackInStart
<1>11. at'[b] = l /\ at' \in [Browsers -> LocalOf] /\ \A c \in Browsers \ {b} : at'[c] = at[c]
  BY <1>4, <1>7
<1>12. OnlySteps(b)
  BY <1>4, <1>8, <1>9, <1>10, <1>11 DEF OnlySteps
<1>13. StackOK(l)
  <2>1. r.x < Reps
    BY <1>5, Own DEF StackOK, Asking
  <2>. QED
    BY <1>7, <2>1 DEF StackOK, Asking
<1>14. Bidding(b)'
  <2>1. /\ seen[b].proxied =< at[b].proxy /\ seen[b].proxied < Bids
        /\ r.www \in Nat
    BY <1>5, Own DEF Bidding, LocalOf
  <2>. QED
    BY <1>5, <1>7, <1>8, <1>11, <2>1, BrowserAssumption DEF Bidding
<1>15. Turns(b)'
  <2>1. Turns(b) /\ at[b].pc = "return"
    BY Own
  <2>2. failed >= Failures => failed' >= Failures
    BY <1>4, <1>9, BrowserAssumption
  <2>3. /\ at'[b].pc = pc /\ at'[b].x = at[b].x
    BY <1>5, <1>7, <1>11
  <2>. QED
    BY <1>2, <1>8, <2>1, <2>2, <2>3 DEF Turns, Asking
<1>16. /\ stats[b].hits \in Nat /\ stats[b].code \in Nat /\ stats[b].fail \in Nat
       /\ stats[b].okay \in Nat /\ seen[b].tops \in Nat
  BY <1>4 DEF StatsOf, SeenOf
<1>17. Classed(b)'
  <2>1. /\ stats[b].hits + Cardinality(Owing(at[b].stack)) =< stats[b].code + stats[b].fail
        /\ stats[b].okay =< stats[b].code
    BY Own DEF Classed
  <2>2. Cardinality(Owing(at'[b].stack)) =< Cardinality(Owing(at[b].stack))
        /\ Cardinality(Owing(at'[b].stack)) \in Nat
    BY <1>1, <1>7, <1>11
  <2>3. stats[b].hits + Cardinality(Owing(at'[b].stack)) =< stats[b].code + stats[b].fail
    <3>. DEFINE now == Cardinality(Owing(at'[b].stack))
                old == Cardinality(Owing(at[b].stack))
    <3>1. now \in Nat /\ old \in Nat /\ now =< old
      BY <1>1, <2>2
    <3>. HIDE DEF now, old
    <3>2. stats[b].hits + old =< stats[b].code + stats[b].fail
      BY <2>1 DEF old
    <3>3. stats[b].hits + now =< stats[b].code + stats[b].fail
      BY <1>16, <3>1, <3>2, StillBelow, ZenonT(40)
    <3>. QED
      BY <3>3 DEF now
  <2>. QED
    BY <1>10, <2>1, <2>3 DEF Classed
<1>18. Unmatched(b)' - Unmatched(b) =< failed' - failed
  <2>1. Unmatched(b) = seen[b].tops + ret - stats[b].hits
    BY <1>3 DEF Unmatched, One
  <2>2. Unmatched(b)' = seen[b].tops + mine + 0 - stats[b].hits
    BY <1>7, <1>8, <1>10, <1>11 DEF Unmatched, One
  <2>3. failed' - failed = more
    BY <1>4, <1>9
  <2>4. mine - ret =< more
    BY <1>9
  <2>5. Unmatched(b)' - Unmatched(b) = mine - ret
    <3>1. \A t, h \in Nat : (t + mine + 0 - h) - (t + ret - h) = mine - ret
      OBVIOUS
    <3>. QED
      BY <1>16, <2>1, <2>2, <3>1
  <2>. HIDE <2>1, <2>2
  <2>. QED
    BY <2>3, <2>4, <2>5
<1>19. (stats'[b].code + stats'[b].fail) - (stats[b].code + stats[b].fail)
         =< replies' - replies
  BY <1>4, <1>10, <1>16
<1>. QED
  BY <1>11, <1>12, <1>13, <1>14, <1>15, <1>17, <1>18, <1>19, OwnSuffices

LEMMA BackStep == ASSUME BInv, NEW b \in Browsers, Back(b) PROVE BInv'
  BY BackInStartStep, BackInRequestStep, BackFromLoginStep, BackFromAgainStep DEF Back, At

-----------------------------------------------------------------------------
(* The invariant, from the start and by every step.                        *)

LEMMA BInvInit == Init => BInv
<1>. SUFFICES ASSUME Init PROVE BInv
  OBVIOUS
<1>. USE BrowserAssumption
<1>1. Typed
  <2>1. my \in [timed : BOOLEAN, users : 1 .. MaxUsers] /\ failed = 0 /\ replies = 0
        /\ cancelled = {}
    BY DEF Init
  <2>2. ASSUME NEW b \in Browsers
        PROVE  [pc |-> IF b <= my.users THEN "start" ELSE "done", x |-> 0, stack |-> << >>,
                code |-> None, ret |-> FALSE, parts |-> 0, www |-> 0, proxy |-> 0] \in LocalOf
    <3>. DEFINE pc == IF b <= my.users THEN "start" ELSE "done"
    <3>1. pc \in Places /\ None \in Codes /\ 0 \in 0 .. Reps /\ << >> \in Seq(FrameOf)
      BY DEF Places, Codes
    <3>. HIDE DEF pc
    <3>2. [pc |-> pc, x |-> 0, stack |-> << >>, code |-> None, ret |-> FALSE,
           parts |-> 0, www |-> 0, proxy |-> 0] \in LocalOf
      BY <3>1 DEF LocalOf
    <3>. QED
      BY <3>2 DEF pc
  <2>3. at \in [Browsers -> LocalOf]
    BY <2>2, Zenon DEF Init
  <2>4. stats \in [Browsers -> StatsOf] /\ seen \in [Browsers -> SeenOf]
    BY DEF Init, StatsOf, SeenOf
  <2>. QED
    BY <2>1, <2>3, <2>4 DEF Typed
<1>2. ASSUME NEW b \in Browsers
      PROVE  /\ at[b].pc = IF b <= my.users THEN "start" ELSE "done"
             /\ at[b].x = 0 /\ at[b].stack = << >> /\ at[b].www = 0 /\ at[b].proxy = 0
             /\ stats[b].hits = 0 /\ stats[b].code = 0 /\ stats[b].okay = 0 /\ stats[b].fail = 0
             /\ seen[b].tops = 0 /\ seen[b].loops = 0 /\ seen[b].late = 0
             /\ seen[b].answers = 0 /\ seen[b].proxied = 0
  BY DEF Init
<1>3. Counted
  <2>1. [b \in Browsers |-> Unmatched(b)] = [b \in Browsers |-> 0]
    <3>1. \A b \in Browsers : Unmatched(b) = 0
      BY <1>2 DEF Unmatched, One
    <3>. QED
      BY <3>1
  <2>2. Total("code") = 0 /\ Total("fail") = 0
    <3>1. /\ [b \in Browsers |-> stats[b]["code"]] = [b \in Browsers |-> 0]
          /\ [b \in Browsers |-> stats[b]["fail"]] = [b \in Browsers |-> 0]
      BY <1>2
    <3>. QED
      BY <3>1, SumOfNone, Zenon DEF Total
  <2>3. Summed([b \in Browsers |-> Unmatched(b)]) = 0
    BY <2>1, SumOfNone, Zenon
  <2>. QED
    BY <2>2, <2>3 DEF Counted, Init
<1>4. ASSUME NEW b \in Browsers PROVE StackOK(at[b]) /\ Bidding(b) /\ Turns(b) /\ Classed(b)
  <2>1. StackOK(at[b])
    BY <1>2 DEF StackOK, Asking
  <2>2. Bidding(b)
    BY <1>2 DEF Bidding
  <2>3. Turns(b)
    BY <1>2 DEF Turns, Asking
  <2>4. Classed(b)
    <3>1. Owing(at[b].stack) = {}
      BY <1>2 DEF Owing
    <3>. QED
      BY <1>2, <3>1, FS_EmptySet DEF Classed
  <2>. QED
    BY <2>1, <2>2, <2>3, <2>4
<1>. QED
  BY <1>1, <1>3, <1>4 DEF BInv

LEMMA CancelStep == ASSUME BInv, NEW b \in Browsers, Cancel(b) PROVE BInv'
<1>. USE Own
<1>1. OnlySteps(b)
  BY DEF Cancel, Typed, OnlySteps
<1>2. StackOK(at'[b]) /\ Bidding(b)' /\ Turns(b)' /\ Classed(b)'
  BY DEF Cancel, Bidding, Turns, Classed
<1>3. Unmatched(b)' - Unmatched(b) =< failed' - failed
  <2>1. Unmatched(b)' = Unmatched(b)
    BY DEF Cancel, Unmatched
  <2>2. PICK o \in {0, 1} : o = One(at[b].pc = "return" /\ at[b].ret)
    BY DEF One
  <2>3. Unmatched(b) \in Int /\ failed \in Nat
    BY <2>2 DEF Typed, Unmatched, StatsOf, SeenOf
  <2>. QED
    BY <2>1, <2>3 DEF Cancel
<1>4. (stats'[b].code + stats'[b].fail) - (stats[b].code + stats[b].fail)
        =< replies' - replies
  BY DEF Cancel, Typed, StatsOf
<1>. QED
  BY <1>1, <1>2, <1>3, <1>4, OwnSuffices

LEMMA BInvStep == BInv /\ [Next]_vars => BInv'
<1>. SUFFICES ASSUME BInv, [Next]_vars PROVE BInv'
  OBVIOUS
<1>1. CASE UNCHANGED vars
  <2>1. Typed' /\ Counted'
    BY <1>1 DEF vars, BInv, Typed, Counted, Total, Summed, Unmatched
  <2>2. ASSUME NEW b \in Browsers
        PROVE  StackOK(at'[b]) /\ Bidding(b)' /\ Turns(b)' /\ Classed(b)'
    BY <1>1, Own DEF vars, Bidding, Turns, Classed
  <2>. QED
    BY <2>1, <2>2 DEF BInv, StackOK
<1>2. ASSUME NEW b \in Browsers, Step(b) \/ Die(b) \/ Cancel(b) PROVE BInv'
  <2>1. CASE Exchange(b)
    <3>1. ServerChallenge(b) => BInv'
      BY ChallengeStep DEF ServerChallenge
    <3>2. ProxyChallenge(b) => BInv'
      BY ChallengeStep DEF ProxyChallenge
    <3>. QED
      BY <2>1, <3>1, <3>2, SocketFailsStep, UselessStep, FtpReplyStep, PageStep, LocationStep,
         ErrorStep, ForbiddenStep DEF Exchange
  <2>. QED
    BY <1>2, <2>1, StartStep, NextPassStep, PopPartStep, EndOfPassStep, FinishStep, LoginStep,
       BackStep, DieStep, CancelStep DEF Step
<1>. QED
  BY <1>1, <1>2 DEF Next

LEMMA BInvHolds == Spec => []BInv
  BY BInvInit, BInvStep, PTL DEF Spec

-----------------------------------------------------------------------------
(* The theorems.                                                           *)

\* Every browser is at a place start() and __request() have, its pass is one of my.reps,
\* and its loop over my.aurl stays within the logins.
THEOREM BrowsersTyped == Spec => []BrowserTypeOK
<1>1. BInv => BrowserTypeOK
  <2>. SUFFICES ASSUME BInv PROVE BrowserTypeOK
    OBVIOUS
  <2>1. Typed
    BY DEF BInv
  <2>2. ASSUME NEW b \in Browsers
        PROVE  /\ at[b].pc \in {"start", "head", "send", "logins", "return", "parts", "done"}
               /\ at[b].x \in 0 .. Reps /\ at[b].parts \in Nat
               /\ at[b].code \in {None, 200, 301, 401, 403, 404, 407, 500}
               /\ at[b].www \in Nat /\ at[b].proxy \in Nat
    <3>1. at[b] \in LocalOf
      BY <2>1 DEF Typed
    <3>2. /\ at[b].pc \in Places /\ at[b].x \in 0 .. Reps /\ at[b].parts \in Nat
          /\ at[b].code \in Codes /\ at[b].www \in Nat /\ at[b].proxy \in Nat
      BY <3>1 DEF LocalOf
    <3>. QED
      BY <3>2, Zenon DEF Places, Codes
  <2>3. ASSUME NEW b \in Browsers, NEW n \in 1 .. Len(at[b].stack)
        PROVE  at[b].stack[n].i \in 0 .. AuthUrls
    <3>1. at[b].stack \in Seq(FrameOf)
      BY <2>1 DEF Typed, LocalOf
    <3>2. at[b].stack[n] \in FrameOf
      BY <3>1
    <3>. QED
      BY <3>2 DEF FrameOf
  <2>. QED
    BY <2>1, <2>2, <2>3 DEF BrowserTypeOK, Typed
<1>. QED
  BY <1>1, BInvHolds, PTL

\* However challenges, redirects and logins follow one another, no page is answered for
\* more than my.bids - 1 challenges of a server, and no siege for more of a proxy's.
THEOREM BidsBoundAnswers == Spec => []ChallengesBounded
<1>1. BInv => ChallengesBounded
  BY DEF BInv, Bidding, ChallengesBounded
<1>. QED
  BY <1>1, BInvHolds, PTL

\* A browser that nothing stopped made its my.reps passes, and once my.failed is at the
\* threshold a browser begins at most one pass more, although it reads it without the lock.
THEOREM PassesAsAsked == Spec => []RunsItsShare
<1>1. BInv => RunsItsShare
  <2>. SUFFICES ASSUME BInv PROVE RunsItsShare
    OBVIOUS
  <2>1. \A b \in Browsers : Turns(b)
    BY DEF BInv
  <2>2. ASSUME NEW b \in 1 .. my.users, At(b, "done"), b \notin cancelled,
               ~TooManyFailures, ~my.timed
        PROVE  seen[b].loops = Reps
    <3>1. my.users \in 1 .. MaxUsers
      BY DEF BInv, Typed
    <3>2. b \in Browsers /\ b =< my.users
      BY <3>1, BrowserAssumption DEF Browsers
    <3>. QED
      BY <2>1, <2>2, <3>2, Zenon DEF Turns, At, TooManyFailures
  <2>3. \A b \in Browsers : seen[b].late <= 1
    BY <2>1 DEF Turns
  <2>. QED
    BY <2>2, <2>3 DEF RunsItsShare
<1>. QED
  BY <1>1, BInvHolds, PTL

\* Every page and part start() asked for is a hit or counted in my.failed; no reply is two
\* hits, nor a success and a failure, and every hit was classified: for all browsers
\* together, each of which counts on its own.
THEOREM CountedOnceOnly == Spec => []CountedOnce
<1>1. BInv => CountedOnce
  <2>. SUFFICES ASSUME BInv PROVE CountedOnce
    OBVIOUS
  <2>1. /\ failed \in Nat /\ replies \in Nat /\ Counted /\ at \in [Browsers -> LocalOf]
        /\ \A b \in Browsers : Classed(b)
    BY DEF BInv, Typed
  <2>2. ASSUME NEW b \in Browsers
        PROVE  /\ seen[b].tops \in Nat /\ stats[b].hits \in Nat /\ stats[b].code \in Nat
               /\ stats[b].fail \in Nat /\ stats[b].okay \in Nat
               /\ Unmatched(b) \in Int /\ seen[b].tops =< Unmatched(b) + stats[b].hits
               /\ stats[b].hits =< stats[b].code + stats[b].fail
    <3>1. /\ seen[b].tops \in Nat /\ stats[b].hits \in Nat /\ stats[b].code \in Nat
          /\ stats[b].fail \in Nat /\ stats[b].okay \in Nat
      BY DEF BInv, Typed, SeenOf, StatsOf
    <3>2. PICK o \in {0, 1} : o = One(at[b].pc = "return" /\ at[b].ret)
      BY DEF One
    <3>3. Unmatched(b) = seen[b].tops + o - stats[b].hits
      BY <3>2 DEF Unmatched
    <3>4. PICK n \in Nat : n = Cardinality(Owing(at[b].stack))
      BY Own, OwingIsFinite
    <3>5. stats[b].hits + n =< stats[b].code + stats[b].fail
      BY <2>1, <3>4 DEF Classed
    <3>. QED
      BY <3>1, <3>3, <3>5
  <2>. DEFINE tops == [b \in Browsers |-> seen[b].tops]
              owed == [b \in Browsers |-> Unmatched(b)]
              of(field) == [b \in Browsers |-> stats[b][field]]
  <2>3. /\ tops \in [Browsers -> Int] /\ owed \in [Browsers -> Int]
        /\ of("hits") \in [Browsers -> Int] /\ of("code") \in [Browsers -> Int]
        /\ of("fail") \in [Browsers -> Int]
    BY <2>2
  <2>4. \A b \in Browsers : tops[b] =< owed[b] + of("hits")[b]
    BY <2>2
  <2>5. \A b \in Browsers : of("hits")[b] =< of("code")[b] + of("fail")[b]
    BY <2>2
  <2>6. /\ Total("hits") = Summed(of("hits")) /\ Total("code") = Summed(of("code"))
        /\ Total("fail") = Summed(of("fail"))
    BY DEF Total
  <2>7. Summed(owed) =< failed /\ Total("code") + Total("fail") =< replies
    BY <2>1 DEF Counted
  <2>8. \A b \in Browsers : /\ stats[b].hits <= stats[b].code + stats[b].fail
                            /\ stats[b].okay <= stats[b].code
    BY <2>1, <2>2 DEF Classed
  <2>9. Summed(tops) =< Total("hits") + failed /\ Total("hits") =< replies
    <3>. HIDE DEF tops, owed, of
    <3>1. Summed(tops) =< Summed(owed) + Summed(of("hits"))
      BY <2>3, <2>4, SumAtMost
    <3>2. Summed(of("hits")) =< Summed(of("code")) + Summed(of("fail"))
      BY <2>3, <2>5, SumAtMost
    <3>3. /\ Summed(tops) \in Int /\ Summed(owed) \in Int /\ Summed(of("hits")) \in Int
          /\ Summed(of("code")) \in Int /\ Summed(of("fail")) \in Int
      BY <2>3, SumIsInt
    <3>. QED
      BY <2>1, <2>6, <2>7, <3>1, <3>2, <3>3
  <2>. QED
    BY <2>7, <2>8, <2>9 DEF CountedOnce
<1>. QED
  BY <1>1, BInvHolds, PTL
=============================================================================
