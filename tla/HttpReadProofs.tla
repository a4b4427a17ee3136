--------------------------- MODULE HttpReadProofs ---------------------------
(***************************************************************************)
(* HttpRead, for every size of the buffers and for replies of every        *)
(* length and in any chunks, however the bytes arrive: http_read puts the  *)
(* body together, and stays within what it has allocated.                  *)
(***************************************************************************)
EXTENDS HttpRead, WellFoundedInduction, SequenceTheorems, TLAPS

-----------------------------------------------------------------------------
(* The inductive invariant.                                                *)

Elems == {Headers} \cup [is : {"line"}, size : Int] \cup [is : {"byte"}, of : Nat, at : Nat]
Places == {"start", "head", "length", "close", "size", "last", "chunk", "read", "broken"}

\* The buffer has room, a call takes no more than it wants, and what it reports without an
\* error is what it took.
Typed ==
    /\ up \in {"open", "closed", "reset"} /\ late \in BOOLEAN /\ requests \in 0 .. Requests
    /\ todo \in Seq(Elems) /\ wire \in Seq(Elems) /\ (up = "reset" => wire = << >>)
    /\ buffer \in Seq(Elems) /\ Len(buffer) < BufSize
    /\ call \in [want : Nat, out : Seq(Elems), over : BOOLEAN, res : Int]
    /\ Len(call.out) <= call.want
    /\ call.over => call.res \in {Len(call.out), 0, -1}
    /\ ~call.over => call.res = Len(call.out)
    /\ body \in [ptr : Seq(Elems), size : Nat \ {0}, bytes : 0 .. SizeT - 1, chunk : Nat, n : Nat]
    /\ body.n <= body.chunk
    /\ pc \in Places
    /\ pc \in {"start", "read", "broken"} => call.over
    /\ IF pc = "start" THEN body = Empty /\ reply.framing = "close"
       ELSE requests > 0 /\ reply \in Replies(requests)

\* What a call wants, by where it was made: no more than the chunk lacks, or ptr can hold.
Wanted ==
    /\ pc \in {"head", "size", "last"} => call.want = 1
    /\ pc \in {"length", "close"} => call.want > 0
    /\ pc \in {"size", "chunk", "last"} => body.bytes < body.size
    /\ pc = "chunk" => /\ call.want \in 1 .. body.chunk - body.n
                       /\ call.want <= body.size - body.bytes

\* A call that ended with less than it wanted met the end of the stream or an error.
Full == call.res = call.want /\ Len(call.out) = call.want
Stopped == call.over =>
    \/ Full
    \/ up = "closed" /\ wire = << >> /\ buffer = << >> /\ call.res = Len(call.out)
    \/ up = "reset" /\ call.res = 0 /\ Len(call.out) + Len(buffer) < call.want

\* What a call has taken, what is in the buffer, and what is to come (or was lost in a
\* reset) are seq.
RemainsOf(side, out, buf, net, rest, seq) ==
    LET ahead == After(Len(out) + Len(buf), seq)
    IN  /\ out \o (buf \o ahead) = seq
        /\ IF side = "reset" THEN net = << >> ELSE net \o rest = ahead
Remains(seq) == RemainsOf(up, call.out, buffer, wire, todo, seq)

\* Nobody answers any more.
Hopeless == up # "open" /\ wire = << >> /\ buffer = << >> /\ call.out = << >>

\* What is in ptr, and what remains, by where the browser is in the reply.
Chunk(k) == FromChunk(requests, reply.ends)[k]
Start(k) == Before(reply.ends, k)
InPtr == body.ptr = Bytes(requests, 1, body.bytes)

InStart == wire = << >> /\ (up = "open" => buffer = << >> /\ todo = << >>)
InHead == body = Empty /\ (Hopeless \/ Remains(Stream(requests, reply)))
InLength == /\ reply.framing = "length" /\ call.want = Len(reply.body)
            /\ \/ body.bytes = 0 /\ body.ptr = << >> /\ Remains(reply.body)
               \/ Hopeless /\ IsPrefix(body.ptr, reply.body)
InClose == /\ reply.framing = "close" /\ body.bytes <= Len(reply.body)
           /\ Remains(After(body.bytes, reply.body))
InSize == /\ reply.framing = "chunked" /\ InPtr
          /\ \E k \in 1 .. Len(reply.ends) + 1 :
               /\ body.bytes = Start(k)
               /\ Remains(Chunk(k)) \/ Remains(<<Line(Blank)>> \o Chunk(k))
InChunk == /\ reply.framing = "chunked" /\ InPtr
           /\ \E k \in 1 .. Len(reply.ends) :
                /\ body.bytes = Start(k) + body.n /\ body.chunk = reply.ends[k] - Start(k)
                /\ Remains(Bytes(requests, body.bytes + 1, reply.ends[k])
                             \o (<<Line(Blank)>> \o Chunk(k + 1)))
InLast == /\ reply.framing = "chunked" /\ InPtr /\ body.bytes = Start(Len(reply.ends) + 1)
          /\ Remains(<<Line(Blank)>>)
InRead == /\ InStart
          /\ reply.framing # "close" =>
               IsPrefix(body.ptr, reply.body)
               /\ (up = "open" => body.ptr = reply.body /\ body.bytes = Len(reply.body))
          /\ reply.framing = "close" =>
               /\ up # "open"
               /\ up = "closed" /\ todo = << >> => body.bytes = Len(reply.body) /\ buffer = << >>
          /\ reply.framing = "chunked" => body.bytes < body.size

Reading == /\ pc = "start" => InStart
           /\ pc = "head" => InHead
           /\ pc = "length" => InLength
           /\ pc = "close" => InClose
           /\ pc = "size" => InSize
           /\ pc = "chunk" => InChunk
           /\ pc = "last" => InLast
           /\ pc = "read" => InRead
           /\ pc = "broken" => body = Empty

HInv == Typed /\ Wanted /\ (late \/ (Stopped /\ Reading))

-----------------------------------------------------------------------------
(* Sequences: a part taken from the front, and the rest.                   *)

\* s \o t, when only that \o is associative matters.
Cat(s, t) == s \o t

LEMMA CatIs ==
    ASSUME NEW E
    PROVE  /\ \A a, b \in Seq(E) : Cat(a, b) \in Seq(E)
           /\ \A a, b, c \in Seq(E) : Cat(Cat(a, b), c) = Cat(a, Cat(b, c))
<1>1. ASSUME NEW a \in Seq(E), NEW b \in Seq(E) PROVE Cat(a, b) \in Seq(E)
  BY ConcatProperties DEF Cat
<1>2. ASSUME NEW a \in Seq(E), NEW b \in Seq(E), NEW c \in Seq(E)
      PROVE  Cat(Cat(a, b), c) = Cat(a, Cat(b, c))
  BY ConcatAssociative DEF Cat
<1>. QED
  BY <1>1, <1>2

\* FirstOf and After cut a sequence in two.
LEMMA FirstOfIs ==
    ASSUME NEW E, NEW s \in Seq(E), NEW n \in Nat
    PROVE  /\ FirstOf(n, s) \in Seq(E)
           /\ Len(FirstOf(n, s)) = IF n < Len(s) THEN n ELSE Len(s)
           /\ \A i \in 1 .. Len(FirstOf(n, s)) : FirstOf(n, s)[i] = s[i]
<1>. DEFINE m == IF n < Len(s) THEN n ELSE Len(s)
<1>1. m \in Nat /\ m =< Len(s) /\ Len(s) \in Nat
  OBVIOUS
<1>. HIDE DEF m
<1>2. m \in Int /\ 1 \in Int /\ \A i \in 1 .. m : s[i] \in E
  BY <1>1
<1>3. /\ SubSeq(s, 1, m) \in Seq(E) /\ Len(SubSeq(s, 1, m)) = IF 1 <= m THEN m - 1 + 1 ELSE 0
      /\ \A i \in 1 .. m - 1 + 1 : SubSeq(s, 1, m)[i] = s[1 + i - 1]
  BY <1>2, SubSeqProperties
<1>4. FirstOf(n, s) = SubSeq(s, 1, m)
  BY DEF FirstOf, m
<1>5. Len(SubSeq(s, 1, m)) = m /\ m - 1 + 1 = m /\ \A i \in 1 .. m : 1 + i - 1 = i
  BY <1>1, <1>3
<1>6. Len(FirstOf(n, s)) = IF n < Len(s) THEN n ELSE Len(s)
  BY <1>4, <1>5 DEF m
<1>. QED
  BY <1>3, <1>4, <1>5, <1>6

LEMMA AfterIs ==
    ASSUME NEW E, NEW s \in Seq(E), NEW n \in Nat
    PROVE  /\ After(n, s) \in Seq(E)
           /\ Len(After(n, s)) = IF n < Len(s) THEN Len(s) - n ELSE 0
           /\ \A i \in 1 .. Len(After(n, s)) : After(n, s)[i] = s[n + i]
<1>1. Len(s) \in Int /\ n + 1 \in Int /\ \A i \in n + 1 .. Len(s) : s[i] \in E
  OBVIOUS
<1>. DEFINE t == SubSeq(s, n + 1, Len(s))
<1>2. /\ t \in Seq(E) /\ Len(t) = IF n + 1 <= Len(s) THEN Len(s) - (n + 1) + 1 ELSE 0
      /\ \A i \in 1 .. Len(s) - (n + 1) + 1 : t[i] = s[n + 1 + i - 1]
  BY <1>1, SubSeqProperties
<1>3. After(n, s) = t
  BY DEF After
<1>. HIDE DEF t
<1>4. Len(t) = IF n < Len(s) THEN Len(s) - n ELSE 0
  BY <1>1, <1>2
<1>5. ASSUME NEW i \in 1 .. Len(t) PROVE t[i] = s[n + i]
  <2>1. i \in 1 .. Len(s) - (n + 1) + 1 /\ n + 1 + i - 1 = n + i
    BY <1>1, <1>4
  <2>. QED
    BY <1>2, <2>1
<1>. QED
  BY <1>2, <1>3, <1>4, <1>5

LEMMA CutInTwo ==
    ASSUME NEW E, NEW s \in Seq(E), NEW n \in Nat
    PROVE  FirstOf(n, s) \o After(n, s) = s
<1>. DEFINE a == FirstOf(n, s)
            b == After(n, s)
<1>1. /\ a \in Seq(E) /\ Len(a) = (IF n < Len(s) THEN n ELSE Len(s)) /\ Len(s) \in Nat
      /\ \A i \in 1 .. Len(a) : a[i] = s[i]
  BY FirstOfIs
<1>2. /\ b \in Seq(E) /\ Len(b) = (IF n < Len(s) THEN Len(s) - n ELSE 0)
      /\ \A i \in 1 .. Len(b) : b[i] = s[n + i]
  BY AfterIs
<1>. HIDE DEF a, b
<1>3. /\ a \o b \in Seq(E) /\ Len(a \o b) = Len(a) + Len(b)
      /\ \A i \in 1 .. Len(a) + Len(b) : (a \o b)[i] = IF i <= Len(a) THEN a[i] ELSE b[i - Len(a)]
  BY <1>1, <1>2, ConcatProperties
<1>4. Len(a \o b) = Len(s)
  BY <1>1, <1>2, <1>3
<1>5. ASSUME NEW i \in 1 .. Len(s) PROVE (a \o b)[i] = s[i]
  <2>1. CASE i <= Len(a)
    BY <1>1, <1>2, <1>3, <1>4, <2>1
  <2>2. CASE ~(i <= Len(a))
    <3>1. n < Len(s) /\ Len(a) = n /\ i - n \in 1 .. Len(b) /\ n + (i - n) = i
      BY <1>1, <1>2, <2>2
    <3>. QED
      BY <1>2, <1>3, <1>4, <2>2, <3>1
  <2>. QED
    BY <2>1, <2>2
<1>. QED
  BY <1>3, <1>4, <1>5, SeqEqual DEF a, b

\* The front of s \o t, and what comes after it.
LEMMA FrontOf ==
    ASSUME NEW E, NEW s \in Seq(E), NEW t \in Seq(E), NEW n \in 0 .. Len(s)
    PROVE  /\ FirstOf(n, s \o t) = FirstOf(n, s)
           /\ After(n, s \o t) = After(n, s) \o t
<1>. DEFINE u == s \o t
<1>1. /\ u \in Seq(E) /\ Len(u) = Len(s) + Len(t)
      /\ \A i \in 1 .. Len(s) + Len(t) : u[i] = IF i <= Len(s) THEN s[i] ELSE t[i - Len(s)]
  BY ConcatProperties
<1>. HIDE DEF u
<1>2. n \in Nat /\ Len(s) \in Nat /\ Len(t) \in Nat /\ n =< Len(s)
  OBVIOUS
<1>3. FirstOf(n, u) = FirstOf(n, s)
  <2>. DEFINE a == FirstOf(n, s)
              b == FirstOf(n, u)
  <2>1. /\ a \in Seq(E) /\ Len(a) = n /\ (\A i \in 1 .. n : a[i] = s[i])
        /\ b \in Seq(E) /\ Len(b) = n /\ \A i \in 1 .. n : b[i] = u[i]
    <3>1. /\ a \in Seq(E) /\ Len(a) = (IF n < Len(s) THEN n ELSE Len(s))
          /\ (\A i \in 1 .. Len(a) : a[i] = s[i])
      BY <1>2, FirstOfIs
    <3>2. /\ b \in Seq(E) /\ Len(b) = (IF n < Len(u) THEN n ELSE Len(u))
          /\ (\A i \in 1 .. Len(b) : b[i] = u[i])
      BY <1>1, <1>2, FirstOfIs
    <3>. HIDE DEF a, b
    <3>3. Len(a) = n /\ Len(b) = n
      BY <1>1, <1>2, <3>1, <3>2
    <3>. QED
      BY <3>1, <3>2, <3>3
  <2>. HIDE DEF a, b
  <2>2. \A i \in 1 .. n : a[i] = b[i]
    BY <1>1, <1>2, <2>1
  <2>3. a = b
    BY <2>1, <2>2, SeqEqual
  <2>. QED
    BY <2>3 DEF a, b
<1>4. After(n, u) = After(n, s) \o t
  <2>. DEFINE a == After(n, s)
              b == After(n, u)
              c == a \o t
  <2>1. /\ a \in Seq(E) /\ Len(a) = Len(s) - n /\ (\A i \in 1 .. Len(s) - n : a[i] = s[n + i])
        /\ b \in Seq(E) /\ Len(b) = Len(u) - n /\ \A i \in 1 .. Len(u) - n : b[i] = u[n + i]
    <3>1. /\ a \in Seq(E) /\ Len(a) = (IF n < Len(s) THEN Len(s) - n ELSE 0)
          /\ (\A i \in 1 .. Len(a) : a[i] = s[n + i])
      BY <1>2, AfterIs
    <3>2. /\ b \in Seq(E) /\ Len(b) = (IF n < Len(u) THEN Len(u) - n ELSE 0)
          /\ (\A i \in 1 .. Len(b) : b[i] = u[n + i])
      <4>1. u \in Seq(E) /\ n \in Nat
        BY <1>1, <1>2
      <4>. QED
        BY <4>1, AfterIs
    <3>. HIDE DEF a, b
    <3>3. Len(a) = Len(s) - n /\ Len(b) = Len(u) - n
      BY <1>1, <1>2, <3>1, <3>2
    <3>. QED
      BY <3>1, <3>2, <3>3
  <2>. HIDE DEF a, b
  <2>2. /\ c \in Seq(E) /\ Len(c) = Len(a) + Len(t)
        /\ \A i \in 1 .. Len(a) + Len(t) : c[i] = IF i <= Len(a) THEN a[i] ELSE t[i - Len(a)]
    BY <2>1, ConcatProperties
  <2>. HIDE DEF c
  <2>3. Len(b) = Len(c)
    BY <1>1, <1>2, <2>1, <2>2
  <2>4. ASSUME NEW i \in 1 .. Len(b) PROVE b[i] = c[i]
    <3>1. /\ b[i] = u[n + i] /\ n + i \in 1 .. Len(s) + Len(t)
          /\ i \in 1 .. Len(a) + Len(t)
      BY <1>1, <1>2, <2>1
    <3>2. CASE i <= Len(a)
      BY <1>1, <1>2, <2>1, <2>2, <3>1, <3>2
    <3>3. CASE ~(i <= Len(a))
      <4>1. ~(n + i <= Len(s)) /\ n + i - Len(s) = i - Len(a)
        BY <1>2, <2>1, <3>3
      <4>2. u[n + i] = t[n + i - Len(s)]
        BY <1>1, <3>1, <4>1
      <4>3. c[i] = t[i - Len(a)]
        BY <2>2, <3>1, <3>3
      <4>. QED
        BY <3>1, <4>1, <4>2, <4>3
    <3>. QED
      BY <3>2, <3>3
  <2>5. b = c
    BY <2>1, <2>2, <2>3, <2>4, SeqEqual
  <2>. QED
    BY <2>5 DEF a, b, c
<1>. QED
  BY <1>3, <1>4 DEF u

\* All of it, and nothing after it.
LEMMA AllOf ==
    ASSUME NEW E, NEW s \in Seq(E)
    PROVE  /\ FirstOf(Len(s), s) = s /\ After(Len(s), s) = << >>
           /\ FirstOf(0, s) = << >> /\ After(0, s) = s
<1>1. /\ Len(s) \in Nat /\ 0 \in Nat /\ Len(s) \in 0 .. Len(s)
  OBVIOUS
<1>2. /\ After(Len(s), s) \in Seq(E) /\ Len(After(Len(s), s)) = 0
      /\ FirstOf(0, s) \in Seq(E) /\ Len(FirstOf(0, s)) = 0
  BY <1>1, FirstOfIs, AfterIs
<1>3. After(Len(s), s) = << >> /\ FirstOf(0, s) = << >>
  BY <1>2, EmptySeq
<1>4. FirstOf(Len(s), s) \o << >> = s /\ << >> \o After(0, s) = s
  BY <1>1, <1>3, CutInTwo
<1>5. FirstOf(Len(s), s) \in Seq(E) /\ After(0, s) \in Seq(E)
  BY <1>1, FirstOfIs, AfterIs
<1>. QED
  BY <1>3, <1>4, <1>5, ConcatEmptySeq

LEMMA FrontIs ==
    ASSUME NEW E, NEW s \in Seq(E), NEW t \in Seq(E)
    PROVE  FirstOf(Len(s), s \o t) = s /\ After(Len(s), s \o t) = t
<1>1. Len(s) \in 0 .. Len(s)
  OBVIOUS
<1>2. FirstOf(Len(s), s) = s /\ After(Len(s), s) = << >>
  BY AllOf
<1>3. << >> \o t = t
  BY ConcatEmptySeq
<1>. QED
  BY <1>1, <1>2, <1>3, FrontOf

\* If one sequence begins with both s and u, the shorter is the front of the longer.
LEMMA Fronts ==
    ASSUME NEW E, NEW s \in Seq(E), NEW t \in Seq(E), NEW u \in Seq(E), NEW v \in Seq(E),
           s \o t = u \o v, Len(s) <= Len(u)
    PROVE  s = FirstOf(Len(s), u) /\ t = After(Len(s), u) \o v
<1>1. Len(s) \in 0 .. Len(u)
  OBVIOUS
<1>2. FirstOf(Len(s), s \o t) = s /\ After(Len(s), s \o t) = t
  BY FrontIs
<1>3. /\ FirstOf(Len(s), u \o v) = FirstOf(Len(s), u)
      /\ After(Len(s), u \o v) = After(Len(s), u) \o v
  BY <1>1, FrontOf
<1>. QED
  BY <1>2, <1>3

-----------------------------------------------------------------------------
(* What remains to be read.                                                *)

LEMMA Regrouped ==
    ASSUME NEW a \in Seq(Elems), NEW b \in Seq(Elems), NEW c \in Seq(Elems)
    PROVE  Cat(Cat(a, b), c) = Cat(a, Cat(b, c))
  BY CatIs

Ahead(side, out, buf, net, rest, seq, v) ==
    out \o (buf \o v) = seq /\ IF side = "reset" THEN net = << >> ELSE net \o rest = v

LEMMA RemainsIs ==
    ASSUME NEW side, NEW out \in Seq(Elems), NEW buf \in Seq(Elems), NEW net \in Seq(Elems),
           NEW rest \in Seq(Elems), NEW seq \in Seq(Elems)
    PROVE  RemainsOf(side, out, buf, net, rest, seq) <=>
             \E v \in Seq(Elems) : Ahead(side, out, buf, net, rest, seq, v)
<1>. DEFINE n == Len(out) + Len(buf)
            ahead == After(n, seq)
<1>1. n \in Nat /\ out \o buf \in Seq(Elems) /\ Len(out \o buf) = n
  <2>1. Len(out) \in Nat /\ Len(buf) \in Nat
    OBVIOUS
  <2>. QED
    BY <2>1, ConcatProperties
<1>2. ahead \in Seq(Elems)
  BY <1>1, AfterIs
<1>3. ASSUME NEW v \in Seq(Elems), out \o (buf \o v) = seq PROVE v = ahead
  <2>1. (out \o buf) \o v = seq
    <3>1. (out \o buf) \o v = out \o (buf \o v)
      <4>1. Cat(Cat(out, buf), v) = Cat(out, Cat(buf, v))
        BY Regrouped
      <4>. QED
        BY <4>1, Zenon DEF Cat
    <3>. QED
      BY <1>3, <3>1
  <2>2. After(Len(out \o buf), (out \o buf) \o v) = v
    BY <1>1, FrontIs
  <2>. QED
    BY <1>1, <2>1, <2>2
<1>. HIDE DEF ahead
<1>. QED
  BY <1>2, <1>3 DEF RemainsOf, Ahead, ahead

\* More arrives.
LEMMA RemainsArrived ==
    ASSUME NEW out \in Seq(Elems), NEW buf \in Seq(Elems), NEW net \in Seq(Elems),
           NEW got \in Seq(Elems), NEW rest \in Seq(Elems), NEW seq \in Seq(Elems),
           RemainsOf("open", out, buf, net, got \o rest, seq)
    PROVE  RemainsOf("open", out, buf, net \o got, rest, seq)
<1>1. got \o rest \in Seq(Elems) /\ net \o got \in Seq(Elems)
  BY ConcatProperties
<1>2. (net \o got) \o rest = net \o (got \o rest)
  <2>1. Cat(Cat(net, got), rest) = Cat(net, Cat(got, rest))
    BY Regrouped
  <2>. QED
    BY <2>1, Zenon DEF Cat
<1>. QED
  BY <1>2 DEF RemainsOf

\* The call takes n more elements of the buffer, into which some of what has arrived was read.
LEMMA RemainsServed ==
    ASSUME NEW side, NEW out \in Seq(Elems), NEW buf \in Seq(Elems), NEW got \in Seq(Elems),
           NEW net \in Seq(Elems), NEW rest \in Seq(Elems), NEW seq \in Seq(Elems), NEW n \in Nat,
           RemainsOf(side, out, buf, got \o net, rest, seq)
    PROVE  RemainsOf(side, out \o FirstOf(n, buf \o got), After(n, buf \o got), net, rest, seq)
<1>. DEFINE filled == buf \o got
            a == FirstOf(n, filled)
            b == After(n, filled)
<1>1. filled \in Seq(Elems) /\ got \o net \in Seq(Elems)
  BY ConcatProperties
<1>2. a \in Seq(Elems) /\ b \in Seq(Elems) /\ a \o b = filled
  BY <1>1, FirstOfIs, AfterIs, CutInTwo
<1>3. out \o a \in Seq(Elems)
  BY <1>2, ConcatProperties
<1>0. PICK v \in Seq(Elems) : Ahead(side, out, buf, got \o net, rest, seq, v)
  BY <1>1, RemainsIs, Zenon
<1>4. /\ out \o (buf \o v) = seq
      /\ IF side = "reset" THEN got \o net = << >> ELSE (got \o net) \o rest = v
  BY <1>0 DEF Ahead
<1>5. PICK w \in Seq(Elems) : got \o w = v /\ IF side = "reset" THEN net = << >> ELSE net \o rest = w
  <2>1. CASE side = "reset"
    <3>1. got = << >> /\ net = << >>
      BY <1>4, <2>1, ConcatEqualIffEmpty
    <3>2. got \o v = v
      BY <3>1, ConcatEmptySeq
    <3>. QED
      BY <2>1, <3>1, <3>2
  <2>2. CASE side # "reset"
    <3>1. net \o rest \in Seq(Elems)
      BY ConcatProperties
    <3>2. Cat(Cat(got, net), rest) = Cat(got, Cat(net, rest))
      BY CatIs
    <3>3. (got \o net) \o rest = got \o (net \o rest)
      BY <3>2, Zenon DEF Cat
    <3>. QED
      BY <1>4, <2>2, <3>1, <3>3
  <2>. QED
    BY <2>1, <2>2
<1>. HIDE DEF a, b
<1>6. (out \o a) \o (b \o w) = seq
  <2>1. Cat(a, b) = Cat(buf, got) /\ Cat(got, w) = v /\ Cat(out, Cat(buf, v)) = seq
    BY <1>2, <1>4, <1>5, Zenon DEF Cat
  <2>2. Cat(Cat(out, a), Cat(b, w)) = Cat(out, Cat(a, Cat(b, w)))
    BY <1>2, CatIs
  <2>3. Cat(a, Cat(b, w)) = Cat(Cat(a, b), w)
    BY <1>2, CatIs
  <2>4. Cat(Cat(buf, got), w) = Cat(buf, Cat(got, w))
    BY CatIs
  <2>5. Cat(Cat(out, a), Cat(b, w)) = seq
    BY <2>1, <2>2, <2>3, <2>4, Zenon
  <2>. QED
    BY <2>5, Zenon DEF Cat
<1>7. RemainsOf(side, out \o a, b, net, rest, seq)
  <2>1. Ahead(side, out \o a, b, net, rest, seq, w)
    BY <1>5, <1>6 DEF Ahead
  <2>. QED
    BY <1>2, <1>3, <2>1, RemainsIs, Zenon
<1>. QED
  BY <1>7 DEF a, b

\* The call has taken the front of what remained; the next one finds the rest.
LEMMA RemainsNext ==
    ASSUME NEW side, NEW out \in Seq(Elems), NEW buf \in Seq(Elems), NEW net \in Seq(Elems),
           NEW rest \in Seq(Elems), NEW seq \in Seq(Elems),
           RemainsOf(side, out, buf, net, rest, seq)
    PROVE  /\ Len(out) =< Len(seq) /\ out = FirstOf(Len(out), seq)
           /\ RemainsOf(side, << >>, buf, net, rest, After(Len(out), seq))
<1>0. PICK v \in Seq(Elems) : Ahead(side, out, buf, net, rest, seq, v)
  BY RemainsIs, Zenon
<1>1. /\ out \o (buf \o v) = seq
      /\ IF side = "reset" THEN net = << >> ELSE net \o rest = v
  BY <1>0 DEF Ahead
<1>. DEFINE t == buf \o v
<1>2. t \in Seq(Elems)
  BY ConcatProperties
<1>. HIDE DEF t
<1>3. After(Len(out), seq) = t /\ out = FirstOf(Len(out), seq)
  BY <1>1, <1>2, FrontIs DEF t
<1>4. Len(seq) = Len(out) + Len(t)
  BY <1>1, <1>2, ConcatProperties DEF t
<1>5. Len(out) =< Len(seq)
  BY <1>2, <1>4
<1>6. << >> \o t = t /\ << >> \in Seq(Elems)
  BY <1>2, ConcatEmptySeq
<1>. DEFINE none == << >>
<1>. HIDE DEF none
<1>7. none \in Seq(Elems) /\ none \o (buf \o v) = t
  BY <1>6 DEF none, t
<1>8. RemainsOf(side, none, buf, net, rest, t)
  <2>1. Ahead(side, none, buf, net, rest, t, v)
    BY <1>1, <1>7 DEF Ahead
  <2>. QED
    BY <1>2, <1>7, <2>1, RemainsIs, Zenon
<1>. QED
  BY <1>3, <1>5, <1>8 DEF none

\* It has taken all.
LEMMA RemainsNothing ==
    ASSUME NEW side, NEW out \in Seq(Elems), NEW buf \in Seq(Elems), NEW net \in Seq(Elems),
           NEW rest \in Seq(Elems), NEW seq \in Seq(Elems), Len(seq) =< Len(out),
           RemainsOf(side, out, buf, net, rest, seq)
    PROVE  out = seq /\ buf = << >> /\ net = << >> /\ (side # "reset" => rest = << >>)
<1>0. PICK v \in Seq(Elems) : Ahead(side, out, buf, net, rest, seq, v)
  BY RemainsIs, Zenon
<1>1. /\ out \o (buf \o v) = seq
      /\ IF side = "reset" THEN net = << >> ELSE net \o rest = v
  BY <1>0 DEF Ahead
<1>. DEFINE t == buf \o v
<1>2. t \in Seq(Elems)
  BY ConcatProperties
<1>. HIDE DEF t
<1>3. Len(seq) = Len(out) + Len(t)
  BY <1>1, <1>2, ConcatProperties DEF t
<1>4. t = << >>
  BY <1>2, <1>3, EmptySeq
<1>5. buf = << >> /\ v = << >>
  BY <1>4, ConcatEqualIffEmpty DEF t
<1>6. out = seq
  BY <1>1, <1>4, ConcatEmptySeq DEF t
<1>. QED
  BY <1>1, <1>5, <1>6, ConcatEqualIffEmpty

LEMMA NatIsWellFounded ==
    \E R : IsWellFoundedOn(R, Nat) /\ \A x, y \in Nat : x < y => <<x, y>> \in R
<1>1. IsWellFoundedOn(OpToRel(<, Nat), Nat)
  BY NatLessThanWellFounded
<1>2. \A x, y \in Nat : x < y => <<x, y>> \in OpToRel(<, Nat)
  BY Zenon DEF OpToRel
<1>. QED
  BY <1>1, <1>2, Zenon

\* A set of numbers that holds 0, and the next number up to N, holds all up to N.
LEMMA Induction ==
    ASSUME NEW N \in Nat, NEW S, 0 \in S, \A n \in 0 .. N - 1 : n \in S => n + 1 \in S
    PROVE  \A n \in 0 .. N : n \in S
<1>. DEFINE T == {n \in 0 .. N : n \notin S}
<1>. SUFFICES ASSUME T # {} PROVE FALSE
  OBVIOUS
<1>1. PICK R : IsWellFoundedOn(R, Nat) /\ \A x, y \in Nat : x < y => <<x, y>> \in R
  BY NatIsWellFounded
<1>2. T \subseteq Nat
  OBVIOUS
<1>3. PICK m \in T : \A y \in T : ~(<<y, m>> \in R)
  <2>1. IsWellFoundedOn(R, Nat)
    BY <1>1
  <2>. HIDE <1>1 DEF T
  <2>. QED
    BY <1>2, <2>1, WFMin, Zenon
<1>4. m \in Nat /\ m # 0 /\ m =< N
  OBVIOUS
<1>5. m - 1 \in 0 .. N - 1 /\ m - 1 < m /\ m - 1 \in Nat
  BY <1>4
<1>6. m - 1 \notin T
  <2>1. <<m - 1, m>> \in R
    BY <1>1, <1>4, <1>5
  <2>. QED
    BY <1>3, <2>1
<1>7. m - 1 \in S
  BY <1>5, <1>6
<1>8. m \in S
  <2>1. (m - 1) + 1 \in S
    BY <1>5, <1>7
  <2>. QED
    BY <1>4, <2>1
<1>. QED
  BY <1>8


\* The place before a chunk is at or before the ends of the later ones.
LEMMA StartsRise ==
    ASSUME NEW ends \in Chunkings, NEW k \in 1 .. Len(ends) + 1
    PROVE  /\ Len(ends) \in Nat /\ Before(ends, k) \in 0 .. SizeT - 1
           /\ Before(ends, k) =< Before(ends, Len(ends) + 1)
           /\ k =< Len(ends) => /\ ends[k] \in 1 .. SizeT - 1 /\ Before(ends, k) < ends[k]
                                /\ Before(ends, k + 1) = ends[k] /\ k + 1 \in 1 .. Len(ends) + 1
<1>1. /\ ends \in Seq(1 .. SizeT - 1) /\ SizeT \in Nat \ {0}
      /\ \A i \in 1 .. Len(ends) : Before(ends, i) < ends[i]
  BY HttpReadAssumption
<1>. DEFINE n == Len(ends)
<1>2. n \in Nat /\ \A i \in 1 .. n : ends[i] \in 1 .. SizeT - 1
  BY <1>1
<1>. HIDE DEF n
<1>3. ASSUME NEW i \in 1 .. n + 1 PROVE Before(ends, i) \in 0 .. SizeT - 1
  <2>1. CASE i = 1
    BY <1>1, <2>1 DEF Before
  <2>2. CASE i # 1
    <3>1. i - 1 \in 1 .. n
      BY <1>2, <2>2
    <3>. QED
      BY <1>2, <2>2, <3>1 DEF Before
  <2>. QED
    BY <2>1, <2>2
<1>4. ASSUME NEW i \in 1 .. n
      PROVE  /\ ends[i] \in 1 .. SizeT - 1 /\ Before(ends, i) < ends[i]
             /\ Before(ends, i + 1) = ends[i] /\ i + 1 \in 1 .. n + 1
  <2>1. i + 1 # 1 /\ (i + 1) - 1 = i /\ i + 1 \in 1 .. n + 1
    BY <1>2
  <2>. QED
    BY <1>1, <1>2, <2>1 DEF Before, n
<1>. DEFINE S == {d \in Nat : d =< n => Before(ends, n + 1 - d) =< Before(ends, n + 1)}
<1>5. 0 \in S
  <2>1. n + 1 - 0 = n + 1 /\ n + 1 \in 1 .. n + 1
    BY <1>2
  <2>. QED
    BY <1>3, <2>1
<1>6. ASSUME NEW d \in 0 .. n - 1, d \in S PROVE d + 1 \in S
  <2>1. n - d \in 1 .. n /\ n + 1 - (d + 1) = n - d /\ (n - d) + 1 = n + 1 - d /\ d \in Nat /\ d =< n
        /\ n + 1 \in 1 .. n + 1 /\ n - d \in 1 .. n + 1
    BY <1>2
  <2>2. Before(ends, n - d) < Before(ends, n + 1 - d)
    BY <1>4, <2>1
  <2>3. Before(ends, n + 1 - d) =< Before(ends, n + 1)
    BY <1>6, <2>1
  <2>4. Before(ends, n - d) \in Int /\ Before(ends, n + 1 - d) \in Int /\ Before(ends, n + 1) \in Int
    <3>1. n + 1 - d \in 1 .. n + 1
      BY <1>2
    <3>. QED
      BY <1>3, <2>1, <3>1
  <2>5. Before(ends, n + 1 - (d + 1)) =< Before(ends, n + 1)
    BY <2>1, <2>2, <2>3, <2>4
  <2>. QED
    BY <2>1, <2>5
<1>7. Before(ends, k) =< Before(ends, n + 1)
  <2>1. \A d \in 0 .. n : d \in S
    <3>. HIDE DEF S
    <3>. QED
      BY <1>2, <1>5, <1>6, Induction
  <2>2. n + 1 - k \in 0 .. n /\ n + 1 - (n + 1 - k) = k /\ n + 1 - k =< n
    BY <1>2 DEF n
  <2>3. n + 1 - k \in S
    BY <2>1, <2>2
  <2>. QED
    BY <2>2, <2>3
<1>. QED
  BY <1>2, <1>3, <1>4, <1>7 DEF n

\* What comes after n elements and then m is what comes after n + m.
LEMMA AfterTwice ==
    ASSUME NEW E, NEW s \in Seq(E), NEW n \in Nat, NEW m \in Nat
    PROVE  After(m, After(n, s)) = After(n + m, s)
<1>. DEFINE t == After(n, s)
            a == After(m, t)
            b == After(n + m, s)
<1>0. Len(s) \in Nat /\ n + m \in Nat
  OBVIOUS
<1>1. /\ t \in Seq(E) /\ Len(t) = (IF n < Len(s) THEN Len(s) - n ELSE 0)
      /\ \A i \in 1 .. Len(t) : t[i] = s[n + i]
  BY AfterIs
<1>2. /\ b \in Seq(E) /\ Len(b) = (IF n + m < Len(s) THEN Len(s) - (n + m) ELSE 0)
      /\ \A i \in 1 .. Len(b) : b[i] = s[n + m + i]
  BY <1>0, AfterIs
<1>. HIDE DEF t, b
<1>3. /\ a \in Seq(E) /\ Len(a) = (IF m < Len(t) THEN Len(t) - m ELSE 0)
      /\ \A i \in 1 .. Len(a) : a[i] = t[m + i]
  BY <1>1, AfterIs
<1>. HIDE DEF a
<1>4. Len(a) = Len(b)
  BY <1>0, <1>1, <1>2, <1>3
<1>5. ASSUME NEW i \in 1 .. Len(a) PROVE a[i] = b[i]
  <2>1. m + i \in 1 .. Len(t) /\ i \in 1 .. Len(b) /\ n + (m + i) = n + m + i
    BY <1>0, <1>1, <1>3, <1>4
  <2>. QED
    BY <1>1, <1>2, <1>3, <2>1
<1>. QED
  BY <1>2, <1>3, <1>4, <1>5, SeqEqual DEF t, a, b

\* What a sequence begins with is a prefix of it.
LEMMA PrefixIs ==
    ASSUME NEW E, NEW s \in Seq(E), NEW t \in Seq(E)
    PROVE  IsPrefix(s, s \o t) /\ IsPrefix(s, s) /\ IsPrefix(<< >>, s)
<1>1. ASSUME NEW u \in Seq(E), NEW v \in Seq(E), Len(u) =< Len(v), FirstOf(Len(u), v) = u
      PROVE  IsPrefix(u, v)
  <2>1. Len(u) \in Nat /\ Len(v) \in Nat
    OBVIOUS
  <2>2. SubSeq(v, 1, Len(u)) = u
    BY <1>1, <2>1 DEF FirstOf
  <2>3. SubSeq(u, 1, Len(u)) = u
    <3>1. FirstOf(Len(u), u) = u
      BY AllOf
    <3>. QED
      BY <2>1, <3>1 DEF FirstOf
  <2>. QED
    BY <1>1, <2>2, <2>3 DEF IsPrefix
<1>2. IsPrefix(s, s \o t)
  <2>1. FirstOf(Len(s), s \o t) = s
    BY FrontIs
  <2>2. s \o t \in Seq(E) /\ Len(s \o t) = Len(s) + Len(t)
    BY ConcatProperties
  <2>3. Len(s) =< Len(s \o t)
    BY <2>2
  <2>. QED
    BY <1>1, <2>1, <2>2, <2>3
<1>3. IsPrefix(s, s)
  <2>1. FirstOf(Len(s), s) = s /\ Len(s) =< Len(s)
    BY AllOf
  <2>. QED
    BY <1>1, <2>1
<1>4. IsPrefix(<< >>, s)
  <2>. DEFINE none == << >>
  <2>1. none \in Seq(E) /\ Len(none) = 0
    OBVIOUS
  <2>2. FirstOf(0, s) = none
    BY AllOf
  <2>. HIDE DEF none
  <2>3. Len(none) =< Len(s) /\ FirstOf(Len(none), s) = none
    BY <2>1, <2>2
  <2>. QED
    BY <1>1, <2>1, <2>3 DEF none
<1>. QED
  BY <1>2, <1>3, <1>4

\* The bytes of a body.
LEMMA BytesIs ==
    ASSUME NEW r \in Nat, NEW a \in Nat \ {0}, NEW b \in Nat, a =< b + 1
    PROVE  /\ Bytes(r, a, b) \in Seq(Elems) /\ Len(Bytes(r, a, b)) = b + 1 - a
           /\ \A i \in 1 .. b + 1 - a :
                Bytes(r, a, b)[i] = [is |-> "byte", of |-> r, at |-> a + i - 1]
<1>. DEFINE n == b - a + 1
            P(i) == [is |-> "byte", of |-> r, at |-> a + i - 1]
            s == [i \in 1 .. n |-> P(i)]
<1>1. n \in Nat /\ n = b + 1 - a
  OBVIOUS
<1>2. \A i \in 1 .. n : P(i) \in Elems
  <2>1. \A i \in 1 .. n : a + i - 1 \in Nat
    OBVIOUS
  <2>. QED
    BY <2>1 DEF Elems
<1>. HIDE DEF n, P
<1>3. s \in Seq(Elems) /\ Len(s) = n /\ \A i \in 1 .. n : s[i] = P(i)
  BY <1>1, <1>2
<1>4. Bytes(r, a, b) = s
  BY DEF Bytes, n, P
<1>. QED
  BY <1>1, <1>3, <1>4 DEF P

LEMMA BodyBytes ==
    ASSUME NEW r \in Nat, NEW n \in Nat
    PROVE  Bytes(r, 1, n) \in Seq(Elems) /\ Len(Bytes(r, 1, n)) = n
<1>. DEFINE a == 1
<1>1. a \in Nat \ {0} /\ a =< n + 1 /\ n + 1 - a = n
  OBVIOUS
<1>. HIDE DEF a
<1>2. Bytes(r, a, n) \in Seq(Elems) /\ Len(Bytes(r, a, n)) = n + 1 - a
  BY <1>1, BytesIs
<1>. QED
  BY <1>1, <1>2 DEF a

CutAt(r, a, c, b) ==
    /\ Bytes(r, a, b) = Cat(Bytes(r, a, c), Bytes(r, c + 1, b))
    /\ FirstOf(c + 1 - a, Bytes(r, a, b)) = Bytes(r, a, c)
    /\ After(c + 1 - a, Bytes(r, a, b)) = Bytes(r, c + 1, b)

LEMMA BytesCut ==
    ASSUME NEW r \in Nat, NEW a \in Nat \ {0}, NEW b \in Nat, NEW c \in Nat, a =< c + 1, c =< b
    PROVE  CutAt(r, a, c, b)
<1>. DEFINE s == Bytes(r, a, b)
            t == Bytes(r, a, c)
            u == Bytes(r, c + 1, b)
            Are(x, y, q) == /\ q \in Seq(Elems) /\ Len(q) = y + 1 - x
                            /\ \A i \in 1 .. y + 1 - x :
                                 q[i] = [is |-> "byte", of |-> r, at |-> x + i - 1]
<1>1. \A x \in Nat \ {0}, y \in Nat : x =< y + 1 => Are(x, y, Bytes(r, x, y))
  BY BytesIs
<1>0. a =< b + 1 /\ c + 1 \in Nat \ {0} /\ c + 1 =< b + 1
  OBVIOUS
<1>. HIDE DEF Are
<1>11. Are(a, b, s) /\ Are(a, c, t) /\ Are(c + 1, b, u)
  BY <1>0, <1>1
<1>. HIDE DEF s, t, u
<1>2. /\ s \in Seq(Elems) /\ Len(s) = b + 1 - a
      /\ \A i \in 1 .. b + 1 - a : s[i] = [is |-> "byte", of |-> r, at |-> a + i - 1]
  BY <1>11 DEF Are
<1>3. /\ t \in Seq(Elems) /\ Len(t) = c + 1 - a
      /\ \A i \in 1 .. c + 1 - a : t[i] = [is |-> "byte", of |-> r, at |-> a + i - 1]
  BY <1>11 DEF Are
<1>4. /\ u \in Seq(Elems) /\ Len(u) = b + 1 - (c + 1)
      /\ \A i \in 1 .. b + 1 - (c + 1) : u[i] = [is |-> "byte", of |-> r, at |-> c + 1 + i - 1]
  BY <1>11 DEF Are
<1>5. /\ t \o u \in Seq(Elems) /\ Len(t \o u) = Len(t) + Len(u)
      /\ \A i \in 1 .. Len(t) + Len(u) : (t \o u)[i] = IF i <= Len(t) THEN t[i] ELSE u[i - Len(t)]
  BY <1>3, <1>4, ConcatProperties
<1>. DEFINE v == t \o u
<1>. HIDE DEF v
<1>6. v \in Seq(Elems) /\ Len(v) = Len(s)
  BY <1>2, <1>3, <1>4, <1>5 DEF v
<1>7. ASSUME NEW i \in 1 .. Len(s) PROVE s[i] = v[i]
  <2>1. s[i] = [is |-> "byte", of |-> r, at |-> a + i - 1]
    BY <1>2
  <2>2. i \in 1 .. Len(t) + Len(u)
    BY <1>2, <1>3, <1>4
  <2>3. v[i] = IF i <= Len(t) THEN t[i] ELSE u[i - Len(t)]
    BY <1>5, <2>2 DEF v
  <2>4. CASE i <= Len(t)
    BY <1>3, <2>1, <2>3, <2>4
  <2>5. CASE ~(i <= Len(t))
    <3>1. i - Len(t) \in 1 .. b + 1 - (c + 1) /\ c + 1 + (i - Len(t)) - 1 = a + i - 1
      BY <1>2, <1>3, <2>5
    <3>2. u[i - Len(t)] = [is |-> "byte", of |-> r, at |-> c + 1 + (i - Len(t)) - 1]
      BY <1>4, <3>1
    <3>3. v[i] = u[i - Len(t)]
      BY <2>3, <2>5
    <3>. QED
      BY <2>1, <3>1, <3>2, <3>3
  <2>. QED
    BY <2>4, <2>5
<1>8. s = v
  BY <1>2, <1>6, <1>7, SeqEqual
<1>9. FirstOf(Len(t), t \o u) = t /\ After(Len(t), t \o u) = u
  BY <1>3, <1>4, FrontIs
<1>10. s = Cat(t, u) /\ FirstOf(c + 1 - a, s) = t /\ After(c + 1 - a, s) = u
  BY <1>3, <1>8, <1>9 DEF v, Cat
<1>. QED
  BY <1>10 DEF s, t, u, CutAt

\* The stream from chunk k on, by what it is from the next one on.
Wrapped(r, ends, k, rest) ==
    <<Line(ends[k] - Before(ends, k))>> \o (Bytes(r, Before(ends, k) + 1, ends[k])
       \o (<<Line(Blank)>> \o rest))
End == <<Line(0), Line(Blank)>>

LEMMA FromChunkIs ==
    ASSUME NEW r, NEW ends \in Chunkings, NEW k \in 1 .. Len(ends) + 1
    PROVE  FromChunk(r, ends)[k] = IF k = Len(ends) + 1 THEN End
                                   ELSE Wrapped(r, ends, k, FromChunk(r, ends)[k + 1])
<1>. DEFINE n == Len(ends)
            Def(f, m) == [i \in m .. n + 1 |-> IF i > n THEN End ELSE Wrapped(r, ends, i, f[i + 1])]
            Partial(m) == \E f : f = Def(f, m)
            S == {d \in Nat : Partial(n + 1 - d)}
<1>1. n \in Nat
  BY StartsRise
<1>2. 0 \in S
  <2>1. n + 1 - 0 = n + 1
    BY <1>1
  <2>. DEFINE f == [i \in n + 1 .. n + 1 |-> End]
  <2>2. f = Def(f, n + 1)
    BY <1>1
  <2>. QED
    BY <2>1, <2>2
<1>3. ASSUME NEW d \in 0 .. n - 1, d \in S PROVE d + 1 \in S
  <2>. DEFINE m == n + 1 - d
  <2>1. m \in 2 .. n + 1 /\ n + 1 - (d + 1) = m - 1 /\ d + 1 \in Nat
    BY <1>1
  <2>2. PICK f : f = Def(f, m)
    BY <1>3
  <2>. HIDE DEF m, n
  <2>3. \A i \in m .. n + 1 : f[i] = IF i > n THEN End ELSE Wrapped(r, ends, i, f[i + 1])
    BY <2>2
  <2>. DEFINE F(i) == IF i = m - 1 THEN Wrapped(r, ends, i, f[m]) ELSE f[i]
              g == [i \in m - 1 .. n + 1 |-> F(i)]
  <2>4. \A i \in m - 1 .. n + 1 : g[i] = F(i)
    OBVIOUS
  <2>. HIDE DEF g
  <2>5. ASSUME NEW i \in m - 1 .. n + 1
        PROVE  F(i) = IF i > n THEN End ELSE Wrapped(r, ends, i, g[i + 1])
    <3>1. CASE i = m - 1
      <4>1. ~(i > n) /\ i + 1 = m /\ m \in m - 1 .. n + 1 /\ m # m - 1
        BY <1>1, <2>1, <3>1
      <4>2. g[i + 1] = f[m]
        BY <2>4, <4>1
      <4>. QED
        BY <3>1, <4>1, <4>2
    <3>2. CASE i # m - 1
      <4>1. i \in m .. n + 1
        BY <1>1, <2>1, <3>2
      <4>2. F(i) = IF i > n THEN End ELSE Wrapped(r, ends, i, f[i + 1])
        BY <2>3, <3>2, <4>1
      <4>3. CASE ~(i > n)
        <5>1. i + 1 \in m - 1 .. n + 1 /\ i + 1 # m - 1
          BY <1>1, <2>1, <4>1, <4>3
        <5>2. g[i + 1] = f[i + 1]
          BY <2>4, <5>1
        <5>. QED
          BY <4>2, <4>3, <5>2
      <4>. QED
        BY <4>2, <4>3
    <3>. QED
      BY <3>1, <3>2
  <2>6. g = Def(g, m - 1)
    BY <2>5 DEF g
  <2>. QED
    BY <2>1, <2>6
<1>4. Partial(1)
  <2>1. \A d \in 0 .. n : d \in S
    <3>. HIDE DEF S, n
    <3>. QED
      BY <1>1, <1>2, <1>3, Induction
  <2>2. n \in 0 .. n /\ n + 1 - n = 1
    BY <1>1
  <2>. QED
    BY <2>1, <2>2
<1>. DEFINE rest == CHOOSE f : f = Def(f, 1)
<1>5. rest = Def(rest, 1)
  BY <1>4, Zenon
<1>6. FromChunk(r, ends) = rest
  BY Zenon DEF FromChunk, Wrapped, End
<1>. HIDE DEF rest
<1>7. rest[k] = IF k > n THEN End ELSE Wrapped(r, ends, k, rest[k + 1])
  BY <1>5
<1>8. k > n <=> k = n + 1
  BY <1>1
<1>. QED
  BY <1>6, <1>7, <1>8

\* What the stream is made of.
LEMMA ElemsAre ==
    /\ Headers \in Elems /\ \A x \in Int : Line(x) \in Elems /\ Headers # Line(x)
    /\ \A x \in Int : Line(x).is = "line" /\ Line(x).size = x
    /\ \A e \in Elems : e.is = "line" => e.size \in Int
  BY DEF Elems, Headers, Line

\* One element before others.
LEMMA OneMore ==
    ASSUME NEW e \in Elems, NEW s \in Seq(Elems)
    PROVE  /\ <<e>> \o s \in Seq(Elems) /\ <<e>> \in Seq(Elems)
           /\ Len(<<e>> \o s) = 1 + Len(s) /\ (<<e>> \o s)[1] = e
           /\ FirstOf(1, <<e>> \o s) = <<e>> /\ After(1, <<e>> \o s) = s
<1>1. <<e>> \in Seq(Elems) /\ Len(<<e>>) = 1 /\ <<e>>[1] = e
  OBVIOUS
<1>. DEFINE one == <<e>>
<1>2. one \in Seq(Elems) /\ Len(one) = 1 /\ one[1] = e
  BY <1>1
<1>. HIDE DEF one
<1>3. /\ one \o s \in Seq(Elems) /\ Len(one \o s) = Len(one) + Len(s)
      /\ \A i \in 1 .. Len(one) + Len(s) :
           (one \o s)[i] = IF i <= Len(one) THEN one[i] ELSE s[i - Len(one)]
  BY <1>2, ConcatProperties
<1>4. FirstOf(Len(one), one \o s) = one /\ After(Len(one), one \o s) = s
  BY <1>2, FrontIs
<1>5. (one \o s)[1] = e
  <2>1. 1 \in 1 .. Len(one) + Len(s) /\ 1 <= Len(one)
    BY <1>2
  <2>. QED
    BY <1>2, <1>3, <2>1
<1>. QED
  BY <1>2, <1>3, <1>4, <1>5 DEF one

LEMMA WrappedIs ==
    ASSUME NEW r \in Nat, NEW ends \in Chunkings, NEW k \in 1 .. Len(ends), NEW rest \in Seq(Elems)
    PROVE  /\ Wrapped(r, ends, k, rest) \in Seq(Elems)
           /\ Bytes(r, Before(ends, k) + 1, ends[k]) \in Seq(Elems)
           /\ <<Line(Blank)>> \o rest \in Seq(Elems)
           /\ Bytes(r, Before(ends, k) + 1, ends[k]) \o (<<Line(Blank)>> \o rest) \in Seq(Elems)
           /\ Line(ends[k] - Before(ends, k)) \in Elems /\ Line(Blank) \in Elems
<1>. DEFINE b == Bytes(r, Before(ends, k) + 1, ends[k])
            t == <<Line(Blank)>> \o rest
<1>1. /\ Len(ends) \in Nat /\ Before(ends, k) \in Nat /\ ends[k] \in Nat
      /\ Before(ends, k) < ends[k]
  <2>1. Len(ends) \in Nat
    BY HttpReadAssumption
  <2>2. k \in 1 .. Len(ends) + 1 /\ k =< Len(ends)
    BY <2>1
  <2>3. SizeT \in Nat
    BY HttpReadAssumption
  <2>. QED
    BY <2>1, <2>2, <2>3, StartsRise
<1>2. b \in Seq(Elems)
  <2>1. Before(ends, k) + 1 \in Nat \ {0} /\ Before(ends, k) + 1 =< ends[k] + 1
    BY <1>1
  <2>. QED
    BY <1>1, <2>1, BytesIs
<1>3. Line(Blank) \in Elems /\ Line(ends[k] - Before(ends, k)) \in Elems
  <2>1. Blank \in Int /\ ends[k] - Before(ends, k) \in Int
    BY <1>1 DEF Blank
  <2>. QED
    BY <2>1, ElemsAre
<1>4. t \in Seq(Elems)
  BY <1>3, OneMore
<1>. HIDE DEF b, t
<1>5. b \o t \in Seq(Elems)
  BY <1>2, <1>4, ConcatProperties
<1>6. <<Line(ends[k] - Before(ends, k))>> \o (b \o t) \in Seq(Elems)
  BY <1>3, <1>5, OneMore
<1>. QED
  BY <1>2, <1>3, <1>4, <1>5, <1>6 DEF Wrapped, b, t

LEMMA EndIs ==
    /\ End \in Seq(Elems) /\ Len(End) = 2 /\ End[1] = Line(0)
    /\ End = <<Line(0)>> \o <<Line(Blank)>> /\ <<Line(Blank)>> \in Seq(Elems)
<1>1. Line(0) \in Elems /\ Line(Blank) \in Elems
  BY ElemsAre DEF Blank
<1>. DEFINE x == Line(0)
            y == Line(Blank)
<1>. HIDE DEF x, y
<1>2. x \in Elems /\ y \in Elems
  BY <1>1 DEF x, y
<1>3. /\ <<x, y>> \in Seq(Elems) /\ Len(<<x, y>>) = 2 /\ <<x, y>>[1] = x
      /\ <<y>> \in Seq(Elems)
  BY <1>2
<1>4. <<x, y>> = <<x>> \o <<y>>
  <2>. DEFINE a == <<x>>
              b == <<y>>
              c == <<x, y>>
  <2>1. /\ a \in Seq(Elems) /\ b \in Seq(Elems) /\ c \in Seq(Elems)
        /\ Len(a) = 1 /\ Len(b) = 1 /\ Len(c) = 2 /\ a[1] = x /\ b[1] = y /\ c[1] = x /\ c[2] = y
    BY <1>2
  <2>. HIDE DEF a, b, c
  <2>2. /\ a \o b \in Seq(Elems) /\ Len(a \o b) = Len(a) + Len(b)
        /\ \A i \in 1 .. Len(a) + Len(b) :
             (a \o b)[i] = IF i <= Len(a) THEN a[i] ELSE b[i - Len(a)]
    BY <2>1, ConcatProperties
  <2>. DEFINE d == a \o b
  <2>. HIDE DEF d
  <2>3. d \in Seq(Elems) /\ Len(d) = 2 /\ d[1] = x /\ d[2] = y
    BY <2>1, <2>2 DEF d
  <2>4. \A i \in 1 .. Len(c) : c[i] = d[i]
    BY <2>1, <2>3
  <2>5. c = d
    BY <2>1, <2>3, <2>4, SeqEqual
  <2>. QED
    BY <2>5 DEF a, b, c, d
<1>. QED
  BY <1>3, <1>4 DEF End, x, y

LEMMA ChunksAre ==
    ASSUME NEW r \in Nat, NEW ends \in Chunkings
    PROVE  \A k \in 1 .. Len(ends) + 1 : FromChunk(r, ends)[k] \in Seq(Elems)
<1>. DEFINE n == Len(ends)
            S == {d \in Nat : d =< n => FromChunk(r, ends)[n + 1 - d] \in Seq(Elems)}
<1>1. n \in Nat
  BY HttpReadAssumption
<1>2. 0 \in S
  <2>1. n + 1 - 0 = n + 1 /\ n + 1 \in 1 .. n + 1
    BY <1>1
  <2>2. FromChunk(r, ends)[n + 1] = End
    BY <2>1, FromChunkIs
  <2>. QED
    BY <2>1, <2>2, EndIs
<1>3. ASSUME NEW d \in 0 .. n - 1, d \in S PROVE d + 1 \in S
  <2>1. /\ n - d \in 1 .. n /\ n - d \in 1 .. n + 1 /\ n - d # n + 1
        /\ n + 1 - (d + 1) = n - d /\ (n - d) + 1 = n + 1 - d /\ d =< n /\ d + 1 \in Nat
    BY <1>1
  <2>2. FromChunk(r, ends)[n - d] = Wrapped(r, ends, n - d, FromChunk(r, ends)[(n - d) + 1])
    BY <2>1, FromChunkIs
  <2>3. FromChunk(r, ends)[(n - d) + 1] \in Seq(Elems)
    BY <1>3, <2>1
  <2>4. FromChunk(r, ends)[n - d] \in Seq(Elems)
    BY <2>1, <2>2, <2>3, WrappedIs
  <2>. QED
    BY <2>1, <2>4
<1>4. \A d \in 0 .. n : d \in S
  <2>. HIDE DEF S, n
  <2>. QED
    BY <1>1, <1>2, <1>3, Induction
<1>5. ASSUME NEW k \in 1 .. n + 1 PROVE FromChunk(r, ends)[k] \in Seq(Elems)
  <2>1. n + 1 - k \in 0 .. n /\ n + 1 - (n + 1 - k) = k /\ n + 1 - k =< n
    BY <1>1
  <2>2. n + 1 - k \in S
    BY <1>4, <2>1
  <2>. QED
    BY <2>1, <2>2
<1>. QED
  BY <1>5

\* The replies.
LEMMA RepliesAre ==
    ASSUME NEW r \in Nat, NEW rep \in Replies(r)
    PROVE  /\ rep.framing \in {"length", "close", "chunked"}
           /\ rep.body \in Seq(Elems) /\ Len(rep.body) \in 0 .. SizeT - 1
           /\ Stream(r, rep) \in Seq(Elems)
           /\ rep.framing = "chunked" =>
                /\ rep.ends \in Chunkings
                /\ rep.body = Bytes(r, 1, Before(rep.ends, Len(rep.ends) + 1))
                /\ Stream(r, rep) = <<Headers>> \o FromChunk(r, rep.ends)[1]
                /\ FromChunk(r, rep.ends)[1] \in Seq(Elems)
           /\ rep.framing # "chunked" => Stream(r, rep) = <<Headers>> \o rep.body
<1>1. Headers \in Elems
  BY ElemsAre
<1>2. CASE rep.framing = "chunked"
  <2>1. PICK c \in Chunkings :
          rep = [framing |-> "chunked", body |-> Bytes(r, 1, Before(c, Len(c) + 1)), ends |-> c]
    BY <1>2 DEF Replies
  <2>2. rep.ends = c /\ rep.body = Bytes(r, 1, Before(c, Len(c) + 1))
    BY <2>1
  <2>3. Len(c) \in Nat /\ 1 \in 1 .. Len(c) + 1 /\ Len(c) + 1 \in 1 .. Len(c) + 1
    BY HttpReadAssumption
  <2>4. Before(c, Len(c) + 1) \in 0 .. SizeT - 1 /\ SizeT \in Nat
    BY <2>3, StartsRise, HttpReadAssumption
  <2>5. rep.body \in Seq(Elems) /\ Len(rep.body) = Before(c, Len(c) + 1)
    <3>1. Before(c, Len(c) + 1) \in Nat
      BY <2>4
    <3>. QED
      BY <2>2, <3>1, BodyBytes
  <2>6. FromChunk(r, c)[1] \in Seq(Elems)
    BY <2>3, ChunksAre
  <2>7. Stream(r, rep) = <<Headers>> \o FromChunk(r, c)[1]
    BY <1>2, <2>2 DEF Stream
  <2>8. Stream(r, rep) \in Seq(Elems)
    BY <1>1, <2>6, <2>7, OneMore
  <2>. QED
    BY <1>2, <2>2, <2>4, <2>5, <2>6, <2>7, <2>8
<1>3. CASE rep.framing # "chunked"
  <2>1. /\ rep \in [framing : {"length", "close"}, body : {Bytes(r, 1, k) : k \in Lengths},
                    ends : {<< >>}]
    BY <1>3 DEF Replies
  <2>2. PICK k \in Lengths : rep.body = Bytes(r, 1, k)
    BY <2>1
  <2>3. k \in 0 .. SizeT - 1 /\ k \in Nat
    BY HttpReadAssumption
  <2>4. rep.body \in Seq(Elems) /\ Len(rep.body) = k
    BY <2>2, <2>3, BodyBytes
  <2>5. Stream(r, rep) = <<Headers>> \o rep.body
    BY <1>3 DEF Stream
  <2>6. Stream(r, rep) \in Seq(Elems)
    BY <1>1, <2>4, <2>5, OneMore
  <2>. QED
    BY <1>3, <2>1, <2>3, <2>4, <2>5, <2>6
<1>. QED
  BY <1>2, <1>3

-----------------------------------------------------------------------------
(* What the invariant speaks of, in any state.                             *)

\* What there is from the next byte of chunk k on.
Rest(k) == Bytes(requests, body.bytes + 1, reply.ends[k]) \o (<<Line(Blank)>> \o Chunk(k + 1))
InChunkAt(k) == body.bytes = Start(k) + body.n /\ body.chunk = reply.ends[k] - Start(k)

Sorted ==
    /\ requests \in Nat /\ reply.body \in Seq(Elems) /\ Len(reply.body) \in 0 .. SizeT - 1
    /\ Stream(requests, reply) \in Seq(Elems)
    /\ body.bytes \in Nat /\ After(body.bytes, reply.body) \in Seq(Elems)
    /\ <<Line(Blank)>> \in Seq(Elems)
    /\ reply.framing = "chunked" =>
         /\ reply.ends \in Chunkings /\ Len(reply.ends) \in Nat
         /\ \A k \in 1 .. Len(reply.ends) + 1 :
              Chunk(k) \in Seq(Elems) /\ <<Line(Blank)>> \o Chunk(k) \in Seq(Elems)
         /\ \A k \in 1 .. Len(reply.ends) : InChunkAt(k) =>
              /\ body.bytes =< reply.ends[k] /\ reply.ends[k] \in 1 .. SizeT - 1
              /\ Bytes(requests, body.bytes + 1, reply.ends[k]) \in Seq(Elems)
              /\ Rest(k) \in Seq(Elems)

LEMMA SortedIs ==
    ASSUME Typed, pc # "start"
    PROVE  Sorted
<1>1. requests \in Nat /\ reply \in Replies(requests) /\ body.bytes \in 0 .. SizeT - 1
      /\ body.n \in Nat /\ body.chunk \in Nat /\ body.n =< body.chunk /\ SizeT \in Nat \ {0}
  BY HttpReadAssumption DEF Typed
<1>2. /\ reply.body \in Seq(Elems) /\ Len(reply.body) \in 0 .. SizeT - 1
      /\ Stream(requests, reply) \in Seq(Elems)
      /\ reply.framing = "chunked" => reply.ends \in Chunkings
  BY <1>1, RepliesAre
<1>3. body.bytes \in Nat
  BY <1>1
<1>4. After(body.bytes, reply.body) \in Seq(Elems)
  BY <1>2, <1>3, AfterIs
<1>5. Line(Blank) \in Elems
  BY ElemsAre DEF Blank
<1>6. <<Line(Blank)>> \in Seq(Elems)
  BY <1>5
<1>7. ASSUME reply.framing = "chunked"
      PROVE /\ reply.ends \in Chunkings /\ Len(reply.ends) \in Nat
            /\ \A k \in 1 .. Len(reply.ends) + 1 :
                 Chunk(k) \in Seq(Elems) /\ <<Line(Blank)>> \o Chunk(k) \in Seq(Elems)
            /\ \A k \in 1 .. Len(reply.ends) : InChunkAt(k) =>
                 /\ body.bytes =< reply.ends[k] /\ reply.ends[k] \in 1 .. SizeT - 1
                 /\ Bytes(requests, body.bytes + 1, reply.ends[k]) \in Seq(Elems)
                 /\ Rest(k) \in Seq(Elems)
  <2>1. reply.ends \in Chunkings
    BY <1>2, <1>7
  <2>. DEFINE ends == reply.ends
              n == Len(ends)
  <2>2. n \in Nat
    BY <2>1, HttpReadAssumption
  <2>3. ASSUME NEW k \in 1 .. n + 1
        PROVE  Chunk(k) \in Seq(Elems) /\ <<Line(Blank)>> \o Chunk(k) \in Seq(Elems)
    <3>1. Chunk(k) \in Seq(Elems)
      BY <1>1, <2>1, ChunksAre DEF Chunk
    <3>. QED
      BY <1>5, <3>1, OneMore
  <2>4. ASSUME NEW k \in 1 .. n, InChunkAt(k)
        PROVE  /\ body.bytes =< ends[k] /\ ends[k] \in 1 .. SizeT - 1
               /\ Bytes(requests, body.bytes + 1, ends[k]) \in Seq(Elems) /\ Rest(k) \in Seq(Elems)
    <3>1. k \in 1 .. n + 1 /\ k =< n /\ k + 1 \in 1 .. n + 1
      BY <2>2
    <3>2. ends[k] \in 1 .. SizeT - 1 /\ Before(ends, k) \in 0 .. SizeT - 1
      BY <2>1, <3>1, StartsRise
    <3>3. body.bytes = Before(ends, k) + body.n /\ body.chunk = ends[k] - Before(ends, k)
      BY <2>4 DEF InChunkAt, Start
    <3>4. body.bytes =< ends[k] /\ body.bytes + 1 \in Nat \ {0} /\ body.bytes + 1 =< ends[k] + 1
      <4>. DEFINE e == ends[k]
                  start == Before(ends, k)
      <4>1. body.n \in Nat /\ body.n =< body.chunk /\ body.chunk = e - start
        BY <1>1, <3>3
      <4>2. e \in Nat /\ start \in Nat /\ body.bytes = start + body.n
        BY <3>2, <3>3
      <4>. HIDE DEF e, start
      <4>3. body.bytes \in Nat /\ body.bytes =< e
        BY <4>1, <4>2
      <4>. QED
        BY <4>2, <4>3 DEF e
    <3>5. ends[k] \in Nat
      BY <3>2
    <3>6. Bytes(requests, body.bytes + 1, ends[k]) \in Seq(Elems)
      BY <1>1, <3>4, <3>5, BytesIs
    <3>7. <<Line(Blank)>> \o Chunk(k + 1) \in Seq(Elems)
      BY <2>3, <3>1
    <3>8. Rest(k) \in Seq(Elems)
      BY <3>6, <3>7, ConcatProperties DEF Rest
    <3>. QED
      BY <3>2, <3>4, <3>6, <3>8
  <2>. QED
    BY <2>1, <2>2, <2>3, <2>4
<1>. QED
  BY <1>1, <1>2, <1>3, <1>4, <1>6, <1>7 DEF Sorted

\* A step of the server or of socket_read that loses nothing of what remains leaves the
\* browser where it was in the reply.
LEMMA Kept ==
    ASSUME Typed, Reading, pc \notin {"start", "read"}, UNCHANGED <<pc, body, reply, requests>>,
           call'.want = call.want, Hopeless => Hopeless',
           \A seq \in Seq(Elems) : Remains(seq) => Remains(seq)'
    PROVE  Reading'
<1>1. Sorted
  BY SortedIs
<1>2. pc' \in Places \ {"start", "read"} /\ pc' = pc /\ body' = body /\ reply' = reply
      /\ requests' = requests
  BY DEF Typed
<1>3. CASE pc = "head"
  <2>1. InHead'
    BY <1>1, <1>2, <1>3 DEF Reading, InHead, Sorted
  <2>. QED
    BY <1>2, <1>3, <2>1 DEF Reading
<1>4. CASE pc = "length"
  <2>1. InLength'
    BY <1>1, <1>2, <1>4 DEF Reading, InLength, Sorted
  <2>. QED
    BY <1>2, <1>4, <2>1 DEF Reading
<1>5. CASE pc = "close"
  <2>1. InClose'
    BY <1>1, <1>2, <1>5 DEF Reading, InClose, Sorted
  <2>. QED
    BY <1>2, <1>5, <2>1 DEF Reading
<1>6. CASE pc = "size"
  <2>1. InSize
    BY <1>6 DEF Reading
  <2>2. InPtr' /\ reply'.framing = "chunked"
    BY <1>2, <2>1 DEF InSize, InPtr
  <2>3. PICK k \in 1 .. Len(reply.ends) + 1 :
          body.bytes = Start(k) /\ (Remains(Chunk(k)) \/ Remains(<<Line(Blank)>> \o Chunk(k)))
    BY <2>1 DEF InSize
  <2>4. Chunk(k) \in Seq(Elems) /\ <<Line(Blank)>> \o Chunk(k) \in Seq(Elems)
    BY <1>1, <2>1 DEF Sorted, InSize
  <2>. DEFINE s == Chunk(k)
              t == <<Line(Blank)>> \o Chunk(k)
  <2>5. Chunk(k)' = Chunk(k) /\ Start(k)' = Start(k)
    BY <1>2 DEF Chunk, Start
  <2>6. Remains(Chunk(k))' \/ Remains(<<Line(Blank)>> \o Chunk(k))'
    <3>1. (s \in Seq(Elems) /\ Remains(s)) \/ (t \in Seq(Elems) /\ Remains(t))
      BY <2>3, <2>4
    <3>2. s' = s /\ t' = t
      BY <2>5
    <3>. HIDE DEF s, t
    <3>3. PICK u \in {s, t} : u \in Seq(Elems) /\ Remains(u)
      BY <3>1
    <3>4. Remains(u)'
      BY <3>3
    <3>5. Remains(s)' \/ Remains(t)'
      BY <3>2, <3>3, <3>4 DEF Remains
    <3>. QED
      BY <3>5 DEF s, t
  <2>7. InSize'
    BY <1>2, <2>2, <2>3, <2>5, <2>6 DEF InSize
  <2>. QED
    BY <1>2, <1>6, <2>7 DEF Reading
<1>7. CASE pc = "chunk"
  <2>1. InChunk
    BY <1>7 DEF Reading
  <2>2. InPtr' /\ reply'.framing = "chunked"
    BY <1>2, <2>1 DEF InChunk, InPtr
  <2>3. PICK k \in 1 .. Len(reply.ends) : InChunkAt(k) /\ Remains(Rest(k))
    BY <2>1 DEF InChunk, InChunkAt, Rest
  <2>4. Rest(k) \in Seq(Elems)
    BY <1>1, <2>1, <2>3 DEF Sorted, InChunk
  <2>5. Rest(k)' = Rest(k) /\ (InChunkAt(k)' <=> InChunkAt(k))
    BY <1>2 DEF Rest, Chunk, InChunkAt, Start
  <2>6. Remains(Rest(k))'
    <3>. DEFINE u == Rest(k)
    <3>1. u \in Seq(Elems) /\ Remains(u) /\ u' = u
      BY <2>3, <2>4, <2>5
    <3>. HIDE DEF u
    <3>2. Remains(u)'
      BY <3>1 DEF Remains
    <3>. QED
      BY <3>2 DEF u
  <2>7. InChunk'
    BY <1>2, <2>2, <2>3, <2>5, <2>6 DEF InChunk, InChunkAt, Rest
  <2>. QED
    BY <1>2, <1>7, <2>7 DEF Reading
<1>8. CASE pc = "last"
  <2>1. InLast'
    BY <1>1, <1>2, <1>8 DEF Reading, InLast, Sorted, InPtr, Start
  <2>. QED
    BY <1>2, <1>8, <2>1 DEF Reading
<1>9. CASE pc = "broken"
  BY <1>2, <1>9 DEF Reading
<1>. QED
  BY <1>2, <1>3, <1>4, <1>5, <1>6, <1>7, <1>8, <1>9 DEF Places

-----------------------------------------------------------------------------
(* Every action keeps the inductive invariant: the server and socket_read. *)

Kind(c) == c \in [want : Nat, out : Seq(Elems), over : BOOLEAN, res : Int]

LEMMA HInvInit ==
    ASSUME Init
    PROVE  HInv
<1>1. /\ up = "open" /\ todo = << >> /\ wire = << >> /\ buffer = << >> /\ requests = 0
      /\ pc = "start" /\ body = Empty /\ late = FALSE /\ reply.framing = "close"
  BY DEF Init
<1>2. call = [want |-> 0, out |-> << >>, over |-> TRUE, res |-> 0]
  BY DEF Init, Calling
<1>. DEFINE none == << >>
<1>3. none \in Seq(Elems) /\ Len(none) = 0
  OBVIOUS
<1>4. todo = none /\ wire = none /\ buffer = none /\ call = [want |-> 0, out |-> none, over |-> TRUE, res |-> 0]
      /\ body = [ptr |-> none, size |-> MaxFile, bytes |-> 0, chunk |-> 0, n |-> 0]
  BY <1>1, <1>2 DEF Empty
<1>5. MaxFile \in Nat \ {0} /\ BufSize \in Nat \ {0} /\ SizeT \in Nat \ {0} /\ Requests \in Nat \ {0}
  BY HttpReadAssumption
<1>6. InStart
  BY <1>1 DEF InStart
<1>. HIDE DEF none
<1>7. body \in [ptr : Seq(Elems), size : Nat \ {0}, bytes : 0 .. SizeT - 1, chunk : Nat, n : Nat]
  BY <1>3, <1>4, <1>5
<1>8. call \in [want : Nat, out : Seq(Elems), over : BOOLEAN, res : Int]
  BY <1>3, <1>4
<1>9. Typed
  <2>1. /\ call.want = 0 /\ call.out = none /\ call.over = TRUE /\ call.res = 0
        /\ body.n = 0 /\ body.chunk = 0
    BY <1>4
  <2>2. /\ Len(call.out) <= call.want
        /\ call.over => call.res \in {Len(call.out), 0, -1}
        /\ ~call.over => call.res = Len(call.out)
        /\ body.n <= body.chunk
    BY <1>3, <2>1
  <2>3. /\ todo \in Seq(Elems) /\ wire \in Seq(Elems)
        /\ buffer \in Seq(Elems) /\ Len(buffer) < BufSize
    BY <1>3, <1>4, <1>5
  <2>4. /\ up = "open" /\ late = FALSE /\ requests = 0
        /\ pc = "start" /\ body = Empty /\ reply.framing = "close"
    BY <1>1, Zenon
  <2>5. up \in {"open", "closed", "reset"} /\ late \in BOOLEAN /\ requests \in 0 .. Requests
    <3>1. 0 \in 0 .. Requests
      BY <1>5
    <3>2. requests \in 0 .. Requests
      BY <2>4, <3>1, Zenon
    <3>. QED
      BY <2>4, <3>2, Zenon
  <2>. QED
    BY <1>7, <1>8, <2>1, <2>2, <2>3, <2>4, <2>5 DEF Typed, Places
<1>10. Wanted
  BY <1>1 DEF Wanted
<1>11. Stopped
  BY <1>3, <1>4 DEF Stopped, Full
<1>12. Reading
  BY <1>1, <1>6 DEF Reading
<1>. QED
  BY <1>9, <1>10, <1>11, <1>12 DEF HInv

LEMMA SendKeeps ==
    ASSUME HInv, Send
    PROVE  HInv'
<1>1. /\ up = "open" /\ todo # << >>
      /\ UNCHANGED <<up, reply, buffer, call, pc, body, requests, late>>
  BY DEF Send, reader
<1>2. PICK k \in 1 .. Len(todo) : wire' = wire \o SubSeq(todo, 1, k) /\ todo' = SubSeq(todo, k + 1, Len(todo))
  BY DEF Send
<1>3. Typed /\ Wanted /\ todo \in Seq(Elems) /\ wire \in Seq(Elems)
  BY DEF HInv, Typed
<1>. DEFINE got == FirstOf(k, todo)
            rest == After(k, todo)
<1>4. k \in Nat /\ k =< Len(todo) /\ Len(todo) \in Nat
  BY <1>3
<1>5. got \in Seq(Elems) /\ rest \in Seq(Elems) /\ got \o rest = todo
  BY <1>3, <1>4, FirstOfIs, AfterIs, CutInTwo
<1>6. wire' = wire \o got /\ todo' = rest
  <2>1. (IF k < Len(todo) THEN k ELSE Len(todo)) = k
    BY <1>4
  <2>. QED
    BY <1>2, <2>1 DEF FirstOf, After
<1>. HIDE DEF got, rest
<1>7. wire' \in Seq(Elems) /\ todo' \in Seq(Elems)
  BY <1>3, <1>5, <1>6, ConcatProperties
<1>8. Typed'
  BY <1>1, <1>3, <1>7 DEF Typed, Replies, Empty
<1>9. Wanted'
  BY <1>1, <1>3 DEF Wanted
<1>10. ASSUME ~late PROVE Stopped' /\ Reading'
  <2>1. Stopped /\ Reading
    BY <1>10 DEF HInv
  <2>2. Stopped'
    BY <1>1, <2>1 DEF Stopped, Full
  <2>3. pc \notin {"start", "read"}
    BY <1>1, <2>1 DEF Reading, InStart, InRead
  <2>4. Hopeless => Hopeless'
    BY <1>1 DEF Hopeless
  <2>5. ASSUME NEW seq \in Seq(Elems), Remains(seq) PROVE Remains(seq)'
    <3>1. RemainsOf("open", call.out, buffer, wire, got \o rest, seq)
      BY <1>1, <1>5, <2>5 DEF Remains
    <3>2. call.out \in Seq(Elems) /\ buffer \in Seq(Elems)
      BY <1>3 DEF Typed
    <3>3. RemainsOf("open", call.out, buffer, wire \o got, rest, seq)
      BY <1>3, <1>5, <3>1, <3>2, RemainsArrived
    <3>. QED
      BY <1>1, <1>6, <3>3 DEF Remains
  <2>6. Reading'
    BY <1>1, <1>3, <2>1, <2>3, <2>4, <2>5, Kept
  <2>. QED
    BY <2>2, <2>6
<1>. QED
  BY <1>1, <1>8, <1>9, <1>10 DEF HInv, Typed

LEMMA HangUpKeeps ==
    ASSUME HInv, HangUp
    PROVE  HInv'
<1>1. /\ up = "open" /\ up' \in {"closed", "reset"}
      /\ IF up' = "reset" THEN wire' = << >> ELSE wire' = wire
      /\ UNCHANGED <<todo, reply, buffer, call, pc, body, requests, late>>
  BY DEF HangUp, reader
<1>2. Typed /\ Wanted
  BY DEF HInv
<1>3. wire' \in Seq(Elems)
  <2>1. << >> \in Seq(Elems) /\ wire \in Seq(Elems)
    BY <1>2 DEF Typed
  <2>. QED
    BY <1>1, <2>1, Zenon
<1>4. Typed'
  BY <1>1, <1>2, <1>3 DEF Typed, Replies, Empty
<1>5. Wanted'
  BY <1>1, <1>2 DEF Wanted
<1>6. ASSUME ~late PROVE Stopped' /\ Reading'
  <2>1. Stopped /\ Reading
    BY <1>6 DEF HInv
  <2>2. Stopped'
    BY <1>1, <2>1 DEF Stopped, Full
  <2>3. Hopeless => Hopeless'
    BY <1>1 DEF Hopeless
  <2>4. ASSUME NEW seq \in Seq(Elems), Remains(seq) PROVE Remains(seq)'
    BY <1>1, <2>4 DEF Remains, RemainsOf
  <2>5. CASE pc \notin {"start", "read"}
    BY <1>1, <1>2, <2>1, <2>2, <2>3, <2>4, <2>5, Kept
  <2>6. CASE pc = "start"
    <3>1. InStart'
      BY <1>1, <2>1, <2>6 DEF Reading, InStart
    <3>. QED
      BY <1>1, <2>2, <2>6, <3>1 DEF Reading
  <2>7. CASE pc = "read"
    <3>1. InStart'
      BY <1>1, <2>1, <2>7 DEF Reading, InStart, InRead
    <3>2. reply.framing # "close"
      BY <1>1, <2>1, <2>7 DEF Reading, InRead
    <3>3. InRead'
      BY <1>1, <2>1, <2>7, <3>1, <3>2 DEF Reading, InRead
    <3>. QED
      BY <1>1, <2>2, <2>7, <3>3 DEF Reading
  <2>. QED
    BY <2>5, <2>6, <2>7
<1>. QED
  BY <1>1, <1>4, <1>5, <1>6 DEF HInv, Typed

\* What a call and the buffer are after it was served.
Served(filled, ended) ==
    /\ Missing \in Nat
    /\ call'.want = call.want /\ call'.out = call.out \o FirstOf(Missing, filled)
    /\ Kind(call') /\ Len(call'.out) <= call'.want /\ call'.res = Len(call'.out)
    /\ call'.over = (ended \/ Len(call'.out) = call'.want)
    /\ Len(call'.out) = Len(call.out) + (IF Missing < Len(filled) THEN Missing ELSE Len(filled))
    /\ buffer' = After(Missing, filled) /\ buffer' \in Seq(Elems)
    /\ Len(buffer') = IF Missing < Len(filled) THEN Len(filled) - Missing ELSE 0

LEMMA ServeIs ==
    ASSUME Typed, NEW filled \in Seq(Elems), NEW ended \in BOOLEAN, Serve(filled, ended)
    PROVE  Served(filled, ended)
<1>1. Kind(call) /\ Len(call.out) <= call.want
  BY DEF Typed, Kind
<1>2. /\ call.want \in Nat /\ call.out \in Seq(Elems) /\ Len(call.out) \in Nat
      /\ call.over \in BOOLEAN /\ call.res \in Int
  BY <1>1 DEF Kind
<1>3. Missing \in Nat /\ Missing = call.want - Len(call.out)
  BY <1>1, <1>2 DEF Missing
<1>. DEFINE got == FirstOf(Missing, filled)
            out == call.out \o got
<1>4. got \in Seq(Elems) /\ Len(got) = IF Missing < Len(filled) THEN Missing ELSE Len(filled)
  BY <1>3, FirstOfIs
<1>5. /\ buffer' = After(Missing, filled)
      /\ call' = [call EXCEPT !.out = out, !.over = (ended \/ Len(out) = call.want), !.res = Len(out)]
  BY DEF Serve
<1>6. /\ buffer' \in Seq(Elems)
      /\ Len(buffer') = IF Missing < Len(filled) THEN Len(filled) - Missing ELSE 0
  BY <1>3, <1>5, AfterIs
<1>. HIDE DEF got
<1>7. out \in Seq(Elems) /\ Len(out) = Len(call.out) + Len(got)
  BY <1>2, <1>4, ConcatProperties
<1>. HIDE DEF out
<1>8. Len(out) \in Nat /\ Len(out) <= call.want
  BY <1>2, <1>3, <1>4, <1>7
<1>9. /\ call' \in [want : Nat, out : Seq(Elems), over : BOOLEAN, res : Int]
      /\ call'.want = call.want /\ call'.out = out /\ call'.res = Len(out)
      /\ call'.over = (ended \/ Len(out) = call.want)
  <2>. DEFINE over == ended \/ Len(out) = call.want
  <2>1. over \in BOOLEAN
    OBVIOUS
  <2>2. call' = [call EXCEPT !.out = out, !.over = over, !.res = Len(out)]
    BY <1>5
  <2>. HIDE DEF over
  <2>3. Len(out) \in Int /\ call \in [want : Nat, out : Seq(Elems), over : BOOLEAN, res : Int]
    BY <1>1, <1>8 DEF Kind
  <2>4. /\ call'.want = call.want /\ call'.out = out /\ call'.res = Len(out) /\ call'.over = over
        /\ call' \in [want : Nat, out : Seq(Elems), over : BOOLEAN, res : Int]
    BY <1>7, <2>1, <2>2, <2>3
  <2>. QED
    BY <2>4 DEF over
<1>10. Len(call'.out) = Len(call.out) + (IF Missing < Len(filled) THEN Missing ELSE Len(filled))
  BY <1>4, <1>7, <1>9
<1>11. call'.out = call.out \o FirstOf(Missing, filled)
  BY <1>9, Zenon DEF out, got
<1>12. Kind(call')
  BY <1>9 DEF Kind
<1>13. /\ Len(call'.out) <= call'.want /\ call'.res = Len(call'.out)
       /\ call'.over = (ended \/ Len(call'.out) = call'.want)
  BY <1>8, <1>9
<1>. QED
  BY <1>3, <1>5, <1>6, <1>9, <1>10, <1>11, <1>12, <1>13 DEF Served

LEMMA ServedKeeps ==
    ASSUME HInv, ~call.over, UNCHANGED <<up, todo, reply, pc, body, requests, late>>,
           NEW got \in Seq(Elems), wire' \in Seq(Elems), wire = got \o wire',
           NEW ended \in BOOLEAN, Serve(buffer \o got, ended),
           Len(buffer) + Len(got) < BufSize + Missing,
           ended => up = "closed" /\ wire = << >> /\ Len(buffer) < Missing
    PROVE  HInv'
<1>. DEFINE filled == buffer \o got
<1>1. Typed /\ Wanted
  BY DEF HInv
<1>2. /\ buffer \in Seq(Elems) /\ Len(buffer) \in Nat /\ Len(got) \in Nat /\ call.out \in Seq(Elems)
      /\ Len(call.out) \in Nat /\ todo \in Seq(Elems) /\ BufSize \in Nat \ {0}
  <2>1. buffer \in Seq(Elems) /\ call.out \in Seq(Elems) /\ todo \in Seq(Elems)
    BY <1>1 DEF Typed
  <2>2. BufSize \in Nat \ {0}
    BY HttpReadAssumption
  <2>. QED
    BY <2>1, <2>2
<1>3. filled \in Seq(Elems) /\ Len(filled) = Len(buffer) + Len(got)
  BY <1>2, ConcatProperties
<1>4. Served(filled, ended)
  BY <1>1, <1>3, ServeIs
<1>. HIDE DEF filled
<1>5. wire = << >> => got = << >> /\ wire' = << >>
  <2>1. ASSUME NEW a \in Seq(Elems), NEW b \in Seq(Elems), a \o b = << >>
        PROVE  a = << >> /\ b = << >>
    BY <2>1, ConcatEqualIffEmpty
  <2>. QED
    BY <2>1
<1>6. Typed'
  <2>1. Len(buffer') < BufSize
    BY <1>2, <1>3, <1>4 DEF Served, filled
  <2>2. up = "reset" => wire' = << >>
    BY <1>1, <1>5 DEF Typed
  <2>3. pc \notin {"start", "read", "broken"}
    BY <1>1 DEF Typed
  <2>4. /\ call' \in [want : Nat, out : Seq(Elems), over : BOOLEAN, res : Int]
        /\ Len(call'.out) <= call'.want /\ call'.res = Len(call'.out) /\ buffer' \in Seq(Elems)
    BY <1>4 DEF Served, Kind
  <2>. QED
    BY <1>1, <2>1, <2>2, <2>3, <2>4 DEF Typed, Replies, Empty
<1>7. Wanted'
  BY <1>1, <1>4 DEF Wanted, Served
<1>8. ASSUME ~late PROVE Stopped' /\ Reading'
  <2>1. Stopped /\ Reading
    BY <1>8 DEF HInv
  <2>2. Stopped'
    <3>1. CASE Len(call'.out) = call'.want
      BY <1>4, <3>1 DEF Stopped, Full, Served
    <3>2. CASE Len(call'.out) # call'.want
      <4>. SUFFICES ASSUME call'.over PROVE Stopped'
        BY DEF Stopped
      <4>1. ended
        BY <1>4, <3>2 DEF Served
      <4>2. up' = "closed" /\ wire' = << >> /\ got = << >> /\ Len(buffer) < Missing
        BY <1>5, <4>1
      <4>3. Len(got) = 0
        BY <4>2
      <4>4. Missing \in Nat /\ Len(buffer') = 0 /\ buffer' \in Seq(Elems)
        BY <1>2, <1>3, <1>4, <4>2, <4>3 DEF Served
      <4>5. buffer' = << >>
        BY <4>4, EmptySeq
      <4>. QED
        BY <1>4, <4>2, <4>5 DEF Stopped, Served
    <3>. QED
      BY <3>1, <3>2
  <2>3. pc \notin {"start", "read"}
    BY <1>1 DEF Typed
  <2>4. Hopeless => Hopeless'
    <3>. SUFFICES ASSUME Hopeless PROVE Hopeless'
      OBVIOUS
    <3>1. up' # "open" /\ wire' = << >> /\ got = << >> /\ buffer = << >> /\ call.out = << >>
      BY <1>5 DEF Hopeless
    <3>2. Len(filled) = 0 /\ Len(call.out) = 0
      BY <1>3, <3>1
    <3>3. Len(buffer') = 0 /\ buffer' \in Seq(Elems) /\ Len(call'.out) = 0 /\ call'.out \in Seq(Elems)
      <4>1. Missing \in Nat
        BY <1>4 DEF Served
      <4>2. Len(buffer') = 0 /\ buffer' \in Seq(Elems)
        BY <1>4, <3>2, <4>1 DEF Served
      <4>3. Len(call'.out) = 0
        BY <1>4, <3>2, <4>1 DEF Served
      <4>4. call'.out \in Seq(Elems)
        BY <1>4 DEF Served, Kind
      <4>. QED
        BY <4>2, <4>3, <4>4
    <3>4. buffer' = << >> /\ call'.out = << >>
      BY <3>3, EmptySeq
    <3>. QED
      BY <3>1, <3>4 DEF Hopeless
  <2>5. ASSUME NEW seq \in Seq(Elems), Remains(seq) PROVE Remains(seq)'
    <3>1. RemainsOf(up, call.out, buffer, got \o wire', todo, seq)
      BY <2>5, Zenon DEF Remains
    <3>2. Missing \in Nat /\ buffer' = After(Missing, filled)
          /\ call'.out = call.out \o FirstOf(Missing, filled)
      BY <1>4 DEF Served
    <3>3. RemainsOf(up, call.out \o FirstOf(Missing, filled), After(Missing, filled), wire', todo, seq)
      BY <1>2, <3>1, <3>2, RemainsServed DEF filled
    <3>. QED
      BY <3>2, <3>3 DEF Remains
  <2>6. Reading'
    <3>1. call'.want = call.want
      BY <1>4 DEF Served
    <3>. QED
      BY <1>1, <2>1, <2>3, <2>4, <2>5, <3>1, Kept
  <2>. QED
    BY <2>2, <2>6
<1>. QED
  BY <1>6, <1>7, <1>8 DEF HInv, Typed

LEMMA SocketReadKeeps ==
    ASSUME HInv, SocketRead
    PROVE  HInv'
<1>1. Typed /\ Wanted
  BY DEF HInv
<1>2. /\ buffer \in Seq(Elems) /\ Len(buffer) \in Nat /\ Len(buffer) < BufSize
      /\ wire \in Seq(Elems) /\ BufSize \in Nat \ {0}
      /\ call.out \in Seq(Elems) /\ call.want \in Nat /\ Len(call.out) <= call.want
      /\ Kind(call)
  BY <1>1, HttpReadAssumption DEF Typed, Kind
<1>3. Missing \in Nat
  BY <1>2 DEF Missing
<1>. DEFINE none == << >>
<1>4. /\ none \in Seq(Elems) /\ Len(none) = 0 /\ buffer \o none = buffer /\ none \o wire = wire
  BY <1>2, ConcatEmptySeq
<1>. HIDE DEF none
<1>5. CASE FromBuffer
  <2>1. /\ ~call.over /\ Serve(buffer, FALSE) /\ wire' = wire
        /\ UNCHANGED <<up, todo, reply, pc, body, requests, late>>
    BY <1>5 DEF FromBuffer, server
  <2>2. Serve(buffer \o none, FALSE) /\ wire = none \o wire' /\ wire' \in Seq(Elems)
    BY <1>2, <1>4, <2>1
  <2>3. Len(buffer) + Len(none) < BufSize + Missing
    BY <1>2, <1>3, <1>4
  <2>. QED
    BY <1>4, <2>1, <2>2, <2>3, ServedKeeps
<1>6. CASE Fill
  <2>. DEFINE got == FirstOf(Room, wire)
  <2>1. /\ Awaits /\ Serve(buffer \o got, FALSE) /\ wire' = After(Room, wire)
        /\ UNCHANGED <<up, todo, reply, pc, body, requests, late>>
    BY <1>6 DEF Fill
  <2>2. ~call.over /\ Len(buffer) < Missing
    BY <2>1 DEF Awaits
  <2>3. Room \in Nat /\ Room = BufSize - Len(buffer)
    BY <1>2 DEF Room
  <2>4. /\ got \in Seq(Elems) /\ wire' \in Seq(Elems) /\ got \o wire' = wire
        /\ Len(got) = IF Room < Len(wire) THEN Room ELSE Len(wire)
    BY <1>2, <2>1, <2>3, FirstOfIs, AfterIs, CutInTwo
  <2>. HIDE DEF got
  <2>5. Len(buffer) + Len(got) < BufSize + Missing
    BY <1>2, <1>3, <2>2, <2>3, <2>4
  <2>. QED
    BY <2>1, <2>2, <2>4, <2>5, ServedKeeps
<1>7. CASE AtEnd
  <2>1. /\ Awaits /\ wire = << >> /\ up = "closed" /\ Serve(buffer, TRUE) /\ wire' = wire
        /\ UNCHANGED <<up, todo, reply, pc, body, requests, late>>
    BY <1>7 DEF AtEnd, server
  <2>2. ~call.over /\ Len(buffer) < Missing
    BY <2>1 DEF Awaits
  <2>3. Serve(buffer \o none, TRUE) /\ wire = none \o wire' /\ wire' \in Seq(Elems)
    BY <1>2, <1>4, <2>1
  <2>4. Len(buffer) + Len(none) < BufSize + Missing
    BY <1>2, <1>3, <1>4
  <2>. QED
    BY <1>4, <2>1, <2>2, <2>3, <2>4, ServedKeeps
<1>8. ASSUME NEW res \in {0, -1}, Results(res), Awaits,
             UNCHANGED <<server, buffer, pc, body, requests>>, late' \in BOOLEAN
      PROVE  /\ Typed' /\ Wanted' /\ call'.out = call.out /\ call'.want = call.want
             /\ call'.over = TRUE /\ call'.res = res
  <2>1. call' = [call EXCEPT !.over = TRUE, !.res = res]
    BY <1>8 DEF Results
  <2>2. /\ call'.want = call.want /\ call'.out = call.out /\ call'.over = TRUE /\ call'.res = res
        /\ call' \in [want : Nat, out : Seq(Elems), over : BOOLEAN, res : Int]
    <3>1. res \in Int /\ call \in [want : Nat, out : Seq(Elems), over : BOOLEAN, res : Int]
      BY <1>2 DEF Kind
    <3>. QED
      BY <2>1, <3>1
  <2>3. pc \notin {"start", "read", "broken"}
    BY <1>1, <1>8 DEF Typed, Awaits
  <2>4. UNCHANGED <<up, todo, wire, reply, buffer, pc, body, requests>>
    BY <1>8 DEF server
  <2>5. call'.res \in {Len(call'.out), 0, -1} /\ Len(call'.out) <= call'.want
    BY <1>2, <2>2
  <2>6. Typed'
    BY <1>1, <1>8, <2>2, <2>3, <2>4, <2>5 DEF Typed, Replies, Empty
  <2>7. Wanted'
    BY <1>1, <2>2, <2>4 DEF Wanted
  <2>. QED
    BY <2>2, <2>6, <2>7
<1>9. CASE Fails
  <2>1. /\ Awaits /\ up = "reset" /\ Results(0)
        /\ UNCHANGED <<up, todo, wire, reply, buffer, pc, body, requests, late>>
    BY <1>9 DEF Fails, server
  <2>2. /\ Typed' /\ Wanted' /\ call'.out = call.out /\ call'.want = call.want
        /\ call'.over = TRUE /\ call'.res = 0
    BY <1>1, <1>8, <1>9 DEF Fails, Typed
  <2>3. ASSUME ~late PROVE Stopped' /\ Reading'
    <3>1. Stopped /\ Reading
      BY <2>3 DEF HInv
    <3>2. Len(call.out) + Len(buffer) < call.want
      BY <1>2, <2>1 DEF Awaits, Missing
    <3>3. Stopped'
      BY <2>1, <2>2, <3>2 DEF Stopped
    <3>4. pc \notin {"start", "read"}
      BY <1>1, <2>1 DEF Typed, Awaits
    <3>5. Hopeless => Hopeless'
      BY <2>1, <2>2 DEF Hopeless
    <3>6. \A seq \in Seq(Elems) : Remains(seq) => Remains(seq)'
      BY <2>1, <2>2 DEF Remains
    <3>7. Reading'
      BY <1>1, <2>1, <2>2, <3>1, <3>4, <3>5, <3>6, Kept
    <3>. QED
      BY <3>3, <3>7
  <2>. QED
    BY <2>1, <2>2, <2>3 DEF HInv, Typed
<1>10. CASE TimesOut
  <2>1. Typed' /\ Wanted' /\ late'
    BY <1>1, <1>8, <1>10 DEF TimesOut, Typed
  <2>. QED
    BY <2>1 DEF HInv
<1>. QED
  BY <1>5, <1>6, <1>7, <1>9, <1>10 DEF SocketRead

-----------------------------------------------------------------------------
(* Every action keeps the inductive invariant: http_read_headers and       *)
(* http_read.                                                              *)

LEMMA CountedIs ==
    ASSUME Typed, NEW n \in Int
    PROVE  /\ Counted(n) \in 0 .. SizeT - 1
           /\ body.bytes + n \in 0 .. SizeT - 1 => Counted(n) = body.bytes + n
           /\ n >= 0 => Counted(n) =< body.bytes + n
<1>1. SizeT \in Nat \ {0} /\ body.bytes \in 0 .. SizeT - 1
  BY HttpReadAssumption DEF Typed
<1>2. ASSUME NEW a \in Int, NEW b \in Nat \ {0}
      PROVE  a % b \in 0 .. b - 1 /\ (a \in 0 .. b - 1 => a % b = a) /\ (a >= 0 => a % b =< a)
  OBVIOUS
<1>. DEFINE a == body.bytes + n
<1>3. a \in Int /\ (n >= 0 => a >= 0)
  BY <1>1
<1>. HIDE DEF a
<1>4. a % SizeT \in 0 .. SizeT - 1 /\ (a \in 0 .. SizeT - 1 => a % SizeT = a) /\ (a >= 0 => a % SizeT =< a)
  BY <1>1, <1>2, <1>3
<1>. QED
  BY <1>3, <1>4 DEF Counted, a

Locals == [ptr : Seq(Elems), size : Nat \ {0}, bytes : 0 .. SizeT - 1, chunk : Nat, n : Nat]

\* What the steps of the browser have in common.
Turn == call.over /\ UNCHANGED <<up, todo, wire, reply, buffer, requests, late>>
Asks(want) == want \in Nat /\ call' = Calling(want)

LEMMA CallingIs ==
    ASSUME NEW want \in Nat
    PROVE  /\ Kind(Calling(want)) /\ Calling(want).want = want /\ Calling(want).out = << >>
           /\ Calling(want).over = FALSE /\ Calling(want).res = 0 /\ Len(Calling(want).out) = 0
<1>. DEFINE none == << >>
<1>1. none \in Seq(Elems) /\ Len(none) = 0
  OBVIOUS
<1>2. Calling(want) = [want |-> want, out |-> none, over |-> FALSE, res |-> 0]
  BY DEF Calling
<1>. HIDE DEF none
<1>3. /\ Kind(Calling(want)) /\ Calling(want).want = want /\ Calling(want).out = none
      /\ Calling(want).over = FALSE /\ Calling(want).res = 0
  BY <1>1, <1>2 DEF Kind
<1>. QED
  BY <1>1, <1>3 DEF none

LEMMA TurnTyped ==
    ASSUME Typed, Turn, pc # "start", pc' \in Places \ {"start"},
           body' \in Locals, body'.n <= body'.chunk,
           \/ UNCHANGED call
           \/ pc' \notin {"read", "broken"} /\ \E want : Asks(want)
    PROVE  Typed'
<1>1. UNCHANGED <<up, todo, wire, reply, buffer, requests, late>> /\ call.over
  BY DEF Turn
<1>2. CASE UNCHANGED call
  BY <1>1, <1>2 DEF Typed, Locals, Places, Replies
<1>3. CASE pc' \notin {"read", "broken"} /\ \E want : Asks(want)
  <2>1. PICK want : Asks(want)
    BY <1>3
  <2>2. Kind(call') /\ call'.want \in Nat /\ call'.over = FALSE /\ call'.res = 0 /\ Len(call'.out) = 0
    BY <2>1, CallingIs DEF Asks
  <2>3. call' \in [want : Nat, out : Seq(Elems), over : BOOLEAN, res : Int]
    BY <2>2 DEF Kind
  <2>. QED
    BY <1>1, <1>3, <2>2, <2>3 DEF Typed, Locals, Places, Replies
<1>. QED
  BY <1>2, <1>3

\* After the step, this remains.
Left(seq) == RemainsOf(up', call'.out, buffer', wire', todo', seq)

\* The next call finds what the last one has left.
LEMMA TurnRemains ==
    ASSUME Typed, Turn, NEW want, Asks(want), NEW seq \in Seq(Elems), Remains(seq)
    PROVE  /\ Len(call.out) =< Len(seq) /\ call.out = FirstOf(Len(call.out), seq)
           /\ Len(call.out) \in Nat
           /\ After(Len(call.out), seq) \in Seq(Elems)
           /\ Left(After(Len(call.out), seq))
<1>1. /\ call.out \in Seq(Elems) /\ buffer \in Seq(Elems) /\ wire \in Seq(Elems) /\ todo \in Seq(Elems)
  BY DEF Typed
<1>2. RemainsOf(up, call.out, buffer, wire, todo, seq)
  BY DEF Remains
<1>3. /\ Len(call.out) =< Len(seq) /\ call.out = FirstOf(Len(call.out), seq)
      /\ RemainsOf(up, << >>, buffer, wire, todo, After(Len(call.out), seq))
  BY <1>1, <1>2, RemainsNext
<1>4. call'.out = << >>
  BY CallingIs DEF Asks
<1>5. Len(call.out) \in Nat /\ After(Len(call.out), seq) \in Seq(Elems)
  <2>1. Len(call.out) \in Nat
    BY <1>1
  <2>. QED
    BY <2>1, AfterIs
<1>6. Left(After(Len(call.out), seq))
  BY <1>3, <1>4 DEF Turn, Left
<1>. QED
  BY <1>3, <1>5, <1>6

LEMMA NothingLeft ==
    ASSUME Typed, NEW seq \in Seq(Elems), Remains(seq), Len(seq) =< Len(call.out)
    PROVE  call.out = seq /\ buffer = << >> /\ wire = << >> /\ (up # "reset" => todo = << >>)
<1>1. /\ call.out \in Seq(Elems) /\ buffer \in Seq(Elems) /\ wire \in Seq(Elems) /\ todo \in Seq(Elems)
  BY DEF Typed
<1>2. RemainsOf(up, call.out, buffer, wire, todo, seq)
  BY DEF Remains
<1>. QED
  BY <1>1, <1>2, RemainsNothing

\* What a call has taken is the front of what remained when it was made.
LEMMA TakenIs ==
    ASSUME Typed, NEW seq \in Seq(Elems), Remains(seq)
    PROVE  /\ Len(call.out) =< Len(seq) /\ call.out = FirstOf(Len(call.out), seq)
           /\ Len(call.out) \in Nat
<1>1. /\ call.out \in Seq(Elems) /\ buffer \in Seq(Elems) /\ wire \in Seq(Elems) /\ todo \in Seq(Elems)
  BY DEF Typed
<1>2. RemainsOf(up, call.out, buffer, wire, todo, seq)
  BY DEF Remains
<1>3. /\ Len(call.out) =< Len(seq) /\ call.out = FirstOf(Len(call.out), seq)
      /\ RemainsOf(up, << >>, buffer, wire, todo, After(Len(call.out), seq))
  BY <1>1, <1>2, RemainsNext
<1>4. Len(call.out) \in Nat
  BY <1>1
<1>. QED
  BY <1>3, <1>4

\* The call was answered in full, or there was no more, or the read failed.
Short == \/ up = "closed" /\ wire = << >> /\ buffer = << >> /\ call.res = Len(call.out)
            /\ call.res < call.want
         \/ up = "reset" /\ wire = << >> /\ call.res = 0 /\ Len(call.out) + Len(buffer) < call.want

LEMMA CallEnds ==
    ASSUME Typed, Stopped, call.over
    PROVE  /\ Full \/ Short
           /\ call.want \in Nat /\ call.res \in Nat /\ Len(call.out) \in Nat
           /\ call.res =< Len(call.out) /\ call.out \in Seq(Elems)
<1>1. /\ call.want \in Nat /\ call.out \in Seq(Elems) /\ Len(call.out) \in Nat
      /\ Len(call.out) =< call.want /\ (up = "reset" => wire = << >>)
  BY DEF Typed
<1>2. \/ Full
      \/ up = "closed" /\ wire = << >> /\ buffer = << >> /\ call.res = Len(call.out)
      \/ up = "reset" /\ call.res = 0 /\ Len(call.out) + Len(buffer) < call.want
  BY DEF Stopped
<1>. QED
  BY <1>1, <1>2 DEF Full, Short

LEMMA ReadHeadKeeps ==
    ASSUME HInv, ReadHead
    PROVE  HInv'
<1>1. Typed /\ Wanted /\ Turn /\ pc = "head"
  BY DEF HInv, ReadHead, At, Turn, server
<1>2. Sorted
  BY <1>1, SortedIs
<1>. DEFINE none == << >>
<1>3. /\ MaxFile \in Nat \ {0} /\ SizeT \in Nat \ {0} /\ none \in Seq(Elems)
      /\ body \in Locals /\ body.n <= body.chunk
  BY <1>1, HttpReadAssumption DEF Typed, Locals
<1>4. /\ Empty \in Locals /\ Empty.n = 0 /\ Empty.chunk = 0 /\ Empty.bytes = 0 /\ Empty.ptr = none
      /\ Empty.size = MaxFile
  <2>. HIDE DEF none
  <2>1. Empty = [ptr |-> none, size |-> MaxFile, bytes |-> 0, chunk |-> 0, n |-> 0]
    BY DEF Empty, none
  <2>. QED
    BY <1>3, <2>1 DEF Locals
<1>. HIDE DEF none
\* What Framed does, typed.
<1>5. ASSUME NEW framing, NEW length \in Nat, Framed(framing, length)
      PROVE  Typed' /\ Wanted' /\ pc' \in {"read", "length", "size", "close"}
  <2>1. body' = Empty
    BY <1>5 DEF Framed
  <2>2. CASE Return("read")
    <3>1. pc' = "read" /\ UNCHANGED call
      BY <2>2 DEF Return
    <3>2. Typed'
      BY <1>1, <1>4, <2>1, <3>1, TurnTyped DEF Places
    <3>. QED
      BY <3>1, <3>2 DEF Wanted
  <2>3. ASSUME NEW place \in {"length", "size", "close"}, NEW want \in Nat \ {0}, Read(place, want),
               place = "size" => want = 1
        PROVE  Typed' /\ Wanted' /\ pc' \in {"length", "size", "close"}
    <3>1. pc' = place /\ Asks(want)
      BY <2>3 DEF Read, Asks
    <3>2. Typed'
      BY <1>1, <1>4, <2>1, <3>1, TurnTyped DEF Places
    <3>3. call'.want = want
      BY <3>1, CallingIs DEF Asks
    <3>4. Wanted'
      BY <1>3, <1>4, <2>1, <2>3, <3>1, <3>3 DEF Wanted
    <3>. QED
      BY <3>1, <3>2, <3>4
  <2>. QED
    BY <1>3, <1>5, <2>2, <2>3 DEF Framed
<1>6. CASE call.res # 1
  <2>1. pc' = "broken" /\ UNCHANGED call /\ UNCHANGED body
    BY <1>6 DEF ReadHead, Return
  <2>2. Typed'
    BY <1>1, <1>3, <2>1, TurnTyped DEF Places
  <2>3. Wanted'
    BY <2>1 DEF Wanted
  <2>4. ~late => Stopped' /\ Reading'
    BY <1>1, <2>1 DEF HInv, Stopped, Full, Reading, InHead, Turn, Empty
  <2>. QED
    BY <1>1, <2>2, <2>3, <2>4 DEF HInv, Turn, Typed
<1>7. CASE call.res = 1
  <2>1. \/ Framed(reply.framing, Len(reply.body))
        \/ Framed("close", 0)
        \/ Read("head", 1) /\ UNCHANGED body
    BY <1>7 DEF ReadHead
  <2>2. Typed' /\ Wanted'
    <3>1. CASE Framed(reply.framing, Len(reply.body)) \/ Framed("close", 0)
      <4>1. Len(reply.body) \in Nat /\ 0 \in Nat
        BY <1>2 DEF Sorted
      <4>. QED
        BY <1>5, <3>1, <4>1
    <3>2. CASE Read("head", 1) /\ UNCHANGED body
      <4>1. pc' = "head" /\ Asks(1)
        BY <3>2 DEF Read, Asks
      <4>2. Typed'
        BY <1>1, <1>3, <3>2, <4>1, TurnTyped DEF Places
      <4>3. call'.want = 1
        BY <4>1, CallingIs DEF Asks
      <4>. QED
        BY <4>1, <4>2, <4>3 DEF Wanted
    <3>. QED
      BY <2>1, <3>1, <3>2
  <2>3. ASSUME ~late PROVE Stopped' /\ Reading'
    <3>1. Stopped /\ InHead
      BY <1>1, <2>3 DEF HInv, Reading
    <3>2. call.want = 1 /\ call.over
      BY <1>1 DEF Wanted, Turn
    <3>3. (Full \/ Short) /\ Len(call.out) \in Nat /\ call.out \in Seq(Elems)
      BY <1>1, <3>1, <3>2, CallEnds
    <3>4. Len(call.out) = 1
      BY <1>7, <3>2, <3>3 DEF Full, Short
    <3>5. Remains(Stream(requests, reply))
      <4>1. ~Hopeless
        BY <3>4 DEF Hopeless
      <4>. QED
        BY <3>1, <4>1 DEF InHead
    <3>. DEFINE what == IF reply.framing = "chunked" THEN Chunk(1) ELSE reply.body
                seq == Stream(requests, reply)
    <3>6. /\ what \in Seq(Elems) /\ seq = <<Headers>> \o what /\ seq \in Seq(Elems)
      <4>1. requests \in Nat /\ reply \in Replies(requests)
        BY <1>1, <1>2 DEF Typed, Sorted
      <4>. QED
        BY <4>1, RepliesAre DEF Chunk
    <3>. HIDE DEF what, seq
    <3>7. Headers \in Elems
      BY ElemsAre
    <3>8. /\ Len(seq) = 1 + Len(what) /\ FirstOf(1, seq) = <<Headers>> /\ After(1, seq) = what
      BY <3>6, <3>7, OneMore
    <3>9. call.out = <<Headers>>
      <4>1. Remains(seq)
        BY <3>5 DEF seq
      <4>2. call.out = FirstOf(Len(call.out), seq)
        BY <1>1, <3>6, <4>1, TakenIs
      <4>. QED
        BY <3>4, <3>8, <4>2
    <3>10. Framed(reply.framing, Len(reply.body))
      <4>1. call.out[1] = Headers
        BY <3>9
      <4>2. Headers # Line(Blank)
        BY ElemsAre DEF Blank
      <4>. QED
        BY <1>7, <4>1, <4>2 DEF ReadHead
    <3>11. body' = Empty /\ reply' = reply /\ requests' = requests
      BY <1>1, <3>10 DEF Framed, Turn
    <3>12. ASSUME NEW want, Asks(want) PROVE Left(what) /\ Stopped'
      <4>1. Remains(seq)
        BY <3>5 DEF seq
      <4>2. Left(After(Len(call.out), seq))
        BY <1>1, <3>6, <3>12, <4>1, TurnRemains
      <4>3. After(Len(call.out), seq) = what /\ call'.over = FALSE
        BY <3>4, <3>8, <3>12, CallingIs DEF Asks
      <4>. QED
        BY <4>2, <4>3 DEF Stopped
    <3>13. CASE reply.framing = "length" /\ Len(reply.body) = 0
      <4>1. pc' = "read" /\ UNCHANGED call
        BY <3>10, <3>13 DEF Framed, Return
      <4>2. Stopped'
        BY <1>1, <3>1, <4>1 DEF Stopped, Full, Turn
      <4>3. what = reply.body /\ Len(seq) =< Len(call.out)
        BY <3>4, <3>8, <3>13 DEF what
      <4>4. buffer = << >> /\ wire = << >> /\ (up # "reset" => todo = << >>)
        BY <1>1, <3>5, <3>6, <4>3, NothingLeft DEF seq
      <4>5. InStart'
        BY <1>1, <4>4 DEF Turn, InStart
      <4>6. reply.body = none /\ IsPrefix(none, none)
        <5>1. reply.body = << >>
          BY <1>2, <3>13, EmptySeq DEF Sorted
        <5>2. IsPrefix(none, none)
          BY <1>3, PrefixIs
        <5>. QED
          BY <5>1, <5>2 DEF none
      <4>7. /\ body'.ptr = none /\ body'.bytes = 0 /\ reply'.body = none /\ Len(reply'.body) = 0
            /\ reply'.framing = "length"
        BY <1>4, <3>11, <3>13, <4>6
      <4>8. InRead'
        BY <4>5, <4>6, <4>7 DEF InRead
      <4>. QED
        BY <4>1, <4>2, <4>8 DEF Reading
    <3>14. CASE reply.framing = "length" /\ Len(reply.body) > 0
      <4>1. pc' = "length" /\ Asks(Len(reply.body)) /\ what = reply.body
        BY <1>2, <3>10, <3>14 DEF Framed, Read, Asks, what, Sorted
      <4>2. Left(reply.body) /\ Stopped' /\ call'.want = Len(reply.body)
        BY <3>12, <4>1, CallingIs DEF Asks
      <4>3. body'.bytes = 0 /\ body'.ptr = << >>
        BY <1>4, <3>11 DEF none
      <4>4. InLength'
        BY <3>11, <3>14, <4>2, <4>3 DEF InLength, Remains, Left
      <4>. QED
        BY <4>1, <4>2, <4>4 DEF Reading
    <3>15. CASE reply.framing = "chunked"
      <4>1. pc' = "size" /\ Asks(1) /\ what = Chunk(1)
        BY <3>10, <3>15 DEF Framed, Read, Asks, what
      <4>2. Left(Chunk(1)) /\ Stopped'
        BY <3>12, <4>1
      <4>3. body'.bytes = 0 /\ body'.ptr = none
        BY <1>4, <3>11
      <4>4. InPtr'
        <5>1. requests \in Nat /\ 0 \in Nat
          BY <1>2 DEF Sorted
        <5>2. Bytes(requests, 1, 0) \in Seq(Elems) /\ Len(Bytes(requests, 1, 0)) = 0
          BY <5>1, BodyBytes
        <5>3. Bytes(requests, 1, 0) = << >>
          BY <5>2, EmptySeq
        <5>. QED
          BY <3>11, <4>3, <5>3 DEF InPtr, none
      <4>5. Chunk(1)' = Chunk(1) /\ Start(1)' = 0
        BY <3>11 DEF Chunk, Start, Before
      <4>6. 1 \in 1 .. Len(reply'.ends) + 1 /\ reply'.framing = "chunked"
        BY <1>2, <3>11, <3>15 DEF Sorted
      <4>7. Remains(Chunk(1))'
        BY <4>2, <4>5 DEF Remains, Left
      <4>8. InSize'
        BY <4>3, <4>4, <4>5, <4>6, <4>7 DEF InSize
      <4>. QED
        BY <4>1, <4>2, <4>8 DEF Reading
    <3>16. CASE reply.framing = "close"
      <4>1. pc' = "close" /\ Asks(MaxFile) /\ what = reply.body
        BY <1>3, <3>10, <3>16 DEF Framed, Read, Asks, what
      <4>2. Left(reply.body) /\ Stopped'
        BY <3>12, <4>1
      <4>3. body'.bytes = 0 /\ After(0, reply.body) = reply.body
        BY <1>2, <1>4, <3>11, AllOf DEF Sorted
      <4>4. InClose'
        BY <1>2, <3>11, <3>16, <4>2, <4>3 DEF InClose, Remains, Left, Sorted
      <4>. QED
        BY <4>1, <4>2, <4>4 DEF Reading
    <3>17. reply.framing \in {"length", "close", "chunked"} /\ Len(reply.body) \in Nat
      <4>1. requests \in Nat /\ reply \in Replies(requests)
        BY <1>1, <1>2 DEF Typed, Sorted
      <4>. QED
        BY <1>2, <4>1, RepliesAre DEF Sorted
    <3>. QED
      BY <3>13, <3>14, <3>15, <3>16, <3>17
  <2>. QED
    BY <1>1, <2>2, <2>3 DEF HInv, Turn, Typed
<1>. QED
  BY <1>6, <1>7

\* What is written over nothing, and nothing over what there is.
LEMMA OverIs ==
    ASSUME NEW new \in Seq(Elems), NEW old \in Seq(Elems)
    PROVE  /\ Over(new, old) \in Seq(Elems)
           /\ old = << >> => Over(new, old) = new
           /\ new = << >> => Over(new, old) = old
<1>1. Len(new) \in Nat /\ Len(old) \in Nat
  OBVIOUS
<1>. DEFINE rest == After(Len(new), old)
<1>2. rest \in Seq(Elems) /\ Len(rest) = IF Len(new) < Len(old) THEN Len(old) - Len(new) ELSE 0
  BY <1>1, AfterIs
<1>3. Over(new, old) = new \o rest
  BY DEF Over
<1>. HIDE DEF rest
<1>4. Over(new, old) \in Seq(Elems)
  BY <1>2, <1>3, ConcatProperties
<1>5. ASSUME old = << >> PROVE Over(new, old) = new
  <2>1. Len(old) = 0
    BY <1>5
  <2>2. Len(rest) = 0
    BY <1>1, <1>2, <2>1
  <2>3. rest = << >>
    BY <1>2, <2>2, EmptySeq
  <2>4. new \o << >> = new
    BY ConcatEmptySeq
  <2>. QED
    BY <1>3, <2>3, <2>4
<1>6. ASSUME new = << >> PROVE Over(new, old) = old
  <2>1. Len(new) = 0
    BY <1>6
  <2>2. rest = old
    BY <2>1, AllOf DEF rest
  <2>3. << >> \o old = old
    BY ConcatEmptySeq
  <2>. QED
    BY <1>3, <1>6, <2>2, <2>3
<1>. QED
  BY <1>4, <1>5, <1>6

LEMMA ReadLengthKeeps ==
    ASSUME HInv, ReadLength
    PROVE  HInv'
<1>1. Typed /\ Wanted /\ Turn /\ pc = "length"
  BY DEF HInv, ReadLength, At, Turn, server
<1>2. Sorted
  BY <1>1, SortedIs
<1>3. /\ body \in Locals /\ body.n <= body.chunk /\ call.out \in Seq(Elems) /\ Len(call.out) \in Nat
      /\ call.want \in Nat /\ call.res \in Int /\ call.want > 0 /\ SizeT \in Nat \ {0}
      /\ body.ptr \in Seq(Elems) /\ body.bytes \in 0 .. SizeT - 1
  BY <1>1, HttpReadAssumption DEF Typed, Locals, Wanted
<1>. DEFINE ptr == Over(call.out, body.ptr)
            put == [body EXCEPT !.ptr = ptr]
            count == Counted(call.res)
            counted == [put EXCEPT !.bytes = count]
<1>4. ptr \in Seq(Elems) /\ count \in 0 .. SizeT - 1
  BY <1>1, <1>3, OverIs, CountedIs
<1>5. \/ call.res = 0 /\ body' = put /\ pc' = "read" /\ UNCHANGED call
      \/ call.res # 0 /\ body' = counted /\ count < call.want /\ pc' = "length" /\ Asks(call.want)
      \/ call.res # 0 /\ body' = counted /\ ~(count < call.want) /\ pc' = "read" /\ UNCHANGED call
  BY <1>3 DEF ReadLength, Return, Read, Asks
<1>. HIDE DEF ptr, count
<1>6. /\ put \in Locals /\ put.ptr = ptr /\ put.bytes = body.bytes /\ put.n <= put.chunk
      /\ counted \in Locals /\ counted.ptr = ptr /\ counted.bytes = count
      /\ counted.n <= counted.chunk
  BY <1>3, <1>4 DEF Locals
<1>. HIDE DEF put, counted
<1>7. body' \in Locals /\ body'.n <= body'.chunk /\ body'.ptr = ptr
  BY <1>5, <1>6
<1>8. Typed'
  BY <1>1, <1>5, <1>7, TurnTyped DEF Places
<1>9. Wanted'
  <2>1. CASE pc' = "read"
    BY <2>1 DEF Wanted
  <2>2. CASE pc' = "length"
    <3>1. Asks(call.want)
      BY <1>5, <2>2
    <3>2. call'.want = call.want
      BY <3>1, CallingIs DEF Asks
    <3>. QED
      BY <1>3, <2>2, <3>2 DEF Wanted
  <2>. QED
    BY <1>5, <2>1, <2>2
<1>10. ASSUME ~late PROVE Stopped' /\ Reading'
  <2>1. Stopped /\ InLength /\ call.over
    BY <1>1, <1>10 DEF HInv, Reading, Turn
  <2>2. (Full \/ Short) /\ call.res =< Len(call.out) /\ call.res \in Nat
    BY <1>1, <2>1, CallEnds
  <2>. DEFINE seq == reply.body
  <2>3. /\ reply.framing = "length" /\ call.want = Len(seq) /\ seq \in Seq(Elems)
        /\ Len(seq) \in 0 .. SizeT - 1
    BY <1>2, <2>1 DEF InLength, Sorted
  <2>. HIDE DEF seq
  <2>4. \/ body.bytes = 0 /\ body.ptr = << >> /\ Remains(seq)
        \/ Hopeless /\ IsPrefix(body.ptr, seq)
    BY <2>1 DEF InLength, seq
  <2>5. /\ reply'.body = seq /\ reply'.framing = "length" /\ up' = up /\ wire' = wire /\ buffer' = buffer
        /\ todo' = todo
    BY <1>1, <2>3 DEF Turn, seq
  \* What is in ptr is a prefix of the body: nothing was added, or what was taken.
  <2>6. IsPrefix(ptr, seq) /\ (Hopeless => call.out = << >>)
    <3>1. CASE body.ptr = << >> /\ Remains(seq)
      <4>1. ptr = call.out
        BY <1>3, <3>1, OverIs DEF ptr
      <4>2. call.out = FirstOf(Len(call.out), seq)
        BY <1>1, <2>3, <3>1, TakenIs
      <4>3. FirstOf(Len(call.out), seq) \o After(Len(call.out), seq) = seq
            /\ After(Len(call.out), seq) \in Seq(Elems)
        BY <1>3, <2>3, CutInTwo, AfterIs
      <4>4. IsPrefix(call.out, call.out \o After(Len(call.out), seq))
        BY <1>3, <4>3, PrefixIs
      <4>5. IsPrefix(call.out, seq)
        BY <4>2, <4>3, <4>4
      <4>. QED
        BY <4>1, <4>5 DEF Hopeless
    <3>2. CASE Hopeless /\ IsPrefix(body.ptr, seq)
      <4>1. call.out = << >>
        BY <3>2 DEF Hopeless
      <4>2. ptr = body.ptr
        BY <1>3, <4>1, OverIs DEF ptr
      <4>. QED
        BY <3>2, <4>1, <4>2
    <3>. QED
      BY <2>4, <3>1, <3>2
  <2>7. CASE call.res = 0
    <3>1. body' = put /\ pc' = "read" /\ UNCHANGED call
      BY <1>5, <2>7
    <3>2. Stopped'
      BY <1>1, <2>1, <3>1 DEF Stopped, Full, Turn
    <3>3. up # "open" /\ wire = << >>
      BY <1>3, <2>2, <2>7 DEF Full, Short
    <3>4. InStart'
      BY <2>5, <3>3 DEF InStart
    <3>5. InRead'
      BY <1>7, <2>5, <2>6, <3>3, <3>4 DEF InRead
    <3>. QED
      BY <3>1, <3>2, <3>5 DEF Reading
  <2>8. CASE call.res # 0
    <3>1. call.res > 0 /\ Len(call.out) > 0
      BY <1>3, <2>2, <2>8
    <3>2. ~Hopeless
      BY <3>1 DEF Hopeless
    <3>3. body.bytes = 0 /\ body.ptr = << >> /\ Remains(seq)
      BY <2>4, <3>2
    <3>4. count = call.res /\ call.res = Len(call.out) /\ Len(call.out) =< Len(seq)
      <4>1. Len(call.out) =< Len(seq)
        BY <1>1, <2>3, <3>3, TakenIs
      <4>2. call.res = Len(call.out)
        BY <1>3, <2>2, <2>8 DEF Full, Short
      <4>3. body.bytes + call.res \in 0 .. SizeT - 1 /\ body.bytes + call.res = call.res
        BY <1>3, <2>2, <2>3, <3>3, <4>1, <4>2
      <4>. QED
        BY <1>1, <1>3, <4>1, <4>2, <4>3, CountedIs DEF count
    <3>5. CASE count < call.want
      <4>1. body' = counted /\ pc' = "length" /\ Asks(call.want)
        BY <1>5, <2>8, <3>5
      <4>2. call'.want = Len(seq) /\ call'.out = << >> /\ call'.over = FALSE
        BY <2>3, <4>1, CallingIs DEF Asks
      <4>3. up # "open" /\ wire = << >> /\ buffer = << >>
        BY <1>3, <2>2, <2>8, <3>4, <3>5 DEF Full, Short
      <4>4. Hopeless'
        BY <2>5, <4>2, <4>3 DEF Hopeless
      <4>5. InLength'
        BY <1>7, <2>5, <2>6, <4>2, <4>4 DEF InLength
      <4>. QED
        BY <4>1, <4>2, <4>5 DEF Reading, Stopped
    <3>6. CASE ~(count < call.want)
      <4>1. body' = counted /\ pc' = "read" /\ UNCHANGED call
        BY <1>5, <2>8, <3>6
      <4>2. Stopped'
        BY <1>1, <2>1, <4>1 DEF Stopped, Full, Turn
      <4>3. count = Len(seq) /\ Len(seq) =< Len(call.out)
        BY <1>3, <2>3, <3>4, <3>6
      <4>4. call.out = seq /\ buffer = << >> /\ wire = << >> /\ (up # "reset" => todo = << >>)
        BY <1>1, <2>3, <3>3, <4>3, NothingLeft
      <4>5. ptr = seq
        BY <1>3, <3>3, <4>4, OverIs DEF ptr
      <4>6. InStart'
        BY <2>5, <4>4 DEF InStart
      <4>7. body'.bytes = Len(seq)
        BY <1>6, <4>1, <4>3
      <4>8. InRead'
        BY <1>7, <2>5, <2>6, <4>5, <4>6, <4>7 DEF InRead
      <4>. QED
        BY <4>1, <4>2, <4>8 DEF Reading
    <3>. QED
      BY <3>5, <3>6
  <2>. QED
    BY <2>7, <2>8
<1>. QED
  BY <1>1, <1>8, <1>9, <1>10 DEF HInv, Turn, Typed

LEMMA ReadCloseKeeps ==
    ASSUME HInv, ReadClose
    PROVE  HInv'
<1>1. Typed /\ Wanted /\ Turn /\ pc = "close"
  BY DEF HInv, ReadClose, At, Turn, server
<1>2. Sorted
  BY <1>1, SortedIs
<1>3. /\ body \in Locals /\ body.n <= body.chunk /\ call.out \in Seq(Elems) /\ Len(call.out) \in Nat
      /\ call.want \in Nat /\ call.res \in Int /\ call.want > 0 /\ SizeT \in Nat \ {0}
      /\ body.ptr \in Seq(Elems) /\ body.bytes \in 0 .. SizeT - 1 /\ body.bytes \in Nat
      /\ MaxFile \in Nat \ {0}
  BY <1>1, HttpReadAssumption DEF Typed, Locals, Wanted
<1>. DEFINE ptr == Over(call.out, body.ptr)
            count == Counted(call.res)
            counted == [body EXCEPT !.bytes = count, !.ptr = ptr]
<1>4. ptr \in Seq(Elems) /\ count \in 0 .. SizeT - 1
  BY <1>1, <1>3, OverIs, CountedIs
<1>5. /\ body' = counted
      /\ \/ call.res > 0 /\ pc' = "close" /\ Asks(MaxFile)
         \/ ~(call.res > 0) /\ pc' = "read" /\ UNCHANGED call
  BY <1>3 DEF ReadClose, Return, Read, Asks
<1>. HIDE DEF ptr, count
<1>6. /\ counted \in Locals /\ counted.bytes = count /\ counted.n <= counted.chunk
  BY <1>3, <1>4 DEF Locals
<1>. HIDE DEF counted
<1>7. body' \in Locals /\ body'.n <= body'.chunk /\ body'.bytes = count
  BY <1>5, <1>6
<1>8. Typed'
  BY <1>1, <1>5, <1>7, TurnTyped DEF Places
<1>9. Wanted'
  <2>1. CASE pc' = "read"
    BY <2>1 DEF Wanted
  <2>2. CASE pc' = "close"
    <3>1. Asks(MaxFile)
      BY <1>5, <2>2
    <3>2. call'.want = MaxFile
      BY <3>1, CallingIs DEF Asks
    <3>. QED
      BY <1>3, <2>2, <3>2 DEF Wanted
  <2>. QED
    BY <1>5, <2>1, <2>2
<1>10. ASSUME ~late PROVE Stopped' /\ Reading'
  <2>1. Stopped /\ InClose /\ call.over
    BY <1>1, <1>10 DEF HInv, Reading, Turn
  <2>2. (Full \/ Short) /\ call.res =< Len(call.out) /\ call.res \in Nat
    BY <1>1, <2>1, CallEnds
  <2>. DEFINE whole == reply.body
              seq == After(body.bytes, whole)
  <2>3. /\ reply.framing = "close" /\ body.bytes <= Len(whole) /\ Remains(seq)
        /\ whole \in Seq(Elems) /\ Len(whole) \in 0 .. SizeT - 1 /\ Len(whole) \in Nat
    BY <1>2, <2>1 DEF InClose, Sorted
  <2>. HIDE DEF whole
  <2>4. seq \in Seq(Elems) /\ Len(seq) = Len(whole) - body.bytes
    <3>1. Len(seq) = (IF body.bytes < Len(whole) THEN Len(whole) - body.bytes ELSE 0) /\ seq \in Seq(Elems)
      BY <1>3, <2>3, AfterIs
    <3>. HIDE DEF seq
    <3>. QED
      BY <1>3, <2>3, <3>1
  <2>. HIDE DEF seq
  <2>5. /\ reply'.body = whole /\ reply'.framing = "close" /\ up' = up /\ wire' = wire
        /\ buffer' = buffer /\ todo' = todo
    BY <1>1, <2>3 DEF Turn, whole
  <2>6. CASE call.res > 0
    <3>1. pc' = "close" /\ Asks(MaxFile)
      BY <1>5, <2>6
    <3>2. call.res = Len(call.out)
      BY <1>3, <2>2, <2>6 DEF Full, Short
    <3>3. Len(call.out) =< Len(seq) /\ Left(After(Len(call.out), seq))
      BY <1>1, <2>3, <2>4, <3>1, TurnRemains
    <3>4. count = body.bytes + Len(call.out) /\ count =< Len(whole)
      <4>1. /\ body.bytes + call.res \in 0 .. SizeT - 1
            /\ body.bytes + call.res = body.bytes + Len(call.out)
            /\ body.bytes + call.res =< Len(whole)
        <5>1. /\ body.bytes \in Nat /\ call.res \in Nat /\ Len(whole) \in 0 .. SizeT - 1
              /\ Len(seq) = Len(whole) - body.bytes /\ call.res = Len(call.out)
              /\ call.res =< Len(seq)
          BY <1>3, <2>2, <2>3, <2>4, <3>2, <3>3
        <5>2. SizeT \in Int
          BY <1>3
        <5>. QED
          BY <5>1, <5>2
      <4>. QED
        BY <1>1, <1>3, <4>1, CountedIs DEF count
    <3>5. After(Len(call.out), seq) = After(count, whole)
      BY <1>3, <2>3, <3>4, AfterTwice DEF seq
    <3>6. InClose'
      BY <1>7, <2>5, <3>3, <3>4, <3>5 DEF InClose, Remains, Left
    <3>7. Stopped'
      BY <3>1, CallingIs DEF Stopped, Asks
    <3>. QED
      BY <3>1, <3>6, <3>7 DEF Reading
  <2>7. CASE ~(call.res > 0)
    <3>1. pc' = "read" /\ UNCHANGED call
      BY <1>5, <2>7
    <3>2. Stopped'
      BY <1>1, <2>1, <3>1 DEF Stopped, Full, Turn
    <3>3. call.res = 0 /\ Short
      BY <1>3, <2>2, <2>7 DEF Full
    <3>4. up # "open" /\ wire = << >>
      BY <3>3 DEF Short
    <3>5. count = body.bytes
      <4>1. body.bytes + call.res \in 0 .. SizeT - 1 /\ body.bytes + call.res = body.bytes
        BY <1>3, <3>3
      <4>. QED
        BY <1>1, <1>3, <4>1, CountedIs DEF count
    <3>6. ASSUME up = "closed", todo = << >> PROVE body.bytes = Len(whole) /\ buffer = << >>
      <4>1. buffer = << >> /\ Len(call.out) = 0
        BY <3>3, <3>6 DEF Short
      <4>2. call.out = << >>
        BY <1>3, <4>1, EmptySeq
      <4>. DEFINE v == After(Len(call.out) + Len(buffer), seq)
      <4>3. Len(call.out) + Len(buffer) = 0
        BY <4>1
      <4>4. v = seq
        BY <2>4, <4>3, AllOf
      <4>5. wire \o todo = seq
        BY <2>3, <3>6, <4>4 DEF Remains, RemainsOf
      <4>. DEFINE none == << >>
      <4>6. none \in Seq(Elems) /\ Len(none) = 0 /\ none \o none = none
        BY ConcatEmptySeq
      <4>7. wire = none /\ todo = none
        BY <3>4, <3>6
      <4>. HIDE DEF none, v
      <4>8. seq = none
        BY <4>5, <4>6, <4>7
      <4>9. Len(seq) = 0
        BY <4>6, <4>8
      <4>10. body.bytes = Len(whole)
        <5>1. body.bytes \in Nat /\ Len(whole) \in Nat /\ Len(whole) - body.bytes = 0
          BY <1>3, <2>3, <2>4, <4>9
        <5>. QED
          BY <5>1
      <4>. QED
        BY <4>1, <4>10
    <3>7. InStart'
      BY <2>5, <3>4 DEF InStart
    <3>8. InRead'
      BY <1>7, <2>5, <3>4, <3>5, <3>6, <3>7 DEF InRead
    <3>. QED
      BY <3>1, <3>2, <3>8 DEF Reading
  <2>. QED
    BY <2>6, <2>7
<1>. QED
  BY <1>1, <1>8, <1>9, <1>10 DEF HInv, Turn, Typed

LEMMA ReadLastKeeps ==
    ASSUME HInv, ReadLast
    PROVE  HInv'
<1>1. Typed /\ Wanted /\ Turn /\ pc = "last" /\ pc' = "read" /\ UNCHANGED <<call, body>>
  BY DEF HInv, ReadLast, At, Turn, server, Return
<1>2. Sorted
  BY <1>1, SortedIs
<1>3. body \in Locals /\ body.n <= body.chunk /\ body.bytes < body.size /\ call.want = 1
  BY <1>1 DEF Typed, Locals, Wanted
<1>4. Typed'
  BY <1>1, <1>3, TurnTyped DEF Places
<1>5. Wanted'
  BY <1>1 DEF Wanted
<1>6. ASSUME ~late PROVE Stopped' /\ Reading'
  <2>1. Stopped /\ InLast /\ call.over
    BY <1>1, <1>6 DEF HInv, Reading, Turn
  <2>2. (Full \/ Short) /\ Len(call.out) \in Nat
    BY <1>1, <2>1, CallEnds
  <2>3. Stopped'
    BY <1>1, <2>1 DEF Stopped, Full, Turn
  <2>4. /\ reply.framing = "chunked" /\ body.ptr = Bytes(requests, 1, body.bytes)
        /\ body.bytes = Before(reply.ends, Len(reply.ends) + 1) /\ Remains(<<Line(Blank)>>)
    BY <2>1 DEF InLast, InPtr, Start
  <2>5. body.ptr = reply.body /\ body.ptr \in Seq(Elems) /\ Len(body.ptr) = body.bytes
    <3>1. requests \in Nat /\ reply \in Replies(requests) /\ body.bytes \in Nat
      BY <1>1, <1>2 DEF Typed, Sorted
    <3>2. reply.body = Bytes(requests, 1, Before(reply.ends, Len(reply.ends) + 1))
      BY <2>4, <3>1, RepliesAre
    <3>3. Bytes(requests, 1, body.bytes) \in Seq(Elems) /\ Len(Bytes(requests, 1, body.bytes)) = body.bytes
      BY <3>1, BodyBytes
    <3>. QED
      BY <2>4, <3>2, <3>3
  <2>6. wire = << >> /\ (up = "open" => buffer = << >> /\ todo = << >>)
    <3>1. CASE Full
      <4>. DEFINE seq == <<Line(Blank)>>
      <4>1. seq \in Seq(Elems)
        BY <1>2 DEF Sorted
      <4>2. Len(seq) =< Len(call.out)
        BY <1>3, <2>2, <3>1 DEF Full
      <4>3. Remains(seq)
        BY <2>4
      <4>. HIDE DEF seq
      <4>. QED
        BY <1>1, <4>1, <4>2, <4>3, NothingLeft
    <3>2. CASE Short
      BY <3>2 DEF Short
    <3>. QED
      BY <2>2, <3>1, <3>2
  <2>7. InStart'
    BY <1>1, <2>6 DEF InStart, Turn
  <2>8. IsPrefix(body.ptr, reply.body)
    BY <2>5, PrefixIs
  <2>9. InRead'
    BY <1>1, <1>3, <2>4, <2>5, <2>7, <2>8 DEF InRead, Turn
  <2>. QED
    BY <1>1, <2>3, <2>9 DEF Reading
<1>. QED
  BY <1>1, <1>4, <1>5, <1>6 DEF HInv, Turn, Typed

LEMMA NextPieceIs ==
    ASSUME NEW lacks \in Nat \ {0}, NEW space \in Nat \ {0}
    PROVE  NextPiece(lacks, space) \in 1 .. lacks /\ NextPiece(lacks, space) =< space
  BY DEF NextPiece

LEMMA ReadSizeKeeps ==
    ASSUME HInv, ReadSize
    PROVE  HInv'
<1>1. Typed /\ Wanted /\ Turn /\ pc = "size"
  BY DEF HInv, ReadSize, At, Turn, server
<1>2. Sorted
  BY <1>1, SortedIs
<1>3. /\ body \in Locals /\ body.n <= body.chunk /\ call.out \in Seq(Elems) /\ Len(call.out) \in Nat
      /\ call.want = 1 /\ call.res \in {Len(call.out), 0, -1} /\ body.bytes < body.size
      /\ body.ptr \in Seq(Elems) /\ body.bytes \in Nat /\ body.size \in Nat
  BY <1>1 DEF Typed, Locals, Wanted, Turn
<1>. DEFINE size == LineRead
            new == [body EXCEPT !.chunk = size, !.n = 0]
            want == NextPiece(size, body.size - body.bytes)
<1>4. size \in Int
  <2>1. CASE call.res = 1 /\ call.out[1].is = "line"
    <3>1. Len(call.out) = 1
      BY <1>3, <2>1
    <3>2. call.out[1] \in Elems
      BY <1>3, <3>1
    <3>. QED
      BY <2>1, <3>2, ElemsAre DEF LineRead
  <2>2. CASE ~(call.res = 1 /\ call.out[1].is = "line")
    BY <2>2 DEF LineRead, Blank
  <2>. QED
    BY <2>1, <2>2
<1>5. \/ size = 0 /\ pc' = "last" /\ Asks(1) /\ body' = body
      \/ size > 0 /\ pc' = "chunk" /\ call' = Calling(want) /\ body' = new
      \/ size < 0 /\ pc' = "size" /\ Asks(1) /\ body' = body
  <2>1. size - 0 = size
    BY <1>4
  <2>2. CASE size = 0
    BY <2>2 DEF ReadSize, EndsAt, Read, Asks
  <2>3. CASE size # 0 /\ size > 0
    BY <2>1, <2>3 DEF ReadSize, EndsAt, Read, ReadOfNew
  <2>4. CASE size # 0 /\ ~(size > 0)
    <3>1. size < 0
      BY <1>4, <2>4
    <3>. QED
      BY <2>4, <3>1 DEF ReadSize, EndsAt, Read, Asks
  <2>. QED
    BY <2>2, <2>3, <2>4
<1>6. size > 0 => want \in 1 .. size /\ want =< body.size - body.bytes
  <2>. SUFFICES ASSUME size > 0 PROVE want \in 1 .. size /\ want =< body.size - body.bytes
    OBVIOUS
  <2>1. size \in Nat \ {0} /\ body.size - body.bytes \in Nat \ {0}
    BY <1>3, <1>4
  <2>. QED
    BY <2>1, NextPieceIs
<1>. HIDE DEF size, want
<1>7. size > 0 => /\ new \in Locals /\ new.chunk = size /\ new.n = 0 /\ new.ptr = body.ptr
                  /\ new.bytes = body.bytes /\ new.size = body.size
  <2>. SUFFICES ASSUME size > 0
                PROVE  /\ new \in Locals /\ new.chunk = size /\ new.n = 0 /\ new.ptr = body.ptr
                       /\ new.bytes = body.bytes /\ new.size = body.size
    OBVIOUS
  <2>1. size \in Nat
    BY <1>4
  <2>2. body \in Locals
    BY <1>3
  <2>. QED
    BY <2>1, <2>2 DEF Locals
<1>. HIDE DEF new
<1>8. /\ body' \in Locals /\ body'.n <= body'.chunk /\ body'.ptr = body.ptr
      /\ body'.bytes = body.bytes /\ body'.size = body.size
  BY <1>3, <1>4, <1>5, <1>7
<1>9. \E w : Asks(w)
  <2>1. size > 0 => want \in Nat
    BY <1>4, <1>6
  <2>. QED
    BY <1>4, <1>5, <2>1 DEF Asks
<1>10. Typed'
  BY <1>1, <1>5, <1>8, <1>9, TurnTyped DEF Places
<1>11. Wanted'
  <2>1. CASE pc' \in {"last", "size"}
    <3>1. call'.want = 1
      BY <1>5, <2>1, CallingIs DEF Asks
    <3>. QED
      BY <1>3, <1>8, <2>1, <3>1 DEF Wanted
  <2>2. CASE pc' = "chunk"
    <3>1. size > 0 /\ call' = Calling(want) /\ body' = new
      BY <1>5, <2>2
    <3>2. want \in Nat /\ want \in 1 .. size /\ want =< body.size - body.bytes
      BY <1>4, <1>6, <3>1
    <3>3. call'.want = want
      BY <3>1, <3>2, CallingIs
    <3>4. body'.chunk - body'.n = size
      BY <1>4, <1>7, <3>1
    <3>. QED
      BY <1>3, <1>8, <2>2, <3>2, <3>3, <3>4 DEF Wanted
  <2>. QED
    BY <1>5, <2>1, <2>2
<1>12. ASSUME ~late PROVE Stopped' /\ Reading'
  <2>1. Stopped /\ InSize /\ call.over
    BY <1>1, <1>12 DEF HInv, Reading, Turn
  <2>2. (Full \/ Short) /\ call.res \in Nat
    BY <1>1, <2>1, CallEnds
  <2>3. Stopped'
    BY <1>9, CallingIs DEF Stopped, Asks
  <2>4. /\ reply' = reply /\ requests' = requests /\ InPtr' /\ reply.framing = "chunked"
        /\ reply.ends \in Chunkings /\ Len(reply.ends) \in Nat /\ requests \in Nat
    BY <1>1, <1>2, <1>8, <2>1 DEF Turn, InSize, InPtr, Sorted
  <2>5. PICK k \in 1 .. Len(reply.ends) + 1 :
          /\ body.bytes = Start(k)
          /\ Remains(Chunk(k)) \/ Remains(<<Line(Blank)>> \o Chunk(k))
    BY <2>1 DEF InSize
  <2>. DEFINE n == Len(reply.ends)
              seq == Chunk(k)
              sep == <<Line(Blank)>> \o seq
  <2>6. seq \in Seq(Elems) /\ sep \in Seq(Elems) /\ Line(Blank) \in Elems
    BY <1>2, <2>4, ElemsAre DEF Sorted, Blank
  <2>7. Len(sep) = 1 + Len(seq) /\ FirstOf(1, sep) = <<Line(Blank)>> /\ After(1, sep) = seq
    BY <2>6, OneMore
  <2>8. seq' = seq /\ Start(k)' = Start(k) /\ n' = n
    BY <2>4 DEF Chunk, Start
  \* It asks for a size again, before the same chunk.
  <2>9. ASSUME size < 0, Left(seq) \/ Left(sep) PROVE Reading'
    <3>1. pc' = "size"
      BY <1>4, <1>5, <2>9
    <3>2. Remains(seq)' \/ Remains(sep)'
      BY <2>8, <2>9 DEF Remains, Left
    <3>3. InSize'
      BY <1>8, <2>4, <2>5, <2>8, <3>2 DEF InSize
    <3>. QED
      BY <3>1, <3>3 DEF Reading
  <2>. HIDE DEF seq, sep
  <2>10. Remains(seq) \/ Remains(sep)
    BY <2>5 DEF seq, sep
  <2>11. CASE Short
    <3>1. Len(call.out) = 0 /\ call.res = 0
      BY <1>3, <2>11 DEF Short
    <3>2. size = Blank /\ size < 0
      BY <3>1 DEF size, LineRead, Blank
    <3>3. PICK w : Asks(w)
      BY <1>9
    <3>4. ASSUME NEW u \in Seq(Elems), Remains(u) PROVE Left(u)
      <4>1. Left(After(Len(call.out), u))
        BY <1>1, <3>3, <3>4, TurnRemains
      <4>2. After(Len(call.out), u) = u
        BY <3>1, AllOf
      <4>. QED
        BY <4>1, <4>2
    <3>5. Left(seq) \/ Left(sep)
      BY <2>6, <2>10, <3>4
    <3>. QED
      BY <2>3, <2>9, <3>2, <3>5
  <2>12. CASE Full
    <3>1. Len(call.out) = 1 /\ call.res = 1
      BY <1>3, <2>12 DEF Full
    <3>2. PICK w : Asks(w)
      BY <1>9
    <3>3. ASSUME NEW u \in Seq(Elems), Remains(u)
          PROVE  call.out = FirstOf(1, u) /\ Left(After(1, u))
      BY <1>1, <3>1, <3>2, <3>3, TurnRemains
    <3>4. CASE Remains(sep)
      <4>1. call.out = <<Line(Blank)>> /\ Left(seq)
        BY <2>6, <2>7, <3>3, <3>4
      <4>2. call.out[1] = Line(Blank)
        BY <4>1
      <4>3. size = Blank
        BY <3>1, <4>2, ElemsAre DEF size, LineRead, Blank
      <4>4. size < 0
        BY <4>3 DEF Blank
      <4>. QED
        BY <2>3, <2>9, <4>1, <4>4
    <3>5. CASE Remains(seq) /\ k = n + 1
      <4>1. seq = End
        BY <2>4, <3>5, FromChunkIs DEF seq, Chunk
      <4>. DEFINE last == <<Line(Blank)>>
      <4>2. FirstOf(1, seq) = <<Line(0)>> /\ After(1, seq) = last
        <5>1. Line(0) \in Elems /\ last \in Seq(Elems) /\ seq = <<Line(0)>> \o last
          BY <4>1, EndIs, ElemsAre
        <5>. HIDE DEF last
        <5>. QED
          BY <5>1, OneMore
      <4>3. call.out[1] = Line(0) /\ Left(last)
        BY <2>6, <3>3, <3>5, <4>2
      <4>4. size = 0
        BY <3>1, <4>3, ElemsAre DEF size, LineRead
      <4>5. pc' = "last"
        BY <1>5, <4>4
      <4>6. InLast'
        BY <1>8, <2>4, <2>5, <3>5, <4>3 DEF InLast, Remains, Left, Start
      <4>. QED
        BY <2>3, <4>5, <4>6 DEF Reading
    <3>6. CASE Remains(seq) /\ k # n + 1
      <4>. DEFINE ends == reply.ends
                  more == ends[k] - Before(ends, k)
                  rest == Chunk(k + 1)
                  tail == <<Line(Blank)>> \o rest
                  bytes == Bytes(requests, Before(ends, k) + 1, ends[k])
      <4>1. k \in 1 .. n /\ k =< n /\ k + 1 \in 1 .. n + 1
        BY <2>4, <3>6
      <4>2. /\ ends[k] \in 1 .. SizeT - 1 /\ Before(ends, k) < ends[k] /\ Before(ends, k) \in 0 .. SizeT - 1
        BY <2>4, <4>1, StartsRise
      <4>3. seq = Wrapped(requests, ends, k, rest)
        BY <2>4, <3>6, FromChunkIs DEF seq, Chunk
      <4>4. rest \in Seq(Elems)
        BY <1>2, <2>4, <4>1 DEF Sorted
      <4>5. Line(more) \in Elems /\ bytes \o tail \in Seq(Elems)
        BY <2>4, <4>1, <4>4, WrappedIs
      <4>6. seq = <<Line(more)>> \o (bytes \o tail)
        BY <4>3 DEF Wrapped
      <4>7. more \in Nat \ {0} /\ Before(ends, k) + 0 = Before(ends, k) /\ more \in Int
        BY <4>2, HttpReadAssumption
      <4>. HIDE DEF more
      <4>8. FirstOf(1, seq) = <<Line(more)>> /\ After(1, seq) = bytes \o tail
        BY <4>5, <4>6, OneMore
      <4>9. call.out[1] = Line(more) /\ Left(bytes \o tail)
        <5>1. call.out = FirstOf(1, seq) /\ Left(After(1, seq))
          BY <2>6, <3>3, <3>6
        <5>2. call.out = <<Line(more)>>
          BY <4>8, <5>1
        <5>3. Left(bytes \o tail)
          BY <4>8, <5>1, Zenon
        <5>. QED
          BY <5>2, <5>3
      <4>10. size = more
        BY <3>1, <4>7, <4>9, ElemsAre DEF size, LineRead
      <4>11. size > 0 /\ pc' = "chunk" /\ body'.chunk = more /\ body'.n = 0
        BY <1>5, <1>7, <4>7, <4>10
      <4>12. body'.bytes = Before(ends, k)
        BY <1>8, <2>5 DEF Start
      <4>13. Rest(k)' = bytes \o tail /\ InChunkAt(k)'
        BY <2>4, <4>7, <4>11, <4>12 DEF Rest, InChunkAt, Start, Chunk, more
      <4>14. Remains(Rest(k))'
        BY <4>9, <4>13 DEF Remains, Left
      <4>15. InChunk'
        BY <2>4, <4>1, <4>13, <4>14 DEF InChunk, InChunkAt, Rest
      <4>. QED
        BY <2>3, <4>11, <4>15 DEF Reading
    <3>. QED
      BY <2>10, <3>4, <3>5, <3>6
  <2>. QED
    BY <2>2, <2>11, <2>12
<1>. QED
  BY <1>1, <1>10, <1>11, <1>12 DEF HInv, Turn, Typed

LEMMA ReadChunkKeeps ==
    ASSUME HInv, ReadChunk
    PROVE  HInv'
<1>1. Typed /\ Wanted /\ Turn /\ pc = "chunk"
  BY DEF HInv, ReadChunk, At, Turn, server
<1>2. Sorted
  BY <1>1, SortedIs
<1>3. body \in Locals
  BY <1>1 DEF Typed, Locals
<1>4. /\ body.n \in Nat /\ body.chunk \in Nat /\ body.size \in Nat \ {0} /\ body.bytes \in 0 .. SizeT - 1
      /\ body.bytes \in Nat /\ SizeT \in Nat \ {0} /\ body.n <= body.chunk
      /\ call.want \in 1 .. body.chunk - body.n /\ call.want <= body.size - body.bytes
      /\ Len(call.out) \in Nat /\ Len(call.out) =< call.want /\ call.res \in {Len(call.out), 0, -1}
      /\ call.res \in Int
  BY <1>1, <1>3, HttpReadAssumption DEF Typed, Locals, Wanted, Turn
<1>5. call.out \in Seq(Elems) /\ body.ptr \in Seq(Elems)
  BY <1>1, <1>3 DEF Typed, Locals
<1>. DEFINE count == Counted(call.res)
            read == body.n + call.res
            size == IF count >= body.size THEN body.size * 2 ELSE body.size
            ptr == body.ptr \o call.out
            n1 == IF call.res > 0 THEN read ELSE body.n
            s1 == IF call.res > 0 THEN size ELSE body.size
            new == [body EXCEPT !.bytes = count, !.ptr = ptr, !.n = n1, !.size = s1]
            want == NextPiece(body.chunk - read, size - count)
<1>6. /\ body' = new
      /\ \/ call.res <= 0 /\ pc' = "read" /\ UNCHANGED call
         \/ call.res > 0 /\ read < body.chunk /\ pc' = "chunk" /\ call' = Calling(want)
         \/ call.res > 0 /\ ~(read < body.chunk) /\ pc' = "size" /\ Asks(1)
  <2>1. body' = new
    BY DEF ReadChunk
  <2>2. CASE call.res <= 0
    BY <2>1, <2>2 DEF ReadChunk, Return
  <2>3. CASE ~(call.res <= 0)
    <3>1. call.res > 0
      BY <1>4, <2>3
    <3>2. IF read < body.chunk THEN Read("chunk", want) ELSE Read("size", 1)
      BY <2>3 DEF ReadChunk
    <3>. QED
      BY <2>1, <3>1, <3>2 DEF Read, Asks
  <2>. QED
    BY <2>2, <2>3
<1>7. ptr \in Seq(Elems) /\ count \in 0 .. SizeT - 1
  BY <1>1, <1>4, <1>5, ConcatProperties, CountedIs
<1>8. /\ call.res > 0 => /\ call.res = Len(call.out) /\ read \in Nat /\ read =< body.chunk
                         /\ count =< body.bytes + call.res /\ count =< body.size /\ count < size
                         /\ size \in Nat \ {0}
  <2>. SUFFICES ASSUME call.res > 0
                PROVE  /\ call.res = Len(call.out) /\ read \in Nat /\ read =< body.chunk
                       /\ count =< body.bytes + call.res /\ count =< body.size /\ count < size
                       /\ size \in Nat \ {0}
    OBVIOUS
  <2>1. call.res = Len(call.out) /\ call.res =< call.want /\ call.res >= 0
    BY <1>4
  <2>2. count =< body.bytes + call.res
    BY <1>1, <1>4, <2>1, CountedIs
  <2>3. count \in Nat
    BY <1>7
  <2>. HIDE DEF count
  <2>4. count =< body.size
    BY <1>4, <2>1, <2>2, <2>3
  <2>5. count < size /\ size \in Nat \ {0}
    <3>1. body.size \in Nat \ {0}
      BY <1>4
    <3>. QED
      BY <2>3, <2>4, <3>1
  <2>6. read \in Nat /\ read =< body.chunk
    BY <1>4, <2>1
  <2>. QED
    BY <2>1, <2>2, <2>4, <2>5, <2>6
<1>. HIDE DEF count, read, size, ptr
<1>9. n1 \in Nat /\ n1 =< body.chunk /\ s1 \in Nat \ {0}
  BY <1>4, <1>8
<1>. HIDE DEF n1, s1
<1>10. /\ body' \in Locals /\ body'.ptr = ptr /\ body'.bytes = count /\ body'.n = n1
       /\ body'.size = s1 /\ body'.chunk = body.chunk
  BY <1>3, <1>6, <1>7, <1>9 DEF Locals
<1>. HIDE DEF new
<1>11. call.res > 0 /\ read < body.chunk =>
         want \in 1 .. body.chunk - read /\ want =< size - count /\ want \in Nat
  <2>. SUFFICES ASSUME call.res > 0, read < body.chunk
                PROVE  want \in 1 .. body.chunk - read /\ want =< size - count /\ want \in Nat
    OBVIOUS
  <2>1. count \in Nat
    BY <1>7
  <2>2. body.chunk - read \in Nat \ {0} /\ size - count \in Nat \ {0}
    <3>1. body.chunk \in Nat
      BY <1>4
    <3>2. read \in Nat /\ size \in Nat /\ count < size
      BY <1>8
    <3>. QED
      BY <2>1, <3>1, <3>2
  <2>3. want \in 1 .. body.chunk - read /\ want =< size - count
    BY <2>2, NextPieceIs
  <2>. QED
    BY <2>2, <2>3
<1>. HIDE DEF want
<1>12. Typed'
  <2>1. body'.n <= body'.chunk
    BY <1>9, <1>10
  <2>2. UNCHANGED call \/ (pc' \notin {"read", "broken"} /\ \E w : Asks(w))
    BY <1>6, <1>11 DEF Asks
  <2>3. pc' \in Places \ {"start"}
    BY <1>6 DEF Places
  <2>. QED
    BY <1>1, <1>10, <2>1, <2>2, <2>3, TurnTyped
<1>13. Wanted'
  <2>1. CASE pc' = "read"
    BY <2>1 DEF Wanted
  <2>2. CASE pc' = "size"
    <3>1. call.res > 0 /\ Asks(1)
      BY <1>6, <2>2
    <3>2. call'.want = 1
      BY <3>1, CallingIs DEF Asks
    <3>3. body'.bytes < body'.size
      BY <1>8, <1>10, <3>1 DEF s1
    <3>. QED
      BY <2>2, <3>2, <3>3 DEF Wanted
  <2>3. CASE pc' = "chunk"
    <3>1. call.res > 0 /\ read < body.chunk /\ call' = Calling(want)
      BY <1>6, <2>3
    <3>2. want \in 1 .. body.chunk - read /\ want =< size - count /\ want \in Nat
      BY <1>11, <3>1
    <3>3. call'.want = want
      BY <3>1, <3>2, CallingIs
    <3>4. body'.n = read /\ body'.size = size /\ body'.bytes < body'.size
      BY <1>8, <1>10, <3>1 DEF s1, n1
    <3>. QED
      BY <1>10, <2>3, <3>2, <3>3, <3>4 DEF Wanted
  <2>. QED
    BY <1>6, <2>1, <2>2, <2>3
<1>14. ASSUME ~late PROVE Stopped' /\ Reading'
  <2>1. Stopped /\ InChunk /\ call.over
    BY <1>1, <1>14 DEF HInv, Reading, Turn
  <2>2. (Full \/ Short) /\ call.res \in Nat /\ call.res =< Len(call.out)
    BY <1>1, <2>1, CallEnds
  <2>3. /\ reply' = reply /\ requests' = requests /\ reply.framing = "chunked"
        /\ body.ptr = Bytes(requests, 1, body.bytes)
        /\ reply.ends \in Chunkings /\ Len(reply.ends) \in Nat /\ requests \in Nat
        /\ reply \in Replies(requests)
    BY <1>1, <1>2, <2>1 DEF Turn, InChunk, InPtr, Sorted, Typed
  <2>4. PICK k \in 1 .. Len(reply.ends) : InChunkAt(k) /\ Remains(Rest(k))
    BY <2>1 DEF InChunk, InChunkAt, Rest
  <2>. DEFINE ends == reply.ends
              b == body.bytes
              e == ends[k]
              m == Len(call.out)
              bytes == Bytes(requests, b + 1, e)
              tail == <<Line(Blank)>> \o Chunk(k + 1)
              n == Len(ends)
              last == Before(ends, n + 1)
  <2>5. k \in 1 .. n + 1 /\ k =< n /\ k + 1 \in 1 .. n + 1 /\ n + 1 \in 1 .. n + 1
    BY <2>3
  <2>6. /\ Rest(k) \in Seq(Elems) /\ tail \in Seq(Elems) /\ bytes \in Seq(Elems)
        /\ e \in 1 .. SizeT - 1 /\ b =< e
    BY <1>2, <2>3, <2>4, <2>5 DEF Sorted
  <2>7. b = Start(k) + body.n /\ body.chunk = e - Start(k) /\ Start(k) \in Nat
    <3>1. Before(ends, k) \in 0 .. SizeT - 1
      BY <2>3, <2>5, StartsRise
    <3>. QED
      BY <1>4, <2>4, <3>1 DEF InChunkAt, Start
  <2>8. Start(k + 1) = e /\ e =< last /\ last \in Nat
    <3>1. Before(ends, k + 1) = e
      BY <2>3, <2>5, StartsRise
    <3>2. Before(ends, k + 1) =< last /\ last \in 0 .. SizeT - 1
      BY <2>3, <2>5, StartsRise
    <3>. QED
      BY <1>4, <3>1, <3>2 DEF Start
  <2>9. m \in Nat /\ b + m =< e /\ b + m \in Nat /\ e \in Nat /\ b + m \in 0 .. SizeT - 1
    <3>1. m \in Nat /\ m =< body.chunk - body.n
      BY <1>4
    <3>2. b \in Nat /\ body.n \in Nat /\ body.chunk \in Nat /\ SizeT \in Nat
      BY <1>4
    <3>3. e \in 1 .. SizeT - 1
      BY <2>6
    <3>. HIDE DEF b, e, m
    <3>4. b + m =< e
      <4>1. b = Start(k) + body.n /\ body.chunk = e - Start(k) /\ Start(k) \in Nat
        BY <2>7 DEF b, e
      <4>. QED
        BY <3>1, <3>2, <3>3, <4>1
    <3>. QED
      BY <3>1, <3>2, <3>3, <3>4
  <2>. HIDE DEF e, tail, b, m, last
  <2>10. /\ Len(bytes) = e - b
         /\ FirstOf(m, bytes) = Bytes(requests, b + 1, b + m)
         /\ After(m, bytes) = Bytes(requests, b + m + 1, e)
    <3>. DEFINE a == b + 1
                c == b + m
    <3>1. b \in Nat
      BY <1>4 DEF b
    <3>2. a \in Nat \ {0} /\ a =< e + 1 /\ a =< c + 1 /\ c =< e /\ c \in Nat
          /\ c + 1 - a = m /\ e + 1 - a = e - b
      BY <2>9, <3>1
    <3>3. bytes = Bytes(requests, a, e)
      OBVIOUS
    <3>. HIDE DEF a, c, bytes
    <3>4. Len(bytes) = e + 1 - a
      BY <2>3, <2>9, <3>2, <3>3, BytesIs
    <3>5. CutAt(requests, a, c, e)
      <4>1. requests \in Nat /\ e \in Nat
        BY <2>3, <2>9
      <4>2. a \in Nat \ {0} /\ a =< c + 1 /\ c =< e /\ c \in Nat
        BY <3>2
      <4>. QED
        BY <4>1, <4>2, BytesCut
    <3>. QED
      BY <3>2, <3>3, <3>4, <3>5 DEF CutAt, a, c
  <2>11. Rest(k) = bytes \o tail
    BY DEF Rest, b, e, tail
  <2>. HIDE DEF bytes
  <2>12. call.out = Bytes(requests, b + 1, b + m)
    <3>1. call.out = FirstOf(m, Rest(k))
      BY <1>1, <2>4, <2>6, TakenIs DEF m
    <3>2. m \in 0 .. Len(bytes)
      BY <1>4, <2>9, <2>10 DEF b
    <3>3. FirstOf(m, bytes \o tail) = FirstOf(m, bytes)
      BY <2>6, <3>2, FrontOf
    <3>. QED
      BY <2>10, <2>11, <3>1, <3>3
  <2>13. ASSUME NEW w, Asks(w)
         PROVE  Left(Bytes(requests, b + m + 1, e) \o tail)
    <3>1. Left(After(m, Rest(k)))
      BY <1>1, <2>4, <2>6, <2>13, TurnRemains DEF m
    <3>2. m \in 0 .. Len(bytes)
      BY <1>4, <2>9, <2>10 DEF b
    <3>3. After(m, bytes \o tail) = After(m, bytes) \o tail
      BY <2>6, <3>2, FrontOf
    <3>. QED
      BY <2>10, <2>11, <3>1, <3>3
  <2>14. ptr = Bytes(requests, 1, b + m)
    <3>. DEFINE one == 1
                c == b + m
    <3>0. b \in Nat
      BY <1>4 DEF b
    <3>1. one \in Nat \ {0} /\ one =< b + 1 /\ b =< c /\ c \in Nat
      BY <2>9, <3>0
    <3>. HIDE DEF one, c
    <3>2. CutAt(requests, one, b, c)
      <4>1. requests \in Nat
        BY <2>3
      <4>. QED
        BY <3>0, <3>1, <4>1, BytesCut
    <3>3. body.ptr \o call.out = Cat(Bytes(requests, one, b), Bytes(requests, b + 1, c))
      BY <2>3, <2>12, Zenon DEF Cat, one, b, c
    <3>. QED
      BY <3>2, <3>3, Zenon DEF CutAt, ptr, one, c
  <2>15. CASE call.res > 0
    <3>1. call.res = m
      BY <1>8, <2>15 DEF m
    <3>2. count = b + m
      BY <1>1, <1>4, <2>9, <3>1, CountedIs DEF count, b
    <3>3. InPtr'
      BY <1>10, <2>3, <2>14, <3>2 DEF InPtr
    <3>4. n1 = read /\ read = body.n + m
      BY <2>15, <3>1 DEF n1, read
    <3>5. CASE read < body.chunk
      <4>1. pc' = "chunk" /\ Asks(want)
        <5>1. call.res > 0 /\ read < body.chunk /\ pc' = "chunk" /\ call' = Calling(want)
          <6>1. ~(call.res <= 0)
            BY <1>4, <2>15
          <6>. QED
            BY <1>6, <3>5, <6>1
        <5>. QED
          BY <1>11, <5>1 DEF Asks
      <4>2. Left(Bytes(requests, b + m + 1, e) \o tail)
        BY <2>13, <4>1
      <4>3. Start(k) + read = b + m
        <5>1. b = Start(k) + body.n /\ Start(k) \in Int /\ body.n \in Int /\ m \in Int
          BY <1>4, <2>7, <2>9 DEF b
        <5>. QED
          BY <3>4, <5>1
      <4>4. Rest(k)' = Bytes(requests, b + m + 1, e) \o tail /\ InChunkAt(k)'
        <5>1. Start(k)' = Start(k) /\ Chunk(k + 1)' = Chunk(k + 1)
          BY <2>3 DEF Start, Chunk
        <5>2. body'.bytes = b + m /\ body'.n = read /\ body'.chunk = body.chunk
          BY <1>10, <3>2, <3>4
        <5>3. InChunkAt(k)'
          BY <2>3, <2>7, <4>3, <5>1, <5>2 DEF InChunkAt, e
        <5>4. Rest(k)' = Bytes(requests, b + m + 1, e) \o tail
          BY <2>3, <5>1, <5>2 DEF Rest, e, tail
        <5>. QED
          BY <5>3, <5>4
      <4>5. Remains(Rest(k))'
        BY <4>2, <4>4 DEF Remains, Left
      <4>6. InChunk'
        BY <2>3, <2>4, <3>3, <4>4, <4>5 DEF InChunk, InChunkAt, Rest
      <4>7. Stopped'
        BY <4>1, CallingIs DEF Stopped, Asks
      <4>. QED
        BY <4>1, <4>6, <4>7 DEF Reading
    <3>6. CASE ~(read < body.chunk)
      <4>1. pc' = "size" /\ Asks(1)
        <5>1. ~(call.res <= 0)
          BY <1>4, <2>15
        <5>. QED
          BY <1>6, <3>6, <5>1
      <4>2. Left(Bytes(requests, b + m + 1, e) \o tail)
        BY <2>13, <4>1
      <4>3. b + m = e
        <5>1. read \in Nat /\ read =< body.chunk
          BY <1>8, <2>15
        <5>2. body.n \in Nat /\ body.chunk \in Nat
          BY <1>4
        <5>3. read = body.chunk
          BY <3>6, <5>1, <5>2
        <5>4. b = Start(k) + body.n /\ body.chunk = e - Start(k) /\ Start(k) \in Nat
          BY <2>7 DEF b, e
        <5>. QED
          BY <2>9, <3>4, <5>2, <5>3, <5>4
      <4>4. Left(tail)
        <5>1. e + 1 \in Nat \ {0} /\ e + 1 =< e + 1 /\ e + 1 - (e + 1) = 0
          BY <2>9
        <5>2. Bytes(requests, e + 1, e) \in Seq(Elems) /\ Len(Bytes(requests, e + 1, e)) = 0
          BY <2>3, <2>9, <5>1, BytesIs
        <5>3. Bytes(requests, e + 1, e) = << >>
          BY <5>2, EmptySeq
        <5>4. << >> \o tail = tail
          BY <2>6, ConcatEmptySeq
        <5>. QED
          BY <4>2, <4>3, <5>3, <5>4
      <4>5. body'.bytes = Start(k + 1)' /\ Chunk(k + 1)' = Chunk(k + 1)
        BY <1>10, <2>3, <2>8, <3>2, <4>3 DEF Start, Chunk
      <4>6. Remains(<<Line(Blank)>> \o Chunk(k + 1))'
        BY <4>4, <4>5 DEF Remains, Left, tail
      <4>7. k + 1 \in 1 .. Len(reply'.ends) + 1
        BY <2>3, <2>5
      <4>8. InSize'
        BY <2>3, <3>3, <4>5, <4>6, <4>7 DEF InSize
      <4>9. Stopped'
        BY <4>1, CallingIs DEF Stopped, Asks
      <4>. QED
        BY <4>1, <4>8, <4>9 DEF Reading
    <3>. QED
      BY <3>5, <3>6
  <2>16. CASE ~(call.res > 0)
    <3>1. call.res = 0 /\ Short /\ pc' = "read" /\ UNCHANGED call
      BY <1>4, <1>6, <2>2, <2>16 DEF Full
    <3>2. Stopped'
      BY <1>1, <2>1, <3>1 DEF Stopped, Full, Turn
    <3>3. up # "open" /\ wire = << >>
      BY <3>1 DEF Short
    <3>4. InStart'
      BY <1>1, <3>3 DEF InStart, Turn
    <3>5. body'.bytes < body'.size
      <4>1. b + 0 = b /\ b \in 0 .. SizeT - 1
        BY <1>4 DEF b
      <4>2. count = b
        BY <1>1, <3>1, <4>1, CountedIs DEF count, b
      <4>3. s1 = body.size
        BY <2>16 DEF s1
      <4>. QED
        BY <1>4, <1>10, <4>2, <4>3 DEF b
    <3>6. IsPrefix(ptr, reply.body)
      <4>. DEFINE one == 1
                  c == b + m
      <4>1. one \in Nat \ {0} /\ one =< c + 1 /\ c =< last /\ c \in Nat
        BY <2>8, <2>9
      <4>2. Bytes(requests, 1, b + m) \in Seq(Elems)
        BY <2>3, <2>9, BodyBytes
      <4>. HIDE DEF c
      <4>3. Bytes(requests, c + 1, last) \in Seq(Elems)
        <5>1. c + 1 \in Nat \ {0} /\ c + 1 =< last + 1
          BY <2>8, <4>1
        <5>. QED
          BY <2>3, <2>8, <5>1, BytesIs
      <4>. HIDE DEF one
      <4>4. CutAt(requests, one, c, last)
        <5>1. requests \in Nat /\ last \in Nat
          BY <2>3, <2>8
        <5>. QED
          BY <4>1, <5>1, BytesCut
      <4>5. reply.body = Bytes(requests, 1, last)
        BY <2>3, RepliesAre DEF last
      <4>. DEFINE x == Bytes(requests, one, c)
                  y == Bytes(requests, c + 1, last)
      <4>6. IsPrefix(x, Cat(x, y))
        <5>1. x \in Seq(Elems) /\ y \in Seq(Elems)
          BY <4>2, <4>3 DEF one, c
        <5>. HIDE DEF x, y
        <5>. QED
          BY <5>1, PrefixIs DEF Cat
      <4>. QED
        BY <2>14, <4>4, <4>5, <4>6, Zenon DEF CutAt, one, c
    <3>7. InRead'
      BY <1>1, <1>10, <2>3, <3>3, <3>4, <3>5, <3>6 DEF InRead, Turn
    <3>. QED
      BY <3>1, <3>2, <3>7 DEF Reading
  <2>. QED
    BY <2>15, <2>16
<1>. QED
  BY <1>1, <1>12, <1>13, <1>14 DEF HInv, Turn, Typed

LEMMA RequestKeeps ==
    ASSUME HInv, Request
    PROVE  HInv'
<1>1. /\ pc \in {"start", "read"} /\ requests' = requests + 1 /\ reply' \in Replies(requests')
      /\ buffer' = << >> /\ pc' = "head" /\ Asks(1) /\ body' = Empty
      /\ UNCHANGED <<up, wire, late>> /\ requests < Requests
      /\ todo' = IF up = "open" THEN todo \o Stream(requests', reply') ELSE todo
  BY DEF Request, Read, Asks
<1>2. Typed
  BY DEF HInv
<1>. DEFINE none == << >>
<1>3. /\ none \in Seq(Elems) /\ Len(none) = 0 /\ BufSize \in Nat \ {0} /\ MaxFile \in Nat \ {0}
      /\ SizeT \in Nat \ {0} /\ Requests \in Nat \ {0} /\ requests \in 0 .. Requests
      /\ todo \in Seq(Elems) /\ wire \in Seq(Elems)
  BY <1>2, HttpReadAssumption DEF Typed
<1>. DEFINE seq == Stream(requests', reply')
<1>4. requests' \in Nat /\ requests' \in 0 .. Requests /\ requests' > 0
  BY <1>1, <1>3
<1>5. seq \in Seq(Elems)
  BY <1>1, <1>4, RepliesAre
<1>. HIDE DEF none, seq
<1>6. todo \o seq \in Seq(Elems)
  BY <1>3, <1>5, ConcatProperties
<1>7. todo' \in Seq(Elems)
  BY <1>1, <1>3, <1>6 DEF seq
<1>8. body' \in Locals /\ body'.n <= body'.chunk
  <2>1. body' = [ptr |-> none, size |-> MaxFile, bytes |-> 0, chunk |-> 0, n |-> 0]
    BY <1>1 DEF Empty, none
  <2>. QED
    BY <1>3, <2>1 DEF Locals
<1>9. /\ call' \in [want : Nat, out : Seq(Elems), over : BOOLEAN, res : Int]
      /\ call'.want = 1 /\ call'.out = none /\ call'.over = FALSE /\ call'.res = 0
  BY <1>1, CallingIs DEF Asks, Kind, none
<1>10. buffer' \in Seq(Elems) /\ Len(buffer') < BufSize
  BY <1>1, <1>3 DEF none
<1>11. Typed'
  <2>1. up' = up /\ wire' = wire /\ late' = late /\ pc' = "head" /\ reply' \in Replies(requests')
    BY <1>1
  <2>2. Len(call'.out) <= call'.want /\ (~call'.over => call'.res = Len(call'.out))
    BY <1>3, <1>9
  <2>. QED
    BY <1>2, <1>3, <1>4, <1>7, <1>8, <1>9, <1>10, <2>1, <2>2 DEF Typed, Locals, Places
<1>12. Wanted'
  BY <1>1, <1>9 DEF Wanted
<1>13. ASSUME ~late PROVE Stopped' /\ Reading'
  <2>1. Stopped'
    BY <1>9 DEF Stopped
  <2>2. InStart
    BY <1>1, <1>13 DEF HInv, Reading, InRead
  <2>3. CASE up # "open"
    <3>1. Hopeless'
      BY <1>1, <1>9, <2>2, <2>3 DEF Hopeless, InStart, none
    <3>2. InHead'
      BY <1>1, <3>1 DEF InHead
    <3>. QED
      BY <1>1, <2>1, <3>2 DEF Reading
  <2>4. CASE up = "open"
    <3>1. wire' = none /\ todo = none /\ buffer' = none /\ call'.out = none
      BY <1>1, <1>9, <2>2, <2>4 DEF InStart, none
    <3>2. /\ none \o seq = seq /\ none \o none = none
      BY <1>3, <1>5, ConcatEmptySeq DEF none
    <3>3. todo' = seq
      BY <1>1, <2>4, <3>1, <3>2 DEF seq
    <3>4. After(Len(none) + Len(none), seq) = seq
      <4>1. Len(none) + Len(none) = 0
        BY <1>3
      <4>. QED
        BY <1>5, <4>1, AllOf
    <3>5. RemainsOf(up', call'.out, buffer', wire', todo', seq)
      BY <1>1, <2>4, <3>1, <3>2, <3>3, <3>4 DEF RemainsOf
    <3>6. InHead'
      BY <1>1, <3>5 DEF InHead, Remains, seq
    <3>. QED
      BY <1>1, <2>1, <3>6 DEF Reading
  <2>. QED
    BY <2>3, <2>4
<1>. QED
  BY <1>1, <1>11, <1>12, <1>13 DEF HInv

-----------------------------------------------------------------------------
(* The theorems.                                                           *)

\* The inductive invariant holds.
LEMMA HInvHolds == Spec => []HInv
<1>1. Init => HInv
  BY HInvInit
<1>2. HInv /\ [Next]_vars => HInv'
  <2>. SUFFICES ASSUME HInv, [Next]_vars PROVE HInv'
    OBVIOUS
  <2>1. CASE Send
    BY <2>1, SendKeeps
  <2>2. CASE HangUp
    BY <2>2, HangUpKeeps
  <2>3. CASE SocketRead
    BY <2>3, SocketReadKeeps
  <2>4. CASE ReadHead
    BY <2>4, ReadHeadKeeps
  <2>5. CASE ReadLength
    BY <2>5, ReadLengthKeeps
  <2>6. CASE ReadClose
    BY <2>6, ReadCloseKeeps
  <2>7. CASE ReadSize
    BY <2>7, ReadSizeKeeps
  <2>8. CASE ReadLast
    BY <2>8, ReadLastKeeps
  <2>9. CASE ReadChunk
    BY <2>9, ReadChunkKeeps
  <2>10. CASE Request
    BY <2>10, RequestKeeps
  <2>11. CASE UNCHANGED vars
    <3>1. UNCHANGED <<up, todo, wire, reply, buffer, call, pc, body, requests, late>>
      BY <2>11 DEF vars, server, reader
    <3>2. Typed' /\ Wanted'
      BY <3>1 DEF HInv, Typed, Wanted, Replies, Empty
    <3>3. late' = late /\ (Stopped' <=> Stopped)
      BY <3>1 DEF Stopped, Full
    <3>4. Reading' <=> Reading
      BY <3>1 DEF Reading, InStart, InHead, InLength, InClose, InSize, InChunk, InLast, InRead,
                  InPtr, Hopeless, Remains, Chunk, Start, Empty
    <3>. QED
      BY <3>2, <3>3, <3>4 DEF HInv
  <2>. QED
    BY <2>1, <2>2, <2>3, <2>4, <2>5, <2>6, <2>7, <2>8, <2>9, <2>10, <2>11 DEF Next, Reader
<1>. QED
  BY <1>1, <1>2, PTL DEF Spec

\* Where http_read is and what its locals hold, at every moment; it never calls read() for
\* nothing, and a chunk stays within ptr with a byte to spare at the end.
THEOREM ReadIsTyped == Spec => []ReadTypeOK
<1>1. HInv => ReadTypeOK
  <2>. SUFFICES ASSUME HInv PROVE ReadTypeOK
    OBVIOUS
  <2>1. Typed /\ Wanted /\ (late \/ Reading)
    BY DEF HInv
  <2>2. /\ call.want \in Nat /\ call.over \in BOOLEAN /\ Len(call.out) \in Nat /\ Len(call.out) <= call.want
        /\ call.res \in {Len(call.out), 0, -1}
    BY <2>1 DEF Typed
  <2>3. call.res \in -1 .. call.want
    BY <2>2
  <2>4. /\ body.bytes \in 0 .. SizeT - 1 /\ body.size \in Nat \ {0} /\ body.n \in Nat
        /\ body.chunk \in Nat /\ body.n <= body.chunk
    BY <2>1 DEF Typed
  <2>5. body.n \in 0 .. body.chunk
    BY <2>4
  <2>6. Room > 0
    <3>1. Len(buffer) \in Nat /\ Len(buffer) < BufSize /\ BufSize \in Nat
      BY <2>1, HttpReadAssumption DEF Typed
    <3>. QED
      BY <3>1 DEF Room
  <2>7. pc = "chunk" => body.bytes + call.want <= body.size
    <3>1. pc = "chunk" => call.want <= body.size - body.bytes
      BY <2>1 DEF Wanted
    <3>2. body.bytes \in Int /\ body.size \in Int
      BY <2>4, HttpReadAssumption
    <3>. QED
      BY <2>2, <3>1, <3>2
  <2>8. ~late /\ reply.framing = "chunked" /\ pc = "read" => body.bytes < body.size
    BY <2>1 DEF Reading, InRead
  <2>9. /\ up \in {"open", "closed", "reset"} /\ late \in BOOLEAN /\ requests \in 0 .. Requests
        /\ pc \in {"start", "head", "length", "close", "size", "last", "chunk", "read", "broken"}
    BY <2>1 DEF Typed, Places
  <2>. QED
    BY <2>2, <2>3, <2>4, <2>5, <2>6, <2>7, <2>8, <2>9 DEF ReadTypeOK
<1>. QED
  BY <1>1, HInvHolds, PTL

\* What is in ptr is a prefix of the body.
LEMMA PtrIsPrefix ==
    ASSUME HInv, ~late, reply.framing # "close"
    PROVE  IsPrefix(body.ptr, reply.body)
<1>1. Typed /\ Reading
  BY DEF HInv
<1>2. pc # "start" /\ Sorted
  BY <1>1, SortedIs DEF Typed
<1>3. reply.body \in Seq(Elems) /\ IsPrefix(<< >>, reply.body)
  BY <1>2, PrefixIs DEF Sorted
<1>4. CASE pc \in {"head", "broken"}
  <2>1. body = Empty
    BY <1>1, <1>4 DEF Reading, InHead
  <2>2. body.ptr = << >>
    BY <2>1 DEF Empty
  <2>. QED
    BY <1>3, <2>2
<1>5. CASE pc = "length"
  BY <1>1, <1>3, <1>5 DEF Reading, InLength
<1>6. CASE pc = "close"
  BY <1>1, <1>6 DEF Reading, InClose
<1>7. CASE pc = "read"
  BY <1>1, <1>7 DEF Reading, InRead
<1>8. CASE pc \in {"size", "chunk", "last"}
  <2>. DEFINE ends == reply.ends
              n == Len(ends)
              last == Before(ends, n + 1)
  <2>1. /\ reply.framing = "chunked" /\ body.ptr = Bytes(requests, 1, body.bytes)
        /\ \/ \E k \in 1 .. n + 1 : body.bytes = Start(k)
           \/ \E k \in 1 .. n : InChunkAt(k)
           \/ body.bytes = last
    BY <1>1, <1>8 DEF Reading, InSize, InChunk, InLast, InPtr, Start, InChunkAt
  <2>2. /\ ends \in Chunkings /\ n \in Nat /\ requests \in Nat /\ reply \in Replies(requests)
        /\ body.bytes \in Nat
    BY <1>1, <1>2, <2>1 DEF Sorted, Typed
  <2>3. n + 1 \in 1 .. n + 1
    BY <2>2
  <2>4. last \in 0 .. SizeT - 1 /\ last \in Nat
    <3>1. last \in 0 .. SizeT - 1 /\ SizeT \in Nat
      BY <2>2, <2>3, StartsRise, HttpReadAssumption
    <3>. QED
      BY <3>1
  <2>5. body.bytes =< last
    <3>1. ASSUME NEW k \in 1 .. n + 1, body.bytes = Start(k) PROVE body.bytes =< last
      BY <2>2, <3>1, StartsRise DEF Start
    <3>2. ASSUME NEW k \in 1 .. n, InChunkAt(k) PROVE body.bytes =< last
      <4>1. k \in 1 .. n + 1 /\ k =< n /\ k + 1 \in 1 .. n + 1
        BY <2>2
      <4>2. body.bytes =< ends[k] /\ ends[k] \in Nat
        <5>1. body.bytes =< ends[k] /\ ends[k] \in 1 .. SizeT - 1 /\ SizeT \in Nat
          BY <1>2, <2>1, <3>2, HttpReadAssumption DEF Sorted
        <5>. QED
          BY <5>1
      <4>3. Before(ends, k + 1) = ends[k]
        BY <2>2, <4>1, StartsRise
      <4>4. Before(ends, k + 1) =< last
        BY <2>2, <4>1, StartsRise
      <4>. QED
        BY <2>2, <2>4, <4>2, <4>3, <4>4
    <3>3. body.bytes = last => body.bytes =< last
      BY <2>2
    <3>. QED
      BY <2>1, <3>1, <3>2, <3>3
  <2>6. reply.body = Bytes(requests, 1, last)
    BY <2>1, <2>2, RepliesAre
  <2>. DEFINE one == 1
              c == body.bytes
              x == Bytes(requests, one, c)
              y == Bytes(requests, c + 1, last)
  <2>7. one \in Nat \ {0} /\ one =< c + 1 /\ c \in Nat /\ c =< last /\ c + 1 \in Nat \ {0}
        /\ c + 1 =< last + 1 /\ requests \in Nat
    BY <2>2, <2>4, <2>5
  <2>8. x \in Seq(Elems)
    BY <2>7, BodyBytes
  <2>. HIDE DEF one, c, last
  <2>9. y \in Seq(Elems)
    BY <2>4, <2>7, BytesIs
  <2>10. CutAt(requests, one, c, last)
    BY <2>4, <2>7, BytesCut
  <2>11. IsPrefix(x, Cat(x, y))
    <3>. HIDE DEF x, y
    <3>. QED
      BY <2>8, <2>9, PrefixIs DEF Cat
  <2>. QED
    BY <2>1, <2>6, <2>10, <2>11, Zenon DEF CutAt, one, c
<1>. QED
  BY <1>1, <1>2, <1>4, <1>5, <1>6, <1>7, <1>8 DEF Typed, Places

\* However the bytes of the replies arrive, for every size of the buffers, every length
\* and every way to cut a body into chunks, http_read puts together the body, counts it
\* right, and leaves nothing of it to the next reply.
THEOREM BodiesAreRead == Spec => []BodyIsTheBody
<1>1. HInv => BodyIsTheBody
  <2>. SUFFICES ASSUME HInv, ~late
                PROVE  /\ reply.framing # "close" => IsPrefix(body.ptr, reply.body)
                       /\ pc = "read" /\ WholeSent =>
                            /\ body.bytes = Len(reply.body) /\ wire = << >> /\ buffer = << >>
                            /\ reply.framing # "close" => body.ptr = reply.body
    BY DEF BodyIsTheBody
  <2>1. reply.framing # "close" => IsPrefix(body.ptr, reply.body)
    BY PtrIsPrefix
  <2>2. ASSUME pc = "read", WholeSent
        PROVE  /\ body.bytes = Len(reply.body) /\ wire = << >> /\ buffer = << >>
               /\ reply.framing # "close" => body.ptr = reply.body
    <3>1. InRead
      BY <2>2 DEF HInv, Reading
    <3>. QED
      BY <2>2, <3>1 DEF InRead, InStart, WholeSent
  <2>. QED
    BY <2>1, <2>2
<1>. QED
  BY <1>1, HInvHolds, PTL
=============================================================================
