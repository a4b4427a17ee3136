------------------------------ MODULE AuthProofs ------------------------------
(***************************************************************************)
(* Auth, for every number of browsers, of logins and of login URLs, and    *)
(* for every site: memory freed once, login URLs taken in turn, and to     *)
(* every challenge its own answer.                                         *)
(***************************************************************************)
EXTENDS Auth, FiniteSetTheorems, WellFoundedInduction, TLAPS

Places == {"start", "count", "take", "ready", "header", "print", "header2", "copy", "sent",
           "again", "basic", "alloc", "fill", "got1", "got2", "ntlm", "type1", "sent1", "fill1",
           "type3", "sent3", "realloc", "moved", "fill3"}
Types == {"BASIC", "DIGEST", "NTLM"}
HeaderOf == [field : {"none", "www", "proxy"},
             type : {"none", "unset", "stray", "(null)", "cut", "BASIC", "DIGEST", "NTLM"},
             login : Nat, nonce : Nat, nc : Nat, by : Browsers \cup {NoBrowser}]
BufferOf == [text : HeaderOf, live : BOOLEAN]
OwnOf == [challenge : ChallengeOf \cup {NoChallenge}, login : Nat, nc : Nat]
AnswerOf == [challenge : ChallengeOf \cup {NoChallenge}, since : Nat]

Typed ==
  /\ site \in Sites /\ slot \in [Slots -> Nat] /\ heap \in Seq(BufferOf)
  /\ lock \in Browsers \cup {NoBrowser} /\ ntlm \in [state : {"N", "1", "2", "3"}, nonce : Nat]
  /\ index \in Nat \cup {-1} /\ pc \in [Browsers -> Places] /\ kind \in [Browsers -> Kinds]
  /\ method \in [Browsers -> {"GET", "POST"}] /\ asked \in [Browsers -> [Kinds -> BOOLEAN]]
  /\ type \in [Browsers -> [Kinds -> Types]] /\ own \in [Browsers -> [Kinds -> OwnOf]]
  /\ at \in [Browsers -> Nat] /\ hash \in [Browsers -> Nat]
  /\ out \in [Browsers -> [Kinds -> HeaderOf]] /\ requests \in [Browsers -> 0 .. MaxRequests]
  /\ login \in [Browsers -> 0 .. Len(LoginUrls)] /\ last \in [Browsers -> [Kinds -> AnswerOf]]
  /\ touched \in [Browsers -> SUBSET Slots] /\ alone \in [Browsers -> BOOLEAN]

\* The fields, and what was read from them, point to buffers; no two fields to the same.
Pointers == /\ \A s \in Slots : slot[s] =< Len(heap)
            /\ \A b \in Browsers : pc[b] = "copy" => at[b] =< Len(heap)
            /\ \A s, t \in Slots : s # t => slot[s] = 0 \/ slot[s] # slot[t]

\* The lock is held from the release of the old text to the new one, and a field of Basic
\* points to memory that is gone only in between.
Lives(s) == slot[s] = 0 \/ heap[slot[s]].live
Locked == /\ \A b \in Browsers : pc[b] \in {"alloc", "fill"} => lock = b
          /\ \A s \in {"basic", "proxy"} :
               Lives(s) \/ \E b \in Browsers : pc[b] = "alloc" /\ BasicSlot(b) = s

\* NTLM's state is out of "N" when it is looked at, and only servers ask for it.
Switched == \A b \in Browsers : /\ pc[b] = "ntlm" => ntlm.state # "N"
                                /\ type[b]["proxy"] # "NTLM"

-----------------------------------------------------------------------------
(* array_next.                                                             *)

Url(i) == (i % Len(LoginUrls)) + 1
Took(b, n) == \E i \in 0 .. n : login[b] = Url(i)
Past == {b \in Browsers : pc[b] \notin {"start", "count"}}

\* What is known of a browser's visit to array_next when there are URLs enough: no alone
\* browser took a URL that the index has still to come to.
Counting ==
  /\ index + 1 =< Cardinality(Past)
  /\ \A b \in Browsers :
       /\ pc[b] \in {"start", "count", "take"} => login[b] = 0
       /\ pc[b] = "count" => at[b] =< Cardinality(Past)
       /\ alone[b] /\ pc[b] = "count" => index + 1 = at[b]
       /\ alone[b] /\ pc[b] = "take" => index = at[b]
       /\ alone[b] /\ InNext(b) => \A d \in Browsers \ {b} : ~InNext(d)
       /\ alone[b] /\ login[b] > 0 => /\ Took(b, index)
                                      /\ \A d \in Browsers : InNext(d) => Took(b, at[d] - 1)
  /\ \A b, d \in Browsers :
       b # d /\ login[b] > 0 /\ login[d] > 0 /\ alone[b] /\ alone[d] => login[b] # login[d]
Enough == Cardinality(Browsers) =< Len(LoginUrls)

-----------------------------------------------------------------------------
(* Answers.                                                                *)

\* The challenge to be answered, and the text of the answer before it is copied to the request.
Posed(b, k) == last[b][k].challenge
Prepared(b, k) == last[b][k] # NoAnswer
Text(b, k) ==
  LET c == Posed(b, k) IN
  CASE c.type = "BASIC" -> [NoHeader EXCEPT !.field = k, !.type = "BASIC", !.login = Login(c)]
    [] c.type = "DIGEST" ->
         [field |-> FieldOf(b, k), type |-> "DIGEST", login |-> Login(c), nonce |-> c.nonce,
          nc |-> requests[b] - last[b][k].since, by |-> b]
    [] c.type = "NTLM" ->
         [NoHeader EXCEPT !.field = "www", !.type = "NTLM", !.nonce = c.nonce,
                          !.login = IF c.nonce = 0 THEN 0 ELSE Login(c)]

\* The field has a buffer for the answer; the answer is in it.
Ready(b, k) == slot[Through(b, k)] # 0 /\ heap[slot[Through(b, k)]].live
Held(b, k) == Ready(b, k) /\ heap[slot[Through(b, k)]].text = Text(b, k)

Copies == {"print", "header2", "copy"}
Heading == {"header"} \cup Copies
AtBasic == {"basic", "alloc", "fill"}
AtNtlm == {"got1", "got2", "ntlm", "type1", "sent1", "fill1", "type3", "sent3", "realloc",
           "moved", "fill3"}

\* The header of kind k is in the request; it is still to come.
Headed(b, k) == pc[b] = "sent" \/ (pc[b] \in Heading /\ k = "www" /\ kind[b] = "proxy")
ToCome(b, k) == \/ pc[b] \in Heading /\ k = "proxy" /\ kind[b] = "www"
                \/ pc[b] = "header" /\ k = kind[b]

\* Where a browser is tells what it is at.
Routes(b) ==
  /\ pc[b] \in Copies => asked[b][kind[b]]
  /\ pc[b] \in {"print", "header2"} => type[b][kind[b]] = "DIGEST"
  /\ pc[b] \in Copies /\ type[b][kind[b]] = "DIGEST" => own[b][kind[b]].challenge.sound
  /\ pc[b] \in AtBasic => type[b][kind[b]] = "BASIC" /\ Prepared(b, kind[b])
  /\ pc[b] \in AtNtlm => kind[b] = "www" /\ type[b]["www"] = "NTLM" /\ Prepared(b, "www")

\* What the browser keeps of the challenge.
Challenged(b, k) ==
  /\ asked[b][k] /\ Posed(b, k) \in ChallengeOf /\ Posed(b, k).kind = k
  /\ type[b][k] = Posed(b, k).type /\ Login(Posed(b, k)) > 0
  /\ last[b][k].since =< requests[b] /\ (ToCome(b, k) => last[b][k].since < requests[b])
  /\ Posed(b, k).type = "DIGEST" => own[b][k].challenge = Posed(b, k) /\ own[b][k].login = Login(Posed(b, k))
Count(b, k) ==
  Posed(b, k).type = "DIGEST" /\ Posed(b, k).sound =>
    own[b][k].nc = requests[b] - last[b][k].since - (IF ToCome(b, k) THEN 1 ELSE 0)

\* No other browser came between.
Apiece(b, k) == Through(b, k) \notin touched[b]

\* The steps that prepare the answer of kind k, and what they have done.
DigestWork(b, k) ==
  Posed(b, k).type = "DIGEST" /\ Posed(b, k).sound /\ kind[b] = k /\ Apiece(b, k) =>
    /\ pc[b] = "print" => Ready(b, k)
    /\ pc[b] \in {"header2", "copy"} => Held(b, k)
BasicWork(b, k) ==
  Posed(b, k).type = "BASIC" /\ kind[b] = k =>
    /\ pc[b] \in AtBasic => at[b] = Login(Posed(b, k))
    /\ pc[b] = "fill" /\ Apiece(b, k) => Ready(b, k)
NtlmWork(b, k) ==
  LET c == Posed(b, k) IN
  c.type = "NTLM" /\ c.sound /\ Apiece(b, k) =>
    /\ pc[b] \in AtNtlm => at[b] = Login(c)
    /\ pc[b] = "got1" => c.nonce = 0
    /\ pc[b] = "got2" => c.nonce > 0 /\ ntlm.nonce = c.nonce
    /\ pc[b] = "ntlm" => \/ ntlm.state = "1" /\ c.nonce = 0
                         \/ ntlm.state = "2" /\ c.nonce > 0 /\ ntlm.nonce = c.nonce
    /\ pc[b] = "type1" => c.nonce = 0
    /\ pc[b] \in {"sent1", "fill1"} => c.nonce = 0 /\ hash[b] = 0
    /\ pc[b] = "type3" => c.nonce > 0 /\ ntlm.nonce = c.nonce
    /\ pc[b] \in {"sent3", "realloc", "moved", "fill3"} => c.nonce > 0 /\ hash[b] = c.nonce
    /\ pc[b] \in {"sent1", "fill1", "fill3"} => Ready(b, k)
Copying(b, k) == kind[b] = k /\ Apiece(b, k) /\ pc[b] = "copy" => at[b] = slot[Through(b, k)]

\* A text that stays until the next challenge.
Stays(b, k) ==
  /\ Posed(b, k).type = "BASIC" \/ (Posed(b, k).type = "NTLM" /\ Posed(b, k).sound)
  /\ Apiece(b, k)
  /\ pc[b] \notin AtBasic \/ kind[b] # k
  /\ pc[b] \notin AtNtlm \/ k = "proxy"
  => Held(b, k)

\* What is in the request.
Sent(b, k) == IF Posed(b, k).type = "DIGEST" /\ ~Posed(b, k).sound THEN NullText
              ELSE Fit(Text(b, k), method[b])
Answered(b, k) ==
  Headed(b, k) /\ Apiece(b, k) /\ (Posed(b, k).type = "NTLM" => Posed(b, k).sound) =>
    out[b][k] = Sent(b, k)
Bare(b, k) == pc[b] \in Heading \cup {"sent"} /\ ~asked[b][k] => out[b][k] = NoHeader

Own(b, k) ==
  /\ Prepared(b, k) =>
       /\ Challenged(b, k) /\ Count(b, k) /\ DigestWork(b, k) /\ BasicWork(b, k) /\ NtlmWork(b, k)
       /\ Copying(b, k) /\ Stays(b, k) /\ Answered(b, k)
  /\ Bare(b, k)

-----------------------------------------------------------------------------
(* The choice of a login.                                                  *)

\* A set of positive numbers that is not empty has a least one.
LEMMA LeastOf ==
    ASSUME NEW S, S \subseteq Nat \ {0}, S # {}
    PROVE  Min(S) \in S /\ \A i \in S : Min(S) =< i
<1>1. PICK R : IsWellFoundedOn(R, Nat) /\ \A x, y \in Nat : x < y => <<x, y>> \in R
  <2>1. IsWellFoundedOn(OpToRel(<, Nat), Nat)
    BY NatLessThanWellFounded
  <2>2. \A x, y \in Nat : x < y => <<x, y>> \in OpToRel(<, Nat)
    BY Zenon DEF OpToRel
  <2>. QED
    BY <2>1, <2>2, Zenon
<1>2. PICK m \in S : \A y \in S : ~(<<y, m>> \in R)
  <2>1. IsWellFoundedOn(R, Nat)
    BY <1>1
  <2>2. S \subseteq Nat
    OBVIOUS
  <2>. HIDE <1>1
  <2>. QED
    BY <2>1, <2>2, WFMin, Zenon
<1>3. \A y \in S : m =< y
  <2>. SUFFICES ASSUME NEW y \in S PROVE m =< y
    OBVIOUS
  <2>1. y \in Nat /\ m \in Nat /\ ~(y < m)
    BY <1>1, <1>2
  <2>. QED
    BY <2>1
<1>. QED
  BY <1>2, <1>3, Zenon DEF Min

\* The logins of some schemes for a realm.
Fitting(schemes, r) == {i \in 1 .. Len(Creds) : Creds[i].realm = r /\ Creds[i].scheme \in schemes}
Earliest(S) == IF S # {} THEN Min(S) ELSE 0

LEMMA ChooseIs ==
    ASSUME NEW schemes, NEW realm
    PROVE  Choose(schemes, realm) =
             IF realm # <<>> /\ Earliest(Fitting(schemes, realm)) > 0
             THEN Earliest(Fitting(schemes, realm)) ELSE Earliest(Fitting(schemes, <<"any">>))
BY DEF Choose, SelectInSeq, Fitting, Earliest

LEMMA EarliestOf ==
    ASSUME NEW S, S \subseteq Nat \ {0}
    PROVE  Earliest(S) \in Nat /\ (Earliest(S) > 0 <=> S # {}) /\ (S # {} => Earliest(S) = Min(S))
<1>1. CASE S = {}
  BY <1>1 DEF Earliest
<1>2. CASE S # {}
  <2>1. Min(S) \in S /\ Earliest(S) = Min(S)
    BY <1>2, LeastOf, Zenon DEF Earliest
  <2>2. Min(S) \in Nat /\ Min(S) > 0
    <3>1. \A m \in S : m \in Nat /\ m > 0
      OBVIOUS
    <3>. QED
      BY <2>1, <3>1, Zenon
  <2>. QED
    BY <1>2, <2>1, <2>2
<1>. QED
  BY <1>1, <1>2

LEMMA LoginType == ASSUME NEW c \in ChallengeOf PROVE Login(c) \in Nat
<1>1. \A schemes, r : Earliest(Fitting(schemes, r)) \in Nat
  BY EarliestOf DEF Fitting
<1>2. \A schemes, r : Choose(schemes, r) \in Nat
  BY <1>1, ChooseIs, Zenon
<1>3. c.type \in {"BASIC", "DIGEST", "NTLM"}
  BY DEF ChallengeOf
<1>. QED
  BY <1>2, <1>3 DEF Login

\* What is chosen is what the challenge is entitled to.
LEMMA LoginIsEntitled ==
    ASSUME NEW c \in ChallengeOf, c.type = "NTLM" => c.kind = "www", Login(c) > 0
    PROVE  Login(c) = Entitled(c)
<1>. DEFINE may == { i \in DOMAIN Creds :
                       c.type = "DIGEST" \/ Creds[i].scheme = (IF c.kind = "proxy" THEN "PROXY" ELSE "HTTP") }
            exact == { i \in may : c.realm # <<>> /\ Creds[i].realm = c.realm }
            any == { i \in may : Creds[i].realm = <<"any">> }
<1>1. PICK schemes \in {{"HTTP"}, {"PROXY"}, {"HTTP", "PROXY", "FTP"}} :
        /\ Login(c) = Choose(schemes, c.realm)
        /\ schemes = IF c.type = "DIGEST" THEN {"HTTP", "PROXY", "FTP"}
                     ELSE IF c.kind = "proxy" THEN {"PROXY"} ELSE {"HTTP"}
  BY DEF Login, ChallengeOf, BasicSchemes, DigestSchemes
<1>2. /\ DOMAIN Creds = 1 .. Len(Logins) /\ Len(Creds) = Len(Logins) /\ Len(Logins) \in Nat
      /\ \A i \in DOMAIN Creds : Creds[i].scheme \in {"HTTP", "PROXY", "FTP"}
  <2>1. /\ DOMAIN Creds = DOMAIN Logins
        /\ \A i \in DOMAIN Creds : Creds[i].scheme = Logins[i].scheme
    BY DEF Creds, NewCreds
  <2>2. /\ DOMAIN Logins = 1 .. Len(Logins) /\ Len(Logins) \in Nat
        /\ \A i \in DOMAIN Logins : Logins[i].scheme \in {"HTTP", "PROXY", "FTP"}
    <3>. DEFINE R == [scheme : {"HTTP", "PROXY", "FTP"}, text : Seq(STRING)]
    <3>1. \A l \in R : l.scheme \in {"HTTP", "PROXY", "FTP"}
      OBVIOUS
    <3>2. Logins \in Seq(R)
      BY AuthAssumption
    <3>. HIDE DEF R
    <3>3. /\ DOMAIN Logins = 1 .. Len(Logins) /\ Len(Logins) \in Nat
          /\ \A i \in DOMAIN Logins : Logins[i] \in R
      BY <3>2
    <3>. QED
      BY <3>1, <3>3, Zenon
  <2>3. Len(Creds) = Len(Logins)
    BY <2>1, <2>2
  <2>. QED
    BY <2>1, <2>2, <2>3
<1>3. may = {i \in 1 .. Len(Creds) : Creds[i].scheme \in schemes}
  BY <1>1, <1>2 DEF ChallengeOf
<1>. HIDE DEF may
<1>4. exact = IF c.realm # <<>> THEN Fitting(schemes, c.realm) ELSE {}
  BY <1>3 DEF Fitting
<1>5. any = Fitting(schemes, <<"any">>)
  BY <1>3 DEF Fitting
<1>6. \A r : Fitting(schemes, r) \subseteq Nat \ {0}
  BY DEF Fitting
<1>7. Entitled(c) = Min(IF exact # {} THEN exact ELSE any)
  BY Zenon DEF Entitled, may
<1>. HIDE DEF exact, any
<1>8. CASE exact # {}
  <2>1. c.realm # <<>> /\ Earliest(Fitting(schemes, c.realm)) > 0 /\ Earliest(Fitting(schemes, c.realm)) = Min(exact)
    BY <1>4, <1>6, <1>8, EarliestOf
  <2>. QED
    BY <1>1, <1>7, <1>8, <2>1, ChooseIs
<1>9. CASE exact = {}
  <2>1. ~(c.realm # <<>> /\ Earliest(Fitting(schemes, c.realm)) > 0)
    BY <1>4, <1>6, <1>9, EarliestOf
  <2>2. Login(c) = Earliest(Fitting(schemes, <<"any">>))
    BY <1>1, <2>1, ChooseIs
  <2>3. Login(c) = Min(any)
    BY <1>5, <1>6, <2>2, EarliestOf
  <2>. QED
    BY <1>7, <1>9, <2>3
<1>. QED
  BY <1>8, <1>9

-----------------------------------------------------------------------------
(* Types.                                                                  *)

LEMMA PlacesAre ==
    /\ {"start", "count", "take", "ready", "header", "print", "header2", "copy", "sent"} \subseteq Places
    /\ {"again", "basic", "alloc", "fill", "got1", "got2", "ntlm", "type1", "sent1"} \subseteq Places
    /\ {"fill1", "type3", "sent3", "realloc", "moved", "fill3"} \subseteq Places
BY DEF Places

LEMMA HeadersAre ==
    /\ NoHeader \in HeaderOf /\ Unset \in HeaderOf /\ Stray \in HeaderOf /\ NullText \in HeaderOf
    /\ \A h \in HeaderOf : \A m : Fit(h, m) \in HeaderOf
BY DEF NoHeader, Unset, Stray, NullText, HeaderOf, Fit, Cut

\* What a write to a buffer, a release and a new buffer leave.
LEMMA Replaced ==
    ASSUME NEW H, H \in Seq(BufferOf), NEW n, n \in 1 .. Len(H), NEW q \in BufferOf, NEW G, G = [H EXCEPT ![n] = q]
    PROVE  /\ G \in Seq(BufferOf) /\ Len(G) = Len(H) /\ G[n] = q
           /\ \A m \in 1 .. Len(H) : m # n => G[m] = H[m]
OBVIOUS

WithText(H, n, h) == [H EXCEPT ![n].text = h]
LEMMA Written ==
    ASSUME NEW H, H \in Seq(BufferOf), NEW n, NEW h \in HeaderOf, NEW G, G = WithText(H, n, h)
    PROVE  /\ G \in Seq(BufferOf) /\ Len(G) = Len(H)
           /\ \A m \in 1 .. Len(H) : /\ m # n => G[m] = H[m]
                                     /\ m = n => G[m].text = h /\ (G[m].live <=> H[m].live)
<1>1. CASE n \in 1 .. Len(H)
  <2>1. PICK q : q = [H[n] EXCEPT !.text = h]
    OBVIOUS
  <2>2. H[n] \in BufferOf
    BY <1>1
  <2>3. q \in BufferOf /\ q.text = h /\ (q.live <=> H[n].live)
    BY <2>1, <2>2 DEF BufferOf
  <2>4. G = [H EXCEPT ![n] = q]
    BY <2>1, Zenon DEF WithText
  <2>. QED
    BY <1>1, <2>3, <2>4
<1>2. CASE n \notin 1 .. Len(H)
  <2>1. G = H
    BY <1>2 DEF WithText
  <2>. QED
    BY <1>2, <2>1
<1>. QED
  BY <1>1, <1>2

LEMMA Freed ==
    ASSUME NEW H, H \in Seq(BufferOf), NEW n, NEW G
    PROVE  G = [H EXCEPT ![n].live = FALSE] =>
             /\ G \in Seq(BufferOf) /\ Len(G) = Len(H)
             /\ \A m \in 1 .. Len(H) : m # n => G[m] = H[m]
<1>1. ASSUME G = [H EXCEPT ![n].live = FALSE], n \in 1 .. Len(H)
      PROVE  /\ G \in Seq(BufferOf) /\ Len(G) = Len(H)
             /\ \A m \in 1 .. Len(H) : m # n => G[m] = H[m]
  <2>1. PICK q : q = [H[n] EXCEPT !.live = FALSE]
    OBVIOUS
  <2>2. q \in BufferOf
    <3>1. H[n] \in BufferOf
      BY <1>1
    <3>. QED
      BY <2>1, <3>1 DEF BufferOf
  <2>3. G = [H EXCEPT ![n] = q]
    BY <1>1, <2>1, Zenon
  <2>4. n \in 1 .. Len(H)
    BY <1>1
  <2>. QED
    BY <2>2, <2>3, <2>4, Replaced
<1>2. ASSUME G = [H EXCEPT ![n].live = FALSE], n \notin 1 .. Len(H) PROVE G = H
  BY <1>2
<1>. QED
  BY <1>1, <1>2

More(H) == Append(H, [text |-> Unset, live |-> TRUE])
LEMMA Grown ==
    ASSUME NEW H, H \in Seq(BufferOf), NEW G, G = More(H)
    PROVE  /\ G \in Seq(BufferOf) /\ Len(G) = Len(H) + 1 /\ Len(H) \in Nat
           /\ \A m \in 1 .. Len(H) : G[m] = H[m]
           /\ G[Len(H) + 1].live /\ G[Len(H) + 1].text = Unset
BY HeadersAre DEF BufferOf, More

LEMMA ChallengesAre ==
    /\ \A c \in ChallengeOf : c.kind \in Kinds /\ c.type \in Types /\ c.nonce \in Nat
    /\ \A c \in ChallengeOf, n \in Nat : [challenge |-> c, since |-> n] \in AnswerOf
    /\ \A c \in ChallengeOf, n \in Nat : [challenge |-> c, login |-> n, nc |-> 0] \in OwnOf
    /\ NoAnswer \in AnswerOf /\ NoChallenge \notin ChallengeOf
<1>1. \A c \in ChallengeOf : c.kind \in Kinds /\ c.type \in Types /\ c.nonce \in Nat
  BY DEF ChallengeOf, Types
<1>2. \A c \in ChallengeOf, n \in Nat : [challenge |-> c, since |-> n] \in AnswerOf
  BY DEF AnswerOf
<1>3. \A c \in ChallengeOf, n \in Nat : [challenge |-> c, login |-> n, nc |-> 0] \in OwnOf
  BY DEF OwnOf
<1>4. NoAnswer \in AnswerOf
  BY DEF NoAnswer, AnswerOf
<1>5. NoChallenge \notin ChallengeOf
  BY DEF NoChallenge, ChallengeOf, Kinds
<1>. QED
  BY <1>1, <1>2, <1>3, <1>4, <1>5

\* What a change for one browser, and for one of its kinds of header, leaves.
LEMMA Entry ==
    ASSUME NEW T, NEW f \in [Browsers -> [Kinds -> T]], NEW b \in Browsers, NEW k \in Kinds, NEW x \in T,
           NEW g, g = [f EXCEPT ![b][k] = x]
    PROVE  /\ g \in [Browsers -> [Kinds -> T]] /\ g[b][k] = x
           /\ \A j \in Kinds \ {k} : g[b][j] = f[b][j]
           /\ \A d \in Browsers \ {b} : g[d] = f[d]
OBVIOUS

LEMMA SlotsAre ==
    ASSUME Typed, NEW b \in Browsers
    PROVE  SlotOf(b) \in Slots /\ BasicSlot(b) \in Slots /\ "ntlm" \in Slots
BY DEF Slots, SlotOf, BasicSlot, FieldOf

LEMMA Touching ==
    ASSUME Typed, NEW b \in Browsers, NEW s \in Slots, Touch(b, s) \/ Mine(b, s)
    PROVE  touched' \in [Browsers -> SUBSET Slots]
<1>1. \A d \in Browsers : touched[d] \in SUBSET Slots
  BY DEF Typed
<1>2. CASE Touch(b, s)
  BY <1>1, <1>2 DEF Touch
<1>3. CASE Mine(b, s)
  BY <1>1, <1>3 DEF Mine
<1>. QED
  BY <1>2, <1>3

LEMMA Proceeding ==
    ASSUME Typed, NEW b \in Browsers, Proceed(b)
    PROVE  kind' \in [Browsers -> Kinds] /\ pc' \in [Browsers -> Places]
<1>1. kind \in [Browsers -> Kinds] /\ pc \in [Browsers -> Places]
  BY DEF Typed
<1>2. "proxy" \in Kinds
  BY DEF Kinds
<1>3. "header" \in Places /\ "sent" \in Places
  BY PlacesAre
<1>4. CASE kind[b] = "www"
  BY <1>1, <1>2, <1>3, <1>4 DEF Proceed, Goto
<1>5. CASE kind[b] # "www"
  BY <1>1, <1>3, <1>5 DEF Proceed, Goto
<1>. QED
  BY <1>4, <1>5

LEMMA UrlIs == ASSUME NEW i \in Int PROVE Url(i) \in 1 .. Len(LoginUrls)
<1>. DEFINE L == Len(LoginUrls)
<1>1. L \in Nat /\ L > 0
  BY AuthAssumption
<1>. HIDE DEF L
<1>2. i % L \in 0 .. L - 1
  BY <1>1
<1>. QED
  BY <1>1, <1>2 DEF Url, L

\* The three writes of a text, and that they are headers.
DigestText(b) == [field |-> FieldOf(b, kind[b]), type |-> "DIGEST", login |-> own[b][kind[b]].login,
                  nonce |-> own[b][kind[b]].challenge.nonce, nc |-> own[b][kind[b]].nc, by |-> b]
BasicText(b) == [NoHeader EXCEPT !.field = kind[b], !.type = "BASIC", !.login = at[b]]
NtlmText(b) == [NoHeader EXCEPT !.field = "www", !.type = "NTLM", !.nonce = hash[b],
                                !.login = IF pc[b] = "fill3" THEN at[b] ELSE 0]

LEMMA PrintDigestWrites ==
    ASSUME Typed, NEW b \in Browsers, PrintDigest(b)
    PROVE  heap' = WithText(heap, slot[SlotOf(b)], DigestText(b)) /\ DigestText(b) \in HeaderOf
<1>1. heap' = WithText(heap, slot[SlotOf(b)], DigestText(b))
  BY Zenon DEF PrintDigest, WithText, DigestText
<1>2. own[b][kind[b]] \in OwnOf /\ kind[b] \in Kinds
  BY DEF Typed
<1>3. own[b][kind[b]].challenge.nonce \in Nat
  <2>1. own[b][kind[b]].challenge \in ChallengeOf \cup {NoChallenge}
    BY <1>2 DEF OwnOf
  <2>. QED
    BY <2>1, ChallengesAre DEF NoChallenge
<1>4. own[b][kind[b]].login \in Nat /\ own[b][kind[b]].nc \in Nat
  BY <1>2 DEF OwnOf
<1>5. FieldOf(b, kind[b]) \in {"none", "www", "proxy"}
  BY <1>2 DEF FieldOf, Kinds
<1>. QED
  BY <1>1, <1>3, <1>4, <1>5 DEF HeaderOf, DigestText

LEMMA FillBasicWrites ==
    ASSUME Typed, NEW b \in Browsers, FillBasic(b)
    PROVE  heap' = WithText(heap, slot[BasicSlot(b)], BasicText(b)) /\ BasicText(b) \in HeaderOf
<1>1. heap' = WithText(heap, slot[BasicSlot(b)], BasicText(b))
  BY Zenon DEF FillBasic, WithText, BasicText
<1>2. BasicText(b) \in HeaderOf
  BY DEF BasicText, Typed, HeaderOf, NoHeader, Kinds
<1>. QED
  BY <1>1, <1>2

LEMMA NtlmFillWrites ==
    ASSUME Typed, NEW b \in Browsers, NtlmFill(b)
    PROVE  heap' = WithText(heap, slot["ntlm"], NtlmText(b)) /\ NtlmText(b) \in HeaderOf
<1>1. heap' = WithText(heap, slot["ntlm"], NtlmText(b))
  BY Zenon DEF NtlmFill, WithText, NtlmText
<1>2. NtlmText(b) \in HeaderOf
  BY DEF NtlmText, Typed, HeaderOf, NoHeader
<1>. QED
  BY <1>1, <1>2

LEMMA TypedLoadIndex ==
    ASSUME Typed, NEW b \in Browsers, LoadIndex(b) PROVE Typed'
<1>1. pc' \in [Browsers -> Places]
  BY PlacesAre DEF LoadIndex, Typed, Goto, Proceed
<1>2. at' \in [Browsers -> Nat]
  BY LoginType DEF LoadIndex, Typed, Answering
<1>3. alone' \in [Browsers -> BOOLEAN]
  BY DEF LoadIndex, Typed, InNext
<1>. QED
  BY <1>1, <1>2, <1>3 DEF LoadIndex, Typed, shared, private, ghosts

LEMMA TypedStoreIndex ==
    ASSUME Typed, NEW b \in Browsers, StoreIndex(b) PROVE Typed'
<1>1. pc' \in [Browsers -> Places]
  BY PlacesAre DEF StoreIndex, Typed, Goto, Proceed
<1>2. index' \in Nat \cup {-1}
  BY DEF StoreIndex, Typed
<1>. QED
  BY <1>1, <1>2 DEF StoreIndex, Typed, shared, private, ghosts

LEMMA TypedTakeUrl ==
    ASSUME Typed, NEW b \in Browsers, TakeUrl(b) PROVE Typed'
<1>1. pc' \in [Browsers -> Places]
  BY PlacesAre DEF TakeUrl, Typed, Goto
<1>2. login' \in [Browsers -> 0 .. Len(LoginUrls)]
  <2>1. PICK i : /\ i \in {index, at[b]}
                 /\ login' = [login EXCEPT ![b] = Url(i)]
    BY Zenon DEF TakeUrl, Url
  <2>2. i \in Int
    BY <2>1 DEF Typed
  <2>. DEFINE L == Len(LoginUrls)
  <2>3. Url(i) \in 0 .. L
    <3>1. Url(i) \in 1 .. L
      BY <2>2, UrlIs
    <3>. HIDE DEF L
    <3>. QED
      BY <3>1
  <2>4. login \in [Browsers -> 0 .. Len(LoginUrls)]
    BY DEF Typed
  <2>. QED
    BY <2>1, <2>3, <2>4, Zenon
<1>. QED
  BY <1>1, <1>2 DEF TakeUrl, Typed, shared, private, ghosts

LEMMA TypedPage ==
    ASSUME Typed, NEW b \in Browsers, Page(b) PROVE Typed'
<1>1. pc' \in [Browsers -> Places]
  BY PlacesAre DEF Page, Typed, Goto, Proceed
<1>2. requests' \in [Browsers -> 0 .. MaxRequests]
  BY AuthAssumption DEF Page, Typed, Begin
<1>3. method' \in [Browsers -> {"GET", "POST"}]
  BY AuthAssumption DEF Page, Typed, Begin
<1>4. kind' \in [Browsers -> Kinds]
  BY DEF Page, Typed, Proceed, Begin, Noted, Kinds
<1>5. out' \in [Browsers -> [Kinds -> HeaderOf]]
  BY HeadersAre DEF Page, Typed, Begin
<1>. QED
  BY <1>1, <1>2, <1>3, <1>4, <1>5 DEF Page, Typed, shared, private, ghosts

LEMMA TypedAgain ==
    ASSUME Typed, NEW b \in Browsers, Again(b) PROVE Typed'
<1>1. pc' \in [Browsers -> Places]
  BY PlacesAre DEF Again, Typed, Goto, Proceed
<1>2. requests' \in [Browsers -> 0 .. MaxRequests]
  BY AuthAssumption DEF Again, Typed, Begin
<1>3. method' \in [Browsers -> {"GET", "POST"}]
  BY AuthAssumption DEF Again, Typed, Begin
<1>4. kind' \in [Browsers -> Kinds]
  BY DEF Again, Typed, Proceed, Begin, Noted, Kinds
<1>5. out' \in [Browsers -> [Kinds -> HeaderOf]]
  BY HeadersAre DEF Again, Typed, Begin
<1>. QED
  BY <1>1, <1>2, <1>3, <1>4, <1>5 DEF Again, Typed, shared, private, ghosts

LEMMA TypedNotAsked ==
    ASSUME Typed, NEW b \in Browsers, NotAsked(b) PROVE Typed'
<1>1. pc' \in [Browsers -> Places]
  BY Proceeding DEF NotAsked
<1>2. kind' \in [Browsers -> Kinds]
  BY Proceeding DEF NotAsked
<1>. QED
  BY <1>1, <1>2 DEF NotAsked, Typed, shared, private, ghosts

LEMMA TypedAccepted ==
    ASSUME Typed, NEW b \in Browsers, Accepted(b) PROVE Typed'
<1>1. pc' \in [Browsers -> Places]
  BY PlacesAre DEF Accepted, Typed, Goto, Proceed
<1>. QED
  BY <1>1 DEF Accepted, Typed, shared, private, ghosts

LEMMA TypedNoDigest ==
    ASSUME Typed, NEW b \in Browsers, NoDigest(b) PROVE Typed'
<1>1. out' \in [Browsers -> [Kinds -> HeaderOf]]
  BY HeadersAre DEF NoDigest, Typed, Begin
<1>2. pc' \in [Browsers -> Places]
  BY Proceeding DEF NoDigest
<1>3. kind' \in [Browsers -> Kinds]
  BY Proceeding DEF NoDigest
<1>. QED
  BY <1>1, <1>2, <1>3 DEF NoDigest, Typed, shared, private, ghosts

LEMMA TypedAllocDigest ==
    ASSUME Typed, NEW b \in Browsers, AllocDigest(b) PROVE Typed'
<1>1. own' \in [Browsers -> [Kinds -> OwnOf]]
  <2>1. PICK o : o = [own[b][kind[b]] EXCEPT !.nc = @ + 1]
    OBVIOUS
  <2>2. own' = [own EXCEPT ![b][kind[b]] = o]
    BY <2>1, Zenon DEF AllocDigest
  <2>3. o \in OwnOf
    <3>1. own[b][kind[b]] \in OwnOf
      BY DEF Typed
    <3>. QED
      BY <2>1, <3>1 DEF OwnOf
  <2>. QED
    BY <2>2, <2>3 DEF Typed
<1>2. heap' \in Seq(BufferOf)
  <2>1. heap' = More(heap)
    BY DEF AllocDigest, More
  <2>2. heap \in Seq(BufferOf)
    BY DEF Typed
  <2>. QED
    BY <2>1, <2>2, Grown
<1>3. slot' \in [Slots -> Nat]
  <2>1. Len(heap) + 1 \in Nat /\ slot \in [Slots -> Nat]
    BY DEF Typed
  <2>. QED
    BY <2>1, SlotsAre DEF AllocDigest
<1>4. touched' \in [Browsers -> SUBSET Slots]
  BY SlotsAre, Touching DEF AllocDigest
<1>5. pc' \in [Browsers -> Places]
  BY PlacesAre DEF AllocDigest, Typed, Goto, Proceed
<1>. QED
  BY <1>1, <1>2, <1>3, <1>4, <1>5 DEF AllocDigest, Typed, shared, private, ghosts

LEMMA TypedPrintDigest ==
    ASSUME Typed, NEW b \in Browsers, PrintDigest(b) PROVE Typed'
<1>1. heap' \in Seq(BufferOf)
  <2>1. heap \in Seq(BufferOf)
    BY DEF Typed
  <2>2. heap' = WithText(heap, slot[SlotOf(b)], DigestText(b)) /\ DigestText(b) \in HeaderOf
    BY PrintDigestWrites, Zenon
  <2>. QED
    BY <2>1, <2>2, Written
<1>2. touched' \in [Browsers -> SUBSET Slots]
  BY SlotsAre, Touching DEF PrintDigest
<1>3. pc' \in [Browsers -> Places]
  BY PlacesAre DEF PrintDigest, Typed, Goto, Proceed
<1>. QED
  BY <1>1, <1>2, <1>3 DEF PrintDigest, Typed, shared, private, ghosts

LEMMA TypedReadSlot ==
    ASSUME Typed, NEW b \in Browsers, ReadSlot(b) PROVE Typed'
<1>1. at' \in [Browsers -> Nat]
  BY SlotsAre DEF ReadSlot, Typed
<1>2. pc' \in [Browsers -> Places]
  BY PlacesAre DEF ReadSlot, Typed, Goto, Proceed
<1>. QED
  BY <1>1, <1>2 DEF ReadSlot, Typed, shared, private, ghosts

LEMMA TypedCopyHeader ==
    ASSUME Typed, NEW b \in Browsers, CopyHeader(b), at[b] =< Len(heap) PROVE Typed'
<1>1. out' \in [Browsers -> [Kinds -> HeaderOf]]
  <2>1. PICK h \in HeaderOf : out' = [out EXCEPT ![b][kind[b]] = Fit(h, method[b])]
    <3>1. CASE at[b] \in 1 .. Len(heap)
      <4>1. heap[at[b]] \in BufferOf
        BY <3>1 DEF Typed
      <4>. QED
        BY <3>1, <4>1, HeadersAre DEF CopyHeader, BufferOf
    <3>2. CASE at[b] = 0
      BY <3>2, HeadersAre DEF CopyHeader
    <3>3. at[b] \in Nat /\ Len(heap) \in Nat
      BY DEF Typed
    <3>. QED
      BY <3>1, <3>2, <3>3
  <2>. QED
    BY <2>1, HeadersAre DEF Typed
<1>2. pc' \in [Browsers -> Places]
  BY Proceeding DEF CopyHeader
<1>3. kind' \in [Browsers -> Kinds]
  BY Proceeding DEF CopyHeader
<1>. QED
  BY <1>1, <1>2, <1>3 DEF CopyHeader, Typed, shared, private, ghosts

LEMMA TypedFreeBasic ==
    ASSUME Typed, NEW b \in Browsers, FreeBasic(b) PROVE Typed'
<1>1. heap' \in Seq(BufferOf)
  BY Freed DEF FreeBasic, Typed
<1>2. lock' \in Browsers \cup {NoBrowser}
  BY DEF FreeBasic, Typed
<1>3. touched' \in [Browsers -> SUBSET Slots]
  BY SlotsAre, Touching DEF FreeBasic
<1>4. pc' \in [Browsers -> Places]
  BY PlacesAre DEF FreeBasic, Typed, Goto, Proceed
<1>. QED
  BY <1>1, <1>2, <1>3, <1>4 DEF FreeBasic, Typed, shared, private, ghosts

LEMMA TypedAllocBasic ==
    ASSUME Typed, NEW b \in Browsers, AllocBasic(b) PROVE Typed'
<1>1. pc' \in [Browsers -> Places]
  BY PlacesAre DEF AllocBasic, Typed, Goto, Proceed
<1>2. heap' \in Seq(BufferOf)
  <2>1. heap' = More(heap)
    BY DEF AllocBasic, More
  <2>2. heap \in Seq(BufferOf)
    BY DEF Typed
  <2>. QED
    BY <2>1, <2>2, Grown
<1>3. slot' \in [Slots -> Nat]
  <2>1. Len(heap) + 1 \in Nat /\ slot \in [Slots -> Nat]
    BY DEF Typed
  <2>. QED
    BY <2>1, SlotsAre DEF AllocBasic
<1>4. touched' \in [Browsers -> SUBSET Slots]
  BY SlotsAre, Touching DEF AllocBasic
<1>. QED
  BY <1>1, <1>2, <1>3, <1>4 DEF AllocBasic, Typed, shared, private, ghosts

LEMMA TypedFillBasic ==
    ASSUME Typed, NEW b \in Browsers, FillBasic(b) PROVE Typed'
<1>1. pc' \in [Browsers -> Places]
  BY PlacesAre DEF FillBasic, Typed, Goto, Proceed
<1>2. heap' \in Seq(BufferOf)
  <2>1. heap \in Seq(BufferOf)
    BY DEF Typed
  <2>2. heap' = WithText(heap, slot[BasicSlot(b)], BasicText(b)) /\ BasicText(b) \in HeaderOf
    BY FillBasicWrites, Zenon
  <2>. QED
    BY <2>1, <2>2, Written
<1>3. lock' \in Browsers \cup {NoBrowser}
  BY DEF FillBasic, Typed
<1>4. touched' \in [Browsers -> SUBSET Slots]
  BY SlotsAre, Touching DEF FillBasic
<1>. QED
  BY <1>1, <1>2, <1>3, <1>4 DEF FillBasic, Typed, shared, private, ghosts

LEMMA TypedNtlmState ==
    ASSUME Typed, NEW b \in Browsers, NtlmState(b) PROVE Typed'
<1>1. pc' \in [Browsers -> Places]
  BY PlacesAre DEF NtlmState, Typed, Goto, Proceed
<1>2. ntlm' \in [state : {"N", "1", "2", "3"}, nonce : Nat]
  BY DEF NtlmState, Typed, SetState
<1>3. touched' \in [Browsers -> SUBSET Slots]
  BY SlotsAre, Touching DEF NtlmState, SetState
<1>. QED
  BY <1>1, <1>2, <1>3 DEF NtlmState, Typed, shared, private, ghosts

LEMMA TypedNtlmSwitch ==
    ASSUME Typed, NEW b \in Browsers, NtlmSwitch(b), ntlm.state # "N" PROVE Typed'
<1>1. pc' \in [Browsers -> Places]
  <2>1. ntlm.state \in {"1", "2", "3"}
    BY DEF Typed
  <2>. QED
    BY <2>1, PlacesAre DEF NtlmSwitch, Typed, Goto
<1>. QED
  BY <1>1 DEF NtlmSwitch, Typed, shared, private, ghosts

LEMMA TypedNtlmType1 ==
    ASSUME Typed, NEW b \in Browsers, NtlmType1(b) PROVE Typed'
<1>1. pc' \in [Browsers -> Places]
  BY PlacesAre DEF NtlmType1, Typed, Goto, Proceed
<1>2. heap' \in Seq(BufferOf)
  <2>1. heap' = More(heap)
    BY DEF NtlmType1, More, StoreNtlm
  <2>2. heap \in Seq(BufferOf)
    BY DEF Typed
  <2>. QED
    BY <2>1, <2>2, Grown
<1>3. slot' \in [Slots -> Nat]
  <2>1. Len(heap) + 1 \in Nat /\ slot \in [Slots -> Nat]
    BY DEF Typed
  <2>. QED
    BY <2>1, SlotsAre DEF NtlmType1, StoreNtlm
<1>4. hash' \in [Browsers -> Nat]
  BY DEF NtlmType1, Typed, StoreNtlm
<1>5. touched' \in [Browsers -> SUBSET Slots]
  BY SlotsAre, Touching DEF NtlmType1
<1>. QED
  BY <1>1, <1>2, <1>3, <1>4, <1>5 DEF NtlmType1, Typed, shared, private, ghosts

LEMMA TypedNtlmSent1 ==
    ASSUME Typed, NEW b \in Browsers, NtlmSent1(b) PROVE Typed'
<1>1. pc' \in [Browsers -> Places]
  BY PlacesAre DEF NtlmSent1, Typed, Goto, Proceed
<1>2. ntlm' \in [state : {"N", "1", "2", "3"}, nonce : Nat]
  BY DEF NtlmSent1, Typed, SetState
<1>3. touched' \in [Browsers -> SUBSET Slots]
  BY SlotsAre, Touching DEF NtlmSent1, SetState
<1>. QED
  BY <1>1, <1>2, <1>3 DEF NtlmSent1, Typed, shared, private, ghosts

LEMMA TypedNtlmHash ==
    ASSUME Typed, NEW b \in Browsers, NtlmHash(b) PROVE Typed'
<1>1. pc' \in [Browsers -> Places]
  BY PlacesAre DEF NtlmHash, Typed, Goto, Proceed
<1>2. hash' \in [Browsers -> Nat]
  BY DEF NtlmHash, Typed, StoreNtlm
<1>. QED
  BY <1>1, <1>2 DEF NtlmHash, Typed, shared, private, ghosts

LEMMA TypedNtlmSent3 ==
    ASSUME Typed, NEW b \in Browsers, NtlmSent3(b) PROVE Typed'
<1>1. pc' \in [Browsers -> Places]
  BY PlacesAre DEF NtlmSent3, Typed, Goto, Proceed
<1>2. ntlm' \in [state : {"N", "1", "2", "3"}, nonce : Nat]
  BY DEF NtlmSent3, Typed, SetState
<1>3. touched' \in [Browsers -> SUBSET Slots]
  BY SlotsAre, Touching DEF NtlmSent3, SetState
<1>. QED
  BY <1>1, <1>2, <1>3 DEF NtlmSent3, Typed, shared, private, ghosts

LEMMA TypedNtlmRealloc ==
    ASSUME Typed, NEW b \in Browsers, NtlmRealloc(b) PROVE Typed'
<1>1. pc' \in [Browsers -> Places]
  BY PlacesAre DEF NtlmRealloc, Typed, Goto, Proceed
<1>2. heap' \in Seq(BufferOf)
  BY Freed DEF NtlmRealloc, Typed
<1>3. touched' \in [Browsers -> SUBSET Slots]
  BY SlotsAre, Touching DEF NtlmRealloc
<1>. QED
  BY <1>1, <1>2, <1>3 DEF NtlmRealloc, Typed, shared, private, ghosts

LEMMA TypedNtlmMoved ==
    ASSUME Typed, NEW b \in Browsers, NtlmMoved(b) PROVE Typed'
<1>1. pc' \in [Browsers -> Places]
  BY PlacesAre DEF NtlmMoved, Typed, Goto, Proceed
<1>2. heap' \in Seq(BufferOf)
  <2>1. heap' = More(heap)
    BY DEF NtlmMoved, More, StoreNtlm
  <2>2. heap \in Seq(BufferOf)
    BY DEF Typed
  <2>. QED
    BY <2>1, <2>2, Grown
<1>3. slot' \in [Slots -> Nat]
  <2>1. Len(heap) + 1 \in Nat /\ slot \in [Slots -> Nat]
    BY DEF Typed
  <2>. QED
    BY <2>1, SlotsAre DEF NtlmMoved, StoreNtlm
<1>4. hash' \in [Browsers -> Nat]
  BY DEF NtlmMoved, Typed, StoreNtlm
<1>5. touched' \in [Browsers -> SUBSET Slots]
  BY SlotsAre, Touching DEF NtlmMoved
<1>. QED
  BY <1>1, <1>2, <1>3, <1>4, <1>5 DEF NtlmMoved, Typed, shared, private, ghosts

LEMMA TypedNtlmFill ==
    ASSUME Typed, NEW b \in Browsers, NtlmFill(b) PROVE Typed'
<1>1. pc' \in [Browsers -> Places]
  BY PlacesAre DEF NtlmFill, Typed, Goto, Proceed
<1>2. heap' \in Seq(BufferOf)
  <2>1. heap \in Seq(BufferOf)
    BY DEF Typed
  <2>2. heap' = WithText(heap, slot["ntlm"], NtlmText(b)) /\ NtlmText(b) \in HeaderOf
    BY NtlmFillWrites, Zenon
  <2>. QED
    BY <2>1, <2>2, Written
<1>3. touched' \in [Browsers -> SUBSET Slots]
  BY SlotsAre, Touching DEF NtlmFill
<1>. QED
  BY <1>1, <1>2, <1>3 DEF NtlmFill, Typed, shared, private, ghosts

LEMMA TypedNoLogin ==
    ASSUME Typed, NEW b \in Browsers, NEW c \in ChallengeOf, NoLogin(b, c) PROVE Typed'
<1>1. asked' \in [Browsers -> [Kinds -> BOOLEAN]]
  BY ChallengesAre DEF NoLogin, Noted, Typed
<1>2. kind' \in [Browsers -> Kinds]
  BY ChallengesAre DEF NoLogin, Noted, Typed
<1>3. pc' \in [Browsers -> Places]
  BY PlacesAre DEF NoLogin, Typed, Goto, Proceed
<1>4. type' \in [Browsers -> [Kinds -> Types]]
  BY ChallengesAre DEF NoLogin, Answering, Typed
<1>5. last' \in [Browsers -> [Kinds -> AnswerOf]]
  BY ChallengesAre DEF NoLogin, Forsaken, Typed
<1>. QED
  BY <1>1, <1>2, <1>3, <1>4, <1>5 DEF NoLogin, Typed, shared, private, ghosts, Noted, Answering, Forsaken

LEMMA TypedProxyNtlm ==
    ASSUME Typed, NEW b \in Browsers, NEW c \in ChallengeOf, ProxyNtlm(b, c) PROVE Typed'
<1>1. asked' \in [Browsers -> [Kinds -> BOOLEAN]]
  BY ChallengesAre DEF ProxyNtlm, Noted, Typed
<1>2. kind' \in [Browsers -> Kinds]
  BY ChallengesAre DEF ProxyNtlm, Noted, Typed
<1>3. pc' \in [Browsers -> Places]
  BY PlacesAre DEF ProxyNtlm, Typed, Goto, Proceed
<1>4. last' \in [Browsers -> [Kinds -> AnswerOf]]
  BY ChallengesAre DEF ProxyNtlm, Forsaken, Typed
<1>. QED
  BY <1>1, <1>2, <1>3, <1>4 DEF ProxyNtlm, Typed, shared, private, ghosts, Noted, Answering, Forsaken

LEMMA TypedBasicChallenge ==
    ASSUME Typed, NEW b \in Browsers, NEW c \in ChallengeOf, BasicChallenge(b, c) PROVE Typed'
<1>1. asked' \in [Browsers -> [Kinds -> BOOLEAN]]
  BY ChallengesAre DEF BasicChallenge, Noted, Typed
<1>2. kind' \in [Browsers -> Kinds]
  BY ChallengesAre DEF BasicChallenge, Noted, Typed
<1>3. pc' \in [Browsers -> Places]
  BY PlacesAre DEF BasicChallenge, Typed, Goto, Proceed
<1>4. type' \in [Browsers -> [Kinds -> Types]]
  BY ChallengesAre DEF BasicChallenge, Answering, Typed
<1>5. at' \in [Browsers -> Nat]
  BY LoginType DEF BasicChallenge, Typed, Answering
<1>6. last' \in [Browsers -> [Kinds -> AnswerOf]]
  <2>1. requests[b] \in Nat
    BY AuthAssumption DEF Typed
  <2>. QED
    BY <2>1, ChallengesAre DEF BasicChallenge, Answering, Typed
<1>. QED
  BY <1>1, <1>2, <1>3, <1>4, <1>5, <1>6 DEF BasicChallenge, Typed, shared, private, ghosts, Noted, Answering, Forsaken

LEMMA TypedDigestChallenge ==
    ASSUME Typed, NEW b \in Browsers, NEW c \in ChallengeOf, DigestChallenge(b, c) PROVE Typed'
<1>1. asked' \in [Browsers -> [Kinds -> BOOLEAN]]
  BY ChallengesAre DEF DigestChallenge, Noted, Typed
<1>2. kind' \in [Browsers -> Kinds]
  BY ChallengesAre DEF DigestChallenge, Noted, Typed
<1>3. pc' \in [Browsers -> Places]
  BY PlacesAre DEF DigestChallenge, Typed, Goto, Proceed
<1>4. type' \in [Browsers -> [Kinds -> Types]]
  BY ChallengesAre DEF DigestChallenge, Answering, Typed
<1>5. at' \in [Browsers -> Nat]
  BY LoginType DEF DigestChallenge, Typed, Answering
<1>6. last' \in [Browsers -> [Kinds -> AnswerOf]]
  <2>1. requests[b] \in Nat
    BY AuthAssumption DEF Typed
  <2>. QED
    BY <2>1, ChallengesAre DEF DigestChallenge, Answering, Typed
<1>7. own' \in [Browsers -> [Kinds -> OwnOf]]
  BY ChallengesAre, LoginType DEF DigestChallenge, Typed
<1>. QED
  BY <1>1, <1>2, <1>3, <1>4, <1>5, <1>6, <1>7 DEF DigestChallenge, Typed, shared, private, ghosts, Noted, Answering, Forsaken

LEMMA TypedNtlmChallenge ==
    ASSUME Typed, NEW b \in Browsers, NEW c \in ChallengeOf, NtlmChallenge(b, c) PROVE Typed'
<1>1. asked' \in [Browsers -> [Kinds -> BOOLEAN]]
  BY ChallengesAre DEF NtlmChallenge, Noted, Typed
<1>2. kind' \in [Browsers -> Kinds]
  BY ChallengesAre DEF NtlmChallenge, Noted, Typed
<1>3. pc' \in [Browsers -> Places]
  BY PlacesAre DEF NtlmChallenge, Typed, Goto, Proceed
<1>4. type' \in [Browsers -> [Kinds -> Types]]
  BY ChallengesAre DEF NtlmChallenge, Answering, Typed
<1>5. at' \in [Browsers -> Nat]
  BY LoginType DEF NtlmChallenge, Typed, Answering
<1>6. last' \in [Browsers -> [Kinds -> AnswerOf]]
  <2>1. requests[b] \in Nat
    BY AuthAssumption DEF Typed
  <2>. QED
    BY <2>1, ChallengesAre DEF NtlmChallenge, Answering, Typed
<1>7. ntlm' \in [state : {"N", "1", "2", "3"}, nonce : Nat]
  BY ChallengesAre DEF NtlmChallenge, Typed
<1>8. touched' \in [Browsers -> SUBSET Slots]
  BY SlotsAre, Touching DEF NtlmChallenge
<1>. QED
  BY <1>1, <1>2, <1>3, <1>4, <1>5, <1>6, <1>7, <1>8 DEF NtlmChallenge, Typed, shared, private, ghosts, Noted, Answering, Forsaken

LEMMA TypedNtlmOver ==
    ASSUME Typed, NEW b \in Browsers, NEW c \in ChallengeOf, NtlmOver(b, c) PROVE Typed'
<1>1. asked' \in [Browsers -> [Kinds -> BOOLEAN]]
  BY ChallengesAre DEF NtlmOver, Noted, Typed
<1>2. kind' \in [Browsers -> Kinds]
  BY ChallengesAre DEF NtlmOver, Noted, Typed
<1>3. pc' \in [Browsers -> Places]
  BY PlacesAre DEF NtlmOver, Typed, Goto, Proceed
<1>4. type' \in [Browsers -> [Kinds -> Types]]
  BY ChallengesAre DEF NtlmOver, Answering, Typed
<1>5. last' \in [Browsers -> [Kinds -> AnswerOf]]
  BY ChallengesAre DEF NtlmOver, Forsaken, Typed
<1>. QED
  BY <1>1, <1>2, <1>3, <1>4, <1>5 DEF NtlmOver, Typed, shared, private, ghosts, Noted, Answering, Forsaken

-----------------------------------------------------------------------------
(* A step is one browser's.                                                *)

Meets(b, c) == \/ NoLogin(b, c) \/ ProxyNtlm(b, c) \/ BasicChallenge(b, c) \/ DigestChallenge(b, c)
               \/ NtlmChallenge(b, c) \/ NtlmOver(b, c)
Quietly(b) == \/ LoadIndex(b) \/ StoreIndex(b) \/ TakeUrl(b) \/ Page(b) \/ Again(b) \/ NotAsked(b)
              \/ Accepted(b) \/ NoDigest(b) \/ ReadSlot(b) \/ CopyHeader(b)
              \/ NtlmState(b) \/ NtlmSwitch(b) \/ NtlmSent1(b) \/ NtlmHash(b) \/ NtlmSent3(b)
InMemory(b) == \/ AllocDigest(b) \/ PrintDigest(b) \/ FreeBasic(b) \/ AllocBasic(b) \/ FillBasic(b)
               \/ NtlmType1(b) \/ NtlmRealloc(b) \/ NtlmMoved(b) \/ NtlmFill(b)
Step(b) == Quietly(b) \/ InMemory(b) \/ \E c \in ChallengeOf : Meets(b, c)

Elsewhere(b) ==
  \A d \in Browsers \ {b} :
    /\ pc'[d] = pc[d] /\ kind'[d] = kind[d] /\ method'[d] = method[d] /\ asked'[d] = asked[d]
    /\ type'[d] = type[d] /\ own'[d] = own[d] /\ at'[d] = at[d] /\ hash'[d] = hash[d]
    /\ out'[d] = out[d] /\ requests'[d] = requests[d] /\ login'[d] = login[d] /\ last'[d] = last[d]

LEMMA Apart == ASSUME Typed, NEW b \in Browsers, Step(b) PROVE Elsewhere(b)
<1>1. CASE LoadIndex(b)
  BY <1>1 DEF LoadIndex, Typed, Elsewhere, shared, private, ghosts, Goto
<1>2. CASE StoreIndex(b)
  BY <1>2 DEF StoreIndex, Typed, Elsewhere, shared, private, ghosts, Goto
<1>3. CASE TakeUrl(b)
  BY <1>3 DEF TakeUrl, Typed, Elsewhere, shared, private, ghosts, Goto
<1>4. CASE Page(b)
  BY <1>4 DEF Page, Typed, Elsewhere, shared, private, ghosts, Goto, Begin
<1>5. CASE Again(b)
  BY <1>5 DEF Again, Typed, Elsewhere, shared, private, ghosts, Goto, Begin
<1>6. CASE NotAsked(b)
  BY <1>6 DEF NotAsked, Typed, Elsewhere, shared, private, ghosts, Goto, Proceed
<1>7. CASE Accepted(b)
  BY <1>7 DEF Accepted, Typed, Elsewhere, shared, private, ghosts, Goto
<1>8. CASE NoDigest(b)
  BY <1>8 DEF NoDigest, Typed, Elsewhere, shared, private, ghosts, Goto, Proceed
<1>9. CASE ReadSlot(b)
  BY <1>9 DEF ReadSlot, Typed, Elsewhere, shared, private, ghosts, Goto
<1>10. CASE CopyHeader(b)
  BY <1>10 DEF CopyHeader, Typed, Elsewhere, shared, private, ghosts, Goto, Proceed
<1>11. CASE NtlmState(b)
  BY <1>11 DEF NtlmState, Typed, Elsewhere, shared, private, ghosts, Goto
<1>12. CASE NtlmSwitch(b)
  BY <1>12 DEF NtlmSwitch, Typed, Elsewhere, shared, private, ghosts, Goto
<1>13. CASE NtlmSent1(b)
  BY <1>13 DEF NtlmSent1, Typed, Elsewhere, shared, private, ghosts, Goto
<1>14. CASE NtlmHash(b)
  BY <1>14 DEF NtlmHash, Typed, Elsewhere, shared, private, ghosts, Goto
<1>15. CASE NtlmSent3(b)
  BY <1>15 DEF NtlmSent3, Typed, Elsewhere, shared, private, ghosts, Goto
<1>16. CASE AllocDigest(b)
  BY <1>16 DEF AllocDigest, Typed, Elsewhere, shared, private, ghosts, Goto
<1>17. CASE PrintDigest(b)
  BY <1>17 DEF PrintDigest, Typed, Elsewhere, shared, private, ghosts, Goto
<1>18. CASE FreeBasic(b)
  BY <1>18 DEF FreeBasic, Typed, Elsewhere, shared, private, ghosts, Goto
<1>19. CASE AllocBasic(b)
  BY <1>19 DEF AllocBasic, Typed, Elsewhere, shared, private, ghosts, Goto
<1>20. CASE FillBasic(b)
  BY <1>20 DEF FillBasic, Typed, Elsewhere, shared, private, ghosts, Goto
<1>21. CASE NtlmType1(b)
  BY <1>21 DEF NtlmType1, Typed, Elsewhere, shared, private, ghosts, Goto, StoreNtlm
<1>22. CASE NtlmRealloc(b)
  BY <1>22 DEF NtlmRealloc, Typed, Elsewhere, shared, private, ghosts, Goto
<1>23. CASE NtlmMoved(b)
  BY <1>23 DEF NtlmMoved, Typed, Elsewhere, shared, private, ghosts, Goto, StoreNtlm
<1>24. CASE NtlmFill(b)
  BY <1>24 DEF NtlmFill, Typed, Elsewhere, shared, private, ghosts, Goto
<1>25. ASSUME NEW c \in ChallengeOf, Meets(b, c) PROVE Elsewhere(b)
  <2>1. CASE NoLogin(b, c)
    BY <2>1 DEF NoLogin, Typed, Elsewhere, shared, private, ghosts, Goto, Noted, Answering, Forsaken
  <2>2. CASE ProxyNtlm(b, c)
    BY <2>2 DEF ProxyNtlm, Typed, Elsewhere, shared, private, ghosts, Goto, Noted, Answering, Forsaken
  <2>3. CASE BasicChallenge(b, c)
    BY <2>3 DEF BasicChallenge, Typed, Elsewhere, shared, private, ghosts, Goto, Noted, Answering, Forsaken
  <2>4. CASE DigestChallenge(b, c)
    BY <2>4 DEF DigestChallenge, Typed, Elsewhere, shared, private, ghosts, Goto, Noted, Answering, Forsaken
  <2>5. CASE NtlmChallenge(b, c)
    BY <2>5 DEF NtlmChallenge, Typed, Elsewhere, shared, private, ghosts, Goto, Noted, Answering, Forsaken
  <2>6. CASE NtlmOver(b, c)
    BY <2>6 DEF NtlmOver, Typed, Elsewhere, shared, private, ghosts, Goto, Noted, Answering, Forsaken
  <2>. QED
    BY <1>25, <2>1, <2>2, <2>3, <2>4, <2>5, <2>6 DEF Meets
<1>. QED
  BY <1>1, <1>2, <1>3, <1>4, <1>5, <1>6, <1>7, <1>8, <1>9, <1>10, <1>11, <1>12, <1>13, <1>14, <1>15, <1>16, <1>17, <1>18, <1>19, <1>20, <1>21, <1>22, <1>23, <1>24, <1>25 DEF Step, Quietly, InMemory

-----------------------------------------------------------------------------
(* The lock of Basic.                                                      *)

LEMMA StepTyped ==
    ASSUME Typed, Pointers, Switched, NEW b \in Browsers, Step(b) PROVE Typed'
<1>1. pc[b] = "copy" => at[b] =< Len(heap)
  BY DEF Pointers
<1>2. pc[b] = "ntlm" => ntlm.state # "N"
  BY DEF Switched
<1>3. CASE Quietly(b)
  <2>1. CopyHeader(b) => at[b] =< Len(heap)
    BY <1>1 DEF CopyHeader
  <2>2. NtlmSwitch(b) => ntlm.state # "N"
    BY <1>2 DEF NtlmSwitch
  <2>. QED
    BY <1>3, <2>1, <2>2, TypedLoadIndex, TypedStoreIndex, TypedTakeUrl, TypedPage, TypedAgain, TypedNotAsked,
       TypedAccepted, TypedNoDigest, TypedReadSlot, TypedCopyHeader, TypedNtlmState, TypedNtlmSwitch,
       TypedNtlmSent1, TypedNtlmHash, TypedNtlmSent3, Zenon DEF Quietly
<1>4. CASE InMemory(b)
  BY <1>4, TypedAllocDigest, TypedPrintDigest, TypedFreeBasic, TypedAllocBasic, TypedFillBasic,
     TypedNtlmType1, TypedNtlmRealloc, TypedNtlmMoved, TypedNtlmFill, Zenon DEF InMemory
<1>5. ASSUME NEW c \in ChallengeOf, Meets(b, c) PROVE Typed'
  BY <1>5, TypedNoLogin, TypedProxyNtlm, TypedBasicChallenge, TypedDigestChallenge, TypedNtlmChallenge,
     TypedNtlmOver, Zenon DEF Meets
<1>. QED
  BY <1>3, <1>4, <1>5, Zenon DEF Step

\* A step that leaves buffers, fields and lock alone.
LEMMA Aloof ==
    ASSUME Typed, Pointers, Locked, NEW b \in Browsers, Elsewhere(b), UNCHANGED <<slot, heap, lock>>,
           pc[b] \notin {"alloc", "fill"}, pc'[b] \notin {"alloc", "fill"},
           pc'[b] = "copy" => at'[b] =< Len(heap)
    PROVE  Pointers' /\ Locked'
<1>1. Pointers'
  <2>1. \A d \in Browsers : pc'[d] = "copy" => at'[d] =< Len(heap)
    BY DEF Pointers, Elsewhere
  <2>. QED
    BY <2>1 DEF Pointers
<1>2. \A d \in Browsers : pc'[d] \in {"alloc", "fill"} => lock' = d
  BY DEF Locked, Elsewhere
<1>3. ASSUME NEW s \in {"basic", "proxy"}
      PROVE  Lives(s)' \/ \E d \in Browsers : pc'[d] = "alloc" /\ BasicSlot(d)' = s
  <2>1. CASE Lives(s)
    BY <2>1 DEF Lives
  <2>2. CASE \E d \in Browsers : pc[d] = "alloc" /\ BasicSlot(d) = s
    <3>1. PICK d \in Browsers : pc[d] = "alloc" /\ BasicSlot(d) = s
      BY <2>2
    <3>2. d # b
      BY <3>1
    <3>. QED
      BY <3>1, <3>2 DEF Elsewhere, BasicSlot
  <2>. QED
    BY <2>1, <2>2 DEF Locked
<1>. QED
  BY <1>1, <1>2, <1>3 DEF Locked

LEMMA QuietAloof ==
    ASSUME Typed, Pointers, Locked, Switched, NEW b \in Browsers, Quietly(b)
    PROVE  Pointers' /\ Locked'
<1>1. Elsewhere(b)
  BY Apart DEF Step
<1>. DEFINE Fine == /\ UNCHANGED <<slot, heap, lock>> /\ pc[b] \notin {"alloc", "fill"}
                    /\ pc'[b] \notin {"alloc", "fill"} /\ (pc'[b] = "copy" => at'[b] =< Len(heap))
<1>2. ASSUME LoadIndex(b) PROVE Fine
  BY <1>2 DEF LoadIndex, Typed, shared, Goto
<1>3. ASSUME StoreIndex(b) PROVE Fine
  BY <1>3 DEF StoreIndex, Typed, shared, Goto
<1>4. ASSUME TakeUrl(b) PROVE Fine
  BY <1>4 DEF TakeUrl, Typed, shared, Goto
<1>5. ASSUME Page(b) PROVE Fine
  BY <1>5 DEF Page, Typed, shared, Goto
<1>6. ASSUME Again(b) PROVE Fine
  BY <1>6 DEF Again, Typed, shared, Goto
<1>7. ASSUME NotAsked(b) PROVE Fine
  BY <1>7 DEF NotAsked, Typed, shared, Goto, Proceed
<1>8. ASSUME Accepted(b) PROVE Fine
  BY <1>8 DEF Accepted, Typed, shared, Goto
<1>9. ASSUME NoDigest(b) PROVE Fine
  BY <1>9 DEF NoDigest, Typed, shared, Goto, Proceed
<1>10. ASSUME ReadSlot(b) PROVE Fine
  BY <1>10, SlotsAre DEF ReadSlot, Typed, shared, Goto, Pointers
<1>11. ASSUME CopyHeader(b) PROVE Fine
  BY <1>11 DEF CopyHeader, Typed, shared, Goto, Proceed
<1>12. ASSUME NtlmState(b) PROVE Fine
  BY <1>12 DEF NtlmState, Typed, shared, Goto
<1>13. ASSUME NtlmSwitch(b) PROVE Fine
  <2>1. ntlm.state \in {"1", "2", "3"}
    BY <1>13 DEF NtlmSwitch, Switched, Typed
  <2>. QED
    BY <1>13, <2>1 DEF NtlmSwitch, Typed, shared, Goto
<1>14. ASSUME NtlmSent1(b) PROVE Fine
  BY <1>14 DEF NtlmSent1, Typed, shared, Goto
<1>15. ASSUME NtlmHash(b) PROVE Fine
  BY <1>15 DEF NtlmHash, Typed, shared, Goto
<1>16. ASSUME NtlmSent3(b) PROVE Fine
  BY <1>16 DEF NtlmSent3, Typed, shared, Goto
<1>17. Fine
  BY <1>2, <1>3, <1>4, <1>5, <1>6, <1>7, <1>8, <1>9, <1>10, <1>11, <1>12, <1>13, <1>14, <1>15, <1>16 DEF Quietly
<1>. QED
  BY <1>1, <1>17, Aloof, Zenon

LEMMA MeetsAloof ==
    ASSUME Typed, Pointers, Locked, NEW b \in Browsers, NEW c \in ChallengeOf, Meets(b, c)
    PROVE  Pointers' /\ Locked'
<1>1. Elsewhere(b)
  BY Apart DEF Step
<1>. DEFINE Fine == /\ UNCHANGED <<slot, heap, lock>> /\ pc[b] \notin {"alloc", "fill"}
                    /\ pc'[b] \notin {"alloc", "fill"} /\ (pc'[b] = "copy" => at'[b] =< Len(heap))
<1>2. ASSUME NoLogin(b, c) PROVE Fine
  BY <1>2 DEF NoLogin, Noted, Typed, shared, Goto
<1>3. ASSUME ProxyNtlm(b, c) PROVE Fine
  BY <1>3 DEF ProxyNtlm, Noted, Typed, shared, Goto
<1>4. ASSUME BasicChallenge(b, c) PROVE Fine
  BY <1>4 DEF BasicChallenge, Noted, Typed, shared, Goto
<1>5. ASSUME DigestChallenge(b, c) PROVE Fine
  BY <1>5 DEF DigestChallenge, Noted, Typed, shared, Goto
<1>6. ASSUME NtlmChallenge(b, c) PROVE Fine
  BY <1>6 DEF NtlmChallenge, Noted, Typed, shared, Goto
<1>7. ASSUME NtlmOver(b, c) PROVE Fine
  BY <1>7 DEF NtlmOver, Noted, Typed, shared, Goto
<1>8. Fine
  BY <1>2, <1>3, <1>4, <1>5, <1>6, <1>7 DEF Meets
<1>. QED
  BY <1>1, <1>8, Aloof, Zenon

\* A step that stores a new buffer in a field, outside the lock.
LEMMA Storing ==
    ASSUME Typed, Pointers, Locked, NEW b \in Browsers, Elsewhere(b), NEW s \in Slots,
           heap' = More(heap),
           slot' = [slot EXCEPT ![s] = Len(heap) + 1], lock' = lock,
           pc[b] \notin {"alloc", "fill"}, pc'[b] \notin {"alloc", "fill", "copy"}
    PROVE  Pointers' /\ Locked'
<1>1. /\ Len(heap') = Len(heap) + 1 /\ Len(heap) \in Nat /\ heap'[Len(heap) + 1].live
      /\ \A m \in 1 .. Len(heap) : heap'[m] = heap[m]
  <2>1. heap \in Seq(BufferOf)
    BY DEF Typed
  <2>. QED
    BY <2>1, Grown, Zenon
<1>2. /\ slot' \in [Slots -> Nat] /\ slot'[s] = Len(heap) + 1
      /\ \A t \in Slots \ {s} : slot'[t] = slot[t] /\ slot[t] =< Len(heap) /\ slot[t] \in Nat
  <2>1. slot \in [Slots -> Nat] /\ \A t \in Slots : slot[t] =< Len(heap)
    BY DEF Typed, Pointers
  <2>. QED
    BY <1>1, <2>1
<1>3. Pointers'
  <2>1. \A t \in Slots : slot'[t] =< Len(heap')
    BY <1>1, <1>2
  <2>2. \A t, u \in Slots : t # u => slot'[t] = 0 \/ slot'[t] # slot'[u]
    BY <1>1, <1>2 DEF Pointers
  <2>3. \A d \in Browsers : pc'[d] = "copy" => at'[d] =< Len(heap')
    <3>. SUFFICES ASSUME NEW d \in Browsers, pc'[d] = "copy" PROVE at'[d] =< Len(heap')
      OBVIOUS
    <3>1. at'[d] = at[d] /\ at[d] =< Len(heap)
      BY DEF Pointers, Elsewhere
    <3>2. at[d] \in Nat
      BY DEF Typed
    <3>. QED
      BY <1>1, <3>1, <3>2
  <2>. QED
    BY <2>1, <2>2, <2>3 DEF Pointers
<1>4. \A d \in Browsers : pc'[d] \in {"alloc", "fill"} => lock' = d
  BY DEF Locked, Elsewhere
<1>5. ASSUME NEW t \in {"basic", "proxy"}
      PROVE  Lives(t)' \/ \E d \in Browsers : pc'[d] = "alloc" /\ BasicSlot(d)' = t
  <2>1. CASE t = s
    BY <1>1, <1>2, <2>1 DEF Lives
  <2>2. CASE t # s /\ Lives(t)
    BY <1>1, <1>2, <2>2 DEF Lives, Slots
  <2>3. CASE \E d \in Browsers : pc[d] = "alloc" /\ BasicSlot(d) = t
    BY <2>3 DEF Elsewhere, BasicSlot
  <2>. QED
    BY <2>1, <2>2, <2>3 DEF Locked
<1>. QED
  BY <1>3, <1>4, <1>5 DEF Locked

\* A step that fills in a buffer, outside the lock.
LEMMA Filling ==
    ASSUME Typed, Pointers, Locked, NEW b \in Browsers, Elsewhere(b), NEW n, NEW h \in HeaderOf,
           heap' = WithText(heap, n, h), slot' = slot, lock' = lock,
           pc[b] \notin {"alloc", "fill"}, pc'[b] \notin {"alloc", "fill", "copy"}
    PROVE  Pointers' /\ Locked'
<1>1. /\ Len(heap') = Len(heap) /\ Len(heap) \in Nat
      /\ \A m \in 1 .. Len(heap) : heap'[m].live <=> heap[m].live
  BY Written DEF Typed
<1>2. \A s \in Slots : slot[s] = 0 \/ slot[s] \in 1 .. Len(heap)
  BY DEF Typed, Pointers
<1>3. Pointers'
  BY <1>1 DEF Pointers, Elsewhere
<1>4. \A d \in Browsers : pc'[d] \in {"alloc", "fill"} => lock' = d
  BY DEF Locked, Elsewhere
<1>5. ASSUME NEW t \in {"basic", "proxy"}
      PROVE  Lives(t)' \/ \E d \in Browsers : pc'[d] = "alloc" /\ BasicSlot(d)' = t
  <2>1. CASE Lives(t)
    BY <1>1, <1>2, <2>1 DEF Lives, Slots
  <2>2. CASE \E d \in Browsers : pc[d] = "alloc" /\ BasicSlot(d) = t
    BY <2>2 DEF Elsewhere, BasicSlot
  <2>. QED
    BY <2>1, <2>2 DEF Locked
<1>. QED
  BY <1>3, <1>4, <1>5 DEF Locked

\* The old message of NTLM is given back: no field of Basic points to it.
LEMMA ReallocLocks ==
    ASSUME Typed, Pointers, Locked, NEW b \in Browsers, NtlmRealloc(b) PROVE Pointers' /\ Locked'
<1>1. Elsewhere(b)
  BY Apart DEF Step, InMemory
<1>2. /\ Len(heap') = Len(heap) /\ Len(heap) \in Nat
      /\ \A m \in 1 .. Len(heap) : m # slot["ntlm"] => heap'[m] = heap[m]
  BY Freed DEF NtlmRealloc, Typed
<1>3. \A s \in Slots : slot[s] = 0 \/ slot[s] \in 1 .. Len(heap)
  BY DEF Typed, Pointers
<1>4. slot' = slot /\ lock' = lock /\ pc[b] = "realloc" /\ pc'[b] = "moved"
  BY DEF NtlmRealloc, Goto, Typed
<1>5. Pointers'
  BY <1>1, <1>2, <1>4 DEF Pointers, Elsewhere
<1>6. \A d \in Browsers : pc'[d] \in {"alloc", "fill"} => lock' = d
  BY <1>1, <1>4 DEF Locked, Elsewhere
<1>7. ASSUME NEW t \in {"basic", "proxy"}
      PROVE  Lives(t)' \/ \E d \in Browsers : pc'[d] = "alloc" /\ BasicSlot(d)' = t
  <2>1. CASE Lives(t)
    <3>1. slot[t] = 0 \/ slot[t] # slot["ntlm"]
      BY DEF Pointers, Slots
    <3>. QED
      BY <1>2, <1>3, <1>4, <2>1, <3>1 DEF Lives, Slots
  <2>2. CASE \E d \in Browsers : pc[d] = "alloc" /\ BasicSlot(d) = t
    BY <1>1, <1>4, <2>2 DEF Elsewhere, BasicSlot
  <2>. QED
    BY <2>1, <2>2 DEF Locked
<1>. QED
  BY <1>5, <1>6, <1>7 DEF Locked

\* The lock is free, so no one is between release and text: only the field of this browser is
\* left pointing to memory that is gone.
LEMMA FreeLocks ==
    ASSUME Typed, Pointers, Locked, NEW b \in Browsers, FreeBasic(b) PROVE Pointers' /\ Locked'
<1>1. Elsewhere(b)
  BY Apart DEF Step, InMemory
<1>2. /\ Len(heap') = Len(heap) /\ Len(heap) \in Nat
      /\ \A m \in 1 .. Len(heap) : m # slot[BasicSlot(b)] => heap'[m] = heap[m]
  BY Freed DEF FreeBasic, Typed
<1>3. \A s \in Slots : slot[s] = 0 \/ slot[s] \in 1 .. Len(heap)
  BY DEF Typed, Pointers
<1>4. slot' = slot /\ lock' = b /\ pc[b] = "basic" /\ pc'[b] = "alloc" /\ kind' = kind
  BY DEF FreeBasic, Goto, Typed
<1>5. Pointers'
  BY <1>1, <1>2, <1>4 DEF Pointers, Elsewhere
<1>6. \A d \in Browsers : pc[d] \notin {"alloc", "fill"}
  BY AuthAssumption DEF FreeBasic, Locked
<1>7. \A d \in Browsers : pc'[d] \in {"alloc", "fill"} => lock' = d
  BY <1>1, <1>4, <1>6 DEF Elsewhere
<1>8. ASSUME NEW t \in {"basic", "proxy"}
      PROVE  Lives(t)' \/ \E d \in Browsers : pc'[d] = "alloc" /\ BasicSlot(d)' = t
  <2>1. CASE t = BasicSlot(b)
    BY <1>4, <2>1 DEF BasicSlot
  <2>2. CASE t # BasicSlot(b)
    <3>1. Lives(t)
      BY <1>6 DEF Locked
    <3>2. slot[t] = 0 \/ slot[t] # slot[BasicSlot(b)]
      BY <2>2, SlotsAre DEF Pointers, Slots
    <3>. QED
      BY <1>2, <1>3, <1>4, <3>1, <3>2 DEF Lives, Slots
  <2>. QED
    BY <2>1, <2>2
<1>. QED
  BY <1>5, <1>7, <1>8 DEF Locked

\* The holder of the lock stores the new buffer: no field is left to gone memory.
LEMMA AllocLocks ==
    ASSUME Typed, Pointers, Locked, NEW b \in Browsers, AllocBasic(b) PROVE Pointers' /\ Locked'
<1>. DEFINE s == BasicSlot(b)
<1>1. Elsewhere(b) /\ s \in Slots
  BY Apart, SlotsAre DEF Step, InMemory
<1>2. /\ Len(heap') = Len(heap) + 1 /\ Len(heap) \in Nat /\ heap'[Len(heap) + 1].live
      /\ \A m \in 1 .. Len(heap) : heap'[m] = heap[m]
  <2>1. heap' = More(heap) /\ heap \in Seq(BufferOf)
    BY DEF AllocBasic, Typed, More
  <2>. QED
    BY <2>1, Grown, Zenon
<1>3. /\ slot' \in [Slots -> Nat] /\ slot'[s] = Len(heap) + 1
      /\ \A t \in Slots \ {s} : slot'[t] = slot[t] /\ slot[t] =< Len(heap) /\ slot[t] \in Nat
  BY <1>1, <1>2 DEF AllocBasic, Typed, Pointers
<1>4. lock' = lock /\ pc[b] = "alloc" /\ pc'[b] = "fill" /\ lock = b
  BY DEF AllocBasic, Goto, Typed, Locked
<1>5. Pointers'
  <2>1. \A t \in Slots : slot'[t] =< Len(heap')
    BY <1>2, <1>3
  <2>2. \A t, u \in Slots : t # u => slot'[t] = 0 \/ slot'[t] # slot'[u]
    BY <1>2, <1>3 DEF Pointers
  <2>3. ASSUME NEW d \in Browsers, pc'[d] = "copy" PROVE at'[d] =< Len(heap')
    <3>1. at'[d] = at[d] /\ at[d] =< Len(heap)
      BY <1>1, <1>4, <2>3 DEF Pointers, Elsewhere
    <3>2. at[d] \in Nat
      BY DEF Typed
    <3>. QED
      BY <1>2, <3>1, <3>2
  <2>. QED
    BY <2>1, <2>2, <2>3 DEF Pointers
<1>6. \A d \in Browsers : pc'[d] \in {"alloc", "fill"} => lock' = d
  BY <1>1, <1>4 DEF Locked, Elsewhere
<1>7. ASSUME NEW t \in {"basic", "proxy"} PROVE Lives(t)'
  <2>1. CASE t = s
    BY <1>2, <1>3, <2>1 DEF Lives
  <2>2. CASE t # s
    <3>1. Lives(t)
      BY <1>4, <2>2 DEF Locked
    <3>. QED
      BY <1>2, <1>3, <2>2, <3>1 DEF Lives, Slots
  <2>. QED
    BY <2>1, <2>2
<1>. QED
  BY <1>5, <1>6, <1>7 DEF Locked

\* The lock is given back when the new text is there.
LEMMA FillLocks ==
    ASSUME Typed, Pointers, Locked, NEW b \in Browsers, FillBasic(b) PROVE Pointers' /\ Locked'
<1>1. Elsewhere(b)
  BY Apart DEF Step, InMemory
<1>2. heap' = WithText(heap, slot[BasicSlot(b)], BasicText(b)) /\ BasicText(b) \in HeaderOf
  BY FillBasicWrites, Zenon
<1>3. /\ Len(heap') = Len(heap) /\ Len(heap) \in Nat
      /\ \A m \in 1 .. Len(heap) : heap'[m].live <=> heap[m].live
  BY <1>2, Written DEF Typed
<1>4. \A s \in Slots : slot[s] = 0 \/ slot[s] \in 1 .. Len(heap)
  BY DEF Typed, Pointers
<1>5. slot' = slot /\ pc[b] = "fill" /\ pc'[b] = "again" /\ lock = b
  BY DEF FillBasic, Goto, Typed, Locked
<1>6. Pointers'
  BY <1>1, <1>3, <1>5 DEF Pointers, Elsewhere
<1>7. \A d \in Browsers : pc'[d] \notin {"alloc", "fill"}
  BY <1>1, <1>5 DEF Locked, Elsewhere
<1>8. ASSUME NEW t \in {"basic", "proxy"} PROVE Lives(t)'
  <2>1. Lives(t)
    BY <1>5 DEF Locked
  <2>. QED
    BY <1>3, <1>4, <1>5, <2>1 DEF Lives, Slots
<1>. QED
  BY <1>6, <1>7, <1>8 DEF Locked

LEMMA MemoryLocks ==
    ASSUME Typed, Pointers, Locked, NEW b \in Browsers, InMemory(b) PROVE Pointers' /\ Locked'
<1>1. Elsewhere(b)
  BY Apart DEF Step
<1>2. CASE AllocDigest(b)
  <2>1. /\ heap' = More(heap) /\ slot' = [slot EXCEPT ![SlotOf(b)] = Len(heap) + 1] /\ lock' = lock
        /\ pc[b] \notin {"alloc", "fill"} /\ pc'[b] \notin {"alloc", "fill", "copy"} /\ SlotOf(b) \in Slots
    BY <1>2, SlotsAre DEF AllocDigest, More, Typed, Goto
  <2>. QED
    BY <1>1, <2>1, Storing, Zenon
<1>3. CASE NtlmType1(b) \/ NtlmMoved(b)
  <2>1. /\ heap' = More(heap) /\ slot' = [slot EXCEPT !["ntlm"] = Len(heap) + 1] /\ lock' = lock
        /\ pc[b] \notin {"alloc", "fill"} /\ pc'[b] \notin {"alloc", "fill", "copy"} /\ "ntlm" \in Slots
    BY <1>3, SlotsAre DEF NtlmType1, NtlmMoved, StoreNtlm, More, Typed, Goto
  <2>. QED
    BY <1>1, <2>1, Storing, Zenon
<1>4. CASE PrintDigest(b)
  <2>1. heap' = WithText(heap, slot[SlotOf(b)], DigestText(b)) /\ DigestText(b) \in HeaderOf
    BY <1>4, PrintDigestWrites, Zenon
  <2>2. /\ slot' = slot /\ lock' = lock
        /\ pc[b] \notin {"alloc", "fill"} /\ pc'[b] \notin {"alloc", "fill", "copy"}
    BY <1>4 DEF PrintDigest, Typed, Goto
  <2>. QED
    BY <1>1, <2>1, <2>2, Filling, Zenon
<1>5. CASE NtlmFill(b)
  <2>1. heap' = WithText(heap, slot["ntlm"], NtlmText(b)) /\ NtlmText(b) \in HeaderOf
    BY <1>5, NtlmFillWrites, Zenon
  <2>2. /\ slot' = slot /\ lock' = lock
        /\ pc[b] \notin {"alloc", "fill"} /\ pc'[b] \notin {"alloc", "fill", "copy"}
    BY <1>5 DEF NtlmFill, Typed, Goto
  <2>. QED
    BY <1>1, <2>1, <2>2, Filling, Zenon
<1>. QED
  BY <1>2, <1>3, <1>4, <1>5, ReallocLocks, FreeLocks, AllocLocks, FillLocks, Zenon DEF InMemory

-----------------------------------------------------------------------------
(* The state of NTLM.                                                      *)

LEMMA StateKept ==
    ASSUME Typed, Switched, NEW b \in Browsers, Step(b) PROVE Switched'
<1>. DEFINE Fine == /\ ntlm'.state = ntlm.state \/ ntlm'.state # "N"
                    /\ pc'[b] = "ntlm" => ntlm'.state # "N"
                    /\ type'[b]["proxy"] # "NTLM"
<1>1. ASSUME Quietly(b) PROVE Fine
  <2>1. ASSUME LoadIndex(b) PROVE Fine
    BY <2>1 DEF LoadIndex, Switched, Typed, shared, private, Goto
  <2>2. ASSUME StoreIndex(b) PROVE Fine
    BY <2>2 DEF StoreIndex, Switched, Typed, shared, private, Goto
  <2>3. ASSUME TakeUrl(b) PROVE Fine
    BY <2>3 DEF TakeUrl, Switched, Typed, shared, private, Goto
  <2>4. ASSUME Page(b) PROVE Fine
    BY <2>4 DEF Page, Switched, Typed, shared, private, Goto
  <2>5. ASSUME Again(b) PROVE Fine
    BY <2>5 DEF Again, Switched, Typed, shared, private, Goto
  <2>6. ASSUME NotAsked(b) PROVE Fine
    BY <2>6 DEF NotAsked, Switched, Typed, shared, private, Goto, Proceed
  <2>7. ASSUME Accepted(b) PROVE Fine
    BY <2>7 DEF Accepted, Switched, Typed, shared, private, Goto
  <2>8. ASSUME NoDigest(b) PROVE Fine
    BY <2>8 DEF NoDigest, Switched, Typed, shared, private, Goto, Proceed
  <2>9. ASSUME ReadSlot(b) PROVE Fine
    BY <2>9 DEF ReadSlot, Switched, Typed, shared, private, Goto
  <2>10. ASSUME CopyHeader(b) PROVE Fine
    BY <2>10 DEF CopyHeader, Switched, Typed, shared, private, Goto, Proceed
  <2>11. ASSUME NtlmState(b) PROVE Fine
    BY <2>11 DEF NtlmState, Switched, Typed, shared, private, Goto, SetState
  <2>12. ASSUME NtlmSwitch(b) PROVE Fine
    <3>1. ntlm.state \in {"1", "2", "3"}
      BY <2>12 DEF NtlmSwitch, Switched, Typed
    <3>. QED
      BY <2>12, <3>1 DEF NtlmSwitch, Switched, Typed, shared, private, Goto
  <2>13. ASSUME NtlmSent1(b) PROVE Fine
    BY <2>13 DEF NtlmSent1, Switched, Typed, shared, private, Goto, SetState
  <2>14. ASSUME NtlmHash(b) PROVE Fine
    BY <2>14 DEF NtlmHash, Switched, Typed, shared, private, Goto
  <2>15. ASSUME NtlmSent3(b) PROVE Fine
    BY <2>15 DEF NtlmSent3, Switched, Typed, shared, private, Goto, SetState
  <2>. QED
    BY <1>1, <2>1, <2>2, <2>3, <2>4, <2>5, <2>6, <2>7, <2>8, <2>9, <2>10, <2>11, <2>12, <2>13, <2>14, <2>15 DEF Quietly
<1>2. ASSUME InMemory(b) PROVE Fine
  <2>1. ASSUME AllocDigest(b) PROVE Fine
    BY <2>1 DEF AllocDigest, Switched, Typed, shared, private, Goto
  <2>2. ASSUME PrintDigest(b) PROVE Fine
    BY <2>2 DEF PrintDigest, Switched, Typed, shared, private, Goto
  <2>3. ASSUME FreeBasic(b) PROVE Fine
    BY <2>3 DEF FreeBasic, Switched, Typed, shared, private, Goto
  <2>4. ASSUME AllocBasic(b) PROVE Fine
    BY <2>4 DEF AllocBasic, Switched, Typed, shared, private, Goto
  <2>5. ASSUME FillBasic(b) PROVE Fine
    BY <2>5 DEF FillBasic, Switched, Typed, shared, private, Goto
  <2>6. ASSUME NtlmType1(b) PROVE Fine
    BY <2>6 DEF NtlmType1, Switched, Typed, shared, private, Goto
  <2>7. ASSUME NtlmRealloc(b) PROVE Fine
    BY <2>7 DEF NtlmRealloc, Switched, Typed, shared, private, Goto
  <2>8. ASSUME NtlmMoved(b) PROVE Fine
    BY <2>8 DEF NtlmMoved, Switched, Typed, shared, private, Goto
  <2>9. ASSUME NtlmFill(b) PROVE Fine
    BY <2>9 DEF NtlmFill, Switched, Typed, shared, private, Goto
  <2>. QED
    BY <1>2, <2>1, <2>2, <2>3, <2>4, <2>5, <2>6, <2>7, <2>8, <2>9 DEF InMemory
<1>3. ASSUME NEW c \in ChallengeOf, Meets(b, c) PROVE Fine
  <2>1. ASSUME NoLogin(b, c) PROVE Fine
    BY <2>1 DEF NoLogin, Switched, Typed, shared, private, Goto, Noted, Answering, Kinds
  <2>2. ASSUME ProxyNtlm(b, c) PROVE Fine
    BY <2>2 DEF ProxyNtlm, Switched, Typed, shared, private, Goto, Noted, Answering, Kinds
  <2>3. ASSUME BasicChallenge(b, c) PROVE Fine
    BY <2>3 DEF BasicChallenge, Switched, Typed, shared, private, Goto, Noted, Answering, Kinds
  <2>4. ASSUME DigestChallenge(b, c) PROVE Fine
    BY <2>4 DEF DigestChallenge, Switched, Typed, shared, private, Goto, Noted, Answering, Kinds
  <2>5. ASSUME NtlmChallenge(b, c) PROVE Fine
    BY <2>5 DEF NtlmChallenge, Switched, Typed, shared, private, Goto, Noted, Answering, Kinds
  <2>6. ASSUME NtlmOver(b, c) PROVE Fine
    BY <2>6 DEF NtlmOver, Switched, Typed, shared, private, Goto, Noted, Answering, Kinds
  <2>. QED
    BY <1>3, <2>1, <2>2, <2>3, <2>4, <2>5, <2>6 DEF Meets
<1>4. Fine
  BY <1>1, <1>2, <1>3 DEF Step
<1>5. Elsewhere(b)
  BY Apart
<1>. QED
  BY <1>4, <1>5 DEF Switched, Elsewhere

-----------------------------------------------------------------------------
(* The theorem about memory.                                               *)

LocksInv == Typed /\ Pointers /\ Locked /\ Switched

LEMMA InitTyped == ASSUME Init PROVE Typed
<1>1. NoHeader \in HeaderOf /\ NoAnswer \in AnswerOf /\ "start" \in Places /\ "ready" \in Places
  BY HeadersAre, ChallengesAre, PlacesAre
<1>2. [challenge |-> NoChallenge, login |-> 0, nc |-> 0] \in OwnOf
  BY DEF OwnOf
<1>3. /\ site \in Sites /\ slot \in [Slots -> Nat] /\ heap \in Seq(BufferOf)
      /\ lock \in Browsers \cup {NoBrowser} /\ ntlm \in [state : {"N", "1", "2", "3"}, nonce : Nat]
      /\ index \in Nat \cup {-1} /\ pc \in [Browsers -> Places]
  BY <1>1 DEF Init
<1>4. /\ kind \in [Browsers -> Kinds] /\ method \in [Browsers -> {"GET", "POST"}]
      /\ asked \in [Browsers -> [Kinds -> BOOLEAN]] /\ type \in [Browsers -> [Kinds -> Types]]
  BY DEF Init, Kinds, Types
<1>5. own \in [Browsers -> [Kinds -> OwnOf]] /\ out \in [Browsers -> [Kinds -> HeaderOf]]
  BY <1>1, <1>2 DEF Init
<1>6. last \in [Browsers -> [Kinds -> AnswerOf]]
  BY <1>1 DEF Init
<1>7. /\ at \in [Browsers -> Nat] /\ hash \in [Browsers -> Nat]
      /\ requests \in [Browsers -> 0 .. MaxRequests] /\ login \in [Browsers -> 0 .. Len(LoginUrls)]
      /\ touched \in [Browsers -> SUBSET Slots] /\ alone \in [Browsers -> BOOLEAN]
  BY AuthAssumption DEF Init
<1>. QED
  BY <1>3, <1>4, <1>5, <1>6, <1>7 DEF Typed

LEMMA InitLocks == ASSUME Init PROVE LocksInv
<1>1. Typed
  BY InitTyped
<1>2. Pointers /\ Locked
  BY DEF Init, Pointers, Locked, Lives, Slots
<1>3. Switched
  BY DEF Init, Switched, Kinds
<1>. QED
  BY <1>1, <1>2, <1>3 DEF LocksInv

\* A step of the specification is a step of one browser, or none.
LEMMA NextIsStep ==
    ASSUME Typed, Next PROVE \E b \in Browsers : Step(b)
<1>1. site.challenges \subseteq ChallengeOf
  BY AuthAssumption DEF Typed
<1>2. ASSUME NEW b \in Browsers, NEW c \in site.challenges, Meets(b, c) PROVE Step(b)
  BY <1>1, <1>2 DEF Step
<1>. QED
  BY <1>2, Zenon DEF Next, Step, Quietly, InMemory, Meets

LEMMA StepLocks ==
    ASSUME LocksInv, NEW b \in Browsers, Step(b) PROVE LocksInv'
<1>1. Typed'
  BY StepTyped DEF LocksInv
<1>2. Pointers' /\ Locked'
  BY QuietAloof, MemoryLocks, MeetsAloof, Zenon DEF LocksInv, Step
<1>3. Switched'
  BY StateKept DEF LocksInv
<1>. QED
  BY <1>1, <1>2, <1>3 DEF LocksInv

LEMMA IdleLocks == ASSUME LocksInv, UNCHANGED authVars PROVE LocksInv'
BY DEF LocksInv, Typed, Pointers, Locked, Lives, BasicSlot, Switched, authVars, shared, private, ghosts

(***************************************************************************)
(* __basic_header, for every number of browsers: the lock makes the text   *)
(* freed the text of the field, and one that nobody has freed before; and  *)
(* outside the lock both fields of Basic point to memory that is there.    *)
(***************************************************************************)
THEOREM BasicFreesOnce == Spec => []FreedOnce
<1>1. Init => LocksInv
  BY InitLocks
<1>2. LocksInv /\ [Next]_authVars => LocksInv'
  BY StepLocks, NextIsStep, IdleLocks DEF LocksInv
<1>3. LocksInv => FreedOnce
  BY AuthAssumption DEF LocksInv, Locked, Lives, FreedOnce
<1>. QED
  BY <1>1, <1>2, <1>3, PTL DEF Spec

-----------------------------------------------------------------------------
(* Login URLs.                                                             *)

LEMMA UrlsDiffer ==
    ASSUME NEW i \in Nat, NEW j \in Nat, i < j, j < Len(LoginUrls)
    PROVE  Url(i) # Url(j)
<1>. DEFINE L == Len(LoginUrls)
<1>1. L \in Nat /\ L > 0
  BY AuthAssumption
<1>. HIDE DEF L
<1>2. i % L = i /\ j % L = j
  BY <1>1 DEF L
<1>. QED
  BY <1>2 DEF Url, L

LEMMA PastIs ==
    ASSUME Typed
    PROVE  /\ IsFiniteSet(Past) /\ Cardinality(Past) \in Nat /\ Cardinality(Past) =< Cardinality(Browsers)
           /\ \A b \in Browsers : b \notin Past => Cardinality(Past \cup {b}) = Cardinality(Past) + 1
<1>1. Past \in SUBSET Browsers /\ IsFiniteSet(Browsers)
  BY AuthAssumption DEF Past
<1>. HIDE DEF Past
<1>2. IsFiniteSet(Past) /\ Cardinality(Past) =< Cardinality(Browsers)
  BY <1>1, FS_Subset, Zenon
<1>3. Cardinality(Past) \in Nat
  BY <1>2, FS_CardinalityType, Zenon
<1>4. ASSUME NEW b \in Browsers, b \notin Past PROVE Cardinality(Past \cup {b}) = Cardinality(Past) + 1
  BY <1>2, <1>4, FS_AddElement
<1>. QED
  BY <1>2, <1>3, <1>4

\* A step that has nothing to do with array_next.
LEMMA ElsewhereCounting ==
    ASSUME Typed, Counting, NEW b \in Browsers, Elsewhere(b), UNCHANGED <<index, login, alone>>,
           pc[b] \notin {"start", "count", "take"}, pc'[b] \notin {"start", "count", "take"}
    PROVE  Counting'
<1>1. Past' = Past
  BY DEF Past, Elsewhere
<1>2. \A d \in Browsers : InNext(d)' <=> InNext(d)
  BY DEF InNext, Elsewhere
<1>3. \A d \in Browsers : InNext(d) => at'[d] = at[d]
  BY DEF InNext, Elsewhere
<1>4. \A d \in Browsers : \A n : Took(d, n)' <=> Took(d, n)
  BY DEF Took
<1>5. \A d \in Browsers : /\ pc'[d] = "count" => pc[d] = "count" /\ at'[d] = at[d]
                          /\ pc'[d] = "take" => pc[d] = "take" /\ at'[d] = at[d]
                          /\ pc'[d] = "start" => pc[d] = "start"
  BY DEF Elsewhere
<1>. QED
  BY <1>1, <1>2, <1>3, <1>4, <1>5 DEF Counting

LEMMA LoadCounting ==
    ASSUME Typed, Counting, NEW b \in Browsers, LoadIndex(b) PROVE Counting'
<1>1. Elsewhere(b)
  BY Apart DEF Step, Quietly
<1>2. /\ pc[b] = "start" /\ pc'[b] = "count" /\ at'[b] = index + 1 /\ index' = index /\ login' = login
      /\ index \in Nat \cup {-1}
  BY DEF LoadIndex, Goto, Typed, shared, private
<1>3. Past' = Past
  BY <1>1, <1>2 DEF Past, Elsewhere
<1>4. \A d \in Browsers \ {b} : pc'[d] = pc[d] /\ at'[d] = at[d] /\ (InNext(d)' <=> InNext(d))
  BY <1>1 DEF Elsewhere, InNext
<1>5. \A d \in Browsers : alone'[d] => alone[d] /\ ~InNext(d)
  BY DEF LoadIndex, Typed
<1>6. alone'[b] => \A d \in Browsers : ~InNext(d)
  BY DEF LoadIndex, Typed
<1>7. \A d \in Browsers : \A n : Took(d, n)' <=> Took(d, n)
  BY <1>2 DEF Took
<1>8. index' + 1 =< Cardinality(Past')
  BY <1>2, <1>3 DEF Counting
<1>9. ASSUME NEW d \in Browsers
      PROVE  /\ pc'[d] \in {"start", "count", "take"} => login'[d] = 0
             /\ pc'[d] = "count" => at'[d] =< Cardinality(Past')
  BY <1>2, <1>3, <1>4 DEF Counting
<1>10. ASSUME NEW d \in Browsers, alone'[d]
       PROVE  /\ pc'[d] = "count" => index' + 1 = at'[d]
              /\ pc'[d] = "take" => index' = at'[d]
              /\ InNext(d)' => \A e \in Browsers \ {d} : ~InNext(e)'
  <2>1. CASE d = b
    BY <1>2, <1>4, <1>6, <1>10, <2>1
  <2>2. CASE d # b
    <3>1. pc'[d] = pc[d] /\ ~InNext(d) /\ ~InNext(d)'
      BY <1>4, <1>5, <1>10, <2>2
    <3>. QED
      BY <3>1 DEF InNext
  <2>. QED
    BY <2>1, <2>2
<1>11. ASSUME NEW d \in Browsers, alone'[d], login'[d] > 0
       PROVE  Took(d, index)' /\ \A e \in Browsers : InNext(e)' => Took(d, at[e] - 1)'
  <2>1. Took(d, index) /\ \A e \in Browsers : InNext(e) => Took(d, at[e] - 1)
    BY <1>2, <1>5, <1>11 DEF Counting
  <2>2. \A e \in Browsers : InNext(e)' => Took(d, at'[e] - 1)
    BY <1>2, <1>4, <2>1
  <2>. QED
    BY <1>2, <2>1, <2>2 DEF Took
<1>12. \A d, e \in Browsers :
         d # e /\ login'[d] > 0 /\ login'[e] > 0 /\ alone'[d] /\ alone'[e] => login'[d] # login'[e]
  BY <1>2, <1>5 DEF Counting
<1>. QED
  BY <1>8, <1>9, <1>10, <1>11, <1>12 DEF Counting

LEMMA StoreCounting ==
    ASSUME Typed, Counting, NEW b \in Browsers, StoreIndex(b) PROVE Counting'
<1>1. Elsewhere(b)
  BY Apart DEF Step, Quietly
<1>2. /\ pc[b] = "count" /\ pc'[b] = "take" /\ at' = at /\ index' = at[b] /\ login' = login
      /\ alone' = alone /\ at[b] \in Nat /\ \A d \in Browsers : at[d] \in Nat
  BY DEF StoreIndex, Goto, Typed, private, ghosts
<1>3. Past' = Past \cup {b} /\ b \notin Past
  BY <1>1, <1>2 DEF Past, Elsewhere
<1>4. Cardinality(Past') = Cardinality(Past) + 1 /\ Cardinality(Past) \in Nat
  BY <1>3, PastIs
<1>5. \A d \in Browsers : InNext(d)' <=> InNext(d)
  BY <1>1, <1>2 DEF Elsewhere, InNext
<1>6. \A d \in Browsers \ {b} : pc'[d] = pc[d]
  BY <1>1 DEF Elsewhere
<1>7. index' + 1 =< Cardinality(Past')
  BY <1>2, <1>4 DEF Counting
<1>8. ASSUME NEW d \in Browsers
      PROVE  /\ pc'[d] \in {"start", "count", "take"} => login'[d] = 0
             /\ pc'[d] = "count" => at'[d] =< Cardinality(Past')
  <2>1. pc'[d] \in {"start", "count", "take"} => pc[d] \in {"start", "count", "take"}
    BY <1>2, <1>6
  <2>2. pc'[d] = "count" => at[d] =< Cardinality(Past)
    BY <1>2, <1>6 DEF Counting
  <2>. QED
    BY <1>2, <1>4, <2>1, <2>2 DEF Counting
<1>9. ASSUME NEW d \in Browsers, alone'[d]
      PROVE  /\ pc'[d] = "count" => index' + 1 = at'[d]
             /\ pc'[d] = "take" => index' = at'[d]
             /\ InNext(d)' => \A e \in Browsers \ {d} : ~InNext(e)'
  <2>1. CASE d = b
    BY <1>2, <1>5, <1>9, <2>1 DEF Counting
  <2>2. CASE d # b
    <3>1. ~InNext(d)
      BY <1>2, <1>9, <2>2 DEF Counting, InNext
    <3>. QED
      BY <1>5, <1>6, <2>2, <3>1 DEF InNext
  <2>. QED
    BY <2>1, <2>2
<1>10. ASSUME NEW d \in Browsers, alone'[d], login'[d] > 0
       PROVE  Took(d, index)' /\ \A e \in Browsers : InNext(e)' => Took(d, at[e] - 1)'
  <2>1. \A e \in Browsers : InNext(e) => Took(d, at[e] - 1)
    BY <1>2, <1>10 DEF Counting
  <2>2. PICK i \in 0 .. at[b] - 1 : login[d] = Url(i)
    BY <1>2, <2>1 DEF Took, InNext
  <2>3. i \in 0 .. index'
    BY <1>2
  <2>4. Took(d, index)'
    BY <1>2, <2>2, <2>3 DEF Took
  <2>. QED
    BY <1>2, <1>5, <2>1, <2>4 DEF Took
<1>11. \A d, e \in Browsers :
         d # e /\ login'[d] > 0 /\ login'[e] > 0 /\ alone'[d] /\ alone'[e] => login'[d] # login'[e]
  BY <1>2 DEF Counting
<1>. QED
  BY <1>7, <1>8, <1>9, <1>10, <1>11 DEF Counting

LEMMA TakeCounting ==
    ASSUME Typed, Counting, Enough, NEW b \in Browsers, TakeUrl(b) PROVE Counting'
<1>1. Elsewhere(b)
  BY Apart DEF Step, Quietly
<1>2. /\ pc[b] = "take" /\ pc'[b] = "ready" /\ at' = at /\ index' = index /\ alone' = alone
      /\ index \in Nat \cup {-1} /\ \A d \in Browsers : at[d] \in Nat
  BY DEF TakeUrl, Goto, Typed, shared, private, ghosts
<1>3. Past' = Past
  BY <1>1, <1>2 DEF Past, Elsewhere
<1>4. \A d \in Browsers \ {b} : pc'[d] = pc[d] /\ login'[d] = login[d] /\ (InNext(d)' <=> InNext(d))
  BY <1>1 DEF Elsewhere, InNext
<1>5. InNext(b) /\ ~InNext(b)'
  BY <1>2 DEF InNext
<1>6. index' + 1 =< Cardinality(Past')
  BY <1>2, <1>3 DEF Counting
<1>7. ASSUME NEW d \in Browsers
      PROVE  /\ pc'[d] \in {"start", "count", "take"} => login'[d] = 0
             /\ pc'[d] = "count" => at'[d] =< Cardinality(Past')
  BY <1>2, <1>3, <1>4 DEF Counting
<1>8. ASSUME NEW d \in Browsers, alone'[d]
      PROVE  /\ pc'[d] = "count" => index' + 1 = at'[d]
             /\ pc'[d] = "take" => index' = at'[d]
             /\ InNext(d)' => \A e \in Browsers \ {d} : ~InNext(e)'
  <2>1. CASE d = b
    BY <1>2, <1>5, <2>1
  <2>2. CASE d # b
    <3>1. ~InNext(d)
      BY <1>2, <1>5, <1>8, <2>2 DEF Counting
    <3>. QED
      BY <1>4, <2>2, <3>1 DEF InNext
  <2>. QED
    BY <2>1, <2>2
\* An alone browser takes the URL its own count came to.
<1>9. alone[b] => /\ login'[b] = Url(index) /\ index >= 0 /\ index = at[b]
                  /\ \A d \in Browsers \ {b} : ~InNext(d)
  <2>. SUFFICES ASSUME alone[b] PROVE /\ login'[b] = Url(index) /\ index >= 0 /\ index = at[b]
                                      /\ \A d \in Browsers \ {b} : ~InNext(d)
    OBVIOUS
  <2>1. index = at[b] /\ \A d \in Browsers \ {b} : ~InNext(d)
    BY <1>2, <1>5 DEF Counting
  <2>2. PICK i \in {index, at[b]} : login' = [login EXCEPT ![b] = Url(i)]
    BY Zenon DEF TakeUrl, Url
  <2>3. login'[b] = Url(index)
    BY <2>1, <2>2 DEF Typed
  <2>. QED
    BY <1>2, <2>1, <2>3
<1>10. ASSUME NEW d \in Browsers, alone'[d], login'[d] > 0
       PROVE  Took(d, index)' /\ \A e \in Browsers : InNext(e)' => Took(d, at[e] - 1)'
  <2>1. CASE d = b
    <3>1. index \in 0 .. index /\ login'[d] = Url(index)
      BY <1>2, <1>9, <1>10, <2>1
    <3>2. Took(d, index)'
      BY <1>2, <3>1 DEF Took
    <3>3. \A e \in Browsers : ~InNext(e)'
      BY <1>2, <1>4, <1>5, <1>9, <1>10, <2>1
    <3>. QED
      BY <3>2, <3>3
  <2>2. CASE d # b
    <3>1. login'[d] = login[d]
      BY <1>4, <2>2
    <3>2. Took(d, index) /\ \A e \in Browsers : InNext(e) => Took(d, at[e] - 1)
      BY <1>2, <1>10, <3>1 DEF Counting
    <3>. QED
      BY <1>2, <1>4, <1>5, <3>1, <3>2 DEF Took
  <2>. QED
    BY <2>1, <2>2
\* What another one took is among the URLs before it.
<1>11. ASSUME NEW d \in Browsers \ {b}, login[d] > 0, alone[d], alone[b]
       PROVE  login[d] # login'[b]
  <2>1. PICK i \in 0 .. at[b] - 1 : login[d] = Url(i)
    BY <1>5, <1>11 DEF Counting, Took
  <2>2. index < Len(LoginUrls)
    <3>1. Cardinality(Past) \in Nat /\ Cardinality(Past) =< Cardinality(Browsers) /\ index + 1 =< Cardinality(Past)
      BY PastIs DEF Counting
    <3>2. Cardinality(Browsers) \in Nat /\ Len(LoginUrls) \in Nat
      BY AuthAssumption, FS_CardinalityType
    <3>. QED
      BY <1>2, <3>1, <3>2 DEF Enough
  <2>3. i \in Nat /\ index \in Nat /\ i < index
    BY <1>2, <1>9, <1>11
  <2>4. Url(i) # Url(index)
    BY <2>2, <2>3, UrlsDiffer
  <2>. QED
    BY <1>9, <1>11, <2>1, <2>4
<1>12. ASSUME NEW d \in Browsers, NEW e \in Browsers,
              d # e, login'[d] > 0, login'[e] > 0, alone'[d], alone'[e]
       PROVE  login'[d] # login'[e]
  <2>1. CASE d = b
    BY <1>2, <1>4, <1>11, <1>12, <2>1
  <2>2. CASE e = b
    BY <1>2, <1>4, <1>11, <1>12, <2>2
  <2>3. CASE d # b /\ e # b
    BY <1>2, <1>4, <1>12, <2>3 DEF Counting
  <2>. QED
    BY <2>1, <2>2, <2>3
<1>. QED
  BY <1>6, <1>7, <1>8, <1>10, <1>12 DEF Counting

\* A step outside array_next stays outside.
LEMMA StepCounting ==
    ASSUME Typed, Switched, Counting, Enough, NEW b \in Browsers, Step(b) PROVE Counting'
<1>. DEFINE Fine == /\ UNCHANGED <<index, login, alone>>
                    /\ pc[b] \notin {"start", "count", "take"} /\ pc'[b] \notin {"start", "count", "take"}
<1>1. CASE LoadIndex(b) \/ StoreIndex(b) \/ TakeUrl(b)
  BY <1>1, LoadCounting, StoreCounting, TakeCounting
<1>2. ASSUME Quietly(b), ~(LoadIndex(b) \/ StoreIndex(b) \/ TakeUrl(b)) PROVE Fine
  <2>1. ASSUME Page(b) PROVE Fine
    BY <2>1 DEF Page, Typed, shared, private, ghosts, Goto
  <2>2. ASSUME Again(b) PROVE Fine
    BY <2>2 DEF Again, Typed, shared, private, ghosts, Goto
  <2>3. ASSUME NotAsked(b) PROVE Fine
    BY <2>3 DEF NotAsked, Typed, shared, private, ghosts, Goto, Proceed
  <2>4. ASSUME Accepted(b) PROVE Fine
    BY <2>4 DEF Accepted, Typed, shared, private, ghosts, Goto
  <2>5. ASSUME NoDigest(b) PROVE Fine
    BY <2>5 DEF NoDigest, Typed, shared, private, ghosts, Goto, Proceed
  <2>6. ASSUME ReadSlot(b) PROVE Fine
    BY <2>6 DEF ReadSlot, Typed, shared, private, ghosts, Goto
  <2>7. ASSUME CopyHeader(b) PROVE Fine
    BY <2>7 DEF CopyHeader, Typed, shared, private, ghosts, Goto, Proceed
  <2>8. ASSUME NtlmState(b) PROVE Fine
    BY <2>8 DEF NtlmState, Typed, shared, private, ghosts, Goto, SetState
  <2>9. ASSUME NtlmSwitch(b) PROVE Fine
    <3>1. ntlm.state \in {"1", "2", "3"}
      BY <2>9 DEF NtlmSwitch, Switched, Typed
    <3>. QED
      BY <2>9, <3>1 DEF NtlmSwitch, Typed, shared, private, ghosts, Goto
  <2>10. ASSUME NtlmSent1(b) PROVE Fine
    BY <2>10 DEF NtlmSent1, Typed, shared, private, ghosts, Goto, SetState
  <2>11. ASSUME NtlmHash(b) PROVE Fine
    BY <2>11 DEF NtlmHash, Typed, shared, private, ghosts, Goto
  <2>12. ASSUME NtlmSent3(b) PROVE Fine
    BY <2>12 DEF NtlmSent3, Typed, shared, private, ghosts, Goto, SetState
  <2>. QED
    BY <1>2, <2>1, <2>2, <2>3, <2>4, <2>5, <2>6, <2>7, <2>8, <2>9, <2>10, <2>11, <2>12 DEF Quietly
<1>3. ASSUME InMemory(b) PROVE Fine
  <2>1. ASSUME AllocDigest(b) PROVE Fine
    BY <2>1 DEF AllocDigest, Typed, shared, private, ghosts, Goto
  <2>2. ASSUME PrintDigest(b) PROVE Fine
    BY <2>2 DEF PrintDigest, Typed, shared, private, ghosts, Goto
  <2>3. ASSUME FreeBasic(b) PROVE Fine
    BY <2>3 DEF FreeBasic, Typed, shared, private, ghosts, Goto
  <2>4. ASSUME AllocBasic(b) PROVE Fine
    BY <2>4 DEF AllocBasic, Typed, shared, private, ghosts, Goto
  <2>5. ASSUME FillBasic(b) PROVE Fine
    BY <2>5 DEF FillBasic, Typed, shared, private, ghosts, Goto
  <2>6. ASSUME NtlmType1(b) PROVE Fine
    BY <2>6 DEF NtlmType1, Typed, shared, private, ghosts, Goto
  <2>7. ASSUME NtlmRealloc(b) PROVE Fine
    BY <2>7 DEF NtlmRealloc, Typed, shared, private, ghosts, Goto
  <2>8. ASSUME NtlmMoved(b) PROVE Fine
    BY <2>8 DEF NtlmMoved, Typed, shared, private, ghosts, Goto
  <2>9. ASSUME NtlmFill(b) PROVE Fine
    BY <2>9 DEF NtlmFill, Typed, shared, private, ghosts, Goto
  <2>. QED
    BY <1>3, <2>1, <2>2, <2>3, <2>4, <2>5, <2>6, <2>7, <2>8, <2>9 DEF InMemory
<1>4. ASSUME NEW c \in ChallengeOf, Meets(b, c) PROVE Fine
  <2>1. ASSUME NoLogin(b, c) PROVE Fine
    BY <2>1 DEF NoLogin, Typed, shared, private, ghosts, Goto, Noted
  <2>2. ASSUME ProxyNtlm(b, c) PROVE Fine
    BY <2>2 DEF ProxyNtlm, Typed, shared, private, ghosts, Goto, Noted
  <2>3. ASSUME BasicChallenge(b, c) PROVE Fine
    BY <2>3 DEF BasicChallenge, Typed, shared, private, ghosts, Goto, Noted
  <2>4. ASSUME DigestChallenge(b, c) PROVE Fine
    BY <2>4 DEF DigestChallenge, Typed, shared, private, ghosts, Goto, Noted
  <2>5. ASSUME NtlmChallenge(b, c) PROVE Fine
    BY <2>5 DEF NtlmChallenge, Typed, shared, private, ghosts, Goto, Noted
  <2>6. ASSUME NtlmOver(b, c) PROVE Fine
    BY <2>6 DEF NtlmOver, Typed, shared, private, ghosts, Goto, Noted
  <2>. QED
    BY <1>4, <2>1, <2>2, <2>3, <2>4, <2>5, <2>6 DEF Meets
<1>5. CASE Fine
  BY <1>5, Apart, ElsewhereCounting
<1>. QED
  BY <1>1, <1>2, <1>3, <1>4, <1>5 DEF Step

TurnsInv == LocksInv /\ (Enough => Counting)

(***************************************************************************)
(* array_next, for every number of browsers and of login URLs: whoever was *)
(* in it alone has a URL of its own among all who were, if there are URLs  *)
(* enough.                                                                 *)
(***************************************************************************)
THEOREM LoginsTakenInTurn == Spec => []LoginsInTurn
<1>1. Init => TurnsInv
  <2>1. ASSUME Init PROVE Counting
    <3>1. Cardinality(Past) \in Nat
      BY <2>1, InitTyped, PastIs
    <3>2. /\ index = -1 /\ \A b \in Browsers : login[b] = 0 /\ pc[b] \in {"start", "ready"}
      BY <2>1 DEF Init
    <3>. QED
      BY <3>1, <3>2 DEF Counting, InNext
  <2>. QED
    BY <2>1, InitLocks DEF TurnsInv
<1>2. TurnsInv /\ [Next]_authVars => TurnsInv'
  <2>1. ASSUME TurnsInv, Next PROVE TurnsInv'
    <3>1. PICK b \in Browsers : Step(b)
      BY <2>1, NextIsStep DEF TurnsInv, LocksInv
    <3>2. LocksInv'
      BY <2>1, <3>1, StepLocks DEF TurnsInv
    <3>3. Enough => Counting'
      BY <2>1, <3>1, StepCounting DEF TurnsInv, LocksInv
    <3>. QED
      BY <3>2, <3>3 DEF TurnsInv, Enough
  <2>2. ASSUME TurnsInv, UNCHANGED authVars PROVE TurnsInv'
    <3>1. Counting => Counting'
      BY <2>2 DEF Counting, Past, Took, InNext, authVars, shared, private, ghosts
    <3>. QED
      BY <2>2, <3>1, IdleLocks DEF TurnsInv, Enough
  <2>. QED
    BY <2>1, <2>2
<1>3. TurnsInv => LoginsInTurn
  BY DEF TurnsInv, Enough, Counting, LoginsInTurn
<1>. QED
  BY <1>1, <1>2, <1>3, PTL DEF Spec

-----------------------------------------------------------------------------
(* What a step can touch.                                                  *)

\* A step of b that writes at most the field t, its buffer and, for NTLM, the state.
Within(b, t) ==
  /\ \A d \in Browsers \ {b} : touched'[d] = touched[d] \cup {t}
  /\ \A s \in Slots \ {t} : slot'[s] = slot[s] /\ (slot[s] # 0 => heap'[slot[s]] = heap[slot[s]])
  /\ t # "ntlm" => ntlm' = ntlm

LEMMA Aside ==
    ASSUME Typed, Pointers, NEW b \in Browsers, NEW t \in Slots, Touch(b, t) \/ Mine(b, t),
           Len(heap') >= Len(heap), slot' = slot \/ slot' = [slot EXCEPT ![t] = Len(heap) + 1],
           \A m \in 1 .. Len(heap) : m # slot[t] => heap'[m] = heap[m],
           t # "ntlm" => ntlm' = ntlm
    PROVE  Within(b, t)
<1>1. \A d \in Browsers \ {b} : touched'[d] = touched[d] \cup {t}
  <2>1. CASE Touch(b, t)
    BY <2>1 DEF Touch
  <2>2. CASE Mine(b, t)
    BY <2>2 DEF Mine
  <2>. QED
    BY <2>1, <2>2
<1>2. ASSUME NEW s \in Slots \ {t}
      PROVE  slot'[s] = slot[s] /\ (slot[s] # 0 => heap'[slot[s]] = heap[slot[s]])
  <2>1. slot'[s] = slot[s]
    BY DEF Typed
  <2>2. slot[s] # 0 => slot[s] \in 1 .. Len(heap) /\ slot[s] # slot[t]
    BY DEF Typed, Pointers
  <2>. QED
    BY <2>1, <2>2
<1>. QED
  BY <1>1, <1>2 DEF Within

LEMMA DigestWithin ==
    ASSUME Typed, Pointers, NEW b \in Browsers, AllocDigest(b) \/ PrintDigest(b)
    PROVE  Within(b, SlotOf(b))
<1>1. SlotOf(b) \in Slots /\ heap \in Seq(BufferOf) /\ Len(heap) \in Nat
  BY SlotsAre DEF Typed
<1>2. CASE AllocDigest(b)
  <2>1. heap' = More(heap)
    BY <1>2 DEF AllocDigest, More
  <2>2. Len(heap') >= Len(heap) /\ \A m \in 1 .. Len(heap) : heap'[m] = heap[m]
    BY <1>1, <2>1, Grown
  <2>3. /\ Touch(b, SlotOf(b)) \/ Mine(b, SlotOf(b))
        /\ slot' = [slot EXCEPT ![SlotOf(b)] = Len(heap) + 1] /\ ntlm' = ntlm
    BY <1>2, Zenon DEF AllocDigest
  <2>. QED
    BY <1>1, <2>2, <2>3, Aside, Zenon
<1>3. CASE PrintDigest(b)
  <2>1. heap' = WithText(heap, slot[SlotOf(b)], DigestText(b)) /\ DigestText(b) \in HeaderOf
    BY <1>3, PrintDigestWrites
  <2>2. Len(heap') >= Len(heap) /\ \A m \in 1 .. Len(heap) : m # slot[SlotOf(b)] => heap'[m] = heap[m]
    BY <1>1, <2>1, Written
  <2>3. Touch(b, SlotOf(b)) /\ slot' = slot /\ ntlm' = ntlm
    BY <1>3, Zenon DEF PrintDigest
  <2>. QED
    BY <1>1, <2>2, <2>3, Aside, Zenon
<1>. QED
  BY <1>2, <1>3

LEMMA BasicWithin ==
    ASSUME Typed, Pointers, NEW b \in Browsers, FreeBasic(b) \/ AllocBasic(b) \/ FillBasic(b)
    PROVE  Within(b, BasicSlot(b))
<1>1. BasicSlot(b) \in Slots /\ heap \in Seq(BufferOf) /\ Len(heap) \in Nat
  BY SlotsAre DEF Typed
<1>2. CASE FreeBasic(b)
  <2>1. Len(heap') >= Len(heap) /\ \A m \in 1 .. Len(heap) : m # slot[BasicSlot(b)] => heap'[m] = heap[m]
    BY <1>1, <1>2, Freed DEF FreeBasic
  <2>2. Mine(b, BasicSlot(b)) /\ slot' = slot /\ ntlm' = ntlm
    BY <1>2, Zenon DEF FreeBasic
  <2>. QED
    BY <1>1, <2>1, <2>2, Aside, Zenon
<1>3. CASE AllocBasic(b)
  <2>1. heap' = More(heap)
    BY <1>3 DEF AllocBasic, More
  <2>2. Len(heap') >= Len(heap) /\ \A m \in 1 .. Len(heap) : heap'[m] = heap[m]
    BY <1>1, <2>1, Grown
  <2>3. Touch(b, BasicSlot(b)) /\ slot' = [slot EXCEPT ![BasicSlot(b)] = Len(heap) + 1] /\ ntlm' = ntlm
    BY <1>3, Zenon DEF AllocBasic
  <2>. QED
    BY <1>1, <2>2, <2>3, Aside, Zenon
<1>4. CASE FillBasic(b)
  <2>1. heap' = WithText(heap, slot[BasicSlot(b)], BasicText(b)) /\ BasicText(b) \in HeaderOf
    BY <1>4, FillBasicWrites
  <2>2. Len(heap') >= Len(heap) /\ \A m \in 1 .. Len(heap) : m # slot[BasicSlot(b)] => heap'[m] = heap[m]
    BY <1>1, <2>1, Written
  <2>3. Touch(b, BasicSlot(b)) /\ slot' = slot /\ ntlm' = ntlm
    BY <1>4, Zenon DEF FillBasic
  <2>. QED
    BY <1>1, <2>2, <2>3, Aside, Zenon
<1>. QED
  BY <1>2, <1>3, <1>4

LEMMA NtlmWithin ==
    ASSUME Typed, Pointers, NEW b \in Browsers,
           \/ NtlmState(b) \/ NtlmType1(b) \/ NtlmSent1(b) \/ NtlmSent3(b) \/ NtlmRealloc(b) \/ NtlmMoved(b)
           \/ NtlmFill(b) \/ \E c \in ChallengeOf : NtlmChallenge(b, c)
    PROVE  Within(b, "ntlm")
<1>1. "ntlm" \in Slots /\ heap \in Seq(BufferOf) /\ Len(heap) \in Nat
  BY SlotsAre DEF Typed
<1>2. CASE NtlmState(b) \/ NtlmSent1(b) \/ NtlmSent3(b) \/ \E c \in ChallengeOf : NtlmChallenge(b, c)
  <2>1. (Touch(b, "ntlm") \/ Mine(b, "ntlm")) /\ slot' = slot /\ heap' = heap
    BY <1>2 DEF NtlmState, NtlmSent1, NtlmSent3, NtlmChallenge, SetState
  <2>2. Len(heap') >= Len(heap) /\ \A m \in 1 .. Len(heap) : m # slot["ntlm"] => heap'[m] = heap[m]
    BY <1>1, <2>1
  <2>. QED
    BY <1>1, <2>1, <2>2, Aside, Zenon
<1>3. CASE NtlmType1(b) \/ NtlmMoved(b)
  <2>1. heap' = More(heap)
    BY <1>3 DEF NtlmType1, NtlmMoved, StoreNtlm, More
  <2>2. Len(heap') >= Len(heap) /\ \A m \in 1 .. Len(heap) : heap'[m] = heap[m]
    BY <1>1, <2>1, Grown
  <2>3. Touch(b, "ntlm") /\ slot' = [slot EXCEPT !["ntlm"] = Len(heap) + 1]
    BY <1>3, Zenon DEF NtlmType1, NtlmMoved, StoreNtlm
  <2>. QED
    BY <1>1, <2>2, <2>3, Aside, Zenon
<1>4. CASE NtlmRealloc(b)
  <2>1. Len(heap') >= Len(heap) /\ \A m \in 1 .. Len(heap) : m # slot["ntlm"] => heap'[m] = heap[m]
    BY <1>1, <1>4, Freed DEF NtlmRealloc
  <2>2. Touch(b, "ntlm") /\ slot' = slot
    BY <1>4, Zenon DEF NtlmRealloc
  <2>. QED
    BY <1>1, <2>1, <2>2, Aside, Zenon
<1>5. CASE NtlmFill(b)
  <2>1. heap' = WithText(heap, slot["ntlm"], NtlmText(b)) /\ NtlmText(b) \in HeaderOf
    BY <1>5, NtlmFillWrites
  <2>2. Len(heap') >= Len(heap) /\ \A m \in 1 .. Len(heap) : m # slot["ntlm"] => heap'[m] = heap[m]
    BY <1>1, <2>1, Written
  <2>3. Touch(b, "ntlm") /\ slot' = slot
    BY <1>5, Zenon DEF NtlmFill
  <2>. QED
    BY <1>1, <2>2, <2>3, Aside, Zenon
<1>. QED
  BY <1>2, <1>3, <1>4, <1>5

Untouching == UNCHANGED <<slot, heap, ntlm, touched>>

LEMMA Confined ==
    ASSUME Typed, Pointers, NEW b \in Browsers, Step(b)
    PROVE  Untouching \/ \E t \in Slots : Within(b, t)
<1>1. SlotOf(b) \in Slots /\ BasicSlot(b) \in Slots /\ "ntlm" \in Slots
  BY SlotsAre
<1>2. ASSUME Quietly(b), ~NtlmState(b), ~NtlmSent1(b), ~NtlmSent3(b) PROVE Untouching
  <2>1. ASSUME LoadIndex(b) PROVE Untouching
    BY <2>1 DEF LoadIndex, Untouching, shared, ghosts
  <2>2. ASSUME StoreIndex(b) PROVE Untouching
    BY <2>2 DEF StoreIndex, Untouching, shared, ghosts
  <2>3. ASSUME TakeUrl(b) PROVE Untouching
    BY <2>3 DEF TakeUrl, Untouching, shared, ghosts
  <2>4. ASSUME Page(b) PROVE Untouching
    BY <2>4 DEF Page, Untouching, shared, ghosts
  <2>5. ASSUME Again(b) PROVE Untouching
    BY <2>5 DEF Again, Untouching, shared, ghosts
  <2>6. ASSUME NotAsked(b) PROVE Untouching
    BY <2>6 DEF NotAsked, Untouching, shared, ghosts
  <2>7. ASSUME Accepted(b) PROVE Untouching
    BY <2>7 DEF Accepted, Untouching, shared, ghosts
  <2>8. ASSUME NoDigest(b) PROVE Untouching
    BY <2>8 DEF NoDigest, Untouching, shared, ghosts
  <2>9. ASSUME ReadSlot(b) PROVE Untouching
    BY <2>9 DEF ReadSlot, Untouching, shared, ghosts
  <2>10. ASSUME CopyHeader(b) PROVE Untouching
    BY <2>10 DEF CopyHeader, Untouching, shared, ghosts
  <2>11. ASSUME NtlmSwitch(b) PROVE Untouching
    BY <2>11 DEF NtlmSwitch, Untouching, shared, ghosts
  <2>12. ASSUME NtlmHash(b) PROVE Untouching
    BY <2>12 DEF NtlmHash, Untouching, shared, ghosts
  <2>. QED
    BY <1>2, <2>1, <2>2, <2>3, <2>4, <2>5, <2>6, <2>7, <2>8, <2>9, <2>10, <2>11, <2>12 DEF Quietly
<1>3. ASSUME NEW c \in ChallengeOf, Meets(b, c), ~NtlmChallenge(b, c) PROVE Untouching
  <2>1. ASSUME NoLogin(b, c) PROVE Untouching
    BY <2>1 DEF NoLogin, Untouching, shared, ghosts
  <2>2. ASSUME ProxyNtlm(b, c) PROVE Untouching
    BY <2>2 DEF ProxyNtlm, Untouching, shared, ghosts
  <2>3. ASSUME BasicChallenge(b, c) PROVE Untouching
    BY <2>3 DEF BasicChallenge, Untouching, shared, ghosts
  <2>4. ASSUME DigestChallenge(b, c) PROVE Untouching
    BY <2>4 DEF DigestChallenge, Untouching, shared, ghosts
  <2>5. ASSUME NtlmOver(b, c) PROVE Untouching
    BY <2>5 DEF NtlmOver, Untouching, shared, ghosts
  <2>. QED
    BY <1>3, <2>1, <2>2, <2>3, <2>4, <2>5 DEF Meets
<1>4. CASE InMemory(b)
  BY <1>1, <1>4, DigestWithin, BasicWithin, NtlmWithin, Zenon DEF InMemory
<1>5. ASSUME NtlmState(b) \/ NtlmSent1(b) \/ NtlmSent3(b) \/ \E c \in ChallengeOf : NtlmChallenge(b, c)
      PROVE  Within(b, "ntlm")
  BY <1>5, NtlmWithin, Zenon
<1>. QED
  BY <1>1, <1>2, <1>3, <1>4, <1>5, Zenon DEF Step

-----------------------------------------------------------------------------
(* The steps of others.                                                    *)

\* The field an answer goes through.
LEMMA ThroughIs ==
    ASSUME Typed, Switched, NEW b \in Browsers, NEW k \in Kinds, Challenged(b, k)
    PROVE  /\ Through(b, k) \in Slots
           /\ k = kind[b] => Through(b, k) = SlotOf(b)
           /\ Posed(b, k).type = "BASIC" => Through(b, k) = IF k = "proxy" THEN "proxy" ELSE "basic"
           /\ Posed(b, k).type = "NTLM" => Through(b, k) = "ntlm" /\ k = "www"
           /\ k = "www" => Through(b, k) # "proxy"
           /\ k = "proxy" => Through(b, k) \in {"proxy", "digest"}
<1>1. type[b][k] = Posed(b, k).type /\ Posed(b, k).type \in {"BASIC", "DIGEST", "NTLM"}
  BY ChallengesAre DEF Challenged, Types
<1>2. k = "proxy" => Posed(b, k).type # "NTLM"
  BY <1>1 DEF Switched
<1>3. k \in {"www", "proxy"}
  BY DEF Kinds
<1>4. CASE Posed(b, k).type = "BASIC"
  BY <1>1, <1>3, <1>4 DEF Through, Posed, SlotOf, Slots
<1>5. CASE Posed(b, k).type = "DIGEST"
  BY <1>1, <1>3, <1>5 DEF Through, Posed, SlotOf, Slots, FieldOf
<1>6. CASE Posed(b, k).type = "NTLM"
  BY <1>1, <1>2, <1>3, <1>6 DEF Through, Posed, SlotOf, Slots
<1>. QED
  BY <1>1, <1>4, <1>5, <1>6

\* While a browser has a field for itself, the steps of the others leave it alone.
LEMMA Left ==
    ASSUME Typed, Pointers, NEW b \in Browsers, NEW d \in Browsers \ {b}, Step(b),
           NEW s \in Slots, s \notin touched'[d]
    PROVE  /\ s \notin touched[d] /\ slot'[s] = slot[s] /\ (slot[s] # 0 => heap'[slot[s]] = heap[slot[s]])
           /\ s = "ntlm" => ntlm' = ntlm
<1>1. CASE Untouching
  BY <1>1 DEF Untouching
<1>2. CASE \E t \in Slots : Within(b, t)
  <2>1. PICK t \in Slots : Within(b, t)
    BY <1>2
  <2>2. touched'[d] = touched[d] \cup {t}
    BY <2>1 DEF Within
  <2>3. s # t /\ s \notin touched[d]
    BY <2>2
  <2>. QED
    BY <2>1, <2>3 DEF Within
<1>. QED
  BY <1>1, <1>2, Confined

LEMMA OthersOwn ==
    ASSUME LocksInv, NEW b \in Browsers, NEW d \in Browsers \ {b}, Step(b), NEW k \in Kinds, Own(d, k)
    PROVE  Own(d, k)'
<1>1. Typed /\ Pointers /\ Switched /\ Elsewhere(b)
  BY Apart DEF LocksInv
<1>2. /\ pc'[d] = pc[d] /\ kind'[d] = kind[d] /\ method'[d] = method[d] /\ asked'[d] = asked[d]
      /\ type'[d] = type[d] /\ own'[d] = own[d] /\ at'[d] = at[d] /\ hash'[d] = hash[d]
      /\ out'[d] = out[d] /\ requests'[d] = requests[d] /\ last'[d] = last[d]
  BY <1>1 DEF Elsewhere
<1>3. /\ Posed(d, k)' = Posed(d, k) /\ (Prepared(d, k)' <=> Prepared(d, k)) /\ FieldOf(d, k)' = FieldOf(d, k)
      /\ (ToCome(d, k)' <=> ToCome(d, k)) /\ (Headed(d, k)' <=> Headed(d, k))
  BY <1>2 DEF Posed, Prepared, FieldOf, ToCome, Headed
<1>4. Through(d, k)' = Through(d, k)
  BY <1>2, <1>3 DEF Through
<1>5. Text(d, k)' = Text(d, k)
  BY <1>2, <1>3 DEF Text
<1>6. Sent(d, k)' = Sent(d, k)
  BY <1>2, <1>3, <1>5 DEF Sent
<1>7. Bare(d, k)'
  BY <1>2 DEF Own, Bare
<1>8. ASSUME Prepared(d, k)
      PROVE  /\ Challenged(d, k)' /\ Count(d, k)' /\ DigestWork(d, k)' /\ BasicWork(d, k)' /\ NtlmWork(d, k)'
             /\ Copying(d, k)' /\ Stays(d, k)' /\ Answered(d, k)'
  <2>1. /\ Challenged(d, k) /\ Count(d, k) /\ DigestWork(d, k) /\ BasicWork(d, k) /\ NtlmWork(d, k)
        /\ Copying(d, k) /\ Stays(d, k) /\ Answered(d, k)
    BY <1>8 DEF Own
  <2>2. Through(d, k) \in Slots /\ (Posed(d, k).type = "NTLM" => Through(d, k) = "ntlm")
    BY <1>1, <2>1, ThroughIs
  <2>3. ASSUME Apiece(d, k)'
        PROVE  /\ Apiece(d, k) /\ slot'[Through(d, k)] = slot[Through(d, k)]
               /\ slot[Through(d, k)] # 0 => heap'[slot[Through(d, k)]] = heap[slot[Through(d, k)]]
               /\ Through(d, k) = "ntlm" => ntlm' = ntlm
    BY <1>1, <1>4, <2>2, <2>3, Left DEF Apiece
  <2>4. Apiece(d, k)' => (Ready(d, k) => Ready(d, k)')
    BY <1>4, <2>3 DEF Ready
  <2>5. Apiece(d, k)' => (Held(d, k) => Held(d, k)')
    BY <1>4, <1>5, <2>3, <2>4 DEF Held, Ready
  <2>6. Challenged(d, k)'
    BY <1>2, <1>3, <2>1 DEF Challenged
  <2>7. Count(d, k)'
    BY <1>2, <1>3, <2>1 DEF Count
  <2>8. DigestWork(d, k)'
    BY <1>2, <1>3, <2>1, <2>3, <2>4, <2>5 DEF DigestWork
  <2>9. BasicWork(d, k)'
    BY <1>2, <1>3, <2>1, <2>3, <2>4 DEF BasicWork
  <2>10. NtlmWork(d, k)'
    BY <1>2, <1>3, <2>1, <2>2, <2>3, <2>4 DEF NtlmWork
  <2>11. Copying(d, k)'
    BY <1>2, <1>3, <1>4, <2>1, <2>3 DEF Copying
  <2>12. Stays(d, k)'
    BY <1>2, <1>3, <2>1, <2>3, <2>5 DEF Stays
  <2>13. Answered(d, k)'
    BY <1>2, <1>3, <1>6, <2>1, <2>3 DEF Answered
  <2>. QED
    BY <2>6, <2>7, <2>8, <2>9, <2>10, <2>11, <2>12, <2>13
<1>. QED
  BY <1>3, <1>7, <1>8 DEF Own

LEMMA OthersRoutes ==
    ASSUME Typed, NEW b \in Browsers, NEW d \in Browsers \ {b}, Step(b), Routes(d) PROVE Routes(d)'
BY Apart DEF Elsewhere, Routes, Prepared

-----------------------------------------------------------------------------
(* The steps of the browser itself.                                        *)

\* What a browser keeps about a kind of header, and its request.
Keeps(b, j) ==
  /\ asked'[b][j] = asked[b][j] /\ type'[b][j] = type[b][j] /\ own'[b][j] = own[b][j]
  /\ last'[b][j] = last[b][j] /\ requests'[b] = requests[b] /\ method'[b] = method[b]

LEMMA Kept ==
    ASSUME NEW b \in Browsers, NEW j \in Kinds, Keeps(b, j)
    PROVE  /\ Posed(b, j)' = Posed(b, j) /\ (Prepared(b, j)' <=> Prepared(b, j))
           /\ FieldOf(b, j)' = FieldOf(b, j) /\ Through(b, j)' = Through(b, j) /\ Text(b, j)' = Text(b, j)
           /\ Sent(b, j)' = Sent(b, j)
<1>1. /\ Posed(b, j)' = Posed(b, j) /\ (Prepared(b, j)' <=> Prepared(b, j))
      /\ FieldOf(b, j)' = FieldOf(b, j)
  BY DEF Keeps, Posed, Prepared, FieldOf
<1>2. Through(b, j)' = Through(b, j)
  BY <1>1 DEF Keeps, Through
<1>3. Text(b, j)' = Text(b, j)
  BY <1>1 DEF Keeps, Text
<1>4. Sent(b, j)' = Sent(b, j)
  BY <1>1, <1>3 DEF Keeps, Sent
<1>. QED
  BY <1>1, <1>2, <1>3, <1>4

\* The kind of header the step is not about: its own field is as it was, or it is a Digest that
\* does not need it.
Spared(b, j) ==
  Prepared(b, j) =>
    /\ Posed(b, j).type # "DIGEST" => (Apiece(b, j)' => Apiece(b, j)) /\ (Held(b, j) => Held(b, j)')
    /\ Headed(b, j)' => (Apiece(b, j)' => Apiece(b, j))

\* Where the step leads, as far as that kind goes.
Passes(b, j) ==
  /\ pc'[b] \in Heading \cup {"sent"} => pc[b] \in Heading \cup {"sent"} /\ out'[b][j] = out[b][j]
  /\ (ToCome(b, j)' <=> ToCome(b, j)) /\ (Headed(b, j)' => Headed(b, j))
  /\ kind'[b] = j => pc'[b] \notin Copies \cup AtBasic
  /\ pc'[b] \in AtNtlm => j = "proxy"
  /\ pc[b] \notin AtBasic \/ kind[b] # j
  /\ pc[b] \notin AtNtlm \/ j = "proxy"

LEMMA OtherKind ==
    ASSUME Typed, Switched, NEW b \in Browsers, NEW j \in Kinds, Own(b, j), Keeps(b, j), Passes(b, j),
           Spared(b, j)
    PROVE  Own(b, j)'
<1>1. /\ Posed(b, j)' = Posed(b, j) /\ (Prepared(b, j)' <=> Prepared(b, j)) /\ Through(b, j)' = Through(b, j)
      /\ Sent(b, j)' = Sent(b, j)
  BY Kept
<1>2. Bare(b, j)'
  BY DEF Own, Bare, Keeps, Passes
<1>3. ASSUME Prepared(b, j)
      PROVE  /\ Challenged(b, j)' /\ Count(b, j)' /\ DigestWork(b, j)' /\ BasicWork(b, j)' /\ NtlmWork(b, j)'
             /\ Copying(b, j)' /\ Stays(b, j)' /\ Answered(b, j)'
  <2>1. Challenged(b, j) /\ Count(b, j) /\ Stays(b, j) /\ Answered(b, j)
    BY <1>3 DEF Own
  <2>2. Posed(b, j).type = "NTLM" => j = "www"
    BY <2>1, ThroughIs
  <2>3. Challenged(b, j)'
    BY <1>1, <2>1 DEF Challenged, Keeps, Passes
  <2>4. Count(b, j)'
    BY <1>1, <2>1 DEF Count, Keeps, Passes
  <2>5. DigestWork(b, j)' /\ Copying(b, j)'
    BY DEF DigestWork, Copying, Copies, Passes
  <2>6. BasicWork(b, j)'
    BY DEF BasicWork, AtBasic, Passes
  <2>7. NtlmWork(b, j)'
    BY <1>1, <2>2 DEF NtlmWork, AtNtlm, Passes
  <2>8. Stays(b, j)'
    BY <1>1, <1>3, <2>1 DEF Stays, Spared, Passes
  <2>9. Answered(b, j)'
    <3>1. Headed(b, j)' => out'[b][j] = out[b][j]
      BY DEF Headed, Passes
    <3>. QED
      BY <1>1, <1>3, <2>1, <3>1 DEF Answered, Spared, Passes
  <2>. QED
    BY <2>3, <2>4, <2>5, <2>6, <2>7, <2>8, <2>9
<1>. QED
  BY <1>1, <1>2, <1>3 DEF Own

\* A step that writes another field than that of the kind it is not about.
LEMMA SparedWithin ==
    ASSUME Typed, Switched, NEW b \in Browsers, NEW j \in Kinds, Own(b, j), Keeps(b, j), NEW t \in Slots,
           Within(b, t), touched'[b] = touched[b] \/ touched'[b] = touched[b] \ {t},
           Prepared(b, j) => \/ t # Through(b, j)
                             \/ Posed(b, j).type = "DIGEST" /\ (touched'[b] = touched[b] \/ ~Headed(b, j)')
    PROVE  Spared(b, j)
<1>. SUFFICES ASSUME Prepared(b, j) PROVE Spared(b, j)
  BY DEF Spared
<1>1. Through(b, j) \in Slots
  BY ThroughIs DEF Own
<1>2. Through(b, j)' = Through(b, j) /\ Text(b, j)' = Text(b, j)
  BY Kept
<1>3. CASE t # Through(b, j)
  <2>1. Apiece(b, j)' => Apiece(b, j)
    BY <1>2, <1>3 DEF Apiece
  <2>2. /\ slot'[Through(b, j)] = slot[Through(b, j)]
        /\ slot[Through(b, j)] # 0 => heap'[slot[Through(b, j)]] = heap[slot[Through(b, j)]]
    BY <1>1, <1>3 DEF Within
  <2>3. Held(b, j) => Held(b, j)'
    BY <1>2, <2>2 DEF Held, Ready
  <2>. QED
    BY <2>1, <2>3 DEF Spared
<1>4. CASE Posed(b, j).type = "DIGEST" /\ (touched'[b] = touched[b] \/ ~Headed(b, j)')
  BY <1>2, <1>4 DEF Spared, Apiece
<1>. QED
  BY <1>3, <1>4

\* A step that writes no field.
LEMMA SparedUntouched ==
    ASSUME Typed, NEW b \in Browsers, NEW j \in Kinds, Keeps(b, j), Untouching PROVE Spared(b, j)
<1>1. Through(b, j)' = Through(b, j) /\ Text(b, j)' = Text(b, j)
  BY Kept
<1>. QED
  BY <1>1 DEF Spared, Untouching, Apiece, Held, Ready

\* Steps that write no field, and are about the kind of header the browser is at or about none.
LEMMA QuietOther ==
    ASSUME LocksInv, NEW b \in Browsers, Routes(b), NEW j \in Kinds, Own(b, j),
           \/ LoadIndex(b) \/ StoreIndex(b) \/ TakeUrl(b) \/ Accepted(b)
           \/ j # kind[b] /\ \/ NotAsked(b) \/ NoDigest(b) \/ ReadSlot(b) \/ CopyHeader(b)
                             \/ NtlmSwitch(b) \/ NtlmHash(b)
    PROVE  Own(b, j)'
<1>. DEFINE Fine == Keeps(b, j) /\ Passes(b, j) /\ Untouching
<1>1. Typed /\ Switched /\ j \in {"www", "proxy"} /\ kind[b] \in {"www", "proxy"}
  BY DEF LocksInv, Typed, Kinds
<1>2. ASSUME LoadIndex(b) PROVE Fine
  <2>1. Keeps(b, j)
    BY <1>2, <1>1 DEF LoadIndex, Keeps, private, ghosts
  <2>2. Passes(b, j)
    BY <1>2, <1>1 DEF LoadIndex, Passes, Typed, Goto, private, ToCome, Headed, Heading, Copies, AtBasic, AtNtlm
  <2>3. Untouching
    BY <1>2 DEF LoadIndex, Untouching, shared, ghosts
  <2>. QED
    BY <2>1, <2>2, <2>3
<1>3. ASSUME StoreIndex(b) PROVE Fine
  <2>1. Keeps(b, j)
    BY <1>3, <1>1 DEF StoreIndex, Keeps, private, ghosts
  <2>2. Passes(b, j)
    BY <1>3, <1>1 DEF StoreIndex, Passes, Typed, Goto, private, ToCome, Headed, Heading, Copies, AtBasic, AtNtlm
  <2>3. Untouching
    BY <1>3 DEF StoreIndex, Untouching, shared, ghosts
  <2>. QED
    BY <2>1, <2>2, <2>3
<1>4. ASSUME TakeUrl(b) PROVE Fine
  <2>1. Keeps(b, j)
    BY <1>4, <1>1 DEF TakeUrl, Keeps, private, ghosts
  <2>2. Passes(b, j)
    BY <1>4, <1>1 DEF TakeUrl, Passes, Typed, Goto, private, ToCome, Headed, Heading, Copies, AtBasic, AtNtlm
  <2>3. Untouching
    BY <1>4 DEF TakeUrl, Untouching, shared, ghosts
  <2>. QED
    BY <2>1, <2>2, <2>3
<1>5. ASSUME Accepted(b) PROVE Fine
  <2>1. Keeps(b, j)
    BY <1>5, <1>1 DEF Accepted, Keeps, private, ghosts
  <2>2. Passes(b, j)
    BY <1>5, <1>1 DEF Accepted, Passes, Typed, Goto, private, ToCome, Headed, Heading, Copies, AtBasic, AtNtlm
  <2>3. Untouching
    BY <1>5 DEF Accepted, Untouching, shared, ghosts
  <2>. QED
    BY <2>1, <2>2, <2>3
<1>6. ASSUME NotAsked(b), j # kind[b] PROVE Fine
  <2>1. Keeps(b, j)
    BY <1>6, <1>1 DEF NotAsked, Keeps, private, ghosts
  <2>2. Passes(b, j)
    BY <1>6, <1>1 DEF NotAsked, Passes, Typed, Goto, Proceed, private, ToCome, Headed, Heading, Copies, AtBasic, AtNtlm
  <2>3. Untouching
    BY <1>6 DEF NotAsked, Untouching, shared, ghosts
  <2>. QED
    BY <2>1, <2>2, <2>3
<1>7. ASSUME NoDigest(b), j # kind[b] PROVE Fine
  <2>1. Keeps(b, j)
    BY <1>7, <1>1 DEF NoDigest, Keeps, private, ghosts
  <2>2. Passes(b, j)
    BY <1>7, <1>1 DEF NoDigest, Passes, Typed, Goto, Proceed, private, ToCome, Headed, Heading, Copies, AtBasic, AtNtlm
  <2>3. Untouching
    BY <1>7 DEF NoDigest, Untouching, shared, ghosts
  <2>. QED
    BY <2>1, <2>2, <2>3
<1>8. ASSUME ReadSlot(b), j # kind[b] PROVE Fine
  <2>1. Keeps(b, j)
    BY <1>8, <1>1 DEF ReadSlot, Keeps, private, ghosts
  <2>2. Passes(b, j)
    BY <1>8, <1>1 DEF ReadSlot, Passes, Typed, Goto, private, ToCome, Headed, Heading, Copies, AtBasic, AtNtlm
  <2>3. Untouching
    BY <1>8 DEF ReadSlot, Untouching, shared, ghosts
  <2>. QED
    BY <2>1, <2>2, <2>3
<1>9. ASSUME CopyHeader(b), j # kind[b] PROVE Fine
  <2>1. Keeps(b, j)
    BY <1>9, <1>1 DEF CopyHeader, Keeps, private, ghosts
  <2>2. Passes(b, j)
    BY <1>9, <1>1 DEF CopyHeader, Passes, Typed, Goto, Proceed, private, ToCome, Headed, Heading, Copies, AtBasic, AtNtlm
  <2>3. Untouching
    BY <1>9 DEF CopyHeader, Untouching, shared, ghosts
  <2>. QED
    BY <2>1, <2>2, <2>3
<1>10. ASSUME NtlmSwitch(b), j # kind[b] PROVE Fine
  <2>0. ntlm.state \in {"1", "2", "3"}
    BY <1>10, <1>1 DEF NtlmSwitch, Switched, Typed
  <2>1. Keeps(b, j)
    BY <1>10, <1>1 DEF NtlmSwitch, Keeps, private, ghosts
  <2>2. Passes(b, j)
    BY <1>10, <1>1, <2>0 DEF NtlmSwitch, Passes, Typed, Goto, private, ToCome, Headed, Heading, Copies, AtBasic, AtNtlm, Routes
  <2>3. Untouching
    BY <1>10 DEF NtlmSwitch, Untouching, shared, ghosts
  <2>. QED
    BY <2>1, <2>2, <2>3
<1>11. ASSUME NtlmHash(b), j # kind[b] PROVE Fine
  <2>1. Keeps(b, j)
    BY <1>11, <1>1 DEF NtlmHash, Keeps, private, ghosts
  <2>2. Passes(b, j)
    BY <1>11, <1>1 DEF NtlmHash, Passes, Typed, Goto, private, ToCome, Headed, Heading, Copies, AtBasic, AtNtlm, Routes
  <2>3. Untouching
    BY <1>11 DEF NtlmHash, Untouching, shared, ghosts
  <2>. QED
    BY <2>1, <2>2, <2>3
<1>12. Fine
  BY <1>2, <1>3, <1>4, <1>5, <1>6, <1>7, <1>8, <1>9, <1>10, <1>11
<1>. QED
  BY <1>1, <1>12, SparedUntouched, OtherKind

\* Steps that write the field of the kind of header the browser is at.
LEMMA WritesOther ==
    ASSUME LocksInv, NEW b \in Browsers, Routes(b), NEW j \in Kinds, j # kind[b], Own(b, j),
           \/ AllocDigest(b) \/ PrintDigest(b) \/ FreeBasic(b) \/ AllocBasic(b) \/ FillBasic(b)
           \/ NtlmState(b) \/ NtlmSent1(b) \/ NtlmSent3(b) \/ NtlmType1(b) \/ NtlmRealloc(b)
           \/ NtlmMoved(b) \/ NtlmFill(b)
    PROVE  Own(b, j)'
<1>. DEFINE Fine == Keeps(b, j) /\ Passes(b, j)
<1>1. Typed /\ Switched /\ Pointers /\ j \in {"www", "proxy"} /\ kind[b] \in {"www", "proxy"}
  BY DEF LocksInv, Typed, Kinds
<1>2. SlotOf(b) \in Slots /\ BasicSlot(b) \in Slots /\ "ntlm" \in Slots
  BY <1>1, SlotsAre
<1>3. Prepared(b, j) =>
        /\ Posed(b, j).type # "DIGEST" => Through(b, j) # "digest"
        /\ j = "www" => Through(b, j) # "proxy"
        /\ j = "proxy" => Through(b, j) \in {"proxy", "digest"}
  <2>. SUFFICES ASSUME Prepared(b, j)
                PROVE  /\ Posed(b, j).type # "DIGEST" => Through(b, j) # "digest"
                       /\ j = "www" => Through(b, j) # "proxy"
                       /\ j = "proxy" => Through(b, j) \in {"proxy", "digest"}
    OBVIOUS
  <2>1. Challenged(b, j)
    BY DEF Own
  <2>2. Posed(b, j).type \in {"BASIC", "DIGEST", "NTLM"}
    BY <2>1, ChallengesAre DEF Challenged, Types
  <2>. QED
    BY <1>1, <2>1, <2>2, ThroughIs
<1>4. ASSUME AllocDigest(b) PROVE Fine
  <2>1. Keeps(b, j)
    BY <1>1, <1>4 DEF AllocDigest, Keeps, Typed
  <2>2. Passes(b, j)
    BY <1>1, <1>4 DEF AllocDigest, Passes, Typed, Goto, ToCome, Headed, Heading, Copies, AtBasic, AtNtlm, Routes
  <2>. QED
    BY <2>1, <2>2
<1>5. ASSUME PrintDigest(b) PROVE Fine
  <2>1. Keeps(b, j)
    BY <1>1, <1>5 DEF PrintDigest, Keeps, Typed
  <2>2. Passes(b, j)
    BY <1>1, <1>5 DEF PrintDigest, Passes, Typed, Goto, ToCome, Headed, Heading, Copies, AtBasic, AtNtlm, Routes
  <2>. QED
    BY <2>1, <2>2
<1>6. ASSUME FreeBasic(b) PROVE Fine
  <2>1. Keeps(b, j)
    BY <1>1, <1>6 DEF FreeBasic, Keeps, Typed
  <2>2. Passes(b, j)
    BY <1>1, <1>6 DEF FreeBasic, Passes, Typed, Goto, ToCome, Headed, Heading, Copies, AtBasic, AtNtlm, Routes
  <2>. QED
    BY <2>1, <2>2
<1>7. ASSUME AllocBasic(b) PROVE Fine
  <2>1. Keeps(b, j)
    BY <1>1, <1>7 DEF AllocBasic, Keeps, Typed
  <2>2. Passes(b, j)
    BY <1>1, <1>7 DEF AllocBasic, Passes, Typed, Goto, ToCome, Headed, Heading, Copies, AtBasic, AtNtlm, Routes
  <2>. QED
    BY <2>1, <2>2
<1>8. ASSUME FillBasic(b) PROVE Fine
  <2>1. Keeps(b, j)
    BY <1>1, <1>8 DEF FillBasic, Keeps, Typed
  <2>2. Passes(b, j)
    BY <1>1, <1>8 DEF FillBasic, Passes, Typed, Goto, ToCome, Headed, Heading, Copies, AtBasic, AtNtlm, Routes
  <2>. QED
    BY <2>1, <2>2
<1>9. ASSUME NtlmState(b) PROVE Fine
  <2>1. Keeps(b, j)
    BY <1>1, <1>9 DEF NtlmState, Keeps, Typed
  <2>2. Passes(b, j)
    BY <1>1, <1>9 DEF NtlmState, Passes, Typed, Goto, ToCome, Headed, Heading, Copies, AtBasic, AtNtlm, Routes
  <2>. QED
    BY <2>1, <2>2
<1>10. ASSUME NtlmSent1(b) PROVE Fine
  <2>1. Keeps(b, j)
    BY <1>1, <1>10 DEF NtlmSent1, Keeps, Typed
  <2>2. Passes(b, j)
    BY <1>1, <1>10 DEF NtlmSent1, Passes, Typed, Goto, ToCome, Headed, Heading, Copies, AtBasic, AtNtlm, Routes
  <2>. QED
    BY <2>1, <2>2
<1>11. ASSUME NtlmSent3(b) PROVE Fine
  <2>1. Keeps(b, j)
    BY <1>1, <1>11 DEF NtlmSent3, Keeps, Typed
  <2>2. Passes(b, j)
    BY <1>1, <1>11 DEF NtlmSent3, Passes, Typed, Goto, ToCome, Headed, Heading, Copies, AtBasic, AtNtlm, Routes
  <2>. QED
    BY <2>1, <2>2
<1>12. ASSUME NtlmType1(b) PROVE Fine
  <2>1. Keeps(b, j)
    BY <1>1, <1>12 DEF NtlmType1, Keeps, Typed
  <2>2. Passes(b, j)
    BY <1>1, <1>12 DEF NtlmType1, Passes, Typed, Goto, ToCome, Headed, Heading, Copies, AtBasic, AtNtlm, Routes
  <2>. QED
    BY <2>1, <2>2
<1>13. ASSUME NtlmRealloc(b) PROVE Fine
  <2>1. Keeps(b, j)
    BY <1>1, <1>13 DEF NtlmRealloc, Keeps, Typed
  <2>2. Passes(b, j)
    BY <1>1, <1>13 DEF NtlmRealloc, Passes, Typed, Goto, ToCome, Headed, Heading, Copies, AtBasic, AtNtlm, Routes
  <2>. QED
    BY <2>1, <2>2
<1>14. ASSUME NtlmMoved(b) PROVE Fine
  <2>1. Keeps(b, j)
    BY <1>1, <1>14 DEF NtlmMoved, Keeps, Typed
  <2>2. Passes(b, j)
    BY <1>1, <1>14 DEF NtlmMoved, Passes, Typed, Goto, ToCome, Headed, Heading, Copies, AtBasic, AtNtlm, Routes
  <2>. QED
    BY <2>1, <2>2
<1>15. ASSUME NtlmFill(b) PROVE Fine
  <2>1. Keeps(b, j)
    BY <1>1, <1>15 DEF NtlmFill, Keeps, Typed
  <2>2. Passes(b, j)
    BY <1>1, <1>15 DEF NtlmFill, Passes, Typed, Goto, ToCome, Headed, Heading, Copies, AtBasic, AtNtlm, Routes
  <2>. QED
    BY <2>1, <2>2
<1>16. ASSUME NEW t \in Slots, Touch(b, t) PROVE touched'[b] = touched[b]
  BY <1>16 DEF Touch
<1>17. ASSUME NEW t \in Slots, Mine(b, t) PROVE touched'[b] = touched[b] \ {t}
  BY <1>17 DEF Mine
<1>18. CASE AllocDigest(b)
  <2>1. Within(b, SlotOf(b))
    BY <1>1, <1>18, DigestWithin
  <2>2. type[b][kind[b]] = "DIGEST" /\ pc'[b] = "print" /\ kind' = kind
    BY <1>1, <1>18 DEF AllocDigest, Goto, Typed
  <2>3. /\ kind[b] = "www" => SlotOf(b) = "digest"
        /\ kind[b] = "proxy" => SlotOf(b) \in {"digest", "proxy"}
        /\ kind[b] = "proxy" /\ SlotOf(b) = "digest" => FieldOf(b, kind[b]) # kind[b]
    BY <1>1, <2>2 DEF SlotOf, FieldOf
  <2>4. j = "proxy" => ~Headed(b, j)'
    BY <2>2 DEF Headed
  <2>5. CASE FieldOf(b, kind[b]) = kind[b]
    <3>1. touched'[b] = touched[b] \ {SlotOf(b)}
      BY <1>2, <1>17, <1>18, <2>5 DEF AllocDigest
    <3>2. Prepared(b, j) => SlotOf(b) # Through(b, j) \/ (Posed(b, j).type = "DIGEST" /\ ~Headed(b, j)')
      BY <1>1, <1>3, <2>3, <2>4, <2>5
    <3>. QED
      BY <1>1, <1>2, <1>4, <1>18, <2>1, <3>1, <3>2, SparedWithin, OtherKind
  <2>6. CASE FieldOf(b, kind[b]) # kind[b]
    <3>1. touched'[b] = touched[b]
      BY <1>2, <1>16, <1>18, <2>6 DEF AllocDigest
    <3>2. Prepared(b, j) => SlotOf(b) # Through(b, j) \/ Posed(b, j).type = "DIGEST"
      BY <1>1, <1>3, <2>3
    <3>. QED
      BY <1>1, <1>2, <1>4, <1>18, <2>1, <3>1, <3>2, SparedWithin, OtherKind
  <2>. QED
    BY <2>5, <2>6
<1>19. CASE PrintDigest(b)
  <2>1. Within(b, SlotOf(b))
    BY <1>1, <1>19, DigestWithin
  <2>2. type[b][kind[b]] = "DIGEST"
    BY <1>19 DEF PrintDigest, Routes
  <2>3. /\ kind[b] = "www" => SlotOf(b) = "digest"
        /\ kind[b] = "proxy" => SlotOf(b) \in {"digest", "proxy"}
    BY <1>1, <2>2 DEF SlotOf, FieldOf
  <2>4. touched'[b] = touched[b]
    BY <1>2, <1>16, <1>19 DEF PrintDigest
  <2>5. Prepared(b, j) => SlotOf(b) # Through(b, j) \/ Posed(b, j).type = "DIGEST"
    BY <1>1, <1>3, <2>3
  <2>. QED
    BY <1>1, <1>2, <1>5, <1>19, <2>1, <2>4, <2>5, SparedWithin, OtherKind
<1>20. CASE FreeBasic(b) \/ AllocBasic(b) \/ FillBasic(b)
  <2>1. Within(b, BasicSlot(b))
    BY <1>1, <1>20, BasicWithin
  <2>2. touched'[b] = touched[b] \/ touched'[b] = touched[b] \ {BasicSlot(b)}
    BY <1>2, <1>16, <1>17, <1>20 DEF FreeBasic, AllocBasic, FillBasic
  <2>3. Prepared(b, j) => BasicSlot(b) # Through(b, j)
    BY <1>1, <1>3 DEF BasicSlot
  <2>4. Fine
    BY <1>6, <1>7, <1>8, <1>20
  <2>. QED
    BY <1>1, <1>2, <2>1, <2>2, <2>3, <2>4, SparedWithin, OtherKind
<1>21. CASE \/ NtlmState(b) \/ NtlmSent1(b) \/ NtlmSent3(b) \/ NtlmType1(b) \/ NtlmRealloc(b)
            \/ NtlmMoved(b) \/ NtlmFill(b)
  <2>1. Within(b, "ntlm")
    BY <1>1, <1>21, NtlmWithin
  <2>2. touched'[b] = touched[b]
    BY <1>2, <1>16, <1>21
       DEF NtlmState, NtlmSent1, NtlmSent3, NtlmType1, NtlmRealloc, NtlmMoved, NtlmFill, SetState
  <2>3. j = "proxy"
    BY <1>1, <1>21
       DEF NtlmState, NtlmSent1, NtlmSent3, NtlmType1, NtlmRealloc, NtlmMoved, NtlmFill, Routes, AtNtlm
  <2>4. Prepared(b, j) => "ntlm" # Through(b, j)
    BY <1>3, <2>3
  <2>5. Fine
    BY <1>9, <1>10, <1>11, <1>12, <1>13, <1>14, <1>15, <1>21
  <2>. QED
    BY <1>1, <1>2, <2>1, <2>2, <2>4, <2>5, SparedWithin, OtherKind
<1>. QED
  BY <1>18, <1>19, <1>20, <1>21

\* A challenge of the other kind.
LEMMA MeetsOther ==
    ASSUME LocksInv, NEW b \in Browsers, NEW c \in ChallengeOf, NEW j \in Kinds, j # c.kind, Own(b, j),
           Meets(b, c)
    PROVE  Own(b, j)'
<1>. DEFINE Fine == Keeps(b, j) /\ Passes(b, j)
<1>1. Typed /\ Switched /\ Pointers /\ j \in {"www", "proxy"} /\ c.kind \in {"www", "proxy"}
  BY ChallengesAre DEF LocksInv, Typed, Kinds
<1>2. ASSUME NoLogin(b, c) PROVE Fine
  <2>1. Keeps(b, j)
    BY <1>1, <1>2 DEF NoLogin, Keeps, Typed, Noted, Answering, Forsaken
  <2>2. Passes(b, j)
    BY <1>1, <1>2 DEF NoLogin, Passes, Typed, Goto, Noted, ToCome, Headed, Heading, Copies, AtBasic, AtNtlm
  <2>. QED
    BY <2>1, <2>2
<1>3. ASSUME ProxyNtlm(b, c) PROVE Fine
  <2>1. Keeps(b, j)
    BY <1>1, <1>3 DEF ProxyNtlm, Keeps, Typed, Noted, Answering, Forsaken
  <2>2. Passes(b, j)
    BY <1>1, <1>3 DEF ProxyNtlm, Passes, Typed, Goto, Noted, ToCome, Headed, Heading, Copies, AtBasic, AtNtlm
  <2>. QED
    BY <2>1, <2>2
<1>4. ASSUME BasicChallenge(b, c) PROVE Fine
  <2>1. Keeps(b, j)
    BY <1>1, <1>4 DEF BasicChallenge, Keeps, Typed, Noted, Answering, Forsaken
  <2>2. Passes(b, j)
    BY <1>1, <1>4 DEF BasicChallenge, Passes, Typed, Goto, Noted, ToCome, Headed, Heading, Copies, AtBasic, AtNtlm
  <2>. QED
    BY <2>1, <2>2
<1>5. ASSUME DigestChallenge(b, c) PROVE Fine
  <2>1. Keeps(b, j)
    BY <1>1, <1>5 DEF DigestChallenge, Keeps, Typed, Noted, Answering, Forsaken
  <2>2. Passes(b, j)
    BY <1>1, <1>5 DEF DigestChallenge, Passes, Typed, Goto, Noted, ToCome, Headed, Heading, Copies, AtBasic, AtNtlm
  <2>. QED
    BY <2>1, <2>2
<1>6. ASSUME NtlmChallenge(b, c) PROVE Fine
  <2>1. Keeps(b, j)
    BY <1>1, <1>6 DEF NtlmChallenge, Keeps, Typed, Noted, Answering, Forsaken
  <2>2. Passes(b, j)
    BY <1>1, <1>6 DEF NtlmChallenge, Passes, Typed, Goto, Noted, ToCome, Headed, Heading, Copies, AtBasic, AtNtlm
  <2>. QED
    BY <2>1, <2>2
<1>7. ASSUME NtlmOver(b, c) PROVE Fine
  <2>1. Keeps(b, j)
    BY <1>1, <1>7 DEF NtlmOver, Keeps, Typed, Noted, Answering, Forsaken
  <2>2. Passes(b, j)
    BY <1>1, <1>7 DEF NtlmOver, Passes, Typed, Goto, Noted, ToCome, Headed, Heading, Copies, AtBasic, AtNtlm
  <2>. QED
    BY <2>1, <2>2
<1>8. CASE NtlmChallenge(b, c)
  <2>1. Within(b, "ntlm") /\ "ntlm" \in Slots
    BY <1>1, <1>8, NtlmWithin, SlotsAre
  <2>2. touched'[b] = touched[b] \ {"ntlm"}
    BY <1>8 DEF NtlmChallenge, Mine
  <2>3. j = "proxy"
    BY <1>1, <1>8 DEF NtlmChallenge
  <2>4. Prepared(b, j) => "ntlm" # Through(b, j)
    BY <1>1, <2>3, ThroughIs DEF Own
  <2>. QED
    BY <1>1, <1>6, <1>8, <2>1, <2>2, <2>4, SparedWithin, OtherKind
<1>9. CASE ~NtlmChallenge(b, c)
  <2>1. Untouching
    BY <1>9 DEF Meets, NoLogin, ProxyNtlm, BasicChallenge, DigestChallenge, NtlmOver, Untouching, shared
  <2>2. Fine
    BY <1>2, <1>3, <1>4, <1>5, <1>7, <1>9 DEF Meets
  <2>. QED
    BY <1>1, <2>1, <2>2, SparedUntouched, OtherKind
<1>. QED
  BY <1>8, <1>9

\* The challenge itself: nothing is prepared, or all that follows is still to be done.
LEMMA MeetsThis ==
    ASSUME LocksInv, NEW b \in Browsers, NEW c \in ChallengeOf, Meets(b, c)
    PROVE  Own(b, c.kind)'
<1>. DEFINE k == c.kind
<1>1. Typed /\ Switched /\ k \in Kinds /\ c.type \in Types /\ c.nonce \in Nat /\ Login(c) \in Nat
  BY ChallengesAre, LoginType DEF LocksInv
<1>2. NoAnswer.challenge = NoChallenge /\ c # NoChallenge
  BY ChallengesAre DEF NoAnswer
<1>3. pc[b] = "sent" /\ pc'[b] \in {"ready", "again", "basic", "got1", "got2"} /\ kind'[b] = k /\ asked'[b][k]
  <2>1. Noted(b, c)
    BY DEF Meets, NoLogin, ProxyNtlm, BasicChallenge, DigestChallenge, NtlmChallenge, NtlmOver
  <2>2. pc'[b] \in {"ready", "again", "basic", "got1", "got2"}
    BY <1>1
       DEF Meets, NoLogin, ProxyNtlm, BasicChallenge, DigestChallenge, NtlmChallenge, NtlmOver, Goto, Typed
  <2>. QED
    BY <1>1, <2>1, <2>2 DEF Noted, Typed
<1>4. Bare(b, k)' /\ ~Headed(b, k)' /\ ~ToCome(b, k)' /\ pc'[b] \notin Copies
  BY <1>3 DEF Bare, Headed, ToCome, Heading, Copies
<1>. HIDE DEF k
<1>5. CASE NoLogin(b, c) \/ ProxyNtlm(b, c) \/ NtlmOver(b, c)
  <2>1. last'[b][k] = NoAnswer
    BY <1>1, <1>5 DEF NoLogin, ProxyNtlm, NtlmOver, Forsaken, Typed, k
  <2>. QED
    BY <1>4, <2>1 DEF Own, Prepared, k
<1>6. CASE BasicChallenge(b, c) \/ DigestChallenge(b, c) \/ NtlmChallenge(b, c)
  <2>1. /\ last'[b][k] = [challenge |-> c, since |-> requests[b]] /\ type'[b][k] = c.type
        /\ at'[b] = Login(c) /\ requests'[b] = requests[b] /\ Login(c) > 0 /\ requests[b] \in Nat
    BY <1>1, <1>6, AuthAssumption DEF BasicChallenge, DigestChallenge, NtlmChallenge, Answering, Typed, k
  <2>2. Posed(b, k)' = c /\ last'[b][k].since = requests[b]
    BY <2>1 DEF Posed
  <2>3. DigestWork(b, k)' /\ Copying(b, k)' /\ Answered(b, k)'
    BY <1>4 DEF DigestWork, Copying, Answered, Copies
  <2>4. c.type = "DIGEST" => own'[b][k] = [challenge |-> c, login |-> Login(c), nc |-> 0]
    BY <1>1, <1>6 DEF BasicChallenge, DigestChallenge, NtlmChallenge, Typed, k
  <2>5. Challenged(b, k)'
    BY <1>3, <1>4, <2>1, <2>2, <2>4 DEF Challenged, k
  <2>6. Count(b, k)'
    BY <1>4, <2>1, <2>2, <2>4 DEF Count
  <2>7. BasicWork(b, k)'
    BY <1>3, <2>1, <2>2 DEF BasicWork
  <2>8. NtlmWork(b, k)'
    <3>1. CASE c.type # "NTLM"
      BY <2>2, <3>1 DEF NtlmWork
    <3>2. CASE NtlmChallenge(b, c)
      <4>1. /\ pc'[b] = IF c.nonce > 0 THEN "got2" ELSE "got1"
            /\ c.nonce > 0 /\ c.sound => ntlm'.nonce = c.nonce
        BY <1>1, <3>2 DEF NtlmChallenge, Goto, Typed
      <4>. QED
        BY <1>1, <2>1, <2>2, <4>1 DEF NtlmWork, AtNtlm
    <3>. QED
      BY <1>6, <3>1, <3>2 DEF BasicChallenge, DigestChallenge
  <2>9. Stays(b, k)'
    <3>1. CASE BasicChallenge(b, c)
      BY <1>1, <1>3, <3>1 DEF BasicChallenge, Goto, Typed, Stays, AtBasic
    <3>2. CASE DigestChallenge(b, c)
      BY <2>2, <3>2 DEF DigestChallenge, Stays
    <3>3. CASE NtlmChallenge(b, c)
      <4>1. k = "www" /\ pc'[b] \in {"got1", "got2"}
        BY <1>1, <3>3 DEF NtlmChallenge, Goto, Typed, k
      <4>. QED
        BY <4>1 DEF Stays, AtNtlm
    <3>. QED
      BY <1>6, <3>1, <3>2, <3>3
  <2>. QED
    BY <1>4, <2>3, <2>5, <2>6, <2>7, <2>8, <2>9 DEF Own, k
<1>. QED
  BY <1>5, <1>6 DEF Meets

\* A new request: what is prepared stays, and the count of its uses goes up with the headers.
LEMMA BeginOwn ==
    ASSUME LocksInv, NEW b \in Browsers, NEW k \in Kinds, Own(b, k), Page(b) \/ Again(b)
    PROVE  Own(b, k)'
<1>1. Typed /\ Switched /\ k \in {"www", "proxy"}
  BY DEF LocksInv, Kinds
<1>2. /\ pc[b] \in {"ready", "again"} /\ pc'[b] = "header" /\ kind'[b] = "www" /\ out'[b][k] = NoHeader
      /\ requests'[b] = requests[b] + 1 /\ requests[b] \in Nat
      /\ asked' = asked /\ type' = type /\ own' = own /\ last' = last /\ touched' = touched
      /\ slot' = slot /\ heap' = heap
  BY <1>1, AuthAssumption DEF Page, Again, Begin, Goto, Typed, shared, ghosts
<1>3. Posed(b, k)' = Posed(b, k) /\ (Prepared(b, k)' <=> Prepared(b, k))
  BY <1>2 DEF Posed, Prepared
<1>4. Bare(b, k)'
  BY <1>2 DEF Bare
<1>5. ASSUME Prepared(b, k)
      PROVE  /\ Challenged(b, k)' /\ Count(b, k)' /\ DigestWork(b, k)' /\ BasicWork(b, k)' /\ NtlmWork(b, k)'
             /\ Copying(b, k)' /\ Stays(b, k)' /\ Answered(b, k)'
  <2>1. Challenged(b, k) /\ Count(b, k) /\ Stays(b, k)
    BY <1>5 DEF Own
  <2>2. ~ToCome(b, k) /\ ToCome(b, k)' /\ ~Headed(b, k)'
    BY <1>1, <1>2 DEF ToCome, Headed, Heading, Copies
  <2>3. last[b][k].since \in Nat
    BY <1>1 DEF Typed, AnswerOf
  <2>4. Challenged(b, k)'
    BY <1>2, <1>3, <2>1, <2>2, <2>3 DEF Challenged
  <2>5. Count(b, k)'
    <3>. SUFFICES ASSUME Posed(b, k).type = "DIGEST", Posed(b, k).sound
                  PROVE  own'[b][k].nc = requests'[b] - last'[b][k].since - 1
      BY <1>3, <2>2 DEF Count
    <3>1. own[b][k].nc = requests[b] - last[b][k].since - 0
      BY <2>1, <2>2 DEF Count
    <3>. QED
      BY <1>2, <2>3, <3>1
  <2>6. DigestWork(b, k)' /\ BasicWork(b, k)' /\ NtlmWork(b, k)' /\ Copying(b, k)' /\ Answered(b, k)'
    BY <1>2, <2>2 DEF DigestWork, BasicWork, NtlmWork, Copying, Answered, AtBasic, AtNtlm
  <2>7. Stays(b, k)'
    <3>. SUFFICES ASSUME Posed(b, k).type \in {"BASIC", "NTLM"}
                  PROVE  Stays(b, k)'
      BY <1>3 DEF Stays
    <3>1. Through(b, k)' = Through(b, k) /\ Text(b, k)' = Text(b, k)
      <4>1. last'[b][k].challenge = last[b][k].challenge
        BY <1>2
      <4>. QED
        BY <1>3, <4>1 DEF Through, Text, Posed
    <3>2. Held(b, k) => Held(b, k)'
      BY <1>2, <3>1 DEF Held, Ready
    <3>. QED
      BY <1>2, <1>3, <2>1, <3>1, <3>2 DEF Stays, Apiece, AtBasic, AtNtlm
  <2>. QED
    BY <2>4, <2>5, <2>6, <2>7
<1>. QED
  BY <1>3, <1>4, <1>5 DEF Own

\* The header of the kind the browser is at is done.
LEMMA ProceedOwn ==
    ASSUME LocksInv, NEW b \in Browsers, NEW k \in Kinds, k = kind[b], Own(b, k), Keeps(b, k), Untouching,
           Proceed(b), pc[b] \in {"header", "copy"},
           Prepared(b, k) => pc[b] = "copy" \/ ~(Posed(b, k).type = "DIGEST" /\ Posed(b, k).sound),
           Prepared(b, k) /\ Apiece(b, k) /\ (Posed(b, k).type = "NTLM" => Posed(b, k).sound) =>
             out'[b][k] = Sent(b, k),
           ~asked[b][k] => out'[b][k] = NoHeader
    PROVE  Own(b, k)'
<1>1. Typed /\ Switched /\ k \in {"www", "proxy"} /\ pc'[b] \in {"header", "sent"}
  BY DEF LocksInv, Kinds, Proceed, Goto, Typed
<1>2. kind'[b] = "proxy" /\ (k = "proxy" => pc'[b] = "sent") /\ (k = "www" => pc'[b] = "header")
  BY <1>1 DEF Proceed, Goto, Typed
<1>3. /\ Posed(b, k)' = Posed(b, k) /\ (Prepared(b, k)' <=> Prepared(b, k)) /\ Through(b, k)' = Through(b, k)
      /\ Sent(b, k)' = Sent(b, k) /\ Text(b, k)' = Text(b, k)
  BY Kept
<1>4. Bare(b, k)'
  BY DEF Bare, Keeps
<1>5. ASSUME Prepared(b, k)
      PROVE  /\ Challenged(b, k)' /\ Count(b, k)' /\ DigestWork(b, k)' /\ BasicWork(b, k)' /\ NtlmWork(b, k)'
             /\ Copying(b, k)' /\ Stays(b, k)' /\ Answered(b, k)'
  <2>1. Challenged(b, k) /\ Count(b, k) /\ Stays(b, k)
    BY <1>5 DEF Own
  <2>2. ~ToCome(b, k)' /\ (pc[b] = "copy" => ~ToCome(b, k))
    BY <1>1, <1>2 DEF ToCome, Heading, Copies
  <2>3. Challenged(b, k)'
    BY <1>3, <2>1, <2>2 DEF Challenged, Keeps
  <2>4. Count(b, k)'
    BY <1>3, <1>5, <2>1, <2>2 DEF Count, Keeps
  <2>5. DigestWork(b, k)' /\ BasicWork(b, k)' /\ NtlmWork(b, k)' /\ Copying(b, k)'
    BY <1>1 DEF DigestWork, BasicWork, NtlmWork, Copying, AtBasic, AtNtlm
  <2>6. Stays(b, k)'
    <3>1. (Apiece(b, k)' <=> Apiece(b, k)) /\ (Held(b, k)' <=> Held(b, k))
      BY <1>3 DEF Apiece, Held, Ready, Untouching
    <3>. QED
      BY <1>3, <2>1, <3>1 DEF Stays, AtBasic, AtNtlm
  <2>7. Answered(b, k)'
    BY <1>3, <1>5 DEF Answered, Apiece, Untouching
  <2>. QED
    BY <2>3, <2>4, <2>5, <2>6, <2>7
<1>. QED
  BY <1>3, <1>4, <1>5 DEF Own

LEMMA ProceedsThis ==
    ASSUME LocksInv, NEW b \in Browsers, Routes(b), NEW k \in Kinds, k = kind[b], Own(b, k),
           NotAsked(b) \/ NoDigest(b) \/ CopyHeader(b)
    PROVE  Own(b, k)'
<1>1. Typed /\ Switched /\ Pointers
  BY DEF LocksInv
<1>2. Keeps(b, k) /\ Untouching /\ Proceed(b) /\ pc[b] \in {"header", "copy"}
  BY DEF NotAsked, NoDigest, CopyHeader, Keeps, Untouching, shared, ghosts
<1>3. CASE NotAsked(b)
  <2>1. ~Prepared(b, k)
    BY <1>3 DEF NotAsked, Own, Challenged
  <2>2. out'[b][k] = NoHeader
    BY <1>3 DEF NotAsked, Own, Bare, Heading
  <2>. QED
    BY <1>2, <2>1, <2>2, ProceedOwn
<1>4. CASE NoDigest(b)
  <2>1. asked[b][k] /\ type[b][k] = "DIGEST"
    BY <1>4 DEF NoDigest
  <2>2. ASSUME Prepared(b, k)
        PROVE  Posed(b, k).type = "DIGEST" /\ ~Posed(b, k).sound /\ out'[b][k] = NullText
    <3>1. /\ Posed(b, k).type = "DIGEST" /\ own[b][k].challenge = Posed(b, k)
          /\ own[b][k].login = Login(Posed(b, k)) /\ Login(Posed(b, k)) > 0 /\ Posed(b, k) \in ChallengeOf
      BY <2>1, <2>2 DEF Own, Challenged
    <3>2. own[b][k].login # 0
      BY <3>1, LoginType
    <3>3. ~Posed(b, k).sound
      BY <1>4, <3>1, <3>2 DEF NoDigest
    <3>4. out' = [out EXCEPT ![b][k] = NullText]
      BY <1>4, <3>2 DEF NoDigest
    <3>. QED
      BY <1>1, <3>1, <3>3, <3>4 DEF Typed
  <2>3. Prepared(b, k) => out'[b][k] = Sent(b, k)
    BY <2>2 DEF Sent
  <2>. QED
    BY <1>2, <2>1, <2>2, <2>3, ProceedOwn
<1>5. CASE CopyHeader(b)
  <2>1. pc[b] = "copy" /\ asked[b][k]
    BY <1>5 DEF CopyHeader, Routes, Copies
  <2>2. ASSUME Prepared(b, k), Apiece(b, k), Posed(b, k).type = "NTLM" => Posed(b, k).sound
        PROVE  out'[b][k] = Sent(b, k)
    <3>1. Challenged(b, k) /\ DigestWork(b, k) /\ Copying(b, k) /\ Stays(b, k)
      BY <2>2 DEF Own
    <3>2. Posed(b, k).type \in {"BASIC", "DIGEST", "NTLM"} /\ type[b][k] = Posed(b, k).type
      BY <3>1, ChallengesAre DEF Challenged, Types
    <3>3. Posed(b, k).type = "DIGEST" => Posed(b, k).sound
      BY <2>1, <3>1, <3>2 DEF Routes, Challenged, Copies
    <3>4. Held(b, k)
      <4>1. CASE Posed(b, k).type = "DIGEST"
        BY <2>1, <2>2, <3>1, <3>3, <4>1 DEF DigestWork
      <4>2. CASE Posed(b, k).type # "DIGEST"
        BY <2>1, <2>2, <3>1, <3>2, <4>2 DEF Stays, AtBasic, AtNtlm
      <4>. QED
        BY <4>1, <4>2
    <3>5. at[b] = slot[Through(b, k)] /\ at[b] # 0 /\ heap[at[b]].live /\ heap[at[b]].text = Text(b, k)
      BY <2>1, <2>2, <3>1, <3>4 DEF Copying, Held, Ready
    <3>6. out' = [out EXCEPT ![b][k] = Fit(Text(b, k), method[b])]
      BY <1>5, <3>5, Zenon DEF CopyHeader
    <3>7. out'[b][k] = Fit(Text(b, k), method[b])
      BY <1>1, <3>6 DEF Typed
    <3>. QED
      BY <3>3, <3>7 DEF Sent
  <2>. QED
    BY <1>2, <2>1, <2>2, ProceedOwn
<1>. QED
  BY <1>3, <1>4, <1>5

LEMMA Counted ==
    ASSUME Typed, NEW b \in Browsers, NEW k \in Kinds
    PROVE  requests[b] \in Nat /\ last[b][k].since \in Nat /\ own[b][k].nc \in Nat
<1>1. requests[b] \in 0 .. MaxRequests /\ last[b][k] \in AnswerOf /\ own[b][k] \in OwnOf
  BY DEF Typed
<1>2. last[b][k].since \in Nat
  BY <1>1 DEF AnswerOf
<1>3. own[b][k].nc \in Nat
  BY <1>1 DEF OwnOf
<1>. QED
  BY <1>1, <1>2, <1>3, AuthAssumption

\* A step on the way to the copy.
LEMMA HeadOwn ==
    ASSUME LocksInv, NEW b \in Browsers, NEW k \in Kinds, k = kind[b], Own(b, k),
           asked'[b][k] = asked[b][k], type'[b][k] = type[b][k], last'[b][k] = last[b][k],
           requests'[b] = requests[b], out'[b][k] = out[b][k], kind'[b] = kind[b],
           pc[b] \in Heading, pc'[b] \in Copies,
           Prepared(b, k) => /\ own'[b][k].challenge = own[b][k].challenge /\ own'[b][k].login = own[b][k].login
                             /\ Count(b, k)' /\ DigestWork(b, k)' /\ Copying(b, k)' /\ Stays(b, k)'
    PROVE  Own(b, k)'
<1>1. Posed(b, k)' = Posed(b, k) /\ (Prepared(b, k)' <=> Prepared(b, k))
  BY DEF Posed, Prepared
<1>2. Bare(b, k)'
  BY DEF Own, Bare
<1>3. ~ToCome(b, k)' /\ ~Headed(b, k)' /\ pc'[b] \notin AtBasic \cup AtNtlm
  BY DEF ToCome, Headed, Copies, AtBasic, AtNtlm
<1>4. ASSUME Prepared(b, k)
      PROVE  /\ Challenged(b, k)' /\ Count(b, k)' /\ DigestWork(b, k)' /\ BasicWork(b, k)' /\ NtlmWork(b, k)'
             /\ Copying(b, k)' /\ Stays(b, k)' /\ Answered(b, k)'
  <2>1. Challenged(b, k)
    BY <1>4 DEF Own
  <2>2. Challenged(b, k)'
    BY <1>1, <1>3, <1>4, <2>1 DEF Challenged
  <2>3. BasicWork(b, k)' /\ NtlmWork(b, k)' /\ Answered(b, k)'
    BY <1>3 DEF BasicWork, NtlmWork, Answered, AtBasic, AtNtlm
  <2>. QED
    BY <1>4, <2>2, <2>3
<1>. QED
  BY <1>1, <1>2, <1>4 DEF Own

LEMMA AllocDigestThis ==
    ASSUME LocksInv, NEW b \in Browsers, NEW k \in Kinds, k = kind[b], Own(b, k), AllocDigest(b)
    PROVE  Own(b, k)'
<1>1. Typed /\ Switched /\ Pointers /\ SlotOf(b) \in Slots /\ heap \in Seq(BufferOf) /\ Len(heap) \in Nat
  <2>1. Typed /\ Switched /\ Pointers
    BY DEF LocksInv
  <2>2. heap \in Seq(BufferOf)
    BY <2>1 DEF Typed
  <2>. QED
    BY <2>1, <2>2, SlotsAre
<1>2. /\ asked' = asked /\ type' = type /\ last' = last /\ requests' = requests /\ out' = out /\ kind' = kind
      /\ method' = method /\ pc[b] = "header" /\ pc'[b] = "print" /\ type[b][k] = "DIGEST"
      /\ slot'[SlotOf(b)] = Len(heap) + 1
  BY <1>1 DEF AllocDigest, Goto, Typed
<1>3. heap'[Len(heap) + 1].live
  <2>1. heap' = More(heap)
    BY DEF AllocDigest, More
  <2>. QED
    BY <1>1, <2>1, Grown
<1>4. /\ own'[b][k].challenge = own[b][k].challenge /\ own'[b][k].login = own[b][k].login
      /\ own'[b][k].nc = own[b][k].nc + 1
  <2>1. PICK o : o = [own[b][k] EXCEPT !.nc = @ + 1]
    OBVIOUS
  <2>2. own' = [own EXCEPT ![b][k] = o]
    BY <2>1, Zenon DEF AllocDigest
  <2>3. own[b][k] \in OwnOf
    BY <1>1 DEF Typed
  <2>4. o.challenge = own[b][k].challenge /\ o.login = own[b][k].login /\ o.nc = own[b][k].nc + 1
    BY <2>1, <2>3 DEF OwnOf
  <2>5. own'[b][k] = o
    BY <1>1, <2>2 DEF Typed
  <2>. QED
    BY <2>4, <2>5
<1>5. ASSUME Prepared(b, k) PROVE Count(b, k)' /\ DigestWork(b, k)' /\ Copying(b, k)' /\ Stays(b, k)'
  <2>1. Challenged(b, k) /\ Count(b, k) /\ Posed(b, k).type = "DIGEST" /\ Posed(b, k)' = Posed(b, k)
    BY <1>2, <1>5 DEF Own, Challenged, Posed
  <2>2. Through(b, k) = SlotOf(b)
    BY <1>1, <2>1, ThroughIs
  <2>3. Through(b, k)' = Through(b, k)
    BY <1>2 DEF Through, FieldOf
  <2>4. ToCome(b, k) /\ ~ToCome(b, k)'
    BY <1>2 DEF ToCome
  <2>5. requests[b] \in Nat /\ last[b][k].since \in Nat /\ own[b][k].nc \in Nat
    BY <1>1, Counted
  <2>6. Count(b, k)'
    <3>. SUFFICES ASSUME Posed(b, k).sound PROVE own'[b][k].nc = requests'[b] - last'[b][k].since - 0
      BY <2>1, <2>4 DEF Count
    <3>1. own[b][k].nc = requests[b] - last[b][k].since - 1
      BY <2>1, <2>4 DEF Count
    <3>. QED
      BY <1>2, <1>4, <2>5, <3>1
  <2>7. Ready(b, k)'
    BY <1>1, <1>2, <1>3, <2>2, <2>3 DEF Ready
  <2>8. DigestWork(b, k)' /\ Copying(b, k)'
    BY <1>2, <2>7 DEF DigestWork, Copying
  <2>9. Stays(b, k)'
    BY <2>1 DEF Stays
  <2>. QED
    BY <2>6, <2>8, <2>9
<1>. QED
  BY <1>2, <1>4, <1>5, HeadOwn DEF Heading, Copies

LEMMA PrintDigestThis ==
    ASSUME LocksInv, NEW b \in Browsers, Routes(b), NEW k \in Kinds, k = kind[b], Own(b, k), PrintDigest(b)
    PROVE  Own(b, k)'
<1>1. Typed /\ Switched /\ Pointers /\ SlotOf(b) \in Slots /\ heap \in Seq(BufferOf) /\ Len(heap) \in Nat
  <2>1. Typed /\ Switched /\ Pointers
    BY DEF LocksInv
  <2>2. heap \in Seq(BufferOf)
    BY <2>1 DEF Typed
  <2>. QED
    BY <2>1, <2>2, SlotsAre
<1>2. /\ asked' = asked /\ type' = type /\ last' = last /\ requests' = requests /\ out' = out /\ kind' = kind
      /\ method' = method /\ own' = own /\ pc[b] = "print" /\ pc'[b] = "header2" /\ slot' = slot
      /\ type[b][k] = "DIGEST" /\ own[b][k].challenge.sound /\ touched'[b] = touched[b]
  BY <1>1 DEF PrintDigest, Goto, Typed, Routes, Copies, Touch
<1>3. ASSUME Prepared(b, k) PROVE Count(b, k)' /\ DigestWork(b, k)' /\ Copying(b, k)' /\ Stays(b, k)'
  <2>1. /\ Challenged(b, k) /\ Count(b, k) /\ DigestWork(b, k) /\ Posed(b, k).type = "DIGEST"
        /\ Posed(b, k)' = Posed(b, k) /\ own[b][k].challenge = Posed(b, k)
        /\ own[b][k].login = Login(Posed(b, k)) /\ Posed(b, k).sound
    BY <1>2, <1>3 DEF Own, Challenged, Posed
  <2>2. Through(b, k) = SlotOf(b)
    BY <1>1, <2>1, ThroughIs
  <2>3. Keeps(b, k)
    BY <1>2 DEF Keeps
  <2>4. Through(b, k)' = Through(b, k) /\ Text(b, k)' = Text(b, k)
    BY <2>3, Kept
  <2>5. ~ToCome(b, k) /\ ~ToCome(b, k)'
    BY <1>2 DEF ToCome
  <2>6. Count(b, k)'
    BY <1>2, <2>1, <2>5 DEF Count
  <2>7. DigestText(b) = Text(b, k)
    <3>1. own[b][k].nc = requests[b] - last[b][k].since - 0
      BY <2>1, <2>5 DEF Count
    <3>2. requests[b] \in Nat /\ last[b][k].since \in Nat /\ own[b][k].nc \in Nat
      BY <1>1, Counted
    <3>3. own[b][k].nc = requests[b] - last[b][k].since
      BY <3>1, <3>2
    <3>. QED
      BY <2>1, <3>3 DEF DigestText, Text
  <2>8. Apiece(b, k)' => Held(b, k)'
    <3>. SUFFICES ASSUME Apiece(b, k)' PROVE Held(b, k)'
      OBVIOUS
    <3>1. Ready(b, k)
      BY <1>2, <2>1, <2>4 DEF DigestWork, Apiece
    <3>2. slot[SlotOf(b)] \in 1 .. Len(heap)
      BY <1>1, <2>2, <3>1 DEF Ready, Typed, Pointers
    <3>3. heap' = WithText(heap, slot[SlotOf(b)], DigestText(b)) /\ DigestText(b) \in HeaderOf
      BY <1>1, PrintDigestWrites
    <3>4. /\ heap'[slot[SlotOf(b)]].text = DigestText(b)
          /\ heap'[slot[SlotOf(b)]].live <=> heap[slot[SlotOf(b)]].live
      BY <1>1, <3>2, <3>3, Written
    <3>. QED
      BY <1>2, <2>2, <2>4, <2>7, <3>1, <3>4 DEF Held, Ready
  <2>9. DigestWork(b, k)' /\ Copying(b, k)'
    BY <1>2, <2>8 DEF DigestWork, Copying
  <2>10. Stays(b, k)'
    BY <2>1 DEF Stays
  <2>. QED
    BY <2>6, <2>9, <2>10
<1>. QED
  BY <1>2, <1>3, HeadOwn DEF Heading, Copies

LEMMA ReadSlotThis ==
    ASSUME LocksInv, NEW b \in Browsers, Routes(b), NEW k \in Kinds, k = kind[b], Own(b, k), ReadSlot(b)
    PROVE  Own(b, k)'
<1>1. Typed /\ Switched /\ Pointers
  BY DEF LocksInv
<1>2. /\ asked' = asked /\ type' = type /\ last' = last /\ requests' = requests /\ out' = out /\ kind' = kind
      /\ method' = method /\ own' = own /\ pc[b] \in {"header", "header2"} /\ pc'[b] = "copy"
      /\ (pc[b] = "header" <=> type[b][k] # "DIGEST") /\ at'[b] = slot[SlotOf(b)]
  <2>1. pc[b] = "header2" => type[b][k] = "DIGEST"
    BY DEF Routes
  <2>2. \/ pc[b] = "header2"
        \/ pc[b] = "header" /\ type[b][k] # "DIGEST"
    BY DEF ReadSlot
  <2>3. /\ asked' = asked /\ type' = type /\ last' = last /\ requests' = requests /\ out' = out /\ kind' = kind
        /\ method' = method /\ own' = own
    BY DEF ReadSlot, ghosts
  <2>4. pc'[b] = "copy" /\ at'[b] = slot[SlotOf(b)]
    BY <1>1 DEF ReadSlot, Goto, Typed
  <2>. QED
    BY <2>1, <2>2, <2>3, <2>4
<1>3. Untouching /\ Keeps(b, k)
  BY DEF ReadSlot, Untouching, Keeps, shared, ghosts
<1>4. ASSUME Prepared(b, k) PROVE Count(b, k)' /\ DigestWork(b, k)' /\ Copying(b, k)' /\ Stays(b, k)'
  <2>1. /\ Challenged(b, k) /\ Count(b, k) /\ DigestWork(b, k) /\ Stays(b, k)
        /\ type[b][k] = Posed(b, k).type /\ Posed(b, k)' = Posed(b, k)
    BY <1>2, <1>4 DEF Own, Challenged, Posed
  <2>2. Through(b, k) = SlotOf(b)
    BY <1>1, <2>1, ThroughIs
  <2>3. Through(b, k)' = Through(b, k) /\ Text(b, k)' = Text(b, k)
    BY <1>3, Kept
  <2>4. (Apiece(b, k)' <=> Apiece(b, k)) /\ (Held(b, k)' <=> Held(b, k))
    BY <1>3, <2>3 DEF Untouching, Apiece, Held, Ready
  <2>5. ~ToCome(b, k)' /\ (Posed(b, k).type = "DIGEST" => ~ToCome(b, k))
    BY <1>2, <2>1 DEF ToCome
  <2>6. Count(b, k)'
    BY <1>2, <2>1, <2>5 DEF Count
  <2>7. DigestWork(b, k)'
    BY <1>2, <2>1, <2>4 DEF DigestWork
  <2>8. Copying(b, k)'
    BY <1>2, <1>3, <2>2, <2>3 DEF Copying, Untouching
  <2>9. Stays(b, k)'
    BY <1>2, <2>1, <2>4 DEF Stays, AtBasic, AtNtlm
  <2>. QED
    BY <2>6, <2>7, <2>8, <2>9
<1>. QED
  BY <1>2, <1>4, HeadOwn DEF Heading, Copies

\* A step at an answer that has yet to be written.
LEMMA WorkOwn ==
    ASSUME NEW b \in Browsers, NEW k \in Kinds, Own(b, k), Keeps(b, k), kind'[b] = kind[b],
           pc[b] \in AtBasic \cup AtNtlm, pc'[b] \in AtBasic \cup AtNtlm \cup {"again"},
           Prepared(b, k) => BasicWork(b, k)' /\ NtlmWork(b, k)' /\ Stays(b, k)'
    PROVE  Own(b, k)'
<1>1. Posed(b, k)' = Posed(b, k) /\ (Prepared(b, k)' <=> Prepared(b, k))
  BY Kept
<1>2. /\ ~ToCome(b, k) /\ ~ToCome(b, k)' /\ ~Headed(b, k)' /\ pc'[b] \notin Copies
      /\ pc'[b] \notin Heading \cup {"sent"}
  BY DEF ToCome, Headed, Heading, Copies, AtBasic, AtNtlm
<1>3. Bare(b, k)'
  BY <1>2 DEF Bare
<1>4. ASSUME Prepared(b, k)
      PROVE  /\ Challenged(b, k)' /\ Count(b, k)' /\ DigestWork(b, k)' /\ BasicWork(b, k)' /\ NtlmWork(b, k)'
             /\ Copying(b, k)' /\ Stays(b, k)' /\ Answered(b, k)'
  <2>1. Challenged(b, k) /\ Count(b, k)
    BY <1>4 DEF Own
  <2>2. Challenged(b, k)'
    BY <1>1, <1>2, <2>1 DEF Challenged, Keeps
  <2>3. Count(b, k)'
    BY <1>1, <1>2, <2>1 DEF Count, Keeps
  <2>4. DigestWork(b, k)' /\ Copying(b, k)' /\ Answered(b, k)'
    BY <1>2 DEF DigestWork, Copying, Answered, Copies
  <2>. QED
    BY <1>4, <2>2, <2>3, <2>4
<1>. QED
  BY <1>1, <1>3, <1>4 DEF Own

LEMMA BasicThis ==
    ASSUME LocksInv, NEW b \in Browsers, Routes(b), NEW k \in Kinds, k = kind[b], Own(b, k),
           FreeBasic(b) \/ AllocBasic(b) \/ FillBasic(b)
    PROVE  Own(b, k)'
<1>1. /\ Typed /\ Switched /\ Pointers /\ BasicSlot(b) \in Slots /\ heap \in Seq(BufferOf)
      /\ Len(heap) \in Nat /\ slot \in [Slots -> Nat]
  <2>1. Typed /\ Switched /\ Pointers
    BY DEF LocksInv
  <2>2. heap \in Seq(BufferOf) /\ slot \in [Slots -> Nat]
    BY <2>1 DEF Typed
  <2>. QED
    BY <2>1, <2>2, SlotsAre
<1>2. Keeps(b, k) /\ kind'[b] = kind[b] /\ at' = at
  BY DEF FreeBasic, AllocBasic, FillBasic, Keeps
<1>3. /\ FreeBasic(b) => pc[b] = "basic" /\ pc'[b] = "alloc"
      /\ AllocBasic(b) => pc[b] = "alloc" /\ pc'[b] = "fill"
      /\ FillBasic(b) => pc[b] = "fill" /\ pc'[b] = "again"
  BY <1>1 DEF FreeBasic, AllocBasic, FillBasic, Goto, Typed
<1>4. pc[b] \in AtBasic /\ pc'[b] \in AtBasic \cup {"again"}
  BY <1>3 DEF AtBasic
<1>5. ASSUME Prepared(b, k) PROVE BasicWork(b, k)' /\ NtlmWork(b, k)' /\ Stays(b, k)'
  <2>1. Challenged(b, k) /\ BasicWork(b, k) /\ Posed(b, k).type = "BASIC"
    BY <1>4, <1>5 DEF Own, Routes, Challenged
  <2>2. /\ Posed(b, k)' = Posed(b, k) /\ Through(b, k)' = Through(b, k) /\ Text(b, k)' = Text(b, k)
        /\ Through(b, k) = BasicSlot(b)
    BY <1>1, <1>2, <2>1, Kept, ThroughIs DEF BasicSlot
  <2>3. at[b] = Login(Posed(b, k))
    BY <1>4, <2>1 DEF BasicWork
  <2>4. NtlmWork(b, k)'
    BY <2>1, <2>2 DEF NtlmWork
  <2>5. CASE FreeBasic(b)
    BY <1>2, <1>3, <2>2, <2>3, <2>4, <2>5 DEF BasicWork, Stays, AtBasic
  <2>6. CASE AllocBasic(b)
    <3>1. heap' = More(heap) /\ slot' = [slot EXCEPT ![BasicSlot(b)] = Len(heap) + 1]
      BY <2>6 DEF AllocBasic, More
    <3>2. heap'[Len(heap) + 1].live /\ slot'[BasicSlot(b)] = Len(heap) + 1
      BY <1>1, <3>1, Grown
    <3>3. Ready(b, k)'
      BY <1>1, <2>2, <3>2 DEF Ready
    <3>. QED
      BY <1>2, <1>3, <2>2, <2>3, <2>4, <2>6, <3>3 DEF BasicWork, Stays, AtBasic
  <2>7. CASE FillBasic(b)
    <3>1. BasicText(b) = Text(b, k)
      BY <2>1, <2>3 DEF BasicText, Text
    <3>2. ASSUME Apiece(b, k)' PROVE Held(b, k)'
      <4>1. touched'[b] = touched[b] /\ slot' = slot
        BY <1>1, <2>7 DEF FillBasic, Touch
      <4>2. Ready(b, k)
        BY <1>3, <2>1, <2>2, <2>7, <3>2, <4>1 DEF BasicWork, Apiece
      <4>3. slot[BasicSlot(b)] \in 1 .. Len(heap)
        BY <1>1, <2>2, <4>2 DEF Ready, Pointers
      <4>4. heap' = WithText(heap, slot[BasicSlot(b)], BasicText(b)) /\ BasicText(b) \in HeaderOf
        BY <1>1, <2>7, FillBasicWrites
      <4>5. /\ heap'[slot[BasicSlot(b)]].text = BasicText(b)
            /\ heap'[slot[BasicSlot(b)]].live <=> heap[slot[BasicSlot(b)]].live
        BY <1>1, <4>3, <4>4, Written
      <4>. QED
        BY <2>2, <3>1, <4>1, <4>2, <4>5 DEF Held, Ready
    <3>3. BasicWork(b, k)'
      BY <1>3, <2>7 DEF BasicWork, AtBasic
    <3>4. Stays(b, k)'
      BY <3>2 DEF Stays
    <3>. QED
      BY <2>4, <3>3, <3>4
  <2>. QED
    BY <2>5, <2>6, <2>7
<1>. QED
  BY <1>2, <1>4, <1>5, WorkOwn

LEMMA NtlmThis ==
    ASSUME LocksInv, NEW b \in Browsers, Routes(b), NEW k \in Kinds, k = kind[b], Own(b, k),
           \/ NtlmState(b) \/ NtlmSwitch(b) \/ NtlmType1(b) \/ NtlmSent1(b) \/ NtlmHash(b) \/ NtlmSent3(b)
           \/ NtlmRealloc(b) \/ NtlmMoved(b) \/ NtlmFill(b)
    PROVE  Own(b, k)'
<1>1. /\ Typed /\ Switched /\ Pointers /\ "ntlm" \in Slots /\ heap \in Seq(BufferOf)
      /\ Len(heap) \in Nat /\ slot \in [Slots -> Nat] /\ hash \in [Browsers -> Nat]
      /\ ntlm \in [state : {"N", "1", "2", "3"}, nonce : Nat]
  <2>1. Typed /\ Switched /\ Pointers
    BY DEF LocksInv
  <2>2. /\ heap \in Seq(BufferOf) /\ slot \in [Slots -> Nat] /\ hash \in [Browsers -> Nat]
        /\ ntlm \in [state : {"N", "1", "2", "3"}, nonce : Nat]
    BY <2>1 DEF Typed
  <2>. QED
    BY <2>1, <2>2, SlotsAre
<1>2. Keeps(b, k) /\ kind'[b] = kind[b] /\ at' = at
  BY DEF NtlmState, NtlmSwitch, NtlmType1, NtlmSent1, NtlmHash, NtlmSent3, NtlmRealloc, NtlmMoved, NtlmFill,
         Keeps, ghosts
<1>3. touched'[b] = touched[b]
  BY <1>1
     DEF NtlmState, NtlmSwitch, NtlmType1, NtlmSent1, NtlmHash, NtlmSent3, NtlmRealloc, NtlmMoved, NtlmFill,
         SetState, Touch, ghosts
<1>4. /\ NtlmState(b) => pc[b] \in {"got1", "got2"} /\ pc'[b] = "ntlm"
      /\ NtlmSwitch(b) =>
           /\ pc[b] = "ntlm"
           /\ \/ ntlm.state = "1" /\ pc'[b] = "type1"
              \/ ntlm.state = "2" /\ pc'[b] = "type3"
              \/ ntlm.state = "3" /\ pc'[b] = "again"
      /\ NtlmType1(b) => pc[b] = "type1" /\ pc'[b] = "sent1"
      /\ NtlmSent1(b) => pc[b] = "sent1" /\ pc'[b] = "fill1"
      /\ NtlmHash(b) => pc[b] = "type3" /\ pc'[b] = "sent3"
      /\ NtlmSent3(b) => pc[b] = "sent3" /\ pc'[b] = "realloc"
      /\ NtlmRealloc(b) => pc[b] = "realloc" /\ pc'[b] = "moved"
      /\ NtlmMoved(b) => pc[b] = "moved" /\ pc'[b] = "fill3"
      /\ NtlmFill(b) => pc[b] \in {"fill1", "fill3"} /\ pc'[b] = "again"
  <2>1. pc \in [Browsers -> Places]
    BY <1>1 DEF Typed
  <2>2. NtlmSwitch(b) =>
          /\ pc[b] = "ntlm"
          /\ \/ ntlm.state = "1" /\ pc'[b] = "type1"
             \/ ntlm.state = "2" /\ pc'[b] = "type3"
             \/ ntlm.state = "3" /\ pc'[b] = "again"
    <3>. SUFFICES ASSUME NtlmSwitch(b)
                  PROVE  \/ ntlm.state = "1" /\ pc'[b] = "type1"
                         \/ ntlm.state = "2" /\ pc'[b] = "type3"
                         \/ ntlm.state = "3" /\ pc'[b] = "again"
      BY DEF NtlmSwitch
    <3>1. ntlm.state \in {"1", "2", "3"}
      BY <1>1 DEF NtlmSwitch, Switched
    <3>. QED
      BY <2>1, <3>1 DEF NtlmSwitch, Goto
  <2>3. /\ NtlmState(b) => pc[b] \in {"got1", "got2"} /\ pc'[b] = "ntlm"
        /\ NtlmType1(b) => pc[b] = "type1" /\ pc'[b] = "sent1"
        /\ NtlmSent1(b) => pc[b] = "sent1" /\ pc'[b] = "fill1"
        /\ NtlmHash(b) => pc[b] = "type3" /\ pc'[b] = "sent3"
    BY <2>1 DEF NtlmState, NtlmType1, NtlmSent1, NtlmHash, Goto
  <2>4. /\ NtlmSent3(b) => pc[b] = "sent3" /\ pc'[b] = "realloc"
        /\ NtlmRealloc(b) => pc[b] = "realloc" /\ pc'[b] = "moved"
        /\ NtlmMoved(b) => pc[b] = "moved" /\ pc'[b] = "fill3"
        /\ NtlmFill(b) => pc[b] \in {"fill1", "fill3"} /\ pc'[b] = "again"
    BY <2>1 DEF NtlmSent3, NtlmRealloc, NtlmMoved, NtlmFill, Goto
  <2>. QED
    BY <2>2, <2>3, <2>4, Zenon
<1>5. pc[b] \in AtNtlm /\ pc'[b] \in AtNtlm \cup {"again"}
  BY <1>4 DEF AtNtlm
<1>6. k = "www" /\ type[b]["www"] = "NTLM"
  BY <1>5 DEF Routes
<1>7. ASSUME Prepared(b, k) PROVE BasicWork(b, k)' /\ NtlmWork(b, k)' /\ Stays(b, k)'
  <2>1. Challenged(b, k) /\ NtlmWork(b, k) /\ Posed(b, k).type = "NTLM" /\ Posed(b, k).nonce \in Nat
    BY <1>6, <1>7, ChallengesAre DEF Own, Challenged
  <2>2. /\ Posed(b, k)' = Posed(b, k) /\ Through(b, k)' = Through(b, k) /\ Text(b, k)' = Text(b, k)
        /\ Through(b, k) = "ntlm" /\ (Apiece(b, k)' <=> Apiece(b, k))
    BY <1>1, <1>2, <1>3, <2>1, Kept, ThroughIs DEF Apiece
  <2>3. BasicWork(b, k)'
    BY <2>1, <2>2 DEF BasicWork
  <2>. SUFFICES ASSUME Posed(b, k).sound, Apiece(b, k)
                PROVE  NtlmWork(b, k)' /\ Stays(b, k)'
    BY <2>1, <2>2, <2>3 DEF NtlmWork, Stays
  <2>4. at[b] = Login(Posed(b, k))
    BY <1>5, <2>1 DEF NtlmWork
  <2>5. pc'[b] # "again" => Stays(b, k)'
    BY <1>5, <1>6 DEF Stays
  <2>6. CASE NtlmState(b)
    <3>1. /\ ntlm'.state = IF pc[b] = "got1" THEN "1" ELSE "2"
          /\ ntlm'.nonce = ntlm.nonce
      BY <1>1, <2>6 DEF NtlmState, SetState
    <3>. QED
      BY <1>2, <1>4, <2>1, <2>2, <2>4, <2>5, <2>6, <3>1 DEF NtlmWork
  <2>7. CASE NtlmSwitch(b)
    <3>1. ntlm' = ntlm /\ hash' = hash
      BY <2>7 DEF NtlmSwitch, shared
    <3>2. \/ ntlm.state = "1" /\ Posed(b, k).nonce = 0
          \/ ntlm.state = "2" /\ Posed(b, k).nonce > 0 /\ ntlm.nonce = Posed(b, k).nonce
      BY <1>4, <2>1, <2>7 DEF NtlmWork
    <3>. QED
      BY <1>2, <1>4, <2>1, <2>2, <2>4, <2>5, <2>7, <3>1, <3>2 DEF NtlmWork
  <2>8. CASE NtlmType1(b)
    <3>1. heap' = More(heap) /\ slot' = [slot EXCEPT !["ntlm"] = Len(heap) + 1] /\ hash' = [hash EXCEPT ![b] = 0]
      BY <2>8 DEF NtlmType1, StoreNtlm, More
    <3>2. heap'[Len(heap) + 1].live /\ slot'["ntlm"] = Len(heap) + 1 /\ hash'[b] = 0
      BY <1>1, <3>1, Grown
    <3>3. Ready(b, k)'
      BY <1>1, <2>2, <3>2 DEF Ready
    <3>4. Posed(b, k).nonce = 0
      BY <1>4, <2>1, <2>8 DEF NtlmWork
    <3>. QED
      BY <1>2, <1>4, <2>1, <2>2, <2>4, <2>5, <2>8, <3>2, <3>3, <3>4 DEF NtlmWork
  <2>9. CASE NtlmSent1(b)
    <3>1. slot' = slot /\ heap' = heap /\ hash' = hash
      BY <2>9 DEF NtlmSent1
    <3>2. Posed(b, k).nonce = 0 /\ hash[b] = 0 /\ Ready(b, k)
      BY <1>4, <2>1, <2>9 DEF NtlmWork
    <3>3. Ready(b, k)'
      BY <2>2, <3>1, <3>2 DEF Ready
    <3>. QED
      BY <1>2, <1>4, <2>1, <2>2, <2>4, <2>5, <2>9, <3>1, <3>2, <3>3 DEF NtlmWork
  <2>10. CASE NtlmHash(b)
    <3>1. hash'[b] = ntlm.nonce
      BY <1>1, <2>10 DEF NtlmHash
    <3>2. Posed(b, k).nonce > 0 /\ ntlm.nonce = Posed(b, k).nonce
      BY <1>4, <2>1, <2>10 DEF NtlmWork
    <3>. QED
      BY <1>2, <1>4, <2>1, <2>2, <2>4, <2>5, <2>10, <3>1, <3>2 DEF NtlmWork
  <2>11. CASE NtlmSent3(b) \/ NtlmRealloc(b)
    <3>1. hash' = hash
      BY <2>11 DEF NtlmSent3, NtlmRealloc
    <3>2. Posed(b, k).nonce > 0 /\ hash[b] = Posed(b, k).nonce
      BY <1>4, <2>1, <2>11 DEF NtlmWork
    <3>. QED
      BY <1>2, <1>4, <2>1, <2>2, <2>4, <2>5, <2>11, <3>1, <3>2 DEF NtlmWork
  <2>12. CASE NtlmMoved(b)
    <3>1. heap' = More(heap) /\ slot' = [slot EXCEPT !["ntlm"] = Len(heap) + 1] /\ hash' = [hash EXCEPT ![b] = hash[b]]
      BY <2>12 DEF NtlmMoved, StoreNtlm, More
    <3>2. heap'[Len(heap) + 1].live /\ slot'["ntlm"] = Len(heap) + 1 /\ hash'[b] = hash[b]
      BY <1>1, <3>1, Grown
    <3>3. Ready(b, k)'
      BY <1>1, <2>2, <3>2 DEF Ready
    <3>4. Posed(b, k).nonce > 0 /\ hash[b] = Posed(b, k).nonce
      BY <1>4, <2>1, <2>12 DEF NtlmWork
    <3>. QED
      BY <1>2, <1>4, <2>1, <2>2, <2>4, <2>5, <2>12, <3>2, <3>3, <3>4 DEF NtlmWork
  <2>13. CASE NtlmFill(b)
    <3>1. /\ Ready(b, k) /\ hash[b] = Posed(b, k).nonce
          /\ (IF pc[b] = "fill3" THEN at[b] ELSE 0) = (IF Posed(b, k).nonce = 0 THEN 0 ELSE Login(Posed(b, k)))
      BY <1>4, <2>1, <2>4, <2>13 DEF NtlmWork
    <3>2. NtlmText(b) = Text(b, k)
      BY <2>1, <3>1 DEF NtlmText, Text
    <3>3. slot["ntlm"] \in 1 .. Len(heap) /\ slot' = slot
      BY <1>1, <2>2, <2>13, <3>1 DEF Ready, Pointers, NtlmFill
    <3>4. heap' = WithText(heap, slot["ntlm"], NtlmText(b)) /\ NtlmText(b) \in HeaderOf
      BY <1>1, <2>13, NtlmFillWrites
    <3>5. heap'[slot["ntlm"]].text = NtlmText(b) /\ (heap'[slot["ntlm"]].live <=> heap[slot["ntlm"]].live)
      BY <1>1, <3>3, <3>4, Written
    <3>6. Held(b, k)'
      BY <2>2, <3>1, <3>2, <3>3, <3>5 DEF Held, Ready
    <3>. QED
      BY <1>4, <2>13, <3>6 DEF NtlmWork, Stays, AtNtlm
  <2>. QED
    BY <2>6, <2>7, <2>8, <2>9, <2>10, <2>11, <2>12, <2>13
<1>. QED
  BY <1>2, <1>5, <1>7, WorkOwn

LEMMA RoutesOwn ==
    ASSUME LocksInv, NEW b \in Browsers, Step(b), Routes(b), \A k \in Kinds : Own(b, k)
    PROVE  Routes(b)'
<1>. DEFINE Still == /\ kind'[b] = kind[b] /\ asked' = asked /\ type' = type /\ last' = last
            Away == pc'[b] \notin Copies \cup AtBasic \cup AtNtlm
<1>1. Typed /\ Switched /\ pc \in [Browsers -> Places] /\ kind \in [Browsers -> Kinds]
  <2>1. Typed /\ Switched
    BY DEF LocksInv
  <2>. QED
    BY <2>1 DEF Typed
<1>2. Away => Routes(b)'
  BY DEF Routes, Copies
<1>3. ASSUME \/ LoadIndex(b) \/ StoreIndex(b) \/ TakeUrl(b) \/ Page(b) \/ Again(b) \/ Accepted(b)
             \/ FillBasic(b) \/ NtlmFill(b)
      PROVE  Away
  BY <1>1, <1>3
     DEF LoadIndex, StoreIndex, TakeUrl, Page, Again, Accepted, FillBasic, NtlmFill, Goto, Copies, AtBasic, AtNtlm
<1>4. ASSUME NotAsked(b) \/ NoDigest(b) \/ CopyHeader(b) PROVE Away
  <2>1. Proceed(b)
    BY <1>4 DEF NotAsked, NoDigest, CopyHeader
  <2>. QED
    BY <1>1, <2>1 DEF Proceed, Goto, Copies, AtBasic, AtNtlm
<1>5. ASSUME AllocDigest(b) PROVE Routes(b)'
  <2>1. /\ Still /\ pc'[b] = "print" /\ asked[b][kind[b]] /\ type[b][kind[b]] = "DIGEST"
        /\ own[b][kind[b]].challenge.sound
    BY <1>1, <1>5 DEF AllocDigest, Goto
  <2>2. own'[b][kind[b]].challenge = own[b][kind[b]].challenge
    <3>1. PICK o : o = [own[b][kind[b]] EXCEPT !.nc = @ + 1]
      OBVIOUS
    <3>2. own' = [own EXCEPT ![b][kind[b]] = o]
      BY <1>5, <3>1, Zenon DEF AllocDigest
    <3>3. own[b][kind[b]] \in OwnOf /\ own \in [Browsers -> [Kinds -> OwnOf]]
      BY <1>1 DEF Typed
    <3>4. o.challenge = own[b][kind[b]].challenge
      BY <3>1, <3>3 DEF OwnOf
    <3>5. own'[b][kind[b]] = o
      BY <1>1, <3>2, <3>3
    <3>. QED
      BY <3>4, <3>5
  <2>. QED
    BY <2>1, <2>2 DEF Routes, AtBasic, AtNtlm, Copies
<1>6. ASSUME PrintDigest(b) PROVE Routes(b)'
  <2>1. Still /\ own' = own /\ pc[b] = "print" /\ pc'[b] = "header2"
    BY <1>1, <1>6 DEF PrintDigest, Goto
  <2>. QED
    BY <2>1 DEF Routes, AtBasic, AtNtlm, Copies
<1>7. ASSUME ReadSlot(b) PROVE Routes(b)'
  <2>1. Still /\ own' = own /\ pc'[b] = "copy"
    BY <1>1, <1>7 DEF ReadSlot, Goto, ghosts
  <2>2. \/ pc[b] = "header2"
        \/ pc[b] = "header" /\ asked[b][kind[b]] /\ type[b][kind[b]] # "DIGEST"
    BY <1>7 DEF ReadSlot
  <2>. QED
    BY <2>1, <2>2 DEF Routes, AtBasic, AtNtlm, Copies
<1>8. ASSUME FreeBasic(b) \/ AllocBasic(b) PROVE Routes(b)'
  <2>1. Still /\ pc[b] \in AtBasic /\ pc'[b] \in AtBasic
    BY <1>1, <1>8 DEF FreeBasic, AllocBasic, Goto, AtBasic
  <2>. QED
    BY <2>1 DEF Routes, Prepared, AtBasic, AtNtlm, Copies
<1>9. ASSUME \/ NtlmState(b) \/ NtlmSwitch(b) \/ NtlmType1(b) \/ NtlmSent1(b) \/ NtlmHash(b) \/ NtlmSent3(b)
             \/ NtlmRealloc(b) \/ NtlmMoved(b)
      PROVE  Routes(b)'
  <2>1. Still
    BY <1>9 DEF NtlmState, NtlmSwitch, NtlmType1, NtlmSent1, NtlmHash, NtlmSent3, NtlmRealloc, NtlmMoved, ghosts
  <2>2. pc[b] \in AtNtlm
    BY <1>9
       DEF NtlmState, NtlmSwitch, NtlmType1, NtlmSent1, NtlmHash, NtlmSent3, NtlmRealloc, NtlmMoved, AtNtlm
  <2>3. pc'[b] \in AtNtlm \cup {"again"}
    <3>1. NtlmSwitch(b) => ntlm.state \in {"1", "2", "3"}
      BY <1>1 DEF NtlmSwitch, Switched, Typed
    <3>2. CASE NtlmSwitch(b)
      BY <1>1, <3>1, <3>2 DEF NtlmSwitch, Goto, AtNtlm
    <3>3. CASE ~NtlmSwitch(b)
      BY <1>1, <1>9, <3>3
         DEF NtlmState, NtlmType1, NtlmSent1, NtlmHash, NtlmSent3, NtlmRealloc, NtlmMoved, Goto, AtNtlm
    <3>. QED
      BY <3>2, <3>3
  <2>. QED
    BY <2>1, <2>2, <2>3 DEF Routes, Prepared, AtBasic, AtNtlm, Copies
<1>10. ASSUME NEW c \in ChallengeOf, Meets(b, c) PROVE Routes(b)'
  <2>1. c.kind \in Kinds /\ c.type \in Types /\ c # NoChallenge /\ NoAnswer.challenge = NoChallenge
    BY ChallengesAre DEF NoAnswer
  <2>2. CASE NoLogin(b, c) \/ ProxyNtlm(b, c) \/ NtlmOver(b, c) \/ DigestChallenge(b, c)
    <3>1. Away
      BY <1>1, <2>2 DEF NoLogin, ProxyNtlm, NtlmOver, DigestChallenge, Goto, AtBasic, AtNtlm, Copies
    <3>. QED
      BY <1>2, <3>1
  <2>3. CASE BasicChallenge(b, c) \/ NtlmChallenge(b, c)
    <3>1. /\ kind'[b] = c.kind /\ type'[b][c.kind] = c.type
          /\ last'[b][c.kind] = [challenge |-> c, since |-> requests[b]]
      BY <1>1, <2>1, <2>3 DEF BasicChallenge, NtlmChallenge, Noted, Answering, Typed
    <3>2. Prepared(b, c.kind)'
      BY <2>1, <3>1 DEF Prepared
    <3>3. CASE BasicChallenge(b, c)
      <4>1. pc'[b] = "basic" /\ c.type = "BASIC"
        BY <1>1, <3>3 DEF BasicChallenge, Goto
      <4>. QED
        BY <3>1, <3>2, <4>1 DEF Routes, Prepared, AtBasic, AtNtlm, Copies
    <3>4. CASE NtlmChallenge(b, c)
      <4>1. pc'[b] \in {"got1", "got2"} /\ c.type = "NTLM" /\ c.kind = "www"
        BY <1>1, <3>4 DEF NtlmChallenge, Goto
      <4>. QED
        BY <3>1, <3>2, <4>1 DEF Routes, Prepared, AtBasic, AtNtlm, Copies
    <3>. QED
      BY <2>3, <3>3, <3>4
  <2>. QED
    BY <1>10, <2>2, <2>3 DEF Meets
<1>. HIDE DEF Away, Still
<1>. QED
  BY <1>2, <1>3, <1>4, <1>5, <1>6, <1>7, <1>8, <1>9, <1>10, Zenon DEF Step, Quietly, InMemory

LEMMA StepOwn ==
    ASSUME LocksInv, NEW b \in Browsers, Step(b), Routes(b), \A k \in Kinds : Own(b, k), NEW k \in Kinds
    PROVE  Own(b, k)'
<1>1. CASE LoadIndex(b) \/ StoreIndex(b) \/ TakeUrl(b) \/ Accepted(b)
  BY <1>1, QuietOther, Zenon
<1>2. CASE Page(b) \/ Again(b)
  BY <1>2, BeginOwn, Zenon
<1>3. CASE NotAsked(b) \/ NoDigest(b) \/ CopyHeader(b)
  BY <1>3, QuietOther, ProceedsThis, Zenon
<1>4. CASE ReadSlot(b)
  BY <1>4, QuietOther, ReadSlotThis, Zenon
<1>5. CASE AllocDigest(b) \/ PrintDigest(b)
  BY <1>5, WritesOther, AllocDigestThis, PrintDigestThis, Zenon
<1>6. CASE FreeBasic(b) \/ AllocBasic(b) \/ FillBasic(b)
  BY <1>6, WritesOther, BasicThis, Zenon
<1>7. CASE \/ NtlmState(b) \/ NtlmSwitch(b) \/ NtlmType1(b) \/ NtlmSent1(b) \/ NtlmHash(b) \/ NtlmSent3(b)
           \/ NtlmRealloc(b) \/ NtlmMoved(b) \/ NtlmFill(b)
  <2>1. CASE k = kind[b]
    BY <1>7, <2>1, NtlmThis, Zenon
  <2>2. CASE k # kind[b]
    BY <1>7, <2>2, QuietOther, WritesOther, Zenon
  <2>. QED
    BY <2>1, <2>2
<1>8. ASSUME NEW c \in ChallengeOf, Meets(b, c) PROVE Own(b, k)'
  BY <1>8, MeetsOther, MeetsThis, Zenon
<1>. QED
  BY <1>1, <1>2, <1>3, <1>4, <1>5, <1>6, <1>7, <1>8, Zenon DEF Step, Quietly, InMemory

AnswersInv == LocksInv /\ \A b \in Browsers : Routes(b) /\ \A k \in Kinds : Own(b, k)

LEMMA InitAnswers == ASSUME Init PROVE AnswersInv
<1>1. LocksInv /\ Typed
  BY InitLocks DEF LocksInv
<1>2. ASSUME NEW b \in Browsers PROVE Routes(b) /\ \A k \in Kinds : Own(b, k)
  <2>1. pc[b] \in {"start", "ready"} /\ \A k \in Kinds : last[b][k] = NoAnswer
    BY <1>2 DEF Init
  <2>2. Routes(b)
    BY <2>1 DEF Routes, Copies, AtBasic, AtNtlm
  <2>3. \A k \in Kinds : Own(b, k)
    BY <2>1 DEF Own, Prepared, Bare, Heading, Copies
  <2>. QED
    BY <2>2, <2>3
<1>. QED
  BY <1>1, <1>2 DEF AnswersInv

LEMMA StepAnswers == ASSUME AnswersInv, NEW b \in Browsers, Step(b) PROVE AnswersInv'
<1>1. LocksInv /\ Typed /\ LocksInv'
  BY StepLocks DEF AnswersInv, LocksInv
<1>2. ASSUME NEW d \in Browsers PROVE Routes(d)' /\ \A k \in Kinds : Own(d, k)'
  <2>1. Routes(d) /\ \A k \in Kinds : Own(d, k)
    BY <1>2 DEF AnswersInv
  <2>2. CASE d = b
    BY <1>1, <2>1, <2>2, RoutesOwn, StepOwn, Zenon
  <2>3. CASE d # b
    <3>1. d \in Browsers \ {b}
      BY <1>2, <2>3
    <3>. QED
      BY <1>1, <2>1, <3>1, OthersRoutes, OthersOwn, Zenon
  <2>. QED
    BY <2>2, <2>3
<1>. QED
  BY <1>1, <1>2 DEF AnswersInv

LEMMA IdleAnswers == ASSUME AnswersInv, UNCHANGED authVars PROVE AnswersInv'
<1>1. LocksInv'
  BY IdleLocks DEF AnswersInv
<1>2. ASSUME NEW b \in Browsers, NEW k \in Kinds PROVE Own(b, k)'
  <2>1. Own(b, k) /\ Keeps(b, k) /\ Untouching /\ pc' = pc /\ kind' = kind /\ at' = at /\ hash' = hash /\ out' = out
    BY DEF AnswersInv, authVars, shared, private, ghosts, Keeps, Untouching
  <2>2. /\ Posed(b, k)' = Posed(b, k) /\ (Prepared(b, k)' <=> Prepared(b, k)) /\ Through(b, k)' = Through(b, k)
        /\ Text(b, k)' = Text(b, k) /\ Sent(b, k)' = Sent(b, k)
    BY <2>1, Kept
  <2>3. /\ (Apiece(b, k)' <=> Apiece(b, k)) /\ (Ready(b, k)' <=> Ready(b, k)) /\ (Held(b, k)' <=> Held(b, k))
        /\ (ToCome(b, k)' <=> ToCome(b, k)) /\ (Headed(b, k)' <=> Headed(b, k))
    BY <2>1, <2>2 DEF Apiece, Ready, Held, Untouching, ToCome, Headed
  <2>4. Bare(b, k)'
    BY <2>1 DEF Own, Bare, Keeps
  <2>5. ASSUME Prepared(b, k)
        PROVE  /\ Challenged(b, k)' /\ Count(b, k)' /\ DigestWork(b, k)' /\ BasicWork(b, k)'
               /\ NtlmWork(b, k)' /\ Copying(b, k)' /\ Stays(b, k)' /\ Answered(b, k)'
    <3>1. /\ Challenged(b, k) /\ Count(b, k) /\ DigestWork(b, k) /\ BasicWork(b, k)
          /\ NtlmWork(b, k) /\ Copying(b, k) /\ Stays(b, k) /\ Answered(b, k)
      BY <2>1, <2>5 DEF Own
    <3>2. Challenged(b, k)' /\ Count(b, k)'
      BY <2>1, <2>2, <2>3, <3>1 DEF Challenged, Count, Keeps
    <3>3. DigestWork(b, k)' /\ BasicWork(b, k)'
      BY <2>1, <2>2, <2>3, <3>1 DEF DigestWork, BasicWork
    <3>4. NtlmWork(b, k)'
      BY <2>1, <2>2, <2>3, <3>1 DEF NtlmWork, Untouching
    <3>5. Copying(b, k)' /\ Stays(b, k)' /\ Answered(b, k)'
      BY <2>1, <2>2, <2>3, <3>1 DEF Copying, Stays, Answered, Untouching
    <3>. QED
      BY <3>2, <3>3, <3>4, <3>5
  <2>. QED
    BY <2>2, <2>4, <2>5 DEF Own
<1>3. ASSUME NEW b \in Browsers PROVE Routes(b)'
  BY DEF AnswersInv, Routes, Prepared, authVars, shared, private, ghosts
<1>. QED
  BY <1>1, <1>2, <1>3 DEF AnswersInv

\* What is sent is the answer the challenge is entitled to.
LEMMA AnswersRight == ASSUME AnswersInv PROVE OwnAnswers
<1>1. Typed /\ Pointers /\ Switched
  BY DEF AnswersInv, LocksInv
<1>2. TypeOK
  <2>1. \A s \in Slots : slot[s] \in 0 .. Len(heap)
    BY <1>1 DEF Typed, Pointers
  <2>2. lock \in Browsers \cup {NoBrowser} /\ ntlm.state \in {"N", "1", "2", "3"}
    BY <1>1 DEF Typed
  <2>3. ASSUME NEW b \in Browsers, NEW k \in Kinds
        PROVE  type[b][k] \in {"BASIC", "DIGEST"} \/ (type[b][k] = "NTLM" /\ k = "www")
    <3>1. type[b][k] \in Types /\ type[b]["proxy"] # "NTLM"
      BY <1>1 DEF Typed, Switched
    <3>. QED
      BY <3>1 DEF Types, Kinds
  <2>4. \A b \in Browsers : requests[b] \in 0 .. MaxRequests /\ login[b] \in 0 .. Len(LoginUrls)
    BY <1>1 DEF Typed
  <2>. QED
    BY <2>1, <2>2, <2>3, <2>4 DEF TypeOK
<1>3. ASSUME NEW b \in Browsers, pc[b] = "sent", NEW k \in Kinds
      PROVE  /\ Undisturbed(b, k) /\ (last[b][k].challenge.type # "NTLM" \/ last[b][k].challenge.sound) =>
                  out[b][k] = Answer(b, k)
             /\ ~asked[b][k] => out[b][k] = NoHeader
  <2>1. Own(b, k)
    BY DEF AnswersInv
  <2>2. ~asked[b][k] => out[b][k] = NoHeader
    BY <1>3, <2>1 DEF Own, Bare
  <2>3. ASSUME Undisturbed(b, k), Posed(b, k).type # "NTLM" \/ Posed(b, k).sound
        PROVE  out[b][k] = Answer(b, k)
    <3>1. Prepared(b, k) /\ Apiece(b, k)
      BY <2>3 DEF Undisturbed, Prepared, Apiece
    <3>2. Challenged(b, k) /\ Answered(b, k)
      BY <2>1, <3>1 DEF Own
    <3>3. out[b][k] = Sent(b, k)
      BY <1>3, <2>3, <3>1, <3>2 DEF Answered, Headed
    <3>4. /\ Posed(b, k) \in ChallengeOf /\ Posed(b, k).type \in {"BASIC", "DIGEST", "NTLM"}
          /\ Login(Posed(b, k)) > 0 /\ (Posed(b, k).type = "NTLM" => Posed(b, k).kind = "www")
      BY <1>1, <3>2, ThroughIs, ChallengesAre DEF Challenged, Types
    <3>5. Login(Posed(b, k)) = Entitled(Posed(b, k))
      BY <3>4, LoginIsEntitled
    <3>6. Sent(b, k) = Answer(b, k)
      BY <3>4, <3>5 DEF Sent, Text, Answer, Posed
    <3>. QED
      BY <3>3, <3>6
  <2>. QED
    BY <2>2, <2>3 DEF Posed
<1>. QED
  BY <1>2, <1>3 DEF OwnAnswers

(***************************************************************************)
(* For every number of browsers, of logins and of challenges: a request    *)
(* carries for each challenge its own answer - the login its realm and     *)
(* scheme are entitled to, its nonce, a count that goes up by one - as     *)
(* long as no other browser wrote the field of auth.c it goes through;     *)
(* AnswersInv says how far each answer has come at every step.             *)
(***************************************************************************)
THEOREM AnswersAreOwn == Spec => []OwnAnswers
<1>1. Init => AnswersInv
  BY InitAnswers
<1>2. AnswersInv /\ [Next]_authVars => AnswersInv'
  <2>1. ASSUME AnswersInv, Next PROVE AnswersInv'
    <3>1. PICK b \in Browsers : Step(b)
      BY <2>1, NextIsStep DEF AnswersInv, LocksInv
    <3>. QED
      BY <2>1, <3>1, StepAnswers
  <2>. QED
    BY <2>1, IdleAnswers
<1>3. AnswersInv => OwnAnswers
  BY AnswersRight
<1>. QED
  BY <1>1, <1>2, <1>3, PTL DEF Spec
=============================================================================
