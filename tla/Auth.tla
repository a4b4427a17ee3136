--------------------------------- MODULE Auth ---------------------------------
(***************************************************************************)
(* Logins and the answers to challenges (auth.c, creds.c, array.c, with    *)
(* the callers in browser.c and http.c).  All browsers share one AUTH: the *)
(* text of the last header of each kind, the state of NTLM, a lock only    *)
(* Basic takes.  What a browser keeps for itself is which header it sends  *)
(* and, for Digest, the challenge and the count of its uses.               *)
(*                                                                         *)
(* A step is what other threads may not come between: one access to a      *)
(* shared field or to the memory it points to.                             *)
(***************************************************************************)
EXTENDS Integers, Sequences, FiniteSets, SequencesExt

CONSTANTS Browsers, NoBrowser,
          Logins,       \* the login, proxy-login and ftp-login lines: [scheme, text]
          Beyond,       \* what lies behind a line in memory
          LoginUrls,    \* my.lurl
          Sites,        \* what a site may send, the pages it has and whether it has a login URL (my.login):
                        \* [challenges, methods, login]; a challenge is [kind, type, realm, nonce,
                        \* sound], of kind "www" (401) or "proxy" (407); a realm it does not name is <<>>
          MaxRequests   \* where the requests of a browser stop

Kinds == {"www", "proxy"}
ChallengeOf == [kind : Kinds, type : {"BASIC", "DIGEST", "NTLM"}, realm : Seq(STRING),
                nonce : Nat, sound : BOOLEAN]

ASSUME AuthAssumption ==
  /\ IsFiniteSet(Browsers) /\ NoBrowser \notin Browsers /\ MaxRequests \in Nat
  /\ Logins \in Seq([scheme : {"HTTP", "PROXY", "FTP"}, text : Seq(STRING)])
  /\ LoginUrls # <<>> /\ Len(LoginUrls) \in Nat \ {0}
  /\ \A s \in Sites : s.challenges \subseteq ChallengeOf /\ s.methods \subseteq {"GET", "POST"}

Slots == {"basic", "digest", "ntlm", "proxy"}    \* the encode fields of AUTH_T

-----------------------------------------------------------------------------
\* __parse_input: user:password:realm; without a second ":" the realm is "any", and without
\* a first one the password is read from behind the line.
NewCreds(login) ==
  LET t == login.text
      i == SelectInSeq(t, LAMBDA c : c = ":")
      p == IF i = 0 THEN Beyond ELSE SubSeq(t, i + 1, Len(t))
      j == SelectInSeq(p, LAMBDA c : c = ":")
  IN [scheme |-> login.scheme,
      user   |-> IF i = 0 THEN t ELSE SubSeq(t, 1, i - 1),
      pass   |-> IF j = 0 THEN p ELSE SubSeq(p, 1, j - 1),
      realm  |-> IF j = 0 THEN <<"any">> ELSE SubSeq(p, j + 1, Len(p))]
Creds == [i \in DOMAIN Logins |-> NewCreds(Logins[i])]

\* A mutant of Choose: the scheme of the login does not matter.
ChooseByRealm(schemes, realm) ==
  LET of(r) == SelectInSeq(Creds, LAMBDA c : c.realm = r)
  IN IF realm # <<>> /\ of(realm) > 0 THEN of(realm) ELSE of(<<"any">>)

\* The index of the login for a realm: the first of the schemes allowed for it, else the
\* first of them for any realm, else 0.
Choose(schemes, realm) ==
  LET of(r) == SelectInSeq(Creds, LAMBDA c : c.realm = r /\ c.scheme \in schemes)
  IN IF realm # <<>> /\ of(realm) > 0 THEN of(realm) ELSE of(<<"any">>)

BasicSchemes(k) == IF k = "proxy" THEN {"PROXY"} ELSE {"HTTP"}
DigestSchemes == {"HTTP", "PROXY", "FTP"}     \* auth_set_digest_header does not look at it

\* Who a challenge is answered for; 0 when nobody is.
Login(c) ==
  CASE c.type = "BASIC"  -> Choose(BasicSchemes(c.kind), c.realm)
    [] c.type = "DIGEST" -> Choose(DigestSchemes, c.realm)
    [] c.type = "NTLM"   -> Choose({"HTTP"}, c.realm)

-----------------------------------------------------------------------------
\* A header: the field, the login, what it answers and the count of its use.
NoHeader == [field |-> "none", type |-> "none", login |-> 0, nonce |-> 0, nc |-> 0, by |-> NoBrowser]
Unset    == [NoHeader EXCEPT !.type = "unset"]      \* memory nobody has written yet
Stray    == [NoHeader EXCEPT !.type = "stray"]      \* memory that is given back
NullText == [NoHeader EXCEPT !.type = "(null)"]     \* printf of a NULL
Cut(h)   == [h EXCEPT !.type = "cut"]               \* without its end

\* The arrays a header is copied to: 512 bytes in http_get; 128 in http_post, too few for a
\* Digest or for the answer of NTLM, which carry hashes.
Fit(h, method) ==
  IF method = "POST" /\ (h.type = "DIGEST" \/ (h.type = "NTLM" /\ h.login > 0)) THEN Cut(h) ELSE h

-----------------------------------------------------------------------------
VARIABLES site,     \* the site the browsers are at
          slot,     \* the encode fields: the number of a buffer, 0 for NULL
          heap,     \* the buffers: text, live
          lock,     \* auth->lock: who holds it, or NoBrowser
          ntlm,     \* the state of NTLM and the server's nonce
          index,    \* lurl->index
          pc, kind, \* where a browser is, and which header it is at
          method,   \* of the page it requests
          asked,    \* C->auth.www and C->auth.proxy
          type,     \* C->auth.type
          own,      \* its challenge and credentials for Digest: the challenge, login, nc
          at,       \* a pointer or a number read from a shared field
          hash,     \* the nonce its answer for NTLM is made from
          out,      \* the headers of its request
          requests, \* how many requests it made
          login,    \* the login URL it took, 0 before
          last,     \* the challenge of each kind it prepared an answer to, and at which of its
                    \* requests (only compared with)
          touched,  \* the slots others wrote since it prepared its own answer (only compared with)
          alone     \* no other browser was in array_next with it (only compared with)

shared  == <<site, slot, heap, lock, ntlm, index>>
private == <<pc, kind, method, asked, type, own, at, hash, out, requests, login>>
ghosts  == <<last, touched, alone>>
authVars == <<shared, private, ghosts>>

NoChallenge == [kind |-> "none", type |-> "none", realm |-> <<>>, nonce |-> 0, sound |-> TRUE]
NoAnswer == [challenge |-> NoChallenge, since |-> 0]

Init ==
  /\ site \in Sites
  /\ slot = [s \in Slots |-> 0] /\ heap = <<>> /\ lock = NoBrowser /\ index = -1
  /\ ntlm = [state |-> "N", nonce |-> 0]
  /\ pc = [b \in Browsers |-> IF site.login THEN "start" ELSE "ready"] /\ kind = [b \in Browsers |-> "www"]
  /\ method = [b \in Browsers |-> "GET"]
  /\ asked = [b \in Browsers |-> [k \in Kinds |-> FALSE]]
  /\ type = [b \in Browsers |-> [k \in Kinds |-> "BASIC"]]
  /\ own = [b \in Browsers |-> [k \in Kinds |-> [challenge |-> NoChallenge, login |-> 0, nc |-> 0]]]
  /\ at = [b \in Browsers |-> 0] /\ hash = [b \in Browsers |-> 0]
  /\ out = [b \in Browsers |-> [k \in Kinds |-> NoHeader]]
  /\ requests = [b \in Browsers |-> 0] /\ login = [b \in Browsers |-> 0]
  /\ last = [b \in Browsers |-> [k \in Kinds |-> NoAnswer]]
  /\ touched = [b \in Browsers |-> {}] /\ alone = [b \in Browsers |-> TRUE]

Goto(b, to) == pc' = [pc EXCEPT ![b] = to]
\* Browser b writes a slot: the others are no longer by themselves.
Touch(b, s) == touched' = [c \in Browsers |-> IF c = b THEN touched[b] ELSE touched[c] \cup {s}]
Mine(b, s)  == touched' = [c \in Browsers |-> IF c = b THEN touched[b] \ {s} ELSE touched[c] \cup {s}]

-----------------------------------------------------------------------------
(* The login URL: array_next counts an index all browsers share; it reads  *)
(* the index, stores the next one and takes the URL of that.               *)

InNext(b) == pc[b] \in {"count", "take"}

LoadIndex(b) ==
  /\ pc[b] = "start" /\ Goto(b, "count")
  /\ at' = [at EXCEPT ![b] = index + 1]
  /\ alone' = [c \in Browsers |-> alone[c] /\ ~(c = b /\ \E d \in Browsers : InNext(d)) /\ ~InNext(c)]
  /\ UNCHANGED <<shared, kind, method, asked, type, own, hash, out, requests, login, last, touched>>

\* A mutant of StoreIndex: the index stays where it is.
StoreSame(b) ==
  /\ pc[b] = "count" /\ Goto(b, "take")
  /\ index' = at[b] - 1
  /\ UNCHANGED <<site, slot, heap, lock, ntlm, kind, method, asked, type, own, at, hash, out, requests, login, ghosts>>

StoreIndex(b) ==
  /\ pc[b] = "count" /\ Goto(b, "take")
  /\ index' = at[b]
  /\ UNCHANGED <<site, slot, heap, lock, ntlm, kind, method, asked, type, own, at, hash, out, requests, login, ghosts>>

\* The index is read again, unless the compiler keeps it in a register.
TakeUrl(b) ==
  /\ pc[b] = "take" /\ Goto(b, "ready")
  /\ \E i \in {index, at[b]} : login' = [login EXCEPT ![b] = (i % Len(LoginUrls)) + 1]
  /\ UNCHANGED <<shared, kind, method, asked, type, own, at, hash, out, requests, ghosts>>

-----------------------------------------------------------------------------
(* http_get and http_post: the headers of a request, www before proxy.     *)

\* A request, for a new page or again after a challenge.
Begin(b, m) ==
  /\ requests[b] < MaxRequests
  /\ requests' = [requests EXCEPT ![b] = @ + 1]
  /\ method' = [method EXCEPT ![b] = m] /\ kind' = [kind EXCEPT ![b] = "www"]
  /\ out' = [out EXCEPT ![b] = [k \in Kinds |-> NoHeader]]

Page(b) ==
  /\ pc[b] = "ready" /\ \E m \in site.methods : Begin(b, m)
  /\ Goto(b, "header")
  /\ UNCHANGED <<shared, asked, type, own, at, hash, login, ghosts>>

Proceed(b) ==
  IF kind[b] = "www" THEN kind' = [kind EXCEPT ![b] = "proxy"] /\ Goto(b, "header")
  ELSE UNCHANGED kind /\ Goto(b, "sent")

NotAsked(b) ==
  /\ pc[b] = "header" /\ ~asked[b][kind[b]]
  /\ Proceed(b)
  /\ UNCHANGED <<shared, method, asked, type, own, at, hash, out, requests, login, ghosts>>

\* http_post asks for the header of the server where it needs that of the proxy.
FieldOf(b, k) == IF method[b] = "POST" THEN "www" ELSE k
SlotOf(b) ==
  CASE type[b][kind[b]] = "DIGEST" -> IF FieldOf(b, kind[b]) = "proxy" THEN "proxy" ELSE "digest"
    [] type[b][kind[b]] = "NTLM"   -> "ntlm"
    [] OTHER                       -> IF kind[b] = "proxy" THEN "proxy" ELSE "basic"

\* auth_get_digest_header: a challenge it has no answer for.
NoDigest(b) ==
  /\ pc[b] = "header" /\ asked[b][kind[b]] /\ type[b][kind[b]] = "DIGEST"
  /\ own[b][kind[b]].login = 0 \/ ~own[b][kind[b]].challenge.sound
  /\ out' = [out EXCEPT ![b][kind[b]] = IF own[b][kind[b]].login = 0 THEN NoHeader ELSE NullText]
  /\ Proceed(b)
  /\ UNCHANGED <<shared, method, asked, type, own, at, hash, requests, login, ghosts>>

\* The count goes up, and the field points to new memory.
AllocDigest(b) ==
  /\ pc[b] = "header" /\ asked[b][kind[b]] /\ type[b][kind[b]] = "DIGEST"
  /\ own[b][kind[b]].login > 0 /\ own[b][kind[b]].challenge.sound
  /\ own' = [own EXCEPT ![b][kind[b]].nc = @ + 1]
  /\ heap' = Append(heap, [text |-> Unset, live |-> TRUE])
  /\ slot' = [slot EXCEPT ![SlotOf(b)] = Len(heap) + 1]
  /\ IF FieldOf(b, kind[b]) = kind[b] THEN Mine(b, SlotOf(b)) ELSE Touch(b, SlotOf(b))
  /\ Goto(b, "print")
  /\ UNCHANGED <<site, lock, ntlm, index, kind, method, asked, type, at, hash, out, requests, login, last, alone>>

\* What is printed goes to where the field points by now.
PrintDigest(b) ==
  /\ pc[b] = "print" /\ Goto(b, "header2")
  /\ LET o == own[b][kind[b]] IN
     heap' = [heap EXCEPT ![slot[SlotOf(b)]].text =
                [field |-> FieldOf(b, kind[b]), type |-> "DIGEST", login |-> o.login, nonce |-> o.challenge.nonce,
                 nc |-> o.nc, by |-> b]]
  /\ Touch(b, SlotOf(b))
  /\ UNCHANGED <<site, slot, lock, ntlm, index, kind, method, asked, type, own, at, hash, out, requests, login, last, alone>>

\* The field is read; what it points to is copied in a step of its own.
ReadSlot(b) ==
  /\ \/ pc[b] = "header2"
     \/ pc[b] = "header" /\ asked[b][kind[b]] /\ type[b][kind[b]] # "DIGEST"
  /\ at' = [at EXCEPT ![b] = slot[SlotOf(b)]]
  /\ Goto(b, "copy")
  /\ UNCHANGED <<shared, kind, method, asked, type, own, hash, out, requests, login, ghosts>>

CopyHeader(b) ==
  /\ pc[b] = "copy"
  /\ LET h == IF at[b] = 0 THEN IF SlotOf(b) = "ntlm" THEN NullText ELSE NoHeader
              ELSE IF heap[at[b]].live THEN heap[at[b]].text ELSE Stray
     IN out' = [out EXCEPT ![b][kind[b]] = Fit(h, method[b])]
  /\ Proceed(b)
  /\ UNCHANGED <<shared, method, asked, type, own, at, hash, requests, login, ghosts>>

-----------------------------------------------------------------------------
(* The answer: the page, or a challenge (__http, 401 and 407).             *)

Accepted(b) ==
  /\ pc[b] = "sent" /\ Goto(b, "ready")
  /\ UNCHANGED <<shared, kind, method, asked, type, own, at, hash, out, requests, login, ghosts>>

\* The browser notes that there was a challenge, and of which type it is.
Noted(b, c) ==
  /\ pc[b] = "sent" /\ requests[b] < MaxRequests
  /\ asked' = [asked EXCEPT ![b][c.kind] = TRUE]
  /\ kind' = [kind EXCEPT ![b] = c.kind]
Answering(b, c) ==
  /\ type' = [type EXCEPT ![b][c.kind] = c.type]
  /\ at' = [at EXCEPT ![b] = Login(c)]
  /\ last' = [last EXCEPT ![b][c.kind] = [challenge |-> c, since |-> requests[b]]]
Forsaken(b, k) == last' = [last EXCEPT ![b][k] = NoAnswer]

\* There is no login for it: the page is given up.
NoLogin(b, c) ==
  /\ Noted(b, c) /\ (c.kind = "www" \/ c.type # "NTLM")
  /\ Login(c) = 0 /\ Goto(b, "ready")
  /\ type' = [type EXCEPT ![b][c.kind] = c.type]
  /\ Forsaken(b, c.kind)
  /\ UNCHANGED <<shared, method, own, at, hash, out, requests, login, touched, alone>>

\* A proxy cannot ask for NTLM: the request is made again as it was.
ProxyNtlm(b, c) ==
  /\ Noted(b, c) /\ c.kind = "proxy" /\ c.type = "NTLM" /\ Goto(b, "again")
  /\ Forsaken(b, c.kind)
  /\ UNCHANGED <<shared, method, type, own, at, hash, out, requests, login, touched, alone>>

BasicChallenge(b, c) ==
  /\ Noted(b, c) /\ c.type = "BASIC" /\ Login(c) > 0 /\ Goto(b, "basic")
  /\ Answering(b, c)
  /\ UNCHANGED <<shared, method, own, hash, out, requests, login, touched, alone>>

\* auth_set_digest_header: the challenge and the login are the browser's own.
DigestChallenge(b, c) ==
  /\ Noted(b, c) /\ c.type = "DIGEST" /\ Login(c) > 0 /\ Goto(b, "again")
  /\ Answering(b, c)
  /\ own' = [own EXCEPT ![b][c.kind] = [challenge |-> c, login |-> Login(c), nc |-> 0]]
  /\ UNCHANGED <<shared, method, hash, out, requests, login, touched, alone>>

\* __ntlm_header: a message of the server brings its nonce, if it is long enough; a bare
\* challenge is taken once for all browsers.
NtlmChallenge(b, c) ==
  /\ Noted(b, c) /\ c.kind = "www" /\ c.type = "NTLM" /\ Login(c) > 0
  /\ c.nonce > 0 \/ ntlm.state = "N"
  /\ Answering(b, c)
  /\ ntlm' = IF c.nonce > 0 /\ c.sound THEN [ntlm EXCEPT !.nonce = c.nonce] ELSE ntlm
  /\ Mine(b, "ntlm") /\ Goto(b, IF c.nonce > 0 THEN "got2" ELSE "got1")
  /\ UNCHANGED <<site, slot, heap, lock, index, method, own, hash, out, requests, login, alone>>

NtlmOver(b, c) ==
  /\ Noted(b, c) /\ c.kind = "www" /\ c.type = "NTLM" /\ Login(c) > 0
  /\ c.nonce = 0 /\ ntlm.state # "N" /\ Goto(b, "ready")
  /\ type' = [type EXCEPT ![b][c.kind] = c.type]
  /\ Forsaken(b, c.kind)
  /\ UNCHANGED <<shared, method, own, at, hash, out, requests, login, touched, alone>>

Again(b) ==
  /\ pc[b] = "again" /\ Begin(b, method[b])
  /\ Goto(b, "header")
  /\ UNCHANGED <<shared, asked, type, own, at, hash, login, ghosts>>

\* __basic_header, under the lock: the old text is freed,
BasicSlot(b) == IF kind[b] = "proxy" THEN "proxy" ELSE "basic"
FreeUnlocked(b) ==     \* A mutant of FreeBasic: the lock is not waited for.
  /\ pc[b] = "basic" /\ lock' = b
  /\ heap' = IF slot[BasicSlot(b)] = 0 THEN heap ELSE [heap EXCEPT ![slot[BasicSlot(b)]].live = FALSE]
  /\ Mine(b, BasicSlot(b)) /\ Goto(b, "alloc")
  /\ UNCHANGED <<site, slot, ntlm, index, kind, method, asked, type, own, at, hash, out, requests, login, last, alone>>

FreeBasic(b) ==
  /\ pc[b] = "basic" /\ lock = NoBrowser /\ lock' = b
  /\ heap' = IF slot[BasicSlot(b)] = 0 THEN heap ELSE [heap EXCEPT ![slot[BasicSlot(b)]].live = FALSE]
  /\ Mine(b, BasicSlot(b)) /\ Goto(b, "alloc")
  /\ UNCHANGED <<site, slot, ntlm, index, kind, method, asked, type, own, at, hash, out, requests, login, last, alone>>

\* then there is new memory,
AllocBasic(b) ==
  /\ pc[b] = "alloc" /\ Goto(b, "fill")
  /\ heap' = Append(heap, [text |-> Unset, live |-> TRUE])
  /\ slot' = [slot EXCEPT ![BasicSlot(b)] = Len(heap) + 1]
  /\ Touch(b, BasicSlot(b))
  /\ UNCHANGED <<site, lock, ntlm, index, kind, method, asked, type, own, at, hash, out, requests, login, last, alone>>

\* then the text, where the field points by now.
FillBasic(b) ==
  /\ pc[b] = "fill" /\ Goto(b, "again")
  /\ heap' = [heap EXCEPT ![slot[BasicSlot(b)]].text =
                [NoHeader EXCEPT !.field = kind[b], !.type = "BASIC", !.login = at[b]]]
  /\ lock' = NoBrowser
  /\ Touch(b, BasicSlot(b))
  /\ UNCHANGED <<site, slot, ntlm, index, kind, method, asked, type, own, at, hash, out, requests, login, last, alone>>

-----------------------------------------------------------------------------
(* __ntlm_header, without a lock: what to send depends on a state that may *)
(* have moved on.                                                          *)

SetState(b, s) == ntlm' = [ntlm EXCEPT !.state = s] /\ Touch(b, "ntlm")

NtlmState(b) ==
  /\ pc[b] \in {"got1", "got2"} /\ Goto(b, "ntlm")
  /\ SetState(b, IF pc[b] = "got1" THEN "1" ELSE "2")
  /\ UNCHANGED <<site, slot, heap, lock, index, kind, method, asked, type, own, at, hash, out, requests, login, last, alone>>

NtlmSwitch(b) ==
  /\ pc[b] = "ntlm"
  /\ Goto(b, CASE ntlm.state = "1" -> "type1" [] ntlm.state = "2" -> "type3" [] ntlm.state = "3" -> "again")
  /\ UNCHANGED <<shared, kind, method, asked, type, own, at, hash, out, requests, login, ghosts>>

\* A type-1 message, in new memory; a nonce of 0 stands for it.
StoreNtlm(b, text) ==
  /\ heap' = Append(heap, [text |-> Unset, live |-> TRUE])
  /\ slot' = [slot EXCEPT !["ntlm"] = Len(heap) + 1]
  /\ hash' = [hash EXCEPT ![b] = text]
NtlmType1(b) ==
  /\ pc[b] = "type1" /\ Goto(b, "sent1")
  /\ StoreNtlm(b, 0) /\ Touch(b, "ntlm")
  /\ UNCHANGED <<site, lock, ntlm, index, kind, method, asked, type, own, at, out, requests, login, last, alone>>
NtlmSent1(b) ==
  /\ pc[b] = "sent1" /\ Goto(b, "fill1")
  /\ SetState(b, "2")
  /\ UNCHANGED <<site, slot, heap, lock, index, kind, method, asked, type, own, at, hash, out, requests, login, last, alone>>

\* A type-3 message: the answer to the nonce that is there,
NtlmHash(b) ==
  /\ pc[b] = "type3" /\ Goto(b, "sent3")
  /\ hash' = [hash EXCEPT ![b] = ntlm.nonce]
  /\ UNCHANGED <<shared, kind, method, asked, type, own, at, out, requests, login, ghosts>>
NtlmSent3(b) ==
  /\ pc[b] = "sent3" /\ Goto(b, "realloc")
  /\ SetState(b, "3")
  /\ UNCHANGED <<site, slot, heap, lock, index, kind, method, asked, type, own, at, hash, out, requests, login, last, alone>>
\* in the memory of the message before, which may move.
NtlmRealloc(b) ==
  /\ pc[b] = "realloc" /\ Goto(b, "moved")
  /\ heap' = IF slot["ntlm"] = 0 THEN heap ELSE [heap EXCEPT ![slot["ntlm"]].live = FALSE]
  /\ Touch(b, "ntlm")
  /\ UNCHANGED <<site, slot, lock, ntlm, index, kind, method, asked, type, own, at, hash, out, requests, login, last, alone>>
NtlmMoved(b) ==
  /\ pc[b] = "moved" /\ Goto(b, "fill3")
  /\ StoreNtlm(b, hash[b]) /\ Touch(b, "ntlm")
  /\ UNCHANGED <<site, lock, ntlm, index, kind, method, asked, type, own, at, out, requests, login, last, alone>>

NtlmFill(b) ==
  /\ pc[b] \in {"fill1", "fill3"} /\ Goto(b, "again")
  /\ heap' = [heap EXCEPT ![slot["ntlm"]].text =
                [NoHeader EXCEPT !.field = "www", !.type = "NTLM", !.nonce = hash[b],
                                 !.login = IF pc[b] = "fill3" THEN at[b] ELSE 0]]
  /\ Touch(b, "ntlm")
  /\ UNCHANGED <<site, slot, lock, ntlm, index, kind, method, asked, type, own, at, hash, out, requests, login, last, alone>>

-----------------------------------------------------------------------------
Next ==
  \E b \in Browsers :
    \/ LoadIndex(b) \/ StoreIndex(b) \/ TakeUrl(b)
    \/ Page(b) \/ Again(b) \/ NotAsked(b) \/ Accepted(b)
    \/ NoDigest(b) \/ AllocDigest(b) \/ PrintDigest(b) \/ ReadSlot(b) \/ CopyHeader(b)
    \/ FreeBasic(b) \/ AllocBasic(b) \/ FillBasic(b)
    \/ NtlmState(b) \/ NtlmSwitch(b) \/ NtlmType1(b) \/ NtlmSent1(b) \/ NtlmHash(b) \/ NtlmSent3(b)
    \/ NtlmRealloc(b) \/ NtlmMoved(b) \/ NtlmFill(b)
    \/ \E c \in site.challenges :
         \/ NoLogin(b, c) \/ ProxyNtlm(b, c) \/ BasicChallenge(b, c) \/ DigestChallenge(b, c)
         \/ NtlmChallenge(b, c) \/ NtlmOver(b, c)

Spec == Init /\ [][Next]_authVars

-----------------------------------------------------------------------------
TypeOK ==
  /\ \A s \in Slots : slot[s] \in 0 .. Len(heap)
  /\ lock \in Browsers \cup {NoBrowser} /\ ntlm.state \in {"N", "1", "2", "3"}
  /\ \A b \in Browsers :
       /\ \A k \in Kinds : type[b][k] \in {"BASIC", "DIGEST"} \/ (type[b][k] = "NTLM" /\ k = "www")
       /\ requests[b] \in 0 .. MaxRequests /\ login[b] \in 0 .. Len(LoginUrls)

\* The login a challenge is for: the first for its realm, else the first for any realm, of the
\* schemes that may answer it.
Entitled(c) ==
  LET may   == { i \in DOMAIN Creds :
                   c.type = "DIGEST" \/ Creds[i].scheme = (IF c.kind = "proxy" THEN "PROXY" ELSE "HTTP") }
      exact == { i \in may : c.realm # <<>> /\ Creds[i].realm = c.realm }
      any   == { i \in may : Creds[i].realm = <<"any">> }
  IN Min(IF exact # {} THEN exact ELSE any)

\* The header that answers the challenge of kind k browser b was last asked.
Answer(b, k) ==
  LET c == last[b][k].challenge
      h == CASE c.type = "BASIC" -> [NoHeader EXCEPT !.field = k, !.type = "BASIC", !.login = Entitled(c)]
             [] c.type = "DIGEST" ->
                  [field |-> FieldOf(b, k), type |-> "DIGEST", login |-> Entitled(c), nonce |-> c.nonce,
                   nc |-> requests[b] - last[b][k].since, by |-> b]
             [] c.type = "NTLM" ->
                  [NoHeader EXCEPT !.field = "www", !.type = "NTLM", !.nonce = c.nonce,
                                   !.login = IF c.nonce = 0 THEN 0 ELSE Entitled(c)]
  IN IF c.type = "DIGEST" /\ ~c.sound THEN NullText ELSE Fit(h, method[b])

\* The slot a kind's answer went through, and whether it is the browser's own work that is there.
Through(b, k) ==
  CASE last[b][k].challenge.type = "BASIC"  -> IF k = "proxy" THEN "proxy" ELSE "basic"
    [] last[b][k].challenge.type = "DIGEST" -> IF FieldOf(b, k) = "proxy" THEN "proxy" ELSE "digest"
    [] last[b][k].challenge.type = "NTLM"   -> "ntlm"
Undisturbed(b, k) == last[b][k] # NoAnswer /\ Through(b, k) \notin touched[b]

(***************************************************************************)
(* As long as no other browser was at work on the same kind of header, a   *)
(* request carries for each challenge exactly its answer: the login chosen *)
(* by realm and scheme, the challenge's own nonce, a count of uses that    *)
(* goes up by one from request to request.  (A POST cuts the long answers  *)
(* short, and sends the Digest for the proxy in the field of the server:   *)
(* Fit and FieldOf say what the code does.)                                *)
(***************************************************************************)
OwnAnswers ==
  /\ TypeOK
  /\ \A b \in Browsers : pc[b] = "sent" =>
       \A k \in Kinds :
         /\ Undisturbed(b, k) /\ (last[b][k].challenge.type # "NTLM" \/ last[b][k].challenge.sound) =>
              out[b][k] = Answer(b, k)
         /\ ~asked[b][k] => out[b][k] = NoHeader

(***************************************************************************)
(* __basic_header frees the old text and stores the new one under the      *)
(* lock, so no memory is freed twice and, with the lock free, no field     *)
(* points to memory that is gone.                                          *)
(***************************************************************************)
FreedOnce ==
  \A s \in {"basic", "proxy"} :
    /\ (\E b \in Browsers : pc[b] = "basic") /\ lock = NoBrowser => slot[s] = 0 \/ heap[slot[s]].live
    /\ (\A b \in Browsers : pc[b] \notin {"alloc", "fill"}) => slot[s] = 0 \/ heap[slot[s]].live

(***************************************************************************)
(* Browsers that were not in array_next at the same time as another took   *)
(* different login URLs, as long as there are enough of them.              *)
(***************************************************************************)
LoginsInTurn ==
  Cardinality(Browsers) <= Len(LoginUrls) =>
    \A b, d \in Browsers :
      b # d /\ login[b] > 0 /\ login[d] > 0 /\ alone[b] /\ alone[d] => login[b] # login[d]
=============================================================================
