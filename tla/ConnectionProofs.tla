-------------------------- MODULE ConnectionProofs --------------------------
(***************************************************************************)
(* Connection, for every number of browsers, hosts and descriptors: what   *)
(* its run checks of two browsers that share two descriptors.              *)
(***************************************************************************)
EXTENDS Connection, TLAPS, WellFoundedInduction

\* The steps of a request that have a socket, and those that have it up.
Connecting == {"connect", "open", "exchange", "transfer"}
Connections == {"open", "exchange", "transfer"}

\* What a browser holds is open, and its own.
Held(b) == \A fd \in {conn[b].sock, conn[b].ssl, data[b]} \ {None} :
               fd \in DOMAIN fds /\ fds[fd].owner = b

\* A descriptor the code may drop without closing it.
Excused(fd) == \/ fds[fd].cause \in {"handshake", "ftp"}
               \/ keepalive /\ fds[fd].cause \in {"connect", "max"}

\* What a browser opened it holds, unless that could be dropped.
Accounted(b) == \A fd \in DOMAIN fds :
                    fds[fd].owner = b => fd \in {conn[b].sock, data[b]} \/ Excused(fd)

\* The fields of the connection, by where the browser is.
Progress(b) ==
    /\ pc[b] \in {"create", "again"} \cup Connecting => url[b] \in Url
    /\ conn[b].reuse => keepalive
    /\ pc[b] \in Connecting => conn[b].sock # None
    /\ pc[b] \in Connections => conn[b].status = 1
    /\ At(b, "idle") => (conn[b].status = 1 <=> conn[b].sock # None)
    /\ pc[b] \in {"create", "again", "connect"} /\ conn[b].status = 1
         => conn[b].lastOne \/ ~keepalive
    /\ At(b, "transfer") => data[b] # None
    /\ data[b] # None => /\ pc[b] \in {"transfer", "dead"}
                         /\ data[b] \notin {conn[b].sock, conn[b].ssl}

\* A socket that the next request will not use can be dropped, and no TLS object is left
\* on a descriptor that is about to be closed.
Drops(b) ==
    /\ At(b, "idle") /\ conn[b].sock # None
         => (keepalive /\ ~conn[b].lastOne) \/ Excused(conn[b].sock)
    /\ pc[b] \in {"create", "again"} /\ conn[b].sock # None => Excused(conn[b].sock)
    /\ pc[b] \notin {"create", "dead"} /\ conn[b].ssl # None /\ conn[b].ssl = conn[b].sock
         => conn[b].encrypt

\* Without keepalive, a session is with the server of the URL and ends with the request,
\* and a TLS object whose handshake failed is gone after one more.
Once(b) ==
    ~keepalive =>
      /\ pc[b] \in Connecting => fds[conn[b].sock].peer = url[b]
      /\ pc[b] \in {"create", "again"} \cup Connecting
           => (conn[b].encrypt <=> url[b].scheme = "HTTPS")
      /\ conn[b].shaken => /\ pc[b] \in {"exchange", "dead"}
                           /\ conn[b].ssl = conn[b].sock /\ conn[b].encrypt
      /\ conn[b].tried <= 1
      /\ conn[b].tried = 1 => pc[b] \in {"exchange", "dead"} /\ conn[b].encrypt
      /\ conn[b].ssl = None => conn[b].tried = 0

\* The inductive invariant.
Holds(b) == Held(b) /\ Accounted(b) /\ Progress(b) /\ Drops(b) /\ Once(b)
CInv == ConnTypeOK /\ \A b \in Browsers : Holds(b)

-----------------------------------------------------------------------------
(* The operators the actions are made of.                                  *)

\* The lowest of some numbers is one of them.
LEMMA NatHasLeast ==
    \E R : IsWellFoundedOn(R, Nat) /\ \A x, y \in Nat : x < y => <<x, y>> \in R
<1>1. IsWellFoundedOn(OpToRel(<, Nat), Nat)
  BY NatLessThanWellFounded
<1>2. \A x, y \in Nat : x < y => <<x, y>> \in OpToRel(<, Nat)
  BY Zenon DEF OpToRel
<1>. QED
  BY <1>1, <1>2, Zenon

LEMMA MinIsIn == ASSUME NEW S \in SUBSET Nat, S # {} PROVE Min(S) \in S
<1>1. PICK R : IsWellFoundedOn(R, Nat) /\ \A x, y \in Nat : x < y => <<x, y>> \in R
  BY NatHasLeast
<1>2. PICK m \in S : \A y \in S : ~(<<y, m>> \in R)
  <2>1. IsWellFoundedOn(R, Nat)
    BY <1>1
  <2>2. S \subseteq Nat
    OBVIOUS
  <2>. HIDE <1>1
  <2>. QED
    BY <2>1, <2>2, WFMin, Zenon
<1>3. ASSUME NEW y \in S PROVE m =< y
  <2>1. m \in Nat /\ y \in Nat
    OBVIOUS
  <2>2. ~(y < m)
    BY <1>1, <1>2, <2>1, Zenon
  <2>. QED
    BY <2>1, <2>2
<1>. QED
  BY <1>3 DEF Min

\* The records of conn.
ConnOf == [sock : Fds \cup {None}, reuse : BOOLEAN, status : {0, 1}, lastOne : BOOLEAN,
           encrypt : BOOLEAN, ssl : Fds \cup {None}, shaken : BOOLEAN, tried : 0 .. 2]

\* A new socket, and a connection that is up, are connections.
LEMMA FieldsSet ==
    ASSUME NEW f \in [Browsers -> ConnOf], NEW b \in Browsers, NEW s \in Fds \cup {None}, NEW r \in BOOLEAN
    PROVE  /\ [f EXCEPT ![b].sock = s] \in [Browsers -> ConnOf]
           /\ [f EXCEPT ![b].reuse = r] \in [Browsers -> ConnOf]
           /\ [f EXCEPT ![b].status = 1, ![b].reuse = r] \in [Browsers -> ConnOf]
<1>1. f[b] \in ConnOf
  OBVIOUS
<1>2. /\ [f[b] EXCEPT !.sock = s] \in ConnOf /\ [f[b] EXCEPT !.reuse = r] \in ConnOf
      /\ [f[b] EXCEPT !.status = 1, !.reuse = r] \in ConnOf
  BY <1>1 DEF ConnOf
<1>. QED
  BY <1>2

\* What socket_close makes of a connection.
LEMMA ClosedIs ==
    ASSUME NEW c \in ConnOf
    PROVE  /\ Closed(c) \in ConnOf
           /\ ~Closes(c) => Closed(c) = c
           /\ Closes(c) =>
                /\ Closed(c).sock = None /\ Closed(c).status = 0 /\ ~Closed(c).lastOne
                /\ Closed(c).reuse = c.reuse /\ Closed(c).encrypt = c.encrypt
                /\ c.encrypt => /\ Closed(c).ssl = None /\ ~Closed(c).shaken
                                /\ Closed(c).tried = 0
                /\ ~c.encrypt => /\ Closed(c).ssl = c.ssl /\ Closed(c).shaken = c.shaken
                                 /\ Closed(c).tried = c.tried
<1>. DEFINE s == Shut(c)
<1>1. /\ s \in ConnOf /\ s.sock = None /\ s.status = 0 /\ ~s.lastOne
      /\ s.reuse = c.reuse /\ s.encrypt = c.encrypt /\ s.ssl = c.ssl
      /\ s.shaken = c.shaken /\ s.tried = c.tried
  BY DEF ConnOf, Shut, None
<1>2. ASSUME NEW d \in ConnOf
      PROVE  LET t == NoTls(d) IN
             /\ t \in ConnOf /\ t.sock = d.sock /\ t.status = d.status
             /\ t.lastOne = d.lastOne /\ t.reuse = d.reuse /\ t.encrypt = d.encrypt
             /\ t.ssl = None /\ ~t.shaken /\ t.tried = 0
  <2>. DEFINE t == NoTls(d)
  <2>1. /\ t.sock = d.sock /\ t.status = d.status
        /\ t.lastOne = d.lastOne /\ t.reuse = d.reuse /\ t.encrypt = d.encrypt
        /\ t.ssl = None /\ t.shaken = FALSE /\ t.tried = 0
    BY DEF ConnOf, NoTls
  <2>2. 0 \in 0 .. 2
    OBVIOUS
  <2>3. t \in ConnOf
    BY <2>2, Zenon DEF ConnOf, NoTls
  <2>. QED
    BY <2>1, <2>3
<1>3. Closed(c) = IF ~Closes(c) THEN c ELSE IF c.encrypt THEN NoTls(s) ELSE s
  BY DEF Closed
<1>. HIDE DEF s
<1>. QED
  BY <1>1, <1>2, <1>3

\* What becomes of it when no socket could be had.
LEMMA FailedIs ==
    ASSUME NEW c \in ConnOf, keepalive \in BOOLEAN
    PROVE  /\ Failed(c) \in ConnOf
           /\ Failed(c).sock = None /\ Failed(c).reuse = keepalive
           /\ Failed(c).encrypt = c.encrypt
           /\ keepalive /\ ~c.lastOne =>
                /\ Failed(c).status = c.status /\ ~Failed(c).lastOne
                /\ Failed(c).ssl = c.ssl
           /\ ~keepalive \/ c.lastOne =>
                /\ Failed(c).status = 0 /\ ~Failed(c).lastOne
                /\ c.encrypt => /\ Failed(c).ssl = None /\ ~Failed(c).shaken
                                /\ Failed(c).tried = 0
                /\ ~c.encrypt => /\ Failed(c).ssl = c.ssl /\ Failed(c).shaken = c.shaken
                                 /\ Failed(c).tried = c.tried
<1>. DEFINE d == [c EXCEPT !.sock = None, !.reuse = keepalive]
<1>1. /\ d \in ConnOf /\ d.sock = None /\ d.reuse = keepalive /\ d.encrypt = c.encrypt
      /\ d.lastOne = c.lastOne /\ d.ssl = c.ssl /\ d.status = c.status
      /\ d.shaken = c.shaken /\ d.tried = c.tried
  BY DEF ConnOf, None
<1>2. Closes(d) <=> ~keepalive \/ c.lastOne
  BY <1>1 DEF Closes
<1>3. Failed(c) = Closed(d)
  BY DEF Failed
<1>. HIDE DEF d
<1>. QED
  BY <1>1, <1>2, <1>3, ClosedIs

\* The table of descriptors after each of the things done to it.
LEMMA MarkedIs ==
    ASSUME NEW fd \in DOMAIN fds, ConnTypeOK, NEW cause
    PROVE  LET table == Marked(fds, fd, cause) IN
           /\ DOMAIN table = DOMAIN fds
           /\ table[fd].owner = fds[fd].owner /\ table[fd].peer = fds[fd].peer
           /\ table[fd].cause = cause
           /\ \A f \in DOMAIN fds \ {fd} : table[f] = fds[f]
  BY DEF Marked, ConnTypeOK

-----------------------------------------------------------------------------
(* What a step of browser b leaves to the others.                          *)

\* Descriptors of others are neither opened nor closed, nor does anything happen to them.
OnlyOwn(b) ==
    /\ \A fd \in DOMAIN fds : fds[fd].owner # b => fd \in DOMAIN fds' /\ fds'[fd] = fds[fd]
    /\ \A fd \in DOMAIN fds' : fds'[fd].owner # b => fd \in DOMAIN fds /\ fds'[fd] = fds[fd]

LEMMA OthersHold ==
    ASSUME CInv, NEW b \in Browsers, OnlyOwn(b), keepalive' = keepalive,
           NEW c \in Browsers \ {b},
           conn'[c] = conn[c], data'[c] = data[c], pc'[c] = pc[c], url'[c] = url[c]
    PROVE  Holds(c)'
<1>. USE DEF At
<1>0. Holds(c)
  BY DEF CInv
<1>1. \A fd \in {conn[c].sock, conn[c].ssl, data[c]} \ {None} :
         fd \in DOMAIN fds' /\ fds'[fd] = fds[fd] /\ fds[fd].owner = c
  BY <1>0 DEF Holds, Held, OnlyOwn
<1>2. Held(c)'
  BY <1>1 DEF Held
<1>3. Accounted(c)'
  BY <1>0 DEF Holds, Accounted, OnlyOwn, Excused
<1>4. Progress(c)'
  BY <1>0 DEF Holds, Progress
<1>5. Drops(c)'
  BY <1>0, <1>1 DEF Holds, Drops, Excused
<1>6. Once(c)'
  <2>1. pc[c] \in Connecting => conn[c].sock # None
    BY <1>0 DEF Holds, Progress
  <2>. QED
    BY <1>0, <1>1, <2>1 DEF Holds, Once
<1>. QED
  BY <1>2, <1>3, <1>4, <1>5, <1>6 DEF Holds

\* The variables of the browsers, typed, with those of the others as they were.
Places == {"idle", "create", "again", "connect", "open", "exchange", "transfer", "done", "dead"}
OnlySteps(b) ==
    /\ keepalive' = keepalive
    /\ conn' \in [Browsers -> ConnOf] /\ data' \in [Browsers -> Fds \cup {None}]
    /\ pc' \in [Browsers -> Places] /\ url' \in [Browsers -> Url \cup {Nowhere}]
    /\ \A c \in Browsers \ {b} : /\ conn'[c] = conn[c] /\ data'[c] = data[c]
                                 /\ pc'[c] = pc[c] /\ url'[c] = url[c]

TableOK == /\ DOMAIN fds \subseteq Fds
           /\ \A fd \in DOMAIN fds :
                fds[fd] \in [owner : Browsers, peer : Url,
                            cause : {"none", "connect", "handshake", "max", "ftp"}]

\* So a step preserves the invariant when it does for its own browser.
LEMMA OwnSuffices ==
    ASSUME CInv, NEW b \in Browsers, OnlySteps(b), OnlyOwn(b), TableOK', Holds(b)'
    PROVE  CInv'
<1>1. \A c \in Browsers : Holds(c)'
  BY OthersHold DEF OnlySteps
<1>2. \A c \in Browsers : pc'[c] = "idle" /\ conn'[c].status = 1 => conn'[c].sock # None
  BY <1>1 DEF Holds, Progress, At
<1>3. keepalive' \in BOOLEAN
  BY DEF OnlySteps, CInv, ConnTypeOK
<1>4. ConnTypeOK'
  BY <1>2, <1>3 DEF ConnTypeOK, OnlySteps, TableOK, Places, ConnOf, At
<1>. QED
  BY <1>1, <1>4 DEF CInv

\* What is known of the browser that takes a step.
LEMMA Own ==
    ASSUME CInv, NEW b \in Browsers
    PROVE  /\ keepalive \in BOOLEAN /\ conn \in [Browsers -> ConnOf] /\ conn[b] \in ConnOf
           /\ data \in [Browsers -> Fds \cup {None}]
           /\ pc \in [Browsers -> Places] /\ url \in [Browsers -> Url \cup {Nowhere}]
           /\ TableOK /\ Held(b) /\ Accounted(b) /\ Progress(b) /\ Drops(b) /\ Once(b)
  BY DEF CInv, ConnTypeOK, TableOK, Places, ConnOf, Holds

LEMMA NowhereIsNoUrl == Nowhere \notin Url
  BY DEF Nowhere, Url

-----------------------------------------------------------------------------
(* The steps that leave the table of descriptors alone.                    *)

LEMMA SameTable == ASSUME CInv, fds' = fds, NEW b \in Browsers PROVE OnlyOwn(b) /\ TableOK'
  BY DEF OnlyOwn, TableOK, CInv, ConnTypeOK

LEMMA BeginHolds == ASSUME CInv, NEW b \in Browsers, Begin(b) PROVE CInv'
<1>. USE Own DEF At, Goto
<1>1. PICK u \in Url : url' = [url EXCEPT ![b] = u] /\ Begin(b)!2!(u)
  BY DEF Begin
<1>2. /\ pc[b] = "idle" /\ keepalive' = keepalive /\ fds' = fds /\ data' = data
      /\ url'[b] = u /\ u.scheme \in {"HTTP", "HTTPS", "FTP"}
  BY <1>1 DEF Begin, Url
<1>3. CASE Keeps(conn[b])
  <2>1. /\ conn' = [conn EXCEPT ![b].reuse = TRUE] /\ pc' = [pc EXCEPT ![b] = "open"]
    BY <1>1, <1>3
  <2>7. conn' \in [Browsers -> ConnOf]
    BY <2>1, FieldsSet
  <2>2. OnlySteps(b)
    BY <1>1, <1>2, <2>1, <2>7 DEF OnlySteps, Places
  <2>3. Held(b)' /\ Accounted(b)'
    BY <1>2, <2>1 DEF Held, Accounted, ConnOf, Excused
  <2>4. Progress(b)'
    BY <1>2, <1>3, <2>1 DEF Progress, Keeps, ConnOf, Connecting, Connections
  <2>5. Drops(b)'
    BY <1>2, <1>3, <2>1 DEF Drops, Keeps, ConnOf, Excused
  <2>6. Once(b)'
    BY <1>2, <1>3, <2>1 DEF Once, Keeps
  <2>. QED
    BY <1>2, <2>2, <2>3, <2>4, <2>5, <2>6, SameTable, OwnSuffices DEF Holds
<1>4. CASE ~Keeps(conn[b])
  <2>1. /\ conn' = [conn EXCEPT ![b].reuse = keepalive /\ ~conn[b].lastOne,
                                ![b].encrypt = (u.scheme = "HTTPS")]
        /\ pc' = [pc EXCEPT ![b] = "create"]
    BY <1>1, <1>4
  <2>7. conn' \in [Browsers -> ConnOf]
    <3>. DEFINE r == keepalive /\ ~conn[b].lastOne
                e == u.scheme = "HTTPS"
    <3>1. conn' = [conn EXCEPT ![b].reuse = r, ![b].encrypt = e]
      BY <2>1
    <3>2. r \in BOOLEAN /\ e \in BOOLEAN
      OBVIOUS
    <3>. HIDE DEF r, e
    <3>. QED
      BY <3>1, <3>2 DEF ConnOf
  <2>2. OnlySteps(b)
    BY <1>1, <1>2, <2>1, <2>7 DEF OnlySteps, Places
  <2>3. Held(b)' /\ Accounted(b)'
    BY <1>2, <2>1 DEF Held, Accounted, ConnOf, Excused
  <2>4. Progress(b)'
    BY <1>2, <1>4, <2>1 DEF Progress, Keeps, ConnOf, Connecting, Connections
  <2>5. Drops(b)'
    BY <1>2, <1>4, <2>1 DEF Drops, Progress, Keeps, ConnOf, Excused
  <2>6. Once(b)'
    BY <1>2, <1>4, <2>1 DEF Once, Connecting, ConnOf
  <2>. QED
    BY <1>2, <2>2, <2>3, <2>4, <2>5, <2>6, SameTable, OwnSuffices DEF Holds
<1>. QED
  BY <1>3, <1>4

LEMMA NoAddressHolds == ASSUME CInv, NEW b \in Browsers, NoAddress(b) PROVE CInv'
<1>. USE Own DEF At, Goto
<1>. DEFINE c == Failed(conn[b])
<1>1. /\ pc[b] = "create" /\ keepalive' = keepalive /\ fds' = fds /\ data' = data
      /\ conn' = [conn EXCEPT ![b] = c]
      /\ pc' = [pc EXCEPT ![b] = "idle"] /\ url' = [url EXCEPT ![b] = Nowhere]
  BY DEF NoAddress, Over
<1>2. c \in ConnOf
  BY FailedIs
<1>3. conn'[b] = c
  BY <1>1
<1>4. OnlySteps(b)
  BY <1>1, <1>2 DEF OnlySteps, Places
<1>. HIDE DEF c
<1>5. c.sock = None /\ c.reuse = keepalive /\ c.encrypt = conn[b].encrypt
  BY FailedIs DEF c
<1>6. Held(b)' /\ Accounted(b)'
  <2>1. c.ssl \in {conn[b].ssl, None}
    BY FailedIs DEF c
  <2>2. Held(b)'
    BY <1>1, <1>3, <1>5, <2>1 DEF Held
  <2>3. Accounted(b)'
    BY <1>1, <1>3, <1>5 DEF Accounted, Excused, Drops
  <2>. QED
    BY <2>2, <2>3
<1>7. Progress(b)' /\ Drops(b)'
  <2>1. c.status # 1
    BY <1>1, FailedIs DEF c, Progress
  <2>2. data[b] = None
    BY <1>1 DEF Progress
  <2>. QED
    BY <1>1, <1>3, <1>5, <2>1, <2>2 DEF Progress, Drops, Connecting, Connections
<1>8. Once(b)'
  BY <1>1, <1>3, <1>5, FailedIs DEF c, Once, Connecting
<1>. QED
  BY <1>1, <1>4, <1>6, <1>7, <1>8, SameTable, OwnSuffices DEF Holds

LEMMA CreateFailsHolds == ASSUME CInv, NEW b \in Browsers, CreateFails(b) PROVE CInv'
<1>. USE Own DEF At, Goto
<1>. DEFINE a == [conn[b] EXCEPT !.sock = None]
            c == Failed(Closed(a))
<1>1. /\ pc[b] \in {"create", "again"} /\ keepalive' = keepalive /\ fds' = fds /\ data' = data
      /\ conn' = [conn EXCEPT ![b] = c]
      /\ pc' = [pc EXCEPT ![b] = "idle"] /\ url' = [url EXCEPT ![b] = Nowhere]
  BY DEF CreateFails, Over
<1>2. /\ a \in ConnOf /\ a.sock = None /\ a.status = conn[b].status
      /\ a.reuse = conn[b].reuse /\ a.lastOne = conn[b].lastOne
      /\ a.encrypt = conn[b].encrypt /\ a.ssl = conn[b].ssl /\ a.shaken = conn[b].shaken
      /\ a.tried = conn[b].tried
  BY DEF ConnOf, None
<1>. HIDE DEF a
<1>3. Closed(a) \in ConnOf /\ Closed(a).encrypt = conn[b].encrypt
  BY <1>2, ClosedIs
<1>4. c \in ConnOf /\ conn'[b] = c
  BY <1>1, <1>3, FailedIs
<1>5. OnlySteps(b)
  BY <1>1, <1>4 DEF OnlySteps, Places
<1>. HIDE DEF c
<1>6. c.sock = None /\ c.reuse = keepalive /\ c.encrypt = conn[b].encrypt
  BY <1>3, FailedIs DEF c
<1>11. c.ssl \in {None, conn[b].ssl}
  <2>1. Closed(a).ssl \in {None, conn[b].ssl}
    BY <1>2, ClosedIs
  <2>2. c.ssl \in {None, Closed(a).ssl}
    BY <1>3, FailedIs DEF c
  <2>. QED
    BY <2>1, <2>2
<1>7. Held(b)' /\ Accounted(b)'
  BY <1>1, <1>4, <1>6, <1>11 DEF Held, Accounted, Excused, Drops
<1>8. c.status # 1
  <2>1. CASE Closes(a)
    BY <1>2, <1>3, <2>1, ClosedIs, FailedIs DEF c
  <2>2. CASE ~Closes(a)
    <3>1. Closed(a) = a
      BY <1>2, <2>2, ClosedIs
    <3>2. ~conn[b].lastOne
      BY <1>2, <2>2 DEF Closes
    <3>3. (keepalive /\ c.status = conn[b].status) \/ c.status = 0
      BY <1>2, <3>1, FailedIs DEF c
    <3>. QED
      BY <1>1, <3>2, <3>3 DEF Progress
  <2>. QED
    BY <2>1, <2>2
<1>9. Progress(b)' /\ Drops(b)'
  BY <1>1, <1>2, <1>3, <1>4, <1>6, <1>8 DEF Progress, Drops, Connecting, Connections, ConnOf
<1>10. Once(b)'
  <2>. SUFFICES ASSUME ~keepalive PROVE Once(b)'
    BY <1>1 DEF Once
  <2>1. Closes(a)
    BY <1>2 DEF Closes, Progress
  <2>2. /\ c.encrypt => c.ssl = None /\ ~c.shaken /\ c.tried = 0
        /\ ~c.encrypt => /\ c.ssl = Closed(a).ssl /\ c.shaken = Closed(a).shaken
                         /\ c.tried = Closed(a).tried
    BY <1>3, <1>6, FailedIs DEF c
  <2>3. ~c.encrypt => /\ c.ssl = conn[b].ssl /\ c.shaken = conn[b].shaken
                      /\ c.tried = conn[b].tried
    BY <1>2, <1>6, <2>1, <2>2, ClosedIs
  <2>. QED
    BY <1>1, <1>4, <1>6, <2>2, <2>3 DEF Once, Connecting
<1>. QED
  BY <1>1, <1>5, <1>7, <1>9, <1>10, SameTable, OwnSuffices DEF Holds

LEMMA ConnectedHolds == ASSUME CInv, NEW b \in Browsers, Connected(b) PROVE CInv'
<1>. USE Own DEF At, Goto
<1>1. /\ pc[b] = "connect" /\ keepalive' = keepalive /\ fds' = fds /\ data' = data
      /\ conn' = [conn EXCEPT ![b].status = 1, ![b].reuse = keepalive]
      /\ pc' = [pc EXCEPT ![b] = "open"] /\ url' = url
  BY DEF Connected, Up
<1>2. conn' \in [Browsers -> ConnOf]
  BY <1>1, FieldsSet
<1>3. OnlySteps(b)
  BY <1>1, <1>2 DEF OnlySteps, Places
<1>4. Held(b)' /\ Accounted(b)'
  BY <1>1 DEF Held, Accounted, Excused, ConnOf
<1>5. Progress(b)' /\ Drops(b)'
  BY <1>1 DEF Progress, Drops, Connecting, Connections, ConnOf
<1>6. Once(b)'
  BY <1>1 DEF Once, Connecting, ConnOf
<1>. QED
  BY <1>1, <1>3, <1>4, <1>5, <1>6, SameTable, OwnSuffices DEF Holds

\* A connection that is used has the fields it had, but for encrypt and tried.
LEMMA UsedIs ==
    ASSUME NEW c \in ConnOf, NEW e \in BOOLEAN
    PROVE  LET d == Used(c, e) IN
           /\ d \in ConnOf /\ d.sock = c.sock /\ d.reuse = c.reuse /\ d.status = c.status
           /\ d.lastOne = c.lastOne /\ d.ssl = c.ssl /\ d.shaken = c.shaken
           /\ d.encrypt = e
           /\ d.tried = IF e /\ c.ssl # None /\ ~c.shaken /\ c.tried < 2
                        THEN c.tried + 1 ELSE c.tried
<1>. DEFINE failed == e /\ c.ssl # None /\ ~c.shaken
            n == IF failed /\ c.tried < 2 THEN c.tried + 1 ELSE c.tried
            d == [c EXCEPT !.encrypt = e, !.tried = n]
<1>1. Used(c, e) = d
  BY DEF Used
<1>2. n \in 0 .. 2
  BY DEF ConnOf
<1>3. n = IF e /\ c.ssl # None /\ ~c.shaken /\ c.tried < 2 THEN c.tried + 1 ELSE c.tried
  OBVIOUS
<1>. HIDE DEF n
<1>4. /\ d \in ConnOf /\ d.sock = c.sock /\ d.reuse = c.reuse /\ d.status = c.status
      /\ d.lastOne = c.lastOne /\ d.ssl = c.ssl /\ d.shaken = c.shaken
      /\ d.encrypt = e /\ d.tried = n
  BY <1>2 DEF ConnOf
<1>. QED
  BY <1>1, <1>3, <1>4

\* The exchange begins, on the connection as it is or over the TLS object that is there.
LEMMA UseHolds ==
    ASSUME CInv, NEW b \in Browsers, Clear(b) \/ TlsThere(b)
    PROVE  CInv'
<1>. USE Own DEF At, Goto
<1>1. /\ pc[b] = "open" /\ keepalive' = keepalive /\ fds' = fds /\ data' = data /\ url' = url
      /\ pc' = [pc EXCEPT ![b] = "exchange"]
  BY DEF Clear, TlsThere
<1>. DEFINE Fields(d, e) ==
        /\ d.sock = conn[b].sock /\ d.reuse = conn[b].reuse /\ d.status = conn[b].status
        /\ d.lastOne = conn[b].lastOne /\ d.ssl = conn[b].ssl /\ d.shaken = conn[b].shaken
        /\ d.encrypt = e
        /\ d.tried = IF e /\ conn[b].ssl # None /\ ~conn[b].shaken /\ conn[b].tried < 2
                     THEN conn[b].tried + 1 ELSE conn[b].tried
<1>2. PICK e \in BOOLEAN, d \in ConnOf :
        /\ conn' = [conn EXCEPT ![b] = d] /\ Fields(d, e)
        /\ e = conn[b].encrypt \/ (url[b].scheme = "HTTPS" /\ e = TRUE)
  <2>1. CASE Clear(b)
    <3>. DEFINE d == Used(conn[b], conn[b].encrypt)
    <3>1. conn[b].encrypt \in BOOLEAN
      BY DEF ConnOf
    <3>2. d \in ConnOf /\ Fields(d, conn[b].encrypt)
      BY <3>1, UsedIs
    <3>3. conn' = [conn EXCEPT ![b] = d]
      BY <2>1 DEF Clear
    <3>. HIDE DEF d
    <3>. QED
      BY <3>1, <3>2, <3>3
  <2>2. CASE TlsThere(b)
    <3>. DEFINE d == Used(conn[b], TRUE)
    <3>1. d \in ConnOf /\ Fields(d, TRUE)
      BY UsedIs
    <3>2. conn' = [conn EXCEPT ![b] = d] /\ url[b].scheme = "HTTPS"
      BY <2>2 DEF TlsThere
    <3>. HIDE DEF d
    <3>. QED
      BY <3>1, <3>2
  <2>. QED
    BY <2>1, <2>2
<1>4. Fields(d, e)
  BY <1>2
<1>5. OnlySteps(b) /\ conn'[b] = d
  BY <1>1, <1>2 DEF OnlySteps, Places
<1>6. Held(b)' /\ Accounted(b)'
  BY <1>1, <1>4, <1>5 DEF Held, Accounted, Excused
<1>7. Progress(b)'
  BY <1>1, <1>4, <1>5 DEF Progress, Connecting, Connections
<1>8. Drops(b)'
  BY <1>1, <1>2, <1>4, <1>5 DEF Drops
<1>9. Once(b)'
  <2>1. ~keepalive => conn[b].tried = 0
    BY <1>1 DEF Once, ConnOf
  <2>. QED
    BY <1>1, <1>2, <1>4, <1>5, <2>1 DEF Once, Connecting
<1>. QED
  BY <1>1, <1>5, <1>6, <1>7, <1>8, <1>9, SameTable, OwnSuffices DEF Holds

LEMMA ShakesHolds == ASSUME CInv, NEW b \in Browsers, Shakes(b) PROVE CInv'
<1>. USE Own DEF At, Goto
<1>1. /\ pc[b] = "open" /\ keepalive' = keepalive /\ fds' = fds /\ data' = data /\ url' = url
      /\ url[b].scheme = "HTTPS" /\ conn[b].ssl = None
      /\ conn' = [conn EXCEPT ![b].encrypt = TRUE, ![b].ssl = conn[b].sock, ![b].shaken = TRUE]
      /\ pc' = [pc EXCEPT ![b] = "exchange"]
  BY DEF Shakes
<1>2. conn' \in [Browsers -> ConnOf]
  <2>. DEFINE c == [conn[b] EXCEPT !.encrypt = TRUE, !.ssl = conn[b].sock, !.shaken = TRUE]
  <2>1. conn' = [conn EXCEPT ![b] = c]
    BY <1>1, Zenon
  <2>2. c \in ConnOf
    BY Zenon DEF ConnOf
  <2>. QED
    BY <2>1, <2>2
<1>3. OnlySteps(b)
  BY <1>1, <1>2 DEF OnlySteps, Places
<1>4. Held(b)' /\ Accounted(b)'
  BY <1>1 DEF Held, Accounted, Excused, ConnOf
<1>5. Progress(b)' /\ Drops(b)'
  BY <1>1 DEF Progress, Drops, Connecting, Connections, ConnOf
<1>6. Once(b)'
  BY <1>1 DEF Once, Connecting, ConnOf
<1>. QED
  BY <1>1, <1>3, <1>4, <1>5, <1>6, SameTable, OwnSuffices DEF Holds

LEMMA DieHolds == ASSUME CInv, NEW b \in Browsers, Die(b) PROVE CInv'
<1>. USE Own DEF At, Goto
<1>1. /\ UNCHANGED <<keepalive, fds, conn, data, url>>
      /\ pc' = [pc EXCEPT ![b] = "dead"]
  BY DEF Die
<1>2. OnlySteps(b)
  BY <1>1 DEF OnlySteps, Places
<1>3. Held(b)' /\ Accounted(b)'
  BY <1>1 DEF Held, Accounted, Excused
<1>4. Progress(b)' /\ Drops(b)'
  BY <1>1 DEF Progress, Drops, Connecting, Connections
<1>5. Once(b)'
  BY <1>1 DEF Once, Connecting
<1>. QED
  BY <1>1, <1>2, <1>3, <1>4, <1>5, SameTable, OwnSuffices DEF Holds

LEMMA NullTlsHolds == ASSUME CInv, NEW b \in Browsers, NullTls(b) PROVE CInv'
<1>1. /\ UNCHANGED <<keepalive, fds, conn, data, url>>
      /\ pc' = [any \in Browsers |-> "dead"]
  BY DEF NullTls
<1>2. ConnTypeOK'
  BY <1>1 DEF CInv, ConnTypeOK, At
<1>3. ASSUME NEW c \in Browsers PROVE Holds(c)'
  <2>1. Held(c)' /\ Accounted(c)'
    BY <1>1, Own DEF Held, Accounted, Excused
  <2>2. Progress(c)' /\ Drops(c)'
    BY <1>1, Own DEF Progress, Drops, Connecting, Connections, At
  <2>3. Once(c)'
    BY <1>1, Own DEF Once, Connecting
  <2>. QED
    BY <2>1, <2>2, <2>3 DEF Holds
<1>. QED
  BY <1>2, <1>3 DEF CInv

-----------------------------------------------------------------------------
(* The steps that open a descriptor.                                       *)

LEMMA OpensOwn ==
    ASSUME CInv, NEW b \in Browsers, NEW fd \in Free, NEW peer \in Url,
           fds' = Opened(b, fd, peer)
    PROVE  /\ OnlyOwn(b) /\ TableOK' /\ fd \in Fds /\ fd # None
           /\ DOMAIN fds' = DOMAIN fds \cup {fd}
           /\ fds'[fd].owner = b /\ fds'[fd].peer = peer
           /\ \A f \in DOMAIN fds : fds'[f] = fds[f]
<1>1. /\ DOMAIN fds' = DOMAIN fds \cup {fd} /\ fd \notin DOMAIN fds /\ fd \in Fds
      /\ fds'[fd] = [owner |-> b, peer |-> peer, cause |-> "none"]
      /\ \A f \in DOMAIN fds : fds'[f] = fds[f]
  <2>1. fd \in Fds /\ fd \notin DOMAIN fds
    BY DEF Free
  <2>. QED
    BY <2>1 DEF Opened
<1>2. fd # None
  BY <1>1, ConnectionAssumption DEF None
<1>3. OnlyOwn(b)
  BY <1>1 DEF OnlyOwn
<1>4. TableOK'
  BY <1>1 DEF TableOK, CInv, ConnTypeOK
<1>. QED
  BY <1>1, <1>2, <1>3, <1>4

LEMMA NoneIsNotOpen == ASSUME CInv PROVE None \notin DOMAIN fds
  BY ConnectionAssumption DEF CInv, ConnTypeOK, None

LEMMA LowestIsFree == Free # {} => Min(Free) \in Free
  BY MinIsIn, ConnectionAssumption DEF Free

LEMMA CreateHolds == ASSUME CInv, NEW b \in Browsers, Create(b) PROVE CInv'
<1>. USE Own DEF At, Goto
<1>1. PICK fd \in Free : /\ conn' = [conn EXCEPT ![b].sock = fd]
                         /\ fds' = Opened(b, fd, url[b])
  BY LowestIsFree DEF Create
<1>2. /\ pc[b] \in {"create", "again"} /\ UNCHANGED <<keepalive, data, url>>
      /\ pc' = [pc EXCEPT ![b] = "connect"] /\ url[b] \in Url
  BY DEF Create, Progress
<1>3. /\ OnlyOwn(b) /\ TableOK' /\ fd \in Fds /\ fd # None /\ fd \notin DOMAIN fds
      /\ DOMAIN fds' = DOMAIN fds \cup {fd}
      /\ fds'[fd].owner = b /\ fds'[fd].peer = url[b]
      /\ \A f \in DOMAIN fds : fds'[f] = fds[f]
  <2>1. fd \notin DOMAIN fds
    BY DEF Free
  <2>. HIDE Own
  <2>. QED
    BY <1>1, <1>2, <2>1, OpensOwn
<1>4. conn' \in [Browsers -> ConnOf]
  BY <1>1, <1>3, FieldsSet
<1>5. OnlySteps(b)
  BY <1>1, <1>2, <1>4 DEF OnlySteps, Places
<1>6. Held(b)'
  BY <1>1, <1>2, <1>3 DEF Held, ConnOf
<1>7. Accounted(b)'
  BY <1>1, <1>2, <1>3 DEF Accounted, Excused, Progress, Drops, ConnOf
<1>8. Progress(b)'
  BY <1>1, <1>2, <1>3 DEF Progress, Connecting, Connections, ConnOf
<1>9. Drops(b)'
  BY <1>1, <1>2, <1>3 DEF Drops, Held, ConnOf
<1>10. Once(b)'
  BY <1>1, <1>2, <1>3 DEF Once, Connecting, ConnOf
<1>. QED
  BY <1>3, <1>5, <1>6, <1>7, <1>8, <1>9, <1>10, OwnSuffices DEF Holds

LEMMA TransferHolds == ASSUME CInv, NEW b \in Browsers, Transfer(b) PROVE CInv'
<1>. USE Own DEF At, Goto
<1>1. PICK fd \in Free : /\ data' = [data EXCEPT ![b] = fd]
                         /\ fds' = Opened(b, fd, url[b])
  BY LowestIsFree DEF Transfer
<1>2. /\ pc[b] = "exchange" /\ UNCHANGED <<keepalive, conn, url>>
      /\ pc' = [pc EXCEPT ![b] = "transfer"] /\ url[b] \in Url
      /\ conn[b].encrypt => conn[b].shaken
      /\ url[b].scheme = "FTP"
  BY DEF Transfer, Progress, Connecting, Works
<1>3. /\ OnlyOwn(b) /\ TableOK' /\ fd \in Fds /\ fd # None /\ fd \notin DOMAIN fds
      /\ DOMAIN fds' = DOMAIN fds \cup {fd}
      /\ fds'[fd].owner = b
      /\ \A f \in DOMAIN fds : fds'[f] = fds[f]
  BY <1>1, <1>2, OpensOwn DEF Free
<1>4. OnlySteps(b)
  BY <1>1, <1>2, <1>3 DEF OnlySteps, Places
<1>5. Held(b)'
  BY <1>1, <1>2, <1>3 DEF Held
<1>6. Accounted(b)'
  BY <1>1, <1>2, <1>3, NoneIsNotOpen DEF Accounted, Excused, Progress
<1>7. Progress(b)'
  BY <1>1, <1>2, <1>3 DEF Progress, Held, Connecting, Connections
<1>8. Drops(b)'
  BY <1>1, <1>2, <1>3 DEF Drops
<1>9. Once(b)'
  <2>1. conn[b].sock # None /\ conn[b].sock \in DOMAIN fds
    BY <1>2 DEF Progress, Held, Connecting
  <2>. QED
    BY <1>1, <1>2, <1>3, <2>1 DEF Once, Connecting
<1>. QED
  BY <1>3, <1>4, <1>5, <1>6, <1>7, <1>8, <1>9, OwnSuffices DEF Holds

-----------------------------------------------------------------------------
(* The steps that give up a descriptor, and those that close one.          *)

\* Marking what happened to a descriptor of b.
LEMMA MarksOwn ==
    ASSUME CInv, NEW b \in Browsers, NEW fd \in DOMAIN fds, fds[fd].owner = b,
           NEW cause \in {"connect", "handshake", "max", "ftp"},
           fds' = Marked(fds, fd, cause)
    PROVE  /\ OnlyOwn(b) /\ TableOK'
           /\ DOMAIN fds' = DOMAIN fds /\ fds'[fd].cause = cause
           /\ \A f \in DOMAIN fds : /\ fds'[f].owner = fds[f].owner
                                    /\ fds'[f].peer = fds[f].peer
                                    /\ f # fd => fds'[f] = fds[f]
<1>1. CInv => ConnTypeOK
  BY DEF CInv
<1>2. /\ DOMAIN fds' = DOMAIN fds
      /\ fds'[fd].owner = b /\ fds'[fd].peer = fds[fd].peer /\ fds'[fd].cause = cause
      /\ \A f \in DOMAIN fds \ {fd} : fds'[f] = fds[f]
  BY <1>1, MarkedIs
<1>3. OnlyOwn(b)
  BY <1>2 DEF OnlyOwn
<1>4. fds'[fd] \in [owner : Browsers, peer : Url,
                    cause : {"none", "connect", "handshake", "max", "ftp"}]
  BY <1>1 DEF Marked, ConnTypeOK
<1>5. TableOK'
  BY <1>1, <1>2, <1>4 DEF TableOK, ConnTypeOK
<1>. QED
  BY <1>2, <1>3, <1>5

LEMMA TlsFailsHolds == ASSUME CInv, NEW b \in Browsers, TlsFails(b) PROVE CInv'
<1>. USE Own DEF At, Goto
<1>1. PICK ssl \in {None, conn[b].sock} :
         conn' = [conn EXCEPT ![b].encrypt = TRUE, ![b].ssl = ssl]
  BY DEF TlsFails
<1>2. /\ pc[b] = "open" /\ url[b].scheme = "HTTPS" /\ conn[b].ssl = None
      /\ fds' = Marked(fds, conn[b].sock, "handshake") /\ UNCHANGED <<keepalive, data>>
      /\ pc' = [pc EXCEPT ![b] = "idle"] /\ url' = [url EXCEPT ![b] = Nowhere]
  BY DEF TlsFails, Over
<1>3. conn[b].sock # None /\ conn[b].sock \in DOMAIN fds /\ fds[conn[b].sock].owner = b
  BY <1>2 DEF Progress, Held, Connecting
<1>4. /\ OnlyOwn(b) /\ TableOK'
      /\ DOMAIN fds' = DOMAIN fds /\ fds'[conn[b].sock].cause = "handshake"
      /\ \A f \in DOMAIN fds : /\ fds'[f].owner = fds[f].owner
                               /\ fds'[f].peer = fds[f].peer
                               /\ f # conn[b].sock => fds'[f] = fds[f]
  BY <1>2, <1>3, MarksOwn
<1>5. conn' \in [Browsers -> ConnOf]
  <2>1. ssl \in Fds \cup {None}
    BY DEF ConnOf
  <2>. DEFINE c == [conn[b] EXCEPT !.encrypt = TRUE, !.ssl = ssl]
  <2>2. c \in ConnOf
    BY <2>1, Zenon DEF ConnOf
  <2>3. conn' = [conn EXCEPT ![b] = c]
    BY <1>1, Zenon
  <2>. QED
    BY <2>2, <2>3
<1>6. OnlySteps(b)
  BY <1>1, <1>2, <1>5 DEF OnlySteps, Places
<1>7. Held(b)'
  <2>1. conn'[b].sock = conn[b].sock /\ conn'[b].ssl \in {None, conn[b].sock}
    BY <1>1 DEF ConnOf
  <2>. QED
    BY <1>2, <1>3, <1>4, <2>1 DEF Held
<1>8. Accounted(b)'
  BY <1>1, <1>2, <1>3, <1>4 DEF Accounted, Excused, ConnOf
<1>9. Progress(b)'
  BY <1>1, <1>2, <1>3 DEF Progress, Connecting, Connections, ConnOf
<1>10. Drops(b)'
  BY <1>1, <1>2, <1>3, <1>4 DEF Drops, Excused, ConnOf
<1>11. Once(b)'
  BY <1>1, <1>2 DEF Once, Connecting, ConnOf
<1>. QED
  BY <1>4, <1>6, <1>7, <1>8, <1>9, <1>10, <1>11, OwnSuffices DEF Holds

LEMMA NoTransferHolds == ASSUME CInv, NEW b \in Browsers, NoTransfer(b) PROVE CInv'
<1>. USE Own DEF At, Goto
<1>1. /\ pc[b] = "exchange" /\ url[b].scheme = "FTP"
      /\ fds' = Marked(fds, conn[b].sock, "ftp") /\ UNCHANGED <<keepalive, conn, data>>
      /\ pc' = [pc EXCEPT ![b] = "idle"] /\ url' = [url EXCEPT ![b] = Nowhere]
  BY DEF NoTransfer, Over
<1>2. conn[b].sock # None /\ conn[b].sock \in DOMAIN fds /\ fds[conn[b].sock].owner = b
  BY <1>1 DEF Progress, Held, Connecting
<1>3. /\ OnlyOwn(b) /\ TableOK'
      /\ DOMAIN fds' = DOMAIN fds /\ fds'[conn[b].sock].cause = "ftp"
      /\ \A f \in DOMAIN fds : /\ fds'[f].owner = fds[f].owner
                               /\ fds'[f].peer = fds[f].peer
                               /\ f # conn[b].sock => fds'[f] = fds[f]
  BY <1>1, <1>2, MarksOwn
<1>4. OnlySteps(b)
  BY <1>1 DEF OnlySteps, Places
<1>5. Held(b)'
  BY <1>1, <1>3 DEF Held
<1>6. Accounted(b)'
  BY <1>1, <1>2, <1>3 DEF Accounted, Excused
<1>7. Progress(b)'
  BY <1>1, <1>2 DEF Progress, Connecting, Connections
<1>8. Drops(b)'
  BY <1>1, <1>2, <1>3 DEF Drops, Excused
<1>9. Once(b)'
  BY <1>1 DEF Once, Connecting
<1>. QED
  BY <1>3, <1>4, <1>5, <1>6, <1>7, <1>8, <1>9, OwnSuffices DEF Holds

\* Closing a descriptor of b, with or without something having happened to it.
LEMMA ClosesOwn ==
    ASSUME CInv, NEW b \in Browsers, NEW c, NEW table, DOMAIN table = DOMAIN fds,
           \A f \in DOMAIN fds :
              /\ table[f] \in [owner : Browsers, peer : Url,
                               cause : {"none", "connect", "handshake", "max", "ftp"}]
              /\ table[f].owner = fds[f].owner
              /\ fds[f].owner # b => table[f] = fds[f],
           Closes(c) => c.sock \in DOMAIN fds /\ fds[c.sock].owner = b,
           fds' = Without(table, c)
    PROVE  /\ OnlyOwn(b) /\ TableOK'
           /\ DOMAIN fds' = IF Closes(c) THEN DOMAIN fds \ {c.sock} ELSE DOMAIN fds
           /\ \A f \in DOMAIN fds' : fds'[f] = table[f]
<1>1. /\ DOMAIN fds' = IF Closes(c) THEN DOMAIN fds \ {c.sock} ELSE DOMAIN fds
      /\ \A f \in DOMAIN fds' : fds'[f] = table[f]
  <2>1. CASE Closes(c)
    BY <2>1 DEF Without, Restrict
  <2>2. CASE ~Closes(c)
    BY <2>2 DEF Without
  <2>. QED
    BY <2>1, <2>2
<1>2. OnlyOwn(b)
  BY <1>1 DEF OnlyOwn
<1>3. TableOK'
  BY <1>1 DEF TableOK, CInv, ConnTypeOK
<1>. QED
  BY <1>1, <1>2, <1>3

\* A socket that is up, or was between two requests, is closed for good.
LEMMA ShutHolds ==
    ASSUME CInv, NEW b \in Browsers, pc[b] \in {"exchange", "idle"}, conn[b].sock # None,
           NEW c \in ConnOf, Closes(c), c.sock = conn[b].sock, c.reuse => keepalive,
           c.encrypt = conn[b].encrypt, c.ssl = conn[b].ssl, c.shaken = conn[b].shaken,
           c.tried = conn[b].tried,
           NEW p \in {"idle", "done"}, pc' = [pc EXCEPT ![b] = p],
           NEW u \in Url \cup {Nowhere}, url' = [url EXCEPT ![b] = u],
           Close(b, c), UNCHANGED <<keepalive, data>>
    PROVE  CInv'
<1>. USE Own
<1>. DEFINE d == Closed(c)
<1>1. conn' = [conn EXCEPT ![b] = d] /\ fds' = Without(fds, c)
  BY DEF Close
<1>2. /\ d \in ConnOf
      /\ d.sock = None /\ d.status = 0 /\ ~d.lastOne /\ d.reuse = c.reuse
      /\ d.encrypt = conn[b].encrypt
      /\ conn[b].encrypt => d.ssl = None /\ ~d.shaken /\ d.tried = 0
      /\ ~conn[b].encrypt => /\ d.ssl = conn[b].ssl /\ d.shaken = conn[b].shaken
                             /\ d.tried = conn[b].tried
  BY ClosedIs
<1>. HIDE DEF d
<1>3. conn'[b] = d /\ conn' \in [Browsers -> ConnOf]
  BY <1>1, <1>2
<1>4. /\ c.sock \in DOMAIN fds /\ fds[c.sock].owner = b
      /\ data[b] = None
  BY DEF Held, Progress
<1>5. /\ OnlyOwn(b) /\ TableOK' /\ DOMAIN fds' = DOMAIN fds \ {c.sock}
      /\ \A f \in DOMAIN fds' : fds'[f] = fds[f]
  BY <1>1, <1>4, ClosesOwn DEF TableOK
<1>6. OnlySteps(b)
  BY <1>1, <1>3 DEF OnlySteps, Places
<1>7. Held(b)'
  BY <1>2, <1>3, <1>4, <1>5 DEF Held, Drops
<1>8. Accounted(b)'
  BY <1>2, <1>3, <1>4, <1>5, NoneIsNotOpen DEF Accounted, Excused
<1>9. Progress(b)'
  BY <1>2, <1>3, <1>4 DEF Progress, Connecting, Connections, At
<1>10. Drops(b)'
  BY <1>2, <1>3 DEF Drops, At
<1>11. Once(b)'
  <2>1. ~keepalive => ~d.shaken /\ d.tried = 0
    BY <1>2 DEF Once, ConnOf
  <2>. QED
    BY <1>2, <1>3, <2>1 DEF Once, Connecting
<1>. QED
  BY <1>5, <1>6, <1>7, <1>8, <1>9, <1>10, <1>11, OwnSuffices DEF Holds

LEMMA BrokenHolds == ASSUME CInv, NEW b \in Browsers, Broken(b) PROVE CInv'
<1>. DEFINE c == [conn[b] EXCEPT !.reuse = FALSE]
<1>1. /\ c \in ConnOf /\ Closes(c) /\ c.sock = conn[b].sock /\ ~c.reuse
      /\ c.encrypt = conn[b].encrypt /\ c.ssl = conn[b].ssl /\ c.shaken = conn[b].shaken
      /\ c.tried = conn[b].tried
  BY Own DEF ConnOf, Closes
<1>2. /\ pc[b] = "exchange" /\ Close(b, c) /\ UNCHANGED <<keepalive, data>>
      /\ pc' = [pc EXCEPT ![b] = "idle"] /\ url' = [url EXCEPT ![b] = Nowhere]
  BY DEF Broken, At, Over, Goto
<1>3. conn[b].sock # None
  BY <1>2, Own DEF Progress, Connecting
<1>. HIDE DEF c
<1>. QED
  BY <1>1, <1>2, <1>3, ShutHolds

LEMMA FinishHolds == ASSUME CInv, NEW b \in Browsers, Finish(b) PROVE CInv'
<1>. USE Own DEF At, Goto
<1>1. /\ pc[b] = "idle" /\ UNCHANGED <<keepalive, data, url>>
      /\ pc' = [pc EXCEPT ![b] = "done"]
  BY DEF Finish
<1>2. CASE conn[b].sock # None
  <2>. DEFINE c == [conn[b] EXCEPT !.reuse = FALSE]
  <2>1. /\ c \in ConnOf /\ Closes(c) /\ c.sock = conn[b].sock /\ ~c.reuse
        /\ c.encrypt = conn[b].encrypt /\ c.ssl = conn[b].ssl /\ c.shaken = conn[b].shaken
        /\ c.tried = conn[b].tried
    BY DEF ConnOf, Closes
  <2>2. Close(b, c) /\ url' = [url EXCEPT ![b] = url[b]]
    BY <1>1, <1>2 DEF Finish
  <2>. HIDE DEF c
  <2>. QED
    BY <1>1, <1>2, <2>1, <2>2, ShutHolds
<1>3. CASE conn[b].sock = None
  <2>1. conn' = conn /\ fds' = fds
    BY <1>3 DEF Finish
  <2>2. OnlySteps(b)
    BY <1>1, <2>1 DEF OnlySteps, Places
  <2>3. Held(b)' /\ Accounted(b)'
    BY <1>1, <2>1 DEF Held, Accounted, Excused
  <2>4. Progress(b)' /\ Drops(b)'
    BY <1>1, <2>1 DEF Progress, Drops, Connecting, Connections, Excused
  <2>5. Once(b)'
    BY <1>1, <2>1 DEF Once, Connecting
  <2>. QED
    BY <2>1, <2>2, <2>3, <2>4, <2>5, SameTable, OwnSuffices DEF Holds
<1>. QED
  BY <1>2, <1>3

\* A reply: without keepalive the socket is closed, with it the connection stays.
LEMMA RepliedHolds == ASSUME CInv, NEW b \in Browsers, Replied(b) PROVE CInv'
<1>. USE Own DEF At, Goto
<1>1. /\ pc[b] = "exchange" /\ UNCHANGED <<keepalive, data>>
      /\ pc' = [pc EXCEPT ![b] = "idle"] /\ url' = [url EXCEPT ![b] = Nowhere]
  BY DEF Replied, Over
<1>2. PICK max1 \in BOOLEAN :
         LET c == [conn[b] EXCEPT !.lastOne = max1] IN
         IF keepalive
         THEN /\ conn' = [conn EXCEPT ![b] = c]
              /\ fds' = IF max1 THEN Marked(fds, c.sock, "max") ELSE fds
         ELSE Close(b, c)
  <2>1. conn[b].lastOne \in BOOLEAN
    BY DEF ConnOf
  <2>. QED
    BY <2>1 DEF Replied
<1>. DEFINE c == [conn[b] EXCEPT !.lastOne = max1]
<1>3. /\ c \in ConnOf /\ c.sock = conn[b].sock /\ c.reuse = conn[b].reuse
      /\ c.status = conn[b].status /\ c.lastOne = max1 /\ c.encrypt = conn[b].encrypt
      /\ c.ssl = conn[b].ssl /\ c.shaken = conn[b].shaken /\ c.tried = conn[b].tried
  BY DEF ConnOf
<1>4. /\ ~keepalive => Close(b, c)
      /\ keepalive => /\ conn' = [conn EXCEPT ![b] = c]
                      /\ fds' = IF max1 THEN Marked(fds, conn[b].sock, "max") ELSE fds
  BY <1>2, <1>3
<1>. HIDE DEF c
<1>5. conn[b].sock # None /\ conn[b].sock \in DOMAIN fds /\ fds[conn[b].sock].owner = b
  BY <1>1 DEF Progress, Held, Connecting
<1>6. CASE ~keepalive
  <2>1. Closes(c) /\ ~c.reuse
    BY <1>3, <1>6 DEF Closes, Progress
  <2>. QED
    BY <1>1, <1>3, <1>4, <1>5, <1>6, <2>1, ShutHolds
<1>7. CASE keepalive
  <2>1. /\ OnlyOwn(b) /\ TableOK' /\ DOMAIN fds' = DOMAIN fds
        /\ max1 => fds'[conn[b].sock].cause = "max"
        /\ \A f \in DOMAIN fds : /\ fds'[f].owner = fds[f].owner
                                 /\ f # conn[b].sock => fds'[f] = fds[f]
    <3>1. CASE max1
      BY <1>4, <1>5, <1>7, <3>1, MarksOwn
    <3>2. CASE ~max1
      BY <1>4, <1>7, <3>2, SameTable
    <3>. QED
      BY <3>1, <3>2
  <2>2. conn' = [conn EXCEPT ![b] = c]
    BY <1>4, <1>7
  <2>3. conn'[b] = c /\ OnlySteps(b)
    BY <1>1, <1>3, <2>2 DEF OnlySteps, Places
  <2>4. Held(b)'
    BY <1>1, <1>3, <2>1, <2>3 DEF Held
  <2>5. Accounted(b)'
    BY <1>1, <1>3, <2>1, <2>3 DEF Accounted, Excused
  <2>6. Progress(b)'
    BY <1>1, <1>3, <1>5, <2>3 DEF Progress, Connecting, Connections
  <2>7. Drops(b)'
    BY <1>1, <1>3, <1>7, <2>1, <2>3 DEF Drops, Excused
  <2>8. Once(b)'
    BY <1>1, <1>7 DEF Once
  <2>. QED
    BY <2>1, <2>3, <2>4, <2>5, <2>6, <2>7, <2>8, OwnSuffices DEF Holds
<1>. QED
  BY <1>6, <1>7

LEMMA TransferredHolds == ASSUME CInv, NEW b \in Browsers, Transferred(b) PROVE CInv'
<1>. USE Own DEF At, Goto
<1>0. PICK table, c : table = Marked(fds, conn[b].sock, "ftp") /\ c = [Fresh EXCEPT !.sock = data[b]]
  OBVIOUS
<1>1. /\ pc[b] = "transfer" /\ UNCHANGED <<keepalive, conn>>
      /\ data' = [data EXCEPT ![b] = None] /\ fds' = Without(table, c)
      /\ pc' = [pc EXCEPT ![b] = "idle"] /\ url' = [url EXCEPT ![b] = Nowhere]
  BY <1>0 DEF Transferred, Over
<1>2. Closes(c) /\ c.sock = data[b]
  BY <1>0 DEF Closes, Fresh
<1>3. /\ conn[b].sock # None /\ conn[b].sock \in DOMAIN fds /\ fds[conn[b].sock].owner = b
      /\ data[b] # None /\ data[b] \in DOMAIN fds /\ fds[data[b]].owner = b
      /\ data[b] \notin {conn[b].sock, conn[b].ssl}
  BY <1>1 DEF Progress, Held, Connecting
<1>4. /\ DOMAIN table = DOMAIN fds /\ table[conn[b].sock].cause = "ftp"
      /\ \A f \in DOMAIN fds :
           /\ table[f] \in [owner : Browsers, peer : Url,
                            cause : {"none", "connect", "handshake", "max", "ftp"}]
           /\ table[f].owner = fds[f].owner
           /\ fds[f].owner # b => table[f] = fds[f]
           /\ f # conn[b].sock => table[f] = fds[f]
  BY <1>0, <1>3 DEF Marked, TableOK
<1>5. /\ OnlyOwn(b) /\ TableOK' /\ DOMAIN fds' = DOMAIN fds \ {data[b]}
      /\ \A f \in DOMAIN fds' : fds'[f] = table[f]
  <2>1. /\ DOMAIN fds' = DOMAIN fds \ {data[b]}
        /\ \A f \in DOMAIN fds' : fds'[f] = table[f]
    BY <1>1, <1>2, <1>4 DEF Without, Restrict
  <2>2. OnlyOwn(b)
    BY <1>3, <1>4, <2>1 DEF OnlyOwn
  <2>3. TableOK'
    BY <1>4, <2>1 DEF TableOK
  <2>. QED
    BY <2>1, <2>2, <2>3
<1>6. OnlySteps(b)
  BY <1>1 DEF OnlySteps, Places
<1>7. Held(b)'
  BY <1>1, <1>3, <1>4, <1>5 DEF Held
<1>8. Accounted(b)'
  BY <1>1, <1>3, <1>4, <1>5 DEF Accounted, Excused
<1>9. Progress(b)'
  BY <1>1, <1>3 DEF Progress, Connecting, Connections
<1>10. Drops(b)'
  BY <1>1, <1>3, <1>4, <1>5 DEF Drops, Excused
<1>11. Once(b)'
  BY <1>1 DEF Once, Connecting
<1>. QED
  BY <1>5, <1>6, <1>7, <1>8, <1>9, <1>10, <1>11, OwnSuffices DEF Holds

\* A connect that failed: the socket is closed, or dropped, which takes keepalive.
LEMMA GivesUp ==
    ASSUME CInv, NEW b \in Browsers, pc[b] = "connect",
           fds' = Without(Marked(fds, conn[b].sock, "connect"), conn[b])
    PROVE  /\ OnlyOwn(b) /\ TableOK'
           /\ conn[b].sock # None /\ conn[b].sock \in DOMAIN fds /\ data[b] = None
           /\ Closes(conn[b]) => DOMAIN fds' = DOMAIN fds \ {conn[b].sock}
           /\ ~Closes(conn[b]) => /\ DOMAIN fds' = DOMAIN fds /\ keepalive
                                  /\ fds'[conn[b].sock].cause = "connect"
           /\ \A f \in DOMAIN fds' : /\ f # conn[b].sock => fds'[f] = fds[f]
                                     /\ fds'[f].owner = fds[f].owner
<1>. USE Own
<1>1. PICK table : table = Marked(fds, conn[b].sock, "connect")
  OBVIOUS
<1>2. /\ conn[b].sock # None /\ conn[b].sock \in DOMAIN fds /\ fds[conn[b].sock].owner = b
      /\ data[b] = None
  BY DEF Progress, Held, Connecting
<1>3. /\ DOMAIN table = DOMAIN fds /\ table[conn[b].sock].cause = "connect"
      /\ \A f \in DOMAIN fds :
           /\ table[f] \in [owner : Browsers, peer : Url,
                            cause : {"none", "connect", "handshake", "max", "ftp"}]
           /\ table[f].owner = fds[f].owner
           /\ f # conn[b].sock => table[f] = fds[f]
  BY <1>1, <1>2 DEF Marked, TableOK
<1>4. /\ Closes(conn[b]) => DOMAIN fds' = DOMAIN fds \ {conn[b].sock}
      /\ ~Closes(conn[b]) => DOMAIN fds' = DOMAIN fds
      /\ \A f \in DOMAIN fds' : fds'[f] = table[f]
  <2>1. CASE Closes(conn[b])
    BY <1>1, <1>3, <2>1 DEF Without, Restrict
  <2>2. CASE ~Closes(conn[b])
    BY <1>1, <1>3, <2>2 DEF Without
  <2>. QED
    BY <2>1, <2>2
<1>5. OnlyOwn(b)
  BY <1>2, <1>3, <1>4 DEF OnlyOwn
<1>6. TableOK'
  BY <1>3, <1>4 DEF TableOK
<1>7. ~Closes(conn[b]) => keepalive
  BY DEF Closes, Progress
<1>. QED
  BY <1>2, <1>3, <1>4, <1>5, <1>6, <1>7

LEMMA RetryHolds == ASSUME CInv, NEW b \in Browsers, Retry(b) PROVE CInv'
<1>. USE Own DEF At, Goto
<1>1. /\ pc[b] = "connect" /\ UNCHANGED <<keepalive, data, url>>
      /\ fds' = Without(Marked(fds, conn[b].sock, "connect"), conn[b])
      /\ pc' = [pc EXCEPT ![b] = "again"]
  BY DEF Retry
<1>2. PICK d \in ConnOf :
        /\ conn' = [conn EXCEPT ![b] = d]
        /\ ~Closes(conn[b]) => d = conn[b]
        /\ Closes(conn[b]) =>
             /\ d.sock = None /\ d.status = 0 /\ ~d.lastOne
             /\ d.reuse = conn[b].reuse
             /\ conn[b].encrypt => d.ssl = None /\ ~d.shaken /\ d.tried = 0
             /\ ~conn[b].encrypt => /\ d.ssl = conn[b].ssl /\ d.shaken = conn[b].shaken
                                    /\ d.tried = conn[b].tried
        /\ d.encrypt = conn[b].encrypt
  <2>. DEFINE d == Closed(conn[b])
  <2>1. conn' = [conn EXCEPT ![b] = d]
    BY DEF Retry
  <2>2. /\ d \in ConnOf
        /\ ~Closes(conn[b]) => d = conn[b]
        /\ Closes(conn[b]) =>
             /\ d.sock = None /\ d.status = 0 /\ ~d.lastOne
             /\ d.reuse = conn[b].reuse
             /\ conn[b].encrypt => d.ssl = None /\ ~d.shaken /\ d.tried = 0
             /\ ~conn[b].encrypt => /\ d.ssl = conn[b].ssl /\ d.shaken = conn[b].shaken
                                    /\ d.tried = conn[b].tried
        /\ d.encrypt = conn[b].encrypt
    BY ClosedIs
  <2>. HIDE DEF d
  <2>. QED
    BY <2>1, <2>2
<1>3. /\ OnlyOwn(b) /\ TableOK'
      /\ conn[b].sock # None /\ conn[b].sock \in DOMAIN fds /\ data[b] = None
      /\ Closes(conn[b]) => DOMAIN fds' = DOMAIN fds \ {conn[b].sock}
      /\ ~Closes(conn[b]) => /\ DOMAIN fds' = DOMAIN fds /\ keepalive
                             /\ fds'[conn[b].sock].cause = "connect"
      /\ \A f \in DOMAIN fds' : /\ f # conn[b].sock => fds'[f] = fds[f]
                                /\ fds'[f].owner = fds[f].owner
  BY <1>1, GivesUp
<1>4. conn'[b] = d /\ OnlySteps(b)
  BY <1>1, <1>2 DEF OnlySteps, Places
<1>5. Held(b)'
  BY <1>1, <1>2, <1>3, <1>4 DEF Held, Drops
<1>6. Accounted(b)'
  BY <1>1, <1>2, <1>3, <1>4, NoneIsNotOpen DEF Accounted, Excused
<1>7. Progress(b)'
  BY <1>1, <1>2, <1>3, <1>4 DEF Progress, Connecting, Connections
<1>8. Drops(b)'
  BY <1>1, <1>2, <1>3, <1>4 DEF Drops, Excused
<1>9. Once(b)'
  BY <1>1, <1>2, <1>3, <1>4 DEF Once, Connecting
<1>. QED
  BY <1>3, <1>4, <1>5, <1>6, <1>7, <1>8, <1>9, OwnSuffices DEF Holds

LEMMA ConnectFailsHolds == ASSUME CInv, NEW b \in Browsers, ConnectFails(b) PROVE CInv'
<1>. USE Own DEF At, Goto
<1>1. /\ pc[b] = "connect" /\ UNCHANGED <<keepalive, data>>
      /\ fds' = Without(Marked(fds, conn[b].sock, "connect"), conn[b])
      /\ pc' = [pc EXCEPT ![b] = "idle"] /\ url' = [url EXCEPT ![b] = Nowhere]
  BY DEF ConnectFails, Over
<1>2. PICK d \in ConnOf :
        /\ conn' = [conn EXCEPT ![b] = d]
        /\ d.sock = None /\ d.reuse = keepalive /\ d.status # 1
        /\ d.ssl \in {None, conn[b].ssl}
        /\ Closes(conn[b]) /\ conn[b].encrypt => d.ssl = None
        /\ ~keepalive /\ conn[b].encrypt => ~d.shaken /\ d.tried = 0
        /\ ~keepalive /\ ~conn[b].encrypt => /\ d.ssl = conn[b].ssl
                                             /\ d.shaken = conn[b].shaken
                                             /\ d.tried = conn[b].tried
  <2>. DEFINE a == Closed(conn[b])
              d == Failed(a)
  <2>1. conn' = [conn EXCEPT ![b] = d]
    BY DEF ConnectFails
  <2>2. /\ a \in ConnOf
        /\ ~Closes(conn[b]) => a = conn[b]
        /\ Closes(conn[b]) => a.status = 0 /\ (conn[b].encrypt => a.ssl = None)
        /\ a.ssl \in {None, conn[b].ssl} /\ a.encrypt = conn[b].encrypt
        /\ Closes(conn[b]) /\ ~conn[b].encrypt =>
             a.ssl = conn[b].ssl /\ a.shaken = conn[b].shaken /\ a.tried = conn[b].tried
    BY ClosedIs
  <2>. HIDE DEF a
  <2>3. /\ d \in ConnOf /\ d.sock = None /\ d.reuse = keepalive
        /\ d.status \in {0, a.status} /\ d.ssl \in {None, a.ssl}
        /\ ~keepalive /\ a.encrypt => ~d.shaken /\ d.tried = 0
        /\ ~keepalive /\ ~a.encrypt =>
             d.ssl = a.ssl /\ d.shaken = a.shaken /\ d.tried = a.tried
    BY <2>2, FailedIs
  <2>. HIDE DEF d
  <2>4. ~Closes(conn[b]) => conn[b].status # 1
    BY <1>1 DEF Closes, Progress
  <2>5. ~keepalive => Closes(conn[b])
    BY DEF Closes, Progress
  <2>6. d.status # 1
    BY <2>2, <2>3, <2>4
  <2>7. /\ d.ssl \in {None, conn[b].ssl}
        /\ Closes(conn[b]) /\ conn[b].encrypt => d.ssl = None
    BY <2>2, <2>3
  <2>8. /\ ~keepalive /\ conn[b].encrypt => ~d.shaken /\ d.tried = 0
        /\ ~keepalive /\ ~conn[b].encrypt => /\ d.ssl = conn[b].ssl
                                             /\ d.shaken = conn[b].shaken
                                             /\ d.tried = conn[b].tried
    BY <2>2, <2>3, <2>5
  <2>. QED
    BY <2>1, <2>3, <2>6, <2>7, <2>8
<1>3. /\ OnlyOwn(b) /\ TableOK'
      /\ conn[b].sock # None /\ conn[b].sock \in DOMAIN fds /\ data[b] = None
      /\ Closes(conn[b]) => DOMAIN fds' = DOMAIN fds \ {conn[b].sock}
      /\ ~Closes(conn[b]) => /\ DOMAIN fds' = DOMAIN fds /\ keepalive
                             /\ fds'[conn[b].sock].cause = "connect"
      /\ \A f \in DOMAIN fds' : /\ f # conn[b].sock => fds'[f] = fds[f]
                                /\ fds'[f].owner = fds[f].owner
  BY <1>1, GivesUp
<1>4. conn'[b] = d /\ OnlySteps(b)
  BY <1>1, <1>2 DEF OnlySteps, Places
<1>5. Held(b)'
  BY <1>1, <1>2, <1>3, <1>4 DEF Held, Drops
<1>6. Accounted(b)'
  BY <1>1, <1>2, <1>3, <1>4, NoneIsNotOpen DEF Accounted, Excused
<1>7. Progress(b)'
  BY <1>1, <1>2, <1>3, <1>4 DEF Progress, Connecting, Connections
<1>8. Drops(b)'
  BY <1>1, <1>2, <1>4 DEF Drops
<1>9. Once(b)'
  BY <1>1, <1>2, <1>4 DEF Once, Connecting
<1>. QED
  BY <1>3, <1>4, <1>5, <1>6, <1>7, <1>8, <1>9, OwnSuffices DEF Holds

-----------------------------------------------------------------------------
LEMMA InitCInv == Init => CInv
<1>. SUFFICES ASSUME Init PROVE CInv
  OBVIOUS
<1>1. /\ keepalive \in BOOLEAN /\ DOMAIN fds = {}
      /\ conn = [b \in Browsers |-> Fresh] /\ data = [b \in Browsers |-> None]
      /\ pc = [b \in Browsers |-> "idle"] /\ url = [b \in Browsers |-> Nowhere]
  BY DEF Init
<1>2. 0 \in 0 .. 2
  OBVIOUS
<1>3. Fresh \in ConnOf
  BY <1>2, Zenon DEF Fresh, ConnOf
<1>4. ConnTypeOK
  BY <1>1, <1>3 DEF ConnTypeOK, ConnOf, Fresh, At
<1>5. ASSUME NEW b \in Browsers PROVE Holds(b)
  <2>1. Held(b) /\ Accounted(b)
    BY <1>1 DEF Held, Accounted, Fresh
  <2>2. Progress(b) /\ Drops(b) /\ Once(b)
    BY <1>1 DEF Progress, Drops, Once, Connecting, Connections, Fresh, At, None
  <2>. QED
    BY <2>1, <2>2 DEF Holds
<1>. QED
  BY <1>4, <1>5 DEF CInv

LEMMA NextCInv == ASSUME CInv, [Next]_vars PROVE CInv'
<1>1. CASE UNCHANGED vars
  <2>1. ConnTypeOK'
    BY <1>1 DEF CInv, ConnTypeOK, At, vars
  <2>2. ASSUME NEW b \in Browsers PROVE Holds(b)'
    <3>1. Held(b)' /\ Accounted(b)'
      BY <1>1, Own DEF vars, Held, Accounted, Excused
    <3>2. Progress(b)' /\ Drops(b)' /\ Once(b)'
      BY <1>1, Own DEF vars, Progress, Drops, Once, Excused, At
    <3>. QED
      BY <3>1, <3>2 DEF Holds
  <2>. QED
    BY <2>1, <2>2 DEF CInv
<1>2. CASE Next
  <2>1. PICK b \in Browsers :
          Begin(b) \/ Open(b) \/ Secure(b) \/ Exchange(b) \/ Finish(b) \/ Die(b)
    BY <1>2 DEF Next
  <2>2. CASE Begin(b) \/ Finish(b) \/ Die(b)
    BY <2>2, BeginHolds, FinishHolds, DieHolds
  <2>3. CASE Open(b)
    BY <2>3, NoAddressHolds, CreateHolds, CreateFailsHolds, RetryHolds,
       ConnectFailsHolds, ConnectedHolds DEF Open
  <2>4. CASE Secure(b)
    BY <2>4, UseHolds, ShakesHolds, TlsFailsHolds DEF Secure
  <2>5. CASE Exchange(b)
    BY <2>5, BrokenHolds, NullTlsHolds, RepliedHolds, NoTransferHolds, TransferHolds,
       TransferredHolds DEF Exchange
  <2>. QED
    BY <2>1, <2>2, <2>3, <2>4, <2>5
<1>. QED
  BY <1>1, <1>2

LEMMA ConnectionInductive == Spec => []CInv
<1>. QED
  BY InitCInv, NextCInv, PTL DEF Spec

-----------------------------------------------------------------------------
\* Whatever the browsers ask for and however their connections fail, conn stays what
\* sock.h says of it, and a connection that is up between two requests has a socket.
THEOREM ConnectionsTyped == Spec => []ConnTypeOK
<1>1. CInv => ConnTypeOK
  BY DEF CInv
<1>. QED
  BY <1>1, ConnectionInductive, PTL

\* No browser closes or writes to a descriptor that another has opened since: not with a
\* stale sock, not with a TLS object that outlived its socket, not with the data connection
\* of FTP; and socket_close leaves nothing open but what the named cases drop.
THEOREM DescriptorsOwned == Spec => []OwnDescriptors
<1>1. CInv => OwnDescriptors
  <2>. SUFFICES ASSUME CInv PROVE OwnDescriptors
    OBVIOUS
  <2>1. \A b \in Browsers : \A fd \in {conn[b].sock, conn[b].ssl, data[b]} \ {None} :
           fd \in DOMAIN fds /\ fds[fd].owner = b
    BY Own DEF Held
  <2>2. ASSUME NEW fd \in DOMAIN fds
        PROVE  \/ fd \in {conn[fds[fd].owner].sock, data[fds[fd].owner]}
               \/ fds[fd].cause \in {"handshake", "ftp"}
               \/ keepalive /\ fds[fd].cause \in {"connect", "max"}
    <3>1. fds[fd].owner \in Browsers
      BY DEF CInv, ConnTypeOK
    <3>. QED
      BY <3>1, Own DEF Accounted, Excused
  <2>. QED
    BY <2>1, <2>2 DEF OwnDescriptors
<1>. QED
  BY <1>1, ConnectionInductive, PTL

\* Without keepalive every request goes to the server of its own URL, over a TLS session
\* with that server when it is encrypted, and a TLS object whose handshake failed is freed
\* after the request that finds it.
THEOREM RequestsReachTheirServer == Spec => []RightPeerUnlessKept
<1>1. CInv => RightPeerUnlessKept
  <2>. SUFFICES ASSUME CInv, ~keepalive, NEW b \in Browsers
                PROVE  /\ At(b, "exchange") /\ Works(b) => fds[Channel(b)].peer = url[b]
                       /\ conn[b].tried <= 1
    BY DEF RightPeerUnlessKept
  <2>1. Once(b)
    BY Own
  <2>2. ASSUME At(b, "exchange"), Works(b) PROVE fds[Channel(b)].peer = url[b]
    <3>1. CASE conn[b].encrypt
      BY <2>1, <2>2, <3>1 DEF At, Once, Works, Channel, Connecting
    <3>2. CASE ~conn[b].encrypt
      BY <2>1, <2>2, <3>2 DEF At, Once, Works, Channel, Connecting
    <3>. QED
      BY <3>1, <3>2
  <2>. QED
    BY <2>1, <2>2 DEF Once
<1>. QED
  BY <1>1, ConnectionInductive, PTL
=============================================================================
