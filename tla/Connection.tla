----------------------------- MODULE Connection -----------------------------
(***************************************************************************)
(* The connections of the browsers: __init_connection and its callers in   *)
(* browser.c, new_socket and socket_close in sock.c, SSL_initialize in     *)
(* ssl.c.  Every browser has one CONN, which outlives a request when       *)
(* my.keepalive is set; the table of descriptors belongs to the process.   *)
(*                                                                         *)
(* A request is made of the steps that open a socket, open TLS and         *)
(* exchange; what its caller does with the outcome is in module Browser.   *)
(* Failures of fcntl and setsockopt on a socket just made, and the tunnel  *)
(* through a proxy, are left out.                                          *)
(***************************************************************************)
EXTENDS Integers, FiniteSetsExt, Functions

CONSTANTS Browsers,   \* the simulated users
          Hosts,      \* the hosts they ask
          Fds         \* the numbers of the descriptors a process may have

ASSUME ConnectionAssumption == Fds \subseteq Nat

Url == [scheme : {"HTTP", "HTTPS", "FTP"}, host : Hosts]
Nowhere == [scheme |-> "none", host |-> "none"]

VARIABLES
    keepalive,   \* my.keepalive
    fds,         \* the open descriptors: who opened them, to which server, and history:
                 \* what happened to them after which the code may drop them unclosed
    conn,        \* this->conn, the fields that decide what becomes of the socket
    data,        \* D->sock, the data connection of FTP
    pc,          \* where a browser is in its request
    url          \* the URL it asks for, Nowhere between two requests

vars == <<keepalive, fds, conn, data, pc, url>>

None == -1

\* sock; reuse, status and max = 1 of connection; encrypt; ssl, as the descriptor it was
\* set on; whether its handshake was completed; history: how many requests used a TLS
\* object whose handshake had failed (2: or more).
Fresh == [sock |-> None, reuse |-> FALSE, status |-> 0, lastOne |-> FALSE,
          encrypt |-> FALSE, ssl |-> None, shaken |-> FALSE, tried |-> 0]

Init ==
    /\ keepalive \in BOOLEAN
    /\ fds = << >>
    /\ conn = [b \in Browsers |-> Fresh] /\ data = [b \in Browsers |-> None]
    /\ pc = [b \in Browsers |-> "idle"] /\ url = [b \in Browsers |-> Nowhere]

At(b, place) == pc[b] = place
Goto(b, place) == pc' = [pc EXCEPT ![b] = place]
Over(b) == Goto(b, "idle") /\ url' = [url EXCEPT ![b] = Nowhere]

-----------------------------------------------------------------------------
(* socket_close                                                            *)

Closes(c) == ~c.reuse \/ c.lastOne

NoTls(c) == [c EXCEPT !.ssl = None, !.shaken = FALSE, !.tried = 0]
Shut(c) == [c EXCEPT !.sock = None, !.status = 0, !.lastOne = FALSE]

\* With encrypt the TLS object goes too.
ClosedTlsKept(c) == IF Closes(c) THEN Shut(c) ELSE c       \* mutant: SSL_free forgotten
Closed(c) == IF ~Closes(c) THEN c ELSE IF c.encrypt THEN NoTls(Shut(c)) ELSE Shut(c)

Without(table, c) == IF Closes(c) THEN Restrict(table, DOMAIN table \ {c.sock}) ELSE table

\* This happened to the descriptor.
Marked(table, fd, cause) == [table EXCEPT ![fd].cause = cause]

\* Browser b closes its connection, which is c.
Close(b, c) ==
    /\ conn' = [conn EXCEPT ![b] = Closed(c)]
    /\ fds' = Without(fds, c)

-----------------------------------------------------------------------------
(* __init_connection and new_socket                                        *)

\* The URL of the next request; a socket that is up is used again with keepalive,
\* unless the server said max=1.
KeepsAlways(c) == c.status = 1                             \* mutant: keepalive not asked
Keeps(c) == keepalive /\ ~c.lastOne /\ c.status = 1
Begin(b) ==
    /\ At(b, "idle")
    /\ \E u \in Url :
         /\ url' = [url EXCEPT ![b] = u]
         /\ IF Keeps(conn[b])
            THEN /\ conn' = [conn EXCEPT ![b].reuse = TRUE]
                 /\ Goto(b, "open")
            ELSE /\ conn' = [conn EXCEPT ![b].reuse = keepalive /\ ~conn[b].lastOne,
                                         ![b].encrypt = (u.scheme = "HTTPS")]
                 /\ Goto(b, "create")
    /\ UNCHANGED <<keepalive, fds, data>>

\* new_socket returned -1: what __init_connection makes of it.
FailedUnclosed(c) == [c EXCEPT !.sock = None, !.reuse = keepalive]   \* mutant: no socket_close
Failed(c) == Closed([c EXCEPT !.sock = None, !.reuse = keepalive])

\* No address for the host.
NoAddress(b) ==
    /\ At(b, "create")
    /\ conn' = [conn EXCEPT ![b] = Failed(@)]
    /\ Over(b)
    /\ UNCHANGED <<keepalive, fds, data>>

Free == Fds \ DOMAIN fds
Opened(b, fd, peer) ==
    [f \in DOMAIN fds \cup {fd} |->
       IF f = fd THEN [owner |-> b, peer |-> peer, cause |-> "none"] ELSE fds[f]]

\* The number of a new descriptor is the lowest that is free.
Create(b) ==
    /\ pc[b] \in {"create", "again"} /\ Free # {}
    /\ conn' = [conn EXCEPT ![b].sock = Min(Free)]
    /\ fds' = Opened(b, Min(Free), url[b])
    /\ Goto(b, "connect")
    /\ UNCHANGED <<keepalive, data, url>>

\* The table is full, or the system short of something else.
CreateFails(b) ==
    /\ pc[b] \in {"create", "again"}
    /\ conn' = [conn EXCEPT ![b] = Failed(Closed([@ EXCEPT !.sock = None]))]
    /\ Over(b)
    /\ UNCHANGED <<keepalive, fds, data>>

\* connect failed and getaddrinfo gave another result: a new socket for it.
Retry(b) ==
    /\ At(b, "connect")
    /\ conn' = [conn EXCEPT ![b] = Closed(@)]
    /\ fds' = Without(Marked(fds, conn[b].sock, "connect"), conn[b])
    /\ Goto(b, "again")
    /\ UNCHANGED <<keepalive, data, url>>

\* Refused, or not ready in time.
ConnectFails(b) ==
    /\ At(b, "connect")
    /\ conn' = [conn EXCEPT ![b] = Failed(Closed(@))]
    /\ fds' = Without(Marked(fds, conn[b].sock, "connect"), conn[b])
    /\ Over(b)
    /\ UNCHANGED <<keepalive, data>>

Up(c) == 1
Connected(b) ==
    /\ At(b, "connect")
    /\ conn' = [conn EXCEPT ![b].status = Up(conn[b]), ![b].reuse = keepalive]
    /\ Goto(b, "open")
    /\ UNCHANGED <<keepalive, fds, data, url>>

-----------------------------------------------------------------------------
(* SSL_initialize                                                          *)

\* The connection through which a request and its reply go.
Channel(b) == IF conn[b].encrypt THEN conn[b].ssl ELSE conn[b].sock
Works(b) == Channel(b) # None /\ (conn[b].encrypt => conn[b].shaken)

\* The connection, with encrypt as given, is used for a request.
Used(c, encrypt) ==
    LET failed == encrypt /\ c.ssl # None /\ ~c.shaken IN
    [c EXCEPT !.encrypt = encrypt, !.tried = IF failed /\ @ < 2 THEN @ + 1 ELSE @]

Clear(b) ==
    /\ At(b, "open") /\ url[b].scheme # "HTTPS"
    /\ conn' = [conn EXCEPT ![b] = Used(@, @.encrypt)]
    /\ Goto(b, "exchange")
    /\ UNCHANGED <<keepalive, fds, data, url>>

\* A TLS object that is there is taken for a session with the server.
TlsThere(b) ==
    /\ At(b, "open") /\ url[b].scheme = "HTTPS" /\ conn[b].ssl # None
    /\ conn' = [conn EXCEPT ![b] = Used(@, TRUE)]
    /\ Goto(b, "exchange")
    /\ UNCHANGED <<keepalive, fds, data, url>>

Shakes(b) ==
    /\ At(b, "open") /\ url[b].scheme = "HTTPS" /\ conn[b].ssl = None
    /\ conn' = [conn EXCEPT ![b].encrypt = TRUE, ![b].ssl = conn[b].sock, ![b].shaken = TRUE]
    /\ Goto(b, "exchange")
    /\ UNCHANGED <<keepalive, fds, data, url>>

\* The context cannot be set up, or SSL_connect fails on the new TLS object: the
\* request has failed and nothing is closed.
TlsFails(b) ==
    /\ At(b, "open") /\ url[b].scheme = "HTTPS" /\ conn[b].ssl = None
    /\ \E ssl \in {None, conn[b].sock} :
         conn' = [conn EXCEPT ![b].encrypt = TRUE, ![b].ssl = ssl]
    /\ fds' = Marked(fds, conn[b].sock, "handshake")
    /\ Over(b)
    /\ UNCHANGED <<keepalive, data>>

-----------------------------------------------------------------------------
(* The exchange, as far as it concerns the connection                      *)

\* The request cannot be written, no headers come back, it is no HTTP server, or the
\* page is empty.
Broken(b) ==
    /\ At(b, "exchange") /\ url[b].scheme # "FTP"
    /\ Close(b, [conn[b] EXCEPT !.reuse = FALSE])
    /\ Over(b)
    /\ UNCHANGED <<keepalive, data>>

\* SSL_write without a TLS object: the process may end of it (or the write fails).
NullTls(b) ==
    /\ At(b, "exchange") /\ conn[b].encrypt /\ conn[b].ssl = None
    /\ pc' = [any \in Browsers |-> "dead"]
    /\ UNCHANGED <<keepalive, fds, conn, data, url>>

\* A reply, maybe with a Keep-Alive header.  Without keepalive the socket is closed;
\* with it, one for which max=1 was said is dropped at the next request.
Replied(b) ==
    /\ At(b, "exchange") /\ url[b].scheme # "FTP" /\ Works(b)
    /\ \E max1 \in {conn[b].lastOne, TRUE, FALSE} :
         LET c == [conn[b] EXCEPT !.lastOne = max1] IN
         IF keepalive
         THEN /\ conn' = [conn EXCEPT ![b] = c]
              /\ fds' = IF max1 THEN Marked(fds, c.sock, "max") ELSE fds
         ELSE Close(b, c)
    /\ Over(b)
    /\ UNCHANGED <<keepalive, data>>

\* FTP: nobody is logged in, or there is no data connection.  The control connection
\* stays as it is.
NoTransfer(b) ==
    /\ At(b, "exchange") /\ url[b].scheme = "FTP"
    /\ fds' = Marked(fds, conn[b].sock, "ftp")
    /\ Over(b)
    /\ UNCHANGED <<keepalive, conn, data>>

\* Logged in, and the data connection is open.
Transfer(b) ==
    /\ At(b, "exchange") /\ url[b].scheme = "FTP" /\ Works(b) /\ Free # {}
    /\ data' = [data EXCEPT ![b] = Min(Free)]
    /\ fds' = Opened(b, Min(Free), url[b])
    /\ Goto(b, "transfer")
    /\ UNCHANGED <<keepalive, conn, url>>

\* The data connection is closed, for the connection fields of D are 0; after QUIT the
\* control connection is left open.
Transferred(b) ==
    /\ At(b, "transfer")
    /\ data' = [data EXCEPT ![b] = None]
    /\ fds' = Without(Marked(fds, conn[b].sock, "ftp"), [Fresh EXCEPT !.sock = data[b]])
    /\ Over(b)
    /\ UNCHANGED <<keepalive, conn>>

-----------------------------------------------------------------------------
\* The end of start(): a socket that is there is closed.
Finish(b) ==
    /\ At(b, "idle")
    /\ IF conn[b].sock # None THEN Close(b, [conn[b] EXCEPT !.reuse = FALSE])
       ELSE UNCHANGED <<conn, fds>>
    /\ Goto(b, "done")
    /\ UNCHANGED <<keepalive, data, url>>

\* A cancelled thread ends wherever it is; __signal_cleanup does nothing.
Die(b) ==
    /\ ~At(b, "done") /\ ~At(b, "dead")
    /\ Goto(b, "dead")
    /\ UNCHANGED <<keepalive, fds, conn, data, url>>

Open(b) == NoAddress(b) \/ Create(b) \/ CreateFails(b) \/ Retry(b) \/ ConnectFails(b) \/ Connected(b)
Secure(b) == Clear(b) \/ TlsThere(b) \/ Shakes(b) \/ TlsFails(b)
Exchange(b) == \/ Broken(b) \/ NullTls(b) \/ Replied(b)
               \/ NoTransfer(b) \/ Transfer(b) \/ Transferred(b)

Next == \E b \in Browsers : Begin(b) \/ Open(b) \/ Secure(b) \/ Exchange(b) \/ Finish(b) \/ Die(b)

Spec == Init /\ [][Next]_vars

-----------------------------------------------------------------------------
(* Properties.                                                             *)

\* Where a browser is and what it holds; status is 1 or 0, as sock.h says.  Between two
\* requests a connection that is up has a socket: otherwise, with keepalive, no socket
\* would ever be opened again.
ConnTypeOK ==
    /\ keepalive \in BOOLEAN
    /\ DOMAIN fds \subseteq Fds
    /\ \A fd \in DOMAIN fds :
         fds[fd] \in [owner : Browsers, peer : Url,
                     cause : {"none", "connect", "handshake", "max", "ftp"}]
    /\ conn \in [Browsers -> [sock : Fds \cup {None}, reuse : BOOLEAN, status : {0, 1},
                              lastOne : BOOLEAN, encrypt : BOOLEAN,
                              ssl : Fds \cup {None}, shaken : BOOLEAN, tried : 0 .. 2]]
    /\ data \in [Browsers -> Fds \cup {None}]
    /\ pc \in [Browsers -> {"idle", "create", "again", "connect", "open", "exchange",
                            "transfer", "done", "dead"}]
    /\ url \in [Browsers -> Url \cup {Nowhere}]
    /\ \A b \in Browsers : At(b, "idle") /\ conn[b].status = 1 => conn[b].sock # None

\* A browser only holds descriptors that are open and that it opened, in sock, in D and
\* under its TLS object: no close and no write goes to another browser's connection.  A
\* descriptor that nobody will close was given up after a handshake that failed or an FTP
\* session or else, but only with keepalive, after a failed connect or max=1.
OwnDescriptors ==
    /\ \A b \in Browsers : \A fd \in {conn[b].sock, conn[b].ssl, data[b]} \ {None} :
          fd \in DOMAIN fds /\ fds[fd].owner = b
    /\ \A fd \in DOMAIN fds :
          \/ fd \in {conn[fds[fd].owner].sock, data[fds[fd].owner]}
          \/ fds[fd].cause \in {"handshake", "ftp"}
          \/ keepalive /\ fds[fd].cause \in {"connect", "max"}

\* Without keepalive no request goes to the server of an earlier one, whatever socket or
\* TLS object that left behind, and a failed handshake costs one more request at most.
\* (With it, C->sock is reused whatever the host of the next URL.)
RightPeerUnlessKept ==
    ~keepalive =>
      \A b \in Browsers :
         /\ At(b, "exchange") /\ Works(b) => fds[Channel(b)].peer = url[b]
         /\ conn[b].tried <= 1
=============================================================================
