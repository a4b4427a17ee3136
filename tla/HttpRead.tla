------------------------------ MODULE HttpRead ------------------------------
(***************************************************************************)
(* Reading replies: http_read_headers, http_read and http_chunk_size of    *)
(* http.c over socket_read and its buffer in sock.c, on one connection     *)
(* without TLS.  The bytes arrive in pieces, and the server may fall       *)
(* silent or hang up at any point.                                         *)
(*                                                                         *)
(* The headers of a reply and a line of a chunked body are one element of  *)
(* the stream each, a byte of a body is one too.  What the headers say     *)
(* besides the length, and the decompression of a body, are left out.      *)
(***************************************************************************)
EXTENDS Integers, Sequences, SequencesExt

CONSTANTS BufSize,      \* sizeof(C->buffer), 4096
          MaxFile,      \* MAXFILE, what http_read first allocates for a body
          SizeT,        \* how many values a size_t has
          Lengths,      \* the lengths a body without chunks may have
          Chunkings,    \* where the chunks of a chunked body may end: sequences of places
          Requests      \* bound: requests on the connection

\* The place before the first byte of chunk k, or of the end.
Before(ends, k) == IF k = 1 THEN 0 ELSE ends[k - 1]

\* No body is as long as a size_t counts.
ASSUME HttpReadAssumption == /\ BufSize \in Nat \ {0} /\ MaxFile \in Nat \ {0}
                             /\ SizeT \in Nat \ {0} /\ Requests \in Nat \ {0}
                             /\ Lengths \subseteq 0 .. SizeT - 1
                             /\ \A ends \in Chunkings :
                                  /\ ends \in Seq(1 .. SizeT - 1)
                                  /\ \A k \in 1 .. Len(ends) : Before(ends, k) < ends[k]

VARIABLES
    up,       \* the server's side of the connection: "open", "closed" or "reset"
    todo,     \* what the server has not sent yet
    wire,     \* what it has sent and nobody has read
    reply,    \* the reply to the last request
    buffer,   \* C->buffer from pos_ini on: inbuffer elements
    call,     \* the call of socket_read under way, or the last one
    pc,       \* where the browser is
    body,     \* the locals of http_read
    requests, \* history: how many requests were made
    late      \* history: a read failed for want of an answer

server == <<up, todo, wire, reply>>
reader == <<buffer, call>>
vars == <<server, reader, pc, body, requests, late>>

-----------------------------------------------------------------------------
(* What a server sends                                                     *)

Blank == -1    \* the size on a line that has none
Line(size) == [is |-> "line", size |-> size]
Headers == [is |-> "head"]

\* The bytes of a body of reply r.
Bytes(r, from, to) == [i \in 1 .. to - from + 1 |-> [is |-> "byte", of |-> r, at |-> from + i - 1]]

\* Each chunk is a line with its size, its bytes and a blank line; the last has size 0.
\* This is what there is from chunk k on.
FromChunk(r, ends) ==
    LET rest[k \in 1 .. Len(ends) + 1] ==
          IF k > Len(ends) THEN <<Line(0), Line(Blank)>>
          ELSE <<Line(ends[k] - Before(ends, k))>> \o (Bytes(r, Before(ends, k) + 1, ends[k])
                  \o (<<Line(Blank)>> \o rest[k + 1]))
    IN  rest

\* The replies to request r: the body's length is told, or told chunk by chunk, or the
\* end of the connection is its end.
Replies(r) ==
    [framing : {"length", "close"}, body : {Bytes(r, 1, k) : k \in Lengths}, ends : {<< >>}]
    \cup {[framing |-> "chunked", body |-> Bytes(r, 1, Before(c, Len(c) + 1)), ends |-> c] :
            c \in Chunkings}

Stream(r, rep) ==
    <<Headers>> \o IF rep.framing = "chunked" THEN FromChunk(r, rep.ends)[1] ELSE rep.body

\* Some of it arrives.
Send ==
    /\ up = "open" /\ todo # << >>
    /\ \E k \in 1 .. Len(todo) : /\ wire' = wire \o SubSeq(todo, 1, k)
                                 /\ todo' = SubSeq(todo, k + 1, Len(todo))
    /\ UNCHANGED <<up, reply, reader, pc, body, requests, late>>

\* The server closes the connection, or a reset loses what was not read.
HangUp ==
    /\ up = "open"
    /\ \/ up' = "closed" /\ UNCHANGED wire
       \/ up' = "reset" /\ wire' = << >>
    /\ UNCHANGED <<todo, reply, reader, pc, body, requests, late>>

-----------------------------------------------------------------------------
(* socket_read                                                             *)

\* A call for so many elements, what it has put into the caller's buffer, and its result.
Calling(want) == [want |-> want, out |-> << >>, over |-> FALSE, res |-> 0]

Missing == call.want - Len(call.out)
Awaits == ~call.over /\ Len(buffer) < Missing     \* there will be a read()

FirstOf(n, seq) == SubSeq(seq, 1, IF n < Len(seq) THEN n ELSE Len(seq))
After(n, seq) == SubSeq(seq, n + 1, Len(seq))

\* The call takes what it misses from the buffer as filled, and is over if that was enough
\* or the stream has ended.
Serve(filled, ended) ==
    LET out == call.out \o FirstOf(Missing, filled) IN
    /\ buffer' = After(Missing, filled)
    /\ call' = [call EXCEPT !.out = out, !.over = (ended \/ Len(out) = call.want), !.res = Len(out)]

FromBuffer ==
    /\ ~call.over /\ ~Awaits
    /\ Serve(buffer, FALSE)
    /\ UNCHANGED <<server, pc, body, requests, late>>

\* read() gives what has arrived and fits into the rest of the buffer.
Room == BufSize - Len(buffer)
Fill ==
    /\ Awaits /\ wire # << >>
    /\ Serve(buffer \o FirstOf(Room, wire), FALSE)
    /\ wire' = After(Room, wire)
    /\ UNCHANGED <<up, todo, reply, pc, body, requests, late>>

\* read() returned 0.
AtEnd ==
    /\ Awaits /\ wire = << >> /\ up = "closed"
    /\ Serve(buffer, TRUE)
    /\ UNCHANGED <<server, pc, body, requests, late>>

\* The call is over with this result.
Results(res) == call' = [call EXCEPT !.over = TRUE, !.res = res]

\* An error of read() is 0 to the caller, whatever the call has read before.
Fails ==
    /\ Awaits /\ up = "reset"
    /\ Results(0)
    /\ UNCHANGED <<server, buffer, pc, body, requests, late>>

\* __socket_check found nothing ready in my.timeout seconds.
TimesOut ==
    /\ Awaits /\ up = "open" /\ wire = << >>
    /\ Results(-1)
    /\ late' = TRUE
    /\ UNCHANGED <<server, buffer, pc, body, requests>>

SocketRead == FromBuffer \/ Fill \/ AtEnd \/ Fails \/ TimesOut

-----------------------------------------------------------------------------
(* http_read_headers, http_read, http_chunk_size: each step takes the      *)
(* result of a call of socket_read and mostly makes the next.              *)

At(place) == pc = place /\ call.over /\ UNCHANGED <<server, buffer, requests, late>>
Read(place, want) == pc' = place /\ call' = Calling(want)
Return(place) == pc' = place /\ UNCHANGED call

\* The locals of http_read as it begins: what ptr points at, how much it may hold, the
\* bytes counted, the size of the chunk and how much of it was read.
Empty == [ptr |-> << >>, size |-> MaxFile, bytes |-> 0, chunk |-> 0, n |-> 0]

\* bytes += n, of which bytes is unsigned.
Counted(n) == (body.bytes + n) % SizeT

\* Bytes written from the start of ptr over what is there.
Over(new, old) == new \o After(Len(new), old)

\* The headers have ended; http_read begins.
Framed(framing, length) ==
    /\ body' = Empty
    /\ \/ framing = "length" /\ length = 0 /\ Return("read")
       \/ framing = "length" /\ length > 0 /\ Read("length", length)
       \/ framing = "chunked" /\ Read("size", 1)
       \/ framing = "close" /\ Read("close", MaxFile)

\* Rests of another reply are header lines nobody knows, until a blank one ends them.
ReadHead ==
    /\ At("head")
    /\ IF call.res # 1 THEN Return("broken") /\ UNCHANGED body
       ELSE CASE call.out[1] = Headers -> Framed(reply.framing, Len(reply.body))
              [] call.out[1] = Line(Blank) -> Framed("close", 0)
              [] OTHER -> Read("head", 1) /\ UNCHANGED body

ReadLength ==
    LET put == [body EXCEPT !.ptr = Over(call.out, @)] IN
    /\ At("length")
    /\ IF call.res = 0 THEN Return("read") /\ body' = put
       ELSE /\ body' = [put EXCEPT !.bytes = Counted(call.res)]
            /\ IF Counted(call.res) < call.want THEN Read("length", call.want)
               ELSE Return("read")

\* Without a length every piece is read to the start of ptr.
ReadClose ==
    /\ At("close")
    /\ body' = [body EXCEPT !.bytes = Counted(call.res), !.ptr = Over(call.out, @)]
    /\ IF call.res > 0 THEN Read("close", MaxFile) ELSE Return("read")

\* The part of a chunk that is read next, by what it still lacks and the space in ptr.
NextPieceUnchecked(lacks, space) == lacks                  \* mutant: ptr is big enough
NextPiece(lacks, space) == IF lacks < space THEN lacks ELSE space

LineRead == IF call.res = 1 /\ call.out[1].is = "line" THEN call.out[1].size ELSE Blank

\* http_chunk_size: a blank line is passed over, and so is a failed read.
EndsAtNoSize(size) == FALSE                                \* mutant: size 0 is no end
EndsAt(size) == size = 0
ReadOfNewKept == body.n                                    \* mutant: n not set back
ReadOfNew == 0
ReadSize ==
    /\ At("size")
    /\ IF EndsAt(LineRead) THEN Read("last", 1) /\ UNCHANGED body
       ELSE IF LineRead > 0
       THEN /\ body' = [body EXCEPT !.chunk = LineRead, !.n = ReadOfNew]
            /\ Read("chunk", NextPiece(LineRead - ReadOfNew, body.size - body.bytes))
       ELSE Read("size", 1) /\ UNCHANGED body

ReadLast == At("last") /\ Return("read") /\ UNCHANGED body

ReadChunk ==
    LET n == body.n + call.res
        size == IF Counted(call.res) >= body.size THEN body.size * 2 ELSE body.size
    IN
    /\ At("chunk")
    /\ body' = [body EXCEPT !.bytes = Counted(call.res), !.ptr = @ \o call.out,
                            !.n = IF call.res > 0 THEN n ELSE @,
                            !.size = IF call.res > 0 THEN size ELSE @]
    /\ IF call.res <= 0 THEN Return("read")
       ELSE IF n < body.chunk THEN Read("chunk", NextPiece(body.chunk - n, size - Counted(call.res)))
       ELSE Read("size", 1)

Reader == ReadHead \/ ReadLength \/ ReadClose \/ ReadSize \/ ReadLast \/ ReadChunk

\* The next request on a connection that is kept: __init_connection empties the buffer,
\* and the server answers when it has sent what it had to send.
Request ==
    /\ pc \in {"start", "read"} /\ requests < Requests
    /\ requests' = requests + 1
    /\ reply' \in Replies(requests')
    /\ todo' = IF up = "open" THEN todo \o Stream(requests', reply') ELSE todo
    /\ buffer' = << >>
    /\ Read("head", 1)
    /\ body' = Empty
    /\ UNCHANGED <<up, wire, late>>

Init ==
    /\ up = "open" /\ todo = << >> /\ wire = << >>
    /\ reply = [framing |-> "close", body |-> << >>, ends |-> << >>]
    /\ buffer = << >> /\ call = [Calling(0) EXCEPT !.over = TRUE]
    /\ pc = "start" /\ body = Empty
    /\ requests = 0 /\ late = FALSE

Next == Send \/ HangUp \/ SocketRead \/ Reader \/ Request

Spec == Init /\ [][Next]_vars

(***************************************************************************)
(* The browser goes on when it can.  The server sends all of its reply     *)
(* and, if nothing else tells the end, closes; or it hangs up.  A time-out *)
(* may happen and need not, so TimesOut is not fair: select() also returns *)
(* when the socket can be written to, and the read() after it waits for as *)
(* long as the server is silent.                                           *)
(***************************************************************************)
Fairness ==
    /\ WF_vars(FromBuffer \/ Fill \/ AtEnd \/ Fails) /\ WF_vars(Reader)
    /\ WF_vars(Send)
    /\ WF_vars(todo = << >> /\ reply.framing = "close" /\ HangUp)

FairSpec == Spec /\ Fairness

-----------------------------------------------------------------------------
(* Properties.                                                             *)

\* Where the browser is, the call under way and the locals of http_read.  read() is never
\* called for nothing, which would look like the end of the stream; a chunk never runs over
\* ptr, which keeps a byte for the final zero.
ReadTypeOK ==
    /\ up \in {"open", "closed", "reset"} /\ late \in BOOLEAN /\ requests \in 0 .. Requests
    /\ pc \in {"start", "head", "length", "close", "size", "last", "chunk", "read", "broken"}
    /\ call.want \in Nat /\ call.over \in BOOLEAN /\ call.res \in -1 .. call.want
    /\ Len(call.out) <= call.want
    /\ body.bytes \in 0 .. SizeT - 1 /\ body.size \in Nat \ {0}
    /\ body.n \in 0 .. body.chunk
    /\ Awaits => Room > 0
    /\ ~late /\ reply.framing = "chunked" =>
         /\ pc = "chunk" /\ ~call.over => body.bytes + call.want <= body.size
         /\ pc = "read" => body.bytes < body.size

\* The whole reply was sent, and the server has hung up if that is its end.
WholeSent == todo = << >> /\ (up = "open" \/ (reply.framing = "close" /\ up = "closed"))

\* However the bytes arrive, what http_read puts together is the body so far; after a
\* whole reply it is the body, counted right, and nothing is left for the next reply to
\* begin with.  A body that ends with the connection is only counted.
BodyIsTheBody ==
    ~late =>
      /\ reply.framing # "close" => IsPrefix(body.ptr, reply.body)
      /\ pc = "read" /\ WholeSent =>
           /\ body.bytes = Len(reply.body) /\ wire = << >> /\ buffer = << >>
           /\ reply.framing # "close" => body.ptr = reply.body

\* Without a time-out to help it, reading a reply ends unless a chunked one was cut off (then
\* http_read goes round for ever) or an earlier read timed out (then what is left of that
\* reply may be taken for one whose end a silent server never tells); and read() never puts
\* more into C->buffer than there is room after what it holds.
CutOff == reply.framing = "chunked" /\ (up = "reset" \/ (up = "closed" /\ todo # << >>))
ReadEnds ==
    /\ pc = "head" ~> pc \in {"read", "broken"} \/ CutOff \/ late
    /\ [][~call.over /\ up' = up => Len(buffer) + Len(wire) - Len(wire') <= BufSize]_vars
=============================================================================
