------------------------------ MODULE Response ------------------------------
(***************************************************************************)
(* The head of a response (response.c): what http_read_headers makes of    *)
(* the lines a server sends.                                               *)
(*                                                                         *)
(* A line is a record of its name and its value.  The value of an          *)
(* authenticate line is the scheme and its parameters; a parameter knows   *)
(* whether a blank stands before it, for the parser steps over the text    *)
(* up to the next blank.                                                   *)
(***************************************************************************)
EXTENDS Integers, Sequences, SequencesExt

BASIC == "basic"      \* the zero of the enumeration, so what a fresh response has
DIGEST == "digest"
NTLM == "ntlm"

NoAuth == [type |-> BASIC, challenge |-> "", realm |-> ""]     \* "" for a NULL pointer

new_response == [headers |-> <<>>, www |-> NoAuth, proxy |-> NoAuth]

\* hash_add: a key that is there keeps its value, so the first of two lines counts.
Add(r, key, val) ==
  IF key \in DOMAIN r.headers THEN r
  ELSE [r EXCEPT !.headers = [k \in DOMAIN @ \cup {key} |-> IF k = key THEN val ELSE @[k]]]

Get(r, key, default) == IF key \in DOMAIN r.headers THEN r.headers[key] ELSE default
IntValue(r, key, default) == LET v == Get(r, key, -1) IN IF v > 0 THEN v ELSE default

-----------------------------------------------------------------------------
\* 418: no line of the head was a status line.
Code(r) == Get(r, "code", 418)
\* A response without a code is a failure, and 401 and 407 are neither.
Success(r) == IF "code" \in DOMAIN r.headers /\ (Code(r) < 400 \/ Code(r) \in {401, 407}) THEN 1 ELSE 0
Failure(r) == IF "code" \notin DOMAIN r.headers \/ (Code(r) >= 400 /\ Code(r) \notin {401, 407}) THEN 1 ELSE 0
Type(r) == Get(r, "content-type", "unknown")
Location(r) == Get(r, "location", <<>>)
Closes(r) == Get(r, "connection", "close") # "keep-alive"

SetCode(r, num) == IF num > 1 THEN Add(Add(r, "protocol", "http"), "code", num) ELSE r

SetContentType(r, v) ==
  LET typed == Add(r, "content-type", v.type)
  IN IF v.charset # "" THEN Add(typed, "charset", v.charset) ELSE typed

\* A length of 0 or 1 is not kept.
SetContentLength(r, num) == IF num > 1 THEN Add(r, "content-length", num) ELSE r
SetContentEncoding(r, v) == IF v \in {"gzip", "deflate"} THEN Add(r, "content-encoding", v) ELSE r
SetTransferEncoding(r, v) ==
  Add(r, "transfer-encoding", IF v \in {"chunked", "trailer"} THEN v ELSE "none")

\* Location and Content-Location fill the same field.
SetLocation(r, loc) == Add(Add(r, "location", loc), "redirect", TRUE)
SetConnection(r, v) == Add(r, "connection", IF v = "keep-alive" THEN v ELSE "close")

SetKeepalive(r, options) ==
  FoldLeft(LAMBDA q, o : IF o.name \in {"timeout", "max"} /\ o.value > 0 THEN Add(q, o.name, o.value) ELSE q,
           r, options)

SetLastModified(r, date) == Add(r, "last-modified", date)

-----------------------------------------------------------------------------
\* __parse_pair, over and over: the text up to a blank is dropped before each pair, so a
\* parameter that no blank precedes is lost.  When no blank is left the parser walks past
\* the end of the line, into "stale", what an earlier and longer line left in the buffer.
Pairs(params, stale) ==
  LET last == IF params = <<>> THEN TRUE ELSE Last(params).spaced
  IN SelectSeq(params, LAMBDA p : p.spaced) \o IF last THEN <<>> ELSE stale

RealmOf(params, stale, old) ==
  LET realms == SelectSeq(Pairs(params, stale), LAMBDA p : p.name = "realm")
  IN IF realms = <<>> THEN old ELSE Last(realms).value

\* For a Basic line behind a Digest or NTLM line the scheme is not stepped over: its word
\* and the first parameter are taken for one pair.
SetWwwAuthenticate(r, v, stale) ==
  LET strong == r.www.type \in {DIGEST, NTLM}
      params == IF v.scheme = BASIC /\ strong /\ v.params # <<>> THEN Tail(v.params) ELSE v.params
      type   == IF v.scheme = BASIC /\ strong THEN r.www.type ELSE v.scheme
  IN [r EXCEPT !.www = [type |-> type,
                        challenge |-> IF v.scheme = BASIC THEN @.challenge ELSE v.challenge,
                        realm |-> RealmOf(params, stale, @.realm)]]

\* Here the last line wins, and everything that is not Digest is Basic.
SetProxyAuthenticate(r, v, stale) ==
  [r EXCEPT !.proxy = [type |-> IF v.scheme = DIGEST THEN DIGEST ELSE BASIC,
                       challenge |-> IF v.scheme = DIGEST THEN v.challenge ELSE @.challenge,
                       realm |-> RealmOf(v.params, stale, @.realm)]]

\* One line of the head.  A line http_read_headers does not know changes nothing.
SetHeader(r, line, stale) ==
  CASE line.name = "http"               -> SetCode(r, line.value)
    [] line.name = "content-type"       -> SetContentType(r, line.value)
    [] line.name = "content-encoding"   -> SetContentEncoding(r, line.value)
    [] line.name = "content-length"     -> SetContentLength(r, line.value)
    [] line.name = "connection"         -> SetConnection(r, line.value)
    [] line.name = "keep-alive"         -> SetKeepalive(r, line.value)
    [] line.name \in {"location", "content-location"} -> SetLocation(r, line.value)
    [] line.name = "last-modified"      -> SetLastModified(r, line.value)
    [] line.name = "www-authenticate"   -> SetWwwAuthenticate(r, line.value, stale)
    [] line.name = "proxy-authenticate" -> SetProxyAuthenticate(r, line.value, stale)
    [] line.name = "transfer-encoding"  -> SetTransferEncoding(r, line.value)
    [] OTHER                            -> r

Headers(lines, stale) == FoldLeft(LAMBDA r, line : SetHeader(r, line, stale), new_response, lines)
=============================================================================
