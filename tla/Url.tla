--------------------------------- MODULE Url ---------------------------------
(***************************************************************************)
(* The URL of siege (url.c): how a line of text is taken apart and how a   *)
(* location found in a page or a header is made absolute.                  *)
(*                                                                         *)
(* A text is a sequence of tokens: a delimiter ("/", ":", "?", ...) is a   *)
(* token, and so is a run of letters, digits or hyphens.  "http", "https"  *)
(* and "ftp" followed by ":" are always followed by "//".                  *)
(***************************************************************************)
EXTENDS Naturals, Sequences, SequencesExt

CONSTANTS Escaping,      \* url-escaping of siegerc (my.escape)
          ContentType,   \* my.conttype, <<>> when it is not set
          PortNumber     \* the tokens that are decimal numbers, with their value

Null == <<"(null)">>                  \* a char pointer that is NULL
Lost == <<"(undefined)">>             \* the text after undefined behaviour
DefaultType == <<"application", "/", "x-www-form-urlencoded">>

Punct == {":", "/", "@", "?", "#", ";", ".", "[", "]", " ", "&", "=", "+", "<", "%"}

Until(t, S) ==
  LET i == SelectInSeq(t, LAMBDA c : c \in S) IN IF i = 0 THEN t ELSE SubSeq(t, 1, i - 1)
After(t, n) == SubSeq(t, n + 1, Len(t))
Occurs(t, p) == \E i \in 0 .. Len(t) : IsPrefix(p, After(t, i))
Skip(t, c) == IF IsPrefix(<<c>>, t) THEN Tail(t) ELSE t
Strip(t, S) ==
  LET i == SelectInSeq(t, LAMBDA c : c \notin S) IN IF i = 0 THEN <<>> ELSE After(t, i - 1)
TrimLeft(t) == Strip(t, {" "})
TrimRight(t) == SubSeq(t, 1, SelectLastInSeq(t, LAMBDA c : c # " "))
Trim(t) == TrimLeft(TrimRight(t))
Chop(t) == IF t = <<>> \/ Head(t) \in Punct THEN After(t, 1) ELSE <<"-" \o Head(t)>> \o Tail(t)

-----------------------------------------------------------------------------
\* The scheme a text starts with; the code compares with http:, https: and ftp:.
SchemeOf(t) ==
  IF Len(t) > 1 /\ t[2] = ":" /\ t[1] \in {"http", "https", "ftp"} THEN t[1] ELSE "unsupported"
BeyondScheme(t) == IF SchemeOf(t) = "unsupported" THEN t ELSE After(t, 4)

\* Any word before the first ":" counts as a scheme, "localhost" of localhost:8080 too.
HasScheme(t) == Len(t) > 1 /\ t[2] = ":" /\ t[1] \notin Punct

SetAbsolute(t) ==
  IF HasScheme(t) THEN t
  ELSE <<"http", ":", "/", "/">> \o t \o (IF Contains(t, "/") THEN <<>> ELSE <<"/">>)

DefaultPort(scheme) ==
  CASE scheme = "ftp" -> 21 [] scheme = "https" -> 443 [] OTHER -> 80

HasCredentials(t) ==
  LET u == Until(t, {"@", "/", "?", "#", ";"}) IN Len(u) < Len(t) /\ t[Len(u) + 1] = "@"

-----------------------------------------------------------------------------
(* Escaping: what follows the first "/" after "//" is copied, unsafe       *)
(* characters as %xx, and %xx decoded unless it stands for a character     *)
(* that would need it.  The digits of the texts are tokens of their own.   *)

Hex == {"0", "1", "2", "3", "4", "5", "C"}
Encoded == [c \in {" ", "%", "<"} |->
              CASE c = " " -> <<"%", "2", "0">> [] c = "%" -> <<"%", "2", "5">> [] OTHER -> <<"%", "3", "C">>]
Decoded == [c \in {<<"4", "1">>} |-> "A"]      \* the safe characters of the alphabet

\* Mutant: every "%" is encoded, that of an escape too.
RECURSIVE CopyEncoded(_)
CopyEncoded(t) ==
  IF t = <<>> THEN <<>>
  ELSE (IF t[1] \in DOMAIN Encoded THEN Encoded[t[1]] ELSE <<t[1]>>) \o CopyEncoded(Tail(t))

RECURSIVE CopyEscaped(_)
CopyEscaped(t) ==
  IF t = <<>> THEN <<>>
  ELSE IF t[1] = "%" /\ Len(t) > 2 /\ t[2] \in Hex /\ t[3] \in Hex
       THEN IF SubSeq(t, 2, 3) \in DOMAIN Decoded
            THEN <<Decoded[SubSeq(t, 2, 3)]>> \o CopyEscaped(After(t, 3))
            ELSE <<"%">> \o CopyEscaped(Tail(t))
       ELSE (IF t[1] \in DOMAIN Encoded THEN Encoded[t[1]] ELSE <<t[1]>>) \o CopyEscaped(Tail(t))

\* " GET" is the first of the list, and its index is the value of NOMETHOD.
HasMethod(t) ==
  /\ ~Occurs(t, <<" ", "GET">>)
  /\ \E m \in {"HEAD", "POST", "PUT", "TRACE", "DELETE", "OPTIONS", "CONNECT", "PATCH"} :
       Occurs(t, <<" ", m>>)

Escape(t) ==
  LET double == {i \in 1 .. Len(t) - 1 : t[i] = "/" /\ t[i + 1] = "/"}
      start  == IF double = {} THEN 0 ELSE Min(double) + 1
      slash  == {i \in start + 1 .. Len(t) : t[i] = "/"}
  IN IF HasMethod(t) \/ slash = {} THEN t
     ELSE SubSeq(t, 1, Min(slash)) \o CopyEscaped(After(t, Min(slash)))

-----------------------------------------------------------------------------
(* The method behind the URL, the content type and the payload.            *)

Methods == <<"POST", "PUT", "PATCH", "OPTIONS", "DELETE">>    \* in the order of the search
MethodAt(t, m) == SelectInSeq([i \in 1 .. Len(t) - 1 |-> SubSeq(t, i, i + 1)],
                              LAMBDA pair : pair = <<" ", m>>)
MethodOf(t) ==
  LET k == SelectInSeq(Methods, LAMBDA m : MethodAt(t, m) > 0) IN IF k = 0 THEN "GET" ELSE Methods[k]

\* Each "-T type;" is taken out, the text around it closes up, and the scan goes on.
RECURSIVE TakeTypes(_, _)
TakeTypes(line, type) ==
  LET at == {p \in DOMAIN line : /\ line[p] = "-T"
                                 /\ p = 1 \/ line[p - 1] = " "
                                 /\ p = Len(line) \/ line[p + 1] = " "}
      left == TrimRight(SubSeq(line, 1, Min(at) - 1))
      q    == TrimLeft(After(line, Min(at)))
      ct   == Until(q, IF Contains(q, ";") THEN {";"} ELSE {" "})
  IN IF at = {} THEN [line |-> line, type |-> type]
     ELSE TakeTypes(left \o TrimLeft(Skip(After(q, Len(ct)), ";")), IF q = <<>> THEN type ELSE ct)

\* The type of a body read from a file is that of the file (load_file), whatever -T said.
FileType(name) ==
  IF ContentType # <<>> THEN ContentType
  ELSE IF Len(name) > 1 /\ name[Len(name) - 1] = "." THEN <<"type", "of", Last(name)>> ELSE DefaultType

BodyFrom(name) == [conttype |-> FileType(name), post |-> <<"contents", "of">> \o name, file |-> <<Last(name)>>]
Payload(body, type) ==
  IF IsPrefix(<<"<">>, body) THEN BodyFrom(Trim(Tail(body)))
  ELSE [conttype |-> type, post |-> body, file |-> <<>>]
Typed(datap) == TakeTypes(datap, IF ContentType = <<>> THEN DefaultType ELSE ContentType)
PostData(taken) == Payload(TrimLeft(taken.line), taken.type)

-----------------------------------------------------------------------------
(* The parts of a URL, taken from left to right.  A step is given the      *)
(* object so far, u, and the rest of the text, and leaves both; behind is  *)
(* what follows in memory where a method ended the text: its name and what *)
(* is left of its line.                                                    *)

Blank == [url |-> <<>>, scheme |-> "unsupported", method |-> "GET", user |-> Null, pass |-> Null,
          host |-> <<>>, port |-> 0, path |-> Null, request |-> <<>>, file |-> <<>>,
          hasparams |-> FALSE, params |-> <<>>, query |-> <<>>, frag |-> <<>>,
          conttype |-> Null, post |-> Null, redir |-> FALSE]

Scheme(text) ==
  [u |-> [Blank EXCEPT !.url = text, !.scheme = SchemeOf(text)], rest |-> BeyondScheme(text),
   behind |-> <<>>]

\* The method, the payload behind it, and the URL in front.
Body(s, post) == [s EXCEPT !.u.conttype = post.conttype, !.u.post = post.post, !.u.file = post.file]
MethodOn(s, method) ==
  IF method = "GET" THEN s
  ELSE LET taken == Typed(After(s.rest, MethodAt(s.rest, method) + 1))
       IN Body([s EXCEPT !.u.method = method, !.rest = SubSeq(@, 1, MethodAt(@, method) - 1),
                         !.u.url = SubSeq(@, 1, MethodAt(@, method) - 1),
                         !.behind = <<method>> \o taken.line],
               PostData(taken))

Credentials(s) ==
  LET user == Until(s.rest, {":", "@", "/"})
      left == After(s.rest, Len(user) + 1)
      pass == Until(left, {"@"})
  IN IF ~HasCredentials(s.rest) THEN s
     ELSE IF Contains(left, "@") /\ ~Contains(pass, "/")
     THEN [s EXCEPT !.u.user = user, !.u.pass = pass, !.rest = After(left, Len(pass) + 1)]
     ELSE [s EXCEPT !.u.user = user, !.rest = left]

HostIn(t) ==
  IF IsPrefix(<<"[">>, t) THEN SubSeq(t, 1, Len(Until(t, {"]"})) + 1) ELSE Until(t, {"/", "#", ":"})
Hostname(s) ==
  LET t    == IF IsPrefix(<<"/", "/">>, s.rest) THEN After(s.rest, 2) ELSE s.rest
      host == HostIn(t)
  IN [s EXCEPT !.u.host = host, !.rest = Skip(After(t, Len(host)), ":")]

Port(s) ==
  IF s.rest # <<>> /\ Head(s.rest) \in DOMAIN PortNumber
  THEN [s EXCEPT !.u.port = PortNumber[Head(s.rest)], !.rest = Tail(@)]
  ELSE [s EXCEPT !.u.port = DefaultPort(s.u.scheme)]

\* The path ends at the last "/" of the whole text, a "/" of the query included.  Without one, a
\* character is stepped over, which at the end of the text is the end itself.
Path(s) ==
  LET t       == s.rest
      ftp     == s.u.scheme = "ftp"
      slash   == SelectLastInSeq(t, LAMBDA c : c = "/")
      request == Trim(Until(t, {"#"}))
  IN IF IsPrefix(<<"#">>, t) THEN [s EXCEPT !.u.request = <<"/">>]
     ELSE IF slash = 0
     THEN [s EXCEPT !.u.path = IF ftp THEN <<>> ELSE <<"/">>,
                    !.u.request = IF ftp THEN request ELSE <<"/">>, !.rest = IF t = <<>> THEN s.behind ELSE Chop(t)]
     ELSE [s EXCEPT !.u.path = IF ftp THEN Skip(SubSeq(t, 1, slash), "/") ELSE SubSeq(t, 1, slash),
                    !.u.request = request, !.rest = After(t, slash)]

\* A file that is already known, that of the body, is kept and the text is not stepped over,
\* nor searched for parameters.
File(s) ==
  IF s.u.file # <<>> THEN [s EXCEPT !.u.file = Trim(@)]
  ELSE LET file == Until(s.rest, {";", "?", " "})
           next == After(s.rest, Len(file))
       IN [s EXCEPT !.u.file = Trim(file), !.u.hasparams = IsPrefix(<<";">>, next),
                    !.rest = IF IsPrefix(<<" ">>, next) THEN next ELSE After(next, 1)]
Parameters(s) ==
  IF ~s.u.hasparams THEN s
  ELSE LET params == Until(s.rest, {"?", " "})
       IN [s EXCEPT !.u.params = params, !.rest = Skip(After(@, Len(params)), "?")]

\* The file keeps the fragment; the query ends where it starts.
Query(s) ==
  LET query == Until(s.rest, {"#", " "})
  IN [s EXCEPT !.u.query = query, !.rest = Skip(After(@, Len(query)), "#")]
Fragment(s) == [s.u EXCEPT !.frag = Until(s.rest, {" "})]

\* new_url: the object __url_parse makes of a text that is not empty.
UrlOf(s) == Fragment(Query(Parameters(File(Path(Port(Hostname(Credentials(s))))))))
ParsedAs(text) == UrlOf(MethodOn(Scheme(text), MethodOf(text)))
NewUrl(text) == ParsedAs(SetAbsolute(IF Escaping THEN Escape(text) ELSE text))

-----------------------------------------------------------------------------
\* url_set_scheme: of a text without http:, https: or ftp: it takes n characters, n unset.
\* The port stays what it was.
ReSetScheme(u, scheme) ==
  [u EXCEPT !.scheme = scheme,
            !.url = IF SchemeOf(@) = "unsupported" THEN Lost
                    ELSE <<scheme, ":", "/", "/">> \o After(@, 4)]

\* Stands for the NULL that url_normalize returns for an inline picture.
NoUrl == [Blank EXCEPT !.url = Null, !.host = Null]

Authority(u) ==
  u.host \o <<":", CHOOSE n \in DOMAIN PortNumber : PortNumber[n] = u.port>>

Unamp(t) == [i \in DOMAIN t |-> IF t[i] \in {"&amp;", "&#038;"} THEN "&" ELSE t[i]]

\* Mutant: a leading "./" is kept.
BuiltDotted(req, loc) ==
  <<req.scheme, ":", "/", "/">> \o Authority(req) \o (IF IsPrefix(<<"/">>, loc) THEN <<>> ELSE req.path) \o loc

\* The text a location is completed to when it does not look absolute.
Built(req, loc) ==
  LET base == <<req.scheme, ":", "/", "/">> \o Authority(req)
  IN IF IsPrefix(<<"/", "/">>, loc) THEN <<req.scheme, ":">> \o loc
     ELSE IF IsPrefix(<<"/">>, loc) THEN base \o loc
     ELSE IF IsSuffix(<<"/">>, req.path)
     THEN base \o req.path \o (IF IsPrefix(<<".">>, loc) /\ Len(loc) > 1 THEN Chop(Tail(loc)) ELSE loc)
     ELSE base \o req.path \o <<"/">> \o loc

\* url_normalize: the guesses are tried in this order, each kept only if its host looks right.
Absolute(loc, new) ==
  Occurs(loc, <<":", "/", "/">>) /\ new.host # <<>> /\ new.host \notin {<<p>> : p \in Punct}
HostAndPath(loc, new) ==
  /\ ~IsPrefix(<<"/">>, loc) /\ ~IsPrefix(<<".">>, loc)
  /\ Contains(loc, ".") /\ Contains(loc, "/") /\ Contains(new.host, ".")
LocalHost(loc, new) == Contains(loc, "localhost") /\ new.host = <<"localhost">>

Resolved(req, loc, new) ==
  IF Absolute(loc, new) THEN new
  ELSE ReSetScheme(IF HostAndPath(loc, new) \/ LocalHost(loc, new) THEN new ELSE NewUrl(Built(req, loc)),
                   req.scheme)
Normalize(req, location) ==
  IF Contains(location, "data:image/gif") THEN NoUrl
  ELSE Resolved(req, Unamp(location), NewUrl(Unamp(location)))
=============================================================================
