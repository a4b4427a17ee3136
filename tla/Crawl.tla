-------------------------------- MODULE Crawl --------------------------------
(***************************************************************************)
(* A page and what it draws in (browser.c with url.c, parser.c and         *)
(* response.c): the request for the page, the redirects it is answered     *)
(* with, the parts found in every HTML answer, and the loop that requests  *)
(* the parts until none is left.                                           *)
(***************************************************************************)
EXTENDS Parser, Response

CONSTANTS Sites,      \* the servers and pages a siege may meet
          NoFollow,   \* the hosts of the directive no-follow
          OldHrefs,   \* what the uninitialised buffer of a <link> may hold
          MaxRequests,  \* where the count of the requests stops
          Beyonds     \* what may lie behind a page in memory

(***************************************************************************)
(* A site is the line of the URL list and a function from <<host, request>>*)
(* to answers: the lines of the head and the page.  A request the site     *)
(* does not know is answered with NotFound.                                *)
(***************************************************************************)
NotFound == [lines |-> <<[name |-> "http", value |-> 404]>>, page |-> <<>>]

AnswerTo(pages, u) ==
  LET at == <<u.host, u.request>> IN IF at \in DOMAIN pages THEN pages[at] ELSE NotFound

\* The redirects are taken out of the parts.  The one behind a redirect is stepped over, and
\* the last one found is the one that counts.
RECURSIVE TakeMetas(_, _, _)
TakeMetas(array, i, meta) ==
  IF i > Len(array) THEN [parts |-> array, meta |-> meta]
  ELSE IF array[i].redir THEN TakeMetas(RemoveAt(array, i), i + 1, array[i].url)
  ELSE TakeMetas(array, i + 1, meta)

\* The URL an answer sends the request on to, if it does: the redirect wins a host if it has none.
Hosted(to, u) == IF to.host = <<>> THEN [to EXCEPT !.host = u.host] ELSE to
Carried(to, u, code) ==
  IF code # 307 THEN to
  ELSE [to EXCEPT !.method = u.method, !.conttype = u.conttype,
                  !.post = IF u.method = "GET" THEN @ ELSE u.post]
Onward(u, code, location) == Carried(Hosted(Normalize(u, location), u), u, code)

Html(resp) == Type(resp) = "text/html" /\ Code(resp) < 300

\* The requests one request leads to.
LedBy(u, page, resp) ==
  (IF Html(resp)
   THEN UNION {ToSet(HtmlParser(<<>>, u, page, buf, beyond)) : buf \in OldHrefs, beyond \in Beyonds} ELSE {})
  \cup (IF Location(resp) # <<>> THEN {Onward(u, Code(resp), Location(resp))} ELSE {})
Leads(pages, u) == LedBy(u, AnswerTo(pages, u).page, Headers(AnswerTo(pages, u).lines, <<>>))

RECURSIVE Within(_, _, _)
Within(pages, us, n) == IF n = 0 THEN us ELSE Within(pages, us \cup UNION {Leads(pages, u) : u \in us}, n - 1)

\* No bound holds back redirects or pages that embed pages: only the site does.
Circular(s) ==
  LET n == Cardinality(DOMAIN s.pages)
  IN \E u \in Within(s.pages, {NewUrl(s.start)}, n) : u \in Within(s.pages, Leads(s.pages, u), n)

-----------------------------------------------------------------------------
VARIABLES site,
          circular, \* whether its pages lead in a circle (only compared with)
          cur,      \* the URL being requested
          via,      \* "page", "part" or "redirect": why; "none" between requests
          parts,    \* this->parts
          parsed,   \* the last parse: base, page, leftovers, the parts before and after it
          requests, \* how many there were, up to MaxRequests
          phase     \* "start", "run", "over"

vars == <<site, circular, cur, via, parts, parsed, requests, phase>>

NotParsed == [base |-> NoUrl, page |-> <<>>, buf |-> <<>>, beyond |-> <<>>, before |-> <<>>, after |-> <<>>]

Init ==
  /\ site \in Sites /\ circular = Circular(site)
  /\ cur = NoUrl /\ via = "none" /\ parts = <<>> /\ parsed = NotParsed
  /\ requests = 0 /\ phase = "start"

Request(u, why) ==
  cur' = u /\ via' = why /\ requests' = IF requests = MaxRequests THEN requests ELSE requests + 1

\* start(): the request for an entry of the list.
Visit ==
  /\ phase = "start"
  /\ Request(NewUrl(site.start), "page") /\ phase' = "run"
  /\ UNCHANGED <<site, circular, parts, parsed>>

Return == via' = "none" /\ cur' = NoUrl /\ UNCHANGED requests

\* The request ends without an answer that is used: a scheme siege does not speak, no
\* connection, no head.  The parts stay.
Refused ==
  /\ via # "none"
  /\ Return
  /\ UNCHANGED <<site, circular, parts, parsed, phase>>

\* An FTP part or redirect; the exchange is that of ftp.c and finds no parts.
Transferred ==
  /\ via # "none" /\ cur.scheme = "ftp"
  /\ Return
  /\ UNCHANGED <<site, circular, parts, parsed, phase>>

\* Whether an answer redirects, and where to: a page by its last <meta>.
Moves(code, location, meta) ==
  \/ code = 200 /\ meta # Null
  \/ code \in {201, 301, 302, 303, 307} /\ location # <<>>
Redirected(u, code, location, meta) ==
  IF Moves(code, location, meta) THEN Onward(u, code, IF code = 200 THEN meta ELSE location) ELSE NoUrl

\* What __http makes of an answer, for each content of the uninitialised memory.  418: what
\* answered is not an HTTP server.  The page is parsed whatever it is wanted for: an HTML
\* answer to the request for a part adds parts of its own.
Judged(u, held, resp, taken, parse) ==
  [parts |-> taken.parts, on |-> Moves(Code(resp), Location(resp), taken.meta),
   to |-> Redirected(u, Code(resp), Location(resp), taken.meta), parsed |-> parse]
Parse(u, held, page, buf, beyond, taken) ==
  [base |-> u, page |-> page, buf |-> buf, beyond |-> beyond, before |-> held, after |-> taken.parts]
ParsedPage(u, held, page, buf, beyond, resp, taken) ==
  Judged(u, held, resp, taken, Parse(u, held, page, buf, beyond, taken))
Outcome(u, held, page, buf, beyond, resp) ==
  CASE Code(resp) = 418 -> [parts |-> held, on |-> FALSE, to |-> NoUrl, parsed |-> NotParsed]
    [] Code(resp) # 418 /\ Html(resp) ->
         ParsedPage(u, held, page, buf, beyond, resp, TakeMetas(HtmlParser(held, u, page, buf, beyond), 1, Null))
    [] OTHER -> Judged(u, held, resp, [parts |-> held, meta |-> Null], NotParsed)

\* __http from the head on.
Answered ==
  /\ via # "none" /\ cur.scheme \in {"http", "https"}
  /\ LET a == AnswerTo(site.pages, cur)
     IN \E o \in {Outcome(cur, parts, a.page, buf, beyond, Headers(a.lines, <<>>)) :
                     buf \in OldHrefs, beyond \in Beyonds} :
       /\ parts' = o.parts /\ parsed' = o.parsed
       /\ IF o.on THEN Request(o.to, "redirect") ELSE Return
  /\ UNCHANGED <<site, circular, phase>>

Followed(u) == u.scheme # "unsupported" /\ \A h \in NoFollow : ~Occurs(u.host, h)

\* Mutant: the part stays in the array.
PeekPart ==
  /\ phase = "run" /\ via = "none" /\ parts # <<>>
  /\ Request(Last(parts), "part")
  /\ UNCHANGED <<site, circular, parts, parsed, phase>>

\* The loop over the parts, the last one first.
PopPart ==
  /\ phase = "run" /\ via = "none" /\ parts # <<>>
  /\ parts' = Front(parts)
  /\ IF Followed(Last(parts)) THEN Request(Last(parts), "part") ELSE UNCHANGED <<cur, via, requests>>
  /\ UNCHANGED <<site, circular, parsed, phase>>

NextEntry ==
  /\ phase = "run" /\ via = "none" /\ parts = <<>>
  /\ phase' = "over"
  /\ UNCHANGED <<site, circular, cur, via, parts, parsed, requests>>

Next == Visit \/ Refused \/ Transferred \/ Answered \/ PopPart \/ NextEntry

Spec == Init /\ [][Next]_vars

-----------------------------------------------------------------------------
(* What a browser makes of a page, to compare with.                        *)

Target(u) == <<u.scheme, u.host, u.port, Until(u.request, {"#"})>>

\* The target of an absolute reference: scheme://[user[:password]@]host[:port][/path][?query].
AbsoluteTarget(t) ==
  LET body  == After(t, 4)
      auth  == Until(body, {"/", "?"})
      where == IF Contains(auth, "@") THEN After(auth, SelectInSeq(auth, LAMBDA c : c = "@")) ELSE auth
      port  == IF Contains(where, ":") THEN PortNumber[Last(where)] ELSE DefaultPort(t[1])
      path  == After(body, Len(auth))
  IN <<t[1], Until(where, {":"}), port, (IF IsPrefix(<<"/">>, path) THEN <<>> ELSE <<"/">>) \o path>>

DirOf(request) ==
  LET p == Until(request, {"?"}) IN SubSeq(p, 1, SelectLastInSeq(p, LAMBDA c : c = "/"))

\* RFC 3986, section 5.2, for references whose only dot segment is a leading one.
Reference(base, location) ==
  LET loc == Until(Unamp(location), {"#"})
      On(request) == <<base.scheme, base.host, base.port, request>>
  IN IF SchemeOf(loc) # "unsupported" THEN AbsoluteTarget(loc)
     ELSE IF IsPrefix(<<"/", "/">>, loc) THEN AbsoluteTarget(<<base.scheme, ":">> \o loc)
     ELSE IF IsPrefix(<<"/">>, loc) THEN On(loc)
     ELSE IF loc = <<>> THEN On(Until(base.request, {"#"}))
     ELSE IF IsPrefix(<<"?">>, loc) THEN On(Until(base.request, {"?", "#"}) \o loc)
     ELSE On(DirOf(base.request) \o (IF IsPrefix(<<".", "/">>, loc) THEN After(loc, 2) ELSE loc))

\* The references siege reads another way than a browser.
TakenForHost(loc) ==
  LET first == Until(loc, {"/", "#", ":"})
  IN /\ ~IsPrefix(<<"/">>, loc) /\ ~IsPrefix(<<".">>, loc) /\ ~HasScheme(loc)
     /\ \/ Occurs(loc, <<":", "/", "/">>)                        \* go?to=http://...
        \/ Contains(first, ".") /\ Contains(loc, "/")            \* v1.2/a.js
        \/ first = <<"localhost">>
Misread(base, location) ==
  LET loc == Unamp(location)
      relative == ~IsPrefix(<<"/">>, loc) /\ SchemeOf(loc) = "unsupported"
  IN \/ TakenForHost(loc)
     \/ HasScheme(loc) /\ SchemeOf(loc) = "unsupported"          \* mailto:..., localhost:8080/
     \/ IsPrefix(<<".">>, loc) /\ ~IsPrefix(<<".", "/">>, loc)   \* ../a.js, .hidden
     \/ IsPrefix(<<"?">>, loc) \/ IsPrefix(<<"#">>, loc) \/ loc = <<>>
     \/ relative /\ Contains(After(base.request, Len(Until(base.request, {"?"}))), "/")
     \/ Contains(Until(After(loc, 4), {"/"}), "?")               \* http://host?query
     \/ Contains(loc, "data:image/gif")

\* What a page embeds, a browser's view of the same text: the tags outside of comments,
\* and of them <img src>, <script src>, <body background> and the stylesheets.
UnusualMarkup(page) ==
  \/ \E i \in 1 .. Len(page) - 1 :
       \/ page[i] = "-->" /\ page[i + 1] = "<"                   \* the tag behind a comment
       \/ page[i] \in {"src", "href"} /\ page[i + 1] # "="       \* src = "x", or a word of a text
  \/ \E tag \in ToSet(Tags(page, <<>>)) : Contains(tag, "stylesheet") /\ ~Contains(tag, "href")
Unclosed(page) == page # <<>> /\ Last(page) \notin {">", " "}

-----------------------------------------------------------------------------
(* Properties.                                                             *)

URLs == {cur} \cup {parts[i] : i \in DOMAIN parts}

TypeOK ==
  /\ via \in {"none", "page", "part", "redirect"} /\ phase \in {"start", "run", "over"}
  /\ \A u \in URLs : u.scheme \in {"http", "https", "ftp", "unsupported"} /\ u.port \in Nat
  /\ cur # NoUrl => via # "none"
  /\ requests \in 0 .. MaxRequests

\* The parts of a page are found: what the parser adds is what the tags embed, each once, for
\* every page whose markup it is made for, and the references in it are resolved as RFC 3986
\* says, apart from the misreadings listed.  The address of each is told by its own text.
PartsAreEmbedded ==
  LET known == ToSet(parsed.before)
      new   == SelectSeq(parsed.after, LAMBDA p : p \notin known)
      want  == site.embeds
  IN /\ \A i, j \in DOMAIN parts : parts[i].url = parts[j].url => i = j
     /\ parsed.page = site.page /\ ~UnusualMarkup(parsed.page) /\ ~Unclosed(parsed.page) =>
          /\ \A i \in DOMAIN new : \E w \in want : new[i].url = Normalize(parsed.base, w).url
          /\ \A w \in want : LET u == Normalize(parsed.base, w)
                             IN u # NoUrl /\ LongerThanOne(u.host) => \E p \in ToSet(parsed.after) : p.url = u.url

\* A reference in a page leads where a browser would go, except for the listed misreadings:
\* url_normalize has to tell names of hosts from names of files by their looks.
ResolvedAsReferenced ==
  \A f \in ToSet(Locations(parsed.page, parsed.buf, parsed.beyond)) :
    Misread(parsed.base, f.loc) \/
    LET ref == Reference(parsed.base, f.loc)
    IN Target(Normalize(parsed.base, f.loc)) = [ref EXCEPT ![4] = Target(NewUrl(<<"h">> \o @))[4]]

\* What is displayed is what is requested: the text of a URL, parsed again, names the same
\* scheme, host, port and request, so escaping a second time changes nothing.  The exceptions
\* are the texts lost to undefined behaviour and an HTTPS page's host/path on port 80.
SameWhenReparsed ==
  TypeOK /\ \A u \in URLs \ {NoUrl} :
    \/ u.url = Lost
    \/ u.scheme = "https" /\ u.port = 80
    \/ Target(NewUrl(u.url)) = Target(u)

\* The visit of a page ends, its redirects and its parts included, unless the site leads in a
\* circle, as one does that answers a missing picture with a page that shows the picture.
VisitEnds == circular \/ requests < MaxRequests
=============================================================================
