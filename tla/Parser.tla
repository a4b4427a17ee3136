------------------------------- MODULE Parser -------------------------------
(***************************************************************************)
(* The HTML parser of siege (parser.c): which URLs of a page it takes for  *)
(* parts of the page, to be requested after it.                            *)
(*                                                                         *)
(* A page is a sequence of tokens as in Url, with "<", ">", "!--", "-->",  *)
(* "=", " ", the quotes and the words of the tags among them.              *)
(***************************************************************************)
EXTENDS Url

Quote == "\""
CONTROL_TOKENS        == {" ", "="}
CONTROL_TOKENS_PLUS   == {" ", "=", Quote, "'"}
CONTROL_TOKENS_QUOTES == {" ", Quote, "'"}

\* strtok_r: the next token of the text, <<>> when there is none, and what follows its delimiter.
Token(t, delims) == LET tok == Until(t, delims) IN [tok |-> tok, rest |-> After(t, Len(tok) + 1)]
Strtok(t, delims) == Token(Strip(t, delims), delims)

Starts(tok, word) == tok # <<>> /\ Head(tok) = word
DataImage(tok) == Starts(tok, "data:image/gif") \/ Starts(tok, "data:image/png")
LongerThanOne(tok) == Len(tok) > 1 \/ (tok # <<>> /\ Head(tok) \notin Punct)

-----------------------------------------------------------------------------
(* The loops over the attributes of a tag.  Each runs to the end of the    *)
(* tag; a location is given as it stands in the page.                      *)

Found(tok, meta) == IF tok = <<>> THEN <<>> ELSE <<[loc |-> tok, meta |-> meta]>>

\* <meta>: after "content" each further token that holds ";url=" would be followed by a URL.
RECURSIVE MetaAttributes(_, _)
MetaAttributes(t, content) ==
  LET s == Strtok(t, CONTROL_TOKENS)
      u == Strtok(s.rest, CONTROL_TOKENS_QUOTES)
  IN IF s.tok = <<>> THEN <<>>
     ELSE IF content /\ \E p \in {<<";", " ", "url", "=">>, <<";", "url", "=">>} : Occurs(s.tok, p)
     THEN Found(u.tok, TRUE) \o MetaAttributes(u.rest, TRUE)
     ELSE MetaAttributes(s.rest, content \/ Starts(s.tok, "content"))

\* The values of the attribute src that <img> and <script> take.
Wanted(tag, tok) ==
  CASE tag = "img"    -> LongerThanOne(tok) /\ ~DataImage(tok)
    [] tag = "script" -> ~Starts(tok, "+")

RECURSIVE Sources(_, _)
Sources(tag, t) ==
  LET s == Strtok(t, CONTROL_TOKENS)
      u == Strtok(s.rest, CONTROL_TOKENS_QUOTES)
  IN IF s.tok = <<>> THEN <<>>
     ELSE IF Starts(s.tok, "src")
     THEN (IF Wanted(tag, u.tok) THEN Found(u.tok, FALSE) ELSE <<>>) \o Sources(tag, u.rest)
     ELSE Sources(tag, s.rest)

\* <link>: the last href counts if the last rel that matters was "stylesheet".  buf is not
\* initialised: it holds what an earlier call left on the stack.
RECURSIVE LinkAttributes(_, _, _)
LinkEnd(okay, buf) == IF okay THEN <<[loc |-> buf, meta |-> FALSE]>> ELSE <<>>
LinkHref(href, okay, buf) == LinkAttributes(href.rest, okay, IF href.tok = <<>> THEN buf ELSE href.tok)
LinkToken(ptr, rest, okay, buf) ==
  IF Starts(ptr, "href") THEN LinkHref(Strtok(rest, CONTROL_TOKENS_QUOTES), okay, buf)
  ELSE LinkAttributes(rest, okay, buf)
LinkRel(rel, okay, buf) ==
  IF rel.tok = <<>> THEN LinkEnd(okay, buf)
  ELSE LinkToken(rel.tok, rel.rest,
                 Starts(rel.tok, "stylesheet") \/ (okay /\ Head(rel.tok) \notin {"next", "alternate"}), buf)
LinkAttribute(s, okay, buf) ==
  IF s.tok = <<>> THEN LinkEnd(okay, buf)
  ELSE IF Starts(s.tok, "rel") THEN LinkRel(Strtok(s.rest, CONTROL_TOKENS_PLUS), okay, buf)
  ELSE LinkToken(s.tok, s.rest, okay, buf)
LinkAttributes(t, okay, buf) == LinkAttribute(Strtok(t, CONTROL_TOKENS), okay, buf)

-----------------------------------------------------------------------------
\* __parse_control: the locations of one tag.  ptr is the token in hand, top the first one.
RECURSIVE Control(_, _, _, _)
Control(ptr, rest, top, buf) ==
  LET On(s) == Control(s.tok, s.rest, top, buf)
      Go(t) == On(Strtok(t, CONTROL_TOKENS))
      Src(src) ==
        IF DataImage(src.tok) THEN On(src)
        ELSE (IF IsSuffix(<<"+">>, src.tok) THEN <<>> ELSE Found(src.tok, FALSE)) \o Go(src.rest)
      Img(next) ==
        IF next.tok = <<>> THEN <<>>
        ELSE IF IsPrefix(<<Quote, Quote>>, next.rest) THEN On(next)
        ELSE IF Starts(next.tok, "src") THEN Src(Strtok(next.rest, CONTROL_TOKENS_QUOTES))
        ELSE Sources("img", next.rest)
      Background(quoted) == (IF top = <<"body">> THEN Found(quoted.tok, FALSE) ELSE <<>>) \o Go(quoted.rest)
  IN IF ptr = <<>> THEN <<>>
     ELSE CASE Starts(ptr, "href") \/ Starts(ptr, "location.href") -> Go(Strtok(rest, CONTROL_TOKENS_PLUS).rest)
            [] Starts(ptr, "meta") -> MetaAttributes(rest, FALSE)
            [] Starts(ptr, "img") -> Img(Strtok(rest, CONTROL_TOKENS))
            [] Starts(ptr, "link") -> LinkAttributes(rest, FALSE, buf)
            [] Starts(ptr, "script") -> Sources("script", rest)
            [] Starts(ptr, "frame") -> <<>>
            [] Starts(ptr, "background") -> Background(Strtok(rest, CONTROL_TOKENS_QUOTES))
            [] OTHER -> Go(rest)

TagLocations(tag, buf) ==
  LET s == Strtok(tag, CONTROL_TOKENS) IN Control(s.tok, s.rest, s.tok, buf)

-----------------------------------------------------------------------------
\* The tags of a page.  The step over the character that ends a tag is taken after a comment
\* too, and after a tag or a comment that the page does not close: then the NUL is stepped
\* over and "beyond", whatever lies behind the page in memory, is read.
RECURSIVE Tags(_, _)
Tags(t, beyond) ==
  LET from    == After(t, Len(Until(t, {"<"})) + 1)
      comment == IsPrefix(<<"!--">>, from)
      body    == Until(from, IF comment THEN {"-->"} ELSE {">"})
      rest    == After(from, Len(body) + IF comment THEN 2 ELSE 1)
      closed  == IF comment THEN Len(body) + 1 < Len(from) ELSE Len(body) < Len(from)
  IN IF ~Contains(t, "<") THEN <<>>
     ELSE (IF comment THEN <<>> ELSE <<body>>) \o
          (IF closed THEN Tags(rest, beyond) ELSE Tags(beyond, <<>>))

\* Mutant: every find is added.
AddEveryUrl(array, u) == Append(array, u)

\* __add_url: once per absolute text, and only with a host of two characters or more.
AddUrl(array, u) ==
  IF u.host = Null \/ ~LongerThanOne(u.host) \/ \E i \in DOMAIN array : array[i].url = u.url
  THEN array ELSE Append(array, u)

\* What the tags of a page name, in order; __xstrip drops the backslashes.
Locations(page, buf, beyond) ==
  LET tags == Tags(SelectSeq(page, LAMBDA c : c # "\\"), beyond)
  IN FlattenSeq([i \in DOMAIN tags |-> TagLocations(tags[i], buf)])

\* html_parser: the parts a page adds to an array.
HtmlParser(array, base, page, buf, beyond) ==
  FoldLeft(LAMBDA a, f : AddUrl(a, [Normalize(base, f.loc) EXCEPT !.redir = f.meta]), array, Locations(page, buf, beyond))
=============================================================================
