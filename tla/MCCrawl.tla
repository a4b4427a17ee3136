------------------------------- MODULE MCCrawl -------------------------------
(* Crawl on generated pages, one reference in one form of markup each, and on  *)
(* a few sites of several pages.                                               *)
EXTENDS Crawl

MCPortNumber == [t \in {"21", "80", "443", "8080"} |->
                   CASE t = "21" -> 21 [] t = "80" -> 80 [] t = "443" -> 443 [] OTHER -> 8080]

Abs(scheme, rest) == <<scheme, ":", "/", "/">> \o rest
Www == <<"www", ".", "org">>
Cdn == <<"cdn", ".", "net">>

\* An entry of the list and the request it makes.
Entry(text, request) == [text |-> text, at |-> <<Www, request>>]
Entries == { Entry(Www \o <<"/", "dir", "/", "page">>, <<"/", "dir", "/", "page">>),
             Entry(Abs("https", Www \o <<"/", "dir", "/">>), <<"/", "dir", "/">>),
             Entry(Abs("http", <<"user", ":", "word", "@">> \o Www \o <<":", "8080", "/", "go", "?", "to", "=", "/", "dir", "/">>),
                   <<"/", "go", "?", "to", "=", "/", "dir", "/">>),
             Entry(Abs("http", Www \o <<"/", "dir", "/", "page", "#", "part">>), <<"/", "dir", "/", "page">>),
             Entry(Abs("https", Www \o <<"/", "a", "%", "4", "1", " ", "b", "%", ";", "v", "?", "q">>),
                   <<"/", "a", "A", "%", "2", "0", "b", "%", "2", "5", ";", "v", "?", "q">>),
             Entry(Abs("http", Www \o <<"/", "form", " ", "POST", " ", "-T", " ", "text", ";", "a", "=", "b">>), <<"/", "form">>),
             Entry(Abs("http", Www \o <<" ", "POST", " ", "a", "=", "b">>), <<"/">>),
             Entry(Abs("http", Www \o <<"/", "form", " ", "PUT", " ", "<", "body", ".", "xml">>), <<"/", "form">>) }

Locs == { <<"a", ".", "js">>, <<"/", "a", ".", "js">>, <<"/", "/">> \o Cdn \o <<"/", "a", ".", "js">>,
          Abs("http", Cdn \o <<"/", "a", "?", "x", "&amp;", "y">>), Abs("https", Cdn \o <<":", "8080", "/", "a">>),
          Abs("http", Cdn), Abs("ftp", Cdn \o <<"/", "a">>), Cdn \o <<"/", "a">>, <<"img", "/", "a", ".", "js">>,
          <<"v1", ".", "2", "/", "a">>, <<"go", "?", "to", "=">> \o Abs("http", Cdn \o <<"/">>),
          <<".", "/", "a">>, <<".", ".", "/", "a">>, <<"?", "q">>, <<"localhost", ":", "8080", "/", "a">>,
          <<"mailto", ":", "me">>, <<"/", "a", "#", "top">>, <<"/", "a", "%", "4", "1", "%", "2", "0", "%">>,
          <<"data:image/gif", ";", "x">>, <<"data:image/png", ";", "x">>, <<"/", "a", "+">>,
          <<"ws", ":", "/", "/", "h", "/">>, Abs("http", <<"[", "ip6", "]", ":", "8080", "/", "a">>) }

Quoted(t) == <<Quote>> \o t \o <<Quote>>
Tag(t) == <<"<">> \o t \o <<">">>

\* The markup of an element around a reference, and whether a browser would fetch it with the page.
Markup(form, loc) ==
  CASE form = "img"        -> Tag(<<"img", " ", "src", "=">> \o Quoted(loc))
    [] form = "img2"       -> Tag(<<"img", " ", "alt", "=">> \o Quoted(<<"x">>) \o <<" ", "src", "=">> \o Quoted(loc))
    [] form = "script"     -> Tag(<<"script", " ", "type", "=", "js", " ", "src", "=", "'">> \o loc \o <<"'">>)
    [] form = "style"      -> Tag(<<"link", " ", "rel", "=">> \o Quoted(<<"stylesheet">>) \o <<" ", "href", "=">> \o Quoted(loc))
    [] form = "style2"     -> Tag(<<"link", " ", "href", "=">> \o Quoted(loc) \o <<" ", "rel", "=">> \o Quoted(<<"stylesheet">>))
    [] form = "body"       -> Tag(<<"body", " ", "background", "=">> \o Quoted(loc))
    [] form = "anchor"     -> Tag(<<"a", " ", "href", "=">> \o Quoted(loc))
    [] form = "next"       -> Tag(<<"link", " ", "rel", "=">> \o Quoted(<<"next">>) \o <<" ", "href", "=">> \o Quoted(loc))
    [] form = "frame"      -> Tag(<<"frame", " ", "src", "=">> \o Quoted(loc))
    [] form = "refresh"    -> Tag(<<"meta", " ", "content", "=", Quote, "0", ";", "url", "=">> \o loc \o <<Quote>>)
    [] form = "comment"    -> <<"<", "!--">> \o Tag(<<"img", " ", "src", "=">> \o Quoted(loc)) \o <<"-->", " ">>
    [] form = "behind"     -> <<"<", "!--", "x", "-->">> \o Tag(<<"img", " ", "src", "=">> \o Quoted(loc))
    [] form = "spaced"     -> Tag(<<"img", " ", "src", " ", "=", " ">> \o Quoted(loc))
    [] form = "nohref"     -> Tag(<<"link", " ", "rel", "=">> \o Quoted(<<"stylesheet">>))
    [] form = "empty"      -> Tag(<<"img", " ", "src", "=", Quote, Quote>>) \o Tag(<<"script", " ", "src", "=">> \o Quoted(loc))
    [] form = "open"       -> <<"<", "img", " ", "src", "=">> \o Quoted(loc)
Embedded == {"img", "img2", "script", "style", "style2", "body", "empty"}
Left == Embedded \cup {"anchor", "next", "frame", "refresh", "comment", "behind", "spaced", "nohref", "open"}
\* What the parser is made to skip: inline pictures, and in <img> and <script> a trailing or leading "+".
Skipped(form, loc) == (DataImage(loc) /\ form \in {"img", "img2"}) \/ (Last(loc) = "+" /\ form = "img")

Page(body) == [lines |-> <<[name |-> "http", value |-> 200],
                           [name |-> "content-type", value |-> [type |-> "text/html", charset |-> "utf"]]>>, page |-> body]
Moved(code, loc) == [lines |-> <<[name |-> "http", value |-> code], [name |-> "location", value |-> loc],
                                 [name |-> "content-location", value |-> <<"elsewhere">>]>>, page |-> <<>>]

Plain == Entry(Www \o <<"/">>, <<"/">>)
One(entry, forms, loc) ==
  LET body == FlattenSeq([i \in DOMAIN forms |-> Markup(forms[i], loc)])
  IN [start |-> entry.text, page |-> body,
      embeds |-> IF \E i \in DOMAIN forms : forms[i] \in Embedded /\ ~Skipped(forms[i], loc) THEN {loc} ELSE {},
      pages |-> [at \in {entry.at} |-> Page(body)]]

Img(loc) == Markup("img", loc)
Several(answers) ==
  [start |-> Www \o <<"/">>, page |-> <<"none">>, embeds |-> {},
   pages |-> [at \in {<<Www, <<"/", p>>>> : p \in DOMAIN answers} \cup {<<Www, <<"/">>>>} |->
                IF Len(at[2]) = 1 THEN Page(Img(<<"/", "one">>) \o Img(<<"/", "two">>)) ELSE answers[at[2][2]]]]

MCSites ==
  {One(e, <<"img">>, l) : e \in Entries, l \in Locs}
  \cup {One(Plain, <<f>>, l) : f \in Left, l \in {k \in Locs : Contains(k, "a") \/ DataImage(k) \/ Len(k) < 4}}
  \cup {One(Plain, <<"style", "nohref", f>>, <<"/", "a">>) : f \in Left}
  \cup { Several("one" :> Moved(302, <<"/", "two">>) @@ "two" :> Page(<<"x", " ">>)),
         Several("one" :> Moved(307, Abs("https", Cdn \o <<"/">>)) @@ "two" :> Moved(301, <<"/", "one">>)),
         Several("one" :> Moved(301, <<"/", "two">>) @@ "two" :> Moved(302, <<"/", "one">>)),
         Several("one" :> Page(Img(<<"/", "one">>)) @@ "two" :> Page(<<"x", " ">>)),
         Several("one" :> Page(Img(<<"/", "two">>)) @@ "two" :> Page(Img(<<"/", "three">>))),
         Several("one" :> Page(Img(<<"/", "two">>)) @@ "two" :> Page(Img(<<"/", "one">>))),
         Several("one" :> Page(Img(<<"ads", ".", "net", "/", "x">>)) @@ "two" :> Moved(201, <<"ads", ".", "net", "/", "x">>)),
         Several("one" :> Page(Markup("refresh", <<"/", "a">>) \o Markup("refresh", <<"/", "two">>)) @@ "two" :> Page(<<"x", " ">>)),
         Several("one" :> [lines |-> <<>>, page |-> <<>>] @@ "two" :> Moved(404, <<"/", "one">>)) }

MCNoFollow == {<<"ads">>}
MCOldHrefs == {<<>>, <<"/", "old">>}
MCBeyonds == {<<>>, <<"<", "img", " ", "src", "=", "/", "old", ">">>}
MCContentType == <<>>
=============================================================================
