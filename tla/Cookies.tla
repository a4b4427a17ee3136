------------------------------ MODULE Cookies ------------------------------
(***************************************************************************)
(* Cookies: cookie.c, cookies.c and facts.c, with what main.c does to the  *)
(* file.  Every browser has a jar, filled from the file when a siege       *)
(* begins and written back when it ends.                                   *)
(*                                                                         *)
(* A Set-Cookie line is a sequence of tokens, a date is a number.  The     *)
(* attributes nobody reads (secure, httponly), letter case and the sizes   *)
(* of lines are left out.  cookies_delete never finds the cookie of its    *)
(* thread, as the owner kept with it is no thread's id; so it is left out. *)
(***************************************************************************)
EXTENDS Integers, Sequences, SequencesExt, FiniteSets

CONSTANTS Texts,     \* names, values, paths and domains
          Upto,      \* what is before the first '#' or '|' of a text
          Hosts,     \* the hosts that are asked
          Under,     \* <<h, d>>: host h is in domain d, and not its name
          Lines,     \* the Set-Cookie lines a server may send
          ByHand,    \* the lines somebody may have written into the file
          MaxUsers,  \* the most users a siege has
          MaxTime,   \* bound: the clock
          MaxLines,  \* bound: Set-Cookie lines
          MaxSieges  \* bound: sieges

Users == 1 .. MaxUsers
None == "none"

\* A token of a line: a number of seconds or a date, one of the other attributes, or a pair.
Tokens == [key : {"max-age", "expires", "digits"}, val : Int]
          \cup [key : {"path", "domain"}, val : Texts]
          \cup [key : {"persistent"}, val : {TRUE}]
          \cup [key : {"pair"}, name : Texts, val : Texts]

ASSUME CookiesAssumption == /\ None \notin Texts /\ "/" \in Texts /\ Upto \in [Texts -> Texts]
                            /\ Lines \cup ByHand \subseteq Seq(Tokens) \ {<< >>}
                            /\ Hosts \subseteq Texts /\ Under \subseteq Hosts \X Hosts
                            /\ {MaxUsers, MaxLines, MaxSieges} \subseteq Nat
                            /\ MaxTime \in Nat \ {0}

VARIABLES
    now,      \* time(NULL)
    file,     \* cookies.txt: the lines of each siege-<id>
    users,    \* my.cusers of the siege under way, 0 between two
    jar,      \* this->facts->jar
    draft,    \* the cookie a browser parses, NoDraft between two
    left,     \* what is left of the string strtok works on
    lines,    \* history: how many lines were received
    sieges,   \* history: how many sieges began
    from,     \* the host of the line a browser parses; history: the cookie it describes
    mixed,    \* history: a browser got what strtok had left of another's line
    ideal     \* history: per browser, the cookies that the lines it received describe

vars == <<now, file, users, jar, draft, left, lines, sieges, from, mixed, ideal>>

-----------------------------------------------------------------------------
(* cookie.c: a cookie from its line                                        *)

Blank(time) == [name |-> None, value |-> None, path |-> None, domain |-> None,
                persistent |-> FALSE, age |-> 0, date |-> 0, began |-> time]

\* __parse_time: a date that is past is none; digits are taken as they are.  Its time(NULL)
\* is that of the line, which is parsed within a second.
DateOf(token, time) == IF token.key = "expires" /\ token.val < time THEN 0 ELSE token.val

\* The cookie after one more token.  The first pair that is no attribute is the cookie.
Taken(c, token) ==
    CASE token.key = "max-age" /\ token.val > 0 -> [c EXCEPT !.age = c.began + token.val]
      [] token.key \in {"expires", "digits"} /\ DateOf(token, c.began) > 0
            -> [c EXCEPT !.date = DateOf(token, c.began)]
      [] token.key = "path" -> [c EXCEPT !.path = token.val]
      [] token.key = "domain" -> [c EXCEPT !.domain = token.val]
      [] token.key = "persistent" -> [c EXCEPT !.persistent = TRUE]
      [] token.key = "pair" /\ c.name = None -> [c EXCEPT !.name = token.name, !.value = token.val]
      [] OTHER -> c

Session(c) == c.age = 0 /\ c.date = 0

\* All tokens were seen: max-age goes before expires, and host (None in the file) is the
\* domain if no token was.
Complete(c, host) ==
    [name |-> c.name, value |-> c.value,
     path |-> IF c.path = None THEN "/" ELSE c.path,
     domain |-> IF c.domain = None THEN host ELSE c.domain,
     hostonly |-> c.domain = None,
     persistent |-> c.persistent,
     expires |-> IF c.age > 0 THEN c.age ELSE c.date,
     session |-> Session(c)]

Parsed(line, time, host) == Complete(FoldLeft(Taken, Blank(time), line), host)

Persistent(c) == c.expires > 0 \/ c.persistent

\* cookie_matches_host
Matches(c, host) == IF c.hostonly THEN host = c.domain
                    ELSE host = c.domain \/ <<host, c.domain>> \in Under

\* cookie_to_string; it gives NULL for a cookie without name or domain.
Writable(c) == c.name # None /\ c.domain # None
Pair(name, val) == [key |-> "pair", name |-> name, val |-> val]
Token(key, val) == [key |-> key, val |-> val]
ToLineWithoutDate(c) == <<Pair(c.name, c.value), Token("domain", c.domain), Token("path", c.path)>>
                           \o IF Persistent(c) THEN <<Token("persistent", TRUE)>> ELSE << >>    \* mutant
ToLine(c) ==
    <<Pair(c.name, c.value), Token("domain", c.domain), Token("path", c.path),
      Token("digits", c.expires)>> \o IF c.persistent THEN <<Token("persistent", TRUE)>> ELSE << >>

-----------------------------------------------------------------------------
(* cookies.c: a list of cookies                                            *)

Identity(c) == <<c.name, c.domain, c.path>>
SameIdentityAndValue(a, b) == Identity(a) = Identity(b) /\ a.value = b.value   \* mutant
SameIdentity(a, b) == Identity(a) = Identity(b)

\* cookies_add: a cookie that is there gets the new one's value and life, in its place.
RenewedValue(old, c) == [old EXCEPT !.value = c.value]        \* mutant: not its life
Renewed(old, c) == [c EXCEPT !.persistent = Persistent(c)]
Add(list, c) ==
    LET i == SelectInSeq(list, LAMBDA d : SameIdentity(d, c))
    IN  IF i = 0 THEN Append(list, c) ELSE [list EXCEPT ![i] = Renewed(list[i], c)]

\* What cookies_header takes: of the cookies that match and live the first of each name.
Sendable(c, host) == Matches(c, host) /\ (c.session \/ c.expires > now)
Header(list, host) ==
    LET sendable == {i \in DOMAIN list : Sendable(list[i], host)}
    IN  {list[i] : i \in {i \in sendable : \A j \in sendable : list[j].name = list[i].name => i <= j}}

\* get_cookies: cookies_next passes over what is not persistent, and the first cookie that
\* cannot be written ends it.
Stops(c) == Persistent(c) /\ ~Writable(c)
Lasting(list) == FoldLeft(LAMBDA seq, c : IF Persistent(c) THEN Append(seq, c) ELSE seq, << >>, list)
Saved(list) ==
    LET stop == SelectInSeq(list, Stops)
        lasting == Lasting(SubSeq(list, 1, IF stop = 0 THEN Len(list) ELSE stop - 1))
    IN  [i \in DOMAIN lasting |-> ToLine(lasting[i])]

\* The texts and tokens without '#' and '|'.
Plain == {t \in Texts : Upto[t] = t}
IsPlain(token) == CASE token.key = "pair" -> token.name \in Plain /\ token.val \in Plain
                    [] token.key \in {"path", "domain"} -> token.val \in Plain
                    [] OTHER -> TRUE
Intact(c) == {c.name, c.value, c.domain, c.path} \subseteq Plain

\* A '#' begins a comment (__strip), and of the words between '|' the second is the cookie:
\* the first token that has one is cut off there, with all behind it.  A pair cut in its name
\* has no '=' and is none.
Stump(token) == IF token.key = "pair" /\ token.name \notin Plain THEN << >>
                ELSE <<[token EXCEPT !.val = Upto[@]]>>
Readable(line) ==
    LET k == SelectInSeq(line, LAMBDA token : ~IsPlain(token))
    IN  IF k = 0 THEN line ELSE SubSeq(line, 1, k - 1) \o Stump(line[k])

\* __load_cookies: neither a host nor a date is asked for.
ReadBack(line) == Parsed(Readable(line), now, None)
Loaded(text) == FoldLeft(LAMBDA list, line : Add(list, ReadBack(line)), << >>, text)

-----------------------------------------------------------------------------
(* A siege                                                                 *)

NoDraft == Blank(0)
Nobody == [i \in Users |-> NoDraft]
Idle == draft = Nobody
Empty == [i \in Users |-> << >>]
Nowhere == [i \in Users |-> [host |-> None, cookie |-> NoDraft]]

\* main makes the browsers, new_facts loads their jars.
Start ==
    /\ users = 0 /\ sieges < MaxSieges
    /\ sieges' = sieges + 1
    /\ users' \in Users
    /\ jar' = [i \in Users |-> IF i <= users' THEN Loaded(file[i]) ELSE << >>]
    /\ ideal' = [i \in Users |-> ToSet(jar'[i])]
    /\ UNCHANGED <<now, file, draft, left, lines, from, mixed>>

\* set_cookie: new_cookie copies the line and takes its first token; strtok keeps the rest.
Receive(i) ==
    /\ i <= users /\ draft[i] = NoDraft /\ lines < MaxLines
    /\ \E line \in Lines, host \in Hosts :
          /\ draft' = [draft EXCEPT ![i] = Taken(Blank(now), Head(line))]
          /\ left' = [of |-> i, tokens |-> Tail(line)]
          /\ from' = [from EXCEPT ![i] = [host |-> host, cookie |-> Parsed(line, now, host)]]
    /\ lines' = lines + 1
    /\ UNCHANGED <<now, file, users, jar, sieges, mixed, ideal>>

\* strtok(NULL, ";") goes on with the string that was begun last, by whomever.
\* A string that its owner has freed by then is taken to be at its end.
NextToken(i) ==
    /\ draft[i] # NoDraft /\ left.tokens # << >>
    /\ draft' = [draft EXCEPT ![i] = Taken(@, Head(left.tokens))]
    /\ left' = [left EXCEPT !.tokens = Tail(@)]
    /\ mixed' = (mixed \/ left.of # i)
    /\ UNCHANGED <<now, file, users, jar, lines, sieges, from, ideal>>

Without(cookies, c) == {d \in cookies : Identity(d) # Identity(c)}

\* The string is at its end: cookies_add takes a cookie that matches the host.
Store(i) ==
    LET host == from[i].host
        cookie == from[i].cookie
        parsed == Complete(draft[i], host)
    IN
    /\ draft[i] # NoDraft /\ left.tokens = << >>
    /\ draft' = [draft EXCEPT ![i] = NoDraft]
    /\ jar' = IF Matches(parsed, host) THEN [jar EXCEPT ![i] = Add(@, parsed)] ELSE jar
    /\ ideal' = IF Matches(cookie, host)
                THEN [ideal EXCEPT ![i] = Without(@, cookie) \cup {cookie}] ELSE ideal
    /\ from' = [from EXCEPT ![i] = Nowhere[i]]
    /\ mixed' = (mixed \/ left.of # i)
    /\ UNCHANGED <<now, file, users, left, lines, sieges>>

\* The process is gone; its file has these lines.
Gone(text) ==
    /\ file' = text
    /\ users' = 0 /\ jar' = Empty /\ ideal' = [i \in Users |-> {}]
    /\ draft' = Nobody /\ from' = Nowhere /\ left' = [of |-> 0, tokens |-> << >>]
    /\ UNCHANGED <<now, lines, sieges, mixed>>

\* What main writes, browser by browser.
SavedUpTo(k) == [i \in Users |-> IF i <= k THEN Saved(jar[i]) ELSE << >>]

\* All browsers were joined, a cancelled one perhaps in the middle of a line; main replaces
\* the file.
End == users > 0 /\ Gone(SavedUpTo(users))

\* siege ends without saving: NOTIFY(FATAL), a signal, or fopen failed.
Killed == users > 0 /\ Gone(file)

\* An interrupt kept main from adding the last browsers to the crew, and it saves only
\* those it added; or the process ends after fopen emptied the file.
CutShort == users > 0 /\ \E k \in 0 .. users - 1 : Gone(SavedUpTo(k))

\* A second passes; a line is parsed within one.
Tick ==
    /\ now < MaxTime /\ Idle
    /\ now' = now + 1
    /\ UNCHANGED <<file, users, jar, draft, left, lines, sieges, from, mixed, ideal>>

Init ==
    /\ now = 1
    /\ file \in [Users -> {<< >>} \cup {<<line>> : line \in ByHand}]
    /\ users = 0 /\ jar = Empty /\ ideal = [i \in Users |-> {}]
    /\ draft = Nobody /\ from = Nowhere /\ left = [of |-> 0, tokens |-> << >>]
    /\ lines = 0 /\ sieges = 0 /\ mixed = FALSE

Next ==
    \/ \E i \in Users : Receive(i) \/ NextToken(i) \/ Store(i)
    \/ Start \/ End \/ Killed \/ CutShort \/ Tick

Spec == Init /\ [][Next]_vars

-----------------------------------------------------------------------------
(* Properties.                                                             *)

\* A jar holds whole cookies, each with a domain unless the file had none, and only while
\* its browser exists; a date says that the cookie is no session's.  Whatever was received,
\* loaded or mixed up, it has a cookie once: a new value replaces the old one.
CookieTypeOK ==
    /\ now \in 1 .. MaxTime /\ users \in 0 .. MaxUsers
    /\ \A i \in Users :
          /\ i > users => jar[i] = << >> /\ draft[i] = NoDraft
          /\ \A c \in ToSet(jar[i]) :
                /\ c.expires \in Nat /\ c.session = (c.expires = 0)
                /\ c.domain = None => c.hostonly
                /\ c.name = None <=> c.value = None
          /\ \A j, k \in DOMAIN jar[i] :
                Identity(jar[i][j]) = Identity(jar[i][k]) => j = k

\* The list sends what a map from identities to the latest cookies would: a cookie of each
\* name that has a live one, with the value last received for it.
HeaderIsIdeal ==
    ~mixed =>
      \A i \in Users, host \in Hosts :
        LET sent == Header(jar[i], host)
            live == {c \in ideal[i] : Sendable(c, host)}
        IN  /\ {c.name : c \in sent} = {c.name : c \in live}
            /\ {<<c.name, c.value>> : c \in sent} \subseteq {<<c.name, c.value>> : c \in live}
            /\ Cardinality(sent) = Cardinality({c.name : c \in live})

\* A cookie that was written is loaded as one for the subdomains of its host as well.
AfterLoading(c) == [c EXCEPT !.hostonly = FALSE, !.persistent = TRUE]
\* The cookies in a file.
InFile(text) == {ReadBack(text[k]) : k \in DOMAIN text}
\* A jar that is written and loaded again is the jar without the cookies of the session,
\* in the same order; it takes a jar whose persistent cookies can all be written and have
\* no '#' or '|'.  And a cookie in the file that has not expired is lost only if the siege
\* had fewer users or was cut short, had a cookie in the jar that cannot be written, or
\* replaced this one by one of the session or one that is cut when it is read back.
LossesExplained ==
    /\ [](\A i \in Users :
            LET lasting == Lasting(jar[i])
                loaded == Loaded(Saved(jar[i]))
            IN  (\A c \in ToSet(jar[i]) : ~Stops(c) /\ (Persistent(c) => Intact(c))) =>
                    [k \in DOMAIN loaded |-> AfterLoading(loaded[k])]
                        = [k \in DOMAIN lasting |-> AfterLoading(lasting[k])])
    /\ [][\A i \in Users : \A c \in InFile(file[i]) :
            \/ c.expires <= now
            \/ \E d \in InFile(file'[i]) : Identity(d) = Identity(c)
            \/ i > users \/ CutShort
            \/ \E d \in ToSet(jar[i]) :
                  \/ Stops(d)
                  \/ Identity(d) = Identity(c) /\ ~(Persistent(d) /\ Intact(d))]_vars
=============================================================================
