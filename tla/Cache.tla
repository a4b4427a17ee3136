-------------------------------- MODULE Cache --------------------------------
(***************************************************************************)
(* The cache of a browser (cache.c over hash.c and date.c, with its        *)
(* callers in browser.c and http.c), for a siege whose siegerc says cache  *)
(* = true.  It keeps no page: only the entity tag, the date of change and  *)
(* the date of expiry of what was requested, each under a key of its own.  *)
(***************************************************************************)
EXTENDS Hash, Date

CONSTANTS Urls,        \* [host, path]
          Answers,     \* the heads a server may send: sequences of [name, value]
          Clock,       \* the times at which something happens, in their order
          MaxRequests  \* bound of the runs

\* An entity tag or a date.
Lines == [name : {"etag"}, value : STRING] \cup [name : {"last-modified", "expires"}, value : Texts]
Fields == {"etag", "last-modified", "expires"}
KeyOf(type, u) == <<type, u.path>>      \* __build_key: the host is no part of it

ASSUME CacheAssumption ==
  /\ { KeyOf(type, u) : type \in Fields, u \in Urls } \subseteq Keys
  /\ \A a \in Answers :
       /\ a \in Seq(Lines)
       /\ \A i \in DOMAIN a : (IF a[i].name = "etag" THEN Etag(a[i].value) ELSE DateOf(a[i].value)) \in Vals
  /\ Clock # <<>> /\ MaxRequests \in Nat

Blank == ""
NoUrl == [host |-> Blank, path |-> Blank]
NoHeader == [kind |-> "none"]
Literal  == [kind |-> "literal"]        \* Blank, which is no memory to free

VARIABLES pc,        \* "idle", "sent", "head", "gone", "crash"
          now,       \* the place in Clock
          cur,       \* the URL that is requested
          sent,      \* If-None-Match and If-Modified-Since of the request
          head,      \* the lines of the answer yet to read
          served,    \* the part just taken from the cache, or NoUrl
          requests,
          told,      \* by path: the last tag and date of change, every date of expiry (only
                     \* compared with)
          tagged     \* the last entity tag of each URL (only compared with)

ghosts == <<told, tagged>>
cacheVars == <<hash, pc, now, cur, sent, head, served, requests, ghosts>>

NoTag == "no tag"
NoText == << [kind |-> "none"] >>

Init ==
  /\ HashInit
  /\ pc = "idle" /\ now = 1 /\ cur = NoUrl /\ head = <<>> /\ served = NoUrl /\ requests = 0
  /\ sent = [ifnon |-> NoHeader, ifmod |-> NoHeader]
  /\ told = [p \in { u.path : u \in Urls } |-> [etag |-> NoTag, modified |-> NoText, expires |-> {}]]
  /\ tagged = [u \in Urls |-> NoTag]

-----------------------------------------------------------------------------
Has(h, type, u) == Lookup(h, KeyOf(type, u))
Fresh(h, u) == Has(h, "expires", u) /\ ~Expired(Get(h, KeyOf("expires", u)), Clock[now])

\* cache_get_header: there is one only as long as a date of expiry is there and not over.
CacheHeader(h, type, u) ==
  IF ~Has(h, type, u) \/ ~Fresh(h, u) THEN NoHeader
  ELSE LET d == Get(h, KeyOf(type, u))
           text == Rfc850(d.at)
       IN IF type = "etag" THEN IF d.tag = Blank THEN Literal ELSE d
          ELSE IF text = <<>> THEN Literal ELSE [kind |-> "since", text |-> text]

\* Mutant of CacheAdd: nothing that is there is replaced.
CacheAddOnce(h, type, u, v) == NAdd(h, KeyOf(type, u), v)

\* cache_add: the old value is removed first, but a date of expiry stays.
CacheAdd(h, type, u, v) == NAdd(IF type # "expires" THEN Drop(h, KeyOf(type, u)) ELSE h, KeyOf(type, u), v)

\* http_get asks for both headers and frees them when the request is written.
Send(h, u) ==
  LET ifnon == CacheHeader(h, "etag", u)
      ifmod == CacheHeader(h, "last-modified", u)
  IN /\ sent' = [ifnon |-> ifnon, ifmod |-> ifmod]
     /\ pc' = IF Literal \in {ifnon, ifmod} THEN "crash" ELSE "sent"
     /\ cur' = u /\ served' = NoUrl /\ requests' = requests + 1 /\ hash' = h
     /\ UNCHANGED <<now, head, ghosts>>

\* The page of the URL list, or what it redirects to.
Page(u) == pc = "idle" /\ requests < MaxRequests /\ Send(hash, u)

\* A part of a page: is_cached removes a date of expiry that is over.
Part(u) ==
  /\ pc = "idle" /\ requests < MaxRequests /\ ~Fresh(hash, u)
  /\ Send(Drop(hash, KeyOf("expires", u)), u)

FromCache(u) ==
  /\ pc = "idle" /\ Fresh(hash, u)
  /\ served' = u
  /\ UNCHANGED <<hash, pc, now, cur, sent, head, requests, ghosts>>

Answer ==
  /\ pc = "sent" /\ pc' = "head" /\ head' \in Answers
  /\ UNCHANGED <<hash, now, cur, sent, served, requests, ghosts>>

\* http_read_headers, line by line.
Line ==
  /\ pc = "head" /\ head # <<>> /\ head' = Tail(head)
  /\ LET l == Head(head)
         v == IF l.name = "etag" THEN Etag(l.value) ELSE DateOf(l.value)
     IN /\ Growable(hash) /\ hash' = CacheAdd(hash, l.name, cur, v)
        /\ told' = [told EXCEPT ![cur.path] =
             CASE l.name = "etag" -> [@ EXCEPT !.etag = l.value]
               [] l.name = "last-modified" -> [@ EXCEPT !.modified = l.value]
               [] l.name = "expires" -> [@ EXCEPT !.expires = @ \cup {l.value}]]
        /\ tagged' = IF l.name = "etag" THEN [tagged EXCEPT ![cur] = l.value] ELSE tagged
  /\ UNCHANGED <<pc, now, cur, sent, served, requests>>

\* The head is read, or the connection is lost on the way.
Done ==
  /\ pc \in {"sent", "head"} /\ pc' = "idle" /\ head' = <<>>
  /\ UNCHANGED <<hash, now, cur, sent, served, requests, ghosts>>

Tick ==
  /\ pc \notin {"gone", "crash"} /\ now < Len(Clock) /\ now' = now + 1 /\ served' = NoUrl
  /\ UNCHANGED <<hash, pc, cur, sent, head, requests, ghosts>>

\* cache_destroy, at the end of the browser.
End ==
  /\ pc = "idle" /\ pc' = "gone" /\ Destroy /\ served' = NoUrl
  /\ UNCHANGED <<now, cur, sent, head, requests, ghosts>>

Next == (\E u \in Urls : Page(u) \/ Part(u) \/ FromCache(u)) \/ Answer \/ Line \/ Done \/ Tick \/ End

Spec == Init /\ [][Next]_cacheVars

-----------------------------------------------------------------------------
\* The three forms of a date in HTTP: "Sun, 06 Nov 1994 08:49:37 GMT", "Sunday, 06-Nov-94
\* 08:49:37 GMT" and "Sun Nov 6 08:49:37 1994".
PartsOf(text) ==
  IF Len(text) = 6 THEN [wday |-> text[1], mday |-> text[2], mon |-> text[3], year |-> text[4], time |-> text[5]]
  ELSE [wday |-> text[1], mon |-> text[2], mday |-> text[3], time |-> text[4], year |-> text[5]]

YearsOf(digits) == IF digits = 2 THEN 0 .. 99 ELSE 1000 .. 9999

IsHttpDate(text) ==
  LET d == PartsOf(text)
  IN /\ Len(text) = 5 \/ (Len(text) = 6 /\ text[6] = [kind |-> "name", name |-> "GMT"])
     /\ d.wday.kind = "name" /\ d.wday.name \in ToSet(Wdays) \cup Weekdays
     /\ d.mday.kind = "number" /\ d.mday.val \in 1 .. 31 /\ d.mday.digits \in 1 .. 2
     /\ d.mon.kind = "name" /\ d.mon.name \in ToSet(Months)
     /\ d.year.kind = "number" /\ d.year.digits \in {2, 4} /\ d.year.val \in YearsOf(d.year.digits)
     /\ d.year.digits = 4 => d.year.sign = "none"
     /\ d.time.kind = "time" /\ d.time.width = 8

\* What the sender of one means; two digits below 70 are a year of this century.
FullYear(year) == year.val + (IF year.digits = 4 THEN 0 ELSE IF year.val < 70 THEN 2000 ELSE 1900)
Meant(text) ==
  LET d == PartsOf(text)
  IN <<Days(FullYear(d.year), MonthNo(d.mon.name), d.mday.val), d.time.sec>>

\* What date.c does not read as it is meant: years up to 1970 or after 3937, years of two
\* digits in this century, and what is no such date.
ReadYears(digits) == (IF digits = 2 THEN 70 ELSE 1971) .. (IF digits = 2 THEN 99 ELSE 3937)
Misdated(text) ==
  ~IsHttpDate(text) \/ LET year == PartsOf(text).year IN year.val \notin ReadYears(year.digits)

\* The years that date.c reads where it prints them: it prints nothing for 1900, and a year
\* after 3870 like one four digits long.  The times of which it passes over no more than it
\* printed: at most one of the three numbers has one digit.
Printable(at) == Days(1901, 0, 1) <= at[1] /\ at[1] < Days(3871, 0, 1)
Rereadable(at) == Width(at[2]) >= 7

(***************************************************************************)
(* A part is taken from the cache only while a date of expiry that some    *)
(* answer for its path carried is not over: is_cached compares the dates   *)
(* on the clock of the client and throws away what is past.  (It may be an *)
(* answer of another host, and not the last one: EXPIRES is not replaced.) *)
(***************************************************************************)
ServedWhileFresh ==
  served # NoUrl =>
    \E t \in told[served.path].expires : Misdated(t) \/ ~Earlier(Meant(t), Clock[now])

(***************************************************************************)
(* A conditional request names the last entity tag and the last date of    *)
(* change that answers for the path brought (cache_add replaces them, also *)
(* when a removal empties the chain they are in).  The date is as siege    *)
(* prints it: date.c itself reads it as the same second again if it is     *)
(* Rereadable; with its year from 1900 it is no date of HTTP to a server.  *)
(* Only an empty tag or a date that cannot be printed ends siege.          *)
(***************************************************************************)
ValidatorsAreCurrent ==
  pc \in {"sent", "crash"} =>
    LET t == told[cur.path]
        at == Strtotime(t.modified)
    IN /\ sent.ifnon.kind = "etag" => sent.ifnon.tag = t.etag
       /\ sent.ifmod.kind = "since" =>
            /\ sent.ifmod.text = Rfc850(at)
            /\ Printable(at) /\ Rereadable(at) => Strtotime(sent.ifmod.text) = at
            /\ Misdated(t.modified) \/ at = Meant(t.modified)
       /\ pc = "crash" => t.etag = Blank \/ ~Printable(at)

(***************************************************************************)
(* siegerc.in, "Cache revalidation. Siege supports cache revalidation for  *)
(* both ETag and Last-modified headers": the URL whose answer had a tag is *)
(* requested with it the next time.                                        *)
(***************************************************************************)
Revalidates == pc = "sent" /\ tagged[cur] # NoTag => sent.ifnon = Etag(tagged[cur])
===============================================================================
