# TLA+ models of siege

siege is an HTTP load tester: one process, a pool of threads, one thread per
simulated user.  These modules model how a siege is configured, what its threads
do in every order, and what becomes of URLs, pages, cookies, logins and cached dates on the
way; TLC checks them on small instances, and TLAPS proves for every size what the models of
the thread pool, the life of a siege, the browsers with their connections, replies, cookies,
logins and caches, and the division of the URL list are checked for.

| module | what it is |
|---|---|
| `JobPool` | what a thread pool promises, without threads, locks or conditions |
| `Crew` | `crew.c`, the thread pool: workers, clients, one mutex, three conditions |
| `Siege` | `main()`, the signal thread and the timer around the crew (extends `Crew`) |
| `SiegeProofs` | the theorems about `Crew` and `Siege`, with their proofs |
| `Browser`, `BrowserProofs` | `browser.c`, a simulated user: its passes, requests, counters, threshold; its theorems |
| `Connection`, `ConnectionProofs` | `__init_connection`, `new_socket`, `socket_close`, `SSL_initialize`: the descriptors of all browsers; its theorems |
| `HttpRead`, `HttpReadProofs` | `socket_read`, `http_read_headers`, `http_read`, `http_chunk_size`: replies that arrive in pieces; its theorems |
| `Cookies`, `CookiesProofs` | `cookie.c`, `cookies.c`, `facts.c`: parsing, the jars, the file between sieges; its theorems |
| `Url` | `url.c`: taking a text apart, escaping, completing a reference |
| `Parser` | `parser.c`: the references of a page (extends `Url`) |
| `Response` | `response.c`: the head of a reply |
| `Crawl` | a page, its redirects and its parts: `browser.c` over the three modules above |
| `Setup` | `init.c`, `eval.c`, `cfg.c` and the options and lists of `main.c`: from the start to the browsers' URLs (extends `Url`, `Slices`) |
| `Slices`, `SlicesProofs` | the division of the list under `--reps=once`, and its theorems |
| `Auth`, `AuthProofs` | `auth.c`, `creds.c`, `array_next` and their callers: logins and headers all browsers share; its theorems |
| `Dictionary` | what users of a hash table may rely on |
| `Hash` | `hash.c`: a table that grows |
| `Date` | `date.c`: dates in headers |
| `Cache`, `CacheProofs` | `cache.c` over `Hash` and `Date`, with its callers; the theorems about the three |
| `MCCrew`, `MCSiege`, `MCBrowser`, `MCConnection`, `MCHttpRead`, `MCCookies`, `MCCrawl`, `MCSetup`, `MCAuth`, `MCCache` | the instances TLC checks |

Run `tlc -config MCCrew.cfg MCCrew` and so on for the other runs, and
`tlapm SiegeProofs.tla` and so on for each module of proofs.

## The system

### Components, their state, and who calls whom

| component | state | operations | used by |
|---|---|---|---|
| thread pool, `crew.c` | a linked list of jobs, `cursize`, `total`, `closed`, `shutdown`, the thread ids; one mutex; conditions `not_empty`, `not_full`, `empty` | `new_crew`, `crew_add`, `crew_join`, `crew_cancel`, `crew_destroy`, readers and setters of flags | `main`, the signal thread |
| main program, `main.c` | the browsers, the crew, two thread ids, the statistics | `main`: build the crew, start the threads, add a job per user, join, stop the threads, sum up, free, report, save cookies | |
| signal thread, `handler.c` | the signal it got | `sig_handler`: wait for one signal, cancel the crew | signals of the user, the timer, and `main` |
| timer, `timer.c` | a deadline | `siege_timer`: wait, send SIGTERM to the signal thread | `main` (only with `--time`) |
| browser, `browser.c` | counters, bids, the parts of the page, a connection; globals `my.failed` (locked), `__himark`, `__lomark` (not locked) | `start`, `__request`, `__http`, `__ftp`, `__init_connection`, `__increment_failures` | the crew's workers |
| statistics, `data.c` | sums and extremes | setters and derived figures | `main` |
| connection, `sock.c`, `ssl.c` | descriptor, read buffer, keep-alive state (`reuse`, `max`, `status`, `tested`), TLS objects | `new_socket`, `socket_read`, `socket_readline`, `socket_write`, `socket_close`, `SSL_initialize` | browser, `http.c`, `ftp.c` |
| exchange, `http.c`, `ftp.c`, `response.c` | headers of one response, lengths | write a request, read headers, read a body by length, by chunks or to the end; FTP commands | browser |
| cookies, `cookies.c`, `cookie.c`, `facts.c` | a jar per browser, a file between sieges | parse, add, replace, expire, match, print, load, save | `http.c`, `main` |
| cache, `cache.c`, `date.c` over `hash.c` | dates and tags by path | add, is-cached, headers | browser, `http.c` |
| authentication, `auth.c`, `creds.c` | one object for all threads: header buffers, the NTLM state, credentials | make and get a header per scheme | browser, `http.c` |
| containers, `array.c`, `hash.c` | a list with an index, buckets with a count | add, get, remove, next | everybody |
| URLs and pages, `url.c`, `parser.c`, `page.c` | one object per URL | parse, escape, normalise; the parts of a page | `main`, browser |
| texts, `base64.c`, `md5.c`, `util.c` ... | none | encode, digest, strip | everybody |
| configuration, `init.c`, `cfg.c`, `getopt.c`, `load.c`, `eval.c` | the global `my` | read once, before any thread exists | `main` |
| output, `log.c`, `notify.c` | | format and write; `NOTIFY(FATAL)` exits | everybody |

### What is hard about it

* **Interleaving**: workers, `main` and the signal thread meet in the pool; signals
  are sent to condition variables only at the edges of `cursize`.
* **Cancellation**: `crew_cancel` cancels threads that may be running a browser,
  waiting on a condition, ended, or joined already.
* **Shutdown from three sides**: the browsers finish, the timer fires, the user
  interrupts, any two at once.
* **Recursion on what the server says**: redirects, challenges, logins, where a
  failure at the bottom is a failure of every request above it.
* **Shared memory without a lock**: the marks, the headers of `auth.c`, the index of
  `array_next`, the position of `strtok`.
* **Texts read more than once**: a URL is escaped, printed and parsed again; a variable's
  value is searched for variables; a reference is guessed to be a host or a file.
* **Connections that outlive a request**, and exchanges that break off in the middle.

`PROJECT.json` lists each hazard with the line where it bites and the properties
that would notice.

### What makes each component correct

* Pool: each job is run once, in the order of acceptance; nobody sleeps on a
  condition that holds; `crew_join` returns and leaves nothing undone.
* Life of a siege: it ends; uninterrupted it runs every browser; the crew is freed
  after its last use; the sums cover every browser that ran.
* Browser: every page is counted and no reply twice; the failure threshold and
  the bids bound what it does; it makes all its passes; it ends.
* Connection: a socket belongs to the host it is used for; each one opened is closed.
* Exchange: the body is what the framing says, and reading it ends.
* Cookies: a jar is a map from owner, name, domain and path; saving and loading
  gives the same live cookies, as far as the form of the file lets it.
* URLs and pages: what is requested is what a browser would request; a visit ends.
* Configuration: what the browsers start with makes sense and is what the user asked for;
  the list is divided without gap or overlap.
* Hash: a dictionary, but for what a removal takes along.
* Cache: nothing is taken from it after its date; validators are the latest, in a form servers read.
* Authentication: the header a browser sends is its own.

## The modules

### Crew

One variable per field of `struct CREW_T` (`queue` is the list from `head` to
`tail`), one program counter per worker (`wpc`) and per client (`cpc`), and a set
of sleepers per condition variable.  Everything between `pthread_mutex_lock` and
the next unlock, wait or exit touches only what the mutex guards and is one
action.  `mutex` is therefore free between two steps, with one exception that the
model keeps: a worker that is cancelled in `pthread_cond_wait` reacquires the
mutex and ends with it (`DieWaiting`).

`Sleep`, `Exit` and `Take` are the loop of `crew_thread`; `Return` and `DieRunning` end
the routine; `AddFull`, `AddSleeps`, `AddRefused` and `AddAccepted` are the
outcomes of `crew_add`; `CancelEnters` and `CancelOne` the two parts of
`crew_cancel`; `JoinWaits`, `JoinWaitsAgain`, `JoinDrained`, `JoinTimesOut`,
`JoinCloses`, `JoinRefused` and `JoinOne` those of `crew_join`.  `SpuriousWakeup`
is POSIX's licence for condition waits.  Two behaviours no C standard defines are
choices: cancelling the id of a joined thread does nothing or ends the process.

A client is any thread that calls the pool.  `Crew` lets clients call anything in
any order, with `block` either way, although siege itself never blocks.  The one
rule of the contract is that `crew_destroy` comes after every thread was joined.

`JobPool` is the abstract specification: jobs are numbered as they are accepted,
handed out oldest first to idle workers, and none after the pool was halted.
`Crew` implements it with `accepted <- total`, `handed <- total - cursize`,
`holds <- work` (`PoolSpec`).

### Siege

Extends `Crew` with the two clients it really has.  `mpc`, `hpc` and `tpc` are the
places of `main`, the signal thread and the timer; `sigs` are the pending signals.
The signals HUP, INT and TERM are blocked in every thread, so they wait for
`sigwait`, which takes one and never a second.  Browser *i* is job *i*.  Property
`Spec` says that the three threads keep to the contract of `Crew`.

### Browser

`start()` is `Start`, `NextPass`, `PopPart`, `EndOfPass`, `Finish` and `Die`.  A
request in `__http` or `__ftp` may make another request by recursion, so a browser
has a stack of frames, each with the reason for the call and the loop counter of
the 403 case.  An exchange with a server is one action per kind of outcome: what
follows the reply, down to the next request, uses only what belongs to the
browser.  `BackInStart`, `BackInRequest`, `BackFromLogin` and `BackFromAgain` are
the returns.  The only state the browsers share is `my.failed`: counted up under
`my.lock`, read at the end of a pass without it.

Left out: which URL is asked for, and why a URL is skipped (that is in `Crawl`).  What an
exchange does to the connection is in `Connection`, how its bytes are read in `HttpRead`, with
which header a challenge is answered in `Auth`.

### Connection

The fields of `CONN` that say what a connection is (`sock`, `ssl`, `encrypt`,
`status`, `reuse`, `max`) for every browser with the data connection of FTP, and the one
table of descriptors the process has.  A request begins with `Begin` (`__init_connection` up to
`new_socket`) and takes the steps of `new_socket` and `SSL_initialize`, each with the
failures the code tests for; `Broken`, `Replied`, `NoTransfer` and `Transferred` are
the ends of an exchange, `Finish` and `Die` those of the browser.  The table is the point: a
descriptor that one browser closes is given to another at once, so that whatever
holds a number too long (a TLS object does) acts on somebody else's connection.
With each descriptor the model remembers where it leads, and of each one lost why.

### HttpRead

One connection.  The server sends what is left of its replies in any pieces and may
hang up or reset at any point; a line of a chunked body, the headers of a reply and a
byte of a body are one element of the stream each.  The reader is two routines
deep: `call` is the call of `socket_read` under way, with what it has copied to its caller
so far, and `pc` is where `http_read_headers`, `http_read` or `http_chunk_size` waits for
its result.  `buffer` is `C->buffer` between `pos_ini` and the end of `inbuffer`.  `bytes` is unsigned
(`% SizeT`), as `socket_read` may return -1.  `Request` is what `__init_connection`
does to the buffer when the connection is kept.  `TimesOut` is a read that fails for want of an
answer; it can happen and never has to.

### Cookies

The jars of all users (`jar`, a list each), `cookies.txt` (`file`, the lines of each
user) and the position of `strtok`, of which the process has one (`left`).  A
Set-Cookie line is a sequence of tokens: `Receive`, `NextToken` and `Store` are
`__parse_input` token by token, so that two browsers can get hold of each other's tokens,
as they can in the code; `mixed` remembers that they did.  `Start` loads, `End` and
`CutShort` save what `get_cookies` gives (`ToLine`), `Killed` does not.  What is loaded is `ReadBack`: the file has no
escapes, so a line ends at its first `#`, which begins a comment, or at the `|` behind the cookie; a token that has one is cut
there (`Stump`, with `Upto` for what is in front of it) and the tokens behind it are gone (`Readable`).  `Header` is what
`cookies_header` sends; it changes nothing, as `cookies_delete` compares the owner it
stored (the user's number) with a thread id and never finds a cookie.  `ideal` is the
map of the latest cookies that the lines describe.

What the model shows beside the properties: a line with a date that is past, or
`max-age=0`, does not delete a cookie but makes it one of the session; a number as
date is taken for a time, not for seconds from now; the path is not asked for.

### Url, Parser, Response, Crawl

A text is a sequence of tokens: each delimiter the code looks for is one, and each run of
other characters.  `Url` has one operator per `__url_set_*` function, in the order of
`__url_parse`; each takes the object so far with the rest of the text and leaves both
(`ParsedAs`).  `behind` is the memory behind the NUL that ends the URL in front of a method: `__url_set_path` steps over that NUL
when the URL has no path, and takes the method and its data for a file.  `Normalize` is `url_normalize` with its three guesses in their order (`Absolute`,
`HostAndPath`, `LocalHost`) before `Built`.  `Parser` follows `__parse_control` with a `strtok_r`
that returns the token and the rest; `Tags` is the loop of `html_parser`, which reads past
the end of a page that ends inside a comment or a tag (`beyond` is what lies there), and the
buffer of a `<link>` starts with whatever was on the stack (`buf`).  `Response` has one operator
per setter of `response.c`, over a hash in which the first of two lines stays.

`Crawl` is a state machine: `Visit` requests the page, `Answered` is `__http` from the head on
with its redirects, `PopPart` the loop of `start()` over the parts.  A site is a function from
host and request to the lines of a head and a page.  It takes redirects and the HTML
parser as on (`follow-location`, `parser`), answers to challenges as made elsewhere (`Auth`), and
no site redirects to an inline picture: `url_normalize` returns NULL then, which `__http` uses.

### Setup, Slices

`phase` is where `main` is: `OpenRc`, `ReadRcLine`, `EvaluateDirective`, `Directive` and `EndOfRc` are
`load_conf`, one line and one pass of its loop over `$` at a time; `Argument` is one option of
`parse_cmdline` and `Configured` the rest of `__config_setup` with `ds_module_check`; `OpenUrls`,
`ReadUrlLine` and `EndOfUrls` are `read_cfg_file`; `Divide` gives each browser its list.  `my` is the
structure of that name, one field per directive or option.  `Evaluate`, `Unescape` and `Expand` are the
loops of `eval.c` and `cfg.c`.  What a directive without a value finds behind it in
memory is a choice (`Beyonds`).  `Slices` is the arithmetic of `main.c:478-484`.

### Auth

A step is one access to a field that all browsers share, or to the memory it points
to: `heap` is that memory, `slot` the four header fields of `AUTH_T`, `lock` the lock that only
Basic takes.  `LoadIndex`, `StoreIndex` and `TakeUrl` are `array_next`; `FreeBasic`, `AllocBasic` and
`FillBasic` are `__basic_header`; `AllocDigest` and `PrintDigest` the making of a Digest header;
`NtlmState` to `NtlmFill` the state machine of `__ntlm_header`; `ReadSlot` and `CopyHeader` what
`http_get` and `http_post` do with the result.  A header says whose login it carries, which
nonce it answers and its count, not its hash.  `BasicChallenge`, `DigestChallenge`, `NtlmChallenge`,
`NoLogin`, `NtlmOver` and `ProxyNtlm` are the cases of 401 and 407 in `__http`.  `touched` and `alone`
remember who came between, for the properties only.

### Dictionary, Hash, Date, Cache

`Hash` is the table as a record of size, count and chains; a chain is a set, since nothing shows
its order.  `NAdd`, `Get`, `Drop` and `Resize` are `hash_nadd`, `hash_get`, `hash_remove` and `__resize`.
`HashSpec` is a table by itself, which the proofs are about; `Dict` maps it to `Dictionary`.
`Date` reads and prints dates word by word, with the years `__strtotime` takes for others; `Days`, `YearOf`
and `MonthOf` are the calendar of `mktime` and `gmtime`.  What a date means is defined apart from that
(`IsHttpDate`, `Meant`), and `Misdated` and `Printable` name what `date.c` does not read right or not print at all: the
years up to 1970, years of two digits in this century, and years beyond 3870 or 3937.  A time is its second with the number
of characters it takes (`Width`): `date_get_rfc850` prints 18:00:00 as `18:0:0`, and `__strtotime` steps over eight
characters whatever it reads, so that two numbers of one digit make it step into the zone.  `Rereadable` are
the times with fewer of them.  The year is printed as it counts from 1900, and the weekday is that of the day after.
`Cache` is a browser with `cache = true`: `Page`, `Part` and `FromCache` are a request for a page,
for a part that is not fresh, and a part that is; `Line` is one line of the head that is stored;
`Tick` lets the clock go on, `End` is `cache_destroy`.

## The runs

| run | instance | distinct states | result |
|---|---|---|---|
| `crew` | 2 workers, 2 clients, 3 jobs, a queue of 2 | 346,724 | holds |
| `siege` | 2 users, 2 signals | 275,249 | holds |
| `browser` | 1 browser with 3 replies and 2 with 1; 2 passes, threshold 2, 3 bids | 350,736 | holds |
| `connection` | 2 browsers, 2 hosts, 2 descriptors, symmetric | 2,023,365 | holds |
| `http_read` | 2 replies of up to 5 bytes, a buffer of 2, a first allocation of 2 | 61,680 | holds |
| `cookies` | 2 users, 2 sieges, 2 lines of 5 kinds, 3 that a person wrote, a host and its subdomain, 3 seconds | 683,574 | holds |
| `crawl` | 510 sites: every entry with every reference, every markup, 9 sites of three pages | 17,004 | holds |
| `setup` | resource files of 2 directives, command lines of 2 options, lists of 2 lines and of up to 7 entries | 121,774 | holds |
| `auth` | 2 browsers, 3 requests each, 8 sites with up to 3 challenges, symmetric | 1,196,003 | holds |
| `cache` | 3 URLs with 2 paths, 7 answers, 3 requests, 3 times, 4 buckets that grow | 190,722 | holds |
| `siege_interrupt` | 2 users, 1 signal | | violated |
| `cache_revalidation` | as `cache` | | violated |

`crew` shows that the pool serves each job once and in order (`ServedOnce`), loses no wake-up
(`NoLostWakeup`), drains what it promised to drain (`JoinDrains`), loses its lock only to a
cancelled waiter (`CrewStateOK`), returns from its calls (`CallsEnd`), and implements `JobPool`
(`PoolSpec`).  Two workers and two clients are enough for two threads on every condition; the
queue of two makes its order visible; the third job makes it full.

`siege` shows that the siege ends whatever signals arrive and when (`SiegeEnds`), that one which
nothing interrupts runs every browser and that the statistics cover the browsers that ran
(`AllRunAndCounted`), that the crew is freed only after its last user (`CrewOutlivesItsUsers`), that
a browser is refused only after an interruption (`SiegeTypeOK`), and that main and the handler
keep to the contract of `Crew` (`Spec`).  With two signals the second arrives after the handler
took the first, where the code gives it no one to take it.

`browser` has a second browser because only another one can raise `my.failed` between a
browser's check and its next pass (`RunsItsShare`); one browser alone gets three replies, enough
for a redirect and its challenge, or a 403, a login and the second attempt.  When the replies
are spent only broken connections are left, which is what drives `my.failed`.  `CountedOnce` says that
the counters are those of what happened, `ChallengesBounded` that the bids bound the answers
to challenges through redirects and logins; with three bids a second answer can be given.

`connection` shows that no browser ever uses or closes a descriptor of another and that a
descriptor is lost for one of four reasons only (`OwnDescriptors`), that a browser that is up has a
socket (`ConnTypeOK`), and that without keep-alive a request goes to its own server and a TLS object
whose handshake failed serves at most one more request (`RightPeerUnlessKept`).  Two descriptors for
two browsers make the table run full (a single FTP transfer needs both) and every number
pass from one browser to the other.

`http_read` shows that the body put together is the one that was sent however it was cut
up and that nothing of one reply is taken for the next (`BodyIsTheBody`), that chunks stay within
what was allocated (`ReadTypeOK`), that `read()` never gets more room than the buffer has and that
reading ends unless a chunked body was cut off or an earlier read was timed out (`ReadEnds`).  A buffer of two and bodies of up to
five make every body longer than the buffer and the first allocation (`realloc`), one that fits,
and an empty one.  Bodies are only right as long as no read was timed out (`late`):
after that, the rest of the reply is still on the wire.  If the connection is kept, that rest is the head of the next reply to
`http_read`, which may then wait for the end of a connection that a silent server never closes.

`cookies` shows that a jar holds a cookie once (`CookieTypeOK`), sends for each name what a map of the
latest cookies would unless two lines were mixed up (`HeaderIsIdeal`), is the same after the file
except that a host's cookie becomes its domain's, if its cookies can be written and have no `#` or `|`, and that
a live cookie of the file is lost only for a reason `LossesExplained` names: fewer users than last time, an interrupt, a cookie
without name or domain in the jar, and a cookie of the session, or one that is cut at a `#` or a `|` when
it is read back, in its place.  Two lines, with one that a person may have written into the file, give a jar of
up to three cookies: one renewed, one hidden, one cut, one that stops the saving.

`crawl` shows that the parser takes what a page embeds and nothing else, each reference once,
where the markup is the kind it is made for (`PartsAreEmbedded`); that a reference leads where RFC 3986
says except for the readings `Misread` lists (`ResolvedAsReferenced`); that the text of a URL names
the same URL when it is parsed again (`SameWhenReparsed`); and that a visit ends unless the
site leads in a circle (`VisitEnds`): nothing else bounds redirects, nor parts that are pages with
parts.  The sites put every form of reference against every form of entry, and every form of
markup around them; those of three pages redirect, refresh, embed each other, and answer a
part with a page.  `MaxRequests` is 16, more than any site that is no circle needs.

`setup` shows that what browsers start with makes sense (`ConfigRunnable`), that the command line
decides except where `CommandLineWins` says what does, that variables are replaced by what they stood for
(`VariablesExpanded`, with the texts over which `cfg.c` goes astray), and that `--reps=once` requests each
entry once (`OnceCoversTheList`).  Two directives and two options are enough for every pair that
sets the same field; 7 entries for 1, 2, 3 and 5 browsers cover lists shorter, longer and a
multiple of the number of browsers.  `MaxPasses` is 8: no value of the instance needs as many passes.

`auth` shows that a request carries exactly the answers to the challenges it got, unless another
browser worked on the same kind of header in between (`OwnAnswers`); that the lock is enough for
Basic to free its memory once (`FreedOnce`); and that login URLs are taken in turn by browsers that do
not meet in `array_next` (`LoginsInTurn`).  Three requests allow a challenge of the server, one of
the proxy, and the use of both; or the three messages of NTLM.

`cache` shows that the table stays in order while it collides, grows and loses chains
(`TableInOrder`, `DictSpec`), that a part is taken from the cache only before some date of expiry the
path had (`ServedWhileFresh`), and that conditional requests carry the last validators of the
path, with the date as siege prints it (`ValidatorsAreCurrent`).  That is not a date of HTTP, so no server reads it as the one it
sent (see the disagreements below).  `date.c` itself reads it as the same second only if it is `Rereadable`; of the two times of
the instance, 18:00:00 is not and 18:10:10 is.  Three requests store
under a path twice and read it; the second host has the same path, which is all of the key.  The
dates have each of the three forms, one without a month, one of 1970 and one of the year 2000 in two digits.

Bounds: `MaxTotal` (jobs), `MaxSignals`, `MaxReplies`, `MaxParts`, `Requests`, `MaxRequests`, `MaxLines`, `MaxTime`,
`MaxSieges`, `MaxPasses`, and the times of `Clock`.  They bound the environment, not the program; `Powers`
are the powers of two an `int` holds.  In the theorems every bound a module declares is arbitrary.

`CHECK_DEADLOCK FALSE` everywhere: a siege that is over stops.

### Findings

* `siege_interrupt`: an interrupt while a worker waits for its first job leaves
  `crew->lock` locked for ever, and the siege hangs.
* `cache_revalidation`: the entity tag of a URL is sent only while a date of expiry is stored
  and not over, so what has become stale, or never had a date, is requested without it;
  `doc/siegerc.in:226-230` promises revalidation for both headers.

Known disagreements that the models contain and no run is devoted to:

* `main` asks `crew_get_shutdown` and then calls `crew_add` (`main.c:526-534`): after a signal between the
  two siege reports exhausted resources and exits (the place `refused` of `main` in `Siege`).
* A 408 or 5xx counts against the abort total, which `doc/siegerc.in:382-384` says it does not
  (`browser.c:794-805`, in `Browser`).
* With keep-alive, `__init_connection` takes the socket in hand whatever host, port and scheme the
  URL has (`browser.c:967`; `RightPeerUnlessKept` is only about sieges without it).
* The date of `If-Modified-Since` is printed without leading zeros, with a year that counts from 1900 and the name of
  the next day (`date.c:213-223`, `Rfc850` of `Date`): 9 February 2016, a Tuesday, at 18:00:00 is
  `Wed, 9 Feb 116 18:0:0 GMT`, which is no date of HTTP.  A server cannot answer 304 to it, as `doc/siegerc.in:226-230` says it does.
* "All cookies that expire in the future will be preserved", says the cookie file (`main.c:400`).  A cookie whose value has a `#` or a
  `|` is cut there when the file is read (`facts.c:92-100`, `facts.c:141`) and loses its domain, path and date; and a cookie without
  a name ends the saving (`facts.c:68`).  `LossesExplained` lists these cases.
* `Cache-Control` is read and ignored (`http.c:539-541`; `Cache` has no such line), whereas `doc/siegerc.in:236-246` says that
  `max-age` caches a file.
* A META refresh is never followed: `parser.c:160` looks for `;url=` in words that were split at `=` (`parser.c:157-159`), so that it finds none
  (`MetaAttributes` of `Parser`); `doc/siegerc.in:633-636` says that siege follows them when its parser is on.
* Two browsers race for `__himark` (`browser.c:569`): not modelled, it touches one figure.

### Fairness

* Crew: a worker or a sleeping client that can go on does (weak fairness; the mutex
  is never kept from a thread that keeps asking for it), and a routine returns or
  meets the cancellation that ends it.  Nobody need call anything and no wait need
  time out.
* Siege: the same for `main`, the signal thread and the timer, whose deadline comes.
  The user need not send a signal.  In a timed siege a browser need not return
  by itself: its loop counter is set back to 0.
* Browser: its thread goes on.  `pthread_testcancel` at the end of a pass must act on
  a pending request; other cancellation points may.

* HttpRead: the browser goes on; the server sends all of its reply and closes where only
  that ends the body.  Nothing is assumed of time-outs: `__socket_select` also
  watches whether the socket can be written to, so `select` returns at once and the
  `read` after it waits for as long as the server is silent.  So `TimesOut` is no part of the fair steps, and no read is ended by it in
  the argument.  `ReadEnds` makes two exceptions: a chunked reply that was cut off, where `http_chunk_size` returns -1 for ever,
  and a connection on which an earlier read was timed out (`late`), where what the next request reads is the rest of another reply
  and may be one whose end only the server's close would tell.

The other specifications state no fairness; what ends there is a safety property over a
counter (`VisitEnds`, the passes of `VariablesExpanded`).

The liveness properties of `Crew` and `Siege` except `InterruptEnds` carry the escape `Lost`: the process ended, or
the lock went with a cancelled waiter.  `siege_interrupt` is the run without it.

## The theorems

`SiegeProofs` proves of `Crew`, for every `Size`, `MaxSize`, `MaxTotal` and every set of
`Clients`, under `CrewAssumption` only (positive sizes):

| theorem | property |
|---|---|
| `StateCorrect` | `CrewStateOK` |
| `ServedInOrder` | `ServedOnce` |
| `WakeupsSuffice` | `NoLostWakeup` |
| `JoinLeavesNothing` | `JoinDrains` |
| `ImplementsPool` | `PoolSpec` |

None of the properties is inductive alone.  `IInv` adds three parts:

* `Sleepers`: who is asleep on a condition is at that condition's wait.  Without it a
  waker would not know that emptying a set of sleepers wakes the right threads.
* `Flags`: what `closed`, `shutdown`, `aborted`, `drain` and the program counters
  imply of each other, e.g. a worker ends only after a shutdown, and a drained,
  undisturbed crew that shut down has an empty queue.
* `Accounted`: unless aborted, every job handed out has returned or is being run.

With all workers joined nobody runs anything, so by `Accounted` all jobs handed
out have returned, and by `Flags` all were handed out: that is `JoinDrains`.
`NoLostWakeup` needs `FirstInFirstOut` for the range of `cursize`: the signals at the
edges suffice because every wait condition holds only beyond an edge.

The argument has one lemma per conjunct (`TypeStep`, `FifoStep`, `OneWorkerStep`,
`WakeupStep`, `FlagsStep`, `AccountedStep`), each with one step per action;
`Inductive` joins them, and `PoolStep` maps each step to a step of `JobPool` or a
stutter.  `TailOf` and `AppendOf` are the two facts about sequences.  TLC
checked `IInv` before it was proved.

`CacheProofs` begins with the table: it proves, for every set of keys and values, every hash function, every first size
and every set of sizes to grow to, under `HashAssumption` (the types of these):

| theorem | property |
|---|---|
| `TableStaysInOrder` | `HashSpec => []TableInOrder` |
| `ImplementsDictionary` | `HashSpec => DictSpec` |

`Ordered` is inductive as it stands: types, each node in the chain its key is looked up in, no
key twice, an exact count.  One lemma per operator says that it keeps `Ordered` (`NewInOrder`, `InsertInOrder`,
`ResizeInOrder`, `DropInOrder`), the count by the theorems about cardinalities.  `LookupFinds` says that
a search of one chain finds what is anywhere in the table, and `DictOfAdd` and `DictOfFewer` what an
addition and a removal are to the dictionary.

Then it proves of `Cache`, for every set of URLs and answers, every clock and number of requests, under
`CacheAssumption` (the keys and values a browser needs are among those of the table, and answers are
made of tags and dates):

| theorem | property |
|---|---|
| `CacheStaysInOrder` | `Spec => []TableInOrder` |
| `CacheIsADictionary` | `Spec => DictSpec` |
| `PartsAreFresh` | `ServedWhileFresh` |
| `RequestsNameTheLast` | `ValidatorsAreCurrent` |
| `ReadAsMeant` | a text that is no `Misdated` one is read as it is `Meant` |
| `RoundTrip` | what is printed of a `Printable` date is read as that date if its time is `Rereadable`, and as -1 if not |

`CacheInv` adds to `Ordered` what ties the table to the answers: a node holds the last tag or date of change
that an answer for its path brought, or some date of expiry (`Held`); the request under way was made of that
(`Conditions`), and what was just served has such a date that is not over (`Serving`).  `Held` survives a line of
an answer because `cache_add` removes a key before it adds it again, and the removal, which may
empty a whole chain, leaves nothing of that key behind (`DropDrops`, `CacheAddAdds`).  For a date of expiry,
which is not removed first, only "some" holds, not "the last".  A value that is replaced is `Replace` of the dictionary
if its key was there, and `Add` if not.

The dates are arithmetic and a parser.  The years follow each other without a gap (`YearsFollow`), so
the one that `YearOf` looks for is among the eight it looks at (`YearFound`), and so for the months: a day is the
day of its year, month and day.  A text is read word by word (`WordByWord`), and there are six words at
most, so what is read needs no induction: one lemma for each kind of word says what it does to what was
read before (`MdayWord`, `MonthWord`, ...), and `SixWords` and `FiveWords` put them together for the three forms, `ShortRead` for a time of fewer than seven characters,
after which nothing that follows is read.
`StrtotimeTyped` says that every other text is read as some time too.

`SlicesProofs` proves for every list and every number of browsers that the slices follow
each other from the first entry to the last and differ by one at most (`SlicesFollow`), that none
overlap (`SlicesDisjoint`) and that no entry is left out (`SlicesCover`).

Of `Siege` it proves, under `SiegeAssumption` (main and the signal thread are the crew's two
clients, and the crew has the sizes `main.c` gives it), for every number of users and of signals:

| theorem | property |
|---|---|
| `SiegeUsesCrew` | `SiegeSpec => Spec`, the specification of `Crew` |
| `SiegeTyped` | `SiegeTypeOK` |
| `FreedLast` | `CrewOutlivesItsUsers` |
| `NoBrowserMissed` | `AllRunAndCounted` |

The first is the composition: no step of a siege calls the crew out of turn, so each is a step
of `Crew` or leaves the crew alone, and every theorem about the crew holds in a siege.  It needs `IInv` and
`SInv` together: a call is allowed because of where main, the signal thread and the timer
are (`Course`), and of what their earlier calls brought about (`Calls`): after its join, main finds the
crew closed and every worker joined.  `Counts` says that main's counter is `total`, and that only an
abort keeps main from adding all browsers.

`ConnectionProofs` proves, for every set of browsers and hosts and every set of descriptor numbers
(`ConnectionAssumption`: they are numbers), `ConnTypeOK` (`ConnectionsTyped`), `OwnDescriptors`
(`DescriptorsOwned`) and `RightPeerUnlessKept` (`RequestsReachTheirServer`).  The invariant `CInv` says of each browser that what it
holds is open and its own (`Held`); that what it opened it holds, unless one of the named cases
could drop it (`Accounted`); what the fields are at each step of a request (`Progress`), and which sockets may be
dropped there (`Drops`); and, without keep-alive, that the TLS object ends with its session or at the
next request (`Once`).  Two browsers are tied together only by the table of descriptors: an open one has one
owner, so what `Held` says of one browser survives each step of another.

`BrowserProofs` proves, for every number of users, passes, bids, logins, parts and replies and every
threshold (`BrowserAssumption`), with stacks of requests of any depth:

| theorem | property |
|---|---|
| `BrowsersTyped` | `BrowserTypeOK` |
| `BidsBoundAnswers` | `ChallengesBounded` |
| `PassesAsAsked` | `RunsItsShare` |
| `CountedOnceOnly` | `CountedOnce` |

`BInv` says of each browser that the requests under way began with one of `start()` (`StackOK`); that answers to
challenges were counted as bids (`Bidding`); which pass it is at, and that one begun too late is its last
(`Turns`); and that its hits, with the requests under way that will be hits, were all
classified (`Classed`).  `Counted` is about the sums: pages not yet matched by a hit are at most
`my.failed`.  One browser moves at a time, so `SummedIs` and the lemmas after it say what one new
summand does to a sum; the prover has no induction over a definition, and the running sums come from the
least-number principle (`Induction`).

`AuthProofs` proves, for every set of browsers and sites, every list of logins, and any number of login URLs
and requests, under `AuthAssumption` (finitely many browsers; the types of logins and challenges):

| theorem | property |
|---|---|
| `BasicFreesOnce` | `FreedOnce` |
| `LoginsTakenInTurn` | `LoginsInTurn` |
| `AnswersAreOwn` | `OwnAnswers` |

* `LocksInv`: no two fields point to the same buffer (`Pointers`), who is between the release of a text and the
  new one has the lock, and a field points to memory that is gone only then (`Locked`).  `FreedOnce` alone is not
  inductive: a Digest for the proxy is written to the same field as a Basic one and without
  the lock, so it has to be known that this write brings memory of its own.
* `TurnsInv`: the index is at most the number of browsers past it, so it has not gone round, and the
  number an undisturbed browser read is still the index when it writes it back (`Counting`).
* `AnswersInv`: for each kind of header, what the browser keeps of the challenge (`Challenged`, `Count`), how far
  the answer has come at each step of its preparation (`DigestWork`, `BasicWork`, `NtlmWork`, `Copying`), that it stays in its
  field until the next challenge (`Stays`), and that the request has it (`Answered`).  Each of these holds only as
  long as no other browser wrote the field, which is what makes it survive the steps of others
  (`OthersOwn`); a browser's steps at one kind of header leave the other alone (`OtherKind`) except for
  a Digest, whose text is made anew for each request.  `LoginIsEntitled` says that the code's search finds
  the login that `Entitled` defines: the search is for the first one of a realm, the definition a least element.

`HttpReadProofs` proves, for every size of the buffer and of the first allocation, every width of `bytes`, every set of
lengths and of ways to cut a body into chunks, and any number of replies (`HttpReadAssumption`: sizes are
positive, lengths fit into `bytes`, no chunk is empty), `ReadTypeOK` (`ReadIsTyped`) and `BodyIsTheBody` (`BodiesAreRead`).
`HInv` has four parts:

* `Typed` and `Wanted`: a call never wants more than what a chunk lacks or `ptr` can hold.
* `Stopped`: a call that is over got what it wanted, met the end of the stream, or an error.
* `Reading`: for each place the browser can be in, what `ptr` has and that what the call has taken, what is in the
  buffer, what is on the wire and what the server has still to send are, one after the other, exactly the rest of the
  reply (`Remains`).  This is why it does not matter how the bytes are cut up: each step moves the border
  between two of the four and leaves their concatenation alone (`RemainsOf`).

`Stopped` and `Reading` hold only until a read is timed out (`late`), as the property does.

`CookiesProofs` proves, for all texts, hosts and lines, any number of users, lines and sieges, whatever a person wrote
into the file (`CookiesAssumption`: no line is empty; None is no text, and "/" is one):

| theorem | property |
|---|---|
| `JarsAreTyped` | `CookieTypeOK` |
| `HeadersAreIdeal` | `HeaderIsIdeal` |
| `LossesAreExplained` | `LossesExplained` |

`CInv` says of each user that only browsers that exist have cookies and lines (`Placed`); that what `strtok` has left
of a line will complete the draft to the cookie the whole line describes (`Drafted`); that the list of the jar and the
map hold the same cookies (`Mirrored`); and that each cookie of the file has its like in the jar filled from
it (`FromFile`).  `Drafted` and `Mirrored` hold until two lines are mixed.  `HeaderIsIdeal` is about names and not
identities: that the list sends each name once, with a value the map has, follows from `Mirrored` by the
order in which `cookies_header` takes cookies.  A line of a cookie that is `Intact` has only tokens without `#` and `|`, so
reading it leaves it alone, and parsing it gives the cookie; that is why the premise of `LossesExplained` is about whole cookies and
not about lines.  `LossesExplained` is a property of steps: of the steps that
write the file, it needs `FromFile` of the state before.

TLC checked each of these invariants on an instance before it was proved.

Only model-checked:

* all liveness (`CallsEnd`, `SiegeEnds`, `ReadEnds`, `InterruptEnds`, `BrowsersEnd`): fairness and ENABLED are
  beyond the prover;
* `Url`, `Parser`, `Crawl` and `Setup`, whose recursive definitions are: the text of a URL, the parts of a page, the ends
  of a visit and the configuration are checked on their instances only.

## What is not modelled, and why

* FTP: the commands and replies of `ftp.c` (one step of `Browser` and of `Connection`).
* Pure functions on bytes: MD5, base64, DES, inflating.
* `getopt.c` (taken from elsewhere: `Setup` starts with the options it finds), `show_config`, the
  help, the report and the log.
* The lengths of buffers, letter case and the wording of messages, everywhere; what a
  `realloc` or `malloc` that fails would do.
* The exchange with a server is one step of `Browser`, and that it ends is assumed
  there.  `HttpRead` shows when it does; `https_tunnel_response` and the reply loop of
  `ftp.c` have the same endless loop as the chunks and are not modelled.
* Of browsers: the longest and shortest transaction, the delay between pages, the display.
* Of connections: the tunnel through a proxy, failures of `fcntl` and `setsockopt`,
  the further addresses of a host, the inside of OpenSSL.
* Of replies: reading over TLS (which has no buffer of its own here), trailers after the last
  chunk, chunk sizes that overflow, decompression.
* Of cookies: the text of dates, leading dots, the sizes of lines and
  headers, `secure` and `httponly` (nobody reads them); what `strtok` finds in a string
  that was freed is taken to be its end.
* Of dates: the time zones but for a few, the hours around a change of
  the clocks, texts with two times or with a month of eight digits that is none.
* Of logins: those for FTP; what a hash is computed to.
* Of authentication and pages: `Crawl` takes no 401 or 407; `Auth` and `Browser` do.

## Plan

Done: the pool, the life of a siege, browsers, connections, replies, cookies, logins, the cache with its table and
dates, and the slices with their proofs; the configuration; URLs, pages and visits.

What would come next, in this order:

1. The exchange of `ftp.c`, and the addresses of a host in `new_socket`.
2. The composition of `Browser` with `Auth`: the bids over the messages of NTLM.
3. The guesses of `url_normalize` without recursion, so that `SameWhenReparsed` can be proved for every text.
