------------------------------ MODULE Browser ------------------------------
(***************************************************************************)
(* browser.c: what each simulated user does.  start() requests its pages,  *)
(* and the parts the parser found in them, one after the other; a request  *)
(* may call for another one (a redirect, a challenge, a login after a 403) *)
(* which the code makes by recursion, so a browser has a stack of requests *)
(* under way.  The browsers share my.failed, which my.lock guards when it  *)
(* is counted up and not when it is read.                                  *)
(*                                                                         *)
(* An exchange with the server is one step with every outcome the code     *)
(* tells apart; which URL is asked for does not matter here.               *)
(***************************************************************************)
EXTENDS Integers, Sequences, SequencesExt

CONSTANTS MaxUsers,     \* bound: simulated users
          Reps,         \* my.reps, or how many URLs a user has with --reps=once
          Bids,         \* my.bids, the bids for one URL before siege gives up
          Failures,     \* my.failures, the threshold of my.failed
          AuthUrls,     \* array_length(my.aurl), the logins to try after a 403
          MaxParts,     \* bound: parts the parser finds in one page
          MaxReplies    \* bound: replies after which no server answers any more, for
                        \* each number of users

ASSUME BrowserAssumption ==
    /\ Reps \in Nat \ {0} /\ Bids \in Nat \ {0} /\ Failures \in Nat \ {0}
    /\ AuthUrls \in Nat
    /\ MaxUsers \in Nat \ {0} /\ MaxParts \in Nat /\ MaxReplies \in [1 .. MaxUsers -> Nat]

VARIABLES
    my,         \* what the options say: how many users siege has (my.cusers), and timed,
                \* my.secs > 0 with no number of repetitions: the loop never counts on
    failed,     \* my.failed
    cancelled,  \* browsers whose thread has a pthread_cancel request
    at,         \* where each browser is: its program counter and locals
    stats,      \* its counters, which main sums up in the end
    seen,       \* history: what each browser did
    replies     \* history: how many replies the servers gave

vars == <<my, failed, cancelled, at, stats, seen, replies>>

Browsers == 1 .. MaxUsers

None == 0     \* code: the status that decided, for want of one

\* Why a request is made, and i, its loop over my.aurl.
Frame(why) == [why |-> why, i |-> 0]

Init ==
    /\ my \in [timed : BOOLEAN, users : 1 .. MaxUsers]
    /\ failed = 0 /\ cancelled = {}
    /\ at = [b \in Browsers |-> [pc |-> IF b <= my.users THEN "start" ELSE "done", x |-> 0, stack |-> << >>,
                                 code |-> None, ret |-> FALSE,
                                 parts |-> 0, www |-> 0, proxy |-> 0]]
    /\ stats = [b \in Browsers |-> [hits |-> 0, code |-> 0, okay |-> 0, fail |-> 0]]
    /\ seen = [b \in Browsers |-> [tops |-> 0, loops |-> 0, late |-> 0,
                                   answers |-> 0, proxied |-> 0]]
    /\ replies = 0

At(b, pc) == at[b].pc = pc
Goto(b, pc) == at' = [at EXCEPT ![b].pc = pc]

\* Browser b, calling __request for the reason why, or about to return value from it.
Requesting(b, why) == [at[b] EXCEPT !.pc = "send", !.stack = Append(@, Frame(why))]
Returning(b, value, code) == [at[b] EXCEPT !.pc = "return", !.ret = value, !.code = code]

-----------------------------------------------------------------------------
(* start                                                                   *)

\* my.login: the result of the login is nobody's concern.
Start(b) ==
    /\ At(b, "start")
    /\ Goto(b, "head") \/ at' = [at EXCEPT ![b] = Requesting(b, "login")]
    /\ UNCHANGED <<my, failed, cancelled, stats, seen, replies>>

\* The loop's counter at its test; in a timed run every pass sets it back to 0.
More(x) == x < Reps

\* A new pass: a URL without a host is passed over.
NextPass(b) ==
    /\ At(b, "head")
    /\ More(at[b].x)
    /\ LET x == IF my.timed THEN 0 ELSE at[b].x IN
       \/ at' = [at EXCEPT ![b] = [Requesting(b, "page") EXCEPT !.x = x, !.www = 0]]
       \/ at' = [at EXCEPT ![b].pc = "parts", ![b].x = x]
    /\ seen' = [seen EXCEPT ![b].loops = IF my.timed THEN @ ELSE @ + 1,
                            ![b].late = IF failed >= Failures THEN @ + 1 ELSE @]
    /\ UNCHANGED <<my, failed, cancelled, stats, replies>>

\* One of the parts the parser found: of no known scheme, in the cache or on a
\* host not to be followed, or else requested.
PopPart(b) ==
    /\ At(b, "parts") /\ at[b].parts > 0
    /\ \/ at' = [at EXCEPT ![b].parts = @ - 1]
       \/ at' = [at EXCEPT ![b] = [Requesting(b, "part") EXCEPT !.parts = @ - 1, !.www = 0]]
    /\ UNCHANGED <<my, failed, cancelled, stats, seen, replies>>

\* The end of a pass: pthread_testcancel, the delay, and a look at my.failed without
\* the lock.
TooManyFailuresOff == failed > Failures + 1               \* mutant: the threshold misread
TooManyFailures == failed >= Failures
EndOfPass(b) ==
    /\ At(b, "parts") /\ at[b].parts = 0 /\ b \notin cancelled
    /\ IF TooManyFailures THEN Goto(b, "done")
       ELSE at' = [at EXCEPT ![b].pc = "head", ![b].x = @ + 1]
    /\ UNCHANGED <<my, failed, cancelled, stats, seen, replies>>

Finish(b) ==
    /\ At(b, "head") /\ ~More(at[b].x)
    /\ Goto(b, "done")
    /\ UNCHANGED <<my, failed, cancelled, stats, seen, replies>>

\* Deferred cancellation: pthread_testcancel at the end of a pass and after a
\* failure, and the calls that read, write, connect and sleep.
Die(b) ==
    /\ b \in cancelled /\ at[b].pc \in {"send", "parts"}
    /\ Goto(b, "done")
    /\ UNCHANGED <<my, failed, cancelled, stats, seen, replies>>

-----------------------------------------------------------------------------
(* __http and __ftp: one exchange with a server, and what the code makes   *)
(* of the reply.  All of it is the browser's own until the next request.   *)

\* The exchange leaves b in its new local state, with these counts added to its own.
Leave(b, local, hits, good, fail, ok) ==
    /\ at' = [at EXCEPT ![b] = local]
    /\ stats' = [stats EXCEPT ![b].hits = @ + hits, ![b].code = @ + good,
                              ![b].fail = @ + fail, ![b].okay = @ + ok]

One(condition) == IF condition THEN 1 ELSE 0

\* A reply with this status, classified as response.c does.
Success(code) == code < 400 \/ code \in {401, 407}
Failure(code) == code >= 400 /\ code \notin {401, 407}
Classified(b, local, hits, code) ==
    Leave(b, local, hits, One(Success(code)), One(Failure(code)), One(code = 200))

Sends(b) == At(b, "send") /\ UNCHANGED <<my, failed, cancelled>>
Answered == replies < MaxReplies[my.users] /\ replies' = replies + 1

\* No connection, a request that cannot be written, no reply to read in time.
SocketFails(b) ==
    /\ Sends(b)
    /\ Leave(b, Returning(b, FALSE, None), 0, 0, 0, 0)
    /\ UNCHANGED <<seen, replies>>

\* A scheme siege does not speak or an empty page (not a word in the statistics), an
\* FTP server that refuses the login or the data connection (a failure), 418 for what
\* is no HTTP server (a hit and a failure).
Useless(b) ==
    /\ Sends(b) /\ Answered
    /\ \E count \in {<<0, 0>>, <<0, 1>>, <<1, 1>>} :
         Leave(b, Returning(b, FALSE, None), count[1], 0, count[2], 0)
    /\ UNCHANGED seen

\* A transfer, complete or not as long as the server said: a hit either way.
FtpReply(b) ==
    /\ Sends(b) /\ Answered
    /\ \E good \in {0, 1} : Leave(b, Returning(b, TRUE, None), 1, good, 1 - good, 0)
    /\ UNCHANGED seen

Found(local, parts) == [local EXCEPT !.parts = @ + parts]

\* A page, with what the parser found in it; a META refresh is followed.
Page(b) ==
    /\ Sends(b) /\ Answered
    /\ \E found \in 0 .. MaxParts :
         \/ Classified(b, Found(Returning(b, TRUE, 200), found), 1, 200)
         \/ Classified(b, Found(Requesting(b, "redirect"), found), 0, 200)
    /\ UNCHANGED seen

\* 201 (a page too), 301, 302, 303 and 307, followed or not.
Location(b) ==
    /\ Sends(b) /\ Answered
    /\ \E found \in 0 .. MaxParts :
         \/ Classified(b, Found(Returning(b, TRUE, 301), found), 1, 301)
         \/ Classified(b, Found(Requesting(b, "redirect"), found), 0, 301)
    /\ UNCHANGED seen

\* The errors that call for nothing, and those that count as failures of the request:
\* 408 and the 500s.
ClientErrorMissed == 0                                    \* mutant: hits++ skipped
ClientErrorHit == 1
ClientError(b) ==
    /\ Sends(b) /\ Answered
    /\ Classified(b, Returning(b, TRUE, 404), ClientErrorHit, 404)
    /\ UNCHANGED seen

ServerError(b) ==
    /\ Sends(b) /\ Answered
    /\ Classified(b, Returning(b, FALSE, 500), 0, 500)
    /\ UNCHANGED seen

\* A challenge (401, or 407 from a proxy) counts as a success.  It is answered until the
\* bids are spent, unless there are no credentials for the realm.  The bids for a proxy
\* are those of the whole siege: no request sets them back.
MayBidOff(bids) == bids < Bids                            \* mutant: bids not less one
MayBid(bids) == bids < Bids - 1
Challenge(b, code, bids, answers) ==
    LET bidding(local) == [local EXCEPT ![bids] = @ + 1] IN
    /\ Sends(b) /\ Answered
    /\ \/ /\ MayBid(at[b][bids])
          /\ Classified(b, bidding(Requesting(b, "answer")), 0, code)
          /\ seen' = [seen EXCEPT ![b][answers] = @ + 1]
       \/ /\ MayBid(at[b][bids])
          /\ Classified(b, bidding(Returning(b, FALSE, code)), 0, code)
          /\ UNCHANGED seen
       \/ /\ ~MayBid(at[b][bids])
          /\ Classified(b, bidding(Returning(b, TRUE, code)), 1, code)
          /\ UNCHANGED seen

ServerChallenge(b) == Challenge(b, 401, "www", "answers")
ProxyChallenge(b) == Challenge(b, 407, "proxy", "proxied")

\* 403: a failure, and the logins of my.aurl are tried.
Forbidden(b) ==
    /\ Sends(b) /\ Answered
    /\ Classified(b, [at[b] EXCEPT !.pc = "logins", !.code = 403], 0, 403)
    /\ UNCHANGED seen

Exchange(b) == \/ SocketFails(b) \/ Useless(b) \/ FtpReply(b) \/ Page(b) \/ Location(b)
               \/ ClientError(b) \/ ServerError(b) \/ ServerChallenge(b)
               \/ ProxyChallenge(b) \/ Forbidden(b)

Top(b) == Last(at[b].stack)
PassedOverNot(stack) == stack                             \* mutant: the loop does not move on
PassedOverTwice(stack) == [stack EXCEPT ![Len(stack)].i = @ + 2]   \* mutant: i++ twice
PassedOver(stack) == [stack EXCEPT ![Len(stack)].i = @ + 1]

\* 403: the next of my.aurl that is a URL of this host, until none is left.
Login(b) ==
    /\ At(b, "logins")
    /\ IF Top(b).i < AuthUrls
       THEN \/ at' = [at EXCEPT ![b] = Requesting(b, "site")]
            \/ at' = [at EXCEPT ![b].stack = PassedOver(@)]
       ELSE at' = [at EXCEPT ![b] = Returning(b, FALSE, 403)]
    /\ UNCHANGED <<my, failed, cancelled, stats, seen, replies>>

-----------------------------------------------------------------------------
(* A request returns to whoever made it.                                   *)

Caller(b) == Front(at[b].stack)

\* start() after a request of its own: a failure is counted, under my.lock.
BackInStart(b) ==
    /\ Top(b).why \in {"login", "page", "part"}
    /\ LET mine == Top(b).why # "login" IN
       /\ at' = [at EXCEPT ![b].pc = IF mine THEN "parts" ELSE "head", ![b].stack = Caller(b),
                          ![b].ret = FALSE, ![b].code = None]
       /\ failed' = failed + One(mine /\ ~at[b].ret)
       /\ seen' = [seen EXCEPT ![b].tops = @ + One(mine), ![b].answers = 0]
    /\ UNCHANGED stats

\* A request that needed another one shares its fate, and is a hit as well.
BackInRequest(b) ==
    /\ Top(b).why \in {"redirect", "answer"}
    /\ at' = [at EXCEPT ![b].stack = Caller(b)]
    /\ stats' = [stats EXCEPT ![b].hits = @ + One(at[b].ret)]
    /\ UNCHANGED <<failed, seen>>

\* After a login the forbidden URL is asked for again; after a failed one the
\* next login is tried.
BackFromLogin(b) ==
    /\ Top(b).why = "site"
    /\ at' = IF at[b].ret
             THEN [at EXCEPT ![b].pc = "send", ![b].stack = Append(Caller(b), Frame("again"))]
             ELSE [at EXCEPT ![b].pc = "logins", ![b].stack = PassedOver(Caller(b))]
    /\ UNCHANGED <<failed, stats, seen>>

\* The second answer for a forbidden URL is the answer for the first.
BackFromAgain(b) ==
    /\ Top(b).why = "again"
    /\ at' = [at EXCEPT ![b].stack = Caller(b)]
    /\ UNCHANGED <<failed, stats, seen>>

Back(b) ==
    /\ At(b, "return")
    /\ BackInStart(b) \/ BackInRequest(b) \/ BackFromLogin(b) \/ BackFromAgain(b)
    /\ UNCHANGED <<my, cancelled, replies>>

-----------------------------------------------------------------------------
\* crew_cancel reaches the browser's thread.
Cancel(b) ==
    /\ ~At(b, "done")
    /\ cancelled' = cancelled \cup {b}
    /\ UNCHANGED <<my, failed, at, stats, seen, replies>>

Step(b) == \/ Start(b) \/ NextPass(b) \/ PopPart(b) \/ EndOfPass(b) \/ Finish(b)
          \/ Exchange(b) \/ Login(b) \/ Back(b)

Next == \E b \in Browsers : Step(b) \/ Die(b) \/ Cancel(b)

Spec == Init /\ [][Next]_vars

(***************************************************************************)
(* A browser's thread goes on; one with a pthread_cancel request ends at   *)
(* the next pthread_testcancel, if not before.  Two things are assumed of  *)
(* the servers: an exchange comes to an end (select() in sock.c also       *)
(* returns when a socket can be written to, so that a read() after it      *)
(* waits for as long as the server is silent), and some day a server       *)
(* stops redirecting (MaxReplies), for nothing bounds a chain of them.     *)
(***************************************************************************)
Fairness == \A b \in Browsers : WF_vars(Step(b) \/ Die(b))

FairSpec == Spec /\ Fairness

-----------------------------------------------------------------------------
(* Properties.                                                             *)

\* Where a browser is, its locals and its counters.
BrowserTypeOK ==
    /\ my \in [timed : BOOLEAN, users : 1 .. MaxUsers] /\ failed \in Nat
    /\ cancelled \subseteq Browsers
    /\ \A b \in Browsers :
         /\ at[b].pc \in {"start", "head", "send", "logins", "return", "parts", "done"}
         /\ at[b].x \in 0 .. Reps /\ at[b].parts \in Nat
         /\ at[b].code \in {None, 200, 301, 401, 403, 404, 407, 500}
         /\ at[b].www \in Nat /\ at[b].proxy \in Nat
         /\ \A n \in 1 .. Len(at[b].stack) : at[b].stack[n].i \in 0 .. AuthUrls

\* What the browsers have of something, as main adds it up: one after the other.
Summed(of) ==
    LET sum[n \in 0 .. MaxUsers] == IF n = 0 THEN 0 ELSE sum[n - 1] + of[n] IN sum[MaxUsers]
Total(field) == Summed([b \in Browsers |-> stats[b][field]])

\* The counters are those of what happened.  Every page and every part a browser asked
\* for shows in them, as a hit or in my.failed: Availability leaves no request out of its
\* denominator.  No reply is counted twice, not as two hits however it is redirected, nor
\* as a success and a failure; every hit was classified, and a 200 is a success.
CountedOnce ==
    /\ Summed([b \in Browsers |-> seen[b].tops]) <= Total("hits") + failed
    /\ Total("hits") <= replies
    /\ Total("code") + Total("fail") <= replies
    /\ \A b \in Browsers : /\ stats[b].hits <= stats[b].code + stats[b].fail
                           /\ stats[b].okay <= stats[b].code

\* However challenges, redirects and logins follow one another, a page costs at most
\* my.bids - 1 answers to a server's challenge, and a siege as many to the proxy's.
ChallengesBounded ==
    \A b \in Browsers : seen[b].answers < Bids /\ seen[b].proxied < Bids

\* A browser that neither a signal nor the threshold stopped made its my.reps passes; and
\* once my.failed has reached the threshold a browser begins at most one more: it may have
\* read my.failed just before, without the lock.
RunsItsShare ==
    /\ \A b \in 1 .. my.users :
         At(b, "done") /\ b \notin cancelled /\ ~TooManyFailures /\ ~my.timed
         => seen[b].loops = Reps
    /\ \A b \in Browsers : seen[b].late <= 1

\* A browser comes to its end: by itself when it has a number of passes to make, and
\* soon after a pthread_cancel when it has not.
BrowsersEnd == \A b \in Browsers : (~my.timed \/ b \in cancelled) ~> At(b, "done")
=============================================================================
