------------------------------- MODULE Siege -------------------------------
(***************************************************************************)
(* The life of a siege: main() of main.c, the signal thread of handler.c   *)
(* and the timer thread of timer.c around the crew of crew.c.  Main adds   *)
(* one job per simulated user (browser i is job i), joins the crew, stops  *)
(* the signal thread and the timer, sums up and frees the crew.            *)
(***************************************************************************)
EXTENDS Crew

CONSTANTS Main, Handler,   \* the two clients of the crew
          MaxSignals       \* bound: how many signals the user sends

Users == Size              \* my.cusers: threads, queue slots and jobs

ASSUME SiegeAssumption ==
    /\ Main # Handler /\ Clients = {Main, Handler}
    /\ MaxSize = Users /\ MaxTotal = Users      \* new_crew(my.cusers, my.cusers, FALSE)
    /\ MaxSignals \in Nat

VARIABLES
    mpc,         \* where main is
    i,           \* main's loop variable: browsers given to the crew so far
    timed,       \* my.secs > 0
    hpc,         \* the signal thread: "none", "sigwait", "test", "cancel", "sleep", "gone"
    sigs,        \* pending signals
    gotsig,      \* the signal sigwait returned
    hjoined,     \* main has joined the signal thread
    tpc,         \* the timer: "none", "wait", "fired", "gone"
    tcancelled,  \* main has cancelled the timer
    summed,      \* how many browsers the final statistics add up
    sent         \* how many signals the user sent

mainVars == <<mpc, i, summed>>
handlerVars == <<hpc, gotsig, hjoined>>
timerVars == <<tpc, tcancelled>>
siegeOnly == <<mainVars, timed, handlerVars, sigs, timerVars, sent>>
vars == <<crewVars, siegeOnly>>

SiegeInit ==
    /\ Init /\ block = FALSE
    /\ mpc = "create" /\ i = 0 /\ summed = 0
    /\ timed \in BOOLEAN
    /\ hpc = "none" /\ gotsig = "none" /\ hjoined = FALSE
    /\ sigs = {} /\ sent = 0
    /\ tpc = "none" /\ tcancelled = FALSE

\* NOTIFY(FATAL) prints its message and calls exit.
Fatal == ProcessEnds

At(place) == proc = "up" /\ mpc = place
GoTo(place) == mpc' = place

-----------------------------------------------------------------------------
(* main                                                                    *)

\* "unable to allocate memory for %d simulated browser"
NoCrew == /\ At("create") /\ made = "null"
          /\ Fatal
          /\ UNCHANGED siegeOnly

SpawnHandler ==
    /\ At("create") /\ made = "made"
    /\ \/ /\ hpc' = "sigwait"
          /\ GoTo(IF timed THEN "timer" ELSE "check")
          /\ UNCHANGED crewVars
       \/ /\ Fatal                                 \* pthread_create failed
          /\ UNCHANGED <<hpc, mpc>>
    /\ UNCHANGED <<i, summed, timed, gotsig, hjoined, sigs, timerVars, sent>>

SpawnTimer ==
    /\ At("timer")
    /\ \/ /\ tpc' = "wait"
          /\ GoTo("check")
          /\ UNCHANGED crewVars
       \/ /\ Fatal                                 \* pthread_create failed
          /\ UNCHANGED <<tpc, mpc>>
    /\ UNCHANGED <<i, summed, timed, handlerVars, sigs, tcancelled, sent>>

\* for (i = 0; i < my.cusers && crew_get_shutdown(crew) != TRUE; i++)
CheckLoop ==
    /\ At("check")
    /\ \/ i < Users /\ GetShutdown(Main) /\ GoTo(IF shutdown THEN "join" ELSE "add")
       \/ i = Users /\ GoTo("join") /\ UNCHANGED crewVars
    /\ UNCHANGED <<i, summed, timed, handlerVars, sigs, timerVars, sent>>

AddBrowser ==
    /\ At("add")
    /\ crew_add(Main)
    /\ IF result'[Main] THEN GoTo("check") /\ i' = i + 1
                        ELSE GoTo("refused") /\ UNCHANGED i
    /\ UNCHANGED <<summed, timed, handlerVars, sigs, timerVars, sent>>

\* "Unable to spawn additional threads; ... system resources exhausted"
ResourcesExhausted ==
    /\ At("refused")
    /\ Fatal
    /\ UNCHANGED siegeOnly

Finish == TRUE
JoinCrew ==
    /\ At("join")
    /\ crew_join(Main, Finish)
    /\ GoTo(IF cpc'[Main] = "idle" THEN "signal" ELSE "join")
    /\ UNCHANGED <<i, summed, timed, handlerVars, sigs, timerVars, sent>>

NoSignal == {}                                    \* mutant: the kill is dropped
MainSignal == {"TERM"}
\* pthread_kill(cease, SIGTERM); a handler that ended is ESRCH or no effect.
SignalHandler ==
    /\ At("signal")
    /\ sigs' = IF hpc = "gone" THEN sigs ELSE sigs \cup MainSignal
    /\ GoTo("joinHandler")
    /\ UNCHANGED <<crewVars, i, summed, timed, handlerVars, timerVars, sent>>

HandlerEndedUnchecked == TRUE                     \* mutant: the join is dropped
HandlerEnded == hpc = "gone"

JoinHandler ==
    /\ At("joinHandler") /\ HandlerEnded
    /\ hjoined' = TRUE
    /\ GoTo(IF timed THEN "cancelTimer" ELSE "sum")
    /\ UNCHANGED <<crewVars, i, summed, timed, hpc, gotsig, sigs, timerVars, sent>>

CancelTimer ==
    /\ At("cancelTimer")
    /\ tcancelled' = TRUE
    /\ GoTo("joinTimer")
    /\ UNCHANGED <<crewVars, i, summed, timed, handlerVars, sigs, tpc, sent>>

JoinTimer ==
    /\ At("joinTimer") /\ tpc = "gone"
    /\ GoTo("sum")
    /\ UNCHANGED <<crewVars, i, summed, timed, handlerVars, sigs, timerVars, sent>>

\* How many browsers' counters go into the statistics.
SummedQueue == cursize                            \* mutant: the wrong counter of the crew
Summed == IF total > Users \/ total = 0 THEN Users ELSE total

SumUp ==
    /\ At("sum")
    /\ summed' = Summed
    /\ crew_destroy
    /\ GoTo("exit")
    /\ UNCHANGED <<i, timed, handlerVars, sigs, timerVars, sent>>

MainStep == \/ NoCrew \/ SpawnHandler \/ SpawnTimer \/ CheckLoop \/ AddBrowser
            \/ ResourcesExhausted \/ JoinCrew \/ SignalHandler \/ JoinHandler
            \/ CancelTimer \/ JoinTimer \/ SumUp

-----------------------------------------------------------------------------
(* sig_handler: one signal, then it is gone.                               *)

SigWait ==
    /\ proc = "up" /\ hpc = "sigwait"
    /\ \E s \in sigs : gotsig' = s /\ sigs' = sigs \ {s}
    /\ hpc' = "test"
    /\ UNCHANGED <<crewVars, mainVars, timed, hjoined, timerVars, sent>>

\* gotsig == SIGTERM && my.secs <= 0 && crew_get_shutdown(crew) == TRUE: main's
\* own SIGTERM at the end of a siege that is not timed.
FromMain == gotsig = "TERM" /\ ~timed
TestSignal ==
    /\ proc = "up" /\ hpc = "test"
    /\ \/ FromMain /\ GetShutdown(Handler) /\ hpc' = (IF shutdown THEN "gone" ELSE "cancel")
       \/ ~FromMain /\ hpc' = "cancel" /\ UNCHANGED crewVars
    /\ UNCHANGED <<mainVars, timed, gotsig, hjoined, sigs, timerVars, sent>>

CancelCrew ==
    /\ proc = "up" /\ hpc = "cancel"
    /\ crew_cancel(Handler)
    /\ hpc' = IF cpc'[Handler] = "idle" THEN "sleep" ELSE "cancel"
    /\ UNCHANGED <<mainVars, timed, gotsig, hjoined, sigs, timerVars, sent>>

\* pthread_usleep_np(501125); return
HandlerReturns ==
    /\ proc = "up" /\ hpc = "sleep"
    /\ hpc' = "gone"
    /\ UNCHANGED <<crewVars, mainVars, timed, gotsig, hjoined, sigs, timerVars, sent>>

HandlerStep == SigWait \/ TestSignal \/ CancelCrew \/ HandlerReturns

-----------------------------------------------------------------------------
(* siege_timer                                                             *)

\* pthread_cond_timedwait times out.
TimerFires ==
    /\ proc = "up" /\ tpc = "wait"
    /\ tpc' = "fired"
    /\ UNCHANGED <<crewVars, mainVars, timed, handlerVars, sigs, tcancelled, sent>>

\* pthread_kill(handler, SIGTERM).  A joined handler's id is dead, as in CancelOne.
TimerSignals ==
    /\ proc = "up" /\ tpc = "fired"
    /\ sigs' = IF hpc = "gone" THEN sigs ELSE sigs \cup {"TERM"}
    /\ \/ UNCHANGED crewVars
       \/ hjoined /\ ProcessEnds
    /\ tpc' = "gone"
    /\ UNCHANGED <<mainVars, timed, handlerVars, tcancelled, sent>>

\* The wait is the timer's cancellation point.
TimerDies ==
    /\ proc = "up" /\ tpc = "wait" /\ tcancelled
    /\ tpc' = "gone"
    /\ UNCHANGED <<crewVars, mainVars, timed, handlerVars, sigs, tcancelled, sent>>

TimerStep == TimerFires \/ TimerSignals \/ TimerDies

-----------------------------------------------------------------------------
\* HUP, INT and TERM are blocked in every thread: they wait for sigwait.
UserSignal ==
    /\ proc = "up" /\ mpc # "exit" /\ sent < MaxSignals
    /\ \E s \in {"HUP", "INT", "TERM"} : sigs' = sigs \cup {s}
    /\ sent' = sent + 1
    /\ UNCHANGED <<crewVars, mainVars, timed, handlerVars, timerVars>>

CrewStep == /\ \/ \E w \in Workers : CreateThread(w) \/ WorkerStep(w)
               \/ SpuriousWakeup
            /\ UNCHANGED siegeOnly

SiegeNext == MainStep \/ HandlerStep \/ TimerStep \/ UserSignal \/ CrewStep

SiegeSpec == SiegeInit /\ [][SiegeNext]_vars

(***************************************************************************)
(* Threads and clocks move on.  What the code does not promise is not      *)
(* assumed: the user need not signal, main's wait for the queue need not   *)
(* time out, and in a timed siege (start() resets its loop counter) a      *)
(* browser need not return before it is cancelled.                         *)
(***************************************************************************)
SiegeFairness ==
    /\ WF_vars(MainStep /\ (mpc = "join" => proc' = "up"))
    /\ WF_vars(HandlerStep)
    /\ WF_vars(TimerStep)
    /\ \A w \in Workers :
        /\ WF_vars((CreateThread(w) \/ LoopStep(w)) /\ UNCHANGED siegeOnly)
        /\ WF_vars((DieRunning(w) \/ (~timed /\ Return(w))) /\ UNCHANGED siegeOnly)

FairSiege == SiegeSpec /\ SiegeFairness

-----------------------------------------------------------------------------
(* Properties.                                                             *)

\* Where the three threads outside the crew can be; and crew_add refuses a browser only
\* when a signal or the timer has shut the crew down.
SiegeTypeOK ==
    /\ mpc \in {"create", "timer", "check", "add", "refused", "join", "signal",
               "joinHandler", "cancelTimer", "joinTimer", "sum", "exit"}
    /\ hpc \in {"none", "sigwait", "test", "cancel", "sleep", "gone"}
    /\ tpc \in {"none", "wait", "fired", "gone"}
    /\ sigs \subseteq {"HUP", "INT", "TERM"} /\ gotsig \in {"none", "HUP", "INT", "TERM"}
    /\ timed \in BOOLEAN /\ hjoined \in BOOLEAN /\ tcancelled \in BOOLEAN
    /\ i \in 0 .. Users /\ summed \in 0 .. Users /\ sent \in 0 .. MaxSignals
    /\ mpc = "refused" => aborted

\* Main and the signal thread use the crew as its contract asks: property Spec of
\* module Crew, crew_destroy only after the last call of either.

\* The crew is freed, and the browsers' counters are read, only when no worker runs
\* and neither the signal thread nor the timer can touch the crew again.
CrewOutlivesItsUsers ==
    freed => /\ \A w \in Workers : wpc[w] = "exit"
             /\ hpc = "gone" /\ cpc[Handler] = "idle"
             /\ tpc \in {"none", "gone"}

\* A siege that nothing interrupted has run every browser to its end when main leaves
\* crew_join; and the statistics cover every browser a worker ran, and no slot beyond the
\* array.
AllRunAndCounted ==
    /\ mpc = "signal" /\ ~aborted => finished = 1 .. Users
    /\ mpc = "exit" => \A k \in 1 .. Handed : k <= summed

\* The siege ends: in its own time with --reps, by the timer with --time; unless
\* crew->lock was lost to a worker cancelled in its wait.
SiegeEnds == <>(mpc = "exit" \/ Lost)

\* ChangeLog:16, "crew_set_shutdown correctly shuts down in sigint": a siege that a
\* signal interrupted ends.
InterruptEnds == aborted ~> (mpc = "exit" \/ proc # "up")
=============================================================================
