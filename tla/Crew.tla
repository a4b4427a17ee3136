-------------------------------- MODULE Crew --------------------------------
(***************************************************************************)
(* crew.c: the pool of threads that runs siege's simulated browsers.       *)
(*                                                                         *)
(* Everything between pthread_mutex_lock and the next unlock, condition    *)
(* wait or thread exit touches only data the mutex guards, so it is one    *)
(* step.  Between steps the mutex is free, except when a thread died in    *)
(* pthread_cond_wait: cancellation reacquires the mutex, crew_thread has   *)
(* no cleanup handler to release it, and nobody ever can again.            *)
(*                                                                         *)
(* Jobs (struct WORK) are named by the order in which crew_add took them.  *)
(***************************************************************************)
EXTENDS Integers, Sequences, FiniteSets

CONSTANTS Size,       \* crew->size, the number of threads
          MaxSize,    \* crew->maxsize, the capacity of the queue
          Clients,    \* the threads that call crew_add, crew_join, crew_cancel
          MaxTotal    \* bound: how many jobs the clients submit

ASSUME CrewAssumption ==
    /\ Size \in Nat \ {0}
    /\ MaxSize \in Nat \ {0}
    /\ MaxTotal \in Nat

Workers == 1 .. Size
Free == 0             \* the value of mutex when no thread holds it

VARIABLES
    \* fields of struct CREW_T
    queue,            \* the list head .. tail
    cursize, total, block, closed, shutdown,
    mutex,            \* Free, or the worker that died holding crew->lock
    notEmpty,         \* workers asleep on crew->not_empty
    notFull,          \* clients asleep on crew->not_full
    empty,            \* clients asleep on crew->empty
    made,             \* new_crew: "creating", "made", or "null" when it failed
    freed,            \* crew_destroy released the struct
    \* the worker threads
    wpc,              \* "unborn", "lock", "wait", "run" or "exit"
    work,             \* the job a worker runs, 0 for none
    cancelled,        \* workers with a pthread_cancel request
    joined,           \* workers whose id pthread_join released
    \* the client threads
    cpc,              \* "idle", or the call it is in
    cx,               \* index x of the loop over crew->threads
    result,           \* what its last call returned
    proc,             \* the process: "up", or "down" after NOTIFY(FATAL) or a crash
    \* history
    started,          \* jobs in the order they were dequeued
    finished,         \* jobs whose routine returned
    drain,            \* the finish argument of the crew_join that closed the crew
    aborted           \* crew_cancel was called

queueVars == <<queue, cursize, total, block>>
condVars  == <<notEmpty, notFull, empty>>
threadVars == <<wpc, work, cancelled, joined>>
clientVars == <<cpc, cx, result>>
history   == <<started, finished, drain, aborted>>
crewVars == <<queueVars, closed, shutdown, mutex, condVars, made, freed,
              threadVars, clientVars, proc, history>>

Init ==
    /\ queue = << >> /\ cursize = 0 /\ total = 0
    /\ block \in BOOLEAN
    /\ closed = FALSE /\ shutdown = FALSE /\ mutex = Free
    /\ notEmpty = {} /\ notFull = {} /\ empty = {}
    /\ made = "creating" /\ freed = FALSE
    /\ wpc = [w \in Workers |-> "unborn"]
    /\ work = [w \in Workers |-> 0]
    /\ cancelled = {} /\ joined = {}
    /\ cpc = [c \in Clients |-> "idle"]
    /\ cx = [c \in Clients |-> 0]
    /\ result = [c \in Clients |-> TRUE]
    /\ proc = "up"
    /\ started = << >> /\ finished = {} /\ drain = FALSE /\ aborted = FALSE

-----------------------------------------------------------------------------
(* new_crew: the threads are created one by one and run at once.           *)

CreateThread(w) ==
    /\ proc = "up" /\ made = "creating"
    /\ wpc[w] = "unborn"
    /\ \A v \in Workers : v < w => wpc[v] # "unborn"
    /\ \/ /\ wpc' = [wpc EXCEPT ![w] = "lock"]
          /\ made' = IF w = Size THEN "made" ELSE made
       \/ /\ made' = "null"                     \* pthread_create failed
          /\ UNCHANGED wpc
    /\ UNCHANGED <<queueVars, closed, shutdown, mutex, condVars, freed, work,
                   cancelled, joined, clientVars, proc, history>>

-----------------------------------------------------------------------------
(* crew_thread.                                                            *)

\* Worker w holds the mutex at the head of its wait loop: it has just locked
\* it, or it was woken and pthread_cond_wait has reacquired it.
AtLoop(w) ==
    /\ proc = "up" /\ mutex = Free
    /\ \/ wpc[w] = "lock"
       \/ wpc[w] = "wait" /\ w \notin notEmpty

\* The tests of the loop: a job to take, or a shutdown to leave for.
HasWorkUnchecked == cursize # 0                           \* mutant: shutdown forgotten
HasWork == cursize # 0 /\ ~shutdown
MayExitDrained == shutdown /\ cursize = 0                 \* mutant: drains the queue first
MayExit == shutdown

Sleep(w) ==
    /\ AtLoop(w)
    /\ cursize = 0 /\ ~shutdown
    /\ wpc' = [wpc EXCEPT ![w] = "wait"]
    /\ notEmpty' = notEmpty \cup {w}
    /\ UNCHANGED <<queueVars, closed, shutdown, mutex, notFull, empty, made, freed,
                   work, cancelled, joined, clientVars, proc, history>>

Exit(w) ==
    /\ AtLoop(w)
    /\ MayExit
    /\ wpc' = [wpc EXCEPT ![w] = "exit"]
    /\ UNCHANGED <<queueVars, closed, shutdown, mutex, condVars, made, freed,
                   work, cancelled, joined, clientVars, proc, history>>

\* What pthread_cond_signal can leave of a set of sleepers.
Signalled(sleepers) ==
    IF sleepers = {} THEN {{}} ELSE {sleepers \ {t} : t \in sleepers}

\* Unlinking the head of the list.
Dequeued(q) == Tail(q)

\* Who still sleeps on not_full once a job is taken.
FullAfterTake == IF block /\ cursize - 1 = MaxSize - 1 THEN {} ELSE notFull

Take(w) ==
    /\ AtLoop(w)
    /\ HasWork
    /\ wpc' = [wpc EXCEPT ![w] = "run"]
    /\ work' = [work EXCEPT ![w] = Head(queue)]
    /\ queue' = Dequeued(queue)
    /\ cursize' = cursize - 1
    /\ notFull' = FullAfterTake
    /\ empty' \in IF cursize' = 0 THEN Signalled(empty) ELSE {empty}
    /\ started' = Append(started, Head(queue))
    /\ UNCHANGED <<total, block, closed, shutdown, mutex, notEmpty, made, freed,
                   cancelled, joined, clientVars, proc, finished, drain, aborted>>

\* The routine returns; the worker goes back for the mutex.
Return(w) ==
    /\ proc = "up"
    /\ wpc[w] = "run"
    /\ wpc' = [wpc EXCEPT ![w] = "lock"]
    /\ work' = [work EXCEPT ![w] = 0]
    /\ finished' = finished \cup {work[w]}
    /\ UNCHANGED <<queueVars, closed, shutdown, mutex, condVars, made, freed,
                   cancelled, joined, clientVars, proc, started, drain, aborted>>

\* A cancelled worker reaches a cancellation point inside its routine.
DieRunning(w) ==
    /\ proc = "up"
    /\ wpc[w] = "run" /\ w \in cancelled
    /\ wpc' = [wpc EXCEPT ![w] = "exit"]
    /\ work' = [work EXCEPT ![w] = 0]
    /\ UNCHANGED <<queueVars, closed, shutdown, mutex, condVars, made, freed,
                   cancelled, joined, clientVars, proc, history>>

\* A cancelled worker acts on the request inside pthread_cond_wait, which
\* first reacquires the mutex: the thread ends and the mutex stays locked.
DieWaiting(w) ==
    /\ proc = "up" /\ mutex = Free
    /\ wpc[w] = "wait" /\ w \in cancelled
    /\ wpc' = [wpc EXCEPT ![w] = "exit"]
    /\ notEmpty' = notEmpty \ {w}
    /\ mutex' = w
    /\ UNCHANGED <<queueVars, closed, shutdown, notFull, empty, made, freed,
                   work, cancelled, joined, clientVars, proc, history>>

-----------------------------------------------------------------------------
(* The calls of the clients.  A client is in one call at a time, and only  *)
(* between new_crew and crew_destroy.                                      *)

Enters(c) == proc = "up" /\ made = "made" /\ ~freed /\ cpc[c] = "idle"

Returns(c, value) == /\ cpc' = [cpc EXCEPT ![c] = "idle"]
                     /\ result' = [result EXCEPT ![c] = value]

Adders == {c \in Clients : cpc[c] = "adding"}

FullEarly == cursize >= MaxSize - 1                       \* mutant: one slot is wasted
Full == cursize = MaxSize

\* crew_add, first look at the queue.
AddEnters(c) == /\ Enters(c) /\ mutex = Free
                /\ total + Cardinality(Adders) < MaxTotal
                /\ ~(Full /\ ~block)

\* crew_add, back from pthread_cond_wait on not_full.
AddWakes(c) == /\ proc = "up" /\ mutex = Free
               /\ cpc[c] = "adding" /\ c \notin notFull

\* A crew that does not block refuses a job when its queue is full.
AddFull(c) ==
    /\ Enters(c) /\ mutex = Free
    /\ Full /\ ~block
    /\ Returns(c, FALSE)
    /\ UNCHANGED <<queueVars, closed, shutdown, mutex, condVars, made, freed,
                   threadVars, cx, proc, history>>

AddSleeps(c) ==
    /\ AddEnters(c) \/ AddWakes(c)
    /\ Full /\ ~(shutdown \/ closed)
    /\ cpc' = [cpc EXCEPT ![c] = "adding"]
    /\ notFull' = notFull \cup {c}
    /\ UNCHANGED <<queueVars, closed, shutdown, mutex, notEmpty, empty, made, freed,
                   threadVars, cx, result, proc, history>>

AddRefused(c) ==
    /\ AddEnters(c) \/ AddWakes(c)
    /\ shutdown \/ closed
    /\ Returns(c, FALSE)
    /\ UNCHANGED <<queueVars, closed, shutdown, mutex, condVars, made, freed,
                   threadVars, cx, proc, history>>

\* Linking a job behind the tail of the list.
EnqueuedAtHead(q, job) == <<job>> \o q                    \* mutant: linked before the head
Enqueued(q, job) == Append(q, job)

\* Who still sleeps on not_empty once a job is added.
EmptyAfterAddLate == IF cursize = 1 THEN {} ELSE notEmpty \* mutant: tested after cursize++
EmptyAfterAdd == IF cursize = 0 THEN {} ELSE notEmpty

AddAccepted(c) ==
    /\ AddEnters(c) \/ AddWakes(c)
    /\ ~Full /\ ~(shutdown \/ closed)
    /\ queue' = Enqueued(queue, total + 1)
    /\ notEmpty' = EmptyAfterAdd
    /\ cursize' = cursize + 1
    /\ total' = total + 1
    /\ Returns(c, TRUE)
    /\ UNCHANGED <<block, closed, shutdown, mutex, notFull, empty, made, freed,
                   threadVars, cx, proc, history>>

WakeAll == notEmpty' = {} /\ notFull' = {} /\ empty' = {}
SetShutdownLost(value) == shutdown' = shutdown /\ WakeAll  \* mutant: the flag is not set
crew_set_shutdown(value) == shutdown' = value /\ WakeAll

\* crew_cancel, the call of crew_set_shutdown(TRUE).
CancelEnters(c) ==
    /\ Enters(c) /\ mutex = Free
    /\ crew_set_shutdown(TRUE)
    /\ cpc' = [cpc EXCEPT ![c] = "cancelling"]
    /\ cx' = [cx EXCEPT ![c] = 1]
    /\ aborted' = TRUE
    /\ UNCHANGED <<queueVars, closed, mutex, made, freed, threadVars, result,
                   proc, started, finished, drain>>

\* Client c is done with crew->threads[cx[c]]: it goes on to the next one, or
\* its call returns TRUE.
LastThread(c) == cx[c] = Size
NextThread(c) ==
    /\ cx' = [cx EXCEPT ![c] = @ + 1]
    /\ IF LastThread(c) THEN Returns(c, TRUE) ELSE UNCHANGED <<cpc, result>>

\* crew_cancel, pthread_cancel of one thread, outside the mutex.  The id of a
\* joined thread is dead: the call finds no thread, or reads freed memory.
CancelOne(c) ==
    /\ proc = "up" /\ cpc[c] = "cancelling"
    /\ \/ /\ cx[c] \notin joined
          /\ cancelled' = cancelled \cup {cx[c]}
          /\ UNCHANGED proc
       \/ /\ cx[c] \in joined
          /\ proc' \in {"up", "down"}
          /\ UNCHANGED cancelled
    /\ NextThread(c)
    /\ UNCHANGED <<queueVars, closed, shutdown, mutex, condVars, made, freed,
                   wpc, work, joined, history>>

\* crew_join on a crew that is already closed.
JoinRefused(c) ==
    /\ Enters(c) /\ mutex = Free
    /\ closed
    /\ Returns(c, FALSE)
    /\ UNCHANGED <<queueVars, closed, shutdown, mutex, condVars, made, freed,
                   threadVars, cx, proc, history>>

\* crew_join, the step that sets closed; with finish it waits for the queue to
\* run empty.
JoinWaits(c) ==
    /\ Enters(c) /\ mutex = Free
    /\ ~closed /\ cursize # 0 /\ ~shutdown
    /\ closed' = TRUE /\ drain' = TRUE
    /\ cpc' = [cpc EXCEPT ![c] = "draining"]
    /\ empty' = empty \cup {c}
    /\ UNCHANGED <<queueVars, shutdown, mutex, notEmpty, notFull, made, freed,
                   threadVars, cx, result, proc, started, finished, aborted>>

\* crew_join sets shutdown, wakes the sleepers and starts to join the threads.
ShutDown(c) ==
    /\ shutdown' = TRUE
    /\ notEmpty' = {} /\ notFull' = {}
    /\ cpc' = [cpc EXCEPT ![c] = "joining"]
    /\ cx' = [cx EXCEPT ![c] = 1]

MayCloseAtOnce(finish) == TRUE                            \* mutant: finish ignored
MayClose(finish) == finish => cursize = 0 \/ shutdown
JoinCloses(c, finish) ==
    /\ Enters(c) /\ mutex = Free
    /\ ~closed
    /\ MayClose(finish)
    /\ closed' = TRUE /\ drain' = finish
    /\ ShutDown(c)
    /\ UNCHANGED <<queueVars, mutex, empty, made, freed, threadVars, result,
                   proc, started, finished, aborted>>

\* crew_join, back from pthread_cond_timedwait on empty.
JoinDrained(c) ==
    /\ proc = "up" /\ mutex = Free
    /\ cpc[c] = "draining" /\ c \notin empty
    /\ cursize = 0 \/ shutdown
    /\ ShutDown(c)
    /\ UNCHANGED <<queueVars, closed, mutex, empty, made, freed, threadVars,
                   result, proc, history>>

JoinWaitsAgain(c) ==
    /\ proc = "up" /\ mutex = Free
    /\ cpc[c] = "draining" /\ c \notin empty
    /\ cursize # 0 /\ ~shutdown
    /\ empty' = empty \cup {c}
    /\ UNCHANGED <<queueVars, closed, shutdown, mutex, notEmpty, notFull, made, freed,
                   threadVars, clientVars, proc, history>>

\* Sixty seconds without the signal: NOTIFY(FATAL) ends the process.
JoinTimesOut(c) ==
    /\ proc = "up" /\ mutex = Free
    /\ cpc[c] = "draining" /\ c \in empty
    /\ empty' = empty \ {c}
    /\ proc' = "down"
    /\ UNCHANGED <<queueVars, closed, shutdown, mutex, notEmpty, notFull, made, freed,
                   threadVars, clientVars, history>>

\* crew_join, pthread_join of one thread.
JoinOne(c) ==
    /\ proc = "up" /\ cpc[c] = "joining"
    /\ wpc[cx[c]] = "exit"
    /\ joined' = joined \cup {cx[c]}
    /\ NextThread(c)
    /\ UNCHANGED <<queueVars, closed, shutdown, mutex, condVars, made, freed,
                   wpc, work, cancelled, proc, history>>

\* crew_destroy checks nothing: it frees the threads, the list and the struct.
crew_destroy ==
    /\ freed' = TRUE
    /\ UNCHANGED <<queueVars, closed, shutdown, mutex, condVars, made, threadVars,
                   clientVars, proc, history>>

\* What its caller has to see to: the threads are joined, so none of them runs,
\* and nobody is in a call.
Destroy(c) ==
    /\ Enters(c)
    /\ joined = Workers
    /\ \A d \in Clients : cpc[d] = "idle"
    /\ crew_destroy

\* crew_get_shutdown reads the flag under the mutex.
GetShutdown(c) ==
    /\ Enters(c) /\ mutex = Free
    /\ Returns(c, shutdown)
    /\ UNCHANGED <<queueVars, closed, shutdown, mutex, condVars, made, freed,
                   threadVars, cx, proc, history>>

\* POSIX lets a condition wait return without a signal.
SpuriousWakeup ==
    /\ proc = "up"
    /\ \/ /\ \E w \in notEmpty : notEmpty' = notEmpty \ {w}
          /\ UNCHANGED <<notFull, empty>>
       \/ /\ \E c \in notFull : notFull' = notFull \ {c}
          /\ UNCHANGED <<notEmpty, empty>>
       \/ /\ \E c \in empty : empty' = empty \ {c}
          /\ UNCHANGED <<notEmpty, notFull>>
    /\ UNCHANGED <<queueVars, closed, shutdown, mutex, made, freed, threadVars,
                   clientVars, proc, history>>

\* The program around the crew may exit, or fail, at any time.
ProcessEnds ==
    /\ proc = "up" /\ proc' = "down"
    /\ UNCHANGED <<queueVars, closed, shutdown, mutex, condVars, made, freed,
                   threadVars, clientVars, history>>

-----------------------------------------------------------------------------
LoopStep(w) == Sleep(w) \/ Exit(w) \/ Take(w)
WorkerStep(w) == LoopStep(w) \/ Return(w) \/ DieRunning(w) \/ DieWaiting(w)

crew_add(c) == AddFull(c) \/ AddSleeps(c) \/ AddRefused(c) \/ AddAccepted(c)
crew_cancel(c) == CancelEnters(c) \/ CancelOne(c)
crew_join(c, finish) ==
    \/ JoinRefused(c) \/ JoinCloses(c, finish)
    \/ finish /\ JoinWaits(c)
    \/ JoinDrained(c) \/ JoinWaitsAgain(c) \/ JoinTimesOut(c) \/ JoinOne(c)

ClientStep(c) == \/ crew_add(c) \/ crew_cancel(c) \/ GetShutdown(c) \/ Destroy(c)
                 \/ \E finish \in BOOLEAN : crew_join(c, finish)

Next == \/ \E w \in Workers : CreateThread(w) \/ WorkerStep(w)
        \/ \E c \in Clients : ClientStep(c)
        \/ SpuriousWakeup
        \/ ProcessEnds

Spec == Init /\ [][Next]_crewVars

(***************************************************************************)
(* Every thread gets the processor, a mutex that is free goes to whoever   *)
(* keeps asking for it, and a routine ends or reaches the cancellation     *)
(* point that ends it.  Callers need not call, nor waits time out.         *)
(***************************************************************************)
Fairness ==
    /\ \A w \in Workers : /\ WF_crewVars(CreateThread(w))
                          /\ WF_crewVars(LoopStep(w))
                          /\ WF_crewVars(Return(w) \/ DieRunning(w))
    /\ \A c \in Clients : /\ WF_crewVars(AddWakes(c) /\ crew_add(c))
                          /\ WF_crewVars(CancelOne(c))
                          /\ WF_crewVars(JoinDrained(c) \/ JoinWaitsAgain(c) \/ JoinOne(c))

FairSpec == Spec /\ Fairness
-----------------------------------------------------------------------------
(* Properties.                                                             *)

\* The values the fields of CREW_T and the threads' program counters take.
TypeOK ==
    /\ queue \in Seq(Nat) /\ cursize \in Nat /\ total \in Nat
    /\ block \in BOOLEAN /\ closed \in BOOLEAN /\ shutdown \in BOOLEAN
    /\ mutex \in {Free} \cup Workers
    /\ notEmpty \subseteq Workers /\ notFull \subseteq Clients /\ empty \subseteq Clients
    /\ made \in {"creating", "made", "null"} /\ freed \in BOOLEAN
    /\ wpc \in [Workers -> {"unborn", "lock", "wait", "run", "exit"}]
    /\ work \in [Workers -> Nat]
    /\ cancelled \subseteq Workers /\ joined \subseteq Workers
    /\ cpc \in [Clients -> {"idle", "adding", "cancelling", "draining", "joining"}]
    /\ cx \in [Clients -> Nat] /\ result \in [Clients -> BOOLEAN]
    /\ proc \in {"up", "down"}
    /\ started \in Seq(Nat) /\ finished \subseteq Nat
    /\ drain \in BOOLEAN /\ aborted \in BOOLEAN

\* How many jobs were dequeued.
Handed == total - cursize

\* The list, its counter cursize and what the workers dequeued agree: jobs leave
\* in the order crew_add took them, none is lost between head and tail and none
\* leaves twice, however workers and clients interleave.
FirstInFirstOut ==
    /\ cursize \in 0 .. MaxSize /\ cursize <= total
    /\ queue = [i \in 1 .. cursize |-> Handed + i]
    /\ started = [i \in 1 .. Handed |-> i]

\* A job is in the hands of one worker, and a job that returned is in nobody's:
\* no browser is driven by two threads.
OneWorkerPerJob ==
    /\ \A w \in Workers : work[w] <= Handed /\ (work[w] # 0 <=> wpc[w] = "run")
    /\ \A v, w \in Workers : v # w /\ work[v] # 0 => work[v] # work[w]
    /\ \A w \in Workers : work[w] \notin finished
    /\ finished \subseteq 1 .. Handed

\* Every job is served once, in the order of the calls: both of the above.
ServedOnce == FirstInFirstOut /\ OneWorkerPerJob

\* No thread is asleep on a condition that already holds: crew_thread and
\* crew_add signal only at the edges (queue was empty, queue was full, queue
\* became empty), which is enough whatever the order of the threads.
NoLostWakeup ==
    /\ notEmpty # {} => cursize = 0 /\ ~shutdown
    /\ notFull # {} => block /\ cursize = MaxSize /\ ~shutdown
    /\ empty # {} => cursize # 0 /\ ~shutdown

\* crew_join released every thread.
Joined == joined = Workers

\* crew_join(finish = TRUE) without a crew_cancel: once it has joined the threads,
\* every job crew_add ever took has run to its end.
JoinDrains == Joined /\ drain /\ ~aborted => finished = 1 .. total

\* crew->lock is abandoned only by a worker that crew_cancel hit in its wait, and
\* then the crew is shut down already: no job is ever stuck behind the dead lock.
LockAbandonedByCancelOnly ==
    mutex # Free => /\ mutex \in cancelled /\ wpc[mutex] = "exit"
                    /\ shutdown

\* What the fields of CREW_T are in every state, the lock included.
CrewStateOK == TypeOK /\ LockAbandonedByCancelOnly

\* crew.c keeps what a pool promises (module JobPool).
Pool == INSTANCE JobPool WITH accepted <- total, handed <- Handed, holds <- work,
                              open <- ~(closed \/ shutdown), halted <- shutdown
PoolSpec == Pool!Spec

\* Nothing more is promised: the process ended or crew->lock is lost for good.
Lost == proc # "up" \/ mutex # Free

\* Calls and jobs come to their ends, unless the lock is lost to a cancelled worker: a
\* crew_join returns; a crew_add that sleeps on a full queue is woken by the thread that
\* makes room or shuts the crew down; and every job that was taken is handed to a worker,
\* unless the crew shuts down.
CallsEnd ==
    /\ \A c \in Clients :
          /\ cpc[c] \in {"draining", "joining"} ~> (cpc[c] = "idle" \/ Lost)
          /\ cpc[c] = "adding" ~> (cpc[c] = "idle" \/ Lost)
    /\ \A k \in 1 .. MaxTotal : total >= k ~> (Handed >= k \/ shutdown \/ Lost)
=============================================================================
