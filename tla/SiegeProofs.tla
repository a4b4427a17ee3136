---------------------------- MODULE SiegeProofs ----------------------------
(***************************************************************************)
(* Crew, for every number of threads, clients and jobs and every capacity: *)
(* the invariants its runs check, and that it implements JobPool.  Then    *)
(* Siege, for every number of users and of signals: main and the signal    *)
(* thread use the crew as its contract asks, so that all that is shown of  *)
(* the crew holds in a siege; and the invariants its runs check.           *)
(***************************************************************************)
EXTENDS Siege, TLAPS

-----------------------------------------------------------------------------
(* The crew.                                                               *)

\* A thread asleep on a condition is at the wait of that condition.
Sleepers ==
    /\ \A w \in notEmpty : wpc[w] = "wait"
    /\ \A c \in notFull : cpc[c] = "adding"
    /\ \A c \in empty : cpc[c] = "draining"
    /\ \A c \in Clients : cpc[c] = "adding" => block
    /\ \A c, d \in Clients : cpc[c] = "draining" /\ cpc[d] = "draining" => c = d

\* What the flags, the program counters and the thread sets say of each other.
Flags ==
    /\ aborted => shutdown
    /\ shutdown => closed \/ aborted
    /\ cancelled # {} => aborted
    /\ \A w \in Workers : wpc[w] = "exit" => shutdown
    /\ \A w \in joined : wpc[w] = "exit"
    /\ \A c \in Clients : /\ cpc[c] = "cancelling" => aborted
                          /\ cpc[c] = "draining" => closed /\ drain
                          /\ cpc[c] = "joining" => closed /\ shutdown
                          /\ cpc[c] \in {"cancelling", "joining"} => cx[c] \in Workers
    /\ closed /\ ~shutdown => drain
    /\ drain /\ shutdown /\ ~aborted => cursize = 0

\* Every job that was dequeued has returned, is being run, or was cut short by
\* crew_cancel.
Accounted == aborted \/ \A k \in 1 .. Handed : k \in finished \/ \E w \in Workers : work[w] = k

\* The inductive invariant.
IInv == /\ TypeOK /\ FirstInFirstOut /\ OneWorkerPerJob /\ NoLostWakeup
        /\ LockAbandonedByCancelOnly /\ Sleepers /\ Flags /\ Accounted

-----------------------------------------------------------------------------
\* The struct new_crew fills in satisfies the invariant.
LEMMA InitIInv == Init => IInv
<1>. SUFFICES ASSUME Init PROVE IInv
  OBVIOUS
<1>1. TypeOK
  <2>. USE CrewAssumption DEF Init, Workers, Free
  <2>1. queue \in Seq(Nat) /\ started \in Seq(Nat)
    OBVIOUS
  <2>2. cursize \in Nat /\ total \in Nat
    OBVIOUS
  <2>3. drain \in BOOLEAN /\ aborted \in BOOLEAN /\ finished \subseteq Nat
    OBVIOUS
  <2>4. mutex \in {Free} \cup Workers
    OBVIOUS
  <2>5. /\ wpc \in [Workers -> {"unborn", "lock", "wait", "run", "exit"}]
        /\ work \in [Workers -> Nat]
    OBVIOUS
  <2>6. /\ cpc \in [Clients -> {"idle", "adding", "cancelling", "draining", "joining"}]
        /\ cx \in [Clients -> Nat] /\ result \in [Clients -> BOOLEAN]
    OBVIOUS
  <2>7. /\ block \in BOOLEAN /\ closed \in BOOLEAN /\ shutdown \in BOOLEAN
        /\ made \in {"creating", "made", "null"} /\ freed \in BOOLEAN
        /\ proc \in {"up", "down"}
    OBVIOUS
  <2>8. /\ notEmpty \subseteq Workers /\ notFull \subseteq Clients /\ empty \subseteq Clients
        /\ cancelled \subseteq Workers /\ joined \subseteq Workers
    OBVIOUS
  <2>. HIDE DEF Init, Workers, Free
  <2>. QED
    BY <2>1, <2>2, <2>3, <2>4, <2>5, <2>6, <2>7, <2>8 DEF TypeOK
<1>. USE CrewAssumption DEF Init, Workers, Free, Handed
<1>2. FirstInFirstOut /\ OneWorkerPerJob
  BY DEF FirstInFirstOut, OneWorkerPerJob
<1>3. NoLostWakeup /\ LockAbandonedByCancelOnly /\ Sleepers /\ Flags /\ Accounted
  BY DEF NoLostWakeup, LockAbandonedByCancelOnly, Sleepers, Flags, Accounted
<1>. QED
  BY <1>1, <1>2, <1>3 DEF IInv

\* Unlinking the head of a run of consecutive numbers leaves the run that follows.
LEMMA TailOf ==
    ASSUME NEW n \in Nat, NEW d \in Nat, n # 0
    PROVE  Tail([k \in 1 .. n |-> d + k]) = [k \in 1 .. n - 1 |-> d + 1 + k]
<1>. DEFINE q == [k \in 1 .. n |-> d + k]
<1>1. q \in Seq(Nat) /\ Len(q) = n /\ q # << >>
  OBVIOUS
<1>2. /\ Tail(q) \in Seq(Nat) /\ Len(Tail(q)) = n - 1
      /\ \A k \in 1 .. n - 1 : Tail(q)[k] = d + 1 + k
  BY <1>1
<1>. QED
  BY <1>2

\* Linking the next number behind a run of consecutive numbers makes it one longer.
LEMMA AppendOf ==
    ASSUME NEW n \in Nat, NEW d \in Nat
    PROVE  Append([k \in 1 .. n |-> d + k], d + n + 1) = [k \in 1 .. n + 1 |-> d + k]
<1>. DEFINE q == [k \in 1 .. n |-> d + k]
<1>1. q \in Seq(Nat) /\ Len(q) = n
  OBVIOUS
<1>2. /\ Append(q, d + n + 1) \in Seq(Nat) /\ Len(Append(q, d + n + 1)) = n + 1
      /\ \A k \in 1 .. n + 1 : Append(q, d + n + 1)[k] = d + k
  BY <1>1
<1>. QED
  BY <1>2

-----------------------------------------------------------------------------
\* Every step keeps the types.
LEMMA TypeStep ==
    ASSUME IInv, [Next]_crewVars PROVE TypeOK'
<1>. USE CrewAssumption DEF Workers, Free, queueVars, condVars, threadVars, clientVars, history, IInv, TypeOK
<1>1. ASSUME NEW w \in Workers, CreateThread(w) PROVE TypeOK'
  BY <1>1 DEF CreateThread
<1>2. ASSUME NEW w \in Workers, Sleep(w) PROVE TypeOK'
  BY <1>2 DEF Sleep, AtLoop
<1>3. ASSUME NEW w \in Workers, Exit(w) PROVE TypeOK'
  BY <1>3 DEF Exit, AtLoop, MayExit
<1>4. ASSUME NEW w \in Workers, Take(w) PROVE TypeOK'
  <2>1. Len(queue) = cursize /\ cursize # 0
    BY <1>4 DEF Take, HasWork, FirstInFirstOut
  <2>2. Head(queue) \in Nat /\ Tail(queue) \in Seq(Nat)
    BY <2>1
  <2>3. (queue \in Seq(Nat) /\ started \in Seq(Nat) /\ cursize \in Nat)'
    BY <1>4, <2>1, <2>2 DEF Take, Dequeued
  <2>4. (work \in [Workers -> Nat] /\ notFull \subseteq Clients)'
    BY <1>4, <2>2 DEF Take, FullAfterTake
  <2>5. (empty \subseteq Clients)'
    BY <1>4 DEF Take, Signalled
  <2>6. (wpc \in [Workers -> {"unborn", "lock", "wait", "run", "exit"}])'
    BY <1>4 DEF Take
  <2>7. UNCHANGED <<total, block, closed, shutdown, mutex, notEmpty, made, freed, cancelled, joined, clientVars,
                    proc, finished, drain, aborted>>
    BY <1>4 DEF Take
  <2>. QED
    BY <2>3, <2>4, <2>5, <2>6, <2>7
<1>5. ASSUME NEW w \in Workers, Return(w) PROVE TypeOK'
  BY <1>5 DEF Return
<1>6. ASSUME NEW w \in Workers, DieRunning(w) PROVE TypeOK'
  BY <1>6 DEF DieRunning
<1>7. ASSUME NEW w \in Workers, DieWaiting(w) PROVE TypeOK'
  BY <1>7 DEF DieWaiting
<1>8. ASSUME NEW c \in Clients, AddFull(c) PROVE TypeOK'
  BY <1>8 DEF AddFull, Enters, Returns, Full
<1>9. ASSUME NEW c \in Clients, AddSleeps(c) PROVE TypeOK'
  BY <1>9 DEF AddSleeps, AddEnters, AddWakes, Enters, Full
<1>10. ASSUME NEW c \in Clients, AddRefused(c) PROVE TypeOK'
  BY <1>10 DEF AddRefused, AddEnters, AddWakes, Enters, Returns, Full
<1>11. ASSUME NEW c \in Clients, AddAccepted(c) PROVE TypeOK'
  <2>1. (queue \in Seq(Nat) /\ cursize \in Nat /\ total \in Nat)'
    BY <1>11 DEF AddAccepted, Enqueued
  <2>2. (notEmpty \subseteq Workers)'
    BY <1>11 DEF AddAccepted, EmptyAfterAdd
  <2>. QED
    BY <1>11, <2>1, <2>2 DEF AddAccepted, Returns
<1>12. ASSUME NEW c \in Clients, CancelEnters(c) PROVE TypeOK'
  BY <1>12 DEF CancelEnters, Enters, crew_set_shutdown, WakeAll
<1>13. ASSUME NEW c \in Clients, CancelOne(c) PROVE TypeOK'
  <2>1. cx[c] \in Workers
    BY <1>13 DEF CancelOne, Flags
  <2>2. cancelled' \subseteq Workers /\ proc' \in {"up", "down"}
    BY <1>13, <2>1 DEF CancelOne
  <2>3. (cx \in [Clients -> Nat])'
    BY <1>13 DEF CancelOne, NextThread
  <2>4. /\ cpc' \in [Clients -> {"idle", "adding", "cancelling", "draining", "joining"}]
        /\ result' \in [Clients -> BOOLEAN]
    BY <1>13 DEF CancelOne, NextThread, Returns
  <2>. QED
    BY <1>13, <2>2, <2>3, <2>4 DEF CancelOne
<1>14. ASSUME NEW c \in Clients, GetShutdown(c) PROVE TypeOK'
  BY <1>14 DEF GetShutdown, Enters, Returns
<1>15. ASSUME NEW c \in Clients, Destroy(c) PROVE TypeOK'
  BY <1>15 DEF Destroy, Enters, crew_destroy
<1>16. ASSUME NEW c \in Clients, JoinRefused(c) PROVE TypeOK'
  BY <1>16 DEF JoinRefused, Enters, Returns
<1>17. ASSUME NEW c \in Clients, JoinWaits(c) PROVE TypeOK'
  BY <1>17 DEF JoinWaits, Enters
<1>18. ASSUME NEW c \in Clients, JoinDrained(c) PROVE TypeOK'
  BY <1>18 DEF JoinDrained, ShutDown
<1>19. ASSUME NEW c \in Clients, JoinWaitsAgain(c) PROVE TypeOK'
  BY <1>19 DEF JoinWaitsAgain
<1>20. ASSUME NEW c \in Clients, JoinTimesOut(c) PROVE TypeOK'
  BY <1>20 DEF JoinTimesOut
<1>21. ASSUME NEW c \in Clients, JoinOne(c) PROVE TypeOK'
  <2>1. cx[c] \in Workers
    BY <1>21 DEF JoinOne, Flags
  <2>2. joined' \subseteq Workers
    BY <1>21, <2>1 DEF JoinOne
  <2>3. (cx \in [Clients -> Nat])'
    BY <1>21 DEF JoinOne, NextThread
  <2>4. /\ cpc' \in [Clients -> {"idle", "adding", "cancelling", "draining", "joining"}]
        /\ result' \in [Clients -> BOOLEAN]
    BY <1>21 DEF JoinOne, NextThread, Returns
  <2>. QED
    BY <1>21, <2>2, <2>3, <2>4 DEF JoinOne
<1>22. ASSUME NEW c \in Clients, NEW finish \in BOOLEAN, JoinCloses(c, finish) PROVE TypeOK'
  BY <1>22 DEF JoinCloses, Enters, MayClose, ShutDown
<1>23. CASE SpuriousWakeup
  <2>1. notEmpty' \subseteq Workers /\ notFull' \subseteq Clients /\ empty' \subseteq Clients
    BY <1>23 DEF SpuriousWakeup
  <2>2. UNCHANGED <<queueVars, closed, shutdown, mutex, made, freed, threadVars, clientVars, proc, history>>
    BY <1>23 DEF SpuriousWakeup
  <2>. QED
    BY <2>1, <2>2
<1>24. CASE ProcessEnds
  BY <1>24 DEF ProcessEnds
<1>25. CASE UNCHANGED crewVars
  BY <1>25 DEF crewVars
<1>. QED
  BY <1>1, <1>2, <1>3, <1>4, <1>5, <1>6, <1>7, <1>8, <1>9, <1>10, <1>11,
     <1>12, <1>13, <1>14, <1>15, <1>16, <1>17, <1>18, <1>19, <1>20, <1>21,
     <1>22, <1>23, <1>24, <1>25 DEF Next, WorkerStep, LoopStep, ClientStep,
     crew_add, crew_cancel, crew_join

\* crew_add links behind the tail and a worker unlinks the head.
LEMMA FifoStep ==
    ASSUME IInv, [Next]_crewVars PROVE FirstInFirstOut'
<1>. USE CrewAssumption DEF Workers, Free, queueVars, condVars, threadVars, clientVars, history
<1>1. ASSUME NEW w \in Workers, CreateThread(w) PROVE FirstInFirstOut'
  BY <1>1 DEF CreateThread, IInv, FirstInFirstOut, Handed
<1>2. ASSUME NEW w \in Workers, Sleep(w) PROVE FirstInFirstOut'
  BY <1>2 DEF Sleep, AtLoop, IInv, FirstInFirstOut, Handed
<1>3. ASSUME NEW w \in Workers, Exit(w) PROVE FirstInFirstOut'
  BY <1>3 DEF Exit, AtLoop, MayExit, IInv, FirstInFirstOut, Handed
<1>4. ASSUME NEW w \in Workers, Take(w) PROVE FirstInFirstOut'
  <2>1. /\ cursize \in 1 .. MaxSize /\ cursize' = cursize - 1 /\ total' = total
        /\ Handed' = Handed + 1 /\ Handed \in Nat
    BY <1>4, CrewAssumption DEF Take, HasWork, IInv, TypeOK, FirstInFirstOut, Handed
  <2>2. queue' = Tail(queue) /\ queue = [k \in 1 .. cursize |-> Handed + k]
    BY <1>4 DEF Take, Dequeued, IInv, FirstInFirstOut
  <2>3. cursize \in Nat /\ cursize # 0
    BY <2>1, CrewAssumption
  <2>4. queue' = [k \in 1 .. cursize - 1 |-> Handed + 1 + k]
    BY ONLY <2>1, <2>2, <2>3, TailOf
  <2>5. queue' = [k \in 1 .. cursize' |-> Handed' + k]
    BY ONLY <2>1, <2>4
  <2>6. started' = [k \in 1 .. Handed' |-> k]
    BY <1>4, <2>1, <2>2 DEF Take, IInv, TypeOK, FirstInFirstOut
  <2>. QED
    BY <2>1, <2>5, <2>6, CrewAssumption DEF IInv, TypeOK, FirstInFirstOut
<1>5. ASSUME NEW w \in Workers, Return(w) PROVE FirstInFirstOut'
  BY <1>5 DEF Return, IInv, FirstInFirstOut, Handed
<1>6. ASSUME NEW w \in Workers, DieRunning(w) PROVE FirstInFirstOut'
  BY <1>6 DEF DieRunning, IInv, FirstInFirstOut, Handed
<1>7. ASSUME NEW w \in Workers, DieWaiting(w) PROVE FirstInFirstOut'
  BY <1>7 DEF DieWaiting, IInv, FirstInFirstOut, Handed
<1>8. ASSUME NEW c \in Clients, AddFull(c) PROVE FirstInFirstOut'
  BY <1>8 DEF AddFull, Enters, Returns, Full, IInv, FirstInFirstOut, Handed
<1>9. ASSUME NEW c \in Clients, AddSleeps(c) PROVE FirstInFirstOut'
  BY <1>9 DEF AddSleeps, AddEnters, AddWakes, Enters, Full, IInv, FirstInFirstOut, Handed
<1>10. ASSUME NEW c \in Clients, AddRefused(c) PROVE FirstInFirstOut'
  BY <1>10 DEF AddRefused, AddEnters, AddWakes, Enters, Returns, Full, IInv, FirstInFirstOut, Handed
<1>11. ASSUME NEW c \in Clients, AddAccepted(c) PROVE FirstInFirstOut'
  <2>1. /\ cursize \in 0 .. MaxSize - 1 /\ cursize' = cursize + 1 /\ total' = total + 1
        /\ total \in Nat /\ started' = started /\ Handed' = Handed /\ Handed \in Nat
    BY <1>11, CrewAssumption DEF AddAccepted, Full, IInv, TypeOK, FirstInFirstOut, Handed
  <2>2. total = Handed + cursize /\ queue = [k \in 1 .. cursize |-> Handed + k]
    BY <2>1 DEF Handed, IInv, FirstInFirstOut
  <2>3. queue' = Append([k \in 1 .. cursize |-> Handed + k], Handed + cursize + 1)
    BY <1>11, <2>2 DEF AddAccepted, Enqueued
  <2>4. queue' = [k \in 1 .. cursize' |-> Handed' + k]
    BY <2>1, <2>3, AppendOf
  <2>. QED
    BY <2>1, <2>4, CrewAssumption DEF IInv, TypeOK, FirstInFirstOut
<1>12. ASSUME NEW c \in Clients, CancelEnters(c) PROVE FirstInFirstOut'
  BY <1>12 DEF CancelEnters, Enters, crew_set_shutdown, WakeAll, IInv, FirstInFirstOut, Handed
<1>13. ASSUME NEW c \in Clients, CancelOne(c) PROVE FirstInFirstOut'
  BY <1>13 DEF CancelOne, NextThread, LastThread, Returns, IInv, FirstInFirstOut, Handed
<1>14. ASSUME NEW c \in Clients, GetShutdown(c) PROVE FirstInFirstOut'
  BY <1>14 DEF GetShutdown, Enters, Returns, IInv, FirstInFirstOut, Handed
<1>15. ASSUME NEW c \in Clients, Destroy(c) PROVE FirstInFirstOut'
  BY <1>15 DEF Destroy, Enters, crew_destroy, IInv, FirstInFirstOut, Handed
<1>16. ASSUME NEW c \in Clients, JoinRefused(c) PROVE FirstInFirstOut'
  BY <1>16 DEF JoinRefused, Enters, Returns, IInv, FirstInFirstOut, Handed
<1>17. ASSUME NEW c \in Clients, JoinWaits(c) PROVE FirstInFirstOut'
  BY <1>17 DEF JoinWaits, Enters, IInv, FirstInFirstOut, Handed
<1>18. ASSUME NEW c \in Clients, JoinDrained(c) PROVE FirstInFirstOut'
  BY <1>18 DEF JoinDrained, ShutDown, IInv, FirstInFirstOut, Handed
<1>19. ASSUME NEW c \in Clients, JoinWaitsAgain(c) PROVE FirstInFirstOut'
  BY <1>19 DEF JoinWaitsAgain, IInv, FirstInFirstOut, Handed
<1>20. ASSUME NEW c \in Clients, JoinTimesOut(c) PROVE FirstInFirstOut'
  BY <1>20 DEF JoinTimesOut, IInv, FirstInFirstOut, Handed
<1>21. ASSUME NEW c \in Clients, JoinOne(c) PROVE FirstInFirstOut'
  BY <1>21 DEF JoinOne, NextThread, LastThread, Returns, IInv, FirstInFirstOut, Handed
<1>22. ASSUME NEW c \in Clients, NEW finish \in BOOLEAN, JoinCloses(c, finish) PROVE FirstInFirstOut'
  BY <1>22 DEF JoinCloses, Enters, MayClose, ShutDown, IInv, FirstInFirstOut, Handed
<1>23. CASE SpuriousWakeup
  BY <1>23 DEF SpuriousWakeup, IInv, FirstInFirstOut, Handed
<1>24. CASE ProcessEnds
  BY <1>24 DEF ProcessEnds, IInv, FirstInFirstOut, Handed
<1>25. CASE UNCHANGED crewVars
  BY <1>25 DEF crewVars, IInv, FirstInFirstOut, Handed
<1>. QED
  BY <1>1, <1>2, <1>3, <1>4, <1>5, <1>6, <1>7, <1>8, <1>9, <1>10, <1>11,
     <1>12, <1>13, <1>14, <1>15, <1>16, <1>17, <1>18, <1>19, <1>20, <1>21,
     <1>22, <1>23, <1>24, <1>25 DEF Next, WorkerStep, LoopStep, ClientStep,
     crew_add, crew_cancel, crew_join

\* A job moves from the queue to one worker and from there to finished.
LEMMA OneWorkerStep ==
    ASSUME IInv, [Next]_crewVars PROVE OneWorkerPerJob'
<1>. USE CrewAssumption DEF Workers, Free, queueVars, condVars, threadVars, clientVars, history
<1>1. ASSUME NEW w \in Workers, CreateThread(w) PROVE OneWorkerPerJob'
  BY <1>1 DEF CreateThread, IInv, TypeOK, FirstInFirstOut, OneWorkerPerJob, Handed
<1>2. ASSUME NEW w \in Workers, Sleep(w) PROVE OneWorkerPerJob'
  BY <1>2 DEF Sleep, AtLoop, IInv, TypeOK, FirstInFirstOut, OneWorkerPerJob, Handed
<1>3. ASSUME NEW w \in Workers, Exit(w) PROVE OneWorkerPerJob'
  BY <1>3 DEF Exit, AtLoop, MayExit, IInv, TypeOK, FirstInFirstOut, OneWorkerPerJob, Handed
<1>4. ASSUME NEW w \in Workers, Take(w) PROVE OneWorkerPerJob'
  <2>1. /\ Handed \in Nat /\ Handed' = Handed + 1 /\ Head(queue) = Handed + 1
    BY <1>4 DEF Take, HasWork, IInv, TypeOK, FirstInFirstOut, Handed
  <2>2. /\ work' = [work EXCEPT ![w] = Handed + 1] /\ wpc' = [wpc EXCEPT ![w] = "run"]
        /\ finished' = finished
    BY <1>4, <2>1 DEF Take
  <2>3. \A v \in Workers : work'[v] <= Handed' /\ (work'[v] # 0 <=> wpc'[v] = "run")
    BY <2>1, <2>2 DEF IInv, TypeOK, OneWorkerPerJob
  <2>4. \A u, v \in Workers : u # v /\ work'[u] # 0 => work'[u] # work'[v]
    BY <2>1, <2>2 DEF IInv, TypeOK, OneWorkerPerJob
  <2>5. /\ \A v \in Workers : work'[v] \notin finished'
        /\ finished' \subseteq 1 .. Handed'
    BY <2>1, <2>2 DEF IInv, TypeOK, OneWorkerPerJob
  <2>. QED
    BY <2>3, <2>4, <2>5 DEF OneWorkerPerJob
<1>5. ASSUME NEW w \in Workers, Return(w) PROVE OneWorkerPerJob'
  <2>1. /\ work[w] \in 1 .. Handed /\ Handed' = Handed /\ Handed \in Nat
    BY <1>5 DEF Return, IInv, TypeOK, FirstInFirstOut, OneWorkerPerJob, Handed
  <2>2. /\ work' = [work EXCEPT ![w] = 0] /\ wpc' = [wpc EXCEPT ![w] = "lock"]
        /\ finished' = finished \cup {work[w]}
    BY <1>5 DEF Return
  <2>3. \A v \in Workers : work'[v] <= Handed' /\ (work'[v] # 0 <=> wpc'[v] = "run")
    BY <2>1, <2>2 DEF IInv, TypeOK, OneWorkerPerJob
  <2>4. \A u, v \in Workers : u # v /\ work'[u] # 0 => work'[u] # work'[v]
    BY <2>1, <2>2 DEF IInv, TypeOK, OneWorkerPerJob
  <2>5. \A v \in Workers : work'[v] # work[w]
    BY <2>1, <2>2 DEF IInv, TypeOK, OneWorkerPerJob
  <2>6. \A v \in Workers : work'[v] \notin finished
    BY <2>1, <2>2 DEF IInv, TypeOK, OneWorkerPerJob
  <2>7. finished' \subseteq 1 .. Handed'
    BY <2>1, <2>2 DEF IInv, OneWorkerPerJob
  <2>. QED
    BY <2>2, <2>3, <2>4, <2>5, <2>6, <2>7 DEF OneWorkerPerJob
<1>6. ASSUME NEW w \in Workers, DieRunning(w) PROVE OneWorkerPerJob'
  BY <1>6 DEF DieRunning, IInv, TypeOK, FirstInFirstOut, OneWorkerPerJob, Handed
<1>7. ASSUME NEW w \in Workers, DieWaiting(w) PROVE OneWorkerPerJob'
  BY <1>7 DEF DieWaiting, IInv, TypeOK, FirstInFirstOut, OneWorkerPerJob, Handed
<1>8. ASSUME NEW c \in Clients, AddFull(c) PROVE OneWorkerPerJob'
  BY <1>8 DEF AddFull, Enters, Returns, Full, IInv, TypeOK, FirstInFirstOut, OneWorkerPerJob, Handed
<1>9. ASSUME NEW c \in Clients, AddSleeps(c) PROVE OneWorkerPerJob'
  BY <1>9 DEF AddSleeps, AddEnters, AddWakes, Enters, Full, IInv, TypeOK, FirstInFirstOut, OneWorkerPerJob, Handed
<1>10. ASSUME NEW c \in Clients, AddRefused(c) PROVE OneWorkerPerJob'
  BY <1>10 DEF AddRefused, AddEnters, AddWakes, Enters, Returns, Full, IInv, TypeOK, FirstInFirstOut, OneWorkerPerJob, Handed
<1>11. ASSUME NEW c \in Clients, AddAccepted(c) PROVE OneWorkerPerJob'
  BY <1>11 DEF AddAccepted, AddEnters, AddWakes, Enters, Returns, Full, Enqueued, EmptyAfterAdd, IInv, TypeOK, FirstInFirstOut, OneWorkerPerJob, Handed
<1>12. ASSUME NEW c \in Clients, CancelEnters(c) PROVE OneWorkerPerJob'
  BY <1>12 DEF CancelEnters, Enters, crew_set_shutdown, WakeAll, IInv, TypeOK, FirstInFirstOut, OneWorkerPerJob, Handed
<1>13. ASSUME NEW c \in Clients, CancelOne(c) PROVE OneWorkerPerJob'
  BY <1>13 DEF CancelOne, NextThread, LastThread, Returns, IInv, TypeOK, FirstInFirstOut, OneWorkerPerJob, Handed
<1>14. ASSUME NEW c \in Clients, GetShutdown(c) PROVE OneWorkerPerJob'
  BY <1>14 DEF GetShutdown, Enters, Returns, IInv, TypeOK, FirstInFirstOut, OneWorkerPerJob, Handed
<1>15. ASSUME NEW c \in Clients, Destroy(c) PROVE OneWorkerPerJob'
  BY <1>15 DEF Destroy, Enters, crew_destroy, IInv, TypeOK, FirstInFirstOut, OneWorkerPerJob, Handed
<1>16. ASSUME NEW c \in Clients, JoinRefused(c) PROVE OneWorkerPerJob'
  BY <1>16 DEF JoinRefused, Enters, Returns, IInv, TypeOK, FirstInFirstOut, OneWorkerPerJob, Handed
<1>17. ASSUME NEW c \in Clients, JoinWaits(c) PROVE OneWorkerPerJob'
  BY <1>17 DEF JoinWaits, Enters, IInv, TypeOK, FirstInFirstOut, OneWorkerPerJob, Handed
<1>18. ASSUME NEW c \in Clients, JoinDrained(c) PROVE OneWorkerPerJob'
  BY <1>18 DEF JoinDrained, ShutDown, IInv, TypeOK, FirstInFirstOut, OneWorkerPerJob, Handed
<1>19. ASSUME NEW c \in Clients, JoinWaitsAgain(c) PROVE OneWorkerPerJob'
  BY <1>19 DEF JoinWaitsAgain, IInv, TypeOK, FirstInFirstOut, OneWorkerPerJob, Handed
<1>20. ASSUME NEW c \in Clients, JoinTimesOut(c) PROVE OneWorkerPerJob'
  BY <1>20 DEF JoinTimesOut, IInv, TypeOK, FirstInFirstOut, OneWorkerPerJob, Handed
<1>21. ASSUME NEW c \in Clients, JoinOne(c) PROVE OneWorkerPerJob'
  BY <1>21 DEF JoinOne, NextThread, LastThread, Returns, IInv, TypeOK, FirstInFirstOut, OneWorkerPerJob, Handed
<1>22. ASSUME NEW c \in Clients, NEW finish \in BOOLEAN, JoinCloses(c, finish) PROVE OneWorkerPerJob'
  BY <1>22 DEF JoinCloses, Enters, MayClose, ShutDown, IInv, TypeOK, FirstInFirstOut, OneWorkerPerJob, Handed
<1>23. CASE SpuriousWakeup
  BY <1>23 DEF SpuriousWakeup, IInv, TypeOK, FirstInFirstOut, OneWorkerPerJob, Handed
<1>24. CASE ProcessEnds
  BY <1>24 DEF ProcessEnds, IInv, TypeOK, FirstInFirstOut, OneWorkerPerJob, Handed
<1>25. CASE UNCHANGED crewVars
  BY <1>25 DEF crewVars, IInv, TypeOK, FirstInFirstOut, OneWorkerPerJob, Handed
<1>. QED
  BY <1>1, <1>2, <1>3, <1>4, <1>5, <1>6, <1>7, <1>8, <1>9, <1>10, <1>11,
     <1>12, <1>13, <1>14, <1>15, <1>16, <1>17, <1>18, <1>19, <1>20, <1>21,
     <1>22, <1>23, <1>24, <1>25 DEF Next, WorkerStep, LoopStep, ClientStep,
     crew_add, crew_cancel, crew_join

\* The signals at the edges of cursize leave nobody asleep for nothing.
LEMMA WakeupStep ==
    ASSUME IInv, [Next]_crewVars PROVE (NoLostWakeup /\ Sleepers)'
<1>. USE CrewAssumption DEF Workers, Free, queueVars, condVars, threadVars, clientVars, history
<1>1. ASSUME NEW w \in Workers, CreateThread(w) PROVE (NoLostWakeup /\ Sleepers)'
  <2>1. \A v \in notEmpty : wpc'[v] = "wait"
    BY <1>1 DEF CreateThread, IInv, TypeOK, FirstInFirstOut, NoLostWakeup, Sleepers
  <2>2. UNCHANGED <<queueVars, shutdown, condVars, clientVars>>
    BY <1>1 DEF CreateThread
  <2>. QED
    BY <2>1, <2>2 DEF IInv, NoLostWakeup, Sleepers
<1>2. ASSUME NEW w \in Workers, Sleep(w) PROVE (NoLostWakeup /\ Sleepers)'
  BY <1>2 DEF Sleep, AtLoop, IInv, TypeOK, FirstInFirstOut, NoLostWakeup, Sleepers
<1>3. ASSUME NEW w \in Workers, Exit(w) PROVE (NoLostWakeup /\ Sleepers)'
  BY <1>3 DEF Exit, AtLoop, MayExit, IInv, TypeOK, FirstInFirstOut, NoLostWakeup, Sleepers
<1>4. ASSUME NEW w \in Workers, Take(w) PROVE (NoLostWakeup /\ Sleepers)'
  <2>1. cursize # 0 /\ notEmpty = {} /\ notEmpty' = {}
    BY <1>4 DEF Take, HasWork, IInv, TypeOK, FirstInFirstOut, NoLostWakeup, Sleepers
  <2>2. notFull' = {}
    BY <1>4 DEF Take, FullAfterTake, IInv, TypeOK, FirstInFirstOut, NoLostWakeup, Sleepers
  <2>3. empty' \subseteq empty /\ (empty' # {} => cursize' # 0)
    <3>1. empty' \in IF cursize' = 0 THEN Signalled(empty) ELSE {empty}
      BY <1>4 DEF Take
    <3>2. CASE cursize' # 0
      BY <3>1, <3>2
    <3>3. CASE cursize' = 0 /\ empty = {}
      BY <3>1, <3>3 DEF Signalled
    <3>4. CASE cursize' = 0 /\ empty # {}
      <4>1. PICK t \in empty : empty' = empty \ {t}
        BY <3>1, <3>4 DEF Signalled
      <4>2. \A c, d \in empty : c = d
        BY DEF IInv, TypeOK, Sleepers
      <4>. QED
        BY <4>1, <4>2
    <3>. QED
      BY <3>2, <3>3, <3>4
  <2>. QED
    BY <1>4, <2>1, <2>2, <2>3 DEF Take, IInv, TypeOK, FirstInFirstOut, NoLostWakeup, Sleepers
<1>5. ASSUME NEW w \in Workers, Return(w) PROVE (NoLostWakeup /\ Sleepers)'
  BY <1>5 DEF Return, IInv, TypeOK, FirstInFirstOut, NoLostWakeup, Sleepers
<1>6. ASSUME NEW w \in Workers, DieRunning(w) PROVE (NoLostWakeup /\ Sleepers)'
  BY <1>6 DEF DieRunning, IInv, TypeOK, FirstInFirstOut, NoLostWakeup, Sleepers
<1>7. ASSUME NEW w \in Workers, DieWaiting(w) PROVE (NoLostWakeup /\ Sleepers)'
  BY <1>7 DEF DieWaiting, IInv, TypeOK, FirstInFirstOut, NoLostWakeup, Sleepers
<1>8. ASSUME NEW c \in Clients, AddFull(c) PROVE (NoLostWakeup /\ Sleepers)'
  BY <1>8 DEF AddFull, Enters, Returns, Full, IInv, TypeOK, FirstInFirstOut, NoLostWakeup, Sleepers
<1>9. ASSUME NEW c \in Clients, AddSleeps(c) PROVE (NoLostWakeup /\ Sleepers)'
  <2>1. block /\ ~shutdown /\ cursize = MaxSize
    BY <1>9 DEF AddSleeps, AddEnters, AddWakes, Full, IInv, TypeOK, FirstInFirstOut, NoLostWakeup, Sleepers
  <2>2. cpc[c] # "draining" /\ c \notin empty
    BY <1>9 DEF AddSleeps, AddEnters, AddWakes, Enters, IInv, TypeOK, FirstInFirstOut, NoLostWakeup, Sleepers
  <2>3. /\ UNCHANGED <<queueVars, shutdown, notEmpty, empty, threadVars>>
        /\ notFull' = notFull \cup {c} /\ cpc' = [cpc EXCEPT ![c] = "adding"]
    BY <1>9 DEF AddSleeps
  <2>4. NoLostWakeup'
    BY <2>1, <2>3 DEF IInv, NoLostWakeup
  <2>5. Sleepers'
    BY <2>1, <2>2, <2>3 DEF IInv, TypeOK, Sleepers
  <2>. QED
    BY <2>4, <2>5
<1>10. ASSUME NEW c \in Clients, AddRefused(c) PROVE (NoLostWakeup /\ Sleepers)'
  BY <1>10 DEF AddRefused, AddEnters, AddWakes, Enters, Returns, Full, IInv, TypeOK, FirstInFirstOut, NoLostWakeup, Sleepers
<1>11. ASSUME NEW c \in Clients, AddAccepted(c) PROVE (NoLostWakeup /\ Sleepers)'
  <2>1. /\ cursize # MaxSize /\ ~shutdown /\ cursize' = cursize + 1 /\ notEmpty' = EmptyAfterAdd
        /\ cpc' = [cpc EXCEPT ![c] = "idle"] /\ UNCHANGED <<block, shutdown, notFull, empty, wpc>>
    BY <1>11 DEF AddAccepted, Full, Returns, threadVars
  <2>2. c \notin notFull /\ c \notin empty
    BY <1>11 DEF AddAccepted, AddEnters, AddWakes, Enters, IInv, TypeOK, Sleepers
  <2>3. cursize \in Nat /\ notEmpty' = {}
    BY <2>1 DEF EmptyAfterAdd, IInv, TypeOK, NoLostWakeup
  <2>4. notFull = {}
    BY <2>1 DEF IInv, NoLostWakeup
  <2>5. NoLostWakeup'
    BY <2>1, <2>3, <2>4 DEF IInv, NoLostWakeup
  <2>6. Sleepers'
    BY <2>1, <2>2, <2>3, <2>4 DEF IInv, TypeOK, Sleepers
  <2>. QED
    BY <2>5, <2>6
<1>12. ASSUME NEW c \in Clients, CancelEnters(c) PROVE (NoLostWakeup /\ Sleepers)'
  BY <1>12 DEF CancelEnters, Enters, crew_set_shutdown, WakeAll, IInv, TypeOK, FirstInFirstOut, NoLostWakeup, Sleepers
<1>13. ASSUME NEW c \in Clients, CancelOne(c) PROVE (NoLostWakeup /\ Sleepers)'
  <2>1. cpc[c] = "cancelling" /\ c \notin notFull /\ c \notin empty
    BY <1>13 DEF CancelOne, IInv, TypeOK, FirstInFirstOut, NoLostWakeup, Sleepers
  <2>2. cpc' = cpc \/ cpc' = [cpc EXCEPT ![c] = "idle"]
    BY <1>13 DEF CancelOne, NextThread, Returns, IInv, TypeOK, FirstInFirstOut, NoLostWakeup, Sleepers
  <2>3. UNCHANGED <<notEmpty, notFull, empty, wpc, block, cursize, shutdown>>
    BY <1>13 DEF CancelOne, IInv, TypeOK, FirstInFirstOut, NoLostWakeup, Sleepers
  <2>4. /\ \A d \in notFull : cpc'[d] = "adding"
        /\ \A d \in empty : cpc'[d] = "draining"
    BY <2>1, <2>2 DEF IInv, TypeOK, Sleepers
  <2>5. \A d \in Clients : /\ cpc'[d] = "adding" => cpc[d] = "adding"
                           /\ cpc'[d] = "draining" => cpc[d] = "draining"
    BY <2>1, <2>2 DEF IInv, TypeOK
  <2>6. NoLostWakeup'
    BY <2>3 DEF IInv, NoLostWakeup
  <2>7. Sleepers'
    BY <2>3, <2>4, <2>5 DEF IInv, Sleepers
  <2>. QED
    BY <2>6, <2>7
<1>14. ASSUME NEW c \in Clients, GetShutdown(c) PROVE (NoLostWakeup /\ Sleepers)'
  BY <1>14 DEF GetShutdown, Enters, Returns, IInv, TypeOK, FirstInFirstOut, NoLostWakeup, Sleepers
<1>15. ASSUME NEW c \in Clients, Destroy(c) PROVE (NoLostWakeup /\ Sleepers)'
  BY <1>15 DEF Destroy, Enters, crew_destroy, IInv, TypeOK, FirstInFirstOut, NoLostWakeup, Sleepers
<1>16. ASSUME NEW c \in Clients, JoinRefused(c) PROVE (NoLostWakeup /\ Sleepers)'
  <2>1. /\ cpc' = [cpc EXCEPT ![c] = "idle"]
        /\ UNCHANGED <<cursize, block, shutdown, notEmpty, notFull, empty, wpc>>
    BY <1>16 DEF JoinRefused, Returns, queueVars, condVars, threadVars
  <2>2. c \notin notFull /\ c \notin empty
    BY <1>16 DEF JoinRefused, Enters, IInv, TypeOK, Sleepers
  <2>3. NoLostWakeup'
    BY <2>1 DEF IInv, NoLostWakeup
  <2>4. Sleepers'
    BY <2>1, <2>2 DEF IInv, TypeOK, Sleepers
  <2>. QED
    BY <2>3, <2>4
<1>17. ASSUME NEW c \in Clients, JoinWaits(c) PROVE (NoLostWakeup /\ Sleepers)'
  <2>1. \A d \in Clients : cpc[d] # "draining"
    BY <1>17 DEF JoinWaits, Flags, IInv, TypeOK, FirstInFirstOut, NoLostWakeup, Sleepers
  <2>2. c \notin notFull
    BY <1>17 DEF JoinWaits, Enters, IInv, TypeOK, FirstInFirstOut, NoLostWakeup, Sleepers
  <2>. QED
    BY <1>17, <2>1, <2>2 DEF JoinWaits, IInv, TypeOK, FirstInFirstOut, NoLostWakeup, Sleepers
<1>18. ASSUME NEW c \in Clients, JoinDrained(c) PROVE (NoLostWakeup /\ Sleepers)'
  BY <1>18 DEF JoinDrained, ShutDown, IInv, TypeOK, FirstInFirstOut, NoLostWakeup, Sleepers
<1>19. ASSUME NEW c \in Clients, JoinWaitsAgain(c) PROVE (NoLostWakeup /\ Sleepers)'
  BY <1>19 DEF JoinWaitsAgain, IInv, TypeOK, FirstInFirstOut, NoLostWakeup, Sleepers
<1>20. ASSUME NEW c \in Clients, JoinTimesOut(c) PROVE (NoLostWakeup /\ Sleepers)'
  BY <1>20 DEF JoinTimesOut, IInv, TypeOK, FirstInFirstOut, NoLostWakeup, Sleepers
<1>21. ASSUME NEW c \in Clients, JoinOne(c) PROVE (NoLostWakeup /\ Sleepers)'
  <2>1. cpc[c] = "joining" /\ c \notin notFull /\ c \notin empty
    BY <1>21 DEF JoinOne, IInv, TypeOK, FirstInFirstOut, NoLostWakeup, Sleepers
  <2>2. cpc' = cpc \/ cpc' = [cpc EXCEPT ![c] = "idle"]
    BY <1>21 DEF JoinOne, NextThread, Returns, IInv, TypeOK, FirstInFirstOut, NoLostWakeup, Sleepers
  <2>3. UNCHANGED <<notEmpty, notFull, empty, wpc, block, cursize, shutdown>>
    BY <1>21 DEF JoinOne, IInv, TypeOK, FirstInFirstOut, NoLostWakeup, Sleepers
  <2>4. /\ \A d \in notFull : cpc'[d] = "adding"
        /\ \A d \in empty : cpc'[d] = "draining"
    BY <2>1, <2>2 DEF IInv, TypeOK, Sleepers
  <2>5. \A d \in Clients : /\ cpc'[d] = "adding" => cpc[d] = "adding"
                           /\ cpc'[d] = "draining" => cpc[d] = "draining"
    BY <2>1, <2>2 DEF IInv, TypeOK
  <2>6. NoLostWakeup'
    BY <2>3 DEF IInv, NoLostWakeup
  <2>7. Sleepers'
    BY <2>3, <2>4, <2>5 DEF IInv, Sleepers
  <2>. QED
    BY <2>6, <2>7
<1>22. ASSUME NEW c \in Clients, NEW finish \in BOOLEAN, JoinCloses(c, finish) PROVE (NoLostWakeup /\ Sleepers)'
  <2>1. empty = {}
    BY <1>22 DEF JoinCloses, Flags, IInv, TypeOK, FirstInFirstOut, NoLostWakeup, Sleepers
  <2>. QED
    BY <1>22, <2>1 DEF JoinCloses, ShutDown, IInv, TypeOK, FirstInFirstOut, NoLostWakeup, Sleepers
<1>23. CASE SpuriousWakeup
  BY <1>23 DEF SpuriousWakeup, IInv, TypeOK, FirstInFirstOut, NoLostWakeup, Sleepers
<1>24. CASE ProcessEnds
  BY <1>24 DEF ProcessEnds, IInv, TypeOK, FirstInFirstOut, NoLostWakeup, Sleepers
<1>25. CASE UNCHANGED crewVars
  BY <1>25 DEF crewVars, IInv, TypeOK, FirstInFirstOut, NoLostWakeup, Sleepers
<1>. QED
  BY <1>1, <1>2, <1>3, <1>4, <1>5, <1>6, <1>7, <1>8, <1>9, <1>10, <1>11,
     <1>12, <1>13, <1>14, <1>15, <1>16, <1>17, <1>18, <1>19, <1>20, <1>21,
     <1>22, <1>23, <1>24, <1>25 DEF Next, WorkerStep, LoopStep, ClientStep,
     crew_add, crew_cancel, crew_join

\* shutdown comes before every end of a thread, and closed before every join.
LEMMA FlagsStep ==
    ASSUME IInv, [Next]_crewVars PROVE (Flags /\ LockAbandonedByCancelOnly)'
<1>. USE CrewAssumption DEF Workers, Free, queueVars, condVars, threadVars, clientVars, history
<1>1. ASSUME NEW w \in Workers, CreateThread(w) PROVE (Flags /\ LockAbandonedByCancelOnly)'
  BY <1>1 DEF CreateThread, IInv, TypeOK, FirstInFirstOut, Flags, LockAbandonedByCancelOnly, Sleepers, NoLostWakeup
<1>2. ASSUME NEW w \in Workers, Sleep(w) PROVE (Flags /\ LockAbandonedByCancelOnly)'
  BY <1>2 DEF Sleep, AtLoop, IInv, TypeOK, FirstInFirstOut, Flags, LockAbandonedByCancelOnly, Sleepers, NoLostWakeup
<1>3. ASSUME NEW w \in Workers, Exit(w) PROVE (Flags /\ LockAbandonedByCancelOnly)'
  BY <1>3 DEF Exit, AtLoop, MayExit, IInv, TypeOK, FirstInFirstOut, Flags, LockAbandonedByCancelOnly, Sleepers, NoLostWakeup
<1>4. ASSUME NEW w \in Workers, Take(w) PROVE (Flags /\ LockAbandonedByCancelOnly)'
  <2>1. ~shutdown /\ ~aborted /\ cancelled = {}
    BY <1>4 DEF Take, HasWork, IInv, TypeOK, Flags, LockAbandonedByCancelOnly
  <2>2. /\ wpc' = [wpc EXCEPT ![w] = "run"] /\ mutex' = Free
        /\ UNCHANGED <<closed, shutdown, cancelled, joined, cpc, cx, aborted, drain>>
    BY <1>4 DEF Take, AtLoop, IInv, TypeOK, Flags, LockAbandonedByCancelOnly
  <2>. QED
    BY <2>1, <2>2 DEF IInv, TypeOK, Flags, LockAbandonedByCancelOnly
<1>5. ASSUME NEW w \in Workers, Return(w) PROVE (Flags /\ LockAbandonedByCancelOnly)'
  BY <1>5 DEF Return, IInv, TypeOK, FirstInFirstOut, Flags, LockAbandonedByCancelOnly, Sleepers, NoLostWakeup
<1>6. ASSUME NEW w \in Workers, DieRunning(w) PROVE (Flags /\ LockAbandonedByCancelOnly)'
  BY <1>6 DEF DieRunning, IInv, TypeOK, FirstInFirstOut, Flags, LockAbandonedByCancelOnly, Sleepers, NoLostWakeup
<1>7. ASSUME NEW w \in Workers, DieWaiting(w) PROVE (Flags /\ LockAbandonedByCancelOnly)'
  BY <1>7 DEF DieWaiting, IInv, TypeOK, FirstInFirstOut, Flags, LockAbandonedByCancelOnly, Sleepers, NoLostWakeup
<1>8. ASSUME NEW c \in Clients, AddFull(c) PROVE (Flags /\ LockAbandonedByCancelOnly)'
  BY <1>8 DEF AddFull, Enters, Returns, Full, IInv, TypeOK, FirstInFirstOut, Flags, LockAbandonedByCancelOnly, Sleepers, NoLostWakeup
<1>9. ASSUME NEW c \in Clients, AddSleeps(c) PROVE (Flags /\ LockAbandonedByCancelOnly)'
  BY <1>9 DEF AddSleeps, AddEnters, AddWakes, Enters, Full, IInv, TypeOK, FirstInFirstOut, Flags, LockAbandonedByCancelOnly, Sleepers, NoLostWakeup
<1>10. ASSUME NEW c \in Clients, AddRefused(c) PROVE (Flags /\ LockAbandonedByCancelOnly)'
  BY <1>10 DEF AddRefused, AddEnters, AddWakes, Enters, Returns, Full, IInv, TypeOK, FirstInFirstOut, Flags, LockAbandonedByCancelOnly, Sleepers, NoLostWakeup
<1>11. ASSUME NEW c \in Clients, AddAccepted(c) PROVE (Flags /\ LockAbandonedByCancelOnly)'
  BY <1>11 DEF AddAccepted, AddEnters, AddWakes, Enters, Returns, Full, Enqueued, EmptyAfterAdd, IInv, TypeOK, FirstInFirstOut, Flags, LockAbandonedByCancelOnly, Sleepers, NoLostWakeup
<1>12. ASSUME NEW c \in Clients, CancelEnters(c) PROVE (Flags /\ LockAbandonedByCancelOnly)'
  BY <1>12 DEF CancelEnters, Enters, crew_set_shutdown, WakeAll, IInv, TypeOK, FirstInFirstOut, Flags, LockAbandonedByCancelOnly, Sleepers, NoLostWakeup
<1>13. ASSUME NEW c \in Clients, CancelOne(c) PROVE (Flags /\ LockAbandonedByCancelOnly)'
  BY <1>13 DEF CancelOne, NextThread, LastThread, Returns, IInv, TypeOK, FirstInFirstOut, Flags, LockAbandonedByCancelOnly, Sleepers, NoLostWakeup
<1>14. ASSUME NEW c \in Clients, GetShutdown(c) PROVE (Flags /\ LockAbandonedByCancelOnly)'
  BY <1>14 DEF GetShutdown, Enters, Returns, IInv, TypeOK, FirstInFirstOut, Flags, LockAbandonedByCancelOnly, Sleepers, NoLostWakeup
<1>15. ASSUME NEW c \in Clients, Destroy(c) PROVE (Flags /\ LockAbandonedByCancelOnly)'
  BY <1>15 DEF Destroy, Enters, crew_destroy, IInv, TypeOK, FirstInFirstOut, Flags, LockAbandonedByCancelOnly, Sleepers, NoLostWakeup
<1>16. ASSUME NEW c \in Clients, JoinRefused(c) PROVE (Flags /\ LockAbandonedByCancelOnly)'
  BY <1>16 DEF JoinRefused, Enters, Returns, IInv, TypeOK, FirstInFirstOut, Flags, LockAbandonedByCancelOnly, Sleepers, NoLostWakeup
<1>17. ASSUME NEW c \in Clients, JoinWaits(c) PROVE (Flags /\ LockAbandonedByCancelOnly)'
  BY <1>17 DEF JoinWaits, Enters, IInv, TypeOK, FirstInFirstOut, Flags, LockAbandonedByCancelOnly, Sleepers, NoLostWakeup
<1>18. ASSUME NEW c \in Clients, JoinDrained(c) PROVE (Flags /\ LockAbandonedByCancelOnly)'
  <2>1. /\ cpc' = [cpc EXCEPT ![c] = "joining"] /\ cx' = [cx EXCEPT ![c] = 1]
        /\ shutdown' /\ closed
        /\ UNCHANGED <<closed, mutex, wpc, cancelled, joined, aborted, drain, cursize>>
    BY <1>18 DEF JoinDrained, ShutDown, IInv, TypeOK, Flags, LockAbandonedByCancelOnly
  <2>2. drain /\ ~aborted => cursize = 0
    BY <1>18 DEF JoinDrained, IInv, TypeOK, Flags, LockAbandonedByCancelOnly
  <2>. QED
    BY <2>1, <2>2 DEF IInv, TypeOK, Flags, LockAbandonedByCancelOnly
<1>19. ASSUME NEW c \in Clients, JoinWaitsAgain(c) PROVE (Flags /\ LockAbandonedByCancelOnly)'
  BY <1>19 DEF JoinWaitsAgain, IInv, TypeOK, FirstInFirstOut, Flags, LockAbandonedByCancelOnly, Sleepers, NoLostWakeup
<1>20. ASSUME NEW c \in Clients, JoinTimesOut(c) PROVE (Flags /\ LockAbandonedByCancelOnly)'
  BY <1>20 DEF JoinTimesOut, IInv, TypeOK, FirstInFirstOut, Flags, LockAbandonedByCancelOnly, Sleepers, NoLostWakeup
<1>21. ASSUME NEW c \in Clients, JoinOne(c) PROVE (Flags /\ LockAbandonedByCancelOnly)'
  <2>1. /\ cx[c] \in Workers /\ cx' = [cx EXCEPT ![c] = cx[c] + 1]
        /\ cpc' = IF cx[c] = Size THEN [cpc EXCEPT ![c] = "idle"] ELSE cpc
        /\ joined' = joined \cup {cx[c]} /\ wpc[cx[c]] = "exit"
        /\ UNCHANGED <<closed, shutdown, mutex, wpc, cancelled, aborted, drain, cursize>>
    BY <1>21 DEF JoinOne, NextThread, LastThread, Returns, IInv, TypeOK, Flags, LockAbandonedByCancelOnly
  <2>2. \A v \in joined' : wpc'[v] = "exit"
    BY <2>1 DEF IInv, TypeOK, Flags, LockAbandonedByCancelOnly
  <2>3. \A d \in Clients : /\ cpc'[d] # "idle" => cpc'[d] = cpc[d]
                           /\ cpc'[d] \in {"cancelling", "joining"} => cx'[d] \in Workers
    BY <2>1 DEF IInv, TypeOK, Flags, LockAbandonedByCancelOnly
  <2>. QED
    BY <2>1, <2>2, <2>3 DEF IInv, TypeOK, Flags, LockAbandonedByCancelOnly
<1>22. ASSUME NEW c \in Clients, NEW finish \in BOOLEAN, JoinCloses(c, finish) PROVE (Flags /\ LockAbandonedByCancelOnly)'
  <2>1. /\ cpc' = [cpc EXCEPT ![c] = "joining"] /\ cx' = [cx EXCEPT ![c] = 1]
        /\ closed' /\ shutdown' /\ ~closed
        /\ UNCHANGED <<mutex, wpc, cancelled, joined, aborted, cursize>>
    BY <1>22 DEF JoinCloses, ShutDown, IInv, TypeOK, Flags, LockAbandonedByCancelOnly
  <2>2. drain' /\ ~aborted => cursize = 0
    BY <1>22 DEF JoinCloses, MayClose, IInv, TypeOK, Flags, LockAbandonedByCancelOnly
  <2>. QED
    BY <2>1, <2>2 DEF IInv, TypeOK, Flags, LockAbandonedByCancelOnly
<1>23. CASE SpuriousWakeup
  BY <1>23 DEF SpuriousWakeup, IInv, TypeOK, FirstInFirstOut, Flags, LockAbandonedByCancelOnly, Sleepers, NoLostWakeup
<1>24. CASE ProcessEnds
  BY <1>24 DEF ProcessEnds, IInv, TypeOK, FirstInFirstOut, Flags, LockAbandonedByCancelOnly, Sleepers, NoLostWakeup
<1>25. CASE UNCHANGED crewVars
  BY <1>25 DEF crewVars, IInv, TypeOK, FirstInFirstOut, Flags, LockAbandonedByCancelOnly, Sleepers, NoLostWakeup
<1>. QED
  BY <1>1, <1>2, <1>3, <1>4, <1>5, <1>6, <1>7, <1>8, <1>9, <1>10, <1>11,
     <1>12, <1>13, <1>14, <1>15, <1>16, <1>17, <1>18, <1>19, <1>20, <1>21,
     <1>22, <1>23, <1>24, <1>25 DEF Next, WorkerStep, LoopStep, ClientStep,
     crew_add, crew_cancel, crew_join

\* Only a cancelled worker leaves a job unfinished.
LEMMA AccountedStep ==
    ASSUME IInv, [Next]_crewVars PROVE Accounted'
<1>. USE CrewAssumption DEF Workers, Free, queueVars, condVars, threadVars, clientVars, history
<1>1. ASSUME NEW w \in Workers, CreateThread(w) PROVE Accounted'
  BY <1>1 DEF CreateThread, IInv, TypeOK, FirstInFirstOut, OneWorkerPerJob, Accounted, Handed, Flags
<1>2. ASSUME NEW w \in Workers, Sleep(w) PROVE Accounted'
  BY <1>2 DEF Sleep, AtLoop, IInv, TypeOK, FirstInFirstOut, OneWorkerPerJob, Accounted, Handed, Flags
<1>3. ASSUME NEW w \in Workers, Exit(w) PROVE Accounted'
  BY <1>3 DEF Exit, AtLoop, MayExit, IInv, TypeOK, FirstInFirstOut, OneWorkerPerJob, Accounted, Handed, Flags
<1>4. ASSUME NEW w \in Workers, Take(w) PROVE Accounted'
  <2>1. /\ Handed \in Nat /\ Handed' = Handed + 1 /\ Head(queue) = Handed + 1
    BY <1>4 DEF Take, HasWork, IInv, TypeOK, FirstInFirstOut, Handed
  <2>2. /\ work' = [work EXCEPT ![w] = Handed + 1]
        /\ finished' = finished /\ aborted' = aborted
    BY <1>4, <2>1 DEF Take
  <2>3. wpc[w] # "run" /\ work[w] = 0
    BY <1>4 DEF Take, AtLoop, IInv, OneWorkerPerJob
  <2>. SUFFICES ASSUME ~aborted, NEW k \in 1 .. Handed'
                PROVE  k \in finished' \/ \E v \in Workers : work'[v] = k
    BY <2>2 DEF Accounted
  <2>4. CASE k = Handed + 1
    BY <2>2, <2>4 DEF IInv, TypeOK
  <2>5. CASE k \in 1 .. Handed
    <3>1. k \in finished \/ \E v \in Workers : work[v] = k
      BY <2>5 DEF IInv, Accounted
    <3>2. \A v \in Workers : work[v] = k => v # w
      BY <2>3, <2>5
    <3>. QED
      BY <3>1, <3>2, <2>2 DEF IInv, TypeOK
  <2>. QED
    BY <2>1, <2>4, <2>5
<1>5. ASSUME NEW w \in Workers, Return(w) PROVE Accounted'
  BY <1>5 DEF Return, IInv, TypeOK, FirstInFirstOut, OneWorkerPerJob, Accounted, Handed, Flags
<1>6. ASSUME NEW w \in Workers, DieRunning(w) PROVE Accounted'
  BY <1>6 DEF DieRunning, IInv, TypeOK, FirstInFirstOut, OneWorkerPerJob, Accounted, Handed, Flags
<1>7. ASSUME NEW w \in Workers, DieWaiting(w) PROVE Accounted'
  BY <1>7 DEF DieWaiting, IInv, TypeOK, FirstInFirstOut, OneWorkerPerJob, Accounted, Handed, Flags
<1>8. ASSUME NEW c \in Clients, AddFull(c) PROVE Accounted'
  BY <1>8 DEF AddFull, Enters, Returns, Full, IInv, TypeOK, FirstInFirstOut, OneWorkerPerJob, Accounted, Handed, Flags
<1>9. ASSUME NEW c \in Clients, AddSleeps(c) PROVE Accounted'
  BY <1>9 DEF AddSleeps, AddEnters, AddWakes, Enters, Full, IInv, TypeOK, FirstInFirstOut, OneWorkerPerJob, Accounted, Handed, Flags
<1>10. ASSUME NEW c \in Clients, AddRefused(c) PROVE Accounted'
  BY <1>10 DEF AddRefused, AddEnters, AddWakes, Enters, Returns, Full, IInv, TypeOK, FirstInFirstOut, OneWorkerPerJob, Accounted, Handed, Flags
<1>11. ASSUME NEW c \in Clients, AddAccepted(c) PROVE Accounted'
  BY <1>11 DEF AddAccepted, AddEnters, AddWakes, Enters, Returns, Full, Enqueued, EmptyAfterAdd, IInv, TypeOK, FirstInFirstOut, OneWorkerPerJob, Accounted, Handed, Flags
<1>12. ASSUME NEW c \in Clients, CancelEnters(c) PROVE Accounted'
  BY <1>12 DEF CancelEnters, Enters, crew_set_shutdown, WakeAll, IInv, TypeOK, FirstInFirstOut, OneWorkerPerJob, Accounted, Handed, Flags
<1>13. ASSUME NEW c \in Clients, CancelOne(c) PROVE Accounted'
  BY <1>13 DEF CancelOne, NextThread, LastThread, Returns, IInv, TypeOK, FirstInFirstOut, OneWorkerPerJob, Accounted, Handed, Flags
<1>14. ASSUME NEW c \in Clients, GetShutdown(c) PROVE Accounted'
  BY <1>14 DEF GetShutdown, Enters, Returns, IInv, TypeOK, FirstInFirstOut, OneWorkerPerJob, Accounted, Handed, Flags
<1>15. ASSUME NEW c \in Clients, Destroy(c) PROVE Accounted'
  BY <1>15 DEF Destroy, Enters, crew_destroy, IInv, TypeOK, FirstInFirstOut, OneWorkerPerJob, Accounted, Handed, Flags
<1>16. ASSUME NEW c \in Clients, JoinRefused(c) PROVE Accounted'
  BY <1>16 DEF JoinRefused, Enters, Returns, IInv, TypeOK, FirstInFirstOut, OneWorkerPerJob, Accounted, Handed, Flags
<1>17. ASSUME NEW c \in Clients, JoinWaits(c) PROVE Accounted'
  BY <1>17 DEF JoinWaits, Enters, IInv, TypeOK, FirstInFirstOut, OneWorkerPerJob, Accounted, Handed, Flags
<1>18. ASSUME NEW c \in Clients, JoinDrained(c) PROVE Accounted'
  BY <1>18 DEF JoinDrained, ShutDown, IInv, TypeOK, FirstInFirstOut, OneWorkerPerJob, Accounted, Handed, Flags
<1>19. ASSUME NEW c \in Clients, JoinWaitsAgain(c) PROVE Accounted'
  BY <1>19 DEF JoinWaitsAgain, IInv, TypeOK, FirstInFirstOut, OneWorkerPerJob, Accounted, Handed, Flags
<1>20. ASSUME NEW c \in Clients, JoinTimesOut(c) PROVE Accounted'
  BY <1>20 DEF JoinTimesOut, IInv, TypeOK, FirstInFirstOut, OneWorkerPerJob, Accounted, Handed, Flags
<1>21. ASSUME NEW c \in Clients, JoinOne(c) PROVE Accounted'
  BY <1>21 DEF JoinOne, NextThread, LastThread, Returns, IInv, TypeOK, FirstInFirstOut, OneWorkerPerJob, Accounted, Handed, Flags
<1>22. ASSUME NEW c \in Clients, NEW finish \in BOOLEAN, JoinCloses(c, finish) PROVE Accounted'
  BY <1>22 DEF JoinCloses, Enters, MayClose, ShutDown, IInv, TypeOK, FirstInFirstOut, OneWorkerPerJob, Accounted, Handed, Flags
<1>23. CASE SpuriousWakeup
  BY <1>23 DEF SpuriousWakeup, IInv, TypeOK, FirstInFirstOut, OneWorkerPerJob, Accounted, Handed, Flags
<1>24. CASE ProcessEnds
  BY <1>24 DEF ProcessEnds, IInv, TypeOK, FirstInFirstOut, OneWorkerPerJob, Accounted, Handed, Flags
<1>25. CASE UNCHANGED crewVars
  BY <1>25 DEF crewVars, IInv, TypeOK, FirstInFirstOut, OneWorkerPerJob, Accounted, Handed, Flags
<1>. QED
  BY <1>1, <1>2, <1>3, <1>4, <1>5, <1>6, <1>7, <1>8, <1>9, <1>10, <1>11,
     <1>12, <1>13, <1>14, <1>15, <1>16, <1>17, <1>18, <1>19, <1>20, <1>21,
     <1>22, <1>23, <1>24, <1>25 DEF Next, WorkerStep, LoopStep, ClientStep,
     crew_add, crew_cancel, crew_join

-----------------------------------------------------------------------------
\* Every step keeps the inductive invariant,
LEMMA StepIInv == ASSUME IInv, [Next]_crewVars PROVE IInv'
  BY TypeStep, FifoStep, OneWorkerStep, WakeupStep, FlagsStep, AccountedStep DEF IInv

\* which holds in every reachable state.
LEMMA Inductive == Spec => []IInv
<1>1. IInv /\ [Next]_crewVars => IInv'
  BY StepIInv
<1>. QED
  BY <1>1, InitIInv, PTL DEF Spec

\* The fields of CREW_T and the program counters keep their types, and only a worker that
\* crew_cancel hit in its wait dies with crew->lock.
THEOREM StateCorrect == Spec => []CrewStateOK
<1>1. IInv => CrewStateOK
  BY DEF IInv, CrewStateOK
<1>. QED
  BY <1>1, Inductive, PTL

\* crew_add and crew_thread keep the list, cursize and the order of service in agreement,
\* for any number of threads and clients, and no job is ever run by two workers, or again
\* after its routine returned.
THEOREM ServedInOrder == Spec => []ServedOnce
<1>1. IInv => ServedOnce
  BY DEF IInv, ServedOnce
<1>. QED
  BY <1>1, Inductive, PTL

\* Nobody sleeps on a condition that holds: the signals at the edges suffice.
THEOREM WakeupsSuffice == Spec => []NoLostWakeup
<1>1. IInv => NoLostWakeup
  BY DEF IInv
<1>. QED
  BY <1>1, Inductive, PTL

\* Once the threads are joined the queue is empty, and nobody runs a job.
LEMMA IInvJoinDrains == IInv => JoinDrains
<1>. SUFFICES ASSUME IInv, Joined, drain, ~aborted PROVE finished = 1 .. total
  BY DEF JoinDrains
<1>1. \A w \in Workers : wpc[w] = "exit" /\ work[w] = 0
  BY DEF IInv, Flags, OneWorkerPerJob, Joined
<1>2. shutdown
  BY <1>1, CrewAssumption DEF IInv, Flags, Workers
<1>3. cursize = 0 /\ Handed = total
  BY <1>2 DEF IInv, TypeOK, Flags, Handed
<1>4. \A k \in 1 .. total : k \in finished
  BY <1>1, <1>3 DEF IInv, Accounted
<1>. QED
  BY <1>3, <1>4 DEF IInv, OneWorkerPerJob

\* A crew_join with finish, undisturbed by crew_cancel, leaves no job unfinished.
THEOREM JoinLeavesNothing == Spec => []JoinDrains
  BY IInvJoinDrains, Inductive, PTL

\* Every step of the crew is a step of the pool, or none of its business.
LEMMA PoolStep ==
    ASSUME IInv, [Next]_crewVars PROVE [Pool!Next]_(Pool!vars)
<1>. USE CrewAssumption DEF Workers, Free, queueVars, condVars, threadVars, clientVars, history
<1>1. ASSUME NEW w \in Workers, CreateThread(w) PROVE [Pool!Next]_(Pool!vars)
  BY <1>1 DEF CreateThread, Pool!vars, Handed
<1>2. ASSUME NEW w \in Workers, Sleep(w) PROVE [Pool!Next]_(Pool!vars)
  BY <1>2 DEF Sleep, AtLoop, Pool!vars, Handed
<1>3. ASSUME NEW w \in Workers, Exit(w) PROVE [Pool!Next]_(Pool!vars)
  BY <1>3 DEF Exit, AtLoop, MayExit, Pool!vars, Handed
<1>4. ASSUME NEW w \in Workers, Take(w) PROVE [Pool!Next]_(Pool!vars)
  <2>1. cursize \in Nat \ {0} /\ total \in Nat /\ cursize <= total
    BY <1>4 DEF Take, HasWork, IInv, TypeOK, FirstInFirstOut
  <2>2. Head(queue) = Handed + 1
    BY <1>4, <2>1 DEF IInv, FirstInFirstOut, Handed
  <2>3. Handed' = Handed + 1 /\ Handed < total
    BY <1>4, <2>1 DEF Take, Handed
  <2>4. /\ Handed' = Handed + 1 /\ Handed < total
        /\ total' = total /\ shutdown' = shutdown /\ closed' = closed
        /\ work' = [work EXCEPT ![w] = Handed + 1]
    BY <1>4, <2>2, <2>3 DEF Take
  <2>5. ~shutdown /\ work[w] = 0
    BY <1>4 DEF Take, AtLoop, HasWork, IInv, OneWorkerPerJob
  <2>6. Pool!Hand(w)
    BY <2>4, <2>5 DEF Pool!Hand
  <2>. QED
    BY <2>6 DEF Pool!Next
<1>5. ASSUME NEW w \in Workers, Return(w) PROVE [Pool!Next]_(Pool!vars)
  <2>1. work[w] # 0
    BY <1>5 DEF Return, IInv, OneWorkerPerJob
  <2>2. Pool!End(w)
    BY <1>5, <2>1 DEF Return, Pool!End, Handed
  <2>. QED
    BY <2>2 DEF Pool!Next
<1>6. ASSUME NEW w \in Workers, DieRunning(w) PROVE [Pool!Next]_(Pool!vars)
  <2>1. work[w] # 0
    BY <1>6 DEF DieRunning, IInv, OneWorkerPerJob
  <2>2. Pool!End(w)
    BY <1>6, <2>1 DEF DieRunning, Pool!End, Handed
  <2>. QED
    BY <2>2 DEF Pool!Next
<1>7. ASSUME NEW w \in Workers, DieWaiting(w) PROVE [Pool!Next]_(Pool!vars)
  BY <1>7 DEF DieWaiting, Pool!vars, Handed
<1>8. ASSUME NEW c \in Clients, AddFull(c) PROVE [Pool!Next]_(Pool!vars)
  BY <1>8 DEF AddFull, Enters, Returns, Full, Pool!vars, Handed
<1>9. ASSUME NEW c \in Clients, AddSleeps(c) PROVE [Pool!Next]_(Pool!vars)
  BY <1>9 DEF AddSleeps, AddEnters, AddWakes, Enters, Full, Pool!vars, Handed
<1>10. ASSUME NEW c \in Clients, AddRefused(c) PROVE [Pool!Next]_(Pool!vars)
  BY <1>10 DEF AddRefused, AddEnters, AddWakes, Enters, Returns, Full, Pool!vars, Handed
<1>11. ASSUME NEW c \in Clients, AddAccepted(c) PROVE [Pool!Next]_(Pool!vars)
  <2>1. /\ total' = total + 1 /\ cursize' = cursize + 1 /\ work' = work
        /\ closed' = closed /\ shutdown' = shutdown /\ ~(shutdown \/ closed)
    BY <1>11 DEF AddAccepted
  <2>2. Handed' = Handed
    BY <2>1 DEF Handed, IInv, TypeOK
  <2>3. Pool!Accept
    BY <2>1, <2>2 DEF Pool!Accept
  <2>. QED
    BY <2>3 DEF Pool!Next
<1>12. ASSUME NEW c \in Clients, CancelEnters(c) PROVE [Pool!Next]_(Pool!vars)
  <2>1. /\ shutdown' = TRUE
        /\ UNCHANGED <<total, cursize, work>>
    BY <1>12 DEF CancelEnters, crew_set_shutdown
  <2>2. Pool!Close
    BY <2>1 DEF Pool!Close, Handed
  <2>. QED
    BY <2>2 DEF Pool!Next
<1>13. ASSUME NEW c \in Clients, CancelOne(c) PROVE [Pool!Next]_(Pool!vars)
  BY <1>13 DEF CancelOne, NextThread, LastThread, Returns, Pool!vars, Handed
<1>14. ASSUME NEW c \in Clients, GetShutdown(c) PROVE [Pool!Next]_(Pool!vars)
  BY <1>14 DEF GetShutdown, Enters, Returns, Pool!vars, Handed
<1>15. ASSUME NEW c \in Clients, Destroy(c) PROVE [Pool!Next]_(Pool!vars)
  BY <1>15 DEF Destroy, Enters, crew_destroy, Pool!vars, Handed
<1>16. ASSUME NEW c \in Clients, JoinRefused(c) PROVE [Pool!Next]_(Pool!vars)
  BY <1>16 DEF JoinRefused, Enters, Returns, Pool!vars, Handed
<1>17. ASSUME NEW c \in Clients, JoinWaits(c) PROVE [Pool!Next]_(Pool!vars)
  <2>1. /\ closed' = TRUE /\ shutdown' = shutdown
        /\ UNCHANGED <<total, cursize, work>>
    BY <1>17 DEF JoinWaits
  <2>2. Pool!Close
    BY <2>1 DEF Pool!Close, Handed
  <2>. QED
    BY <2>2 DEF Pool!Next
<1>18. ASSUME NEW c \in Clients, JoinDrained(c) PROVE [Pool!Next]_(Pool!vars)
  <2>1. /\ shutdown' = TRUE
        /\ UNCHANGED <<total, cursize, work>>
    BY <1>18 DEF JoinDrained, ShutDown
  <2>2. Pool!Close
    BY <2>1 DEF Pool!Close, Handed
  <2>. QED
    BY <2>2 DEF Pool!Next
<1>19. ASSUME NEW c \in Clients, JoinWaitsAgain(c) PROVE [Pool!Next]_(Pool!vars)
  BY <1>19 DEF JoinWaitsAgain, Pool!vars, Handed
<1>20. ASSUME NEW c \in Clients, JoinTimesOut(c) PROVE [Pool!Next]_(Pool!vars)
  BY <1>20 DEF JoinTimesOut, Pool!vars, Handed
<1>21. ASSUME NEW c \in Clients, JoinOne(c) PROVE [Pool!Next]_(Pool!vars)
  BY <1>21 DEF JoinOne, NextThread, LastThread, Returns, Pool!vars, Handed
<1>22. ASSUME NEW c \in Clients, NEW finish \in BOOLEAN, JoinCloses(c, finish) PROVE [Pool!Next]_(Pool!vars)
  <2>1. /\ shutdown' = TRUE
        /\ UNCHANGED <<total, cursize, work>>
    BY <1>22 DEF JoinCloses, ShutDown
  <2>2. Pool!Close
    BY <2>1 DEF Pool!Close, Handed
  <2>. QED
    BY <2>2 DEF Pool!Next
<1>23. CASE SpuriousWakeup
  BY <1>23 DEF SpuriousWakeup, Pool!vars, Handed
<1>24. CASE ProcessEnds
  BY <1>24 DEF ProcessEnds, Pool!vars, Handed
<1>25. CASE UNCHANGED crewVars
  BY <1>25 DEF crewVars, Pool!vars, Handed
<1>. QED
  BY <1>1, <1>2, <1>3, <1>4, <1>5, <1>6, <1>7, <1>8, <1>9, <1>10, <1>11,
     <1>12, <1>13, <1>14, <1>15, <1>16, <1>17, <1>18, <1>19, <1>20, <1>21,
     <1>22, <1>23, <1>24, <1>25 DEF Next, WorkerStep, LoopStep, ClientStep,
     crew_add, crew_cancel, crew_join

\* crew.c implements the pool: jobs go to idle workers once each and in order,
\* none is taken after closed or shutdown and none is handed out after shutdown.
THEOREM ImplementsPool == Spec => PoolSpec
<1>1. Init => Pool!Init
  BY DEF Init, Pool!Init, Handed
<1>. QED
  BY <1>1, PoolStep, Inductive, PTL DEF Spec, PoolSpec, Pool!Spec

-----------------------------------------------------------------------------
(* The siege.                                                              *)

\* Main has joined the crew.
AfterJoin == {"signal", "joinHandler", "cancelTimer", "joinTimer", "sum", "exit"}

\* How far the signal thread, the timer and the crew are, by where main is.
Course ==
    /\ mpc # "create" => made = "made"
    /\ freed <=> mpc = "exit"
    /\ hpc = "none" <=> mpc = "create"
    /\ mpc \in {"cancelTimer", "joinTimer", "sum", "exit"} => hpc = "gone"
    /\ mpc = "timer" => timed
    /\ ~timed => tpc = "none"
    /\ mpc \in {"sum", "exit"} => tpc \in {"none", "gone"}

\* Which calls of the crew the two clients can be in, and what a call has brought about.
Calls ==
    /\ block = FALSE
    /\ cpc[Main] # "idle" => mpc = "join" /\ cpc[Main] \in {"draining", "joining"}
    /\ cpc[Handler] # "idle" => hpc = "cancel" /\ cpc[Handler] = "cancelling"
    /\ closed => drain /\ (mpc \in AfterJoin \/ cpc[Main] # "idle")
    /\ mpc \in AfterJoin => closed /\ joined = Workers
    /\ cpc[Main] = "joining" => \A w \in Workers : w < cx[Main] => w \in joined

\* Main's counter is the crew's; only an abort keeps main from adding every browser.
Counts ==
    /\ total = i
    /\ mpc = "add" => i < Users
    /\ mpc = "join" \/ mpc \in AfterJoin => i = Users \/ aborted
    /\ mpc = "exit" => summed = Summed

\* The inductive invariant of the siege, on top of that of the crew.
SInv == SiegeTypeOK /\ Course /\ Calls /\ Counts

-----------------------------------------------------------------------------
\* Main and the handler are two clients of the crew.
LEMMA TwoClients ==
    /\ Main \in Clients /\ Handler \in Clients /\ Main # Handler
    /\ \A c \in Clients : c = Main \/ c = Handler
    /\ Users \in Nat \ {0} /\ MaxSize = Users /\ MaxSignals \in Nat
  BY SiegeAssumption, CrewAssumption DEF Users

\* The state the siege begins in.
LEMMA InitSInv == SiegeInit => SInv
<1>. SUFFICES ASSUME SiegeInit PROVE SInv
  OBVIOUS
<1>. USE TwoClients DEF SiegeInit, Init
<1>1. SiegeTypeOK
  <2>1. i \in 0 .. Users /\ summed \in 0 .. Users /\ sent \in 0 .. MaxSignals
    OBVIOUS
  <2>. QED
    BY <2>1 DEF SiegeTypeOK
<1>2. Course
  BY DEF Course
<1>3. Calls
  BY DEF Calls, AfterJoin
<1>4. Counts
  BY DEF Counts, AfterJoin
<1>. QED
  BY <1>1, <1>2, <1>3, <1>4 DEF SInv

-----------------------------------------------------------------------------
(* What a step does to the part of the crew that main and the handler      *)
(* know of.                                                                *)

clientView == <<total, block, closed, freed, drain, aborted, cpc, cx, joined>>

\* A worker leaves it alone.
LEMMA WorkersView ==
    ASSUME CrewStep
    PROVE  /\ UNCHANGED <<clientView, siegeOnly>>
           /\ made = "made" => made' = "made"
<1>. USE DEF queueVars, condVars, threadVars, clientVars, history, clientView
<1>1. ASSUME NEW w \in Workers, CreateThread(w)
      PROVE  UNCHANGED clientView /\ (made = "made" => made' = "made")
  BY <1>1 DEF CreateThread
<1>2. ASSUME NEW w \in Workers, WorkerStep(w)
      PROVE  UNCHANGED clientView /\ made' = made
  BY <1>2 DEF WorkerStep, LoopStep, Sleep, Exit, Take, Return, DieRunning, DieWaiting
<1>3. ASSUME SpuriousWakeup PROVE UNCHANGED clientView /\ made' = made
  BY <1>3 DEF SpuriousWakeup
<1>. QED
  BY <1>1, <1>2, <1>3 DEF CrewStep

\* crew_add takes a browser, or refuses it because the crew was shut down: the queue has
\* room for all of them, and nobody but main closes it.
LEMMA AddView ==
    ASSUME IInv, SInv, At("add"), crew_add(Main)
    PROVE  /\ UNCHANGED <<block, closed, freed, drain, aborted, cpc, cx, joined, made>>
           /\ \/ result'[Main] = TRUE /\ total' = total + 1
              \/ result'[Main] = FALSE /\ total' = total /\ aborted
<1>. USE TwoClients
<1>1. cpc[Main] = "idle" /\ cpc \in [Clients -> {"idle", "adding", "cancelling", "draining", "joining"}]
      /\ result \in [Clients -> BOOLEAN]
  BY DEF At, SInv, Calls, IInv, TypeOK
<1>2. ~Full /\ ~block /\ ~closed
  BY <1>1 DEF At, SInv, Calls, Counts, AfterJoin, Full, IInv, FirstInFirstOut, TypeOK
<1>3. shutdown => aborted
  BY <1>2 DEF IInv, Flags
<1>4. CASE AddFull(Main)
  BY <1>4, <1>2 DEF AddFull
<1>5. CASE AddSleeps(Main)
  BY <1>5, <1>2 DEF AddSleeps
<1>6. CASE AddRefused(Main)
  BY <1>6, <1>1, <1>2, <1>3
     DEF AddRefused, Returns, queueVars, threadVars, history
<1>7. CASE AddAccepted(Main)
  BY <1>7, <1>1 DEF AddAccepted, Returns, threadVars, history
<1>. QED
  BY <1>4, <1>5, <1>6, <1>7 DEF crew_add

\* crew_join goes on, or it has joined every thread.
LEMMA JoinView ==
    ASSUME IInv, SInv, At("join"), crew_join(Main, TRUE)
    PROVE  /\ UNCHANGED <<total, block, freed, aborted, made>>
           /\ cpc'[Handler] = cpc[Handler]
           /\ closed' /\ drain'
           /\ \/ cpc'[Main] = "draining"
              \/ cpc'[Main] = "joining" /\ \A w \in Workers : w < cx'[Main] => w \in joined'
              \/ cpc'[Main] = "idle" /\ joined' = Workers
<1>. USE TwoClients, CrewAssumption
<1>. USE DEF queueVars, condVars, threadVars, clientVars, history
<1>1. /\ cpc \in [Clients -> {"idle", "adding", "cancelling", "draining", "joining"}]
      /\ cx \in [Clients -> Nat]
  BY DEF IInv, TypeOK
<1>2. closed => drain /\ cpc[Main] # "idle"
  BY DEF At, SInv, Calls, AfterJoin
<1>3. cpc[Main] \in {"draining", "joining"} => closed /\ drain
  BY <1>2 DEF IInv, Flags
<1>4. CASE JoinRefused(Main)
  BY <1>4, <1>2 DEF JoinRefused, Enters
<1>5. CASE JoinCloses(Main, TRUE)
  <2>1. /\ cpc' = [cpc EXCEPT ![Main] = "joining"] /\ cx' = [cx EXCEPT ![Main] = 1]
        /\ closed' = TRUE /\ drain' = TRUE
        /\ UNCHANGED <<total, block, freed, aborted, made>>
    BY <1>5 DEF JoinCloses, ShutDown
  <2>. QED
    BY <2>1, <1>1 DEF Workers
<1>6. CASE JoinWaits(Main)
  BY <1>6, <1>1 DEF JoinWaits
<1>7. CASE JoinDrained(Main)
  <2>1. /\ cpc' = [cpc EXCEPT ![Main] = "joining"] /\ cx' = [cx EXCEPT ![Main] = 1]
        /\ UNCHANGED <<closed, drain, total, block, freed, aborted, made>>
        /\ cpc[Main] = "draining"
    BY <1>7 DEF JoinDrained, ShutDown
  <2>. QED
    BY <2>1, <1>1, <1>3 DEF Workers
<1>8. CASE JoinWaitsAgain(Main)
  BY <1>8, <1>3 DEF JoinWaitsAgain
<1>9. CASE JoinTimesOut(Main)
  BY <1>9, <1>3 DEF JoinTimesOut
<1>10. CASE JoinOne(Main)
  <2>1. /\ cpc[Main] = "joining" /\ joined' = joined \cup {cx[Main]}
        /\ cx' = [cx EXCEPT ![Main] = @ + 1]
        /\ cpc' = IF cx[Main] = Size THEN [cpc EXCEPT ![Main] = "idle"] ELSE cpc
        /\ UNCHANGED <<closed, drain, total, block, freed, aborted, made>>
    BY <1>10 DEF JoinOne, NextThread, LastThread, Returns
  <2>2. \A w \in Workers : w < cx[Main] => w \in joined
    BY <2>1 DEF SInv, Calls
  <2>3. cx[Main] \in Workers /\ cx'[Main] = cx[Main] + 1 /\ joined \subseteq Workers
    BY <2>1, <1>1 DEF IInv, Flags, TypeOK
  <2>4. \A w \in Workers : w < cx'[Main] => w \in joined'
    BY <2>1, <2>2, <2>3 DEF Workers
  <2>5. ASSUME cx[Main] = Size PROVE joined' = Workers
    <3>1. joined' \subseteq Workers
      BY <2>1, <2>3
    <3>2. \A w \in Workers : w < cx'[Main]
      BY <2>3, <2>5 DEF Workers
    <3>. QED
      BY <3>1, <3>2, <2>4
  <2>. QED
    BY <2>1, <2>4, <2>5, <1>1, <1>3
<1>. QED
  BY <1>4, <1>5, <1>6, <1>7, <1>8, <1>9, <1>10 DEF crew_join

\* crew_cancel marks the crew as aborted and touches no call but its own.
LEMMA CancelView ==
    ASSUME IInv, SInv, crew_cancel(Handler)
    PROVE  /\ UNCHANGED <<total, block, closed, freed, drain, joined, made>>
           /\ cpc'[Main] = cpc[Main] /\ cx'[Main] = cx[Main]
           /\ aborted'
           /\ cpc'[Handler] \in {"idle", "cancelling"}
<1>. USE TwoClients DEF queueVars, condVars, threadVars, clientVars, history
<1>1. /\ cpc \in [Clients -> {"idle", "adding", "cancelling", "draining", "joining"}]
      /\ cx \in [Clients -> Nat]
  BY DEF IInv, TypeOK
<1>2. CASE CancelEnters(Handler)
  BY <1>2, <1>1 DEF CancelEnters
<1>3. CASE CancelOne(Handler)
  BY <1>3, <1>1 DEF CancelOne, NextThread, Returns, IInv, Flags
<1>. QED
  BY <1>2, <1>3 DEF crew_cancel

\* crew_get_shutdown changes nothing but what it returns.
LEMMA GetView ==
    ASSUME IInv, NEW c \in Clients, GetShutdown(c)
    PROVE  UNCHANGED <<clientView, made, shutdown>>
<1>1. cpc[c] = "idle" /\ cpc' = [cpc EXCEPT ![c] = "idle"]
  BY DEF GetShutdown, Enters, Returns
<1>2. cpc' = cpc
  BY <1>1 DEF IInv, TypeOK
<1>. QED
  BY <1>2 DEF GetShutdown, clientView, queueVars, threadVars, history

-----------------------------------------------------------------------------
\* A step of the siege is a step of the crew, or none of its business: crew_destroy comes
\* when every thread is joined and both clients are out of their calls.
LEMMA CrewContract ==
    ASSUME IInv, SInv, [SiegeNext]_vars
    PROVE  [Next]_crewVars
<1>. USE TwoClients
<1>1. ASSUME NEW c \in Clients, ClientStep(c) PROVE Next
  BY <1>1 DEF Next
<1>2. CASE MainStep
  <2>1. CASE NoCrew \/ SpawnHandler \/ SpawnTimer \/ ResourcesExhausted
    BY <2>1 DEF NoCrew, SpawnHandler, SpawnTimer, ResourcesExhausted, Fatal, Next
  <2>2. CASE CheckLoop
    BY <2>2, <1>1 DEF CheckLoop, ClientStep
  <2>3. CASE AddBrowser
    BY <2>3, <1>1 DEF AddBrowser, ClientStep
  <2>4. CASE JoinCrew
    BY <2>4, <1>1 DEF JoinCrew, Finish, ClientStep
  <2>5. CASE SignalHandler \/ JoinHandler \/ CancelTimer \/ JoinTimer
    BY <2>5 DEF SignalHandler, JoinHandler, CancelTimer, JoinTimer
  <2>6. CASE SumUp
    <3>1. made = "made" /\ ~freed /\ joined = Workers /\ proc = "up"
      BY <2>6 DEF SumUp, At, SInv, Course, Calls, AfterJoin
    <3>2. \A d \in Clients : cpc[d] = "idle"
      BY <2>6 DEF SumUp, At, SInv, Course, Calls
    <3>3. Destroy(Main)
      BY <2>6, <3>1, <3>2 DEF SumUp, Destroy, Enters
    <3>. QED
      BY <3>3, <1>1 DEF ClientStep
  <2>. QED
    BY <1>2, <2>1, <2>2, <2>3, <2>4, <2>5, <2>6 DEF MainStep
<1>3. CASE HandlerStep
  <2>1. CASE SigWait \/ HandlerReturns
    BY <2>1 DEF SigWait, HandlerReturns
  <2>2. CASE TestSignal
    BY <2>2, <1>1 DEF TestSignal, ClientStep
  <2>3. CASE CancelCrew
    BY <2>3, <1>1 DEF CancelCrew, ClientStep
  <2>. QED
    BY <1>3, <2>1, <2>2, <2>3 DEF HandlerStep
<1>4. CASE TimerStep
  BY <1>4 DEF TimerStep, TimerFires, TimerSignals, TimerDies, Next
<1>5. CASE UserSignal
  BY <1>5 DEF UserSignal
<1>6. CASE CrewStep
  BY <1>6 DEF CrewStep, Next
<1>7. CASE UNCHANGED vars
  BY <1>7 DEF vars
<1>. QED
  BY <1>2, <1>3, <1>4, <1>5, <1>6, <1>7 DEF SiegeNext

-----------------------------------------------------------------------------
\* Every step keeps the invariant of the siege.
LEMMA SInvStep ==
    ASSUME IInv, SInv, [SiegeNext]_vars
    PROVE  SInv'
<1>. USE TwoClients
<1>. USE DEF mainVars, handlerVars, timerVars, clientView, Fatal, At, GoTo
<1>0. TypeOK /\ SiegeTypeOK /\ Course /\ Calls /\ Counts
  BY DEF SInv, IInv
<1>1. CASE NoCrew \/ ResourcesExhausted
  <2>1. UNCHANGED <<clientView, made, siegeOnly>>
    BY <1>1 DEF NoCrew, ResourcesExhausted, ProcessEnds, queueVars, threadVars, clientVars, history
  <2>. QED
    BY <1>0, <2>1 DEF siegeOnly, SInv, SiegeTypeOK, Course, Calls, Counts, AfterJoin, Summed
<1>2. CASE SpawnHandler \/ SpawnTimer
  <2>5. mpc \in {"create", "timer"} /\ mpc' \in {"create", "timer", "check"}
    BY <1>2 DEF SpawnHandler, SpawnTimer
  <2>6. UNCHANGED <<i, summed>> /\ (hpc = "cancel" => hpc' = hpc)
    BY <1>0, <1>2 DEF SpawnHandler, SpawnTimer, Course
  <2>1. UNCHANGED <<clientView, made>>
    BY <1>2 DEF SpawnHandler, SpawnTimer, ProcessEnds, crewVars, queueVars, threadVars, clientVars, history
  <2>2. Course'
    BY <1>0, <1>2, <2>1 DEF SpawnHandler, SpawnTimer, SiegeTypeOK, Course
  <2>4. Calls' /\ Counts'
    BY <1>0, <2>1, <2>5, <2>6 DEF Calls, Counts, AfterJoin, Summed
  <2>7. UNCHANGED <<timed, gotsig, hjoined, sigs, tcancelled, sent>>
    BY <1>2 DEF SpawnHandler, SpawnTimer
  <2>8. hpc' \in {hpc, "sigwait"} /\ tpc' \in {tpc, "wait"}
    BY <1>2 DEF SpawnHandler, SpawnTimer
  <2>3. SiegeTypeOK'
    <3>1. SiegeTypeOK
      BY <1>0
    <3>. QED
      BY <2>5, <2>6, <2>7, <2>8, <3>1 DEF SiegeTypeOK
  <2>. QED
    BY <2>2, <2>3, <2>4 DEF SInv
<1>3. CASE CheckLoop
  <2>1. UNCHANGED <<clientView, made>>
    BY <1>3, GetView DEF CheckLoop, crewVars, queueVars, threadVars, clientVars, history
  <2>2. mpc' = "join" => i = Users \/ aborted
    BY <1>0, <1>3 DEF CheckLoop, Calls, AfterJoin, IInv, Flags
  <2>3. mpc' = "add" => i < Users
    BY <1>3 DEF CheckLoop
  <2>. QED
    <3>1. Course' /\ Calls' /\ Counts'
      BY <1>0, <1>3, <2>1, <2>2, <2>3 DEF CheckLoop, Course, Calls, Counts, AfterJoin, Summed
    <3>2. SiegeTypeOK'
      BY <1>0, <1>3, <2>1 DEF CheckLoop, SiegeTypeOK
    <3>. QED
      BY <3>1, <3>2 DEF SInv
<1>4. CASE AddBrowser
  <2>1. crew_add(Main) /\ At("add")
    BY <1>4 DEF AddBrowser
  <2>2. /\ UNCHANGED <<block, closed, freed, drain, aborted, cpc, cx, joined, made>>
        /\ \/ result'[Main] = TRUE /\ total' = total + 1
           \/ result'[Main] = FALSE /\ total' = total /\ aborted
    BY <2>1, AddView
  <2>. QED
    <3>1. Course' /\ Calls' /\ Counts'
      BY <1>0, <1>4, <2>2 DEF AddBrowser, SiegeTypeOK, Course, Calls, Counts, AfterJoin, Summed
    <3>2. SiegeTypeOK'
      BY <1>0, <1>4, <2>2 DEF AddBrowser, Counts, SiegeTypeOK
    <3>. QED
      BY <3>1, <3>2 DEF SInv
<1>5. CASE JoinCrew
  <2>1. crew_join(Main, TRUE) /\ At("join")
    BY <1>5 DEF JoinCrew, Finish
  <2>2. /\ UNCHANGED <<total, block, freed, aborted, made>>
        /\ cpc'[Handler] = cpc[Handler]
        /\ closed' /\ drain'
        /\ \/ cpc'[Main] = "draining"
           \/ cpc'[Main] = "joining" /\ \A w \in Workers : w < cx'[Main] => w \in joined'
           \/ cpc'[Main] = "idle" /\ joined' = Workers
    BY <2>1, JoinView
  <2>3. Course' /\ SiegeTypeOK'
    BY <1>0, <1>5, <2>2 DEF JoinCrew, SiegeTypeOK, Course
  <2>4. Calls' /\ Counts'
    BY <1>0, <1>5, <2>2 DEF JoinCrew, Calls, Counts, AfterJoin, Workers
  <2>. QED
    BY <2>3, <2>4 DEF SInv
<1>6. CASE SignalHandler \/ JoinHandler \/ CancelTimer \/ JoinTimer
  <2>1. Course' /\ Calls' /\ Counts'
    BY <1>0, <1>6 DEF SignalHandler, JoinHandler, CancelTimer, JoinTimer, HandlerEnded,
       crewVars, queueVars, threadVars, clientVars, history,
       Course, Calls, Counts, AfterJoin, Summed
  <2>2. sigs' \subseteq {"HUP", "INT", "TERM"}
    BY <1>0, <1>6 DEF SignalHandler, JoinHandler, CancelTimer, JoinTimer, MainSignal, SiegeTypeOK
  <2>3. mpc' \in {"joinHandler", "cancelTimer", "joinTimer", "sum"}
    BY <1>6 DEF SignalHandler, JoinHandler, CancelTimer, JoinTimer
  <2>5. UNCHANGED <<i, summed, timed, hpc, gotsig, tpc, sent>>
    BY <1>6 DEF SignalHandler, JoinHandler, CancelTimer, JoinTimer
  <2>6. hjoined' \in {hjoined, TRUE} /\ tcancelled' \in {tcancelled, TRUE}
    BY <1>6 DEF SignalHandler, JoinHandler, CancelTimer, JoinTimer
  <2>4. SiegeTypeOK'
    <3>1. SiegeTypeOK
      BY <1>0
    <3>2. timed' \in BOOLEAN /\ hjoined' \in BOOLEAN /\ tcancelled' \in BOOLEAN
      BY <2>5, <2>6, <3>1 DEF SiegeTypeOK
    <3>3. /\ hpc' \in {"none", "sigwait", "test", "cancel", "sleep", "gone"}
          /\ tpc' \in {"none", "wait", "fired", "gone"}
          /\ gotsig' \in {"none", "HUP", "INT", "TERM"}
      BY <2>5, <3>1 DEF SiegeTypeOK
    <3>4. i' \in 0 .. Users /\ summed' \in 0 .. Users /\ sent' \in 0 .. MaxSignals
      BY <2>5, <3>1 DEF SiegeTypeOK
    <3>. QED
      BY <2>2, <2>3, <3>2, <3>3, <3>4 DEF SiegeTypeOK
  <2>. QED
    BY <2>1, <2>4 DEF SInv
<1>7. CASE SumUp
  <2>1. total \in 0 .. Users
    BY <1>0 DEF SiegeTypeOK, Counts
  <2>2. Summed \in 0 .. Users
    BY <2>1 DEF Summed
  <2>. QED
    BY <1>0, <1>7, <2>2 DEF SumUp, crew_destroy, queueVars, threadVars, clientVars, history,
       SInv, SiegeTypeOK, Course, Calls, Counts, AfterJoin, Summed
<1>8. CASE SigWait \/ HandlerReturns
  <2>1. Course' /\ Calls' /\ Counts'
    BY <1>0, <1>8 DEF SigWait, HandlerReturns, crewVars, queueVars, threadVars, clientVars, history,
       Course, Calls, Counts, AfterJoin, Summed
  <2>2. sigs' \subseteq {"HUP", "INT", "TERM"} /\ gotsig' \in {"none", "HUP", "INT", "TERM"}
    BY <1>0, <1>8 DEF SigWait, HandlerReturns, SiegeTypeOK
  <2>3. aborted' = aborted
    BY <1>8 DEF SigWait, HandlerReturns, crewVars, history
  <2>4. SiegeTypeOK'
    BY <1>0, <1>8, <2>2, <2>3 DEF SigWait, HandlerReturns, SiegeTypeOK
  <2>. QED
    BY <2>1, <2>4 DEF SInv
<1>9. CASE TestSignal
  <2>1. UNCHANGED <<clientView, made>>
    BY <1>9, GetView DEF TestSignal, crewVars, queueVars, threadVars, clientVars, history
  <2>. QED
    BY <1>0, <1>9, <2>1 DEF TestSignal, SInv, SiegeTypeOK, Course, Calls, Counts, AfterJoin, Summed
<1>10. CASE CancelCrew
  <2>1. /\ UNCHANGED <<total, block, closed, freed, drain, joined, made>>
        /\ cpc'[Main] = cpc[Main] /\ cx'[Main] = cx[Main]
        /\ aborted'
        /\ cpc'[Handler] \in {"idle", "cancelling"}
    BY <1>10, CancelView DEF CancelCrew
  <2>. QED
    BY <1>0, <1>10, <2>1 DEF CancelCrew, SInv, SiegeTypeOK, Course, Calls, Counts, AfterJoin, Summed
<1>11. CASE TimerStep
  <2>1. UNCHANGED <<clientView, made, mpc, hpc, i, summed, timed>>
    BY <1>11 DEF TimerStep, TimerFires, TimerSignals, TimerDies, ProcessEnds,
       crewVars, queueVars, threadVars, clientVars, history
  <2>2. tpc' \in {"fired", "gone"} /\ tpc \in {"wait", "fired"} /\ (tpc' = "fired" => tpc = "wait")
    BY <1>11 DEF TimerStep, TimerFires, TimerSignals, TimerDies
  <2>3. sigs' \in {sigs, sigs \cup {"TERM"}}
    BY <1>11 DEF TimerStep, TimerFires, TimerSignals, TimerDies
  <2>4. Course' /\ Calls' /\ Counts'
    BY <1>0, <2>1, <2>2 DEF Course, Calls, Counts, AfterJoin, Summed
  <2>5. UNCHANGED <<gotsig, hjoined, tcancelled, sent>>
    BY <1>11 DEF TimerStep, TimerFires, TimerSignals, TimerDies
  <2>6. SiegeTypeOK'
    BY <1>0, <2>1, <2>2, <2>3, <2>5 DEF SiegeTypeOK
  <2>. QED
    BY <2>4, <2>6 DEF SInv
<1>12. CASE UserSignal
  <2>1. UNCHANGED <<clientView, made, mainVars, timed, handlerVars, timerVars>>
    BY <1>12 DEF UserSignal, crewVars, queueVars, threadVars, clientVars, history
  <2>2. Course' /\ Calls' /\ Counts'
    BY <1>0, <2>1 DEF Course, Calls, Counts, AfterJoin, Summed
  <2>3. PICK s \in {"HUP", "INT", "TERM"} : sigs' = sigs \cup {s}
    BY <1>12 DEF UserSignal
  <2>4. sent' \in 0 .. MaxSignals
    BY <1>0, <1>12 DEF UserSignal, SiegeTypeOK
  <2>5. SiegeTypeOK'
    BY <1>0, <2>1, <2>3, <2>4 DEF SiegeTypeOK
  <2>. QED
    BY <2>2, <2>5 DEF SInv
<1>13. CASE CrewStep
  <2>1. /\ UNCHANGED <<clientView, siegeOnly>>
        /\ made = "made" => made' = "made"
    BY <1>13, WorkersView
  <2>. QED
    BY <1>0, <2>1 DEF siegeOnly, SInv, SiegeTypeOK, Course, Calls, Counts, AfterJoin, Summed
<1>14. CASE UNCHANGED vars
  BY <1>0, <1>14 DEF vars, siegeOnly, crewVars, queueVars, threadVars, clientVars, history,
     SInv, SiegeTypeOK, Course, Calls, Counts, AfterJoin, Summed
<1>. QED
  BY <1>1, <1>2, <1>3, <1>4, <1>5, <1>6, <1>7, <1>8, <1>9, <1>10, <1>11, <1>12, <1>13, <1>14
     DEF SiegeNext, MainStep, HandlerStep

-----------------------------------------------------------------------------
\* Both invariants hold in every state of a siege.
LEMMA SiegeInductive == SiegeSpec => [](IInv /\ SInv)
<1>1. SiegeInit => IInv /\ SInv
  BY InitIInv, InitSInv DEF SiegeInit
<1>2. IInv /\ SInv /\ [SiegeNext]_vars => (IInv /\ SInv)'
  BY CrewContract, StepIInv, SInvStep
<1>. QED
  BY <1>1, <1>2, PTL DEF SiegeSpec

\* Main and the signal thread use the crew as its contract asks: they call it only between
\* new_crew and crew_destroy, one call at a time each, and main frees it only when every
\* thread is joined.  All that holds of the crew holds in a siege.
THEOREM SiegeUsesCrew == SiegeSpec => Spec
<1>1. SiegeInit => Init
  BY DEF SiegeInit
<1>2. IInv /\ SInv /\ [SiegeNext]_vars => [Next]_crewVars
  BY CrewContract
<1>. QED
  BY <1>1, <1>2, SiegeInductive, PTL DEF SiegeSpec, Spec

\* Where main, the signal thread and the timer can be; and crew_add refuses a browser only
\* when a signal or the timer has shut the crew down.
THEOREM SiegeTyped == SiegeSpec => []SiegeTypeOK
<1>1. SInv => SiegeTypeOK
  BY DEF SInv
<1>. QED
  BY <1>1, SiegeInductive, PTL

\* crew_destroy comes last: when the crew is freed no worker runs, and neither the signal
\* thread nor the timer will touch it again.
THEOREM FreedLast == SiegeSpec => []CrewOutlivesItsUsers
<1>1. IInv /\ SInv => CrewOutlivesItsUsers
  BY TwoClients DEF IInv, Flags, SInv, Course, Calls, AfterJoin, CrewOutlivesItsUsers
<1>. QED
  BY <1>1, SiegeInductive, PTL

\* Main leaves crew_join with every browser run to its end, if nothing interrupted the
\* siege, and sums up over all browsers that were ever handed to a worker.
THEOREM NoBrowserMissed == SiegeSpec => []AllRunAndCounted
<1>1. ASSUME IInv, SInv PROVE AllRunAndCounted
  <2>1. ASSUME mpc = "signal", ~aborted PROVE finished = 1 .. Users
    <3>1. Joined /\ drain /\ total = Users
      BY <1>1, <2>1 DEF SInv, Calls, Counts, AfterJoin, Joined
    <3>. QED
      BY <1>1, <2>1, <3>1, IInvJoinDrains DEF JoinDrains
  <2>2. ASSUME mpc = "exit", NEW k \in 1 .. Handed PROVE k <= summed
    <3>1. /\ total \in 0 .. Users /\ summed = IF total > Users \/ total = 0 THEN Users ELSE total
          /\ cursize \in Nat
      BY <1>1, <2>2 DEF SInv, SiegeTypeOK, Counts, Summed, IInv, TypeOK
    <3>. QED
      BY <2>2, <3>1, TwoClients DEF Handed
  <2>. QED
    BY <2>1, <2>2 DEF AllRunAndCounted
<1>. QED
  BY <1>1, SiegeInductive, PTL
=============================================================================
