------------------------------ MODULE JobPool ------------------------------
(***************************************************************************)
(* What a crew promises to its caller, with no thread, lock or condition   *)
(* variable in sight.  Jobs are named by their acceptance number.  They    *)
(* are handed out once each and in the order of acceptance, each to an     *)
(* idle worker; nothing is accepted once the pool is closed and nothing is *)
(* handed out once it is halted.  Module Crew implements it.               *)
(***************************************************************************)
EXTENDS Integers

CONSTANT Workers      \* the threads that can hold one job each

VARIABLES accepted,   \* how many jobs the pool took
          handed,     \* how many of them it handed to a worker: always the oldest
          holds,      \* holds[w] is the job worker w runs, 0 for none
          open,       \* the pool takes jobs
          halted      \* no further job is handed out

vars == <<accepted, handed, holds, open, halted>>

Init == /\ accepted = 0
        /\ handed = 0
        /\ holds = [w \in Workers |-> 0]
        /\ open = TRUE
        /\ halted = FALSE

Accept == /\ open
          /\ accepted' = accepted + 1
          /\ UNCHANGED <<handed, holds, open, halted>>

\* The oldest job nobody ran yet goes to an idle worker.
Hand(w) == /\ ~halted
           /\ handed < accepted
           /\ holds[w] = 0
           /\ handed' = handed + 1
           /\ holds' = [holds EXCEPT ![w] = handed + 1]
           /\ UNCHANGED <<accepted, open, halted>>

\* The job returned, or its thread was cancelled in the middle of it.
End(w) == /\ holds[w] # 0
          /\ holds' = [holds EXCEPT ![w] = 0]
          /\ UNCHANGED <<accepted, handed, open, halted>>

\* Closing and halting are one way, and a halted pool is closed.
Close == /\ open' = FALSE
         /\ halted' \in {halted, TRUE}
         /\ UNCHANGED <<accepted, handed, holds>>

Next == \/ Accept
        \/ \E w \in Workers : Hand(w) \/ End(w)
        \/ Close

Spec == Init /\ [][Next]_vars
=============================================================================
