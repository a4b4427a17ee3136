------------------------------- MODULE MCCrew -------------------------------
(* A crew of two threads, two clients that each may call anything, three    *)
(* jobs and a queue of two: full, empty and blocked all happen.             *)
EXTENDS Crew
=============================================================================
