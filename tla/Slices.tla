-------------------------------- MODULE Slices --------------------------------
(***************************************************************************)
(* How main.c divides the n entries of the URL list among k browsers under *)
(* --reps=once.  Entries and browsers are counted from 0, as in the code.  *)
(***************************************************************************)
EXTENDS Integers

Part(i, n, k) == LET remainder == n % k IN IF i < remainder THEN i ELSE remainder

BeginUrl(i, n, k) == i * (n \div k) + Part(i, n, k)

\* Mutant: the last slice is one of the others.
EndPerUser(i, n, k) == (i + 1) * (n \div k)

EndUrl(i, n, k) ==
  (i + 1) * (n \div k) + (IF i < n % k THEN i + 1 ELSE n % k)

\* The entries of browser i.
Slice(i, n, k) == BeginUrl(i, n, k) .. EndUrl(i, n, k) - 1
=============================================================================
