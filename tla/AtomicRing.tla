----------------------------- MODULE AtomicRing -----------------------------
(***************************************************************************)
(* What inf19-0 promises (inf19-0/main.c:3-9): K threads share a ring of K *)
(* cells, and each thread N times adds 1 to its own cell, 0.99 to the cell *)
(* on its left and 1.01 to the cell on its right.  Here a whole iteration  *)
(* is one indivisible step; MutexRing does it with three mutexes and       *)
(* non-atomic additions.  Amounts are counted in hundredths.               *)
(***************************************************************************)
EXTENDS Naturals

CONSTANTS
  N,   \* iterations of every thread (argv[1])
  K    \* number of threads, cells and mutexes (argv[2])

VARIABLES
  cells,   \* contents of the array
  rounds   \* iterations each thread has completed

ringVars == <<cells, rounds>>

Ring == 0 .. K - 1

Left(t)  == IF t = 0 THEN K - 1 ELSE t - 1
Right(t) == IF t = K - 1 THEN 0 ELSE t + 1

-----------------------------------------------------------------------------

Init ==
  /\ cells = [c \in Ring |-> 0]
  /\ rounds = [t \in Ring |-> 0]

\* One iteration of thread t.
Round(t) ==
  /\ rounds[t] < N
  /\ cells' = [c \in Ring |-> cells[c] + (IF c = Left(t)  THEN 99  ELSE 0)
                                       + (IF c = t        THEN 100 ELSE 0)
                                       + (IF c = Right(t) THEN 101 ELSE 0)]
  /\ rounds' = [rounds EXCEPT ![t] = @ + 1]

Next == \E t \in Ring : Round(t)

Spec == Init /\ [][Next]_ringVars
=============================================================================
