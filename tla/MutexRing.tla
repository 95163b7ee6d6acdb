------------------------------ MODULE MutexRing ------------------------------
(***************************************************************************)
(* inf19-0/main.c: K threads update a ring of K numbers, each thread its   *)
(* own cell and its two neighbours, under one mutex per cell.  A thread    *)
(* sorts the three indices before it locks, which is what keeps the ring   *)
(* free of circular waits.  The `+=` on a double is a load and a store, so *)
(* a cell that is not protected loses updates.  Amounts are hundredths.    *)
(***************************************************************************)
EXTENDS Naturals, Sequences

CONSTANTS
  N,   \* iterations of every thread (argv[1])
  K    \* number of threads, cells and mutexes (argv[2])

ASSUME ArgsAssumption == N \in Nat \ {0} /\ K \in Nat \ {0}

Threads == 0 .. K - 1
Free == K   \* owner of an unlocked mutex: the index of no thread

VARIABLES
  pc,      \* what each thread does next
  step,    \* which of the three mutexes or cells it does it with
  iter,    \* loop counter i of ChangeThreeValues
  reg,     \* value of the cell being incremented, between load and store
  mutex,   \* owner of each mutex, or Free
  array,   \* the shared cells
  main     \* the main thread: its phase and the index of its current loop

vars == <<pc, step, iter, reg, mutex, array, main>>

-----------------------------------------------------------------------------
(* The indices a thread works with.                                        *)

Left(t)  == IF t = 0 THEN K - 1 ELSE t - 1
Right(t) == IF t = K - 1 THEN 0 ELSE t + 1

\* Orders the neighbouring entries p and p + 1.
OrderSwap(a, p) ==
  IF a[p + 1] < a[p] THEN [a EXCEPT ![p] = a[p + 1], ![p + 1] = a[p]] ELSE a

Sort3Values(a) == OrderSwap(OrderSwap(OrderSwap(a, 1), 2), 1)

\* A mutated Trio: the sort is left out.
UnsortedTrio(t) == <<Left(t), t, Right(t)>>

\* The mutexes of thread t in the order it locks and unlocks them.
Trio(t) == Sort3Values(<<Left(t), t, Right(t)>>)

\* A mutated Amount: left and right taken for each other.
SwappedAmount == <<101, 100, 99>>

\* The cells of thread t in the order it increments them, and by how much.
Cells(t) == <<Left(t), t, Right(t)>>
Amount == <<99, 100, 101>>

-----------------------------------------------------------------------------

Init ==
  /\ pc = [t \in Threads |-> "new"]
  /\ step = [t \in Threads |-> 1]
  /\ iter = [t \in Threads |-> 0]
  /\ reg = [t \in Threads |-> 0]
  /\ mutex = [c \in Threads |-> Free]
  /\ array = [c \in Threads |-> 0]
  /\ main = [at |-> "create", index |-> 0]

\* After the third mutex or cell a thread goes on to `next`.
Advance(t, next) ==
  /\ pc' = [pc EXCEPT ![t] = IF step[t] < 3 THEN @ ELSE next]
  /\ step' = [step EXCEPT ![t] = IF @ < 3 THEN @ + 1 ELSE 1]

\* A mutated Lock: goes on although another thread holds the mutex.
LockHeldMutex(t) ==
  /\ pc[t] = "lock"
  /\ mutex' = [mutex EXCEPT ![Trio(t)[step[t]]] = t]
  /\ Advance(t, "load")
  /\ UNCHANGED <<iter, reg, array, main>>

\* pthread_mutex_lock on a default mutex: waits for the owner, itself included.
Lock(t) ==
  /\ pc[t] = "lock"
  /\ mutex[Trio(t)[step[t]]] = Free
  /\ mutex' = [mutex EXCEPT ![Trio(t)[step[t]]] = t]
  /\ Advance(t, "load")
  /\ UNCHANGED <<iter, reg, array, main>>

Load(t) ==
  /\ pc[t] = "load"
  /\ reg' = [reg EXCEPT ![t] = array[Cells(t)[step[t]]]]
  /\ pc' = [pc EXCEPT ![t] = "store"]
  /\ UNCHANGED <<step, iter, mutex, array, main>>

Store(t) ==
  /\ pc[t] = "store"
  /\ array' = [array EXCEPT ![Cells(t)[step[t]]] = reg[t] + Amount[step[t]]]
  /\ pc' = [pc EXCEPT ![t] = IF step[t] < 3 THEN "load" ELSE "unlock"]
  /\ step' = [step EXCEPT ![t] = IF @ < 3 THEN @ + 1 ELSE 1]
  /\ UNCHANGED <<iter, reg, mutex, main>>

\* A mutated Unlock: one iteration too many.
UnlockAndRunOn(t) ==
  /\ pc[t] = "unlock"
  /\ mutex' = [mutex EXCEPT ![Trio(t)[step[t]]] = Free]
  /\ Advance(t, IF iter[t] + 1 <= N THEN "lock" ELSE "done")
  /\ iter' = [iter EXCEPT ![t] = IF step[t] = 3 THEN @ + 1 ELSE @]
  /\ UNCHANGED <<reg, array, main>>

\* A mutated Unlock: the last of the three mutexes stays locked.
UnlockTwo(t) ==
  /\ pc[t] = "unlock"
  /\ mutex' = [mutex EXCEPT ![Trio(t)[step[t]]] = IF step[t] < 3 THEN Free ELSE @]
  /\ Advance(t, IF iter[t] + 1 < N THEN "lock" ELSE "done")
  /\ iter' = [iter EXCEPT ![t] = IF step[t] = 3 THEN @ + 1 ELSE @]
  /\ UNCHANGED <<reg, array, main>>

\* The third unlock ends an iteration of the loop.
Unlock(t) ==
  /\ pc[t] = "unlock"
  /\ mutex' = [mutex EXCEPT ![Trio(t)[step[t]]] = Free]
  /\ Advance(t, IF iter[t] + 1 < N THEN "lock" ELSE "done")
  /\ iter' = [iter EXCEPT ![t] = IF step[t] = 3 THEN @ + 1 ELSE @]
  /\ UNCHANGED <<reg, array, main>>

ChangeThreeValues(t) == Lock(t) \/ Load(t) \/ Store(t) \/ Unlock(t)

\* The main thread runs a loop over all indices in each of its phases.
MainLoop(next) ==
  main' = IF main.index + 1 < K
          THEN [main EXCEPT !.index = @ + 1]
          ELSE [at |-> next, index |-> 0]

Create ==
  /\ main.at = "create"
  /\ pc' = [pc EXCEPT ![main.index] = "lock"]
  /\ MainLoop("join")
  /\ UNCHANGED <<step, iter, reg, mutex, array>>

Join ==
  /\ main.at = "join"
  /\ pc[main.index] = "done"
  /\ MainLoop("exit")
  /\ UNCHANGED <<pc, step, iter, reg, mutex, array>>

\* The program has printed the array and ended: nothing else happens.
Ended == main.at = "exit" /\ UNCHANGED vars

Next ==
  \/ Create
  \/ Join
  \/ \E t \in Threads : ChangeThreeValues(t)
  \/ Ended

Spec == Init /\ [][Next]_vars

\* The scheduler runs every thread that can run.
Fairness ==
  /\ WF_vars(Create \/ Join)
  /\ \A t \in Threads : WF_vars(ChangeThreeValues(t))

FairSpec == Spec /\ Fairness

-----------------------------------------------------------------------------
(* Properties.                                                             *)

\* Types of the variables of ChangeThreeValues and main.
TypeOK ==
  /\ pc \in [Threads -> {"new", "lock", "load", "store", "unlock", "done"}]
  /\ step \in [Threads -> 1 .. 3]
  /\ iter \in [Threads -> 0 .. N]
  /\ reg \in [Threads -> Nat]
  /\ mutex \in [Threads -> Threads \cup {Free}]
  /\ array \in [Threads -> Nat]
  /\ main \in [at : {"create", "join", "exit"}, index : Threads]

Adding(t) == pc[t] \in {"load", "store"}

\* No two threads that are inside the three additions have a cell in common,
\* so no `+=` of one can overwrite that of the other (inf19-0/main.c:81-86).
NoSharedCell ==
  \A t, u \in Threads :
    t # u /\ Adding(t) /\ Adding(u) =>
      {Left(t), t, Right(t)} \cap {Left(u), u, Right(u)} = {}

\* A thread waits for a mutex another thread (or the thread itself) holds.
Blocked(t) == pc[t] = "lock" /\ mutex[Trio(t)[step[t]]] # Free

\* While the main thread waits for unfinished threads, one of them can run:
\* the index sort excludes circular waits (comment at inf19-0/main.c:72-74).
NoDeadlock ==
  main.at = "join" /\ (\E t \in Threads : pc[t] # "done") =>
    \E t \in Threads : pc[t] # "done" /\ ~Blocked(t)

\* Additions to the p-th of its cells that thread t has stored.
Added(t, p) ==
  iter[t] + (IF \/ pc[t] = "unlock"
                \/ Adding(t) /\ step[t] > p
             THEN 1 ELSE 0)

\* Every cell holds exactly the additions made to it by its own thread and its
\* two neighbours: no update is ever lost, in the middle of a run or at its end.
NoLostUpdate ==
  \A c \in Threads :
    array[c] = 99 * Added(Right(c), 1) + 100 * Added(c, 2) + 101 * Added(Left(c), 3)

\* The values printed are those of N complete iterations of every thread
\* (inf19-0/main.c:9 and 127-130).
FinalSums == main.at = "exit" => \A c \in Threads : array[c] = 300 * N

\* A cell changes only by a thread that owns its mutex.
OnlyOwnerWrites ==
  [][\A c \in Threads : array'[c] # array[c] =>
       /\ mutex[c] \in Threads
       /\ pc[mutex[c]] = "store"]_vars

\* The program ends: every thread makes its N iterations and main prints
\* ("После того, как все потоки проведут N итераций", inf19-0/main.c:9).
MainExits == <>(main.at = "exit")

-----------------------------------------------------------------------------
(* Refinement of AtomicRing: an iteration takes effect with its last store;*)
(* until then its earlier stores are subtracted.                           *)

Visible(c) ==
  array[c] - (IF Adding(Right(c)) /\ step[Right(c)] > 1 THEN 99 ELSE 0)
           - (IF Adding(c) /\ step[c] > 2 THEN 100 ELSE 0)

Rounds(t) == iter[t] + (IF pc[t] = "unlock" THEN 1 ELSE 0)

Atomic == INSTANCE AtomicRing WITH
  cells  <- [c \in Threads |-> Visible(c)],
  rounds <- [t \in Threads |-> Rounds(t)]

\* Every step of the mutex-based program is an iteration of AtomicRing or
\* changes nothing of it.
ImplementsAtomicRing == Atomic!Spec
=============================================================================
