------------------------------ MODULE PrimePipe ------------------------------
(***************************************************************************)
(* inf19-1/main.c: a second thread looks for the primes between A and B,   *)
(* writes each to a socket pair, counts it in the shared variable `ready`  *)
(* and signals a condition variable; the main thread waits until `ready`   *)
(* is not 0, counts it down and reads and prints a number, N times.        *)
(*                                                                         *)
(* Only the main thread ever locks the mutex, so it protects nothing: the  *)
(* two `ready` updates race (each is a load and a store), and a signal     *)
(* that falls between the main thread's test of `ready` and its wait is    *)
(* lost.  The mutex itself is always free or the main thread's and has no  *)
(* variable here.                                                          *)
(***************************************************************************)
EXTENDS Integers, SequencesExt

CONSTANTS
  A, B,      \* the range searched (argv[1], argv[2])
  N,         \* how many numbers main prints (argv[3])
  Capacity   \* numbers the socket holds before write blocks

ASSUME ArgsAssumption ==
  /\ A \in Nat /\ B \in Nat /\ N \in Nat
  /\ Capacity \in Nat \ {0}

VARIABLES
  producer,   \* GeneratePrimes: where it is, the number A it looks at, its register
  main,       \* the main thread: where it is, its counter i, its register, value
  ready,      \* the shared counter
  socket,     \* numbers written and not yet read
  printed     \* everything main has printed

vars == <<producer, main, ready, socket, printed>>

-----------------------------------------------------------------------------
(* The producer thread.                                                    *)

\* A mutated Flag: the square of a prime passes.
FlagBelowRoot(a) == \A i \in 2 .. a : i * i < a => a % i # 0

\* The trial division by i = 2, 3, ... while i * i <= a.
Flag(a) == \A i \in 2 .. a : i * i <= a => a % i # 0

\* The loop head: test the current number, or end.
Test ==
  /\ producer.at = "test"
  /\ producer' =
       IF producer.number > B THEN [producer EXCEPT !.at = "done"]
       ELSE IF Flag(producer.number) THEN [producer EXCEPT !.at = "write"]
       ELSE [producer EXCEPT !.number = @ + 1]
  /\ UNCHANGED <<main, ready, socket, printed>>

\* A mutated HasRoom: the socket has no limit.
NoLimit == TRUE

HasRoom == Len(socket) < Capacity

\* write() blocks while the socket is full.
Write ==
  /\ producer.at = "write"
  /\ HasRoom
  /\ socket' = Append(socket, producer.number)
  /\ producer' = [producer EXCEPT !.at = "load"]
  /\ UNCHANGED <<main, ready, printed>>

\* `*ready += 1`, without the mutex.
LoadReady ==
  /\ producer.at = "load"
  /\ producer' = [producer EXCEPT !.at = "store", !.reg = ready]
  /\ UNCHANGED <<main, ready, socket, printed>>

StoreReady ==
  /\ producer.at = "store"
  /\ ready' = producer.reg + 1
  /\ producer' = [producer EXCEPT !.at = "signal"]
  /\ UNCHANGED <<main, socket, printed>>

\* A mutated Wakes: only the first number is signalled.
FirstWakes == main.at = "wait" /\ producer.reg = 0

Wakes == main.at = "wait"

\* pthread_cond_signal wakes main if it is waiting and is forgotten otherwise.
Signal ==
  /\ producer.at = "signal"
  /\ main' = IF Wakes THEN [main EXCEPT !.at = "check"] ELSE main
  /\ producer' = [producer EXCEPT !.at = "test", !.number = @ + 1]
  /\ UNCHANGED <<ready, socket, printed>>

GeneratePrimes ==
  /\ main.at # "exit"   \* the return from main ends the process
  /\ Test \/ Write \/ LoadReady \/ StoreReady \/ Signal

-----------------------------------------------------------------------------
(* The main thread.                                                        *)

\* The head of the for loop.
Count ==
  /\ main.at = "count"
  /\ main' = [main EXCEPT !.at = IF main.i < N THEN "check" ELSE "exit"]
  /\ UNCHANGED <<producer, ready, socket, printed>>

\* The test of the while loop.
Check ==
  /\ main.at = "check"
  /\ main' = [main EXCEPT !.at = IF ready = 0 THEN "sleep" ELSE "load"]
  /\ UNCHANGED <<producer, ready, socket, printed>>

\* pthread_cond_wait puts main to sleep.
Sleep ==
  /\ main.at = "sleep"
  /\ main' = [main EXCEPT !.at = "wait"]
  /\ UNCHANGED <<producer, ready, socket, printed>>

\* pthread_cond_wait may return without a signal.
SpuriousWakeup ==
  /\ main.at = "wait"
  /\ main' = [main EXCEPT !.at = "check"]
  /\ UNCHANGED <<producer, ready, socket, printed>>

\* `ready--`.
LoadTake ==
  /\ main.at = "load"
  /\ main' = [main EXCEPT !.at = "store", !.reg = ready]
  /\ UNCHANGED <<producer, ready, socket, printed>>

StoreTake ==
  /\ main.at = "store"
  /\ ready' = main.reg - 1
  /\ main' = [main EXCEPT !.at = "read"]
  /\ UNCHANGED <<producer, socket, printed>>

\* read() blocks while the socket is empty; the number read is printed.
ReadPrint ==
  /\ main.at = "read"
  /\ socket # <<>>
  /\ printed' = Append(printed, Head(socket))
  /\ socket' = Tail(socket)
  /\ main' = [main EXCEPT !.at = "count", !.i = @ + 1]
  /\ UNCHANGED <<producer, ready>>

MainThread ==
  Count \/ Check \/ Sleep \/ LoadTake \/ StoreTake \/ ReadPrint

-----------------------------------------------------------------------------

\* The thread is created after everything it uses; 1 is skipped at its start.
Init ==
  /\ producer = [at |-> "test", number |-> IF A = 1 THEN 2 ELSE A, reg |-> 0]
  /\ main = [at |-> "count", i |-> 0, reg |-> 0]
  /\ ready = 0
  /\ socket = <<>>
  /\ printed = <<>>

Ended == main.at = "exit" /\ UNCHANGED vars

Next == GeneratePrimes \/ MainThread \/ SpuriousWakeup \/ Ended

Spec == Init /\ [][Next]_vars

\* Both threads are scheduled; no spurious wakeup may be counted on.
FairSpec == Spec /\ WF_vars(GeneratePrimes) /\ WF_vars(MainThread)

-----------------------------------------------------------------------------
(* Properties.                                                             *)

Primes == {p \in 2 .. B : \A d \in 1 .. p : p % d = 0 => d \in {1, p}}
PrimesInRange == {p \in Primes : p >= A}

TypeOK ==
  /\ producer \in [at : {"test", "write", "load", "store", "signal", "done"},
                   number : Nat, reg : Int]
  /\ producer.number >= A /\ (producer.number <= B + 1 \/ producer.at \in {"test", "done"})
  /\ main \in [at : {"count", "check", "sleep", "wait", "load", "store", "read", "exit"},
               i : 0 .. N, reg : Int]
  /\ ready \in Int
  /\ socket \in Seq(A .. B) /\ Len(socket) <= Capacity
  /\ printed \in Seq(A .. B) /\ Len(printed) = main.i

\* Numbers that have left the producer.
Sent == {p \in PrimesInRange :
           \/ p < producer.number
           \/ p = producer.number /\ producer.at \in {"load", "store", "signal"}}

\* In spite of the race on `ready`, main prints the primes of the range in
\* ascending order, each once and none left out; what it has not printed yet
\* waits in the socket (inf19-1/main.c:47-63 and 103-104).
PrintsPrimesInOrder ==
  LET numbers == printed \o socket
  IN  /\ ToSet(numbers) = Sent
      /\ \A i, j \in DOMAIN numbers : i < j => numbers[i] < numbers[j]

\* A number is on its way to main, or can be.
NumberComing ==
  \/ producer.at \in {"load", "store", "signal"}
  \/ Len(socket) < Capacity /\ PrimesInRange \ Sent # {}

\* A wakeup that was lost is made good by the next one: while the producer can
\* still deliver a number, main does not sleep forever (lines 58-60, 99-101).
NextSignalWakes == main.at = "wait" /\ NumberComing ~> main.at # "wait"

\* When the range has N primes, main receives N numbers and ends ("выводит на
\* стандартный поток вывода каждое полученное число и завершает свою работу
\* после того, как получит N чисел", inf19-1/main.c:5).
MainExits == Cardinality(PrimesInRange) >= N => <>(main.at = "exit")
=============================================================================
