------------------------------ MODULE Smokers -------------------------------
(***************************************************************************)
(* inf20-2/main.c: a bartender and three smokers T, P and M, processes     *)
(* that share two semaphores and a letter.  For each letter of its input   *)
(* the bartender stores it, posts `bartender` and waits for `received`; a  *)
(* smoker that gets the post answers it with `received` and prints the     *)
(* letter.  At the end of the line the bartender sends each smoker a       *)
(* SIGTERM, whose handler sets the smoker's flag `expels`, posts three     *)
(* more times so that each smoker wakes up, sees its flag and exits, and   *)
(* waits for the three.                                                    *)
(*                                                                         *)
(* A signal is delivered some time after it is sent.  One that comes       *)
(* before the smoker has installed its handler kills it.                   *)
(*                                                                         *)
(* A fork may fail.  Nobody looks at its result, and -1 is used for the    *)
(* smoker's number: kill(-1) reaches every process it may, of which the    *)
(* smokers are modelled, and waitpid(-1) waits for any child.              *)
(***************************************************************************)
EXTENDS Naturals, FiniteSets

CONSTANT MaxLetters   \* bound on the letters served

ASSUME MaxLettersAssumption == MaxLetters \in Nat

Smokers == 1 .. 3   \* T, P and M in the order of their forks
Letters == {"T", "P", "M"}
Chars == Letters \cup {"nul"}   \* "nul" is what mmap fills the memory with

VARIABLES
  main,        \* the bartender: where it is and the index of its loop
  smoker,      \* the shared letter (state->smoker)
  bartender,   \* the two semaphores
  received,
  at,          \* what each smoker does next
  expels,      \* the smokers' flags
  pending,     \* SIGTERMs sent and not delivered
  served,      \* letters the bartender has put out
  printed,     \* how often the smokers have printed each letter
  reaped       \* smokers a waitpid has returned

vars == <<main, smoker, bartender, received, at, expels, pending, served, printed, reaped>>
mainVars == <<main, served, reaped>>
sems == <<bartender, received>>

-----------------------------------------------------------------------------

Init ==
  /\ main = [at |-> "fork", index |-> 1]
  /\ smoker = "nul"
  /\ bartender = 0 /\ received = 0
  /\ at = [s \in Smokers |-> "none"]
  /\ expels = {}
  /\ pending = {}
  /\ served = [l \in Letters |-> 0]
  /\ printed = [l \in Chars |-> 0]
  /\ reaped = {}

Sum3(f) == f["T"] + f["P"] + f["M"]

(* The smokers.                                                            *)

InstallHandler(s) ==
  /\ at[s] = "forked"
  /\ at' = [at EXCEPT ![s] = "sem_wait"]
  /\ UNCHANGED <<mainVars, smoker, sems, expels, pending, printed>>

SemWait(s) ==
  /\ at[s] = "sem_wait"
  /\ bartender > 0
  /\ bartender' = bartender - 1
  /\ at' = [at EXCEPT ![s] = "test"]
  /\ UNCHANGED <<mainVars, smoker, received, expels, pending, printed>>

Test(s) ==
  /\ at[s] = "test"
  /\ at' = [at EXCEPT ![s] = IF s \in expels THEN "exited" ELSE "sem_post"]
  /\ UNCHANGED <<mainVars, smoker, sems, expels, pending, printed>>

SemPost(s) ==
  /\ at[s] = "sem_post"
  /\ received' = received + 1
  /\ at' = [at EXCEPT ![s] = "print"]
  /\ UNCHANGED <<mainVars, smoker, bartender, expels, pending, printed>>

\* The letter is read after the answer: it may be a later one by now.
PrintLetter(s) ==
  /\ at[s] = "print"
  /\ printed' = [printed EXCEPT ![smoker] = @ + 1]
  /\ at' = [at EXCEPT ![s] = "sem_wait"]
  /\ UNCHANGED <<mainVars, smoker, sems, expels, pending>>

Smoker(s) == InstallHandler(s) \/ SemWait(s) \/ Test(s) \/ SemPost(s) \/ PrintLetter(s)

\* The SIGTERM arrives.
Deliver(s) ==
  /\ s \in pending
  /\ pending' = pending \ {s}
  /\ IF at[s] = "forked"
     THEN at' = [at EXCEPT ![s] = "killed"] /\ UNCHANGED expels
     ELSE expels' = expels \cup {s} /\ UNCHANGED at
  /\ UNCHANGED <<mainVars, smoker, sems, printed>>

Failed(s) == at[s] = "failed"
Gone(s) == at[s] \in {"exited", "killed"} \/ Failed(s)

(* The bartender.                                                          *)

\* Its four loops run over the three smokers.
Loop(then) ==
  main' = IF main.index < 3 THEN [main EXCEPT !.index = @ + 1]
                            ELSE [at |-> then, index |-> 1]

Fork ==
  /\ main.at = "fork"
  /\ at' = [at EXCEPT ![main.index] = "forked"]
  /\ Loop("getchar")
  /\ UNCHANGED <<smoker, sems, expels, pending, served, printed, reaped>>

ForkFails ==
  /\ main.at = "fork"
  /\ at' = [at EXCEPT ![main.index] = "failed"]
  /\ Loop("getchar")
  /\ UNCHANGED <<smoker, sems, expels, pending, served, printed, reaped>>

\* Other characters are skipped and change nothing.
Serve(l) ==
  /\ main.at = "getchar"
  /\ Sum3(served) < MaxLetters
  /\ smoker' = l
  /\ served' = [served EXCEPT ![l] = @ + 1]
  /\ main' = [main EXCEPT !.at = "post"]
  /\ UNCHANGED <<sems, at, expels, pending, printed, reaped>>

PostLetter ==
  /\ main.at = "post"
  /\ bartender' = bartender + 1
  /\ main' = [main EXCEPT !.at = "wait"]
  /\ UNCHANGED <<smoker, received, at, expels, pending, served, printed, reaped>>

\* A mutated WaitReceived: an interrupted wait is taken for an answer.
WaitInterrupted ==
  /\ main.at = "wait"
  /\ received' = IF received > 0 THEN received - 1 ELSE received
  /\ main' = [main EXCEPT !.at = "getchar"]
  /\ UNCHANGED <<smoker, bartender, at, expels, pending, served, printed, reaped>>

WaitReceived ==
  /\ main.at = "wait"
  /\ received > 0
  /\ received' = received - 1
  /\ main' = [main EXCEPT !.at = "getchar"]
  /\ UNCHANGED <<smoker, bartender, at, expels, pending, served, printed, reaped>>

EndOfLine ==
  /\ main.at = "getchar"
  /\ main' = [main EXCEPT !.at = "kill"]
  /\ UNCHANGED <<smoker, sems, at, expels, pending, served, printed, reaped>>

\* The smokers that the number of s, which is -1 if its fork failed, stands for.
Named(s) == IF Failed(s) THEN {k \in Smokers : ~ Failed(k)} ELSE {s}

Kill ==
  /\ main.at = "kill"
  /\ pending' = pending \cup Named(main.index)
  /\ Loop("expel")
  /\ UNCHANGED <<smoker, sems, at, expels, served, printed, reaped>>

\* Mutated ExitPosts: one post too few, one too many.
TwoExitPosts == IF main.index < 3 THEN 1 ELSE 0
FourExitPosts == IF main.index < 3 THEN 1 ELSE 2

ExitPosts == 1

PostExit ==
  /\ main.at = "expel"
  /\ bartender' = bartender + ExitPosts
  /\ Loop("waitpid")
  /\ UNCHANGED <<smoker, received, at, expels, pending, served, printed, reaped>>

\* A mutated WaitPid: WNOHANG.
WaitPidNoHang ==
  /\ main.at = "waitpid"
  /\ Loop("ended")
  /\ UNCHANGED <<smoker, sems, at, expels, pending, served, printed, reaped>>

\* The last waitpid is followed by the end of the program.  Without such a child
\* it fails at once.
WaitPid ==
  /\ main.at = "waitpid"
  /\ \/ /\ Named(main.index) \subseteq reaped
        /\ UNCHANGED reaped
     \/ \E s \in Named(main.index) \ reaped : Gone(s) /\ reaped' = reaped \cup {s}
  /\ Loop("ended")
  /\ UNCHANGED <<smoker, sems, at, expels, pending, served, printed>>

Main ==
  Fork \/ ForkFails \/ PostLetter \/ WaitReceived \/ EndOfLine \/ Kill \/ PostExit \/ WaitPid

Next ==
  \/ Main
  \/ \E l \in Letters : Serve(l)
  \/ \E s \in Smokers : Smoker(s) \/ Deliver(s)

Spec == Init /\ [][Next]_vars

\* All processes run, signals arrive, and the line ends at some time.
FairSpec ==
  /\ Spec
  /\ WF_vars(Main)
  /\ \A s \in Smokers : WF_vars(Smoker(s)) /\ WF_vars(Deliver(s))

-----------------------------------------------------------------------------
(* Properties.                                                             *)

TypeOK ==
  /\ main \in [at : {"fork", "getchar", "post", "wait", "kill", "expel", "waitpid", "ended"},
               index : Smokers]
  /\ smoker \in Chars
  /\ bartender \in 0 .. 3 /\ received \in 0 .. 3
  /\ at \in [Smokers -> {"none", "forked", "sem_wait", "test", "sem_post", "print",
                         "exited", "killed", "failed"}]
  /\ expels \subseteq Smokers /\ pending \subseteq Smokers /\ reaped \subseteq Smokers
  /\ served \in [Letters -> Nat] /\ Sum3(served) <= MaxLetters
  /\ printed \in [Chars -> Nat]

Answering == {s \in Smokers : at[s] \in {"test", "sem_post"}}

\* Until the end of the line each letter is out once: as a post, with one
\* smoker, or as its answer, and the bartender is waiting for exactly that
\* (inf20-2/main.c:62-65 and 105-107).
OneLetterOut ==
  main.at \in {"fork", "getchar", "post", "wait"} =>
    bartender + Cardinality(Answering) + received = IF main.at = "wait" THEN 1 ELSE 0

TotalPrinted == Sum3(printed) + printed["nul"]

\* No smoker touches the semaphores any more when the bartender destroys them,
\* and for every letter served one has been printed (lines 125-130).
CleanEnd ==
  main.at = "ended" =>
    /\ \A s \in Smokers : Gone(s)
    /\ TotalPrinted >= Sum3(served)

\* A smoker answers a post of the shutdown: its SIGTERM was still on its way
\* when it tested its flag.
LateSignal ==
  main.at \in {"expel", "waitpid"} /\ \E s \in Smokers : at[s] = "sem_post"

\* All three forks have failed: nobody answers a letter.
NoSmoker == \A s \in Smokers : Failed(s)

\* Unless one of these happens, a post reaches every smoker there is and the
\* program ends; if a signal is late, a smoker may be left without a post for ever
\* (lines 62-69 and 118-128).
EndsUnlessSignalIsLate == <>(LateSignal \/ NoSmoker \/ main.at = "ended")
=============================================================================
