---------------------------- MODULE SmokersProofs ----------------------------
(***************************************************************************)
(* Theorems of Smokers for any number of letters.                          *)
(***************************************************************************)
EXTENDS Smokers, FiniteSetTheorems, TLAPS

-----------------------------------------------------------------------------
(* The inductive invariant.                                                *)

MainPlaces == {"fork", "getchar", "post", "wait", "kill", "expel", "waitpid", "ended"}
Places == {"none", "forked", "sem_wait", "test", "sem_post", "print", "exited", "killed",
           "failed"}

\* The smokers that f puts at one of the places P, and how many they are.
In(f, P) == {s \in Smokers : f[s] \in P}
Count(f, P) == Cardinality(In(f, P))

TypeInv ==
  /\ main \in [at : MainPlaces, index : Smokers]
  /\ smoker \in Chars
  /\ bartender \in Nat /\ received \in Nat
  /\ at \in [Smokers -> Places]
  /\ expels \subseteq Smokers /\ pending \subseteq Smokers /\ reaped \subseteq Smokers
  /\ served \in [Letters -> Nat] /\ Sum3(served) <= MaxLetters
  /\ printed \in [Chars -> Nat]

\* Posts of `bartender` that the bartender has not taken back as an answer.
Posts ==
  IF main.at = "wait" THEN 1
  ELSE IF main.at = "expel" THEN main.index - 1
  ELSE IF main.at \in {"waitpid", "ended"} THEN 3 ELSE 0

\* Each of them is still a post, with a smoker, an answer, or has let a smoker exit.
PostsInv ==
  bartender + Count(at, {"test", "sem_post"}) + received + Count(at, {"exited"}) = Posts

\* Letters the bartender has put out and has had an answer for.
Answered == Sum3(served) - (IF main.at \in {"post", "wait"} THEN 1 ELSE 0)

\* Each answer was given by a smoker that has printed or is about to print.
PrintsInv == TotalPrinted + Count(at, {"print"}) = received + Answered

\* What the bartender has not begun to do yet has no effect yet.
PhaseInv ==
  /\ main.at \in {"fork", "getchar", "post", "wait"} =>
       expels = {} /\ pending = {} /\ \A s \in Smokers : at[s] # "exited"
  /\ main.at = "fork" => \A s \in Smokers : s >= main.index => at[s] = "none"
  /\ \A s \in reaped : Gone(s)
  /\ main.at = "waitpid" => \A s \in Smokers : s < main.index => Gone(s)
  /\ main.at = "ended" => \A s \in Smokers : Gone(s)

IInv == TypeInv /\ PostsInv /\ PrintsInv /\ PhaseInv

-----------------------------------------------------------------------------
(* Counting smokers, letters and prints.                                   *)

LEMMA SmokersAreFinite == IsFiniteSet(Smokers) /\ Cardinality(Smokers) = 3
<1>1. 1 \in Int /\ 3 \in Int
  OBVIOUS
<1>2. IsFiniteSet(1 .. 3) /\ Cardinality(1 .. 3) = IF 1 > 3 THEN 0 ELSE 3 - 1 + 1
  BY <1>1, FS_Interval
<1>3. (IF 1 > 3 THEN 0 ELSE 3 - 1 + 1) = 3
  OBVIOUS
<1> QED
  BY <1>2, <1>3 DEF Smokers

LEMMA CountIsNat ==
  ASSUME NEW f, NEW P
  PROVE  /\ Count(f, P) \in Nat
         /\ (\A s \in Smokers : f[s] \notin P) => Count(f, P) = 0
<1>1. IsFiniteSet(Smokers)
  BY SmokersAreFinite
<1>2. IsFiniteSet(In(f, P))
  BY <1>1, FS_Subset DEF In
<1>3. (\A s \in Smokers : f[s] \notin P) => In(f, P) = {}
  BY DEF In
<1> QED
  BY <1>2, <1>3, FS_CardinalityType, FS_EmptySet DEF Count

\* A smoker that goes from one place to another leaves the counts that hold the
\* first and joins those that hold the second.
LEMMA OneMoves ==
  ASSUME at \in [Smokers -> Places], NEW s \in Smokers, NEW p \in Places,
         at' = [at EXCEPT ![s] = p]
  PROVE  \A P : Count(at', P) + (IF at[s] \in P THEN 1 ELSE 0)
                  = Count(at, P) + (IF p \in P THEN 1 ELSE 0)
<1> SUFFICES ASSUME NEW P
             PROVE  Count(at', P) + (IF at[s] \in P THEN 1 ELSE 0)
                      = Count(at, P) + (IF p \in P THEN 1 ELSE 0)
  OBVIOUS
<1> DEFINE Rest == In(at, P) \ {s}
<1>1. IsFiniteSet(Rest)
  BY SmokersAreFinite, FS_Subset DEF In
<1>2. Cardinality(Rest) \in Nat
  BY <1>1, FS_CardinalityType
<1>3. Cardinality(Rest \cup {s}) = Cardinality(Rest) + 1
  BY <1>1, FS_AddElement
<1>4. In(at, P) = IF at[s] \in P THEN Rest \cup {s} ELSE Rest
  BY DEF In
<1>5. In(at', P) = IF p \in P THEN Rest \cup {s} ELSE Rest
  BY DEF In
<1> HIDE DEF Rest
<1>6. Count(at, P) = Cardinality(Rest) + (IF at[s] \in P THEN 1 ELSE 0)
  BY <1>2, <1>3, <1>4 DEF Count
<1>7. Count(at', P) = Cardinality(Rest) + (IF p \in P THEN 1 ELSE 0)
  BY <1>2, <1>3, <1>5 DEF Count
<1> QED
  BY <1>2, <1>6, <1>7

\* Counting one more letter adds one to the sum.
LEMMA SumOneMore ==
  ASSUME NEW f \in [Letters -> Nat], NEW l \in Letters
  PROVE  /\ Sum3(f) \in Nat
         /\ Sum3([f EXCEPT ![l] = @ + 1]) = Sum3(f) + 1
<1>1. f["T"] \in Nat /\ f["P"] \in Nat /\ f["M"] \in Nat
  BY DEF Letters, Chars
<1>2. \A k \in Letters : [f EXCEPT ![l] = @ + 1][k] = IF k = l THEN f[k] + 1 ELSE f[k]
  OBVIOUS
<1> QED
  BY <1>1, <1>2 DEF Sum3, Letters, Chars

\* Printing one more letter adds one to the total.
LEMMA PrintOneMore ==
  ASSUME printed \in [Chars -> Nat], NEW l \in Chars,
         printed' = [printed EXCEPT ![l] = @ + 1]
  PROVE  TotalPrinted \in Nat /\ TotalPrinted' = TotalPrinted + 1
<1>1. \A k \in {"T", "P", "M", "nul"} : printed[k] \in Nat
  BY DEF Letters, Chars
<1>2. \A k \in {"T", "P", "M", "nul"} : printed'[k] = IF k = l THEN printed[k] + 1 ELSE printed[k]
  BY DEF Letters, Chars
<1> QED
  BY <1>1, <1>2 DEF TotalPrinted, Sum3, Letters, Chars

\* What the sums and counts of the invariant are numbers of.
LEMMA Numbers ==
  ASSUME TypeInv
  PROVE  /\ Sum3(served) \in Nat /\ TotalPrinted \in Nat /\ Posts \in 0 .. 3
         /\ \A P : Count(at, P) \in Nat
<1>1. Sum3(served) \in Nat /\ TotalPrinted \in Nat
  BY DEF TypeInv, Sum3, TotalPrinted, Letters, Chars
<1>2. Posts \in 0 .. 3
  BY DEF TypeInv, Posts, MainPlaces, Smokers
<1> QED
  BY <1>1, <1>2, CountIsNat

-----------------------------------------------------------------------------
(* The inductive invariant holds initially and is kept.                    *)

LEMMA InitIInv == Init => IInv
<1> SUFFICES ASSUME Init PROVE IInv
  OBVIOUS
<1>1. Sum3(served) = 0 /\ TotalPrinted = 0
  BY DEF Init, Sum3, TotalPrinted, Letters, Chars
<1>2. \A s \in Smokers : at[s] = "none"
  BY DEF Init
<1>3. Count(at, {"test", "sem_post"}) = 0 /\ Count(at, {"exited"}) = 0 /\ Count(at, {"print"}) = 0
  BY <1>2, CountIsNat
<1>4. TypeInv
  <2>1. 1 \in Smokers
    BY DEF Smokers
  <2>2. main \in [at : MainPlaces, index : Smokers]
    BY <2>1 DEF Init, MainPlaces
  <2> QED
    BY <1>1, <2>1, <2>2, MaxLettersAssumption DEF Init, TypeInv, MainPlaces, Places, Letters, Chars
<1>5. PostsInv
  BY <1>3 DEF Init, PostsInv, Posts
<1>6. PrintsInv
  BY <1>1, <1>3 DEF Init, PrintsInv, Answered
<1>7. PhaseInv
  BY <1>2 DEF Init, PhaseInv
<1> QED
  BY <1>4, <1>5, <1>6, <1>7 DEF IInv

\* What the bartender holds does not change while the smokers run.
LEMMA MainStands ==
  ASSUME UNCHANGED mainVars
  PROVE  /\ main' = main /\ served' = served /\ reaped' = reaped
         /\ Posts' = Posts /\ Answered' = Answered
BY DEF mainVars, Posts, Answered

\* A smoker's step: it gets a post and keeps it until it has answered or exits.
LEMMA SmokerKeeps ==
  ASSUME IInv, NEW s \in Smokers, Smoker(s)
  PROVE  IInv'
<1> USE DEF sems, mainVars
<1>1. /\ main' = main /\ served' = served /\ reaped' = reaped
      /\ Posts' = Posts /\ Answered' = Answered
  BY MainStands DEF Smoker, InstallHandler, SemWait, Test, SemPost, PrintLetter
<1>2. /\ Sum3(served) \in Nat /\ TotalPrinted \in Nat /\ Posts \in 0 .. 3
      /\ \A P : Count(at, P) \in Nat
  BY Numbers DEF IInv
<1>3. smoker' = smoker /\ expels' = expels /\ pending' = pending
  BY DEF Smoker, InstallHandler, SemWait, Test, SemPost, PrintLetter
<1>4. at \in [Smokers -> Places]
  BY DEF IInv, TypeInv
<1>5. PICK p \in Places : at' = [at EXCEPT ![s] = p]
  BY DEF Smoker, InstallHandler, SemWait, Test, SemPost, PrintLetter, Places
<1>6. \A P : Count(at', P) + (IF at[s] \in P THEN 1 ELSE 0) = Count(at, P) + (IF p \in P THEN 1 ELSE 0)
  BY <1>4, <1>5, OneMoves
<1>7. \A P : Count(at', P) \in Nat
  BY CountIsNat
<1>8. TypeInv'
  <2>1. bartender' \in Nat /\ received' \in Nat
    BY DEF Smoker, InstallHandler, SemWait, Test, SemPost, PrintLetter, IInv, TypeInv
  <2>2. at' \in [Smokers -> Places]
    BY <1>4, <1>5
  <2>3. printed' \in [Chars -> Nat]
    BY DEF Smoker, InstallHandler, SemWait, Test, SemPost, PrintLetter, IInv, TypeInv
  <2>4. Sum3(served)' = Sum3(served)
    BY <1>1
  <2> QED
    BY <1>1, <1>3, <2>1, <2>2, <2>3, <2>4 DEF IInv, TypeInv
<1>9. PhaseInv'
  <2>1. at[s] \notin {"none", "exited", "killed", "failed"}
    BY DEF Smoker, InstallHandler, SemWait, Test, SemPost, PrintLetter
  <2>2. expels = {} => p # "exited"
    BY <1>4, <1>5 DEF Smoker, InstallHandler, SemWait, Test, SemPost, PrintLetter
  <2> QED
    BY <1>1, <1>3, <1>4, <1>5, <2>1, <2>2 DEF IInv, PhaseInv, Gone, Failed
<1>10. PostsInv' /\ PrintsInv'
  <2>1. /\ bartender + Count(at, {"test", "sem_post"}) + received + Count(at, {"exited"}) = Posts
        /\ TotalPrinted + Count(at, {"print"}) = received + Answered
        /\ bartender \in Nat /\ received \in Nat /\ Answered \in Int
    BY <1>2 DEF IInv, TypeInv, PostsInv, PrintsInv, Answered
  <2>2. SUFFICES
          /\ bartender' + Count(at', {"test", "sem_post"}) + received' + Count(at', {"exited"}) = Posts
          /\ TotalPrinted' + Count(at', {"print"}) = received' + Answered
    BY <1>1 DEF PostsInv, PrintsInv
  <2>3. at'[s] = p
    BY <1>4, <1>5
  <2>4. /\ Count(at', {"test", "sem_post"}) + (IF at[s] \in {"test", "sem_post"} THEN 1 ELSE 0)
             = Count(at, {"test", "sem_post"}) + (IF p \in {"test", "sem_post"} THEN 1 ELSE 0)
        /\ Count(at', {"exited"}) + (IF at[s] = "exited" THEN 1 ELSE 0)
             = Count(at, {"exited"}) + (IF p = "exited" THEN 1 ELSE 0)
        /\ Count(at', {"print"}) + (IF at[s] = "print" THEN 1 ELSE 0)
             = Count(at, {"print"}) + (IF p = "print" THEN 1 ELSE 0)
    BY <1>6
  <2>5. /\ Count(at', {"test", "sem_post"}) \in Nat /\ Count(at, {"test", "sem_post"}) \in Nat
        /\ Count(at', {"exited"}) \in Nat /\ Count(at, {"exited"}) \in Nat
        /\ Count(at', {"print"}) \in Nat /\ Count(at, {"print"}) \in Nat
    BY <1>2, <1>7
  <2>6. CASE InstallHandler(s)
    <3>1. at[s] = "forked" /\ p = "sem_wait" /\ bartender' = bartender /\ received' = received
      BY <2>3, <2>6, <1>4 DEF InstallHandler
    <3>2. TotalPrinted' = TotalPrinted
      BY <2>6 DEF InstallHandler, TotalPrinted
    <3> QED
      BY <2>1, <2>4, <2>5, <3>1, <3>2
  <2>7. CASE SemWait(s)
    <3>1. at[s] = "sem_wait" /\ p = "test" /\ bartender' = bartender - 1 /\ received' = received
      BY <2>3, <2>7, <1>4 DEF SemWait
    <3>2. TotalPrinted' = TotalPrinted
      BY <2>7 DEF SemWait, TotalPrinted
    <3> QED
      BY <2>1, <2>4, <2>5, <3>1, <3>2
  <2>8. CASE Test(s)
    <3>1. at[s] = "test" /\ p \in {"exited", "sem_post"} /\ bartender' = bartender /\ received' = received
      BY <2>3, <2>8, <1>4 DEF Test
    <3>2. TotalPrinted' = TotalPrinted
      BY <2>8 DEF Test, TotalPrinted
    <3> QED
      BY <2>1, <2>4, <2>5, <3>1, <3>2
  <2>9. CASE SemPost(s)
    <3>1. at[s] = "sem_post" /\ p = "print" /\ bartender' = bartender /\ received' = received + 1
      BY <2>3, <2>9, <1>4 DEF SemPost
    <3>2. TotalPrinted' = TotalPrinted
      BY <2>9 DEF SemPost, TotalPrinted
    <3> QED
      BY <1>2, <2>1, <2>4, <2>5, <3>1, <3>2
  <2>10. CASE PrintLetter(s)
    <3>1. at[s] = "print" /\ p = "sem_wait" /\ bartender' = bartender /\ received' = received
      BY <2>3, <2>10, <1>4 DEF PrintLetter
    <3>2. TotalPrinted' = TotalPrinted + 1
      BY <2>10, PrintOneMore DEF PrintLetter, IInv, TypeInv
    <3> QED
      BY <1>2, <2>1, <2>4, <2>5, <3>1, <3>2
  <2> QED
    BY <2>6, <2>7, <2>8, <2>9, <2>10 DEF Smoker
<1> QED
  BY <1>8, <1>9, <1>10 DEF IInv

\* A SIGTERM that arrives sets a flag, or kills a smoker that holds no post.
LEMMA DeliverKeeps ==
  ASSUME IInv, NEW s \in Smokers, Deliver(s)
  PROVE  IInv'
<1> USE DEF sems, mainVars
<1>1. /\ main' = main /\ served' = served /\ reaped' = reaped
      /\ Posts' = Posts /\ Answered' = Answered
  BY MainStands DEF Deliver
<1>2. /\ bartender' = bartender /\ received' = received /\ smoker' = smoker
      /\ printed' = printed /\ TotalPrinted' = TotalPrinted
  BY DEF Deliver, TotalPrinted
<1>3. at \in [Smokers -> Places]
  BY DEF IInv, TypeInv
<1>4. /\ at' = at \/ (at[s] = "forked" /\ at' = [at EXCEPT ![s] = "killed"])
      /\ at' \in [Smokers -> Places]
  BY <1>3 DEF Deliver, Places
<1>5. \A P : "forked" \notin P /\ "killed" \notin P => Count(at', P) = Count(at, P)
  <2> SUFFICES ASSUME NEW P, "forked" \notin P, "killed" \notin P
               PROVE  In(at', P) = In(at, P)
    BY DEF Count
  <2> QED
    BY <1>3, <1>4 DEF In
<1>6. /\ Count(at', {"test", "sem_post"}) = Count(at, {"test", "sem_post"})
      /\ Count(at', {"exited"}) = Count(at, {"exited"})
      /\ Count(at', {"print"}) = Count(at, {"print"})
  BY <1>5
<1>7. TypeInv'
  <2>1. Sum3(served)' = Sum3(served)
    BY <1>1
  <2> QED
    BY <1>1, <1>2, <1>4, <2>1 DEF IInv, TypeInv, Deliver
<1>8. PostsInv' /\ PrintsInv'
  BY <1>1, <1>2, <1>6 DEF IInv, PostsInv, PrintsInv
<1>9. PhaseInv'
  <2>1. main.at \notin {"fork", "getchar", "post", "wait"}
    BY DEF IInv, PhaseInv, Deliver
  <2> QED
    BY <1>1, <1>3, <1>4, <2>1 DEF IInv, TypeInv, PhaseInv, Gone, Failed
<1> QED
  BY <1>7, <1>8, <1>9 DEF IInv

\* Each loop of the bartender goes on with the next smoker or ends.
LEMMA LoopIs ==
  ASSUME TypeInv, NEW then \in MainPlaces, Loop(then)
  PROVE  /\ main' \in [at : MainPlaces, index : Smokers]
         /\ \/ main.index \in {1, 2} /\ main'.at = main.at /\ main'.index = main.index + 1
            \/ main.index = 3 /\ main'.at = then /\ main'.index = 1
<1>1. main \in [at : MainPlaces, index : Smokers] /\ main.index \in {1, 2, 3}
  BY DEF TypeInv, Smokers
<1>2. CASE main.index < 3
  <2>1. main' = [main EXCEPT !.index = @ + 1] /\ main.index \in {1, 2}
    BY <1>1, <1>2 DEF Loop
  <2>2. main'.at = main.at /\ main'.index = main.index + 1
    BY <1>1, <2>1
  <2>3. main.index + 1 \in Smokers
    BY <2>1 DEF Smokers
  <2>4. main' \in [at : MainPlaces, index : Smokers]
    BY <1>1, <2>1, <2>3
  <2> QED
    BY <2>1, <2>2, <2>4
<1>3. CASE ~ (main.index < 3)
  <2>1. main' = [at |-> then, index |-> 1] /\ main.index = 3
    BY <1>1, <1>3 DEF Loop
  <2>2. 1 \in Smokers
    BY DEF Smokers
  <2> QED
    BY <2>1, <2>2
<1> QED
  BY <1>2, <1>3

\* The other steps of the bartender go on at another place.
LEMMA GoesTo ==
  ASSUME TypeInv, NEW p \in MainPlaces, main' = [main EXCEPT !.at = p]
  PROVE  main' \in [at : MainPlaces, index : Smokers] /\ main'.at = p /\ main'.index = main.index
BY DEF TypeInv

\* A fork adds a smoker that holds nothing, or fails.
LEMMA ForkKeeps ==
  ASSUME IInv, Fork \/ ForkFails
  PROVE  IInv'
<1> USE DEF sems
<1>1. main.at = "fork" /\ TypeInv
  BY DEF Fork, ForkFails, IInv
<1>2. /\ main' \in [at : MainPlaces, index : Smokers]
      /\ \/ main.index \in {1, 2} /\ main'.at = "fork" /\ main'.index = main.index + 1
         \/ main.index = 3 /\ main'.at = "getchar" /\ main'.index = 1
  <2>1. Loop("getchar") /\ "getchar" \in MainPlaces
    BY DEF Fork, ForkFails, MainPlaces
  <2> QED
    BY <1>1, <2>1, LoopIs
<1>3. /\ smoker' = smoker /\ bartender' = bartender /\ received' = received /\ expels' = expels
      /\ pending' = pending /\ served' = served /\ printed' = printed /\ reaped' = reaped
      /\ \E p \in {"forked", "failed"} : at' = [at EXCEPT ![main.index] = p]
  BY DEF Fork, ForkFails
<1>4. main.index \in Smokers /\ at \in [Smokers -> Places] /\ at[main.index] = "none"
  BY <1>1 DEF TypeInv, IInv, PhaseInv, Smokers
<1>5. /\ at' \in [Smokers -> Places]
      /\ at'[main.index] \in {"forked", "failed"}
      /\ \A s \in Smokers : s # main.index => at'[s] = at[s]
  BY <1>3, <1>4 DEF Places
<1>6. \A P : P \cap {"none", "forked", "failed"} = {} => Count(at', P) = Count(at, P)
  <2> SUFFICES ASSUME NEW P, P \cap {"none", "forked", "failed"} = {}
               PROVE  In(at', P) = In(at, P)
    BY DEF Count
  <2> QED
    BY <1>4, <1>5 DEF In
<1>7. /\ Count(at', {"test", "sem_post"}) = Count(at, {"test", "sem_post"})
      /\ Count(at', {"exited"}) = Count(at, {"exited"})
      /\ Count(at', {"print"}) = Count(at, {"print"})
  BY <1>6
<1>8. TypeInv'
  <2>1. Sum3(served)' = Sum3(served)
    BY <1>3
  <2> QED
    BY <1>1, <1>2, <1>3, <1>5, <2>1 DEF TypeInv
<1>9. Posts' = Posts /\ Answered' = Answered /\ TotalPrinted' = TotalPrinted
  BY <1>1, <1>2, <1>3 DEF Posts, Answered, TotalPrinted
<1>10. PostsInv' /\ PrintsInv'
  BY <1>3, <1>7, <1>9 DEF IInv, PostsInv, PrintsInv
<1>11. PhaseInv'
  <2>1. \A s \in Smokers : Gone(s) => Gone(s)'
    BY <1>4, <1>5 DEF Gone, Failed
  <2>2. \A s \in reaped' : Gone(s)'
    BY <1>1, <1>3, <2>1 DEF IInv, TypeInv, PhaseInv
  <2> QED
    BY <1>1, <1>2, <1>3, <1>4, <1>5, <2>2 DEF IInv, PhaseInv, Smokers
<1> QED
  BY <1>8, <1>10, <1>11 DEF IInv

\* The steps of the bartender that serve a letter.
LEMMA ServeKeeps ==
  ASSUME IInv, NEW l \in Letters, Serve(l)
  PROVE  IInv'
<1> USE DEF sems
<1>1. main.at = "getchar" /\ TypeInv
  BY DEF Serve, IInv
<1>2. main' \in [at : MainPlaces, index : Smokers] /\ main'.at = "post" /\ main'.index = main.index
  BY <1>1, GoesTo DEF Serve, MainPlaces
<1>3. /\ smoker' = l /\ bartender' = bartender /\ received' = received /\ expels' = expels
      /\ pending' = pending /\ at' = at /\ printed' = printed /\ reaped' = reaped
  BY DEF Serve
<1>4. Sum3(served) \in Nat /\ Sum3(served)' = Sum3(served) + 1
  <2>1. served \in [Letters -> Nat] /\ served' = [served EXCEPT ![l] = @ + 1]
    BY <1>1 DEF Serve, TypeInv
  <2> QED
    BY <2>1, SumOneMore
<1>5. TypeInv'
  <2>1. Sum3(served)' <= MaxLetters
    BY <1>4, MaxLettersAssumption DEF Serve
  <2>2. served' \in [Letters -> Nat]
    BY <1>1 DEF Serve, TypeInv
  <2>3. smoker' \in Chars
    BY <1>3 DEF Chars
  <2> QED
    BY <1>1, <1>2, <1>3, <2>1, <2>2, <2>3 DEF TypeInv, MainPlaces
<1>6. Posts' = Posts /\ Answered' = Answered /\ TotalPrinted' = TotalPrinted
  BY <1>1, <1>2, <1>3, <1>4 DEF Posts, Answered, TotalPrinted
<1>7. PostsInv' /\ PrintsInv'
  BY <1>3, <1>6 DEF IInv, PostsInv, PrintsInv
<1>8. PhaseInv'
  BY <1>1, <1>2, <1>3 DEF IInv, PhaseInv, Gone, Failed
<1> QED
  BY <1>5, <1>7, <1>8 DEF IInv

\* What a SIGTERM or a waitpid for a smoker may reach.
LEMMA NamedIs ==
  ASSUME NEW s \in Smokers
  PROVE  Named(s) \subseteq Smokers /\ (~ Failed(s) => Named(s) = {s})
BY DEF Named

\* Its other steps change nothing but a semaphore or the SIGTERMs sent.
LEMMA OtherKeeps ==
  ASSUME IInv, PostLetter \/ WaitReceived \/ EndOfLine \/ Kill \/ PostExit \/ WaitPid
  PROVE  IInv'
<1> USE DEF sems
<1>1. TypeInv
  BY DEF IInv
<1>2. /\ smoker' = smoker /\ at' = at /\ expels' = expels /\ served' = served /\ printed' = printed
  BY DEF PostLetter, WaitReceived, EndOfLine, Kill, PostExit, WaitPid
<1>3. /\ Sum3(served) \in Nat /\ TotalPrinted \in Nat /\ Posts \in 0 .. 3
      /\ \A P : Count(at, P) \in Nat
  BY <1>1, Numbers
<1>4. /\ main' \in [at : MainPlaces, index : Smokers]
      /\ main.index \in {1, 2, 3}
      /\ \/ PostLetter /\ main.at = "post" /\ main'.at = "wait"
         \/ WaitReceived /\ main.at = "wait" /\ main'.at = "getchar"
         \/ EndOfLine /\ main.at = "getchar" /\ main'.at = "kill"
         \/ Kill /\ main.at = "kill" /\ main.index < 3 /\ main'.at = "kill"
         \/ Kill /\ main.at = "kill" /\ main'.at = "expel" /\ main'.index = 1
         \/ PostExit /\ main.at = "expel" /\ main.index < 3 /\ main'.at = "expel" /\ main'.index = main.index + 1
         \/ PostExit /\ main.at = "expel" /\ main.index = 3 /\ main'.at = "waitpid" /\ main'.index = 1
         \/ WaitPid /\ main.at = "waitpid" /\ main.index < 3 /\ main'.at = "waitpid" /\ main'.index = main.index + 1
         \/ WaitPid /\ main.at = "waitpid" /\ main.index = 3 /\ main'.at = "ended" /\ main'.index = 1
  <2>1. CASE PostLetter
    BY <1>1, <2>1, GoesTo DEF PostLetter, MainPlaces, TypeInv, Smokers
  <2>2. CASE WaitReceived
    BY <1>1, <2>2, GoesTo DEF WaitReceived, MainPlaces, TypeInv, Smokers
  <2>3. CASE EndOfLine
    BY <1>1, <2>3, GoesTo DEF EndOfLine, MainPlaces, TypeInv, Smokers
  <2>4. CASE Kill
    <3>1. main.at = "kill" /\ Loop("expel") /\ "expel" \in MainPlaces
      BY <2>4 DEF Kill, MainPlaces
    <3> QED
      BY <1>1, <2>4, <3>1, LoopIs
  <2>5. CASE PostExit
    <3>1. main.at = "expel" /\ Loop("waitpid") /\ "waitpid" \in MainPlaces
      BY <2>5 DEF PostExit, MainPlaces
    <3> QED
      BY <1>1, <2>5, <3>1, LoopIs
  <2>6. CASE WaitPid
    <3>1. main.at = "waitpid" /\ Loop("ended") /\ "ended" \in MainPlaces
      BY <2>6 DEF WaitPid, MainPlaces
    <3> QED
      BY <1>1, <2>6, <3>1, LoopIs
  <2> QED
    BY <2>1, <2>2, <2>3, <2>4, <2>5, <2>6
<1>5. TypeInv'
  <2>1. Sum3(served)' = Sum3(served)
    BY <1>2
  <2>2. bartender' \in Nat /\ received' \in Nat
    BY <1>1 DEF TypeInv, PostLetter, WaitReceived, EndOfLine, Kill, PostExit, WaitPid, ExitPosts
  <2>3. pending' \subseteq Smokers /\ reaped' \subseteq Smokers
    <3>1. main.index \in Smokers
      BY <1>1 DEF TypeInv
    <3>2. Named(main.index) \subseteq Smokers
      BY <3>1, NamedIs
    <3> QED
      BY <1>1, <3>2 DEF TypeInv, PostLetter, WaitReceived, EndOfLine, Kill, PostExit, WaitPid
  <2> QED
    BY <1>1, <1>2, <1>4, <2>1, <2>2, <2>3 DEF TypeInv
<1>6. PostsInv'
  <2>1. /\ bartender' + received' - (bartender + received) = Posts' - Posts
        /\ bartender' \in Nat /\ received' \in Nat /\ bartender \in Nat /\ received \in Nat
    BY <1>1, <1>4 DEF TypeInv, Posts, PostLetter, WaitReceived, EndOfLine, Kill, PostExit, WaitPid, ExitPosts
  <2>2. bartender + Count(at, {"test", "sem_post"}) + received + Count(at, {"exited"}) = Posts
    BY DEF IInv, PostsInv
  <2>3. bartender' + Count(at, {"test", "sem_post"}) + received' + Count(at, {"exited"}) = Posts'
    <3>1. Posts' \in 0 .. 3
      BY <1>5, <1>4 DEF Posts
    <3> QED
      BY <1>3, <2>1, <2>2, <3>1
  <2> QED
    BY <1>2, <2>3 DEF PostsInv
<1>7. PrintsInv'
  <2>1. received' - received = Answered - Answered' /\ received' \in Nat /\ received \in Nat
        /\ Answered \in Int /\ Answered' \in Int
    BY <1>1, <1>2, <1>3, <1>4
       DEF TypeInv, Answered, PostLetter, WaitReceived, EndOfLine, Kill, PostExit, WaitPid
  <2>2. TotalPrinted + Count(at, {"print"}) = received + Answered
    BY DEF IInv, PrintsInv
  <2>3. TotalPrinted + Count(at, {"print"}) = received' + Answered'
    BY <1>3, <2>1, <2>2
  <2>4. TotalPrinted' = TotalPrinted
    BY <1>2 DEF TotalPrinted
  <2> QED
    BY <1>2, <2>3, <2>4 DEF PrintsInv
<1>8. PhaseInv'
  <2>1. main'.at \in {"fork", "getchar", "post", "wait"} =>
          expels' = {} /\ pending' = {} /\ \A s \in Smokers : at'[s] # "exited"
    <3>1. main'.at \in {"fork", "getchar", "post", "wait"} =>
            main.at \in {"post", "wait"} /\ pending' = pending
      BY <1>4 DEF PostLetter, WaitReceived
    <3> QED
      BY <1>2, <3>1 DEF IInv, PhaseInv
  <2>2. \A s : Gone(s)' <=> Gone(s)
    BY <1>2 DEF Gone, Failed
  <2>3. \A s \in reaped' : Gone(s)'
    BY <2>2 DEF IInv, PhaseInv, PostLetter, WaitReceived, EndOfLine, Kill, PostExit, WaitPid
  <2>4. ASSUME WaitPid
        PROVE  Gone(main.index)
    <3>1. main.index \in Smokers
      BY <1>4 DEF Smokers
    <3>2. CASE Failed(main.index)
      BY <3>2 DEF Gone
    <3>3. CASE ~ Failed(main.index)
      BY <2>4, <3>1, <3>3, NamedIs DEF WaitPid, IInv, PhaseInv
    <3> QED
      BY <3>2, <3>3
  <2>5. main'.at = "waitpid" => \A s \in Smokers : s < main'.index => Gone(s)'
    BY <1>4, <2>2, <2>4 DEF IInv, PhaseInv, Smokers
  <2>6. main'.at = "ended" => \A s \in Smokers : Gone(s)'
    BY <1>4, <2>2, <2>4 DEF IInv, PhaseInv, Smokers
  <2>7. main'.at # "fork"
    BY <1>4
  <2> QED
    BY <2>1, <2>3, <2>5, <2>6, <2>7 DEF PhaseInv
<1> QED
  BY <1>5, <1>6, <1>7, <1>8 DEF IInv

\* Every step keeps it.
LEMMA StepKeeps == IInv /\ [Next]_vars => IInv'
<1> SUFFICES ASSUME IInv, [Next]_vars PROVE IInv'
  OBVIOUS
<1>1. CASE Main
  BY <1>1, ForkKeeps, OtherKeeps DEF Main
<1>2. CASE \E l \in Letters : Serve(l)
  BY <1>2, ServeKeeps
<1>3. CASE \E s \in Smokers : Smoker(s) \/ Deliver(s)
  BY <1>3, SmokerKeeps, DeliverKeeps
<1>4. CASE UNCHANGED vars
  BY <1>4 DEF vars, IInv, TypeInv, PostsInv, Posts, PrintsInv, TotalPrinted, Answered, PhaseInv, Gone, Failed
<1> QED
  BY <1>1, <1>2, <1>3, <1>4 DEF Next

-----------------------------------------------------------------------------
(* The theorems.                                                           *)

\* The inductive invariant holds in every behaviour.
THEOREM Invariance == Spec => []IInv
<1>1. Init => IInv
  BY InitIInv
<1>2. IInv /\ [Next]_vars => IInv'
  BY StepKeeps
<1> QED
  BY <1>1, <1>2, PTL DEF Spec

\* Neither semaphore ever holds more than three posts, and no more letters are
\* served than the bound says.
THEOREM Typing == Spec => []TypeOK
<1>1. IInv => TypeOK
  <2> SUFFICES ASSUME IInv PROVE TypeOK
    OBVIOUS
  <2>1. bartender \in 0 .. 3 /\ received \in 0 .. 3
    <3>1. Posts \in 0 .. 3 /\ \A P : Count(at, P) \in Nat
      BY Numbers DEF IInv
    <3>2. bartender \in Nat /\ received \in Nat
      BY DEF IInv, TypeInv
    <3>3. bartender + Count(at, {"test", "sem_post"}) + received + Count(at, {"exited"}) = Posts
      BY DEF IInv, PostsInv
    <3> QED
      BY <3>1, <3>2, <3>3
  <2> QED
    BY <2>1 DEF IInv, TypeInv, TypeOK, MainPlaces, Places
<1> QED
  BY <1>1, Invariance, PTL

\* Up to the end of the line exactly one post, smoker or answer stands for the
\* letter the bartender waits for.
THEOREM OneLetter == Spec => []OneLetterOut
<1>1. IInv => OneLetterOut
  <2> SUFFICES ASSUME IInv, main.at \in {"fork", "getchar", "post", "wait"}
               PROVE  bartender + Cardinality(Answering) + received = IF main.at = "wait" THEN 1 ELSE 0
    BY DEF OneLetterOut
  <2>1. Count(at, {"exited"}) = 0
    BY CountIsNat DEF IInv, PhaseInv
  <2>2. Cardinality(Answering) = Count(at, {"test", "sem_post"})
    BY DEF Answering, Count, In
  <2>3. Posts = IF main.at = "wait" THEN 1 ELSE 0
    BY DEF Posts
  <2>4. bartender \in Nat /\ received \in Nat /\ Count(at, {"test", "sem_post"}) \in Nat
    BY CountIsNat DEF IInv, TypeInv
  <2> QED
    BY <2>1, <2>2, <2>3, <2>4 DEF IInv, PostsInv
<1> QED
  BY <1>1, Invariance, PTL

\* When the bartender destroys the semaphores every smoker has gone and every
\* letter served has been printed, whatever the order of answers, prints and
\* signals was.
THEOREM EndIsClean == Spec => []CleanEnd
<1>1. IInv => CleanEnd
  <2> SUFFICES ASSUME IInv, main.at = "ended"
               PROVE  (\A s \in Smokers : Gone(s)) /\ TotalPrinted >= Sum3(served)
    BY DEF CleanEnd
  <2>1. \A s \in Smokers : Gone(s)
    BY DEF IInv, PhaseInv
  <2>2. Count(at, {"print"}) = 0
    BY <2>1, CountIsNat DEF Gone, Failed
  <2>3. Sum3(served) \in Nat /\ TotalPrinted \in Nat /\ received \in Nat
    BY Numbers DEF IInv, TypeInv
  <2>4. TotalPrinted = received + Sum3(served)
    BY <2>2, <2>3 DEF IInv, PrintsInv, Answered
  <2> QED
    BY <2>1, <2>3, <2>4
<1> QED
  BY <1>1, Invariance, PTL

\* If no fork failed and no smoker was killed before it had its handler, the end
\* leaves no post and no answer behind, and each letter served has been printed once.
THEOREM NothingIsLeft ==
  Spec => [](main.at = "ended" /\ (\A s \in Smokers : at[s] \notin {"killed", "failed"}) =>
               bartender = 0 /\ received = 0 /\ TotalPrinted = Sum3(served))
<1> DEFINE Left == main.at = "ended" /\ (\A s \in Smokers : at[s] \notin {"killed", "failed"}) =>
                     bartender = 0 /\ received = 0 /\ TotalPrinted = Sum3(served)
<1>1. IInv => Left
  <2> SUFFICES ASSUME IInv, main.at = "ended", \A s \in Smokers : at[s] \notin {"killed", "failed"}
               PROVE  bartender = 0 /\ received = 0 /\ TotalPrinted = Sum3(served)
    OBVIOUS
  <2>1. \A s \in Smokers : at[s] = "exited"
    BY DEF IInv, PhaseInv, Gone, Failed
  <2>2. Count(at, {"exited"}) = 3
    <3>1. In(at, {"exited"}) = Smokers
      BY <2>1 DEF In
    <3> QED
      BY <3>1, SmokersAreFinite DEF Count
  <2>3. Count(at, {"print"}) = 0 /\ Count(at, {"test", "sem_post"}) = 0
    BY <2>1, CountIsNat
  <2>4. Sum3(served) \in Nat /\ TotalPrinted \in Nat /\ bartender \in Nat /\ received \in Nat
    BY Numbers DEF IInv, TypeInv
  <2>5. bartender = 0 /\ received = 0
    BY <2>2, <2>3, <2>4 DEF IInv, PostsInv, Posts
  <2> QED
    BY <2>3, <2>4, <2>5 DEF IInv, PrintsInv, Answered
<1> QED
  BY <1>1, Invariance, PTL
=============================================================================
