----------------------------- MODULE PmapProofs -----------------------------
(***************************************************************************)
(* Proofs about Pmap for every number of processors and of elements.       *)
(***************************************************************************)
EXTENDS Pmap, FiniteSetTheorems, WellFoundedInduction, TLAPS

-----------------------------------------------------------------------------
(* The residue classes, in which the children divide the indices.          *)

\* The values of child id's loop variable: id, id + N, id + 2N, ...
Class(id) == {i \in Nat : \E k \in Nat : i = id + N * k}

\* Consecutive multiples of N are N apart.
LEMMA Gap ==
  ASSUME NEW q \in Int, NEW k \in Int, q < k
  PROVE  N * q + N <= N * k
  <1>1. k - q - 1 \in Nat
    OBVIOUS
  <1>2. N * (k - q - 1) >= 0
    BY <1>1, ArgsAssumption
  <1>3. N * (k - q - 1) = N * k - N * q - N
    BY ArgsAssumption
  <1> QED
    BY <1>2, <1>3, ArgsAssumption

\* A class contains the child's number, goes on in steps of N, and has nothing
\* between two steps.
LEMMA ClassSteps ==
  ASSUME NEW id \in Children, NEW j \in Class(id)
  PROVE  /\ id \in Class(id)
         /\ j + N \in Class(id)
         /\ \A i \in Class(id) : i < j + N => i <= j
  <1>1. id \in Nat /\ j \in Nat /\ N \in Nat
    BY ArgsAssumption DEF Children, Class
  <1>2. PICK k \in Nat : j = id + N * k
    BY DEF Class
  <1>3. id \in Class(id)
    <2>1. id = id + N * 0
      BY <1>1
    <2> QED
      BY <1>1, <2>1 DEF Class
  <1>4. j + N \in Class(id)
    <2>1. N * (k + 1) = N * k + N /\ N * k \in Nat
      BY <1>1
    <2>2. j + N = id + N * (k + 1) /\ k + 1 \in Nat
      BY <1>1, <1>2, <2>1
    <2>3. \E m \in Nat : j + N = id + N * m
      <3> WITNESS k + 1 \in Nat
      <3> QED
        BY <2>2
    <2> QED
      BY <1>1, <2>3 DEF Class
  <1>5. ASSUME NEW i \in Class(id), i < j + N PROVE i <= j
    <2>1. PICK l \in Nat : i = id + N * l
      BY DEF Class
    <2>2. CASE k < l
      <3>1. N * k + N <= N * l
        BY <2>2, Gap
      <3>2. N * k \in Nat /\ N * l \in Nat
        BY <1>1
      <3> QED
        BY <1>1, <1>2, <1>5, <2>1, <3>1, <3>2
    <2>3. CASE l < k
      <3>1. N * l + N <= N * k
        BY <2>3, Gap
      <3>2. N * k \in Nat /\ N * l \in Nat
        BY <1>1
      <3> QED
        BY <1>1, <1>2, <2>1, <3>1, <3>2
    <2>4. CASE k = l
      BY <1>1, <1>2, <2>1, <2>4
    <2> QED
      BY <2>2, <2>3, <2>4
  <1> QED
    BY <1>3, <1>4, <1>5

\* Every index is in the class of some child: the least number that can be
\* reached from it in steps of -N is below N.
LEMMA ClassesCover ==
  ASSUME NEW i \in Nat
  PROVE  \E id \in Children : i \in Class(id)
  <1> DEFINE T == {r \in Nat : \E k \in Nat : i = r + N * k}
  <1>0. N \in Nat /\ N > 0
    BY ArgsAssumption
  <1>1. T \subseteq Nat /\ i \in T
    <2>1. i = i + N * 0
      BY <1>0
    <2> QED
      BY <2>1
  <1>2. PICK r \in T : \A s \in T : ~ (<<s, r>> \in OpToRel(<, Nat))
    <2> HIDE DEF T
    <2> QED
      BY <1>1, NatLessThanWellFounded, WFMin
  <1>3. \A s \in T : ~ (s < r)
    BY <1>1, <1>2 DEF OpToRel
  <1>4. r \in Nat /\ \E k \in Nat : i = r + N * k
    BY <1>2
  <1>5. PICK k \in Nat : i = r + N * k
    BY <1>4
  <1>6. r < N
    <2> SUFFICES ASSUME r >= N PROVE FALSE
      BY <1>0, <1>4
    <2>1. r - N \in Nat /\ r - N < r
      BY <1>0, <1>4
    <2>2. i = (r - N) + N * (k + 1)
      <3>1. N * (k + 1) = N * k + N
        BY <1>0
      <3>2. N * k \in Nat
        BY <1>0
      <3> HIDE DEF T
      <3> QED
        BY <1>0, <1>4, <1>5, <3>1, <3>2
    <2>3. k + 1 \in Nat
      OBVIOUS
    <2>4. r - N \in T
      BY <2>1, <2>2, <2>3
    <2> QED
      BY <1>3, <2>1, <2>4
  <1>7. r \in Children
    BY <1>0, <1>4, <1>6 DEF Children
  <1> QED
    BY <1>5, <1>7 DEF Class

-----------------------------------------------------------------------------
(* The inductive invariant.                                                *)

Posted == {id \in Children : child[id] \in {"waking", "exited"}}

\* Posts the parent has waited for.
Waited == IF parent.at = "fork" THEN 0 ELSE IF parent.at = "wait" THEN parent.index ELSE N

Types ==
  /\ child \in [Children -> {"none", "missing", "loop", "crashed", "post", "waking",
                             "exited"}]
  /\ next \in [Children -> Nat]
  /\ result \in [Index -> {"zero", "computed"}]
  /\ sem \in Nat
  /\ state \in {"shared", "deleted"}
  /\ parent \in [at : {"fork", "wait", "reap", "delete", "returned"}, index : Children]
  /\ reaped \in SUBSET Children
  /\ interrupted \in SUBSET {"wait", "reap"}

\* The children before the fork loop's index exist, or fork failed for them.
ForkInv ==
  \A id \in Children : child[id] = "none" <=> parent.at = "fork" /\ id >= parent.index

\* A post is either still in the semaphore or has been waited for; a wait that was
\* interrupted passes without one.
SemInv ==
  /\ sem <= Cardinality(Posted)
  /\ Cardinality(Posted) <= sem + Waited
  /\ "wait" \notin interrupted => Cardinality(Posted) = sem + Waited

\* A child has computed what is below j in its class, and all of it when it
\* comes to its post.
StrideInv ==
  \A id \in Children :
    /\ next[id] \in Class(id)
    /\ \A i \in Class(id) \cap Index : i < next[id] => result[i] = "computed"
    /\ child[id] \in {"post", "waking", "exited"} => next[id] >= Count

\* What waitpid has returned has ended, and so have the children before the
\* parent's index unless a waitpid was interrupted.
ReapInv ==
  /\ \A id \in reaped : Ended(id)
  /\ parent.at = "reap" /\ "reap" \notin interrupted =>
       \A id \in Children : id < parent.index => ~Running(id)
  /\ parent.at \in {"delete", "returned"} /\ "reap" \notin interrupted =>
       \A id \in Children : ~Running(id)
  /\ state = "deleted" => parent.at = "returned"

IInv == Types /\ ForkInv /\ SemInv /\ StrideInv /\ ReapInv

-----------------------------------------------------------------------------
(* Counting posts.                                                         *)

LEMMA ChildrenFinite == IsFiniteSet(Children) /\ Cardinality(Children) = N
  BY FS_Interval, ArgsAssumption DEF Children

LEMMA PostedFinite ==
  /\ IsFiniteSet(Posted) /\ Cardinality(Posted) \in Nat /\ Cardinality(Posted) <= N
  /\ Cardinality(Posted) = N => Posted = Children
  <1>1. Posted \in SUBSET Children
    BY DEF Posted
  <1>2. IsFiniteSet(Posted)
    BY <1>1, ChildrenFinite, FS_Subset
  <1> QED
    BY <1>1, <1>2, ChildrenFinite, FS_Subset, FS_CardinalityType

LEMMA IndexRange == Types => parent.index \in Children /\ parent.index \in Nat /\ N \in Nat
  <1> SUFFICES ASSUME Types PROVE parent.index \in Children /\ parent.index \in Nat /\ N \in Nat
    OBVIOUS
  <1>1. parent.index \in Children
    BY DEF Types
  <1>2. N \in Nat /\ \A x \in Children : x \in Nat
    BY ArgsAssumption DEF Children
  <1> QED
    BY <1>1, <1>2

\* N posts can only come from N children.
LEMMA AllPosted ==
  ASSUME Types, SemInv
  PROVE  /\ sem <= N
         /\ parent.at \in {"reap", "delete", "returned"} /\ "wait" \notin interrupted =>
              Posted = Children
  <1>1. Waited \in Nat /\ N \in Nat /\ sem \in Nat
    <2>1. sem \in Nat
      BY DEF Types
    <2> QED
      BY <2>1, IndexRange DEF Waited
  <1>2. sem <= N
    BY <1>1, PostedFinite DEF SemInv
  <1>3. ASSUME parent.at \in {"reap", "delete", "returned"}, "wait" \notin interrupted
        PROVE  Posted = Children
    <2>1. Waited = N
      BY <1>3 DEF Waited
    <2>2. Cardinality(Posted) = N
      BY <1>1, <1>3, <2>1, PostedFinite DEF SemInv
    <2> QED
      BY <2>2, PostedFinite
  <1> QED
    BY <1>2, <1>3

\* What one turn of a loop of the parent does.
LEMMA LoopTurn ==
  ASSUME Types, NEW then \in {"wait", "reap", "delete"}, Loop(then)
  PROVE  /\ parent' \in [at : {"fork", "wait", "reap", "delete", "returned"}, index : Children]
         /\ parent.index + 1 < N => parent'.at = parent.at /\ parent'.index = parent.index + 1
         /\ ~(parent.index + 1 < N) =>
              parent'.at = then /\ parent'.index = 0 /\ parent.index = N - 1
  <1>0. 0 \in Children
    BY ArgsAssumption DEF Children
  <1>1. parent.index \in Children /\ parent.index \in Nat /\ N \in Nat
    BY IndexRange
  <1>2. CASE parent.index + 1 < N
    <2>1. parent' = [parent EXCEPT !.index = parent.index + 1]
      BY <1>2 DEF Loop
    <2>2. parent.index + 1 \in Children
      BY <1>1, <1>2 DEF Children
    <2> QED
      BY <1>2, <2>1, <2>2 DEF Types
  <1>3. CASE ~(parent.index + 1 < N)
    <2>1. parent' = [at |-> then, index |-> 0]
      BY <1>3 DEF Loop
    <2>2. parent.index = N - 1
      BY <1>3, ArgsAssumption, <1>1 DEF Children
    <2> QED
      BY <1>0, <1>3, <2>1, <2>2
  <1> QED
    BY <1>2, <1>3

-----------------------------------------------------------------------------
(* The invariant is inductive.                                             *)

LEMMA InvInit == Init => IInv
  <1> SUFFICES ASSUME Init PROVE IInv
    OBVIOUS
  <1>0. N \in Nat /\ 0 \in Children /\ Children \subseteq Nat
    BY ArgsAssumption DEF Children
  <1>1. Types
    BY <1>0 DEF Init, Types
  <1>2. ForkInv
    BY <1>0 DEF Init, ForkInv
  <1>3. Posted = {}
    BY DEF Init, Posted
  <1>4. SemInv
    BY <1>3, FS_EmptySet DEF Init, SemInv, Waited
  <1>5. StrideInv
    <2> SUFFICES ASSUME NEW id \in Children
                 PROVE  /\ id \in Class(id)
                        /\ \A i \in Class(id) : ~ (i < id)
      BY DEF Init, StrideInv
    <2>1. id = id + N * 0
      BY <1>0
    <2>2. id \in Class(id)
      BY <1>0, <2>1 DEF Class
    <2>3. ASSUME NEW i \in Class(id), i < id PROVE FALSE
      <3>1. PICK k \in Nat : i = id + N * k
        BY DEF Class
      <3>2. N * k \in Nat
        BY <1>0
      <3> QED
        BY <1>0, <2>3, <3>1, <3>2
    <2> QED
      BY <2>2, <2>3
  <1>6. ReapInv
    BY DEF Init, ReapInv
  <1> QED
    BY <1>1, <1>2, <1>4, <1>5, <1>6 DEF IInv

\* A step that makes no post and no wait keeps the count.
LEMMA SameCount ==
  ASSUME SemInv, Posted' = Posted, sem' = sem, Waited' = Waited,
         interrupted' = interrupted
  PROVE  SemInv'
  BY DEF SemInv

\* Steps of a child.
LEMMA ChildStep ==
  ASSUME IInv, NEW id \in Children, Child(id) \/ Crash(id)
  PROVE  IInv'
  <1>0. /\ Types /\ ForkInv /\ SemInv /\ StrideInv /\ ReapInv
        /\ N \in Nat /\ Count \in Nat
    BY ArgsAssumption DEF IInv
  <1>1. CASE Compute(id) /\ next[id] < Count
    <2>1. /\ child[id] = "loop" /\ child' = child /\ sem' = sem /\ state' = state
          /\ parent' = parent /\ reaped' = reaped /\ interrupted' = interrupted
          /\ result' = [result EXCEPT ![next[id]] = "computed"]
          /\ next' = [next EXCEPT ![id] = next[id] + N]
      BY <1>1 DEF Compute
    <2>2. next[id] \in Nat
      BY <1>0 DEF Types
    <2>3. next[id] \in Index
      BY <1>0, <1>1, <2>2 DEF Index
    <2>4. Types'
      <3>1. next \in [Children -> Nat] /\ result \in [Index -> {"zero", "computed"}]
        BY <1>0 DEF Types
      <3>2. next[id] + N \in Nat
        BY <1>0, <2>2
      <3>3. next' \in [Children -> Nat]
        BY <2>1, <3>1, <3>2
      <3>4. result' \in [Index -> {"zero", "computed"}]
        BY <2>1, <2>3, <3>1
      <3> QED
        BY <1>0, <2>1, <3>3, <3>4 DEF Types
    <2>5. ForkInv' /\ ReapInv'
      BY <1>0, <2>1 DEF ForkInv, ReapInv, Ended, Running
    <2>6. SemInv'
      BY <1>0, <2>1, SameCount DEF Posted, Waited
    <2>7. ASSUME NEW c \in Children
          PROVE  /\ next'[c] \in Class(c)
                 /\ \A i \in Class(c) \cap Index : i < next'[c] => result'[i] = "computed"
                 /\ child'[c] \in {"post", "waking", "exited"} => next'[c] >= Count
      <3>1. /\ next[c] \in Class(c)
            /\ \A i \in Class(c) \cap Index : i < next[c] => result[i] = "computed"
            /\ child[c] \in {"post", "waking", "exited"} => next[c] >= Count
        BY <1>0 DEF StrideInv
      <3>2. \A i \in Index : result'[i] = IF i = next[id] THEN "computed" ELSE result[i]
        BY <1>0, <2>1 DEF Types
      <3>3. CASE c # id
        <4>1. next'[c] = next[c]
          BY <1>0, <2>1, <3>3 DEF Types
        <4> QED
          BY <2>1, <3>1, <3>2, <4>1
      <3>4. CASE c = id
        <4>1. next'[c] = next[c] + N
          BY <1>0, <2>1, <3>4 DEF Types
        <4>2. next'[c] \in Class(c)
          BY <3>1, <4>1, ClassSteps
        <4>3. \A i \in Class(c) : i < next[c] + N => i <= next[c]
          BY <3>1, ClassSteps
        <4>4. \A i \in Class(c) : i < next'[c] => i < next[c] \/ i = next[c]
          <5>1. \A i \in Class(c) : i \in Nat
            BY DEF Class
          <5> QED
            BY <2>2, <3>4, <4>1, <4>3, <5>1
        <4> QED
          BY <2>1, <3>1, <3>2, <3>4, <4>2, <4>4
      <3> QED
        BY <3>3, <3>4
    <2>8. StrideInv'
      BY <2>7 DEF StrideInv, Class
    <2> QED
      BY <2>4, <2>5, <2>6, <2>8 DEF IInv
  <1>2. CASE \/ Compute(id) /\ ~(next[id] < Count)
             \/ Crash(id)
             \/ Exit(id)
    <2>1. /\ next' = next /\ result' = result /\ sem' = sem /\ state' = state
          /\ parent' = parent /\ reaped' = reaped /\ interrupted' = interrupted
      BY <1>2 DEF Compute, Crash, Exit
    <2>2. PICK to \in {"post", "crashed", "exited"} :
            /\ child' = [child EXCEPT ![id] = to]
            /\ to = "post" => child[id] = "loop" /\ ~(next[id] < Count)
            /\ to = "crashed" => child[id] = "loop"
            /\ to = "exited" => child[id] = "waking"
      BY <1>2 DEF Compute, Crash, Exit
    <2>3. \A c \in Children : child'[c] = IF c = id THEN to ELSE child[c]
      BY <1>0, <2>2 DEF Types
    <2>4. Types'
      <3>1. child' \in [Children -> {"none", "missing", "loop", "crashed", "post", "waking",
                                     "exited"}]
        BY <1>0, <2>2 DEF Types
      <3> QED
        BY <1>0, <2>1, <3>1 DEF Types
    <2>5. ForkInv'
      BY <1>0, <2>1, <2>2, <2>3 DEF ForkInv
    <2>6. ReapInv'
      <3>1. \A c \in Children : (Ended(c) => Ended(c)') /\ (~Running(c) => ~Running(c)')
        BY <2>2, <2>3 DEF Ended, Running
      <3>2. reaped \subseteq Children
        BY <1>0 DEF Types
      <3> QED
        BY <1>0, <2>1, <3>1, <3>2 DEF ReapInv
    <2>7. SemInv'
      <3>1. Posted' = Posted
        BY <2>2, <2>3 DEF Posted
      <3> QED
        BY <1>0, <2>1, <3>1, SameCount DEF Waited
    <2>8. next[id] \in Nat
      BY <1>0 DEF Types
    <2>9. ASSUME NEW c \in Children,
                 child'[c] \in {"post", "waking", "exited"}
          PROVE  next[c] >= Count
      BY <1>0, <2>2, <2>3, <2>8, <2>9 DEF StrideInv
    <2>10. StrideInv'
      BY <1>0, <2>1, <2>9 DEF StrideInv, Class
    <2> QED
      BY <2>4, <2>5, <2>6, <2>7, <2>10 DEF IInv
  <1>3. CASE Post(id)
    <2>1. /\ child[id] = "post" /\ sem' = sem + 1 /\ child' = [child EXCEPT ![id] = "waking"]
          /\ next' = next /\ result' = result /\ state' = state /\ parent' = parent
          /\ reaped' = reaped /\ interrupted' = interrupted
      BY <1>3 DEF Post
    <2>2. \A c \in Children : child'[c] = IF c = id THEN "waking" ELSE child[c]
      BY <1>0, <2>1 DEF Types
    <2>3. Types'
      <3>1. child' \in [Children -> {"none", "missing", "loop", "crashed", "post", "waking",
                                     "exited"}]
        BY <1>0, <2>1 DEF Types
      <3>2. sem' \in Nat
        <4>1. sem \in Nat
          BY <1>0 DEF Types
        <4> QED
          BY <2>1, <4>1
      <3> QED
        BY <1>0, <2>1, <3>1, <3>2 DEF Types
    <2>4. ForkInv' /\ ReapInv'
      <3>1. \A c \in Children : (Ended(c) => Ended(c)') /\ (~Running(c) => ~Running(c)')
        BY <2>1, <2>2 DEF Ended, Running
      <3>2. reaped \subseteq Children
        BY <1>0 DEF Types
      <3>3. ReapInv'
        BY <1>0, <2>1, <3>1, <3>2 DEF ReapInv
      <3> QED
        BY <1>0, <2>1, <2>2, <3>3 DEF ForkInv
    <2>5. StrideInv'
      BY <1>0, <2>1, <2>2 DEF StrideInv, Class
    <2>6. Posted' = Posted \cup {id} /\ id \notin Posted
      BY <2>1, <2>2 DEF Posted
    <2>7. Cardinality(Posted') = Cardinality(Posted) + 1
      BY <2>6, PostedFinite, FS_AddElement
    <2>8. Waited' = Waited /\ Waited \in Nat /\ sem \in Nat
      <3>1. sem \in Nat
        BY <1>0 DEF Types
      <3>2. Waited \in Nat
        BY <1>0, IndexRange DEF Waited
      <3> QED
        BY <2>1, <3>1, <3>2 DEF Waited
    <2>9. SemInv'
      <3>1. Cardinality(Posted) \in Nat
        BY PostedFinite
      <3> QED
        BY <1>0, <2>1, <2>7, <2>8, <3>1 DEF SemInv
    <2> QED
      BY <2>3, <2>4, <2>5, <2>9 DEF IInv
  <1> QED
    BY <1>1, <1>2, <1>3 DEF Child, Compute

\* Fork, successful or not, adds a child that has not posted.
LEMMA ForkStep ==
  ASSUME IInv, Fork \/ ForkFails
  PROVE  IInv'
  <1>0. Types /\ ForkInv /\ SemInv /\ StrideInv /\ ReapInv
    BY DEF IInv
  <1>a. N \in Nat /\ parent.index \in Children /\ parent.index \in Nat
    BY <1>0, IndexRange
  <1>1. PICK born \in {"loop", "missing"} :
          /\ parent.at = "fork" /\ Loop("wait")
          /\ child' = [child EXCEPT ![parent.index] = born]
          /\ next' = next /\ result' = result /\ sem' = sem /\ state' = state
          /\ reaped' = reaped /\ interrupted' = interrupted
    BY DEF Fork, ForkFails
  <1>2. \A c \in Children : child'[c] = IF c = parent.index THEN born ELSE child[c]
    BY <1>0, <1>1, <1>a DEF Types
  <1>3. child[parent.index] = "none"
    <2>1. parent.index >= parent.index /\ parent.index \in Children
      BY <1>a
    <2>2. child[parent.index] = "none" <=> parent.at = "fork" /\ parent.index >= parent.index
      BY <1>0, <2>1 DEF ForkInv
    <2> QED
      BY <1>1, <2>1, <2>2
  <1>4. /\ parent' \in [at : {"fork", "wait", "reap", "delete", "returned"}, index : Children]
        /\ parent.index + 1 < N => parent'.at = "fork" /\ parent'.index = parent.index + 1
        /\ ~(parent.index + 1 < N) =>
             parent'.at = "wait" /\ parent'.index = 0 /\ parent.index = N - 1
    BY <1>0, <1>1, LoopTurn
  <1>5. Types'
    <2>1. child' \in [Children -> {"none", "missing", "loop", "crashed", "post", "waking",
                                   "exited"}]
      BY <1>0, <1>1, <1>a DEF Types
    <2> QED
      BY <1>0, <1>1, <1>4, <2>1 DEF Types
  <1>6. ForkInv'
    <2> SUFFICES ASSUME NEW c \in Children
                 PROVE  child'[c] = "none" <=> parent'.at = "fork" /\ c >= parent'.index
      BY DEF ForkInv
    <2>1. child[c] = "none" <=> c >= parent.index
      BY <1>0, <1>1 DEF ForkInv
    <2>2. c \in Nat /\ c < N /\ N \in Nat /\ parent.index \in Nat
      BY <1>a DEF Children
    <2>3. child'[c] = "none" <=> c >= parent.index /\ c # parent.index
      <3>1. CASE c = parent.index
        BY <1>1, <1>2, <3>1
      <3>2. CASE c # parent.index
        BY <1>2, <2>1, <3>2
      <3> QED
        BY <3>1, <3>2
    <2>4. CASE parent.index + 1 < N
      BY <1>4, <2>2, <2>3, <2>4
    <2>5. CASE ~(parent.index + 1 < N)
      BY <1>4, <2>2, <2>3, <2>5
    <2> QED
      BY <2>4, <2>5
  <1>7. SemInv'
    <2>1. Posted' = Posted
      BY <1>1, <1>2, <1>3 DEF Posted
    <2>2. Waited' = Waited
      BY <1>1, <1>4 DEF Waited
    <2> QED
      BY <1>0, <1>1, <2>1, <2>2, SameCount
  <1>8. StrideInv'
    BY <1>0, <1>1, <1>2 DEF StrideInv, Class
  <1>9. ReapInv'
    <2>1. reaped \subseteq Children /\ \A c \in reaped : Ended(c)
      BY <1>0 DEF Types, ReapInv
    <2>2. \A c \in reaped : c # parent.index
      BY <1>3, <2>1 DEF Ended
    <2>3. \A c \in reaped : Ended(c)'
      BY <1>2, <2>1, <2>2 DEF Ended
    <2>4. parent'.at \in {"fork", "wait"}
      BY <1>4
    <2>5. state # "deleted"
      BY <1>0, <1>1 DEF ReapInv
    <2> QED
      BY <1>1, <2>3, <2>4, <2>5 DEF ReapInv
  <1> QED
    BY <1>5, <1>6, <1>7, <1>8, <1>9 DEF IInv

\* A turn of the sem_wait loop, with a post or interrupted.
LEMMA SemWaitStep ==
  ASSUME IInv, SemWait \/ SemWaitInterrupted
  PROVE  IInv'
  <1>0. /\ Types /\ ForkInv /\ SemInv /\ StrideInv /\ ReapInv
        /\ N \in Nat /\ parent.index \in Children /\ parent.index \in Nat
        /\ Children \subseteq Nat
    BY ArgsAssumption, IndexRange DEF IInv, Children
  <1>1. /\ parent.at = "wait" /\ Loop("reap")
        /\ child' = child /\ next' = next /\ result' = result /\ state' = state
        /\ reaped' = reaped
        /\ \/ sem > 0 /\ sem' = sem - 1 /\ interrupted' = interrupted
           \/ sem' = sem /\ interrupted' = interrupted \cup {"wait"}
    BY DEF SemWait, SemWaitInterrupted
  <1>2. /\ parent' \in [at : {"fork", "wait", "reap", "delete", "returned"}, index : Children]
        /\ parent.index + 1 < N => parent'.at = "wait" /\ parent'.index = parent.index + 1
        /\ ~(parent.index + 1 < N) =>
             parent'.at = "reap" /\ parent'.index = 0 /\ parent.index = N - 1
    BY <1>0, <1>1, LoopTurn
  <1>3. sem \in Nat /\ sem' \in Nat
    <2>1. sem \in Nat
      BY <1>0 DEF Types
    <2> QED
      BY <1>1, <2>1
  <1>4. Types'
    <2>1. interrupted' \in SUBSET {"wait", "reap"}
      BY <1>0, <1>1 DEF Types
    <2> QED
      BY <1>0, <1>1, <1>2, <1>3, <2>1 DEF Types
  <1>5. ForkInv'
    BY <1>0, <1>1, <1>2 DEF ForkInv
  <1>6. SemInv'
    <2>1. Waited = parent.index /\ Waited' = parent.index + 1
      BY <1>0, <1>1, <1>2 DEF Waited
    <2>2. Posted' = Posted /\ Cardinality(Posted) \in Nat
      BY <1>1, PostedFinite DEF Posted
    <2>3. CASE sem > 0 /\ sem' = sem - 1 /\ interrupted' = interrupted
      BY <1>0, <1>3, <2>1, <2>2, <2>3 DEF SemInv
    <2>4. CASE sem' = sem /\ interrupted' = interrupted \cup {"wait"}
      BY <1>0, <1>3, <2>1, <2>2, <2>4 DEF SemInv
    <2> QED
      BY <1>1, <2>3, <2>4
  <1>7. StrideInv'
    BY <1>0, <1>1 DEF StrideInv, Class
  <1>8. ReapInv'
    <2>1. parent'.at = "reap" => parent'.index = 0
      BY <1>2
    <2>2. parent'.at \in {"wait", "reap"}
      BY <1>2
    <2>3. state # "deleted"
      BY <1>0, <1>1 DEF ReapInv
    <2>4. \A id \in Children : ~(id < 0)
      BY <1>0
    <2> QED
      BY <1>0, <1>1, <2>1, <2>2, <2>3, <2>4 DEF ReapInv, Ended
  <1> QED
    BY <1>4, <1>5, <1>6, <1>7, <1>8 DEF IInv

\* A turn of the waitpid loop, with a child, without any left, or interrupted.
LEMMA WaitPidStep ==
  ASSUME IInv, WaitPid \/ WaitPidInterrupted
  PROVE  IInv'
  <1>0. /\ Types /\ ForkInv /\ SemInv /\ StrideInv /\ ReapInv
        /\ N \in Nat /\ parent.index \in Children /\ parent.index \in Nat
        /\ Children \subseteq Nat
    BY ArgsAssumption, IndexRange DEF IInv, Children
  <1>1. /\ parent.at = "reap" /\ Loop("delete")
        /\ child' = child
        /\ sem' = sem /\ next' = next /\ result' = result /\ state' = state
        /\ \/ /\ interrupted' = interrupted
              /\ \/ \E id \in Awaited : Ended(id) /\ reaped' = reaped \cup {id}
                 \/ Awaited = {} /\ reaped' = reaped
           \/ interrupted' = interrupted \cup {"reap"} /\ reaped' = reaped
    BY DEF WaitPid, WaitPidInterrupted
  <1>2. /\ parent' \in [at : {"fork", "wait", "reap", "delete", "returned"}, index : Children]
        /\ parent.index + 1 < N => parent'.at = "reap" /\ parent'.index = parent.index + 1
        /\ ~(parent.index + 1 < N) =>
             parent'.at = "delete" /\ parent'.index = 0 /\ parent.index = N - 1
    BY <1>0, <1>1, LoopTurn
  <1>3. Awaited \subseteq Children
    BY <1>0 DEF Awaited
  <1>4. reaped' \subseteq Children /\ \A id \in reaped' : Ended(id)
    <2>1. reaped \subseteq Children /\ \A id \in reaped : Ended(id)
      BY <1>0 DEF Types, ReapInv
    <2> QED
      BY <1>1, <1>3, <2>1
  <1>5. Types'
    <2>1. interrupted' \in SUBSET {"wait", "reap"}
      BY <1>0, <1>1 DEF Types
    <2> QED
      BY <1>0, <1>1, <1>2, <1>4, <2>1 DEF Types
  <1>6. parent'.at \in {"reap", "delete"}
    BY <1>2
  <1>7. ForkInv'
    BY <1>0, <1>1, <1>6 DEF ForkInv
  <1>8. SemInv'
    <2>1. Posted' = Posted
      BY <1>1 DEF Posted
    <2>2. Waited' = Waited
      BY <1>1, <1>6 DEF Waited
    <2>3. "wait" \notin interrupted' => "wait" \notin interrupted
      BY <1>1
    <2> QED
      BY <1>0, <1>1, <2>1, <2>2, <2>3 DEF SemInv
  <1>9. StrideInv'
    BY <1>0, <1>1 DEF StrideInv, Class
  <1>10. ASSUME "reap" \notin interrupted', NEW c \in Children, c <= parent.index
         PROVE  ~Running(c)
    <2>1. /\ "reap" \notin interrupted
          /\ \/ \E id \in Awaited : Ended(id)
             \/ Awaited = {}
      BY <1>1, <1>10
    <2>2. CASE c = parent.index
      <3>1. CASE child[c] = "missing"
        BY <3>1 DEF Running
      <3>2. CASE child[c] # "missing"
        <4>1. Awaited = {c} \ reaped
          BY <2>2, <3>2 DEF Awaited
        <4>2. Ended(c)
          BY <1>0, <2>1, <4>1 DEF ReapInv
        <4> QED
          BY <4>2 DEF Ended, Running
      <3> QED
        BY <3>1, <3>2
    <2>3. CASE c # parent.index
      <3>1. c < parent.index
        BY <1>0, <1>10, <2>3
      <3> QED
        BY <1>0, <1>1, <2>1, <3>1 DEF ReapInv
    <2> QED
      BY <2>2, <2>3
  <1>11. ReapInv'
    <2>1. \A id \in Children : Running(id)' = Running(id) /\ Ended(id)' = Ended(id)
      BY <1>1 DEF Running, Ended
    <2>2. state # "deleted"
      BY <1>0, <1>1 DEF ReapInv
    <2>3. CASE parent.index + 1 < N
      <3>1. \A c \in Children : c < parent'.index => c <= parent.index
        BY <1>0, <1>2, <2>3
      <3>2. parent'.at = "reap"
        BY <1>2, <2>3
      <3> QED
        BY <1>1, <1>4, <1>10, <2>1, <2>2, <3>1, <3>2 DEF ReapInv
    <2>4. CASE ~(parent.index + 1 < N)
      <3>1. \A c \in Children : c <= parent.index
        BY <1>0, <1>2, <2>4 DEF Children
      <3>2. parent'.at = "delete"
        BY <1>2, <2>4
      <3> QED
        BY <1>1, <1>4, <1>10, <2>1, <2>2, <3>1, <3>2 DEF ReapInv
    <2> QED
      BY <2>3, <2>4
  <1> QED
    BY <1>5, <1>7, <1>8, <1>9, <1>11 DEF IInv

LEMMA DeleteStep ==
  ASSUME IInv, DeleteState
  PROVE  IInv'
  <1>0. Types /\ ForkInv /\ SemInv /\ StrideInv /\ ReapInv
    BY DEF IInv
  <1>1. /\ parent.at = "delete" /\ parent' = [parent EXCEPT !.at = "returned"]
        /\ state' = "deleted"
        /\ child' = child /\ next' = next /\ result' = result /\ sem' = sem
        /\ reaped' = reaped /\ interrupted' = interrupted
    BY DEF DeleteState
  <1>2. /\ parent' \in [at : {"fork", "wait", "reap", "delete", "returned"}, index : Children]
        /\ parent'.at = "returned"
    BY <1>0, <1>1 DEF Types
  <1>3. Types'
    BY <1>0, <1>1, <1>2 DEF Types
  <1>4. ForkInv' /\ StrideInv'
    BY <1>0, <1>1, <1>2 DEF ForkInv, StrideInv, Class
  <1>5. SemInv'
    BY <1>0, <1>1, <1>2, SameCount DEF Posted, Waited
  <1>6. ReapInv'
    BY <1>0, <1>1, <1>2 DEF ReapInv, Ended, Running
  <1> QED
    BY <1>3, <1>4, <1>5, <1>6 DEF IInv

THEOREM Invariance == Spec => []IInv
  <1>1. IInv /\ [Next]_vars => IInv'
    <2> SUFFICES ASSUME IInv, [Next]_vars PROVE IInv'
      OBVIOUS
    <2>1. CASE Next
      <3>1. CASE Returned
        BY <3>1 DEF Returned, vars, IInv, Types, ForkInv, SemInv, Posted, Waited, StrideInv,
                    ReapInv, Ended, Running, Class
      <3> QED
        BY <2>1, <3>1, ForkStep, SemWaitStep, WaitPidStep, DeleteStep, ChildStep
        DEF Next, Parent
    <2>2. CASE UNCHANGED vars
      BY <2>2 DEF vars, IInv, Types, ForkInv, SemInv, Posted, Waited, StrideInv, ReapInv,
                  Ended, Running, Class
    <2> QED
      BY <2>1, <2>2
  <1> QED
    BY <1>1, InvInit, PTL DEF Spec

-----------------------------------------------------------------------------
(* What pmap_process promises.                                             *)

\* The semaphore never counts more posts than there are children.
THEOREM Typing == Spec => []TypeOK
  <1>1. IInv => TypeOK
    <2> SUFFICES ASSUME IInv PROVE TypeOK
      OBVIOUS
    <2>1. sem \in 0 .. N
      <3>1. sem \in Nat /\ N \in Nat
        BY ArgsAssumption DEF IInv, Types
      <3>2. sem <= N
        BY AllPosted DEF IInv
      <3> QED
        BY <3>1, <3>2
    <2> QED
      BY <2>1 DEF IInv, Types, TypeOK
  <1> QED
    BY <1>1, Invariance, PTL

\* What is returned has every index computed if no sem_wait was interrupted, or no
\* waitpid was and nothing has failed: N posts come from N children, and N children
\* that have ended without a failure have posted.
THEOREM CompleteOnReturn == Spec => []ReturnsComplete
  <1>1. IInv => ReturnsComplete
    <2> SUFFICES ASSUME IInv, parent.at = "returned",
                        \/ "wait" \notin interrupted
                        \/ "reap" \notin interrupted /\ Failed = {},
                        NEW i \in Index
                 PROVE  result[i] = "computed"
      BY DEF ReturnsComplete
    <2>1. i \in Nat /\ i < Count
      BY ArgsAssumption DEF Index
    <2>2. PICK id \in Children : i \in Class(id)
      BY <2>1, ClassesCover
    <2>3. child[id] \in {"waking", "exited"}
      <3>1. CASE "wait" \notin interrupted
        <4>1. Posted = Children
          BY <3>1, AllPosted DEF IInv
        <4> QED
          BY <4>1 DEF Posted
      <3>2. CASE "reap" \notin interrupted /\ Failed = {}
        <4>1. ~Running(id)
          BY <3>2 DEF IInv, ReapInv
        <4>2. child[id] # "none"
          BY DEF IInv, ForkInv
        <4>3. child[id] \notin {"missing", "crashed"}
          BY <3>2 DEF Failed
        <4>4. child[id] \in {"none", "missing", "loop", "crashed", "post", "waking", "exited"}
          BY DEF IInv, Types
        <4> QED
          BY <4>1, <4>2, <4>3, <4>4 DEF Running
      <3> QED
        BY <3>1, <3>2
    <2>4. next[id] \in Nat /\ next[id] >= Count
      BY <2>3 DEF IInv, Types, StrideInv
    <2>5. i < next[id]
      BY <2>1, <2>4, ArgsAssumption
    <2> QED
      BY <2>2, <2>5 DEF IInv, StrideInv
  <1> QED
    BY <1>1, Invariance, PTL

\* The semaphore outlives the last sem_post, unless a waitpid was interrupted.
THEOREM DestroyIsSafe == Spec => []NoPostAfterDestroy
  <1>1. IInv => NoPostAfterDestroy
    BY DEF IInv, ReapInv, NoPostAfterDestroy
  <1> QED
    BY <1>1, Invariance, PTL

\* Unless a sem_wait was interrupted, the parent calls waitpid only when all
\* children exist and have posted.
THEOREM ReapsItsChildren == Spec => []ReapsOwnChildren
  <1>1. IInv => ReapsOwnChildren
    <2> SUFFICES ASSUME IInv, parent.at \in {"reap", "delete", "returned"},
                        "wait" \notin interrupted
                 PROVE  \A id \in Children : child[id] \in {"waking", "exited"}
      BY DEF ReapsOwnChildren
    <2>1. Posted = Children
      BY AllPosted DEF IInv
    <2> QED
      BY <2>1 DEF Posted
  <1> QED
    BY <1>1, Invariance, PTL

\* A parent that has no child to reap, or no post to take unless one has failed,
\* waits for a child that runs.
THEOREM BlockedOnlyByRunningChildren == Spec => []BlockedForARunningChild
  <1>1. IInv => BlockedForARunningChild
    <2> SUFFICES ASSUME IInv, Blocked, parent.at = "wait" => Failed = {}
                 PROVE  \E id \in Children : Running(id)
      BY DEF BlockedForARunningChild
    <2>0. /\ Types /\ ForkInv /\ SemInv /\ ReapInv
          /\ N \in Nat /\ parent.index \in Children /\ parent.index \in Nat
      BY IndexRange DEF IInv
    <2>1. \A id \in Children : child[id] # "none"
      BY <2>0 DEF ForkInv, Blocked
    <2>2. \A id \in Children :
            child[id] \in {"missing", "loop", "crashed", "post", "waking", "exited"}
      BY <2>0, <2>1 DEF Types
    <2>3. CASE parent.at = "wait" /\ sem = 0
      <3>1. Cardinality(Posted) <= parent.index
        BY <2>0, <2>3, PostedFinite DEF SemInv, Waited
      <3>2. parent.index < N
        BY <2>0 DEF Children
      <3>3. Posted # Children
        BY <2>0, <3>1, <3>2, ChildrenFinite
      <3>4. PICK id \in Children : id \notin Posted
        BY <3>3 DEF Posted
      <3>5. child[id] \notin {"missing", "crashed", "waking", "exited"}
        BY <2>3, <3>4 DEF Failed, Posted
      <3> QED
        BY <2>2, <3>5 DEF Running
    <2>4. CASE parent.at = "reap" /\ Awaited # {} /\ \A id \in Awaited : ~Ended(id)
      <3>1. PICK id \in Awaited : ~Ended(id)
        BY <2>4
      <3>2. id \in Children /\ child[id] # "missing"
        BY <2>0, <3>1 DEF Awaited, Running, Ended
      <3> QED
        BY <2>2, <3>1, <3>2 DEF Ended, Running
    <2> QED
      BY <2>3, <2>4 DEF Blocked
  <1> QED
    BY <1>1, Invariance, PTL
=============================================================================
