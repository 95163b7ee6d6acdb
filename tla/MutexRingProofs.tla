--------------------------- MODULE MutexRingProofs ---------------------------
(***************************************************************************)
(* Proofs about MutexRing for every number of threads and of iterations.   *)
(***************************************************************************)
EXTENDS MutexRing, WellFoundedInduction, TLAPS

-----------------------------------------------------------------------------
(* The three-element sort and the lock order.                              *)

\* OrderSwap permutes a triple so that its entries p and p + 1 are in order.
LEMMA OrderSwapOrders ==
  ASSUME NEW a \in [1 .. 3 -> Nat], NEW p \in 1 .. 2
  PROVE  /\ OrderSwap(a, p) \in [1 .. 3 -> Nat]
         /\ OrderSwap(a, p)[p] <= OrderSwap(a, p)[p + 1]
         /\ \/ OrderSwap(a, p) = a
            \/ /\ OrderSwap(a, p)[p] = a[p + 1]
               /\ OrderSwap(a, p)[p + 1] = a[p]
               /\ \A q \in 1 .. 3 : q # p /\ q # p + 1 => OrderSwap(a, p)[q] = a[q]
  BY DEF OrderSwap

\* Sort3Values sorts every triple of indices: the result is in order and has
\* the entries of the argument (inf19-0/main.c:44-56).
THEOREM Sort3ValuesSorts ==
  ASSUME NEW a \in [1 .. 3 -> Nat]
  PROVE  /\ Sort3Values(a) \in [1 .. 3 -> Nat]
         /\ Sort3Values(a)[1] <= Sort3Values(a)[2]
         /\ Sort3Values(a)[2] <= Sort3Values(a)[3]
         /\ {Sort3Values(a)[p] : p \in 1 .. 3} = {a[p] : p \in 1 .. 3}
  <1> DEFINE b == OrderSwap(a, 1)
             d == OrderSwap(b, 2)
             e == OrderSwap(d, 1)
  <1>1. b \in [1 .. 3 -> Nat] /\ b[1] <= b[2] /\ b[3] = a[3]
        /\ ((b[1] = a[1] /\ b[2] = a[2]) \/ (b[1] = a[2] /\ b[2] = a[1]))
    BY OrderSwapOrders
  <1>2. d \in [1 .. 3 -> Nat] /\ d[2] <= d[3] /\ d[1] = b[1]
        /\ ((d[2] = b[2] /\ d[3] = b[3]) \/ (d[2] = b[3] /\ d[3] = b[2]))
    BY <1>1, OrderSwapOrders
  <1>3. e \in [1 .. 3 -> Nat] /\ e[1] <= e[2] /\ e[3] = d[3]
        /\ ((e[1] = d[1] /\ e[2] = d[2]) \/ (e[1] = d[2] /\ e[2] = d[1]))
    BY <1>2, OrderSwapOrders
  <1>4. e = Sort3Values(a)
    BY DEF Sort3Values
  <1> HIDE DEF b, d, e
  <1>5. e[2] <= e[3]
    BY <1>1, <1>2, <1>3
  <1>6. \A f \in [1 .. 3 -> Nat] : {f[p] : p \in 1 .. 3} = {f[1], f[2], f[3]}
    OBVIOUS
  <1>7. {e[1], e[2], e[3]} = {a[1], a[2], a[3]}
    BY <1>1, <1>2, <1>3
  <1> QED
    BY <1>3, <1>4, <1>5, <1>6, <1>7

\* The mutexes of a thread are those of its neighbourhood.
LEMMA TrioCells ==
  ASSUME NEW t \in Threads
  PROVE  /\ Trio(t) \in [1 .. 3 -> Threads]
         /\ {Trio(t)[p] : p \in 1 .. 3} = {Left(t), t, Right(t)}
         /\ Cells(t) \in [1 .. 3 -> Threads]
  <1> DEFINE a == <<Left(t), t, Right(t)>>
  <1>1. Left(t) \in Threads /\ Right(t) \in Threads
    BY ArgsAssumption DEF Left, Right, Threads
  <1>2. a \in [1 .. 3 -> Threads] /\ a \in [1 .. 3 -> Nat]
    BY <1>1 DEF Threads
  <1>3. {a[p] : p \in 1 .. 3} = {Left(t), t, Right(t)}
    OBVIOUS
  <1>4. Trio(t) = Sort3Values(a)
    BY DEF Trio
  <1> HIDE DEF a
  <1>5. {Trio(t)[p] : p \in 1 .. 3} = {Left(t), t, Right(t)}
    BY <1>2, <1>3, <1>4, Sort3ValuesSorts
  <1>6. \A p \in 1 .. 3 : Trio(t)[p] \in Threads
    BY <1>1, <1>5
  <1>7. Trio(t) \in [1 .. 3 -> Threads]
    BY <1>2, <1>4, <1>6, Sort3ValuesSorts
  <1> QED
    BY <1>2, <1>5, <1>7 DEF Cells, a

\* With at least three threads the order is strict: a thread never meets a
\* mutex twice.
LEMMA TrioIncreases ==
  ASSUME K >= 3, NEW t \in Threads, NEW p \in 1 .. 3, NEW q \in 1 .. 3, p < q
  PROVE  Trio(t)[p] < Trio(t)[q]
  <1> DEFINE a == <<Left(t), t, Right(t)>>
  <1>1. a[1] # a[2] /\ a[2] # a[3] /\ a[1] # a[3]
    BY ArgsAssumption DEF Left, Right, Threads
  <1>2. a \in [1 .. 3 -> Nat]
    BY ArgsAssumption DEF Left, Right, Threads
  <1>3. Trio(t) = Sort3Values(a)
    BY DEF Trio
  <1> HIDE DEF a
  <1>4. {Trio(t)[r] : r \in 1 .. 3} = {Trio(t)[1], Trio(t)[2], Trio(t)[3]}
        /\ {a[r] : r \in 1 .. 3} = {a[1], a[2], a[3]}
    BY <1>2, <1>3, Sort3ValuesSorts
  <1>5. Trio(t)[1] # Trio(t)[2] /\ Trio(t)[2] # Trio(t)[3]
    BY <1>1, <1>2, <1>3, <1>4, Sort3ValuesSorts
  <1> QED
    BY <1>2, <1>3, <1>5, Sort3ValuesSorts

-----------------------------------------------------------------------------
(* The inductive invariant.                                                *)

\* Loop counters and phases: a thread is new until main has created it and
\* has made N iterations when it is done; main has joined the threads before
\* its index.
LoopInv ==
  /\ \A t \in Threads :
       /\ pc[t] = "new" <=> main.at = "create" /\ t >= main.index
       /\ pc[t] = "done" <=> iter[t] = N
       /\ pc[t] \in {"new", "done"} => step[t] = 1
  /\ main.at = "join" => \A t \in Threads : t < main.index => pc[t] = "done"
  /\ main.at = "exit" => \A t \in Threads : pc[t] = "done"

\* Thread t owns the p-th mutex of its trio.
HeldAt(t, p) ==
  \/ pc[t] = "lock" /\ p < step[t]
  \/ Adding(t)
  \/ pc[t] = "unlock" /\ p >= step[t]

\* A mutex is owned by exactly the thread that is between its lock and unlock.
LockInv ==
  \A c, t \in Threads : mutex[c] = t <=> \E p \in 1 .. 3 : Trio(t)[p] = c /\ HeldAt(t, p)

\* The cell a thread has loaded keeps its value until the thread stores.
RegInv == \A t \in Threads : pc[t] = "store" => reg[t] = array[Cells(t)[step[t]]]

IInv == TypeOK /\ LoopInv /\ LockInv /\ RegInv /\ NoLostUpdate

-----------------------------------------------------------------------------
(* Facts about the ring and the amounts.                                   *)

\* Left and Right are inverse to one another on the ring of cells.
LEMMA Neighbours ==
  ASSUME NEW t \in Threads, NEW c \in Threads
  PROVE  /\ Left(t) \in Threads /\ Right(t) \in Threads
         /\ Left(t) = c <=> Right(c) = t
  BY ArgsAssumption DEF Threads, Left, Right

\* With at least three threads the three cells of a thread are distinct.
LEMMA DistinctCells ==
  ASSUME K >= 3, NEW t \in Threads
  PROVE  Left(t) # t /\ Right(t) # t /\ Left(t) # Right(t)
  BY ArgsAssumption DEF Threads, Left, Right

\* What an increment adds.
LEMMA Amounts == Amount[1] = 99 /\ Amount[2] = 100 /\ Amount[3] = 101
  BY DEF Amount

\* The cells of a thread by position.
LEMMA CellsAt ==
  ASSUME NEW t
  PROVE  Cells(t)[1] = Left(t) /\ Cells(t)[2] = t /\ Cells(t)[3] = Right(t)
  BY DEF Cells

-----------------------------------------------------------------------------
(* Types and loop counters.                                                *)

LEMMA TypingInit == Init => TypeOK /\ LoopInv
  BY ArgsAssumption DEF Init, TypeOK, LoopInv, Threads, Free

\* Every step keeps the types and the counters.
LEMMA TypingNext == TypeOK /\ LoopInv /\ [Next]_vars => TypeOK' /\ LoopInv'
  <1> SUFFICES ASSUME TypeOK, LoopInv, [Next]_vars PROVE TypeOK' /\ LoopInv'
    OBVIOUS
  <1> USE ArgsAssumption
  <1>0. K \in Nat /\ N \in Nat /\ 0 \in Threads
    BY DEF Threads
  <1>1. CASE Create
    <2>1. main.index \in Threads /\ main.at = "create"
      BY <1>1 DEF TypeOK, Create
    <2>2. main' \in [at : {"create", "join", "exit"}, index : Threads]
          /\ IF main.index + 1 < K THEN main'.at = "create" /\ main'.index = main.index + 1
                                   ELSE main'.at = "join" /\ main'.index = 0
      BY <1>1, <1>0, <2>1 DEF TypeOK, Create, MainLoop, Threads
    <2>3. pc' = [pc EXCEPT ![main.index] = "lock"] /\ step' = step /\ iter' = iter
          /\ pc' \in [Threads -> {"new", "lock", "load", "store", "unlock", "done"}]
      BY <1>1, <2>1 DEF TypeOK, Create
    <2>4. TypeOK'
      BY <1>1, <2>2, <2>3 DEF TypeOK, Create
    <2>5. ASSUME NEW t \in Threads
          PROVE  /\ pc'[t] = "new" <=> main'.at = "create" /\ t >= main'.index
                 /\ pc'[t] = "done" <=> iter'[t] = N
                 /\ pc'[t] \in {"new", "done"} => step'[t] = 1
      <3>1. /\ pc[t] = "new" <=> t >= main.index
            /\ pc[t] = "done" <=> iter[t] = N
            /\ pc[t] \in {"new", "done"} => step[t] = 1
        BY <2>1 DEF LoopInv
      <3>2. pc'[t] = IF t = main.index THEN "lock" ELSE pc[t]
        BY <2>3 DEF TypeOK
      <3>3. main'.at = "create" /\ t >= main'.index <=> t > main.index
        BY <2>1, <2>2, <1>0 DEF Threads
      <3>4. t > main.index <=> t >= main.index /\ t # main.index
        BY <2>1, <1>0 DEF Threads
      <3> QED
        <4>1. step'[t] = step[t] /\ iter'[t] = iter[t]
          BY <2>3
        <4>2. CASE t = main.index
          <5>1. pc[t] = "new" /\ pc'[t] = "lock"
            BY <1>0, <3>1, <3>2, <4>2 DEF Threads
          <5> QED
            BY <3>1, <3>3, <3>4, <4>1, <4>2, <5>1
        <4>3. CASE t # main.index
          BY <3>1, <3>2, <3>3, <3>4, <4>1, <4>3
        <4> QED
          BY <4>2, <4>3
    <2>6. main'.at = "join" => \A t \in Threads : t < main'.index => pc'[t] = "done"
      BY <2>1, <2>2 DEF Threads
    <2>7. main'.at # "exit"
      BY <2>1, <2>2
    <2> QED
      BY <2>4, <2>5, <2>6, <2>7 DEF LoopInv
  <1>2. CASE Join
    <2>1. main.index \in Threads /\ main.at = "join" /\ pc[main.index] = "done"
      BY <1>2 DEF TypeOK, Join
    <2>2. main' \in [at : {"create", "join", "exit"}, index : Threads]
          /\ IF main.index + 1 < K THEN main'.at = "join" /\ main'.index = main.index + 1
                                   ELSE main'.at = "exit" /\ main'.index = 0
      <3>1. CASE main.index + 1 < K
        <4>1. main' = [main EXCEPT !.index = main.index + 1]
          BY <1>2, <3>1 DEF Join, MainLoop
        <4>2. main \in [at : {"create", "join", "exit"}, index : Threads]
          BY DEF TypeOK
        <4>3. main.index + 1 \in Threads
          BY <1>0, <2>1, <3>1 DEF Threads
        <4> QED
          BY <2>1, <3>1, <4>1, <4>2, <4>3
      <3>2. CASE ~(main.index + 1 < K)
        BY <1>2, <1>0, <2>1, <3>2 DEF TypeOK, Join, MainLoop, Threads
      <3> QED
        BY <3>1, <3>2
    <2>3. TypeOK'
      BY <1>2, <2>2 DEF TypeOK, Join
    <2>4. \A t \in Threads : t <= main.index => pc[t] = "done"
      BY <2>1 DEF LoopInv, Threads
    <2> QED
      BY <1>2, <2>1, <2>2, <2>3, <2>4 DEF LoopInv, Join, Threads
  <1>3. ASSUME NEW t \in Threads, ChangeThreeValues(t) PROVE TypeOK' /\ LoopInv'
    <2>0. step[t] \in 1 .. 3 /\ iter[t] \in 0 .. N /\ reg[t] \in Nat
          /\ Trio(t)[step[t]] \in Threads /\ Cells(t)[step[t]] \in Threads
          /\ Amount[step[t]] \in Nat
      BY TrioCells, Amounts DEF TypeOK
    <2>1. CASE Lock(t)
      BY <2>0, <2>1 DEF Lock, Advance, TypeOK, LoopInv
    <2>2. CASE Load(t)
      BY <2>0, <2>2 DEF Load, TypeOK, LoopInv
    <2>3. CASE Store(t)
      BY <2>0, <2>3 DEF Store, TypeOK, LoopInv
    <2>4. CASE Unlock(t)
      <3>1. pc[t] = "unlock" /\ iter[t] < N /\ iter[t] + 1 \in 0 .. N
        BY <2>0, <2>4 DEF Unlock, LoopInv
      <3>2. main' = main /\ reg' = reg /\ array' = array
        BY <2>4 DEF Unlock
      <3>3. CASE step[t] = 3
        BY <2>0, <2>4, <3>1, <3>2, <3>3 DEF Unlock, Advance, TypeOK, LoopInv
      <3>4. CASE step[t] # 3
        BY <2>0, <2>4, <3>1, <3>2, <3>4 DEF Unlock, Advance, TypeOK, LoopInv
      <3> QED
        BY <3>3, <3>4
    <2> QED
      BY <1>3, <2>1, <2>2, <2>3, <2>4 DEF ChangeThreeValues
  <1>4. CASE UNCHANGED vars
    BY <1>4 DEF vars, TypeOK, LoopInv
  <1> QED
    BY <1>1, <1>2, <1>3, <1>4 DEF Next, Ended

\* The types hold in every reachable state, whatever N and K are.
THEOREM Typing == Spec => []TypeOK
  <1>1. Spec => [](TypeOK /\ LoopInv)
    BY TypingInit, TypingNext, PTL DEF Spec
  <1> QED
    BY <1>1, PTL

-----------------------------------------------------------------------------
(* Mutual exclusion.                                                       *)

\* Two threads inside the additions own all their mutexes, so they have no
\* mutex, and so no cell, in common.
LEMMA LocksExclude == TypeOK /\ LockInv => NoSharedCell
  <1> SUFFICES ASSUME TypeOK, LockInv,
                      NEW t \in Threads, NEW u \in Threads, t # u, Adding(t), Adding(u),
                      NEW c \in {Left(t), t, Right(t)} \cap {Left(u), u, Right(u)}
               PROVE  FALSE
    BY DEF NoSharedCell
  <1>1. c \in Threads
    BY Neighbours
  <1>2. \A w \in Threads : c \in {Left(w), w, Right(w)} /\ Adding(w) => mutex[c] = w
    <2> SUFFICES ASSUME NEW w \in Threads, c \in {Left(w), w, Right(w)}, Adding(w)
                 PROVE  mutex[c] = w
      OBVIOUS
    <2>1. PICK p \in 1 .. 3 : Trio(w)[p] = c
      BY TrioCells
    <2> QED
      BY <1>1, <2>1 DEF LockInv, HeldAt
  <1> QED
    BY <1>2

\* A thread that stores changes only a cell whose mutex it owns.
LEMMA StoreOwned ==
  ASSUME TypeOK, LockInv, NEW t \in Threads, pc[t] = "store"
  PROVE  mutex[Cells(t)[step[t]]] = t
  <1>1. step[t] \in 1 .. 3
    BY DEF TypeOK
  <1>2. Cells(t)[step[t]] \in {Left(t), t, Right(t)} /\ Cells(t)[step[t]] \in Threads
    BY <1>1, CellsAt, Neighbours
  <1>3. PICK p \in 1 .. 3 : Trio(t)[p] = Cells(t)[step[t]]
    BY <1>2, TrioCells
  <1> QED
    BY <1>2, <1>3 DEF LockInv, HeldAt, Adding

\* Locking the next mutex of the trio.
LEMMA LockLock ==
  ASSUME TypeOK, LockInv, NEW t \in Threads, Lock(t)
  PROVE  LockInv'
  <1> DEFINE m == Trio(t)[step[t]]
  <1>1. step[t] \in 1 .. 3 /\ m \in Threads /\ mutex[m] = Free /\ pc[t] = "lock"
    BY TrioCells DEF TypeOK, Lock
  <1>2. mutex' = [mutex EXCEPT ![m] = t]
    BY DEF Lock
  <1>3. ASSUME NEW u \in Threads, u # t, NEW p \in 1 .. 3
        PROVE  HeldAt(u, p)' <=> HeldAt(u, p)
    BY <1>3 DEF Lock, Advance, HeldAt, Adding, TypeOK
  <1>4. ASSUME NEW p \in 1 .. 3
        PROVE  HeldAt(t, p)' <=> HeldAt(t, p) \/ p = step[t]
    BY <1>1 DEF Lock, Advance, HeldAt, Adding, TypeOK
  <1>5. Free \notin Threads
    BY ArgsAssumption DEF Free, Threads
  <1> SUFFICES ASSUME NEW c \in Threads, NEW u \in Threads
               PROVE  mutex'[c] = u <=> \E p \in 1 .. 3 : Trio(u)[p] = c /\ HeldAt(u, p)'
    BY DEF LockInv, Trio, Left, Right
  <1>6. mutex[c] = u <=> \E p \in 1 .. 3 : Trio(u)[p] = c /\ HeldAt(u, p)
    BY DEF LockInv
  <1>7. mutex'[c] = IF c = m THEN t ELSE mutex[c]
    BY <1>2 DEF TypeOK
  <1>8. CASE u # t
    BY <1>1, <1>3, <1>5, <1>6, <1>7, <1>8
  <1>9. CASE u = t /\ c = m
    BY <1>1, <1>4, <1>7, <1>9
  <1>10. CASE u = t /\ c # m
    BY <1>4, <1>6, <1>7, <1>10
  <1> QED
    BY <1>8, <1>9, <1>10

\* Unlocking the next mutex of the trio.  With two threads or one a trio names
\* a mutex twice and this fails.
LEMMA UnlockLock ==
  ASSUME K >= 3, TypeOK, LockInv, NEW t \in Threads, Unlock(t)
  PROVE  LockInv'
  <1> DEFINE m == Trio(t)[step[t]]
  <1>1. step[t] \in 1 .. 3 /\ m \in Threads /\ pc[t] = "unlock"
    BY TrioCells DEF TypeOK, Unlock
  <1>2. mutex' = [mutex EXCEPT ![m] = Free]
    BY DEF Unlock
  <1>3. ASSUME NEW u \in Threads, u # t, NEW p \in 1 .. 3
        PROVE  HeldAt(u, p)' <=> HeldAt(u, p)
    BY <1>3 DEF Unlock, Advance, HeldAt, Adding, TypeOK
  <1>4. ASSUME NEW p \in 1 .. 3
        PROVE  HeldAt(t, p)' <=> HeldAt(t, p) /\ p # step[t]
    BY <1>1 DEF Unlock, Advance, HeldAt, Adding, TypeOK
  <1>5. Free \notin Threads
    BY ArgsAssumption DEF Free, Threads
  <1>6. mutex[m] = t
    BY <1>1 DEF LockInv, HeldAt
  <1>7. \A p \in 1 .. 3 : Trio(t)[p] = m => p = step[t]
    <2> SUFFICES ASSUME NEW p \in 1 .. 3, Trio(t)[p] = m, p # step[t] PROVE FALSE
      OBVIOUS
    <2>1. p < step[t] \/ step[t] < p
      BY <1>1
    <2>2. Trio(t)[p] \in Nat /\ Trio(t)[step[t]] \in Nat
      BY <1>1, TrioCells DEF Threads
    <2> QED
      BY <1>1, <2>1, <2>2, TrioIncreases
  <1> SUFFICES ASSUME NEW c \in Threads, NEW u \in Threads
               PROVE  mutex'[c] = u <=> \E p \in 1 .. 3 : Trio(u)[p] = c /\ HeldAt(u, p)'
    BY DEF LockInv, Trio, Left, Right
  <1>8. mutex[c] = u <=> \E p \in 1 .. 3 : Trio(u)[p] = c /\ HeldAt(u, p)
    BY DEF LockInv
  <1>9. mutex'[c] = IF c = m THEN Free ELSE mutex[c]
    BY <1>2 DEF TypeOK
  <1>10. CASE u # t
    BY <1>3, <1>5, <1>6, <1>8, <1>9, <1>10
  <1>11. CASE u = t /\ c = m
    BY <1>4, <1>5, <1>7, <1>9, <1>11
  <1>12. CASE u = t /\ c # m
    BY <1>4, <1>8, <1>9, <1>12
  <1> QED
    BY <1>10, <1>11, <1>12

\* Every other step leaves the mutexes, and what each thread holds, alone.
LEMMA OtherLock ==
  ASSUME TypeOK, TypeOK', LockInv, mutex' = mutex,
         \A t \in Threads : \A p \in 1 .. 3 : HeldAt(t, p)' <=> HeldAt(t, p)
  PROVE  LockInv'
  BY DEF LockInv, Trio, Left, Right

-----------------------------------------------------------------------------
(* No lost update.                                                         *)

\* A store makes one more addition at its position, and no other.
LEMMA StoreAdds ==
  ASSUME TypeOK, NEW t \in Threads, Store(t), NEW u \in Threads, NEW p \in 1 .. 3
  PROVE  Added(u, p)' = IF u = t /\ p = step[t] THEN Added(u, p) + 1 ELSE Added(u, p)
  <1>1. step[t] \in 1 .. 3 /\ pc[t] = "store" /\ iter[u] \in Nat /\ iter' = iter
    BY DEF TypeOK, Store
  <1>2. CASE u # t
    <2>1. pc'[u] = pc[u] /\ step'[u] = step[u]
      BY <1>2 DEF Store, TypeOK
    <2> QED
      BY <1>1, <1>2, <2>1 DEF Added, Adding
  <1>3. CASE u = t /\ step[t] = 3
    <2>1. pc'[t] = "unlock"
      BY <1>1, <1>3 DEF Store, TypeOK
    <2> QED
      BY <1>1, <1>3, <2>1 DEF Added, Adding
  <1>4. CASE u = t /\ step[t] < 3
    <2>1. pc'[t] = "load" /\ step'[t] = step[t] + 1
      BY <1>1, <1>4 DEF Store, TypeOK
    <2> QED
      BY <1>1, <1>4, <2>1 DEF Added, Adding
  <1> QED
    BY <1>1, <1>2, <1>3, <1>4

\* No other step makes or takes back an addition.
LEMMA OthersAdd ==
  ASSUME TypeOK, LoopInv, TypeOK', NEW t \in Threads, Lock(t) \/ Load(t) \/ Unlock(t),
         NEW u \in Threads, NEW p \in 1 .. 3
  PROVE  Added(u, p)' = Added(u, p)
  <1>1. step[u] \in 1 .. 3 /\ iter[u] \in Nat
    BY DEF TypeOK
  <1>2. CASE u # t
    <2>1. pc'[u] = pc[u] /\ step'[u] = step[u] /\ iter'[u] = iter[u]
      BY <1>2 DEF Lock, Load, Unlock, Advance, TypeOK
    <2> QED
      BY <2>1 DEF Added, Adding
  <1>3. CASE u = t /\ Lock(t)
    BY <1>1, <1>3 DEF Lock, Advance, TypeOK, Added, Adding
  <1>4. CASE u = t /\ Load(t)
    BY <1>1, <1>4 DEF Load, TypeOK, Added, Adding
  <1>5. CASE u = t /\ Unlock(t) /\ step[t] = 3
    <2>1. pc[t] = "unlock" /\ pc'[t] \in {"lock", "done"} /\ iter'[t] = iter[t] + 1
      BY <1>5 DEF Unlock, Advance, TypeOK
    <2> QED
      BY <1>1, <1>5, <2>1 DEF Added, Adding
  <1>6. CASE u = t /\ Unlock(t) /\ step[t] < 3
    <2>1. pc[t] = "unlock" /\ pc'[t] = "unlock" /\ iter'[t] = iter[t]
      BY <1>6 DEF Unlock, Advance, TypeOK
    <2> QED
      BY <1>6, <2>1 DEF Added, Adding
  <1> QED
    BY <1>1, <1>2, <1>3, <1>4, <1>5, <1>6

\* A store writes the sum of the cell's current value and its amount.
LEMMA StoreSum ==
  ASSUME TypeOK, RegInv, NoLostUpdate, NEW t \in Threads, Store(t), K >= 3
  PROVE  NoLostUpdate'
  <1> SUFFICES ASSUME NEW c \in Threads
               PROVE  array'[c] = 99 * Added(Right(c), 1)' + 100 * Added(c, 2)'
                                  + 101 * Added(Left(c), 3)'
    BY DEF NoLostUpdate, Left, Right
  <1> DEFINE s == step[t]
  <1>1. s \in 1 .. 3 /\ Cells(t)[s] \in Threads /\ pc[t] = "store"
    BY TrioCells DEF TypeOK, Store
  <1>2. array'[c] = IF c = Cells(t)[s] THEN array[c] + Amount[s] ELSE array[c]
    BY <1>1 DEF Store, RegInv, TypeOK
  <1>3. array[c] = 99 * Added(Right(c), 1) + 100 * Added(c, 2) + 101 * Added(Left(c), 3)
    BY DEF NoLostUpdate
  <1>4. Left(c) \in Threads /\ Right(c) \in Threads
    BY Neighbours
  <1>5. \A u \in Threads, p \in 1 .. 3 : Added(u, p) \in Nat
    BY DEF Added, TypeOK
  <1>6. /\ Added(Right(c), 1)' = IF Right(c) = t /\ s = 1 THEN Added(Right(c), 1) + 1
                                                         ELSE Added(Right(c), 1)
        /\ Added(c, 2)' = IF c = t /\ s = 2 THEN Added(c, 2) + 1 ELSE Added(c, 2)
        /\ Added(Left(c), 3)' = IF Left(c) = t /\ s = 3 THEN Added(Left(c), 3) + 1
                                                       ELSE Added(Left(c), 3)
    <2> HIDE DEF s
    <2>1. ASSUME NEW u \in Threads, NEW p \in 1 .. 3
          PROVE  Added(u, p)' = IF u = t /\ p = s THEN Added(u, p) + 1 ELSE Added(u, p)
      BY StoreAdds DEF s
    <2> QED
      BY <1>4, <2>1
  <1>7. /\ c = Cells(t)[1] <=> Right(c) = t
        /\ c = Cells(t)[2] <=> c = t
        /\ c = Cells(t)[3] <=> Left(c) = t
    BY CellsAt, Neighbours
  <1> DEFINE x == Added(Right(c), 1)
             y == Added(c, 2)
             z == Added(Left(c), 3)
  <1>8. x \in Nat /\ y \in Nat /\ z \in Nat
    BY <1>4, <1>5
  <1>9. CASE s = 1
    BY <1>2, <1>3, <1>6, <1>7, <1>8, <1>9, Amounts
  <1>10. CASE s = 2
    BY <1>2, <1>3, <1>6, <1>7, <1>8, <1>10, Amounts
  <1>11. CASE s = 3
    BY <1>2, <1>3, <1>6, <1>7, <1>8, <1>11, Amounts
  <1> QED
    BY <1>1, <1>9, <1>10, <1>11

\* Nobody overwrites a cell between another thread's load and store of it.
LEMMA StoreReg ==
  ASSUME TypeOK, LockInv, RegInv, NEW t \in Threads, Store(t)
  PROVE  RegInv'
  <1> SUFFICES ASSUME NEW u \in Threads, pc'[u] = "store"
               PROVE  reg'[u] = array'[Cells(u)[step'[u]]]
    BY DEF RegInv, Cells, Left, Right
  <1>1. u # t /\ pc[u] = "store" /\ step'[u] = step[u] /\ reg' = reg /\ pc[t] = "store"
    BY DEF Store, TypeOK
  <1>2. Cells(u)[step[u]] # Cells(t)[step[t]]
    BY <1>1, StoreOwned
  <1>3. Cells(u)[step[u]] \in Threads
    BY TrioCells DEF TypeOK
  <1> QED
    BY <1>1, <1>2, <1>3 DEF Store, RegInv, TypeOK

-----------------------------------------------------------------------------
(* The invariant is inductive.                                             *)

LEMMA InvInit == Init => IInv
  <1> SUFFICES ASSUME Init PROVE IInv
    OBVIOUS
  <1>1. TypeOK /\ LoopInv
    BY TypingInit
  <1>2. LockInv
    BY ArgsAssumption DEF Init, LockInv, HeldAt, Adding, Threads, Free
  <1>3. RegInv
    BY DEF Init, RegInv
  <1>4. NoLostUpdate
    BY Neighbours DEF Init, NoLostUpdate, Added, Adding
  <1> QED
    BY <1>1, <1>2, <1>3, <1>4 DEF IInv

LEMMA InvNext == K >= 3 /\ IInv /\ [Next]_vars => IInv'
  <1> SUFFICES ASSUME K >= 3, IInv, [Next]_vars PROVE IInv'
    OBVIOUS
  <1>0. TypeOK /\ LoopInv /\ LockInv /\ RegInv /\ NoLostUpdate
    BY DEF IInv
  <1>1. TypeOK' /\ LoopInv'
    BY <1>0, TypingNext
  <1>2. CASE Create
    <2>1. main.index \in Threads /\ pc[main.index] = "new" /\ step[main.index] = 1
      <3>1. main.index \in Threads /\ main.index >= main.index /\ main.at = "create"
        BY <1>0, <1>2, ArgsAssumption DEF TypeOK, Create, Threads
      <3> QED
        BY <1>0, <3>1 DEF LoopInv
    <2>2. /\ pc' = [pc EXCEPT ![main.index] = "lock"]
          /\ UNCHANGED <<step, iter, reg, mutex, array>>
      BY <1>2 DEF Create
    <2>3. \A t \in Threads : \A p \in 1 .. 3 : HeldAt(t, p)' <=> HeldAt(t, p)
      BY <1>0, <2>1, <2>2 DEF HeldAt, Adding, TypeOK
    <2>4. LockInv'
      BY <1>0, <1>1, <2>2, <2>3, OtherLock
    <2>5. RegInv'
      BY <1>0, <2>2 DEF RegInv, Cells, Left, Right, TypeOK
    <2>6. \A t \in Threads : \A p \in 1 .. 3 : Added(t, p)' = Added(t, p)
      BY <1>0, <2>1, <2>2 DEF Added, Adding, TypeOK
    <2>7. NoLostUpdate'
      BY <1>0, <2>2, <2>6, Neighbours DEF NoLostUpdate, Left, Right
    <2> QED
      BY <1>1, <2>4, <2>5, <2>7 DEF IInv
  <1>3. CASE Join \/ Ended \/ UNCHANGED vars
    BY <1>0, <1>1, <1>3
    DEF IInv, Join, Ended, vars, LockInv, HeldAt, Adding, RegInv, NoLostUpdate, Added,
        Trio, Cells, Left, Right
  <1>4. ASSUME NEW t \in Threads, Lock(t) \/ Load(t) \/ Unlock(t) PROVE IInv'
    <2>1. LockInv'
      <3>1. CASE Lock(t)
        BY <1>0, <3>1, LockLock
      <3>2. CASE Unlock(t)
        BY <1>0, <3>2, UnlockLock
      <3>3. CASE Load(t)
        <4>1. \A u \in Threads : \A p \in 1 .. 3 : HeldAt(u, p)' <=> HeldAt(u, p)
          BY <1>0, <3>3 DEF Load, HeldAt, Adding, TypeOK
        <4>2. mutex' = mutex
          BY <3>3 DEF Load
        <4> QED
          BY <1>0, <1>1, <4>1, <4>2, OtherLock
      <3> QED
        BY <1>4, <3>1, <3>2, <3>3
    <2>2. array' = array
      BY <1>4 DEF Lock, Load, Unlock
    <2>3. RegInv'
      <3>1. CASE Load(t)
        BY <1>0, <3>1 DEF Load, RegInv, Cells, Left, Right, TypeOK
      <3>2. CASE Lock(t) \/ Unlock(t)
        <4>1. \A u \in Threads : pc'[u] = "store" => pc[u] = "store" /\ step'[u] = step[u]
          BY <1>0, <3>2 DEF Lock, Unlock, Advance, TypeOK
        <4>2. reg' = reg
          BY <3>2 DEF Lock, Unlock
        <4> QED
          BY <1>0, <2>2, <4>1, <4>2 DEF RegInv, Cells, Left, Right
      <3> QED
        BY <1>4, <3>1, <3>2
    <2>4. \A u \in Threads : \A p \in 1 .. 3 : Added(u, p)' = Added(u, p)
      BY <1>0, <1>1, <1>4, OthersAdd
    <2>5. NoLostUpdate'
      BY <1>0, <2>2, <2>4, Neighbours DEF NoLostUpdate, Left, Right
    <2> QED
      BY <1>1, <2>1, <2>3, <2>5 DEF IInv
  <1>5. ASSUME NEW t \in Threads, Store(t) PROVE IInv'
    <2>1. \A u \in Threads : \A p \in 1 .. 3 : HeldAt(u, p)' <=> HeldAt(u, p)
      <3> SUFFICES ASSUME NEW u \in Threads, NEW p \in 1 .. 3
                   PROVE  HeldAt(u, p)' <=> HeldAt(u, p)
        OBVIOUS
      <3>1. CASE u # t
        BY <1>0, <1>5, <3>1 DEF Store, HeldAt, Adding, TypeOK
      <3>2. CASE u = t
        BY <1>0, <1>5, <3>2 DEF Store, HeldAt, Adding, TypeOK
      <3> QED
        BY <3>1, <3>2
    <2>2. mutex' = mutex
      BY <1>5 DEF Store
    <2>3. LockInv'
      BY <1>0, <1>1, <2>1, <2>2, OtherLock
    <2>4. RegInv' /\ NoLostUpdate'
      BY <1>0, <1>5, StoreReg, StoreSum
    <2> QED
      BY <1>1, <2>3, <2>4 DEF IInv
  <1> QED
    BY <1>2, <1>3, <1>4, <1>5 DEF Next, ChangeThreeValues

\* With at least three threads the invariant holds in every reachable state.
THEOREM Invariance == K >= 3 => (Spec => []IInv)
  <1> SUFFICES ASSUME K >= 3 PROVE Spec => []IInv
    OBVIOUS
  <1>1. IInv /\ [Next]_vars => IInv'
    BY InvNext
  <1> QED
    BY <1>1, InvInit, PTL DEF Spec

-----------------------------------------------------------------------------
(* What the program promises, for every number of threads from three on.   *)

\* No two threads are ever inside their additions with a cell in common.
THEOREM MutualExclusion == K >= 3 => (Spec => []NoSharedCell)
  <1> SUFFICES ASSUME K >= 3 PROVE Spec => []NoSharedCell
    OBVIOUS
  <1>1. IInv => NoSharedCell
    BY LocksExclude DEF IInv
  <1> QED
    BY <1>1, Invariance, PTL

\* Every cell always holds exactly the additions made to it.
THEOREM NothingLost == K >= 3 => (Spec => []NoLostUpdate)
  <1> SUFFICES ASSUME K >= 3 PROVE Spec => []NoLostUpdate
    OBVIOUS
  <1>1. IInv => NoLostUpdate
    BY DEF IInv
  <1> QED
    BY <1>1, Invariance, PTL

\* Every value printed is the sum of 3 * N additions, 300 hundredths for each
\* iteration of a thread and its two neighbours.
THEOREM PrintsFinalSums == K >= 3 => (Spec => []FinalSums)
  <1> SUFFICES ASSUME K >= 3 PROVE Spec => []FinalSums
    OBVIOUS
  <1>1. IInv => FinalSums
    <2> SUFFICES ASSUME IInv, main.at = "exit", NEW c \in Threads
                 PROVE  array[c] = 300 * N
      BY DEF FinalSums
    <2>1. Left(c) \in Threads /\ Right(c) \in Threads
      BY Neighbours
    <2>2. \A t \in Threads : pc[t] = "done" /\ iter[t] = N
      BY DEF IInv, LoopInv
    <2>3. \A t \in Threads : \A p \in 1 .. 3 : Added(t, p) = N
      BY <2>2, ArgsAssumption DEF Added, Adding
    <2>4. array[c] = 99 * N + 100 * N + 101 * N
      BY <2>1, <2>3 DEF IInv, NoLostUpdate
    <2> QED
      BY <2>4, ArgsAssumption
  <1> QED
    BY <1>1, Invariance, PTL

\* Only the owner of a cell's mutex changes the cell.
THEOREM OwnersWrite == K >= 3 => (Spec => OnlyOwnerWrites)
  <1> SUFFICES ASSUME K >= 3 PROVE Spec => OnlyOwnerWrites
    OBVIOUS
  <1> DEFINE Guarded == \A c \in Threads : array'[c] # array[c] =>
                          /\ mutex[c] \in Threads
                          /\ pc[mutex[c]] = "store"
  <1>1. IInv /\ [Next]_vars => [Guarded]_vars
    <2> SUFFICES ASSUME IInv, [Next]_vars, NEW c \in Threads, array'[c] # array[c]
                 PROVE  mutex[c] \in Threads /\ pc[mutex[c]] = "store"
      OBVIOUS
    <2>1. TypeOK /\ LockInv
      BY DEF IInv
    <2>2. PICK t \in Threads : Store(t)
      BY DEF Next, Create, Join, Ended, ChangeThreeValues, Lock, Load, Unlock, vars
    <2>3. c = Cells(t)[step[t]] /\ pc[t] = "store"
      BY <2>1, <2>2, TrioCells DEF Store, TypeOK
    <2> QED
      BY <2>1, <2>3, StoreOwned
  <1> QED
    BY <1>1, Invariance, PTL DEF OnlyOwnerWrites, Spec

-----------------------------------------------------------------------------
(* Deadlock freedom.  Among blocked threads take the one that waits for    *)
(* the mutex with the greatest index: its owner has locked in ascending    *)
(* order, so it waits, if at all, for a mutex with a greater index still.  *)

\* The mutex a blocked thread waits for is owned by a thread that is not done,
\* and if that thread is blocked too it waits for a greater index.
LEMMA OwnerWaitsHigher ==
  ASSUME K >= 3, IInv, NEW t \in Threads, Blocked(t)
  PROVE  \E u \in Threads :
           /\ pc[u] # "done"
           /\ Blocked(u) => Trio(t)[step[t]] < Trio(u)[step[u]]
  <1> DEFINE m == Trio(t)[step[t]]
  <1>1. \A u \in Threads : step[u] \in 1 .. 3 /\ Trio(u)[step[u]] \in Threads
    BY TrioCells DEF IInv, TypeOK
  <1>2. m \in Threads /\ mutex[m] \in Threads
    BY <1>1 DEF IInv, TypeOK, Blocked
  <1>3. PICK u \in Threads : mutex[m] = u
    BY <1>2
  <1>4. PICK p \in 1 .. 3 : Trio(u)[p] = m /\ HeldAt(u, p)
    BY <1>2, <1>3 DEF IInv, LockInv
  <1>5. pc[u] # "done"
    BY <1>4 DEF HeldAt, Adding
  <1>6. Blocked(u) => p < step[u]
    BY <1>4 DEF HeldAt, Adding, Blocked
  <1> QED
    BY <1>1, <1>4, <1>5, <1>6, TrioIncreases

\* A nonempty set of indices has a greatest element.
LEMMA Greatest ==
  ASSUME NEW S, S \subseteq Threads, S # {}
  PROVE  \E x \in S : \A y \in S : y <= x
  <1> DEFINE T == {K - x : x \in S}
  <1>1. T \subseteq Nat /\ T # {}
    <2>1. \A x \in S : K - x \in Nat
      BY ArgsAssumption DEF Threads
    <2> QED
      BY <2>1
  <1>2. PICK n \in T : \A k \in T : ~ (<<k, n>> \in OpToRel(<, Nat))
    <2> HIDE DEF T
    <2> QED
      BY <1>1, NatLessThanWellFounded, WFMin
  <1>3. \A k \in T : ~ (k < n)
    BY <1>1, <1>2 DEF OpToRel
  <1>4. PICK x \in S : n = K - x
    BY <1>2
  <1>5. \A y \in S : ~ (K - y < K - x)
    BY <1>3, <1>4
  <1>6. \A y \in S : y <= x
    <2>1. \A y \in S : y \in Int
      BY DEF Threads
    <2> QED
      BY <1>5, <2>1, ArgsAssumption
  <1> QED
    BY <1>6

\* As long as main waits for unfinished threads one of them can run.
THEOREM DeadlockFree == K >= 3 => (Spec => []NoDeadlock)
  <1> SUFFICES ASSUME K >= 3 PROVE Spec => []NoDeadlock
    OBVIOUS
  <1>1. ASSUME IInv PROVE NoDeadlock
    <2> SUFFICES ASSUME NEW s \in Threads, pc[s] # "done",
                        \A t \in Threads : pc[t] # "done" => Blocked(t)
                 PROVE  FALSE
      BY DEF NoDeadlock
    <2> DEFINE Waiting == {t \in Threads : Blocked(t)}
               Wanted == {Trio(t)[step[t]] : t \in Waiting}
    <2>1. \A t \in Threads : Trio(t)[step[t]] \in Threads
      BY <1>1, TrioCells DEF IInv, TypeOK
    <2>2. Wanted \subseteq Threads /\ Wanted # {}
      BY <2>1
    <2>3. PICK x \in Wanted : \A y \in Wanted : y <= x
      <3> HIDE DEF Wanted
      <3> QED
        BY <2>2, Greatest
    <2>4. PICK t \in Waiting : x = Trio(t)[step[t]]
      BY <2>3
    <2>5. PICK u \in Threads : pc[u] # "done" /\ (Blocked(u) => x < Trio(u)[step[u]])
      BY <1>1, <2>4, OwnerWaitsHigher
    <2>6. u \in Waiting /\ x < Trio(u)[step[u]]
      BY <2>5
    <2>7. Trio(u)[step[u]] <= x
      BY <2>3, <2>6
    <2> QED
      BY <2>1, <2>2, <2>3, <2>6, <2>7 DEF Threads
  <1> QED
    BY <1>1, Invariance, PTL

-----------------------------------------------------------------------------
(* The program implements AtomicRing.                                      *)

\* What AtomicRing sees of a cell is what complete iterations have added to it.
LEMMA VisibleSum ==
  ASSUME IInv, NEW c \in Threads
  PROVE  Visible(c) = 99 * Rounds(Right(c)) + 100 * Rounds(c) + 101 * Rounds(Left(c))
  <1>1. \A u \in Threads : step[u] \in 1 .. 3 /\ iter[u] \in Nat
    BY DEF IInv, TypeOK
  <1>2. \A u \in Threads :
          /\ Added(u, 1) = Rounds(u) + (IF Adding(u) /\ step[u] > 1 THEN 1 ELSE 0)
          /\ Added(u, 2) = Rounds(u) + (IF Adding(u) /\ step[u] > 2 THEN 1 ELSE 0)
          /\ Added(u, 3) = Rounds(u)
          /\ Rounds(u) \in Nat
    BY <1>1 DEF Added, Adding, Rounds
  <1>3. Left(c) \in Threads /\ Right(c) \in Threads
    BY Neighbours
  <1>4. array[c] = 99 * Added(Right(c), 1) + 100 * Added(c, 2) + 101 * Added(Left(c), 3)
    BY DEF IInv, NoLostUpdate
  <1> DEFINE x == Rounds(Right(c))
             y == Rounds(c)
             z == Rounds(Left(c))
             i == IF Adding(Right(c)) /\ step[Right(c)] > 1 THEN 1 ELSE 0
             j == IF Adding(c) /\ step[c] > 2 THEN 1 ELSE 0
  <1>5. x \in Nat /\ y \in Nat /\ z \in Nat /\ i \in Nat /\ j \in Nat
    BY <1>2, <1>3
  <1>6. array[c] = 99 * (x + i) + 100 * (y + j) + 101 * z
    BY <1>2, <1>3, <1>4
  <1>7. Visible(c) = array[c] - 99 * i - 100 * j
    BY <1>5, <1>6 DEF Visible
  <1> HIDE DEF x, y, z, i, j
  <1>8. Visible(c) = 99 * x + 100 * y + 101 * z
    BY <1>5, <1>6, <1>7
  <1> QED
    BY <1>8 DEF x, y, z

\* A thread completes an iteration, for AtomicRing, with its third store.
LEMMA RoundsStep ==
  ASSUME K >= 3, IInv, [Next]_vars
  PROVE  \/ \A u \in Threads : Rounds(u)' = Rounds(u)
         \/ \E t \in Threads :
              /\ Rounds(t) < N
              /\ \A u \in Threads : Rounds(u)' = IF u = t THEN Rounds(u) + 1 ELSE Rounds(u)
  <1>0. TypeOK /\ LoopInv
    BY DEF IInv
  <1>1. CASE Create
    <2>1. main.index \in Threads /\ pc[main.index] = "new"
      <3>1. main.index \in Threads /\ main.index >= main.index /\ main.at = "create"
        BY <1>0, <1>1, ArgsAssumption DEF TypeOK, Create, Threads
      <3> QED
        BY <1>0, <3>1 DEF LoopInv
    <2> QED
      BY <1>0, <1>1, <2>1 DEF Create, Rounds, TypeOK
  <1>2. CASE Join \/ Ended \/ UNCHANGED vars
    BY <1>2 DEF Join, Ended, vars, Rounds
  <1>3. ASSUME NEW t \in Threads, Lock(t) \/ Load(t) \/ Unlock(t)
        PROVE  \A u \in Threads : Rounds(u)' = Rounds(u)
    <2> SUFFICES ASSUME NEW u \in Threads PROVE Rounds(u)' = Rounds(u)
      OBVIOUS
    <2>1. step[t] \in 1 .. 3
      BY <1>0 DEF TypeOK
    <2>2. CASE Lock(t)
      BY <1>0, <2>2 DEF Lock, Advance, Rounds, TypeOK
    <2>3. CASE Load(t)
      BY <1>0, <2>3 DEF Load, Rounds, TypeOK
    <2>4. CASE Unlock(t) /\ step[t] = 3
      BY <1>0, <2>4 DEF Unlock, Advance, Rounds, TypeOK
    <2>5. CASE Unlock(t) /\ step[t] # 3
      BY <1>0, <2>1, <2>5 DEF Unlock, Advance, Rounds, TypeOK
    <2> QED
      BY <1>3, <2>2, <2>3, <2>4, <2>5
  <1>4. ASSUME NEW t \in Threads, Store(t), step[t] # 3
        PROVE  \A u \in Threads : Rounds(u)' = Rounds(u)
    BY <1>0, <1>4 DEF Store, Rounds, TypeOK
  <1>5. ASSUME NEW t \in Threads, Store(t), step[t] = 3
        PROVE  /\ Rounds(t) < N
               /\ \A u \in Threads : Rounds(u)' = IF u = t THEN Rounds(u) + 1 ELSE Rounds(u)
    <2>1. iter[t] < N /\ pc[t] = "store" /\ iter' = iter
          /\ pc' = [pc EXCEPT ![t] = "unlock"]
      BY <1>0, <1>5, ArgsAssumption DEF Store, TypeOK, LoopInv
    <2> QED
      BY <1>0, <2>1 DEF Rounds, TypeOK
  <1> QED
    BY <1>1, <1>2, <1>3, <1>4, <1>5 DEF Next, ChangeThreeValues

\* Every step of the program is an iteration of AtomicRing or none at all: the
\* locked, non-atomic iterations look indivisible.
THEOREM Refinement == K >= 3 => (Spec => ImplementsAtomicRing)
  <1> SUFFICES ASSUME K >= 3 PROVE Spec => ImplementsAtomicRing
    OBVIOUS
  <1> USE DEF Atomic!Ring, Atomic!Left, Atomic!Right
  <1> DEFINE VisibleSums ==
               \A c \in Threads :
                 Visible(c) = 99 * Rounds(Right(c)) + 100 * Rounds(c) + 101 * Rounds(Left(c))
  <1>1. Init => Atomic!Init
    <2> SUFFICES ASSUME Init PROVE Atomic!Init
      OBVIOUS
    <2>1. \A t \in Threads : pc[t] = "new" /\ iter[t] = 0 /\ array[t] = 0
      BY DEF Init
    <2>2. \A c \in Threads : Visible(c) = 0 /\ Rounds(c) = 0
      BY <2>1, Neighbours DEF Visible, Rounds, Adding
    <2> QED
      BY <2>2 DEF Atomic!Init, Threads
  <1>2. IInv => VisibleSums
    BY VisibleSum
  <1>3. IInv' => VisibleSums'
    <2> HIDE DEF VisibleSums
    <2> QED
      BY <1>2, PTL
  <1>4. IInv /\ IInv' /\ [Next]_vars => [Atomic!Next]_(Atomic!ringVars)
    <2> SUFFICES ASSUME IInv, IInv', [Next]_vars
                 PROVE  Atomic!Next \/ UNCHANGED Atomic!ringVars
      OBVIOUS
    <2>1. \A c \in Threads : Left(c) \in Threads /\ Right(c) \in Threads
      BY Neighbours
    <2>2. ASSUME NEW c \in Threads
          PROVE  /\ Visible(c) = 99 * Rounds(Right(c)) + 100 * Rounds(c) + 101 * Rounds(Left(c))
                 /\ Visible(c)' = 99 * Rounds(Right(c))' + 100 * Rounds(c)' + 101 * Rounds(Left(c))'
      BY <1>2, <1>3 DEF Left, Right
    <2>3. CASE \A u \in Threads : Rounds(u)' = Rounds(u)
      <3>1. \A c \in Threads : Visible(c)' = Visible(c)
        BY <2>1, <2>2, <2>3
      <3> QED
        BY <2>3, <3>1 DEF Atomic!ringVars, Threads
    <2>4. ASSUME NEW t \in Threads, Rounds(t) < N,
                 \A u \in Threads : Rounds(u)' = IF u = t THEN Rounds(u) + 1 ELSE Rounds(u)
          PROVE  Atomic!Next
      <3>1. ASSUME NEW c \in Threads
            PROVE  Visible(c)' = Visible(c) + (IF c = Left(t)  THEN 99  ELSE 0)
                                            + (IF c = t        THEN 100 ELSE 0)
                                            + (IF c = Right(t) THEN 101 ELSE 0)
        <4>1. /\ c = Left(t) <=> Right(c) = t
              /\ c = Right(t) <=> Left(c) = t
          BY Neighbours
        <4>2. Rounds(Right(c)) \in Nat /\ Rounds(c) \in Nat /\ Rounds(Left(c)) \in Nat
          BY <2>1 DEF Rounds, IInv, TypeOK
        <4> DEFINE x == Rounds(Right(c))
                   y == Rounds(c)
                   z == Rounds(Left(c))
        <4>3. /\ Rounds(Right(c))' = IF c = Left(t) THEN x + 1 ELSE x
              /\ Rounds(c)' = IF c = t THEN y + 1 ELSE y
              /\ Rounds(Left(c))' = IF c = Right(t) THEN z + 1 ELSE z
          BY <2>1, <2>4, <4>1 DEF Left, Right
        <4> QED
          BY <2>2, <4>2, <4>3
      <3>2. Atomic!Round(t)
        BY <2>4, <3>1 DEF Atomic!Round, Threads, Left, Right
      <3> QED
        BY <3>2 DEF Atomic!Next, Threads
    <2> QED
      BY <2>3, <2>4, RoundsStep
  <1> HIDE DEF VisibleSums
  <1> QED
    BY <1>1, <1>4, Invariance, PTL DEF Spec, Atomic!Spec, ImplementsAtomicRing
=============================================================================
