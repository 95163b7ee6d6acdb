----------------------------- MODULE PipeProofs ------------------------------
(***************************************************************************)
(* Theorems about the two programs that count what comes through pipes.    *)
(* PrimePipe is typed, and main prints the primes of the range in order,   *)
(* each once, for every range, capacity and interleaving.                  *)
(* ReadDataAndCount is typed and returns what was sent, for every number   *)
(* of descriptors, every buffer size and every amount of data.             *)
(***************************************************************************)
EXTENDS PrimePipe, ReadDataAndCount, FiniteSetTheorems, TLAPS

-----------------------------------------------------------------------------
(* PrimePipe: trial division.                                              *)

\* A number and what it leaves with a divisor.
LEMMA Division ==
  ASSUME NEW a \in Nat, NEW d \in Nat, d > 0
  PROVE  /\ a \div d \in Nat /\ a % d \in Nat /\ a % d < d
         /\ a = d * (a \div d) + (a % d)
  BY SMT

\* A product is divided by its factors.
LEMMA FactorDivides ==
  ASSUME NEW d \in Nat, NEW e \in Nat, d > 0
  PROVE  (d * e) % d = 0
  BY SMT

LEMMA SmallFactor ==
  ASSUME NEW d \in Nat, NEW e \in Nat
  PROVE  d * d <= d * e \/ e * e <= d * e
  BY SMT

\* It is enough to try the numbers up to the root (inf19-1/main.c:49-54).
THEOREM TrialDivision ==
  ASSUME NEW a \in Nat, a >= 2
  PROVE  Flag(a) <=> \A d \in 1 .. a : a % d = 0 => d \in {1, a}
<1>1. ASSUME Flag(a), NEW d \in 1 .. a, a % d = 0, d # 1, d # a
      PROVE  FALSE
  <2> DEFINE e == a \div d
  <2>1. d \in Nat /\ d >= 2 /\ d < a
    BY <1>1
  <2>2. e \in Nat /\ a = d * e
    BY <1>1, <2>1, Division
  <2> HIDE DEF e
  <2>3. e # 0 /\ e # 1
    BY <2>1, <2>2
  <2>4. e >= 2 /\ e <= a
    BY SMT, <2>1, <2>2, <2>3
  <2>5. a % e = 0
    <3>1. (e * d) % e = 0
      BY <2>1, <2>2, <2>4, FactorDivides
    <3>2. e * d = a
      BY SMT, <2>1, <2>2
    <3> QED
      BY <3>1, <3>2
  <2>6. CASE d * d <= a
    BY <1>1, <2>1, <2>6 DEF Flag
  <2>7. CASE e * e <= a
    BY <1>1, <2>2, <2>4, <2>5, <2>7 DEF Flag
  <2> QED
    BY <2>1, <2>2, <2>6, <2>7, SmallFactor
<1>2. ASSUME \A d \in 1 .. a : a % d = 0 => d \in {1, a},
             NEW i \in 2 .. a, i * i <= a, a % i = 0
      PROVE  FALSE
  <2>1. i \in 1 .. a /\ i # 1 /\ i < a
    BY SMT, <1>2
  <2>2. i \in {1, a}
    BY <1>2, <2>1, Zenon
  <2> QED
    BY <2>1, <2>2
<1> QED
  BY <1>1, <1>2 DEF Flag

-----------------------------------------------------------------------------
(* Type correctness.                                                       *)

LEMMA HeadAndTail ==
  ASSUME NEW T, NEW s \in Seq(T), s # <<>>
  PROVE  /\ Head(s) \in T /\ Tail(s) \in Seq(T)
         /\ Len(Tail(s)) = Len(s) - 1 /\ Len(s) \in Nat
  BY SMT

LEMMA OneLonger ==
  ASSUME NEW T, NEW s \in Seq(T), NEW x \in T
  PROVE  Append(s, x) \in Seq(T) /\ Len(Append(s, x)) = Len(s) + 1
  BY SMT

TypeInv ==
  /\ producer \in [at : {"test", "write", "load", "store", "signal", "done"},
                   number : Nat, reg : Int]
  /\ producer.number >= A
  /\ producer.at \notin {"test", "done"} => producer.number <= B
  /\ main \in [at : {"count", "check", "sleep", "wait", "load", "store", "read", "exit"},
               i : 0 .. N, reg : Int]
  /\ main.at \notin {"count", "exit"} => main.i < N
  /\ ready \in Int
  /\ socket \in Seq(A .. B) /\ Len(socket) <= Capacity
  /\ printed \in Seq(A .. B) /\ Len(printed) = main.i

LEMMA TypeInvariance == Spec => []TypeInv
<1>1. Init => TypeInv
  BY ArgsAssumption DEF Init, TypeInv
<1>2. TypeInv /\ [Next]_vars => TypeInv'
  <2> SUFFICES ASSUME TypeInv, [Next]_vars PROVE TypeInv'
    OBVIOUS
  <2> USE ArgsAssumption DEF TypeInv
  <2>1. CASE Test
    BY SMTT(20), <2>1 DEF Test
  <2>2. CASE Write
    <3>1. producer.number \in A .. B /\ Len(socket) + 1 <= Capacity
      BY SMTT(20), <2>2 DEF Write, HasRoom
    <3>2. socket' \in Seq(A .. B) /\ Len(socket') = Len(socket) + 1
      BY SMTT(20), <2>2, <3>1 DEF Write
    <3> QED
      BY SMTT(20), <2>2, <3>1, <3>2 DEF Write
  <2>3. CASE LoadReady
    BY ZenonT(20), <2>3 DEF LoadReady
  <2>4. CASE StoreReady
    BY SMTT(20), <2>4 DEF StoreReady
  <2>5. CASE Signal
    <3>1. main' \in {main, [main EXCEPT !.at = "check"]} /\ (main' # main => main.at = "wait")
      BY <2>5 DEF Signal, Wakes
    <3>2. producer' = [producer EXCEPT !.at = "test", !.number = producer.number + 1]
      BY <2>5 DEF Signal
    <3>3. producer.number + 1 \in Nat /\ producer.number + 1 >= A
      OBVIOUS
    <3> QED
      BY <2>5, <3>1, <3>2, <3>3 DEF Signal
  <2>6. CASE Count
    BY <2>6 DEF Count
  <2>7. CASE Check
    BY <2>7 DEF Check
  <2>8. CASE Sleep
    BY <2>8 DEF Sleep
  <2>9. CASE SpuriousWakeup
    BY <2>9 DEF SpuriousWakeup
  <2>10. CASE LoadTake
    BY <2>10 DEF LoadTake
  <2>11. CASE StoreTake
    <3>1. main.reg - 1 \in Int
      OBVIOUS
    <3> QED
      BY <2>11, <3>1 DEF StoreTake
  <2>12. CASE ReadPrint
    <3>1. main.i + 1 \in 0 .. N
      <4>1. main.i \in 0 .. N /\ main.i < N /\ N \in Nat
        BY <2>12 DEF ReadPrint
      <4> HIDE DEF TypeInv
      <4> QED
        BY <4>1
    <3>2. /\ Head(socket) \in A .. B
          /\ Tail(socket) \in Seq(A .. B) /\ Len(Tail(socket)) <= Capacity
      <4>1. socket \in Seq(A .. B) /\ socket # <<>> /\ Len(socket) <= Capacity
        BY <2>12 DEF ReadPrint
      <4>2. /\ Head(socket) \in A .. B /\ Tail(socket) \in Seq(A .. B)
            /\ Len(Tail(socket)) = Len(socket) - 1 /\ Len(socket) \in Nat
        BY Zenon, <4>1, HeadAndTail
      <4>3. Capacity \in Nat
        BY ArgsAssumption
      <4> HIDE DEF TypeInv
      <4> QED
        BY <4>1, <4>2, <4>3
    <3>3. Append(printed, Head(socket)) \in Seq(A .. B)
          /\ Len(Append(printed, Head(socket))) = main.i + 1
      <4>1. printed \in Seq(A .. B) /\ Len(printed) = main.i
        OBVIOUS
      <4> HIDE DEF TypeInv
      <4> QED
        BY <3>2, <4>1, OneLonger
    <3> QED
      BY <2>12, <3>1, <3>2, <3>3 DEF ReadPrint
  <2>13. CASE UNCHANGED vars
    BY <2>13 DEF vars
  <2> QED
    BY <2>1, <2>2, <2>3, <2>4, <2>5, <2>6, <2>7, <2>8, <2>9, <2>10, <2>11, <2>12, <2>13
       DEF Next, GeneratePrimes, MainThread, Ended
<1> QED
  BY <1>1, <1>2, PTL DEF Spec

-----------------------------------------------------------------------------
(* The numbers printed and waiting.                                        *)

LEMMA AppendToSecond ==
  ASSUME NEW T, NEW r \in Seq(T), NEW s \in Seq(T), NEW x \in T
  PROVE  r \o Append(s, x) = Append(r \o s, x)
  BY SMT

LEMMA MoveHead ==
  ASSUME NEW T, NEW r \in Seq(T), NEW s \in Seq(T), s # <<>>
  PROVE  Append(r, Head(s)) \o Tail(s) = r \o s
  BY SMT

Ascending(s) == \A i, j \in DOMAIN s : i < j => s[i] < s[j]

\* A number above all others goes to the end.
LEMMA AppendGreatest ==
  ASSUME NEW s \in Seq(Nat), NEW x \in Nat, Ascending(s), \A y \in ToSet(s) : y < x
  PROVE  Ascending(Append(s, x)) /\ ToSet(Append(s, x)) = ToSet(s) \cup {x}
<1>1. /\ DOMAIN Append(s, x) = 1 .. Len(s) + 1 /\ DOMAIN s = 1 .. Len(s) /\ Len(s) \in Nat
      /\ Append(s, x)[Len(s) + 1] = x
      /\ \A i \in 1 .. Len(s) : Append(s, x)[i] = s[i] /\ s[i] < x
  BY DEF ToSet
<1>2. Ascending(Append(s, x))
  BY <1>1 DEF Ascending
<1>3. ToSet(Append(s, x)) = ToSet(s) \cup {x}
  BY <1>1 DEF ToSet
<1> QED
  BY <1>2, <1>3

-----------------------------------------------------------------------------
(* The inductive invariant.                                                *)

numbers == printed \o socket

\* What leaves the producer is a prime of the range.
PrimeInv ==
  /\ producer.number >= 2
  /\ producer.at \notin {"test", "done"} => producer.number \in PrimesInRange

OrderInv == ToSet(numbers) = Sent /\ Ascending(numbers)

IInv == TypeInv /\ PrimeInv /\ OrderInv

\* The numbers do not change while Sent does not.
LEMMA SameNumbers ==
  ASSUME OrderInv, Sent' = Sent, UNCHANGED <<printed, socket>>
  PROVE  OrderInv'
<1>1. numbers' = numbers
  BY DEF numbers
<1> QED
  BY <1>1 DEF OrderInv, Ascending, ToSet

\* The main thread takes numbers from the one end and puts them to the other.
LEMMA MainKeepsOrder ==
  ASSUME TypeInv, PrimeInv, OrderInv, numbers' = numbers, UNCHANGED producer
  PROVE  PrimeInv' /\ OrderInv'
  BY DEF PrimeInv, OrderInv, Ascending, ToSet, Sent

LEMMA TestKeepsOrder ==
  ASSUME IInv, Test
  PROVE  PrimeInv' /\ OrderInv'
<1> USE ArgsAssumption DEF IInv, TypeInv, PrimeInv
<1> DEFINE a == producer.number
<1>1. CASE a > B
  <2>1. producer' = [producer EXCEPT !.at = "done"] /\ producer.at = "test"
    BY <1>1 DEF Test
  <2>2. Sent' = Sent
    BY <2>1 DEF Sent
  <2> QED
    BY <2>1, <2>2, SameNumbers DEF Test
<1>2. CASE a <= B /\ Flag(a)
  <2>1. producer' = [producer EXCEPT !.at = "write"] /\ producer.at = "test"
    BY <1>2 DEF Test
  <2>2. \A d \in 1 .. a : a % d = 0 => d \in {1, a}
    BY <1>2, TrialDivision
  <2>3. a \in PrimesInRange
    BY <1>2, <2>2 DEF PrimesInRange, Primes
  <2>4. Sent' = Sent
    BY <2>1 DEF Sent
  <2> QED
    BY <2>1, <2>3, <2>4, SameNumbers DEF Test
<1>3. CASE a <= B /\ ~ Flag(a)
  <2>1. producer' = [producer EXCEPT !.number = a + 1] /\ producer.at = "test"
    BY <1>3 DEF Test
  <2>2. ~ \A d \in 1 .. a : a % d = 0 => d \in {1, a}
    BY <1>3, TrialDivision
  <2>3. a \notin PrimesInRange
    BY <2>2 DEF PrimesInRange, Primes
  <2>4. PrimesInRange \subseteq Nat
    BY DEF PrimesInRange, Primes
  <2>5. producer'.number = a + 1 /\ producer'.at = "test"
    BY <2>1
  <2>6. Sent' = Sent
    BY <2>1, <2>3, <2>4, <2>5 DEF Sent
  <2> QED
    BY <2>1, <2>5, <2>6, SameNumbers DEF Test
<1> QED
  BY <1>1, <1>2, <1>3

LEMMA WriteKeepsOrder ==
  ASSUME IInv, Write
  PROVE  PrimeInv' /\ OrderInv'
<1> USE ArgsAssumption DEF IInv, TypeInv, PrimeInv
<1> DEFINE a == producer.number
<1>1. /\ producer.at = "write" /\ producer' = [producer EXCEPT !.at = "load"]
      /\ socket' = Append(socket, a) /\ printed' = printed
  BY DEF Write
<1>2. a \in PrimesInRange /\ PrimesInRange \subseteq Nat
  BY <1>1 DEF PrimesInRange, Primes
<1>3. Sent' = Sent \cup {a} /\ \A p \in Sent : p < a
  BY <1>1, <1>2 DEF Sent
<1>4. printed \in Seq(Nat) /\ socket \in Seq(Nat) /\ numbers \in Seq(Nat)
  BY DEF numbers
<1>5. numbers' = Append(numbers, a)
  <2>1. a \in Nat
    BY <1>2
  <2> HIDE DEF a, IInv, TypeInv, PrimeInv
  <2>2. printed \o Append(socket, a) = Append(printed \o socket, a)
    BY <1>4, <2>1, AppendToSecond
  <2> QED
    BY <1>1, <2>2 DEF numbers
<1>6. Ascending(Append(numbers, a)) /\ ToSet(Append(numbers, a)) = Sent \cup {a}
  BY <1>3, <1>4, AppendGreatest DEF OrderInv
<1>7. OrderInv'
  BY <1>3, <1>5, <1>6 DEF OrderInv, Ascending, ToSet
<1> QED
  BY <1>1, <1>2, <1>7

LEMMA CountKeepsOrder ==
  ASSUME IInv, LoadReady \/ StoreReady \/ Signal
  PROVE  PrimeInv' /\ OrderInv'
<1> USE ArgsAssumption DEF IInv, TypeInv, PrimeInv
<1>1. CASE LoadReady
  <2>1. Sent' = Sent
    BY <1>1 DEF LoadReady, Sent
  <2> QED
    BY <1>1, <2>1, SameNumbers DEF LoadReady
<1>2. CASE StoreReady
  <2>1. Sent' = Sent
    BY <1>2 DEF StoreReady, Sent
  <2> QED
    BY <1>2, <2>1, SameNumbers DEF StoreReady
<1>3. CASE Signal
  <2>1. producer.at = "signal" /\ producer.number \in PrimesInRange
        /\ producer'.number = producer.number + 1 /\ producer'.at = "test"
    BY <1>3 DEF Signal
  <2>2. PrimesInRange \subseteq Nat
    BY DEF PrimesInRange, Primes
  <2>3. \A p \in PrimesInRange : p < producer.number + 1 <=>
                                  p < producer.number \/ p = producer.number
    BY <2>2
  <2>4. Sent' = Sent
    BY <2>1, <2>3 DEF Sent
  <2> QED
    BY <1>3, <2>1, <2>4, SameNumbers DEF Signal
<1> QED
  BY <1>1, <1>2, <1>3

THEOREM Invariance ==
  ASSUME A > 0
  PROVE  Spec => []IInv
<1>1. Init => PrimeInv /\ OrderInv
  <2> SUFFICES ASSUME Init PROVE PrimeInv /\ OrderInv
    OBVIOUS
  <2>1. PrimeInv /\ producer.at = "test"
    BY ArgsAssumption DEF Init, PrimeInv
  <2>2. producer.number = (IF A = 1 THEN 2 ELSE A)
    BY ArgsAssumption DEF Init
  <2>3. Sent = {}
    <3>1. \A p \in PrimesInRange : p >= A /\ p >= 2 /\ p \in Nat
      BY DEF PrimesInRange, Primes
    <3>2. \A p \in PrimesInRange : ~ (p < producer.number)
      BY ArgsAssumption, <2>2, <3>1
    <3> QED
      BY <2>1, <3>2 DEF Sent
  <2>4. numbers = <<>>
    BY DEF Init, numbers
  <2> QED
    BY <2>1, <2>3, <2>4 DEF OrderInv, Ascending, ToSet
<1>2. IInv /\ [Next]_vars => (PrimeInv /\ OrderInv)'
  <2> SUFFICES ASSUME IInv, [Next]_vars PROVE PrimeInv' /\ OrderInv'
    OBVIOUS
  <2>1. CASE UNCHANGED producer /\ UNCHANGED <<printed, socket>>
    BY <2>1, MainKeepsOrder DEF numbers, IInv
  <2>2. CASE ReadPrint
    <3>0. /\ socket \in Seq(A .. B) /\ printed \in Seq(A .. B) /\ socket # <<>>
          /\ printed' = Append(printed, Head(socket)) /\ socket' = Tail(socket)
          /\ UNCHANGED producer
      BY <2>2 DEF ReadPrint, IInv, TypeInv
    <3>1. numbers' = numbers /\ UNCHANGED producer
      BY Zenon, <3>0, MoveHead DEF numbers
    <3> QED
      BY <3>1, MainKeepsOrder DEF IInv
  <2> QED
    BY <2>1, <2>2, TestKeepsOrder, WriteKeepsOrder, CountKeepsOrder
       DEF Next, GeneratePrimes, MainThread, Ended, vars,
           Count, Check, Sleep, SpuriousWakeup, LoadTake, StoreTake
<1> QED
  BY <1>1, <1>2, TypeInvariance, PTL DEF Spec, IInv

-----------------------------------------------------------------------------
(* What follows.                                                           *)

\* TypeOK holds in every reachable state, for every range, also for one that
\* begins with 0 or ends before it begins (inf19-1/main.c:37-63, 97-105).
THEOREM Typing == Spec => []TypeOK
<1>1. TypeInv => TypeOK
  BY ArgsAssumption DEF TypeInv, TypeOK
<1> QED
  BY <1>1, TypeInvariance, PTL

\* For a range of positive numbers the race on `ready` and lost wakeups never
\* change, repeat or drop a number (inf19-1/main.c:47-63 and 103-104).
THEOREM PrimesInOrder ==
  ASSUME A > 0
  PROVE  Spec => []PrintsPrimesInOrder
<1>1. IInv => PrintsPrimesInOrder
  BY DEF IInv, OrderInv, Ascending, numbers, PrintsPrimesInOrder
<1> QED
  BY <1>1, Invariance, PTL

-----------------------------------------------------------------------------
(* ReadDataAndCount: the inductive invariant.  ReturnsWhatWasSent is not   *)
(* inductive: what makes it true is that remaining_fds counts the          *)
(* descriptors that are still open, that one is closed only when all that  *)
(* was sent to it has been read, and that a batch never holds two events   *)
(* of a descriptor or one of a closed one.                                 *)

Types ==
  /\ kind \in [Fds -> {"socket", "pipe"}]
  /\ sent \in [Fds -> 0 .. MaxBytes]
  /\ bytes_read \in [Fds -> 0 .. MaxBytes]
  /\ ended \in SUBSET Fds
  /\ open \in SUBSET Fds
  /\ is_received = Fds \ open
  /\ batch \in SUBSET [fd : Fds, in : BOOLEAN]
  /\ at \in {"wait", "events", "returned"}
  /\ errors \in 0 .. MaxErrors

NoMoreThanSent == \A f \in Fds : bytes_read[f] <= sent[f]

ClosedIsRead == \A f \in Fds : f \notin open => f \in ended /\ bytes_read[f] = sent[f]

\* What the events of a batch say is still so.
BatchIsFresh ==
  \A e \in batch :
    /\ e.fd \in open
    /\ e.in => bytes_read[e.fd] < sent[e.fd] \/ e.fd \in ended

OneEventEach == \A d, e \in batch : d.fd = e.fd => d = e

Counted == remaining = Cardinality(open)

Returned == at = "returned" => open = {} /\ total = Sum(bytes_read)

CountInv ==
  /\ Types /\ NoMoreThanSent /\ ClosedIsRead
  /\ BatchIsFresh /\ OneEventEach /\ Counted /\ Returned

\* The sets of descriptors are finite, and there are FdCount descriptors.
LEMMA FdsFinite ==
  /\ IsFiniteSet(Fds) /\ Cardinality(Fds) = FdCount
  /\ \A S \in SUBSET Fds : IsFiniteSet(S) /\ Cardinality(S) \in 0 .. FdCount
<1>1. FdCount \in Nat
  BY CountAssumption
<1>2. IsFiniteSet(Fds) /\ Cardinality(Fds) = FdCount
  <2>1. /\ IsFiniteSet(0 .. FdCount - 1)
        /\ Cardinality(0 .. FdCount - 1)
             = IF 0 > FdCount - 1 THEN 0 ELSE FdCount - 1 - 0 + 1
    BY <1>1, FS_Interval
  <2> QED
    BY <1>1, <2>1 DEF Fds
<1>3. ASSUME NEW S \in SUBSET Fds
      PROVE  IsFiniteSet(S) /\ Cardinality(S) \in 0 .. FdCount
  <2>1. IsFiniteSet(S) /\ Cardinality(S) <= Cardinality(Fds)
    BY <1>2, <1>3, FS_Subset
  <2>2. Cardinality(S) \in Nat
    BY <2>1, FS_CardinalityType
  <2> QED
    BY <1>1, <1>2, <2>1, <2>2
<1> QED
  BY <1>2, <1>3

\* What a read returns when there is something to read, and when there is not.
LEMMA AmountOfRead ==
  ASSUME Types, NoMoreThanSent, NEW f \in Fds
  PROVE  /\ Amount(f) \in Nat
         /\ bytes_read[f] + Amount(f) <= sent[f]
         /\ Amount(f) = 0 => bytes_read[f] = sent[f]
<1>1. sent[f] \in 0 .. MaxBytes /\ bytes_read[f] \in 0 .. MaxBytes /\ bytes_read[f] <= sent[f]
  BY DEF Types, NoMoreThanSent
<1>2. Buffer \in Nat \ {0} /\ MaxBytes \in Nat
  BY CountAssumption
<1> QED
  BY <1>1, <1>2 DEF Amount, Unread

LEMMA CountStarts == CountInit => CountInv
<1> SUFFICES ASSUME CountInit PROVE CountInv
  OBVIOUS
<1>1. Types
  BY CountAssumption DEF CountInit, Types
<1>2. NoMoreThanSent /\ ClosedIsRead /\ BatchIsFresh /\ OneEventEach
  BY DEF CountInit, NoMoreThanSent, ClosedIsRead, BatchIsFresh, OneEventEach
<1>3. Counted
  BY FdsFinite DEF CountInit, Counted
<1>4. Returned
  BY DEF CountInit, Returned
<1> QED
  BY <1>1, <1>2, <1>3, <1>4 DEF CountInv

-----------------------------------------------------------------------------
(* The steps.                                                              *)

LEMMA WriteByteStep ==
  ASSUME CountInv, NEW f \in Fds, WriteByte(f)
  PROVE  CountInv'
<1> USE DEF CountInv
<1>1. sent[f] \in 0 .. MaxBytes /\ sent[f] < MaxBytes /\ f \notin ended
  BY DEF Types, WriteByte
<1>2. sent' = [sent EXCEPT ![f] = @ + 1]
  BY DEF WriteByte
<1>3. UNCHANGED <<kind, ended, open, bytes_read, is_received, batch, remaining, at, total, errors>>
  BY DEF WriteByte
<1>4. f \in open
  BY <1>1 DEF ClosedIsRead
<1>5. Types'
  <2>1. MaxBytes \in Nat
    BY CountAssumption
  <2>2. sent' \in [Fds -> 0 .. MaxBytes]
    BY <1>1, <1>2, <2>1 DEF Types
  <2> QED
    BY <1>3, <2>2 DEF Types
<1>6. \A g \in Fds : sent'[g] >= sent[g]
  BY <1>2 DEF Types
<1>7. NoMoreThanSent'
  BY <1>3, <1>6, <1>5 DEF NoMoreThanSent, Types
<1>8. ClosedIsRead'
  BY <1>2, <1>3, <1>4 DEF ClosedIsRead, Types
<1>9. BatchIsFresh'
  <2> SUFFICES ASSUME NEW e \in batch, e.in, bytes_read[e.fd] < sent[e.fd]
               PROVE  bytes_read[e.fd] < sent'[e.fd]
    BY <1>3 DEF BatchIsFresh
  <2>1. e.fd \in Fds
    BY DEF Types
  <2>2. bytes_read[e.fd] \in Int /\ sent[e.fd] \in Int /\ sent'[e.fd] \in Int
    BY <2>1, <1>5 DEF Types
  <2> QED
    BY <1>6, <2>1, <2>2
<1>10. OneEventEach' /\ Counted' /\ Returned'
  BY <1>3 DEF OneEventEach, Counted, Returned
<1> QED
  BY <1>5, <1>7, <1>8, <1>9, <1>10

LEMMA CloseEndStep ==
  ASSUME CountInv, NEW f \in Fds, CloseEnd(f)
  PROVE  CountInv'
<1> USE DEF CountInv, CloseEnd
<1>1. Types'
  BY DEF Types
<1>2. NoMoreThanSent' /\ ClosedIsRead'
  BY DEF NoMoreThanSent, ClosedIsRead
<1>3. BatchIsFresh' /\ OneEventEach'
  BY DEF BatchIsFresh, OneEventEach
<1>4. Counted' /\ Returned'
  BY DEF Counted, Returned
<1> QED
  BY <1>1, <1>2, <1>3, <1>4

LEMMA EpollWaitStep ==
  ASSUME CountInv, EpollWait
  PROVE  CountInv'
<1> USE DEF CountInv
<1>1. batch' = {Event(f) : f \in Ready} /\ at' = "events"
  BY DEF EpollWait
<1>2. UNCHANGED <<kind, sent, ended, open, bytes_read, is_received, remaining, total, errors>>
  BY DEF EpollWait, writers
<1>3. Ready \in SUBSET open
  BY DEF Ready
<1>4. \A f \in Fds : Readable(f) \in BOOLEAN
  BY DEF Readable
<1>5. Types'
  <2>1. \A f \in Ready : Event(f) \in [fd : Fds, in : BOOLEAN]
    BY <1>3, <1>4 DEF Event, Types
  <2>2. batch' \in SUBSET [fd : Fds, in : BOOLEAN]
    BY <1>1, <2>1
  <2> QED
    BY <1>1, <1>2, <2>2 DEF Types
<1>6. NoMoreThanSent' /\ ClosedIsRead'
  BY <1>2 DEF NoMoreThanSent, ClosedIsRead
<1>7. BatchIsFresh'
  <2> SUFFICES ASSUME NEW e \in batch'
               PROVE  /\ e.fd \in open
                      /\ e.in => bytes_read[e.fd] < sent[e.fd] \/ e.fd \in ended
    BY <1>2 DEF BatchIsFresh
  <2>1. PICK f \in Ready : e = Event(f)
    BY <1>1
  <2>2. e.fd = f /\ (e.in <=> Readable(f))
    BY <2>1 DEF Event
  <2>3. f \in Fds /\ sent[f] \in Int /\ bytes_read[f] \in Int
    BY <1>3 DEF Types
  <2> QED
    BY <1>3, <2>2, <2>3 DEF Readable, Unread
<1>8. OneEventEach'
  BY <1>1 DEF OneEventEach, Event
<1>9. Counted' /\ Returned'
  BY <1>1, <1>2 DEF Counted, Returned
<1> QED
  BY <1>5, <1>6, <1>7, <1>8, <1>9

\* After an event has been handled the others of the batch are of other
\* descriptors.
LEMMA HandlingStep ==
  ASSUME CountInv, NEW e \in batch, Handling(e)
  PROVE  /\ batch' = batch \ {e} /\ at' \in {"wait", "events"} /\ at = "events"
         /\ e.fd \in open /\ e.fd \in Fds
         /\ \A d \in batch' : d \in batch /\ d.fd # e.fd /\ d.fd \in Fds
         /\ batch' \in SUBSET [fd : Fds, in : BOOLEAN]
         /\ OneEventEach'
<1>1. batch' = batch \ {e} /\ at' \in {"wait", "events"} /\ at = "events"
  BY DEF Handling
<1>2. batch \in SUBSET [fd : Fds, in : BOOLEAN]
  BY DEF CountInv, Types
<1>3. e.fd \in open /\ e.fd \in Fds
  BY <1>2 DEF CountInv, BatchIsFresh
<1>4. \A d \in batch' : d \in batch /\ d.fd # e.fd /\ d.fd \in Fds
  BY <1>1, <1>2 DEF CountInv, OneEventEach
<1>5. OneEventEach'
  BY <1>1 DEF CountInv, OneEventEach
<1> QED
  BY <1>1, <1>2, <1>3, <1>4, <1>5

LEMMA ReadSomeStep ==
  ASSUME CountInv, NEW f \in Fds, ReadSome(f)
  PROVE  CountInv'
<1>1. PICK e \in batch : e.fd = f /\ e.in /\ Handling(e)
  BY DEF ReadSome
<1>2. bytes_read' = [bytes_read EXCEPT ![f] = @ + Amount(f)]
  BY DEF ReadSome
<1>3. UNCHANGED <<kind, sent, ended, open, is_received, remaining, total, errors>>
  BY DEF ReadSome, writers
<1>4. /\ at' \in {"wait", "events"}
      /\ f \in open
      /\ \A d \in batch' : d \in batch /\ d.fd # f /\ d.fd \in Fds
      /\ batch' \in SUBSET [fd : Fds, in : BOOLEAN]
      /\ OneEventEach'
  BY <1>1, HandlingStep
<1>5. Amount(f) \in Nat /\ bytes_read[f] + Amount(f) <= sent[f]
  BY AmountOfRead DEF CountInv
<1>6. sent[f] \in 0 .. MaxBytes /\ bytes_read[f] \in 0 .. MaxBytes /\ MaxBytes \in Nat
  BY CountAssumption DEF CountInv, Types
<1>7. bytes_read' \in [Fds -> 0 .. MaxBytes]
  <2>1. bytes_read[f] + Amount(f) \in 0 .. MaxBytes
    BY <1>5, <1>6
  <2> QED
    BY <1>2, <2>1 DEF CountInv, Types
<1>8. bytes_read'[f] = bytes_read[f] + Amount(f) /\ \A g \in Fds : g # f => bytes_read'[g] = bytes_read[g]
  BY <1>2 DEF CountInv, Types
<1>9. Types'
  BY <1>3, <1>4, <1>7 DEF CountInv, Types
<1>10. NoMoreThanSent'
  BY <1>3, <1>5, <1>8 DEF CountInv, NoMoreThanSent
<1>11. ClosedIsRead'
  BY <1>3, <1>4, <1>8 DEF CountInv, ClosedIsRead
<1>12. BatchIsFresh'
  BY <1>3, <1>4, <1>8 DEF CountInv, BatchIsFresh
<1>13. Counted' /\ Returned'
  BY <1>3, <1>4 DEF CountInv, Counted, Returned
<1> QED
  BY <1>4, <1>9, <1>10, <1>11, <1>12, <1>13 DEF CountInv

LEMMA ReadFailsStep ==
  ASSUME CountInv, NEW f \in Fds, ReadFails(f)
  PROVE  CountInv'
<1>1. PICK e \in batch : e.fd = f /\ Handling(e)
  BY DEF ReadFails
<1>2. /\ at' \in {"wait", "events"}
      /\ \A d \in batch' : d \in batch /\ d.fd # f /\ d.fd \in Fds
      /\ batch' \in SUBSET [fd : Fds, in : BOOLEAN]
      /\ OneEventEach'
  BY <1>1, HandlingStep
<1>3. UNCHANGED <<kind, sent, ended, open, bytes_read, is_received, remaining, total>>
  BY DEF ReadFails, writers
<1>4. errors' \in 0 .. MaxErrors
  BY CountAssumption DEF ReadFails, CountInv, Types
<1>5. Types'
  BY <1>2, <1>3, <1>4 DEF CountInv, Types
<1>6. NoMoreThanSent' /\ ClosedIsRead'
  BY <1>3 DEF CountInv, NoMoreThanSent, ClosedIsRead
<1>7. BatchIsFresh'
  BY <1>2, <1>3 DEF CountInv, BatchIsFresh
<1>8. Counted' /\ Returned'
  BY <1>2, <1>3 DEF CountInv, Counted, Returned
<1> QED
  BY <1>2, <1>5, <1>6, <1>7, <1>8 DEF CountInv

LEMMA ReadEndStep ==
  ASSUME CountInv, NEW f \in Fds, ReadEnd(f)
  PROVE  CountInv'
<1>1. PICK e \in batch : e.fd = f /\ e.in /\ Handling(e)
  BY DEF ReadEnd
<1>2. Amount(f) = 0 /\ open' = open \ {f} /\ is_received' = is_received \cup {f}
      /\ remaining' = remaining - 1
  BY DEF ReadEnd
<1>3. UNCHANGED <<kind, sent, ended, bytes_read, total, errors>>
  BY DEF ReadEnd, writers
<1>4. /\ at' \in {"wait", "events"}
      /\ f \in open
      /\ \A d \in batch' : d \in batch /\ d.fd # f /\ d.fd \in Fds
      /\ batch' \in SUBSET [fd : Fds, in : BOOLEAN]
      /\ OneEventEach'
  BY <1>1, HandlingStep
<1>5. f \in ended /\ bytes_read[f] = sent[f]
  <2>1. bytes_read[f] = sent[f] /\ sent[f] \in Int
    BY <1>2, AmountOfRead DEF CountInv, Types
  <2>2. bytes_read[f] < sent[f] \/ f \in ended
    BY <1>1 DEF CountInv, BatchIsFresh
  <2> QED
    BY <2>1, <2>2
<1>6. Types'
  BY <1>2, <1>3, <1>4 DEF CountInv, Types
<1>7. NoMoreThanSent' /\ ClosedIsRead'
  BY <1>2, <1>3, <1>5 DEF CountInv, NoMoreThanSent, ClosedIsRead
<1>8. BatchIsFresh'
  BY <1>2, <1>3, <1>4 DEF CountInv, BatchIsFresh
<1>9. Counted'
  <2>1. open \in SUBSET Fds /\ remaining = Cardinality(open)
    BY DEF CountInv, Types, Counted
  <2>2. IsFiniteSet(open)
    BY <2>1, FdsFinite
  <2>3. Cardinality(open \ {f}) = Cardinality(open) - 1
    BY <1>4, <2>2, FS_RemoveElement
  <2> QED
    BY <1>2, <2>1, <2>3 DEF Counted
<1>10. Returned'
  BY <1>4 DEF Returned
<1> QED
  BY <1>4, <1>6, <1>7, <1>8, <1>9, <1>10 DEF CountInv

LEMMA HangUpStep ==
  ASSUME CountInv, NEW f \in Fds, HangUp(f)
  PROVE  CountInv'
<1>1. PICK e \in batch : e.fd = f /\ Handling(e)
  BY DEF HangUp
<1>2. /\ at' \in {"wait", "events"}
      /\ f \in open
      /\ \A d \in batch' : d \in batch /\ d.fd # f /\ d.fd \in Fds
      /\ batch' \in SUBSET [fd : Fds, in : BOOLEAN]
      /\ OneEventEach'
  BY <1>1, HandlingStep
<1>3. UNCHANGED <<kind, sent, ended, open, bytes_read, is_received, total, errors>>
  BY DEF HangUp, writers
<1>4. remaining' = remaining
  BY <1>2 DEF HangUp, CountInv, Types
<1>5. Types'
  BY <1>2, <1>3 DEF CountInv, Types
<1>6. NoMoreThanSent' /\ ClosedIsRead'
  BY <1>3 DEF CountInv, NoMoreThanSent, ClosedIsRead
<1>7. BatchIsFresh'
  BY <1>2, <1>3 DEF CountInv, BatchIsFresh
<1>8. Counted' /\ Returned'
  BY <1>2, <1>3, <1>4 DEF CountInv, Counted, Returned
<1> QED
  BY <1>2, <1>5, <1>6, <1>7, <1>8 DEF CountInv

LEMMA ReturnStep ==
  ASSUME CountInv, Return
  PROVE  CountInv'
<1>1. remaining = 0 /\ total' = Sum(bytes_read) /\ at' = "returned"
  BY DEF Return
<1>2. UNCHANGED <<kind, sent, ended, open, bytes_read, is_received, batch, remaining, errors>>
  BY DEF Return, writers
<1>3. Types'
  BY <1>1, <1>2 DEF CountInv, Types
<1>4. NoMoreThanSent' /\ ClosedIsRead'
  BY <1>2 DEF CountInv, NoMoreThanSent, ClosedIsRead
<1>5. BatchIsFresh' /\ OneEventEach'
  BY <1>2 DEF CountInv, BatchIsFresh, OneEventEach
<1>6. Counted'
  BY <1>2 DEF CountInv, Counted
<1>7. Returned'
  <2>1. open \in SUBSET Fds /\ Cardinality(open) = 0
    BY <1>1 DEF CountInv, Types, Counted
  <2>2. IsFiniteSet(open)
    BY <2>1, FdsFinite
  <2>3. open = {}
    BY <2>1, <2>2, FS_EmptySet
  <2>4. total' = Sum(bytes_read')
    BY <1>1, <1>2
  <2> QED
    BY <1>2, <2>3, <2>4 DEF Returned
<1> QED
  BY <1>3, <1>4, <1>5, <1>6, <1>7 DEF CountInv

LEMMA CountSteps == CountInv /\ [CountNext]_count_vars => CountInv'
<1> SUFFICES ASSUME CountInv, [CountNext]_count_vars PROVE CountInv'
  OBVIOUS
<1>1. CASE UNCHANGED count_vars
  <2>1. UNCHANGED <<kind, sent, ended, open, bytes_read, is_received, batch, remaining, at, total, errors>>
    BY <1>1 DEF count_vars
  <2>2. Types' /\ NoMoreThanSent' /\ ClosedIsRead'
    BY <2>1 DEF CountInv, Types, NoMoreThanSent, ClosedIsRead
  <2>3. BatchIsFresh' /\ OneEventEach' /\ Counted' /\ Returned'
    BY <2>1 DEF CountInv, BatchIsFresh, OneEventEach, Counted, Returned
  <2> QED
    BY <2>2, <2>3 DEF CountInv
<1>2. ASSUME NEW f \in Fds, WriteByte(f) \/ CloseEnd(f)
      PROVE  CountInv'
  BY <1>2, WriteByteStep, CloseEndStep
<1>3. ASSUME NEW f \in Fds, ReadSome(f) \/ ReadFails(f) \/ ReadEnd(f) \/ HangUp(f)
      PROVE  CountInv'
  BY <1>3, ReadSomeStep, ReadFailsStep, ReadEndStep, HangUpStep
<1>4. CASE EpollWait \/ Return
  BY <1>4, EpollWaitStep, ReturnStep
<1> QED
  BY <1>1, <1>2, <1>3, <1>4 DEF CountNext, read_data_and_count

-----------------------------------------------------------------------------
(* The theorems.                                                           *)

\* The inductive invariant holds for all FdCount, Buffer and MaxBytes.
THEOREM CountInvariance == CountSpec => []CountInv
BY CountStarts, CountSteps, PTL DEF CountSpec

\* remaining_fds never wraps around: it stays between 0 and FdCount.
THEOREM CountTyping == CountSpec => []CountTypeOK
<1>1. CountInv => CountTypeOK
  <2> SUFFICES ASSUME CountInv PROVE CountTypeOK
    OBVIOUS
  <2>1. remaining \in 0 .. FdCount
    BY FdsFinite DEF CountInv, Types, Counted
  <2> QED
    BY <2>1 DEF CountInv, Types, CountTypeOK
<1> QED
  BY <1>1, CountInvariance, PTL

\* What read_data_and_count returns is what was sent, at the end of everything.
THEOREM CountIsRight == CountSpec => []ReturnsWhatWasSent
<1>1. CountInv => ReturnsWhatWasSent
  <2> SUFFICES ASSUME CountInv, at = "returned"
               PROVE  ended = Fds /\ open = {} /\ total = Sum(sent)
    BY DEF ReturnsWhatWasSent
  <2>1. open = {} /\ total = Sum(bytes_read)
    BY DEF CountInv, Returned
  <2>2. \A f \in Fds : f \in ended /\ bytes_read[f] = sent[f]
    BY <2>1 DEF CountInv, ClosedIsRead
  <2>3. ended = Fds
    BY <2>2 DEF CountInv, Types
  <2>4. bytes_read = sent
    BY <2>2 DEF CountInv, Types
  <2> QED
    BY <2>1, <2>3, <2>4
<1> QED
  BY <1>1, CountInvariance, PTL

\* As long as a descriptor is to be waited for, a sleeping read_data_and_count
\* waits for a write or a close that has not been made.
THEOREM CountSleepsForWriters == CountSpec => []SleepsOnlyForWriters
<1>1. CountInv => SleepsOnlyForWriters
  <2> SUFFICES ASSUME CountInv, remaining > 0, Ready = {}
               PROVE  \E f \in open : f \notin ended /\ Unread(f) = 0
    BY DEF SleepsOnlyForWriters
  <2>1. open # {}
    BY FS_EmptySet DEF CountInv, Counted
  <2>2. PICK f \in open : f \in Fds
    BY <2>1 DEF CountInv, Types
  <2>3. ~ Readable(f) /\ f \notin ended
    BY <2>2 DEF Ready
  <2>4. bytes_read[f] <= sent[f] /\ bytes_read[f] \in Int /\ sent[f] \in Int
    BY <2>2 DEF CountInv, NoMoreThanSent, Types
  <2>5. Unread(f) = 0
    BY <2>3, <2>4 DEF Readable, Unread
  <2> QED
    BY <2>2, <2>3, <2>5
<1> QED
  BY <1>1, CountInvariance, PTL
=============================================================================
