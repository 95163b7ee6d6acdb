------------------------- MODULE RequestReplyProofs --------------------------
(***************************************************************************)
(* RequestReply is typed, its receivers accept what its clients send, no   *)
(* client prints an answer that is not its own, and ping counts at most    *)
(* one answer too many, for every input and every run of the network.      *)
(***************************************************************************)
EXTENDS RequestReply, WellFoundedInduction, FiniteSetTheorems, SequenceTheorems, TLAPS

-----------------------------------------------------------------------------
(* Induction, on sets of numbers.                                          *)

LEMMA SmallestNumber ==
  ASSUME NEW T \in SUBSET Nat, T # {}
  PROVE  \E n \in T : \A m \in T : ~ (m < n)
<1> DEFINE R == {pair \in Nat \X Nat : pair[1] < pair[2]}
<1>1. IsWellFoundedOn(R, Nat)
  BY NatLessThanWellFounded DEF OpToRel
<1> HIDE DEF R
<1>2. PICK x \in T : \A y \in T : ~ (<<y, x>> \in R)
  BY <1>1, WFMin
<1> QED
  BY <1>2 DEF R

LEMMA Induction ==
  ASSUME NEW S \in SUBSET Nat, 0 \in S, \A n \in S : n + 1 \in S
  PROVE  S = Nat
<1> SUFFICES ASSUME Nat \ S # {} PROVE FALSE
  OBVIOUS
<1>1. PICK n \in Nat \ S : \A m \in Nat \ S : ~ (m < n)
  BY SmallestNumber
<1>2. n - 1 \in Nat /\ n - 1 \in S
  BY <1>1
<1> QED
  BY <1>1, <1>2

-----------------------------------------------------------------------------
(* Checksums.  The carry is added twice, which is enough for every sum an  *)
(* unsigned int can hold (inf22-1/main.c:84-86).                           *)

\* The numbers of 32 bits.
Unsigned == {s \in Nat : s \div 65536 <= 65535}

\* The first addition leaves at most one bit above a word, and of a sum of one
\* or more something is left.
LEMMA OneMoreBit ==
  ASSUME NEW s \in Unsigned,
         NEW once, once = (s \div 65536) + (s % 65536)
  PROVE  /\ s \div 65536 \in Nat /\ once \in Nat /\ once <= 131070
         /\ s = 65535 * (s \div 65536) + once
         /\ s > 0 => once > 0
<1>1. s \div 65536 \in Nat /\ s \div 65536 <= 65535
  BY SMT DEF Unsigned
<1> QED
  BY SMT, <1>1 DEF Unsigned

\* Carried(s) is a word, differs from s by a multiple of 65535, and is zero for
\* zero only (inf22-1/main.c:84-85).
THEOREM CarriedIsTheRest ==
  ASSUME NEW s \in Unsigned
  PROVE  /\ Carried(s) \in Word
         /\ \E k \in Nat : s = 65535 * k + Carried(s)
         /\ s > 0 => Carried(s) > 0
<1> DEFINE once == (s \div 65536) + (s % 65536)
<1>1. /\ s \div 65536 \in Nat /\ once \in Nat /\ once <= 131070
      /\ s = 65535 * (s \div 65536) + once
      /\ s > 0 => once > 0
  BY SMT, OneMoreBit
<1>2. Carried(s) = (once + (once \div 65536)) % 65536
  BY DEF Carried
<1> HIDE DEF once
<1>3. CASE once < 65536
  <2>1. Carried(s) = once
    BY SMT, <1>1, <1>2, <1>3
  <2> QED
    BY SMT, <1>1, <1>3, <2>1 DEF Word
<1>4. CASE once >= 65536
  <2>1. once \div 65536 = 1
    BY SMT, <1>1, <1>4
  <2>2. Carried(s) = once - 65535
    BY SMT, <1>1, <1>2, <1>4, <2>1
  <2>3. s = 65535 * ((s \div 65536) + 1) + Carried(s) /\ (s \div 65536) + 1 \in Nat
    BY SMT, <1>1, <2>2
  <2>4. Carried(s) \in Word /\ Carried(s) > 0
    BY SMT, <1>1, <1>4, <2>2 DEF Word
  <2> QED
    BY <2>3, <2>4
<1> QED
  BY SMT, <1>1, <1>3, <1>4

\* A receiver that adds up a packet with its checksum accepts it, whatever the
\* words of the packet add up to (inf22-1/main.c:73-88).
THEOREM ReceiverAccepts ==
  ASSUME NEW s \in Unsigned, s + 65535 \in Unsigned
  PROVE  checksum(s) \in Word /\ Verifies(s + checksum(s))
<1>1. PICK k \in Nat : s = 65535 * k + Carried(s)
  BY CarriedIsTheRest
<1>2. Carried(s) \in Word
  BY CarriedIsTheRest
<1> DEFINE total == s + checksum(s)
<1>3. /\ total \in Unsigned /\ total > 0
      /\ total = 65535 * (k + 1) /\ checksum(s) \in Word
  BY SMT, <1>1, <1>2 DEF checksum, Word, Unsigned
<1> HIDE DEF total
<1>4. Carried(total) \in Word /\ Carried(total) > 0
  BY <1>3, CarriedIsTheRest
<1>5. PICK j \in Nat : total = 65535 * j + Carried(total)
  BY <1>3, CarriedIsTheRest
<1>6. Carried(total) = 65535
  BY SMT, <1>3, <1>4, <1>5 DEF Word
<1> QED
  BY <1>3, <1>6 DEF Verifies, total

-----------------------------------------------------------------------------
(* Sums of words.                                                          *)

\* f gives the sums of the first words.
AddsUp(f, words) ==
  /\ f \in [0 .. Len(words) -> Nat] /\ f[0] = 0
  /\ \A k \in 1 .. Len(words) : f[k] = f[k - 1] + words[k]

LEMMA PartialSumsExist ==
  ASSUME NEW words \in Seq(Nat)
  PROVE  \E f : AddsUp(f, words)
<1> DEFINE Up(f, n) == /\ f \in [0 .. n -> Nat] /\ f[0] = 0
                       /\ \A k \in 1 .. n : f[k] = f[k - 1] + words[k]
           S == {n \in Nat : n <= Len(words) => \E f : Up(f, n)}
<1>1. 0 \in S
  <2>1. Up([k \in 0 .. 0 |-> 0], 0)
    OBVIOUS
  <2> QED
    BY <2>1
<1>2. ASSUME NEW n \in S PROVE n + 1 \in S
  <2>0. n \in Nat /\ n + 1 \in Nat
    OBVIOUS
  <2> SUFFICES ASSUME n + 1 <= Len(words) PROVE \E g : Up(g, n + 1)
    BY Zenon, <2>0
  <2>1. n <= Len(words)
    BY <2>0
  <2>2. PICK f : Up(f, n)
    BY Zenon, <2>1
  <2> DEFINE g == [k \in 0 .. n + 1 |-> IF k = n + 1 THEN f[n] + words[n + 1] ELSE f[k]]
  <2>3. f[n] \in Nat /\ words[n + 1] \in Nat
    BY <2>0, <2>2
  <2>4. g \in [0 .. n + 1 -> Nat] /\ g[0] = 0
    BY <2>0, <2>2, <2>3
  <2>5. ASSUME NEW k \in 1 .. n + 1 PROVE g[k] = g[k - 1] + words[k]
    <3>1. CASE k = n + 1
      <4>1. k - 1 = n /\ k - 1 \in 0 .. n + 1 /\ k - 1 # n + 1 /\ k \in 0 .. n + 1
        BY <2>0, <3>1
      <4> QED
        BY <3>1, <4>1
    <3>2. CASE k # n + 1
      <4>1. k - 1 \in 0 .. n + 1 /\ k - 1 # n + 1 /\ k \in 0 .. n + 1 /\ k \in 1 .. n
        BY <2>0, <3>2
      <4> QED
        BY <2>2, <3>2, <4>1
    <3> QED
      BY <3>1, <3>2
  <2> QED
    BY Zenon, <2>4, <2>5
<1>3. S = Nat
  <2> HIDE DEF S
  <2>1. S \subseteq Nat
    BY DEF S
  <2> QED
    BY <1>1, <1>2, <2>1, Induction
<1>4. PICK f : Up(f, Len(words))
  <2> HIDE DEF S
  <2>1. Len(words) \in S /\ Len(words) <= Len(words)
    BY <1>3
  <2> USE DEF S
  <2> QED
    BY Zenon, <2>1
<1> QED
  BY <1>4 DEF AddsUp

LEMMA SumIsPartialSum ==
  ASSUME NEW words \in Seq(Nat), NEW f, AddsUp(f, words)
  PROVE  SumOf(words) = f[Len(words)]
<1> DEFINE L == Len(words)
           Def(g) == [k \in 0 .. L |-> IF k = 0 THEN 0 ELSE g[k - 1] + words[k]]
           sum == CHOOSE g : g = Def(g)
<1>1. f = Def(f)
  BY DEF AddsUp
<1>2. sum = Def(sum)
  BY <1>1
<1>3. SumOf(words) = sum[L]
  BY DEF SumOf
<1> HIDE DEF sum
<1> DEFINE S == {k \in Nat : k <= L => sum[k] = f[k]}
<1>4. 0 \in S
  BY <1>2 DEF AddsUp
<1>5. ASSUME NEW k \in S PROVE k + 1 \in S
  BY <1>2 DEF AddsUp
<1>6. S = Nat
  <2> HIDE DEF S
  <2>1. S \subseteq Nat
    BY DEF S
  <2> QED
    BY <1>4, <1>5, <2>1, Induction
<1> QED
  BY <1>3, <1>6

\* Setting a word that was zero adds it.
LEMMA SumOfReplaced ==
  ASSUME NEW words \in Seq(Nat), NEW i \in 1 .. Len(words), words[i] = 0, NEW x \in Nat
  PROVE  SumOf([words EXCEPT ![i] = x]) = SumOf(words) + x
<1> DEFINE more == [words EXCEPT ![i] = x]
           L == Len(words)
<1>1. more \in Seq(Nat) /\ Len(more) = L
      /\ \A k \in 1 .. L : more[k] = IF k = i THEN x ELSE words[k]
  OBVIOUS
<1> HIDE DEF more
<1>2. PICK f : AddsUp(f, words)
  BY PartialSumsExist
<1>3. PICK g : AddsUp(g, more)
  BY <1>1, PartialSumsExist
<1>4. SumOf(words) = f[L] /\ SumOf(more) = g[L]
  BY <1>1, <1>2, <1>3, SumIsPartialSum
<1> DEFINE S == {k \in Nat : k <= L => g[k] = f[k] + (IF k >= i THEN x ELSE 0)}
<1>5. 0 \in S
  BY <1>2, <1>3 DEF AddsUp
<1>6. ASSUME NEW k \in S PROVE k + 1 \in S
  <2> SUFFICES ASSUME k + 1 <= L PROVE g[k + 1] = f[k + 1] + (IF k + 1 >= i THEN x ELSE 0)
    OBVIOUS
  <2>1. k \in 0 .. L /\ k + 1 \in 1 .. L
    OBVIOUS
  <2>2. g[k] = f[k] + (IF k >= i THEN x ELSE 0)
    BY <2>1
  <2> HIDE DEF S
  <2>3. words[k + 1] \in Nat
    BY SMT, <2>1
  <2>4. f[k] \in Nat
    BY <1>2, <2>1 DEF AddsUp
  <2>5. f[k + 1] = f[k] + words[k + 1] /\ g[k + 1] = g[k] + more[k + 1]
    BY <1>1, <1>2, <1>3, <2>1 DEF AddsUp
  <2>6. more[k + 1] = IF k + 1 = i THEN x ELSE words[k + 1]
    BY Zenon, <1>1, <2>1
  <2>7. k \in Nat /\ i \in Nat /\ (k + 1 = i => words[k + 1] = 0)
    BY <2>1
  <2> QED
    BY SMT, <2>2, <2>3, <2>4, <2>5, <2>6, <2>7
<1>7. S = Nat
  <2> HIDE DEF S
  <2>1. S \subseteq Nat
    BY DEF S
  <2> QED
    BY <1>5, <1>6, <2>1, Induction
<1>8. g[L] = f[L] + x
  BY SMT, <1>7
<1> QED
  BY <1>4, <1>8 DEF more

\* The sum of n words that are all ones.
AllOnes(n) == 65535 * n

LEMMA AllOnesGrows ==
  /\ AllOnes(0) = 0
  /\ \A n \in Nat : AllOnes(n) \in Nat /\ AllOnes(n + 1) = AllOnes(n) + 65535
  BY SMT DEF AllOnes

HasRoom(s) == s \in Unsigned /\ s + 65535 \in Unsigned

LEMMA AllOnesBound ==
  ASSUME NEW n \in 2 .. 32, NEW s \in Nat, s <= AllOnes(n)
  PROVE  HasRoom(s)
  BY SMT DEF AllOnes, Unsigned, HasRoom

\* Words add up to no more than they are.
LEMMA SumBound ==
  ASSUME NEW words \in Seq(Word)
  PROVE  SumOf(words) \in Nat /\ SumOf(words) <= AllOnes(Len(words))
<1>1. words \in Seq(Nat) /\ \A k \in 1 .. Len(words) : words[k] \in Nat /\ words[k] <= 65535
  BY DEF Word
<1>2. PICK f : AddsUp(f, words)
  BY <1>1, PartialSumsExist
<1> DEFINE S == {k \in Nat : k <= Len(words) => f[k] <= AllOnes(k)}
<1>3. 0 \in S
  BY <1>2, AllOnesGrows DEF AddsUp
<1>4. ASSUME NEW k \in S PROVE k + 1 \in S
  <2> SUFFICES ASSUME k + 1 <= Len(words) PROVE f[k + 1] <= AllOnes(k + 1)
    OBVIOUS
  <2>1. k \in Nat /\ k \in 0 .. Len(words) /\ k + 1 \in 1 .. Len(words) /\ f[k] <= AllOnes(k)
    OBVIOUS
  <2>2. f[k + 1] = f[k] + words[k + 1] /\ f[k] \in Nat
    BY <1>2, <2>1 DEF AddsUp
  <2>3. AllOnes(k + 1) = AllOnes(k) + 65535 /\ AllOnes(k) \in Nat
    BY <2>1, AllOnesGrows
  <2>4. words[k + 1] \in Nat /\ words[k + 1] <= 65535
    BY <1>1, <2>1
  <2> QED
    BY <2>1, <2>2, <2>3, <2>4
<1>5. S = Nat
  <2> HIDE DEF S
  <2>1. S \subseteq Nat
    BY DEF S
  <2> QED
    BY <1>3, <1>4, <2>1, Induction
<1>6. SumOf(words) = f[Len(words)] /\ f[Len(words)] \in Nat
  <2>1. SumOf(words) = f[Len(words)]
    <3>1. words \in Seq(Nat)
      BY <1>1
    <3> HIDE DEF S
    <3> QED
      BY <1>2, <3>1, SumIsPartialSum
  <2>2. f \in [0 .. Len(words) -> Nat]
    BY Zenon, <1>2 DEF AddsUp
  <2>3. Len(words) \in 0 .. Len(words)
    OBVIOUS
  <2> HIDE DEF S
  <2>4. f[Len(words)] \in Nat
    BY Zenon, <2>2, <2>3
  <2> QED
    BY Zenon, <2>1, <2>4
<1>7. PICK n \in Nat : n = Len(words) /\ n <= Len(words)
  <2>1. Len(words) \in Nat /\ Len(words) <= Len(words)
    OBVIOUS
  <2> QED
    BY Zenon, <2>1
<1> HIDE DEF S
<1>8. n \in S
  BY Zenon, <1>5
<1> USE DEF S
<1>9. f[n] <= AllOnes(n)
  BY Zenon, <1>7, <1>8
<1> QED
  BY Zenon, <1>6, <1>7, <1>9

-----------------------------------------------------------------------------
(* Echo requests.                                                          *)

LEMMA MessageWords == msg \in Seq(Word) /\ Len(msg) = 28
<1> DEFINE byte(k) == (46 + 2 * k) + 256 * (IF k = 28 THEN 0 ELSE 47 + 2 * k)
<1>1. \A k \in 1 .. 28 : byte(k) \in Nat /\ byte(k) <= 65535
  OBVIOUS
<1>2. \A k \in 1 .. 28 : byte(k) \in Word
  BY <1>1 DEF Word
<1>3. msg = [k \in 1 .. 28 |-> byte(k)]
  BY DEF msg
<1> QED
  BY <1>2, <1>3

LEMMA WordsAreNumbers ==
  /\ \A w \in Word : w \in Nat
  /\ \A words \in Seq(Word) : words \in Seq(Nat)
BY DEF Word

LEMMA SecondIndex ==
  \A length \in 2 .. 32 : 2 \in 1 .. length
OBVIOUS

LEMMA ChecksumFieldAccepted ==
  ASSUME NEW bare \in Seq(Word), Len(bare) \in 2 .. 32
  PROVE  /\ checksum(SumOf(bare)) \in Word
         /\ bare[2] = 0 => Verifies(SumOf([bare EXCEPT ![2] = checksum(SumOf(bare))]))
<1>1. SumOf(bare) \in Nat /\ SumOf(bare) <= AllOnes(Len(bare))
  BY SumBound
<1>2. PICK length \in 2 .. 32 : length = Len(bare)
  BY Zenon
<1>3. SumOf(bare) \in Unsigned /\ SumOf(bare) + 65535 \in Unsigned
  <2>1. SumOf(bare) <= AllOnes(length)
    BY Zenon, <1>1, <1>2
  <2>2. HasRoom(SumOf(bare))
    BY Zenon, <1>1, <2>1, AllOnesBound
  <2> QED
    BY <2>2 DEF HasRoom
<1>4. checksum(SumOf(bare)) \in Word /\ Verifies(SumOf(bare) + checksum(SumOf(bare)))
  BY <1>3, ReceiverAccepts
<1>5. bare \in Seq(Nat) /\ 2 \in 1 .. Len(bare) /\ checksum(SumOf(bare)) \in Nat
  BY Zenon, <1>2, <1>4, WordsAreNumbers, SecondIndex
<1>6. bare[2] = 0 =>
        SumOf([bare EXCEPT ![2] = checksum(SumOf(bare))]) = SumOf(bare) + checksum(SumOf(bare))
  BY <1>5, SumOfReplaced
<1> QED
  BY <1>4, <1>6

\* The echo request with any process id and sequence number is accepted: its
\* checksum makes the sum of its words all ones (inf22-1/main.c:73-88, 119-127).
THEOREM PacketAccepted ==
  ASSUME pid \in Word, NEW sequence \in Word
  PROVE  Verifies(SumOf(Packet(sequence)))
<1> SUFFICES ASSUME NEW id \in Word, pid = id
             PROVE  Verifies(SumOf(Packet(sequence)))
  OBVIOUS
<1> DEFINE header == <<8, 0, id, sequence>>
           bare == header \o msg
<1>1. header \in Seq(Word) /\ Len(header) = 4 /\ header[2] = 0
  BY DEF Word
<1>2. bare \in Seq(Word) /\ Len(bare) \in 2 .. 32 /\ bare[2] = 0
  <2> HIDE DEF header
  <2>1. msg \in Seq(Word) /\ Len(msg) = 28
    BY MessageWords
  <2>2. bare \in Seq(Word) /\ Len(bare) = Len(header) + Len(msg)
    BY <1>1, <2>1, ConcatProperties
  <2>3. bare[2] = header[2]
    <3>1. 2 \in 1 .. Len(header) + Len(msg) /\ 2 <= Len(header)
      BY <1>1, <2>1
    <3> QED
      BY <1>1, <2>1, <3>1, ConcatProperties
  <2> QED
    BY <1>1, <2>1, <2>2, <2>3
<1>3. Packet(sequence) = [bare EXCEPT ![2] = checksum(SumOf(bare))]
  BY DEF Packet
<1> HIDE DEF bare
<1> QED
  BY <1>2, <1>3, ChecksumFieldAccepted

-----------------------------------------------------------------------------
(* Questions.                                                              *)

\* The state of the loop over the bytes of a name.
Reading == [request : Seq(Nat), buffer : Seq(Nat)]

NextByte(host, k, last) ==
  IF host[k] = 46
  THEN [request |-> last.request \o Label(last.buffer), buffer |-> <<>>]
  ELSE [request |-> last.request, buffer |-> Append(last.buffer, host[k])]

LEMMA LabelBytes ==
  ASSUME NEW buffer \in Seq(Nat)
  PROVE  /\ Label(buffer) \in Seq(Nat) /\ Len(Label(buffer)) = Len(buffer) + 1
         /\ Label(buffer)[1] = Len(buffer) % 256
         /\ \A i \in 1 .. Len(buffer) : Label(buffer)[i + 1] = buffer[i]
<1>1. Len(buffer) \in Nat
  OBVIOUS
<1>2. Len(buffer) % 256 \in Nat
  BY <1>1
<1> DEFINE head == <<Len(buffer) % 256>>
<1>3. head \in Seq(Nat)
  BY <1>2
<1>8. Len(head) = 1
  OBVIOUS
<1>9. head[1] = Len(buffer) % 256
  OBVIOUS
<1> HIDE DEF head
<1>4. Label(buffer) = head \o buffer
  BY DEF Label, head
<1>5. /\ Label(buffer) \in Seq(Nat) /\ Len(Label(buffer)) = 1 + Len(buffer)
      /\ \A i \in 1 .. 1 + Len(buffer) :
           Label(buffer)[i] = IF i <= 1 THEN head[i] ELSE buffer[i - 1]
  <2>1. /\ Label(buffer) \in Seq(Nat) /\ Len(Label(buffer)) = Len(head) + Len(buffer)
        /\ \A i \in 1 .. Len(head) + Len(buffer) :
             Label(buffer)[i] = IF i <= Len(head) THEN head[i] ELSE buffer[i - Len(head)]
    BY <1>3, <1>4, ConcatProperties
  <2> QED
    BY <1>8, <2>1
<1>6. ASSUME NEW i \in 1 .. Len(buffer)
      PROVE  Label(buffer)[i + 1] = buffer[i]
  <2>1. i + 1 \in 1 .. 1 + Len(buffer) /\ ~ (i + 1 <= 1) /\ (i + 1) - 1 = i
    BY <1>1
  <2> QED
    BY <1>5, <2>1
<1>7. Label(buffer)[1] = head[1]
  <2>1. 1 \in 1 .. 1 + Len(buffer)
    BY <1>1
  <2> QED
    BY <1>5, <2>1
<1> QED
  BY <1>1, <1>5, <1>6, <1>7, <1>9

LEMMA NextByteReads ==
  ASSUME NEW host \in Seq(Nat), NEW k \in 1 .. Len(host), NEW last \in Reading
  PROVE  NextByte(host, k, last) \in Reading
<1>1. last.request \in Seq(Nat) /\ last.buffer \in Seq(Nat) /\ host[k] \in Nat
  BY DEF Reading
<1>2. Label(last.buffer) \in Seq(Nat)
  BY <1>1, LabelBytes
<1>3. last.request \o Label(last.buffer) \in Seq(Nat) /\ Append(last.buffer, host[k]) \in Seq(Nat)
  BY <1>1, <1>2, ConcatProperties
<1> QED
  BY <1>3 DEF NextByte, Reading

\* after gives the states after the first bytes.
Reads(after, host) ==
  /\ DOMAIN after = 0 .. Len(host)
  /\ after[0] = [request |-> <<>>, buffer |-> <<>>]
  /\ \A k \in 1 .. Len(host) : after[k] = NextByte(host, k, after[k - 1])

LEMMA WrittenReads ==
  ASSUME NEW host \in Seq(Nat)
  PROVE  Reads(Written(host), host)
<1> DEFINE L == Len(host)
           first == [request |-> <<>>, buffer |-> <<>>]
           Up(f, n) == /\ f \in [0 .. n -> Reading] /\ f[0] = first
                       /\ \A k \in 1 .. n : f[k] = NextByte(host, k, f[k - 1])
           S == {n \in Nat : n <= L => \E f : Up(f, n)}
<1>1. 0 \in S
  <2>1. first \in Reading
    BY DEF Reading
  <2> HIDE DEF first
  <2>2. Up([k \in 0 .. 0 |-> first], 0)
    BY <2>1
  <2> QED
    BY <2>2
<1>2. ASSUME NEW n \in S PROVE n + 1 \in S
  <2>1. n \in Nat /\ n + 1 \in Nat
    OBVIOUS
  <2> SUFFICES ASSUME n + 1 <= L PROVE \E g : Up(g, n + 1)
    BY Zenon, <2>1
  <2>2. n <= L
    BY <2>1
  <2>3. PICK f : Up(f, n)
    BY Zenon, <2>2
  <2> DEFINE g == [k \in 0 .. n + 1 |-> IF k = n + 1 THEN NextByte(host, n + 1, f[n]) ELSE f[k]]
  <2> HIDE DEF S, first
  <2>4. NextByte(host, n + 1, f[n]) \in Reading
    BY <2>1, <2>3, NextByteReads
  <2>5. g \in [0 .. n + 1 -> Reading] /\ g[0] = first
    BY <2>1, <2>3, <2>4
  <2>6. ASSUME NEW k \in 1 .. n + 1 PROVE g[k] = NextByte(host, k, g[k - 1])
    <3>1. CASE k = n + 1
      <4>1. k - 1 = n /\ k - 1 \in 0 .. n + 1 /\ k - 1 # n + 1 /\ k \in 0 .. n + 1
        BY <2>1, <3>1
      <4> QED
        BY <3>1, <4>1
    <3>2. CASE k # n + 1
      <4>1. k - 1 \in 0 .. n + 1 /\ k - 1 # n + 1 /\ k \in 0 .. n + 1 /\ k \in 1 .. n
        BY <2>1, <3>2
      <4> QED
        BY <2>3, <3>2, <4>1
    <3> QED
      BY <3>1, <3>2
  <2> QED
    BY Zenon, <2>5, <2>6
<1>3. S = Nat
  <2> HIDE DEF S
  <2>1. S \subseteq Nat
    BY DEF S
  <2> QED
    BY <1>1, <1>2, <2>1, Induction
<1>4. PICK f : Up(f, L)
  <2> HIDE DEF S
  <2>1. L \in S /\ L <= L
    BY <1>3
  <2> USE DEF S
  <2> QED
    BY Zenon, <2>1
<1> DEFINE Def(g) == [k \in 0 .. L |-> IF k = 0 THEN first ELSE NextByte(host, k, g[k - 1])]
<1>5. f = Def(f)
  <2> HIDE DEF first
  <2> QED
    BY <1>4
<1>6. Written(host) = CHOOSE g : g = Def(g)
  BY Zenon DEF Written, NextByte
<1>7. Written(host) = Def(Written(host))
  BY Zenon, <1>5, <1>6
<1> QED
  BY SMTT(40), <1>7 DEF Reads

\* Where a label begins: at the beginning and after each dot.
Start(host, i) == i = 0 \/ host[i] = 46

\* l is the length of the label after byte i.
LabelLength(host, i, l) ==
  /\ l \in 1 .. 253 /\ i + l <= Len(host)
  /\ \A j \in i + 1 .. i + l : host[j] # 46
  /\ i + l = Len(host) \/ host[i + l + 1] = 46

\* q[i + 1] is what has become of byte i: the dots, and the dot that one may think
\* before the name, have become the lengths of the labels behind them.
ByteInto(host, q, i) ==
  IF Start(host, i) THEN LabelLength(host, i, q[i + 1]) ELSE q[i + 1] = host[i]

\* The bytes of the name up to k, the last of them still in the buffer.
SplitsAt(host, k, last) ==
  LET m == Len(last.request) IN
  /\ last \in Reading
  /\ m \in 0 .. k /\ Start(host, m)
  /\ Len(last.buffer) = k - m
  /\ \A j \in 1 .. k - m : last.buffer[j] = host[m + j] /\ host[m + j] # 46
  /\ \A i \in 0 .. m - 1 : ByteInto(host, last.request, i)

\* Labels of a name are too short to overflow a byte.
Fits(k, m) == k - m \in 1 .. 253 /\ m + (k - m) = k /\ (k - m) % 256 = k - m

LEMMA LabelFits ==
  ASSUME NEW length \in 1 .. 253, NEW k \in Nat, NEW m \in Nat, k <= length, m < k
  PROVE  Fits(k, m)
  BY SMT DEF Fits

\* An index of a range is a number within it.
LEMMA InRange ==
  ASSUME NEW n \in Nat, NEW i \in 0 .. n
  PROVE  i \in Nat /\ i <= n
  BY SMT

\* What is taken off is put on again.
LEMMA BackInFull ==
  ASSUME NEW k \in Nat, NEW m \in Nat
  PROVE  m + (k - m + 1) = k + 1
  BY SMT

\* A number within another and not equal to it is less.
LEMMA OtherIsLess ==
  ASSUME NEW k \in Nat, NEW m \in Nat, m <= k, m # k
  PROVE  m < k
  BY SMT

\* A length a host name may have.
LEMMA PositiveLength ==
  ASSUME NEW n \in 1 .. 253
  PROVE  n \in Nat /\ n # 0
  BY SMT

\* Two sequences one behind the other.
LEMMA Joined ==
  ASSUME NEW s \in Seq(Nat), NEW q \in Seq(Nat)
  PROVE  /\ s \o q \in Seq(Nat) /\ Len(s \o q) = Len(s) + Len(q)
         /\ \A i \in 1 .. Len(s) + Len(q) :
              /\ i <= Len(s) => (s \o q)[i] = s[i]
              /\ ~ (i <= Len(s)) => (s \o q)[i] = q[i - Len(s)]
BY ConcatProperties

\* A label of the buffer goes behind what has been written.
LEMMA LabelWritten ==
  ASSUME NEW host, HostName(host), NEW k \in 0 .. Len(host), NEW last, SplitsAt(host, k, last),
         k = Len(host) \/ host[k + 1] = 46
  PROVE  LET more == last.request \o Label(last.buffer) IN
         /\ more \in Seq(Nat) /\ Len(more) = k + 1
         /\ \A i \in 0 .. k : ByteInto(host, more, i)
<1> DEFINE r == last.request
           b == last.buffer
           m == Len(r)
           more == r \o Label(b)
<1>0. k \in Nat
  OBVIOUS
<1>1. k \in Nat /\ Len(host) \in Nat /\ k <= Len(host) /\ Len(host) \in 1 .. 253
  <2>1. Len(host) \in 1 .. 253
    BY Zenon DEF HostName
  <2>2. Len(host) \in Nat
    BY Zenon, <2>1, PositiveLength
  <2> QED
    BY Zenon, <2>1, <2>2, InRange
<1>2. m \in Nat /\ m <= k /\ Start(host, m)
  <2>1. m \in 0 .. k /\ Start(host, m)
    BY Zenon DEF SplitsAt
  <2> QED
    BY Zenon, <1>0, <2>1, InRange
<1>3. r \in Seq(Nat) /\ b \in Seq(Nat) /\ Len(b) = k - m
  BY SMTT(20) DEF SplitsAt, Reading
<1>4. \A j \in 1 .. k - m : b[j] = host[m + j] /\ host[m + j] # 46
  BY Zenon DEF SplitsAt
<1>5. \A i \in 0 .. m - 1 : ByteInto(host, r, i)
  BY Zenon DEF SplitsAt
<1>6. /\ host[1] # 46 /\ host[Len(host)] # 46
      /\ \A i \in 1 .. Len(host) - 1 : ~ (host[i] = 46 /\ host[i + 1] = 46)
  BY Zenon DEF HostName
<1>7. m = Len(r)
  OBVIOUS
<1> HIDE DEF r, b, m
<1>8. m < k
  <2> SUFFICES ASSUME m = k PROVE FALSE
    BY Zenon, <1>0, <1>2, OtherIsLess
  <2>1. k # Len(host)
    <3>1. Len(host) # 0
      BY Zenon, <1>1, PositiveLength
    <3> QED
      BY Zenon, <1>2, <1>6, <3>1 DEF Start
  <2>2. host[k + 1] = 46 /\ k # 0
    <3>1. host[k + 1] = 46
      BY Zenon, <2>1
    <3>2. k = 0 => k + 1 = 1
      BY SMTT(20)
    <3> QED
      BY Zenon, <1>6, <3>1, <3>2
  <2>3. host[k] = 46 /\ k \in 1 .. Len(host) - 1
    BY SMTT(20), <1>1, <1>2, <2>1, <2>2 DEF Start
  <2> QED
    BY SMTT(20), <1>6, <2>2, <2>3
<1>9. k - m \in 1 .. 253 /\ m + (k - m) = k /\ (k - m) % 256 = k - m
  <2>1. Fits(k, m)
    BY Zenon, <1>0, <1>1, <1>2, <1>8, LabelFits
  <2> QED
    BY Zenon, <2>1 DEF Fits
<1>10. Len(b) % 256 = k - m
  BY Zenon, <1>3, <1>9
<1>11. /\ Label(b) \in Seq(Nat) /\ Len(Label(b)) = k - m + 1 /\ Label(b)[1] = k - m
       /\ \A i \in 1 .. k - m : Label(b)[i + 1] = b[i]
  <2>1. /\ Label(b) \in Seq(Nat) /\ Len(Label(b)) = Len(b) + 1 /\ Label(b)[1] = Len(b) % 256
        /\ \A i \in 1 .. Len(b) : Label(b)[i + 1] = b[i]
    BY ZenonT(20), <1>3, LabelBytes
  <2> QED
    BY Zenon, <1>3, <1>10, <2>1
<1>12. /\ more \in Seq(Nat) /\ Len(more) = k + 1
       /\ \A i \in 1 .. k + 1 : more[i] = IF i <= m THEN r[i] ELSE Label(b)[i - m]
  <2>1. m + Len(Label(b)) = k + 1
    BY Zenon, <1>0, <1>2, <1>11, BackInFull
  <2>2. /\ more \in Seq(Nat) /\ Len(more) = Len(r) + Len(Label(b))
        /\ \A i \in 1 .. Len(r) + Len(Label(b)) :
             /\ i <= Len(r) => more[i] = r[i]
             /\ ~ (i <= Len(r)) => more[i] = Label(b)[i - Len(r)]
    <3>1. r \in Seq(Nat) /\ Label(b) \in Seq(Nat)
      BY Zenon, <1>3, <1>11
    <3> QED
      BY Zenon, <3>1, Joined
  <2> HIDE DEF more
  <2>3. Len(r) + Len(Label(b)) = k + 1
    BY Zenon, <1>7, <2>1
  <2>4. Len(more) = k + 1
    BY Zenon, <2>2, <2>3
  <2>5. ASSUME NEW i \in 1 .. k + 1
        PROVE  more[i] = IF i <= m THEN r[i] ELSE Label(b)[i - m]
    BY Zenon, <1>7, <2>2, <2>3
  <2> QED
    BY Zenon, <2>2, <2>4, <2>5
<1> HIDE DEF more
<1>13. ASSUME NEW i \in 0 .. m - 1 PROVE ByteInto(host, more, i)
  <2>1. i + 1 \in 1 .. k + 1 /\ i + 1 <= m
    BY SMTT(20), <1>1, <1>2
  <2>2. more[i + 1] = r[i + 1]
    BY SMTT(20), <1>12, <2>1
  <2> QED
    BY SMTT(20), <1>5, <2>2 DEF ByteInto
<1>14. ByteInto(host, more, m)
  <2>1. m + 1 \in 1 .. k + 1 /\ ~ (m + 1 <= m) /\ (m + 1) - m = 1
    BY SMTT(20), <1>1, <1>2
  <2>2. more[m + 1] = Label(b)[1]
    BY SMTT(20), <1>12, <2>1
  <2>3. more[m + 1] = k - m
    BY SMTT(20), <1>11, <2>2
  <2>4. ASSUME NEW j \in m + 1 .. k PROVE host[j] # 46
    <3>1. j - m \in 1 .. k - m /\ m + (j - m) = j
      BY SMTT(20), ZenonT(20), <1>1, <1>2
    <3> QED
      BY SMTT(20), <1>4, <3>1
  <2>5. LabelLength(host, m, k - m)
    BY SMTT(20), ZenonT(20), <1>1, <1>9, <2>4 DEF LabelLength
  <2> QED
    BY SMTT(20), <1>2, <2>3, <2>5 DEF ByteInto
<1>15. ASSUME NEW i \in m + 1 .. k PROVE ByteInto(host, more, i)
  <2>1. /\ i - m \in 1 .. k - m /\ (i + 1) - m = (i - m) + 1 /\ m + (i - m) = i
        /\ i + 1 \in 1 .. k + 1 /\ ~ (i + 1 <= m) /\ i # 0
    BY SMTT(20), <1>1, <1>2
  <2>2. more[i + 1] = Label(b)[(i + 1) - m]
    BY SMTT(20), <1>12, <2>1
  <2>3. Label(b)[(i - m) + 1] = b[i - m]
    BY SMTT(20), <1>11, <2>1
  <2>4. b[i - m] = host[i] /\ host[i] # 46
    BY SMTT(20), <1>4, <2>1
  <2> QED
    BY SMTT(20), <2>1, <2>2, <2>3, <2>4 DEF ByteInto, Start
<1>16. \A i \in 0 .. k : i \in 0 .. m - 1 \/ i = m \/ i \in m + 1 .. k
  BY SMTT(20), <1>1, <1>2
<1> QED
  BY SMTT(20), <1>12, <1>13, <1>14, <1>15, <1>16 DEF more, r, b

LEMMA ByteReadSplits ==
  ASSUME NEW host, HostName(host), NEW k \in 0 .. Len(host), k + 1 <= Len(host),
         NEW last, SplitsAt(host, k, last)
  PROVE  SplitsAt(host, k + 1, NextByte(host, k + 1, last))
<1> DEFINE next == NextByte(host, k + 1, last)
           m == Len(last.request)
<1>0. k \in Nat /\ host \in Seq(Nat) /\ Len(host) \in Nat /\ k + 1 \in 1 .. Len(host)
      /\ host[k + 1] \in Nat
  BY SMT DEF HostName
<1>1. last \in Reading /\ last.request \in Seq(Nat) /\ last.buffer \in Seq(Nat)
  BY DEF SplitsAt, Reading
<1>2. next \in Reading
  BY <1>0, <1>1, NextByteReads
<1>3. CASE host[k + 1] = 46
  <2> DEFINE more == last.request \o Label(last.buffer)
  <2>1. /\ more \in Seq(Nat) /\ Len(more) = k + 1
        /\ \A i \in 0 .. k : ByteInto(host, more, i)
    BY <1>3, LabelWritten
  <2> HIDE DEF more
  <2>2. next = [request |-> more, buffer |-> <<>>]
    BY <1>3 DEF NextByte, more
  <2> HIDE DEF next
  <2>3. Start(host, k + 1) /\ (k + 1) - 1 = k /\ (k + 1) - (k + 1) = 0 /\ k + 1 \in 0 .. k + 1
    BY <1>0, <1>3 DEF Start
  <2>4. next.request = more /\ next.buffer = <<>>
    BY <2>2
  <2>5. Len(next.request) = k + 1 /\ Len(next.buffer) = 0
    BY <2>1, <2>4
  <2>6. \A j \in 1 .. 0 : next.buffer[j] = host[(k + 1) + j] /\ host[(k + 1) + j] # 46
    OBVIOUS
  <2>7. \A i \in 0 .. k : ByteInto(host, next.request, i)
    BY <2>1, <2>4
  <2> QED
    BY Zenon, <1>2, <2>3, <2>5, <2>6, <2>7 DEF SplitsAt, next
<1>4. CASE host[k + 1] # 46
  <2> DEFINE b == last.buffer
  <2>1. m \in 0 .. k /\ Start(host, m) /\ Len(b) = k - m
    BY Zenon DEF SplitsAt
  <2>2. \A j \in 1 .. k - m : b[j] = host[m + j] /\ host[m + j] # 46
    BY Zenon DEF SplitsAt
  <2>3. \A i \in 0 .. m - 1 : ByteInto(host, last.request, i)
    BY Zenon DEF SplitsAt
  <2>4. next = [request |-> last.request, buffer |-> Append(b, host[k + 1])]
    BY <1>4 DEF NextByte
  <2> HIDE DEF next
  <2>5. next.request = last.request /\ next.buffer = Append(b, host[k + 1])
    BY <2>4
  <2> HIDE DEF b, m
  <2>6. m \in Nat /\ m <= k /\ m \in 0 .. k + 1 /\ (k + 1) - m = (k - m) + 1
    BY <1>0, <2>1
  <2>7. Len(next.buffer) = (k + 1) - m
        /\ next.buffer[(k - m) + 1] = host[k + 1]
        /\ \A j \in 1 .. k - m : next.buffer[j] = b[j]
    <3>1. b \in Seq(Nat)
      BY <1>1 DEF b
    <3>2. Len(next.buffer) = Len(b) + 1 /\ next.buffer[Len(b) + 1] = host[k + 1]
          /\ \A j \in 1 .. Len(b) : next.buffer[j] = b[j]
      BY <1>0, <2>5, <3>1, AppendProperties
    <3> QED
      BY <2>1, <2>6, <3>2
  <2>8. ASSUME NEW j \in 1 .. (k + 1) - m
        PROVE  next.buffer[j] = host[m + j] /\ host[m + j] # 46
    <3>1. j \in 1 .. k - m \/ (j = (k - m) + 1 /\ m + j = k + 1)
      BY <1>0, <2>6
    <3> QED
      BY <1>4, <2>2, <2>7, <3>1
  <2>9. Len(next.request) = m
    BY <2>5 DEF m
  <2>10. \A i \in 0 .. m - 1 : ByteInto(host, next.request, i)
    BY <2>3, <2>5
  <2> QED
    BY Zenon, <1>2, <2>1, <2>6, <2>7, <2>8, <2>9, <2>10 DEF SplitsAt, next
<1> QED
  BY <1>3, <1>4

LEMMA NameSplits ==
  ASSUME NEW host, HostName(host)
  PROVE  SplitsAt(host, Len(host), Written(host)[Len(host)])
<1> DEFINE L == Len(host)
           W == Written(host)
           S == {k \in Nat : k <= L => SplitsAt(host, k, W[k])}
<1>1. host \in Seq(Nat) /\ L \in Nat
  BY DEF HostName
<1>2. Reads(W, host)
  BY <1>1, WrittenReads
<1> HIDE DEF W
<1>3. 0 \in S
  <2>1. W[0] = [request |-> <<>>, buffer |-> <<>>]
    BY <1>2 DEF Reads
  <2>2. W[0] \in Reading /\ Len(W[0].request) = 0 /\ Len(W[0].buffer) = 0
    BY <2>1 DEF Reading
  <2>3. Start(host, 0)
    BY DEF Start
  <2>4. SplitsAt(host, 0, W[0])
    BY <2>2, <2>3 DEF SplitsAt
  <2> QED
    BY <2>4
<1>4. ASSUME NEW k \in S PROVE k + 1 \in S
  <2>1. k \in Nat /\ k + 1 \in Nat
    OBVIOUS
  <2> SUFFICES ASSUME k + 1 <= L PROVE SplitsAt(host, k + 1, W[k + 1])
    BY Zenon, <2>1
  <2>2. k <= L /\ k \in 0 .. L /\ k + 1 \in 1 .. L /\ (k + 1) - 1 = k
    BY <1>1, <2>1
  <2>3. SplitsAt(host, k, W[k])
    BY Zenon, <2>2
  <2>4. W[k + 1] = NextByte(host, k + 1, W[k])
    BY <1>2, <2>2 DEF Reads
  <2> HIDE DEF S
  <2> QED
    BY <2>2, <2>3, <2>4, ByteReadSplits
<1>5. S = Nat
  <2> HIDE DEF S
  <2>1. S \subseteq Nat
    BY DEF S
  <2> QED
    BY <1>3, <1>4, <2>1, Induction
<1>6. L \in S /\ L <= L
  <2> HIDE DEF S
  <2> QED
    BY <1>1, <1>5
<1> QED
  BY Zenon, <1>6 DEF W

\* What a question looks like.
LEMMA QuestionBytes ==
  ASSUME NEW host, HostName(host)
  PROVE  LET q == Question(host)
             L == Len(host)
         IN  /\ q \in Seq(Nat) /\ Len(q) = L + 6
             /\ \A i \in 0 .. L : ByteInto(host, q, i)
             /\ q[L + 2] = 0 /\ q[L + 3] = 0 /\ q[L + 4] = 1 /\ q[L + 5] = 0 /\ q[L + 6] = 1
<1> DEFINE L == Len(host)
           last == Written(host)[L]
           more == last.request \o Label(last.buffer)
           tail == <<0, 0, 1, 0, 1>>
           q == more \o tail
<1>1. L \in Nat /\ L \in 0 .. L
  BY DEF HostName
<1>2. /\ more \in Seq(Nat) /\ Len(more) = L + 1
      /\ \A i \in 0 .. L : ByteInto(host, more, i)
  BY <1>1, NameSplits, LabelWritten
<1>3. Question(host) = q
  BY DEF Question
<1>4. tail \in Seq(Nat) /\ Len(tail) = 5
      /\ tail[1] = 0 /\ tail[2] = 0 /\ tail[3] = 1 /\ tail[4] = 0 /\ tail[5] = 1
  OBVIOUS
<1> HIDE DEF tail, more
<1>5. /\ q \in Seq(Nat) /\ Len(q) = L + 6
      /\ \A i \in 1 .. L + 6 : q[i] = IF i <= L + 1 THEN more[i] ELSE tail[i - (L + 1)]
  <2>1. /\ q \in Seq(Nat) /\ Len(q) = Len(more) + Len(tail)
        /\ \A i \in 1 .. Len(more) + Len(tail) :
             q[i] = IF i <= Len(more) THEN more[i] ELSE tail[i - Len(more)]
    BY <1>2, <1>4, ConcatProperties
  <2>2. Len(more) + Len(tail) = L + 6
    BY <1>1, <1>2, <1>4
  <2> QED
    BY <1>2, <2>1, <2>2
<1> HIDE DEF q
<1>6. ASSUME NEW i \in 0 .. L PROVE ByteInto(host, q, i)
  <2>1. i + 1 \in 1 .. L + 6 /\ i + 1 <= L + 1
    BY <1>1
  <2>2. q[i + 1] = more[i + 1]
    BY <1>5, <2>1
  <2> QED
    BY <1>2, <2>2 DEF ByteInto
<1>7. ASSUME NEW j \in 1 .. 5 PROVE q[(L + 1) + j] = tail[j]
  <2>1. (L + 1) + j \in 1 .. L + 6 /\ ~ ((L + 1) + j <= L + 1) /\ ((L + 1) + j) - (L + 1) = j
    BY <1>1
  <2> QED
    BY <1>5, <2>1
<1>8. /\ (L + 1) + 1 = L + 2 /\ (L + 1) + 2 = L + 3 /\ (L + 1) + 3 = L + 4
      /\ (L + 1) + 4 = L + 5 /\ (L + 1) + 5 = L + 6
  BY <1>1
<1>9. q[L + 2] = 0 /\ q[L + 3] = 0 /\ q[L + 4] = 1 /\ q[L + 5] = 0 /\ q[L + 6] = 1
  BY <1>4, <1>7, <1>8
<1> QED
  BY <1>3, <1>5, <1>6, <1>9

\* name gives the name that begins at each position.
ReadsNames(name, q) ==
  /\ DOMAIN name = DOMAIN q
  /\ \A p \in DOMAIN q : name[p] =
       IF q[p] = 0 THEN <<>>
       ELSE IF NextLabel(q, p) \in DOMAIN q
       THEN <<46>> \o SubSeq(q, p + 1, NextLabel(q, p) - 1) \o name[NextLabel(q, p)]
       ELSE <<0>>

LEMMA NameReads ==
  ASSUME NEW q \in Seq(Nat)
  PROVE  ReadsNames(Name(q), q)
<1> DEFINE n == Len(q)
           Val(f, p) == IF q[p] = 0 THEN <<>>
                        ELSE IF NextLabel(q, p) \in DOMAIN q
                        THEN <<46>> \o SubSeq(q, p + 1, NextLabel(q, p) - 1) \o f[NextLabel(q, p)]
                        ELSE <<0>>
           Up(f, d) == f = [p \in n + 1 - d .. n |-> Val(f, p)]
           S == {d \in Nat : d <= n => \E f : Up(f, d)}
<1>1. DOMAIN q = 1 .. n /\ n \in Nat /\ \A p \in 1 .. n : q[p] \in Nat
  OBVIOUS
<1> HIDE DEF n
<1>2. 0 \in S
  <2> DEFINE none == [p \in n + 1 - 0 .. n |-> <<>>]
  <2>1. Up(none, 0)
    <3>1. n + 1 - 0 .. n = {}
      BY <1>1
    <3> QED
      BY <3>1
  <2> QED
    BY <2>1
<1>3. ASSUME NEW d \in S PROVE d + 1 \in S
  <2>1. d \in Nat /\ d + 1 \in Nat
    OBVIOUS
  <2> SUFFICES ASSUME d + 1 <= n PROVE \E g : Up(g, d + 1)
    BY Zenon, <2>1
  <2>2. d <= n
    BY <1>1, <2>1
  <2>3. PICK f : Up(f, d)
    BY Zenon, <2>2
  <2> DEFINE x == n + 1 - (d + 1)
             g == [p \in x .. n |-> IF p = x THEN Val(f, x) ELSE f[p]]
  <2>4. x \in 1 .. n /\ n + 1 - d = x + 1
    BY <1>1, <2>1
  <2> HIDE DEF x, S
  <2>5. ASSUME NEW p \in x .. n, q[p] # 0, NextLabel(q, p) \in DOMAIN q
        PROVE  g[NextLabel(q, p)] = f[NextLabel(q, p)]
    <3>1. q[p] \in Nat /\ p \in Nat /\ p >= x
      BY <1>1, <2>4
    <3>2. NextLabel(q, p) \in x .. n /\ NextLabel(q, p) # x
      BY SMT, <1>1, <2>4, <2>5, <3>1 DEF NextLabel
    <3> QED
      BY <3>2
  <2>6. ASSUME NEW p \in x .. n PROVE Val(g, p) = Val(f, p)
    <3>1. CASE q[p] # 0 /\ NextLabel(q, p) \in DOMAIN q
      <4>1. g[NextLabel(q, p)] = f[NextLabel(q, p)]
        BY <2>5, <3>1
      <4>2. Val(f, p) = <<46>> \o SubSeq(q, p + 1, NextLabel(q, p) - 1) \o f[NextLabel(q, p)]
        BY <3>1
      <4>3. Val(g, p) = <<46>> \o SubSeq(q, p + 1, NextLabel(q, p) - 1) \o g[NextLabel(q, p)]
        <5> HIDE DEF g
        <5> QED
          BY <3>1
      <4> HIDE DEF g, Val
      <4> QED
        BY <4>1, <4>2, <4>3
    <3>2. CASE ~ (q[p] # 0 /\ NextLabel(q, p) \in DOMAIN q)
      BY Zenon, <3>2
    <3> QED
      BY <3>1, <3>2
  <2> HIDE DEF Val
  <2>7. ASSUME NEW p \in x .. n PROVE g[p] = Val(f, p)
    <3>1. CASE p = x
      BY <3>1
    <3>2. CASE p # x
      <4>1. p \in n + 1 - d .. n
        BY <1>1, <2>1, <2>4, <3>2
      <4>2. f[p] = Val(f, p)
        BY Zenon, <2>3, <4>1
      <4> QED
        BY <3>2, <4>2
    <3> QED
      BY <3>1, <3>2
  <2>8. g = [p \in x .. n |-> Val(g, p)]
    BY <2>6, <2>7
  <2> USE DEF x
  <2> QED
    BY Zenon, <2>8
<1>4. S = Nat
  <2> HIDE DEF S
  <2>1. S \subseteq Nat
    BY DEF S
  <2> QED
    BY <1>2, <1>3, <2>1, Induction
<1>5. PICK f : Up(f, n)
  <2> HIDE DEF S
  <2>1. n \in S /\ n <= n
    BY <1>1, <1>4
  <2> USE DEF S
  <2> QED
    BY Zenon, <2>1
<1>6. f = [p \in DOMAIN q |-> Val(f, p)]
  <2>1. n + 1 - n .. n = DOMAIN q
    BY <1>1
  <2> QED
    BY Zenon, <1>5, <2>1
<1>7. Name(q) = CHOOSE g : g = [p \in DOMAIN q |-> Val(g, p)]
  BY Zenon DEF Name
<1>8. Name(q) = [p \in DOMAIN q |-> Val(Name(q), p)]
  BY Zenon, <1>6, <1>7
<1> HIDE DEF Val
<1>9. DOMAIN Name(q) = DOMAIN q /\ \A p \in DOMAIN q : Name(q)[p] = Val(Name(q), p)
  BY <1>8
<1> QED
  BY Zenon, <1>9 DEF ReadsNames, Val

\* A label, the dot behind it and what follows are what was there.
LEMMA Splice ==
  ASSUME NEW host \in Seq(Nat), NEW a \in 1 .. Len(host), NEW c \in a .. Len(host), host[c] = 46
  PROVE  SubSeq(host, a, c - 1) \o (<<46>> \o SubSeq(host, c + 1, Len(host)))
           = SubSeq(host, a, Len(host))
<1> DEFINE L == Len(host)
<1>1. L \in Nat /\ a \in 1 .. L + 1 /\ c - 1 \in a - 1 .. L /\ L \in c - 1 .. L
      /\ (c - 1) + 1 = c /\ c \in 1 .. L /\ L \in c .. L
  OBVIOUS
<1> HIDE DEF L
<1>2. <<46>> \o SubSeq(host, c + 1, L) = SubSeq(host, c, L)
  BY <1>1, SubSeqRecursiveFirst DEF L
<1>3. SubSeq(host, a, c - 1) \o SubSeq(host, (c - 1) + 1, L) = SubSeq(host, a, L)
  BY <1>1, ConcatAdjacentSubSeq DEF L
<1> QED
  BY <1>1, <1>2, <1>3 DEF L

LEMMA DotRemoved ==
  ASSUME NEW host \in Seq(Nat)
  PROVE  Tail(<<46>> \o host) = host
<1> DEFINE L == Len(host)
           s == <<46>> \o host
<1>1. L \in Nat /\ s \in Seq(Nat) /\ Len(s) = 1 + L /\ s # <<>>
      /\ \A i \in 1 .. L : s[i + 1] = host[i]
  OBVIOUS
<1> HIDE DEF s, L
<1>2. Tail(s) \in Seq(Nat) /\ Len(Tail(s)) = L /\ \A i \in 1 .. L : Tail(s)[i] = s[i + 1]
  BY <1>1, HeadTailProperties
<1>3. Tail(s) = host
  BY <1>1, <1>2, SeqEqual DEF L
<1> QED
  BY <1>3 DEF s

LEMMA SamePart ==
  ASSUME NEW q \in Seq(Nat), NEW host \in Seq(Nat), NEW k \in Nat, NEW l \in Nat, l >= 1,
         k + l <= Len(host), k + l + 1 <= Len(q), \A i \in 1 .. l : q[k + 1 + i] = host[k + i]
  PROVE  SubSeq(q, k + 2, k + l + 1) = SubSeq(host, k + 1, k + l)
<1>1. \A i \in k + 2 .. k + l + 1 : q[i] \in Nat
  OBVIOUS
<1>2. \A i \in k + 1 .. k + l : host[i] \in Nat
  OBVIOUS
<1>3. /\ k + 2 \in Int /\ k + l + 1 \in Int /\ k + 1 \in Int /\ k + l \in Int
      /\ (k + l + 1) - (k + 2) + 1 = l /\ (k + l) - (k + 1) + 1 = l
      /\ k + 2 <= k + l + 1 /\ k + 1 <= k + l
      /\ \A i \in 1 .. l : k + 2 + i - 1 = k + 1 + i /\ k + 1 + i - 1 = k + i
  OBVIOUS
<1> DEFINE x == SubSeq(q, k + 2, k + l + 1)
           y == SubSeq(host, k + 1, k + l)
<1>4. x \in Seq(Nat) /\ Len(x) = l /\ \A i \in 1 .. l : x[i] = q[k + 2 + i - 1]
  <2>1. /\ x \in Seq(Nat)
        /\ Len(x) = IF k + 2 <= k + l + 1 THEN (k + l + 1) - (k + 2) + 1 ELSE 0
        /\ \A i \in 1 .. (k + l + 1) - (k + 2) + 1 : x[i] = q[k + 2 + i - 1]
    BY <1>1, <1>3, SubSeqProperties
  <2> HIDE DEF x
  <2> QED
    BY <1>3, <2>1
<1>5. y \in Seq(Nat) /\ Len(y) = l /\ \A i \in 1 .. l : y[i] = host[k + 1 + i - 1]
  <2>1. /\ y \in Seq(Nat)
        /\ Len(y) = IF k + 1 <= k + l THEN (k + l) - (k + 1) + 1 ELSE 0
        /\ \A i \in 1 .. (k + l) - (k + 1) + 1 : y[i] = host[k + 1 + i - 1]
    BY <1>2, <1>3, SubSeqProperties
  <2> HIDE DEF y
  <2> QED
    BY <1>3, <2>1
<1> HIDE DEF x, y
<1>6. \A i \in 1 .. l : x[i] = y[i]
  BY <1>3, <1>4, <1>5
<1>7. x = y
  BY <1>4, <1>5, <1>6, SeqEqual
<1> QED
  BY <1>7 DEF x, y

\* The label after byte k, read back.
LEMMA LabelReadsBack ==
  ASSUME NEW host, HostName(host), NEW q \in Seq(Nat), NEW k \in 0 .. Len(host) - 1,
         Len(q) = Len(host) + 6, \A i \in 0 .. Len(host) : ByteInto(host, q, i),
         Start(host, k)
  PROVE  LET l == q[k + 1] IN
         /\ LabelLength(host, k, l)
         /\ NextLabel(q, k + 1) = k + l + 2 /\ k + l + 2 \in DOMAIN q
         /\ SubSeq(q, k + 2, k + l + 1) = SubSeq(host, k + 1, k + l)
<1> DEFINE L == Len(host)
           l == q[k + 1]
<1>1. host \in Seq(Nat) /\ L \in Nat /\ k \in Nat /\ k \in 0 .. L /\ DOMAIN q = 1 .. L + 6
  BY SMT DEF HostName
<1>2. ByteInto(host, q, k)
  BY <1>1
<1>3. LabelLength(host, k, l)
  BY <1>2 DEF ByteInto
<1>4. l \in Nat /\ l >= 1 /\ k + l <= L /\ \A j \in k + 1 .. k + l : host[j] # 46
  <2> HIDE DEF l
  <2>1. l \in 1 .. 253 /\ k + l <= L /\ \A j \in k + 1 .. k + l : host[j] # 46
    BY Zenon, <1>3 DEF LabelLength
  <2> HIDE DEF L
  <2> QED
    BY <2>1
<1>5. NextLabel(q, k + 1) = k + 1 + l + 1
  BY DEF NextLabel
<1> HIDE DEF l
<1>8. NextLabel(q, k + 1) = k + l + 2 /\ k + l + 2 \in DOMAIN q
  BY <1>1, <1>4, <1>5
<1>6. ASSUME NEW i \in 1 .. l PROVE q[k + 1 + i] = host[k + i]
  <2>1. k + i \in k + 1 .. k + l /\ k + i \in 0 .. L /\ k + i # 0 /\ (k + i) + 1 = k + 1 + i
    BY SMT, <1>1, <1>4
  <2>2. ByteInto(host, q, k + i) /\ host[k + i] # 46
    BY <1>4, <2>1
  <2> QED
    BY <2>1, <2>2 DEF ByteInto, Start
<1>7. SubSeq(q, k + 2, k + l + 1) = SubSeq(host, k + 1, k + l)
  <2>1. k + l + 1 <= Len(q)
    BY <1>1, <1>4
  <2> QED
    BY <1>1, <1>4, <1>6, <2>1, SamePart
<1> QED
  BY <1>3, <1>7, <1>8 DEF l

\* A name server that reads a question finds the name that was asked for
\* (inf22-2/main.c:77-116).
THEOREM QuestionReadsBack ==
  ASSUME NEW host, HostName(host)
  PROVE  Parse(Question(host)) = host
<1> DEFINE q == Question(host)
           L == Len(host)
           name == Name(q)
           Rest(k) == <<46>> \o SubSeq(host, k + 1, L)
           S == {d \in Nat : \A k \in 0 .. L - 1 :
                               Start(host, k) /\ L - k <= d => name[k + 1] = Rest(k)}
<1>1. host \in Seq(Nat) /\ L \in Nat /\ L >= 1 /\ host[L] # 46
  <2>1. host \in Seq(Nat) /\ L \in 1 .. 253 /\ host[L] # 46
    BY Zenon DEF HostName
  <2> HIDE DEF L
  <2> QED
    BY <2>1
<1>2. /\ q \in Seq(Nat) /\ Len(q) = L + 6
      /\ \A i \in 0 .. L : ByteInto(host, q, i)
      /\ q[L + 2] = 0 /\ q[L + 3] = 0 /\ q[L + 4] = 1 /\ q[L + 5] = 0 /\ q[L + 6] = 1
  BY QuestionBytes
<1> HIDE DEF q
<1>3. ReadsNames(name, q)
  BY <1>2, NameReads
<1>4. DOMAIN q = 1 .. L + 6
  BY <1>2
<1> HIDE DEF name, L
<1>5. 0 \in S
  <2>1. \A k \in 0 .. L - 1 : ~ (L - k <= 0)
    BY <1>1
  <2> QED
    BY <2>1
<1>6. ASSUME NEW d \in S PROVE d + 1 \in S
  <2>1. d \in Nat /\ d + 1 \in Nat
    OBVIOUS
  <2> SUFFICES ASSUME NEW k \in 0 .. L - 1, Start(host, k), L - k <= d + 1
               PROVE  name[k + 1] = Rest(k)
    BY Zenon, <2>1
  <2> DEFINE l == q[k + 1]
             label == SubSeq(host, k + 1, k + l)
  <2>2. /\ LabelLength(host, k, l)
        /\ NextLabel(q, k + 1) = k + l + 2 /\ k + l + 2 \in DOMAIN q
        /\ SubSeq(q, k + 2, k + l + 1) = label
    BY <1>2, LabelReadsBack DEF L
  <2>3. k \in Nat /\ k + 1 \in DOMAIN q /\ k + 1 \in 1 .. L
    BY <1>1, <1>4
  <2>4. l \in Nat /\ l >= 1 /\ l # 0 /\ k + l <= L /\ (k + l = L \/ host[k + l + 1] = 46)
    <3>1. l \in 1 .. 253 /\ k + l <= L /\ (k + l = L \/ host[k + l + 1] = 46)
      BY Zenon, <2>2 DEF LabelLength, L
    <3> HIDE DEF l
    <3> QED
      BY <3>1
  <2>5. name[k + 1] = <<46>> \o SubSeq(q, k + 1 + 1, NextLabel(q, k + 1) - 1)
                            \o name[NextLabel(q, k + 1)]
    BY Zenon, <1>3, <2>2, <2>3, <2>4 DEF ReadsNames
  <2> HIDE DEF l
  <2>6. k + 1 + 1 = k + 2 /\ (k + l + 2) - 1 = k + l + 1
    BY <2>3, <2>4
  <2>7. name[k + 1] = <<46>> \o label \o name[k + l + 2]
    BY <2>2, <2>5, <2>6
  <2>8. label \in Seq(Nat) /\ <<46>> \in Seq(Nat)
    <3>1. \A i \in k + 1 .. k + l : host[i] \in Nat
      BY <1>1, <2>3, <2>4 DEF L
    <3>2. k + 1 \in Int /\ k + l \in Int
      BY <2>3, <2>4
    <3> QED
      BY <3>1, <3>2, SubSeqProperties
  <2>9. CASE k + l = L
    <3>1. k + l + 2 = L + 2 /\ L + 2 \in DOMAIN q
      BY <1>1, <1>4, <2>9
    <3>2. name[L + 2] = <<>>
      BY <1>2, <1>3, <3>1 DEF ReadsNames
    <3>3. label = SubSeq(host, k + 1, L)
      BY <2>9
    <3> HIDE DEF label
    <3>4. (<<46>> \o label) \o <<>> = <<46>> \o label
      BY <2>8, ConcatProperties, ConcatEmptySeq
    <3> QED
      BY <2>7, <3>1, <3>2, <3>3, <3>4
  <2>10. CASE k + l # L
    <3> DEFINE c == k + l + 1
    <3>1. host[c] = 46
      BY <2>4, <2>10
    <3>2. c \in k + 1 .. L /\ c - 1 = k + l /\ c + 1 = k + l + 2 /\ c \in 0 .. L
      BY <1>1, <2>3, <2>4, <2>10
    <3>3. c # L
      BY <1>1, <3>1
    <3>4. c \in 0 .. L - 1 /\ L - c <= d
      BY <1>1, <2>1, <2>3, <2>4, <3>2, <3>3
    <3>5. Start(host, c)
      BY <3>1 DEF Start
    <3>6. name[c + 1] = Rest(c)
      BY Zenon, <3>4, <3>5
    <3>7. label \o (<<46>> \o SubSeq(host, c + 1, L)) = SubSeq(host, k + 1, L)
      <4>1. L = Len(host) /\ k + 1 \in 1 .. L
        BY <2>3 DEF L
      <4>2. label = SubSeq(host, k + 1, c - 1)
        BY Zenon, <3>2
      <4> HIDE DEF label, c
      <4> QED
        BY Zenon, <1>1, <3>1, <3>2, <4>1, <4>2, Splice
    <3>8. SubSeq(host, c + 1, L) \in Seq(Nat)
      <4>1. \A i \in c + 1 .. L : host[i] \in Nat
        <5>1. \A i \in c + 1 .. L : i \in 1 .. L
          BY <1>1, <3>2
        <5> QED
          BY Zenon, <1>1, <5>1, ElementOfSeq DEF L
      <4>2. c + 1 \in Int /\ L \in Int
        BY <1>1, <3>2
      <4> QED
        BY <4>1, <4>2, SubSeqProperties
    <3>9. Rest(c) \in Seq(Nat)
      <4> HIDE DEF c
      <4> QED
        BY <2>8, <3>8, ConcatProperties
    <3> HIDE DEF label, c, Rest
    <3>10. (<<46>> \o label) \o Rest(c) = <<46>> \o (label \o Rest(c))
      BY <2>8, <3>9, ConcatAssociative
    <3> QED
      BY <2>7, <3>2, <3>6, <3>7, <3>10 DEF Rest
  <2> QED
    BY <2>9, <2>10
<1>7. S = Nat
  <2> HIDE DEF S
  <2>1. S \subseteq Nat
    BY DEF S
  <2> QED
    BY <1>5, <1>6, <2>1, Induction
<1>8. name[1] = <<46>> \o host
  <2>1. 0 \in 0 .. L - 1 /\ L - 0 <= L /\ 0 + 1 = 1
    BY <1>1
  <2>2. L \in S
    <3> HIDE DEF S
    <3> QED
      BY <1>1, <1>7
  <2>3. Start(host, 0)
    BY DEF Start
  <2>4. name[1] = Rest(0)
    BY Zenon, <2>1, <2>2, <2>3
  <2>5. SubSeq(host, 1, L) = host
    BY <1>1, SubSeqFull DEF L
  <2> QED
    BY <2>1, <2>4, <2>5
<1>9. Tail(<<46>> \o host) = host
  BY Zenon, <1>1, DotRemoved
<1>10. IsSuffix(<<0, 0, 1, 0, 1>>, q)
  BY <1>1, <1>2 DEF IsSuffix, IsPrefix, Reverse
<1> QED
  BY <1>8, <1>9, <1>10 DEF Parse, name, q

-----------------------------------------------------------------------------
(* The inductive invariant.                                                *)

Waiting == IF at = "waiting" THEN 1 ELSE 0

TypeInv ==
  /\ kind \in {"number", "ping", "dns"} /\ pid \in Word
  /\ kind # "ping" => input \in Seq(Seq(Nat)) /\ sent <= Len(input)
  /\ kind = "dns" => \A i \in DOMAIN input : HostName(input[i])
  /\ at \in {"ready", "waiting", "ended"}
  /\ sent \in Nat /\ (at = "waiting" => sent >= 1)
  /\ inbox \in Seq(Seq(Nat)) /\ printed \in Seq(Seq(Nat))
  /\ kind # "ping" => Len(printed) = sent - Waiting
  /\ msg_received_count \in Nat /\ msg_received_count <= sent - Waiting
  /\ IsFiniteSet(replies)
  /\ answered \subseteq 1 .. sent
  /\ extras \in 0 .. MaxExtras /\ lost \in BOOLEAN

\* A datagram under way with number n.
Datagram(m) == m = [n |-> m.n, body |-> m.body] /\ m.n \in 1 .. sent /\ m.body \in Seq(Nat)

\* What is under way is a request that its receiver accepts, or an answer to it.
BodyInv ==
  /\ \A m \in requests : Datagram(m) /\ Understood(m)
  /\ \A m \in replies : Datagram(m) /\ (kind # "ping" => m.body = input[m.n])

\* What arrives and what is printed answers something that has been asked.
AskedInv == kind # "ping" =>
  /\ \A i \in DOMAIN inbox : inbox[i] = Alien \/ \E j \in 1 .. sent : inbox[i] = input[j]
  /\ \A i \in DOMAIN printed : printed[i] = Alien \/ \E j \in 1 .. i : printed[i] = input[j]

Single(S) == \A m1, m2 \in S : m1 = m2

\* Without duplicates there is one datagram of a client at most, and none when
\* it does not wait for one.
CalmInv == kind # "ping" /\ extras = 0 =>
  /\ \A i \in DOMAIN printed : printed[i] = input[i]
  /\ \/ requests = {} /\ replies = {} /\ inbox = <<>>
     \/ /\ at = "waiting" /\ inbox = <<>> /\ replies = {}
        /\ Single(requests) /\ \A m \in requests : m.n = sent
     \/ /\ at = "waiting" /\ inbox = <<>> /\ requests = {}
        /\ Single(replies) /\ \A m \in replies : m.n = sent
     \/ at = "waiting" /\ inbox = <<input[sent]>> /\ requests = {} /\ replies = {}

\* The first receive has happened, which counts in any case.
Bonus == IF sent = 0 \/ (sent = 1 /\ at = "waiting") THEN 0 ELSE 1

\* Without duplicates each answered request is counted once or can be yet.
CountInv == kind = "ping" /\ extras = 0 =>
  /\ \A m1, m2 \in requests : m1.n = m2.n => m1 = m2
  /\ \A m \in requests : m.n \notin answered
  /\ msg_received_count + Len(inbox) + Cardinality(replies) <= Cardinality(answered) + Bonus

IInv == TypeInv /\ BodyInv /\ AskedInv /\ CalmInv /\ CountInv

LEMMA UnderstoodCases ==
  ASSUME NEW m
  PROVE  /\ kind = "number" => (Understood(m) <=> m.body = input[m.n])
         /\ kind = "ping" => (Understood(m) <=> Verifies(SumOf(m.body)))
         /\ kind = "dns" => (Understood(m) <=> Parse(m.body) = input[m.n])
<1>1. CASE kind = "number"
  BY Zenon, <1>1 DEF Understood
<1>2. CASE kind = "ping"
  BY Zenon, <1>2 DEF Understood
<1>3. CASE kind = "dns"
  BY Zenon, <1>3 DEF Understood
<1> QED
  BY <1>1, <1>2, <1>3

LEMMA RequestCases ==
  /\ kind = "number" => Request = input[sent + 1]
  /\ kind = "ping" => Request = Packet(sent % 65536)
  /\ kind = "dns" => Request = Question(input[sent + 1])
<1> DEFINE packet == Packet(sent % 65536)
           question == Question(input[sent + 1])
<1>1. Request = CASE kind = "number" -> input[sent + 1]
                  [] kind = "ping"   -> packet
                  [] kind = "dns"    -> question
  BY DEF Request
<1> HIDE DEF packet, question
<1>2. ASSUME kind = "number" PROVE Request = input[sent + 1]
  BY Zenon, <1>1, <1>2
<1>3. ASSUME kind = "ping" PROVE Request = packet
  BY Zenon, <1>1, <1>3
<1>4. ASSUME kind = "dns" PROVE Request = question
  BY Zenon, <1>1, <1>4
<1> QED
  BY <1>2, <1>3, <1>4 DEF packet, question

\* An echo request is made of numbers.
LEMMA PacketNumbers ==
  ASSUME pid \in Word, NEW sequence \in Word
  PROVE  Packet(sequence) \in Seq(Nat)
<1> SUFFICES ASSUME NEW id \in Word, pid = id
             PROVE  Packet(sequence) \in Seq(Nat)
  OBVIOUS
<1> DEFINE header == <<8, 0, id, sequence>>
           bare == header \o msg
<1>1. header \in Seq(Nat) /\ msg \in Seq(Nat) /\ msg \in Seq(Word)
  BY MessageWords DEF Word
<1>2. bare \in Seq(Nat) /\ bare \in Seq(Word)
  <2>1. header \in Seq(Word)
    BY DEF Word
  <2> HIDE DEF header
  <2> QED
    BY <1>1, <2>1, ConcatProperties
<1>3. Packet(sequence) = [bare EXCEPT ![2] = checksum(SumOf(bare))]
  BY DEF Packet
<1>4. Len(bare) \in 2 .. 32
  <2> HIDE DEF header
  <2>1. Len(header) = 4
    BY DEF header
  <2>2. Len(bare) = Len(header) + Len(msg)
    BY <1>1, ConcatProperties
  <2>3. Len(msg) = 28
    BY MessageWords
  <2> QED
    BY <2>1, <2>2, <2>3
<1> HIDE DEF bare
<1>5. checksum(SumOf(bare)) \in Word
  BY <1>2, <1>4, ChecksumFieldAccepted
<1>6. checksum(SumOf(bare)) \in Nat
  BY <1>5 DEF Word
<1>7. 2 \in 1 .. Len(bare)
  <2>1. \A length \in 2 .. 32 : 2 \in 1 .. length
    OBVIOUS
  <2> QED
    BY Zenon, <1>4, <2>1
<1>8. [bare EXCEPT ![2] = checksum(SumOf(bare))] \in Seq(Nat)
  BY <1>2, <1>6, <1>7, ExceptSeq
<1> QED
  BY <1>3, <1>8

LEMMA RequestUnderstood ==
  ASSUME TypeInv, kind # "ping" => sent < Len(input)
  PROVE  LET m == [n |-> sent + 1, body |-> Request] IN
         Understood(m) /\ Request \in Seq(Nat)
<1> DEFINE m == [n |-> sent + 1, body |-> Request]
<1>1. m.n = sent + 1 /\ m.body = Request
  OBVIOUS
<1> HIDE DEF m
<1>2. sent \in Nat /\ kind \in {"number", "ping", "dns"} /\ pid \in Word
  BY DEF TypeInv
<1>3. kind # "ping" => input \in Seq(Seq(Nat)) /\ sent + 1 \in DOMAIN input
                       /\ input[sent + 1] \in Seq(Nat)
  BY <1>2 DEF TypeInv
<1>4. CASE kind = "number"
  BY <1>1, <1>3, <1>4, RequestCases, UnderstoodCases DEF m
<1>5. CASE kind = "ping"
  <2>1. sent % 65536 \in Word
    BY <1>2 DEF Word
  <2> QED
    BY <1>1, <1>2, <1>5, <2>1, RequestCases, UnderstoodCases, PacketAccepted, PacketNumbers DEF m
<1>6. CASE kind = "dns"
  <2>1. HostName(input[sent + 1])
    BY <1>3, <1>6 DEF TypeInv
  <2>2. Question(input[sent + 1]) \in Seq(Nat)
    BY <2>1, QuestionBytes
  <2>3. Parse(Question(input[sent + 1])) = input[sent + 1]
    BY <2>1, QuestionReadsBack
  <2> QED
    BY <1>1, <1>6, <2>2, <2>3, RequestCases, UnderstoodCases DEF m
<1> QED
  BY <1>2, <1>4, <1>5, <1>6

LEMMA SameUnderstanding ==
  ASSUME NEW m, UNCHANGED <<kind, input>>
  PROVE  Understood(m)' <=> Understood(m)
  BY Zenon DEF Understood

\* What is under way stays what it is while requests are only added to.
LEMMA SameDatagram ==
  ASSUME NEW m, Datagram(m), sent \in Nat, sent' \in {sent, sent + 1}
  PROVE  Datagram(m)'
<1>1. m = [n |-> m.n, body |-> m.body] /\ m.n \in 1 .. sent /\ m.body \in Seq(Nat)
  BY DEF Datagram
<1>2. m.n \in 1 .. sent'
  BY <1>1
<1> QED
  BY <1>1, <1>2 DEF Datagram

\* Steps after which there is nothing under way that was not before.
LEMMA BodyKept ==
  ASSUME TypeInv, BodyInv, UNCHANGED <<kind, input, sent>>,
         requests' \subseteq requests, replies' \subseteq replies
  PROVE  BodyInv'
<1>1. sent \in Nat /\ sent' \in {sent, sent + 1}
  BY DEF TypeInv
<1>2. ASSUME NEW m \in requests' PROVE Datagram(m)' /\ Understood(m)'
  <2>1. Datagram(m) /\ Understood(m)
    BY DEF BodyInv
  <2> QED
    BY <1>1, <2>1, SameDatagram, SameUnderstanding
<1>3. ASSUME NEW m \in replies' PROVE Datagram(m)' /\ (kind' # "ping" => m.body = input'[m.n])
  <2>1. Datagram(m) /\ (kind # "ping" => m.body = input[m.n])
    BY DEF BodyInv
  <2> QED
    BY <1>1, <2>1, SameDatagram
<1> QED
  BY <1>2, <1>3 DEF BodyInv

LEMMA SendStep ==
  ASSUME IInv, Send
  PROVE  IInv'
<1>0. PICK m0 : m0 = [n |-> sent + 1, body |-> Request]
  OBVIOUS
<1>1. /\ at = "ready" /\ (kind # "ping" => sent < Len(input))
      /\ requests' = requests \cup {m0} /\ sent' = sent + 1 /\ at' = "waiting"
      /\ UNCHANGED <<kind, input, pid, printed, msg_received_count,
                     replies, inbox, answered, lost, extras>>
  BY <1>0 DEF Send
<1>2. TypeInv /\ BodyInv /\ AskedInv /\ CalmInv /\ CountInv /\ sent \in Nat
  BY DEF IInv, TypeInv
<1>3. Understood(m0) /\ m0.body \in Seq(Nat) /\ m0.n = sent + 1
  BY <1>0, <1>1, <1>2, RequestUnderstood
<1>4. Datagram(m0)'
  <2>1. m0 = [n |-> m0.n, body |-> m0.body] /\ m0.n \in 1 .. sent + 1
    BY <1>0, <1>2
  <2> QED
    BY <1>1, <1>3, <2>1 DEF Datagram
<1>5. Waiting = 0 /\ Waiting' = 1
  BY <1>1 DEF Waiting
<1>6. TypeInv'
  BY <1>1, <1>2, <1>5 DEF TypeInv
<1>7. BodyInv'
  <2>1. ASSUME NEW m \in requests' PROVE Datagram(m)' /\ Understood(m)'
    <3>1. CASE m = m0
      BY <1>1, <1>3, <1>4, <3>1, SameUnderstanding
    <3>2. CASE m \in requests
      <4>1. Datagram(m) /\ Understood(m)
        BY <1>2, <3>2 DEF BodyInv
      <4> QED
        BY <1>1, <1>2, <4>1, SameDatagram, SameUnderstanding
    <3> QED
      BY <1>1, <3>1, <3>2
  <2>2. ASSUME NEW m \in replies' PROVE Datagram(m)' /\ (kind' # "ping" => m.body = input'[m.n])
    <3>1. Datagram(m) /\ (kind # "ping" => m.body = input[m.n])
      BY <1>1, <1>2 DEF BodyInv
    <3> QED
      BY <1>1, <1>2, <3>1, SameDatagram
  <2> QED
    BY <2>1, <2>2 DEF BodyInv
<1>8. AskedInv'
  BY <1>1, <1>2 DEF AskedInv
<1>9. CalmInv'
  <2> SUFFICES ASSUME kind # "ping", extras = 0
               PROVE  /\ \A i \in DOMAIN printed : printed[i] = input[i]
                      /\ at' = "waiting" /\ inbox' = <<>> /\ replies' = {}
                      /\ Single(requests') /\ \A m \in requests' : m.n = sent'
    BY Zenon, <1>1 DEF CalmInv
  <2>1. requests = {} /\ replies = {} /\ inbox = <<>>
        /\ \A i \in DOMAIN printed : printed[i] = input[i]
    BY <1>1, <1>2 DEF CalmInv
  <2> QED
    BY <1>1, <1>3, <2>1 DEF Single
<1>10. CountInv'
  <2> SUFFICES ASSUME kind = "ping", extras = 0 PROVE CountInv'
    BY <1>1 DEF CountInv
  <2>1. /\ \A m1, m2 \in requests : m1.n = m2.n => m1 = m2
        /\ \A m \in requests : m.n \notin answered
        /\ msg_received_count + Len(inbox) + Cardinality(replies) <= Cardinality(answered) + Bonus
    BY <1>2 DEF CountInv
  <2>2. sent + 1 \notin answered
    BY <1>2 DEF TypeInv
  <2>3. \A m \in requests : m.n # sent + 1
    BY <1>2 DEF BodyInv, Datagram
  <2>4. Bonus' = Bonus
    BY <1>1, <1>2 DEF Bonus
  <2>5. \A m1, m2 \in requests' : m1.n = m2.n => m1 = m2
    BY <1>1, <1>3, <2>1, <2>3
  <2>6. \A m \in requests' : m.n \notin answered
    BY <1>1, <1>3, <2>1, <2>2
  <2> QED
    BY Zenon, <1>1, <2>1, <2>4, <2>5, <2>6 DEF CountInv
<1> QED
  BY <1>6, <1>7, <1>8, <1>9, <1>10 DEF IInv

LEMMA Sizes ==
  ASSUME TypeInv
  PROVE  /\ IsFiniteSet(replies) /\ IsFiniteSet(answered)
         /\ Cardinality(replies) \in Nat /\ Cardinality(answered) \in Nat
         /\ Len(inbox) \in Nat /\ msg_received_count \in Nat
<1>1. IsFiniteSet(1 .. sent) /\ answered \in SUBSET (1 .. sent) /\ IsFiniteSet(replies)
  BY FS_Interval DEF TypeInv
<1>2. IsFiniteSet(answered)
  BY Zenon, <1>1, FS_Subset
<1>3. Len(inbox) \in Nat /\ msg_received_count \in Nat
  BY DEF TypeInv
<1> QED
  BY Zenon, <1>1, <1>2, <1>3, FS_CardinalityType

LEMMA InboxTail ==
  ASSUME TypeInv, inbox # <<>>
  PROVE  /\ Head(inbox) \in Seq(Nat) /\ Head(inbox) = inbox[1] /\ 1 \in DOMAIN inbox
         /\ Tail(inbox) \in Seq(Seq(Nat)) /\ Len(Tail(inbox)) = Len(inbox) - 1
         /\ \A i \in DOMAIN Tail(inbox) : i + 1 \in DOMAIN inbox /\ Tail(inbox)[i] = inbox[i + 1]
BY DEF TypeInv

LEMMA InputNumbers ==
  ASSUME TypeInv, kind # "ping", NEW n \in 1 .. sent
  PROVE  input[n] \in Seq(Nat)
BY DEF TypeInv

LEMMA ReceiveStep ==
  ASSUME IInv, Receive
  PROVE  IInv'
<1>1. /\ at = "waiting" /\ at' = "ready" /\ inbox # <<>> /\ inbox' = Tail(inbox)
      /\ printed' = IF kind = "ping" THEN printed ELSE Append(printed, Head(inbox))
      /\ msg_received_count' = msg_received_count + (IF kind = "ping" THEN 1 ELSE 0)
      /\ UNCHANGED <<kind, input, pid, sent, requests, replies, answered, lost, extras>>
  BY DEF Receive, Count, Counted
<1>2. TypeInv /\ BodyInv /\ AskedInv /\ CalmInv /\ CountInv /\ sent \in Nat /\ sent >= 1
  BY <1>1 DEF IInv, TypeInv
<1>3. Waiting = 1 /\ Waiting' = 0
  BY <1>1 DEF Waiting
<1>4. /\ Head(inbox) \in Seq(Nat) /\ Head(inbox) = inbox[1] /\ 1 \in DOMAIN inbox
      /\ Tail(inbox) \in Seq(Seq(Nat)) /\ Len(Tail(inbox)) = Len(inbox) - 1
      /\ \A i \in DOMAIN Tail(inbox) : i + 1 \in DOMAIN inbox /\ Tail(inbox)[i] = inbox[i + 1]
  BY <1>1, <1>2, InboxTail
<1>5. TypeInv'
  <2>1. printed' \in Seq(Seq(Nat)) /\ (kind # "ping" => Len(printed') = sent)
    BY <1>1, <1>2, <1>3, <1>4 DEF TypeInv
  <2>2. msg_received_count' \in Nat /\ msg_received_count' <= sent
    BY <1>1, <1>2, <1>3 DEF TypeInv
  <2> QED
    BY <1>1, <1>2, <1>3, <1>4, <2>1, <2>2 DEF TypeInv
<1>6. BodyInv'
  BY <1>1, <1>2, BodyKept
<1>7. ASSUME kind # "ping"
      PROVE  /\ Len(printed) = sent - 1 /\ DOMAIN printed' = 1 .. sent
             /\ printed'[sent] = inbox[1]
             /\ \A i \in 1 .. sent - 1 : i \in DOMAIN printed /\ printed'[i] = printed[i]
  BY <1>1, <1>2, <1>3, <1>4, <1>7 DEF TypeInv
<1>8. AskedInv'
  <2> SUFFICES ASSUME kind # "ping"
               PROVE  /\ \A i \in DOMAIN inbox' : inbox'[i] = Alien \/ \E j \in 1 .. sent : inbox'[i] = input[j]
                      /\ \A i \in DOMAIN printed' : printed'[i] = Alien \/ \E j \in 1 .. i : printed'[i] = input[j]
    BY <1>1 DEF AskedInv
  <2>1. /\ \A i \in DOMAIN inbox : inbox[i] = Alien \/ \E j \in 1 .. sent : inbox[i] = input[j]
        /\ \A i \in DOMAIN printed : printed[i] = Alien \/ \E j \in 1 .. i : printed[i] = input[j]
    BY <1>2 DEF AskedInv
  <2>2. ASSUME NEW i \in DOMAIN inbox'
        PROVE  inbox'[i] = Alien \/ \E j \in 1 .. sent : inbox'[i] = input[j]
    <3>1. i + 1 \in DOMAIN inbox /\ inbox'[i] = inbox[i + 1]
      BY Zenon, <1>1, <1>4
    <3>2. inbox[i + 1] = Alien \/ \E j \in 1 .. sent : inbox[i + 1] = input[j]
      BY Zenon, <2>1, <3>1
    <3> QED
      BY Zenon, <3>1, <3>2
  <2>3. ASSUME NEW i \in DOMAIN printed'
        PROVE  printed'[i] = Alien \/ \E j \in 1 .. i : printed'[i] = input[j]
    <3>1. CASE i = sent
      BY <1>4, <1>7, <2>1, <3>1
    <3>2. CASE i \in 1 .. sent - 1
      BY <1>7, <2>1, <3>2
    <3> QED
      BY <1>2, <1>7, <3>1, <3>2
  <2> QED
    BY <2>2, <2>3
<1>9. CalmInv'
  <2> SUFFICES ASSUME kind # "ping", extras = 0
               PROVE  /\ \A i \in DOMAIN printed' : printed'[i] = input[i]
                      /\ requests' = {} /\ replies' = {} /\ inbox' = <<>>
    BY <1>1 DEF CalmInv
  <2>1. /\ inbox = <<input[sent]>> /\ requests = {} /\ replies = {}
        /\ \A i \in DOMAIN printed : printed[i] = input[i]
    BY <1>1, <1>2 DEF CalmInv
  <2>2. inbox' = <<>> /\ inbox[1] = input[sent]
    BY <1>1, <2>1
  <2> QED
    BY <1>1, <1>2, <1>7, <2>1, <2>2
<1>10. CountInv'
  <2> SUFFICES ASSUME kind = "ping", extras = 0 PROVE CountInv'
    BY <1>1 DEF CountInv
  <2>1. /\ \A m1, m2 \in requests : m1.n = m2.n => m1 = m2
        /\ \A m \in requests : m.n \notin answered
        /\ msg_received_count + Len(inbox) + Cardinality(replies) <= Cardinality(answered) + Bonus
    BY <1>2 DEF CountInv
  <2>2. /\ Cardinality(replies) \in Nat /\ Cardinality(answered) \in Nat
        /\ Len(inbox) \in Nat /\ msg_received_count \in Nat
    BY <1>2, Sizes
  <2>3. Bonus <= Bonus' /\ Bonus \in Nat /\ Bonus' \in Nat
    BY <1>1, <1>2 DEF Bonus
  <2>4. msg_received_count' + Len(inbox') + Cardinality(replies) <= Cardinality(answered) + Bonus'
    BY <1>1, <1>4, <2>1, <2>2, <2>3
  <2> QED
    BY Zenon, <1>1, <2>1, <2>4 DEF CountInv
<1> QED
  BY <1>5, <1>6, <1>8, <1>9, <1>10 DEF IInv

\* A sum that stays below its bound when a part grows no more than the bound does.
LEMMA StillEnough ==
  ASSUME NEW m1 \in Nat, NEW m2 \in Nat, NEW i \in Nat, NEW r \in Nat,
         NEW a \in Nat, NEW b1 \in Nat, NEW b2 \in Nat,
         m1 + i + r <= a + b1, m2 + b1 <= m1 + b2
  PROVE  m2 + i + r <= a + b2
BY SMT

\* Steps of the client that neither send nor receive.
LEMMA ClientRests ==
  ASSUME IInv, Timeout \/ End
  PROVE  IInv'
<1>1. /\ at \in {"ready", "waiting"} /\ at' \in {"ready", "ended"}
      /\ at = "waiting" => kind = "ping"
      /\ UNCHANGED <<kind, input, pid, sent, printed, requests, replies, inbox, answered, lost, extras>>
  BY DEF Timeout, End, HasTimeout
<1>2. TypeInv /\ BodyInv /\ AskedInv /\ CalmInv /\ CountInv /\ sent \in Nat
  BY DEF IInv, TypeInv
<1>3. /\ msg_received_count' \in Nat /\ msg_received_count' <= sent
      /\ msg_received_count' + Bonus <= msg_received_count + Bonus'
      /\ Bonus \in Nat /\ Bonus' \in Nat
  <2>1. CASE Timeout
    <3>1. at = "waiting" /\ at' = "ready"
          /\ msg_received_count' = msg_received_count + (IF sent <= 1 THEN 1 ELSE 0)
      BY <2>1 DEF Timeout, HasTimeout, Count, Counted
    <3>2. sent >= 1 /\ msg_received_count \in Nat /\ msg_received_count <= sent - 1
      BY <1>2, <3>1 DEF TypeInv, Waiting
    <3> QED
      BY <1>1, <1>2, <3>1, <3>2 DEF Bonus
  <2>2. CASE End
    <3>1. at = "ready" /\ at' = "ended" /\ msg_received_count' = msg_received_count
      BY <2>2 DEF End
    <3>2. msg_received_count \in Nat /\ msg_received_count <= sent
      BY <1>2, <3>1 DEF TypeInv, Waiting
    <3> QED
      BY <1>1, <1>2, <3>1, <3>2 DEF Bonus
  <2> QED
    BY <2>1, <2>2
<1>4. Waiting' = 0 /\ (kind # "ping" => Waiting = 0 /\ at = "ready")
  BY <1>1 DEF Waiting
<1>5. TypeInv'
  BY <1>1, <1>2, <1>3, <1>4 DEF TypeInv
<1>6. BodyInv'
  BY <1>1, <1>2, BodyKept
<1>7. AskedInv'
  BY <1>1, <1>2 DEF AskedInv
<1>8. CalmInv'
  <2> SUFFICES ASSUME kind # "ping", extras = 0
               PROVE  /\ \A i \in DOMAIN printed : printed[i] = input[i]
                      /\ requests = {} /\ replies = {} /\ inbox = <<>>
    BY Zenon, <1>1 DEF CalmInv
  <2> QED
    BY <1>2, <1>4 DEF CalmInv
<1>9. CountInv'
  <2> SUFFICES ASSUME kind = "ping", extras = 0 PROVE CountInv'
    BY <1>1 DEF CountInv
  <2>1. /\ \A m1, m2 \in requests : m1.n = m2.n => m1 = m2
        /\ \A m \in requests : m.n \notin answered
        /\ msg_received_count + Len(inbox) + Cardinality(replies) <= Cardinality(answered) + Bonus
    BY <1>2 DEF CountInv
  <2>2. msg_received_count' + Len(inbox) + Cardinality(replies) <= Cardinality(answered) + Bonus'
    <3>1. msg_received_count + Len(inbox) + Cardinality(replies) <= Cardinality(answered) + Bonus
      BY Zenon, <2>1
    <3>2. /\ Cardinality(replies) \in Nat /\ Cardinality(answered) \in Nat
          /\ Len(inbox) \in Nat /\ msg_received_count \in Nat
      BY Zenon, <1>2, Sizes
    <3>3. /\ msg_received_count' \in Nat /\ Bonus \in Nat /\ Bonus' \in Nat
          /\ msg_received_count' + Bonus <= msg_received_count + Bonus'
      BY Zenon, <1>3
    <3> QED
      BY Zenon, <3>1, <3>2, <3>3, StillEnough
  <2> QED
    BY Zenon, <1>1, <2>1, <2>2 DEF CountInv
<1> QED
  BY <1>5, <1>6, <1>7, <1>8, <1>9 DEF IInv

LEMMA LoseStep ==
  ASSUME IInv, Lose
  PROVE  IInv'
<1>1. PICK m0 \in requests \cup replies :
        requests' = requests \ {m0} /\ replies' = replies \ {m0}
  BY DEF Lose
<1>2. lost' = TRUE /\ UNCHANGED <<client, inbox, answered, extras>>
  BY DEF Lose
<1>3. TypeInv /\ BodyInv /\ AskedInv /\ CalmInv /\ CountInv
  BY DEF IInv
<1>4. UNCHANGED <<kind, input, pid, at, sent, printed, msg_received_count, inbox, answered, extras>>
  BY <1>2 DEF client
<1>5. IsFiniteSet(replies') /\ Cardinality(replies') <= Cardinality(replies)
      /\ Cardinality(replies') \in Nat
  BY Zenon, <1>1, <1>3, Sizes, FS_Subset, FS_CardinalityType
<1>6. TypeInv'
  BY <1>2, <1>3, <1>4, <1>5 DEF TypeInv, Waiting
<1>7. BodyInv'
  BY <1>1, <1>3, <1>4, BodyKept
<1>8. AskedInv'
  BY <1>3, <1>4 DEF AskedInv
<1>9. CalmInv'
  <2> SUFFICES ASSUME kind # "ping", extras = 0
               PROVE  /\ \A i \in DOMAIN printed : printed[i] = input[i]
                      /\ requests' = {} /\ replies' = {} /\ inbox = <<>>
    BY Zenon, <1>4 DEF CalmInv
  <2> QED
    BY <1>1, <1>3 DEF CalmInv, Single
<1>10. CountInv'
  <2> SUFFICES ASSUME kind = "ping", extras = 0 PROVE CountInv'
    BY <1>4 DEF CountInv
  <2>1. /\ \A m1, m2 \in requests' : m1.n = m2.n => m1 = m2
        /\ \A m \in requests' : m.n \notin answered
        /\ msg_received_count + Len(inbox) + Cardinality(replies) <= Cardinality(answered) + Bonus
    BY <1>1, <1>3 DEF CountInv
  <2>2. Bonus' = Bonus /\ Bonus \in Nat
    BY <1>4 DEF Bonus
  <2>3. msg_received_count + Len(inbox) + Cardinality(replies') <= Cardinality(answered) + Bonus
    BY <1>3, <1>5, <2>1, <2>2, Sizes
  <2> QED
    BY Zenon, <1>4, <2>1, <2>2, <2>3 DEF CountInv
<1> QED
  BY <1>6, <1>7, <1>8, <1>9, <1>10 DEF IInv

LEMMA ForeignStep ==
  ASSUME IInv, Foreign
  PROVE  IInv'
<1>1. /\ extras < MaxExtras /\ inbox' = Append(inbox, Alien) /\ extras' = extras + 1
      /\ UNCHANGED <<kind, input, pid, at, sent, printed, msg_received_count,
                     requests, replies, answered, lost>>
  BY DEF Foreign, client
<1>2. TypeInv /\ BodyInv /\ AskedInv
  BY DEF IInv
<1>3. extras \in Nat /\ extras' # 0 /\ extras' \in 0 .. MaxExtras
  BY <1>1, <1>2, RequestReplyAssumption DEF TypeInv
<1>4. /\ inbox' \in Seq(Seq(Nat))
      /\ \A i \in DOMAIN inbox' : inbox'[i] = Alien \/ (i \in DOMAIN inbox /\ inbox'[i] = inbox[i])
  <2>1. Alien \in Seq(Nat) /\ inbox \in Seq(Seq(Nat))
    BY <1>2 DEF TypeInv, Alien
  <2> QED
    BY <1>1, <2>1
<1>5. TypeInv'
  BY <1>1, <1>2, <1>3, <1>4 DEF TypeInv, Waiting
<1>6. BodyInv'
  BY <1>1, <1>2, BodyKept
<1>7. CalmInv' /\ CountInv'
  BY Zenon, <1>1, <1>3 DEF CalmInv, CountInv
<1>8. AskedInv'
  <2> SUFFICES ASSUME kind # "ping"
               PROVE  /\ \A i \in DOMAIN inbox' : inbox'[i] = Alien \/ \E j \in 1 .. sent : inbox'[i] = input[j]
                      /\ \A i \in DOMAIN printed : printed[i] = Alien \/ \E j \in 1 .. i : printed[i] = input[j]
    BY Zenon, <1>1 DEF AskedInv
  <2>1. /\ \A i \in DOMAIN inbox : inbox[i] = Alien \/ \E j \in 1 .. sent : inbox[i] = input[j]
        /\ \A i \in DOMAIN printed : printed[i] = Alien \/ \E j \in 1 .. i : printed[i] = input[j]
    BY Zenon, <1>2 DEF AskedInv
  <2>2. ASSUME NEW i \in DOMAIN inbox', ~ (inbox'[i] = Alien)
        PROVE  \E j \in 1 .. sent : inbox'[i] = input[j]
    <3>1. i \in DOMAIN inbox /\ inbox'[i] = inbox[i]
      BY Zenon, <1>4, <2>2
    <3>2. inbox[i] = Alien \/ \E j \in 1 .. sent : inbox[i] = input[j]
      BY Zenon, <2>1, <3>1
    <3> QED
      BY Zenon, <2>2, <3>1, <3>2
  <2> QED
    BY Zenon, <2>1, <2>2
<1> QED
  BY <1>5, <1>6, <1>7, <1>8 DEF IInv

LEMMA AnswerStep ==
  ASSUME IInv, Answer
  PROVE  IInv'
<1>0. PICK m0 \in requests : \E l \in Leave(requests, m0) :
        /\ extras + l.extra <= MaxExtras /\ requests' = l.left /\ extras' = extras + l.extra
        /\ replies' = replies \cup {[m0 EXCEPT !.body = IF kind = "dns" THEN Parse(@) ELSE @]}
        /\ answered' = answered \cup {m0.n}
  BY Zenon DEF Answer
<1>1. PICK l \in Leave(requests, m0) :
        /\ extras + l.extra <= MaxExtras /\ requests' = l.left /\ extras' = extras + l.extra
        /\ replies' = replies \cup {[m0 EXCEPT !.body = IF kind = "dns" THEN Parse(@) ELSE @]}
        /\ answered' = answered \cup {m0.n}
  BY Zenon, <1>0
<1>2. UNCHANGED <<kind, input, pid, at, sent, printed, msg_received_count, inbox, lost>>
  BY DEF Answer, client
<1>3. TypeInv /\ BodyInv /\ AskedInv /\ CalmInv /\ CountInv /\ sent \in Nat
  BY DEF IInv, TypeInv
<1>4. PICK r : r = [n |-> m0.n, body |-> IF kind = "dns" THEN Parse(m0.body) ELSE m0.body]
  OBVIOUS
<1>5. Datagram(m0) /\ Understood(m0) /\ m0 = [n |-> m0.n, body |-> m0.body]
      /\ m0.n \in 1 .. sent /\ m0.body \in Seq(Nat)
  BY <1>3 DEF BodyInv, Datagram
<1>6. replies' = replies \cup {r}
  <2> DEFINE asked == Parse(m0.body)
  <2>1. [m0 EXCEPT !.body = IF kind = "dns" THEN asked ELSE @]
          = [n |-> m0.n, body |-> IF kind = "dns" THEN asked ELSE m0.body]
    <3> HIDE DEF asked
    <3> QED
      BY <1>5
  <2> QED
    BY Zenon, <1>1, <1>4, <2>1
<1>7. r.n = m0.n /\ r = [n |-> r.n, body |-> r.body] /\ r.body \in Seq(Nat)
      /\ (kind # "ping" => r.body = input[m0.n])
  <2>1. kind # "ping" => r.body = input[m0.n] /\ input[m0.n] \in Seq(Nat)
    BY <1>3, <1>4, <1>5, UnderstoodCases, InputNumbers DEF TypeInv
  <2>2. kind = "ping" => r.body = m0.body
    BY <1>4
  <2> QED
    BY <1>4, <1>5, <2>1, <2>2
<1>8. \/ requests' = requests \ {m0} /\ extras' = extras
      \/ requests' = requests /\ extras' = extras + 1
  BY <1>1, <1>3 DEF Leave, TypeInv
<1>9. extras \in 0 .. MaxExtras /\ extras' \in 0 .. MaxExtras /\ (extras' = 0 => extras = 0 /\ requests' = requests \ {m0})
  BY <1>1, <1>3, <1>8, RequestReplyAssumption DEF TypeInv
<1>10. /\ IsFiniteSet(replies') /\ Cardinality(replies') \in Nat
       /\ Cardinality(replies') <= Cardinality(replies) + 1
  <2>1. IsFiniteSet(replies)
    BY <1>3, Sizes
  <2>2. /\ IsFiniteSet(replies')
        /\ Cardinality(replies') = IF r \in replies THEN Cardinality(replies) ELSE Cardinality(replies) + 1
    BY Zenon, <1>6, <2>1, FS_AddElement
  <2>3. Cardinality(replies') \in Nat /\ Cardinality(replies) \in Nat
    BY Zenon, <2>1, <2>2, FS_CardinalityType
  <2> QED
    BY <2>2, <2>3
<1>11. TypeInv'
  <2>1. answered' \subseteq 1 .. sent
    BY <1>1, <1>3, <1>5 DEF TypeInv
  <2>2. IsFiniteSet(replies') /\ extras' \in 0 .. MaxExtras
    BY <1>9, <1>10
  <2>3. TypeInv /\ Waiting' = Waiting
    BY <1>2, <1>3 DEF Waiting
  <2> QED
    BY <1>2, <2>1, <2>2, <2>3 DEF TypeInv
<1>12. BodyInv'
  <2>1. ASSUME NEW m \in requests' PROVE Datagram(m)' /\ Understood(m)'
    <3>1. Datagram(m) /\ Understood(m)
      BY <1>3, <1>8 DEF BodyInv
    <3> QED
      BY <1>2, <1>3, <3>1, SameDatagram, SameUnderstanding
  <2>2. ASSUME NEW m \in replies' PROVE Datagram(m)' /\ (kind' # "ping" => m.body = input'[m.n])
    <3>1. CASE m = r
      BY <1>2, <1>5, <1>7, <3>1 DEF Datagram
    <3>2. CASE m \in replies
      <4>1. Datagram(m) /\ (kind # "ping" => m.body = input[m.n])
        BY <1>3, <3>2 DEF BodyInv
      <4> QED
        BY <1>2, <1>3, <4>1, SameDatagram
    <3> QED
      BY <1>6, <3>1, <3>2
  <2> QED
    BY <2>1, <2>2 DEF BodyInv
<1>13. AskedInv'
  BY <1>2, <1>3 DEF AskedInv
<1>14. CalmInv'
  <2> SUFFICES ASSUME kind # "ping", extras' = 0
               PROVE  /\ \A i \in DOMAIN printed : printed[i] = input[i]
                      /\ at = "waiting" /\ inbox = <<>> /\ requests' = {}
                      /\ Single(replies') /\ \A m \in replies' : m.n = sent
    BY Zenon, <1>2 DEF CalmInv
  <2>1. /\ \A i \in DOMAIN printed : printed[i] = input[i]
        /\ at = "waiting" /\ inbox = <<>> /\ replies = {}
        /\ Single(requests) /\ \A m \in requests : m.n = sent
    BY <1>3, <1>9 DEF CalmInv
  <2> QED
    BY <1>6, <1>7, <1>9, <2>1 DEF Single
<1>15. CountInv'
  <2> SUFFICES ASSUME kind = "ping", extras' = 0 PROVE CountInv'
    BY <1>2 DEF CountInv
  <2>1. /\ \A m1, m2 \in requests : m1.n = m2.n => m1 = m2
        /\ \A m \in requests : m.n \notin answered
        /\ msg_received_count + Len(inbox) + Cardinality(replies) <= Cardinality(answered) + Bonus
    BY <1>3, <1>9 DEF CountInv
  <2>2. Bonus' = Bonus /\ Bonus \in Nat
    BY <1>2 DEF Bonus
  <2>3. Cardinality(answered') = Cardinality(answered) + 1
    BY <1>1, <1>3, <2>1, Sizes, FS_AddElement
  <2>4. msg_received_count + Len(inbox) + Cardinality(replies') <= Cardinality(answered') + Bonus
    BY <1>3, <1>10, <2>1, <2>2, <2>3, Sizes
  <2>5. /\ \A m1, m2 \in requests' : m1.n = m2.n => m1 = m2
        /\ \A m \in requests' : m.n \notin answered'
    BY <1>1, <1>9, <2>1
  <2> QED
    BY Zenon, <1>2, <2>2, <2>4, <2>5 DEF CountInv
<1> QED
  BY <1>11, <1>12, <1>13, <1>14, <1>15 DEF IInv

LEMMA DeliverStep ==
  ASSUME IInv, Deliver
  PROVE  IInv'
<1>0. PICK m0 \in replies : \E l \in Leave(replies, m0) :
        /\ extras + l.extra <= MaxExtras /\ replies' = l.left /\ extras' = extras + l.extra
        /\ inbox' = Append(inbox, m0.body)
  BY Zenon DEF Deliver
<1>1. PICK l \in Leave(replies, m0) :
        /\ extras + l.extra <= MaxExtras /\ replies' = l.left /\ extras' = extras + l.extra
        /\ inbox' = Append(inbox, m0.body)
  BY Zenon, <1>0
<1>2. UNCHANGED <<kind, input, pid, at, sent, printed, msg_received_count, requests, answered, lost>>
  BY DEF Deliver, client
<1>3. TypeInv /\ BodyInv /\ AskedInv /\ CalmInv /\ CountInv /\ inbox \in Seq(Seq(Nat))
  BY DEF IInv, TypeInv
<1>4. m0.n \in 1 .. sent /\ m0.body \in Seq(Nat) /\ (kind # "ping" => m0.body = input[m0.n])
  BY <1>3 DEF BodyInv, Datagram
<1>5. \/ replies' = replies \ {m0} /\ extras' = extras
      \/ replies' = replies /\ extras' = extras + 1
  BY <1>1, <1>3 DEF Leave, TypeInv
<1>6. extras \in 0 .. MaxExtras /\ extras' \in 0 .. MaxExtras /\ (extras' = 0 => extras = 0 /\ replies' = replies \ {m0})
  BY <1>1, <1>3, <1>5, RequestReplyAssumption DEF TypeInv
<1>7. /\ inbox' \in Seq(Seq(Nat)) /\ Len(inbox') = Len(inbox) + 1
      /\ \A i \in DOMAIN inbox' : inbox'[i] = m0.body \/ (i \in DOMAIN inbox /\ inbox'[i] = inbox[i])
  BY <1>1, <1>3, <1>4
<1>8. TypeInv'
  <2>1. IsFiniteSet(replies')
    BY <1>3, <1>5, Sizes, FS_RemoveElement
  <2> QED
    BY <1>2, <1>3, <1>6, <1>7, <2>1 DEF TypeInv, Waiting
<1>9. BodyInv'
  BY <1>2, <1>3, <1>5, BodyKept
<1>10. AskedInv'
  <2> SUFFICES ASSUME kind # "ping"
               PROVE  /\ \A i \in DOMAIN inbox' : inbox'[i] = Alien \/ \E j \in 1 .. sent : inbox'[i] = input[j]
                      /\ \A i \in DOMAIN printed : printed[i] = Alien \/ \E j \in 1 .. i : printed[i] = input[j]
    BY Zenon, <1>2 DEF AskedInv
  <2>1. /\ \A i \in DOMAIN inbox : inbox[i] = Alien \/ \E j \in 1 .. sent : inbox[i] = input[j]
        /\ \A i \in DOMAIN printed : printed[i] = Alien \/ \E j \in 1 .. i : printed[i] = input[j]
    BY <1>3 DEF AskedInv
  <2>2. ASSUME NEW i \in DOMAIN inbox'
        PROVE  inbox'[i] = Alien \/ \E j \in 1 .. sent : inbox'[i] = input[j]
    <3>1. CASE inbox'[i] = m0.body
      BY Zenon, <1>4, <3>1
    <3>2. CASE i \in DOMAIN inbox /\ inbox'[i] = inbox[i]
      BY Zenon, <2>1, <3>2
    <3> QED
      BY Zenon, <1>7, <3>1, <3>2
  <2> QED
    BY Zenon, <2>1, <2>2
<1>11. CalmInv'
  <2> SUFFICES ASSUME kind # "ping", extras' = 0
               PROVE  /\ \A i \in DOMAIN printed : printed[i] = input[i]
                      /\ at = "waiting" /\ inbox' = <<input[sent]>>
                      /\ requests = {} /\ replies' = {}
    BY Zenon, <1>2 DEF CalmInv
  <2>1. /\ \A i \in DOMAIN printed : printed[i] = input[i]
        /\ at = "waiting" /\ inbox = <<>> /\ requests = {}
        /\ Single(replies) /\ \A m \in replies : m.n = sent
    BY <1>3, <1>6 DEF CalmInv
  <2>2. inbox' = <<m0.body>> /\ m0.body = input[sent]
    BY <1>1, <1>4, <2>1
  <2> QED
    BY <1>6, <2>1, <2>2 DEF Single
<1>12. CountInv'
  <2> SUFFICES ASSUME kind = "ping", extras' = 0 PROVE CountInv'
    BY <1>2 DEF CountInv
  <2>1. /\ \A m1, m2 \in requests : m1.n = m2.n => m1 = m2
        /\ \A m \in requests : m.n \notin answered
        /\ msg_received_count + Len(inbox) + Cardinality(replies) <= Cardinality(answered) + Bonus
    BY <1>3, <1>6 DEF CountInv
  <2>2. Bonus' = Bonus /\ Bonus \in Nat
    BY <1>2 DEF Bonus
  <2>3. Cardinality(replies') = Cardinality(replies) - 1
    BY <1>3, <1>6, Sizes, FS_RemoveElement
  <2>4. msg_received_count + Len(inbox') + Cardinality(replies') <= Cardinality(answered) + Bonus
    BY <1>3, <1>7, <2>1, <2>2, <2>3, Sizes
  <2> QED
    BY Zenon, <1>2, <2>1, <2>2, <2>4 DEF CountInv
<1> QED
  BY <1>8, <1>9, <1>10, <1>11, <1>12 DEF IInv

LEMMA InitHolds ==
  ASSUME Init
  PROVE  IInv
<1>1. kind \in {"number", "ping", "dns"} /\ pid \in Word /\ MaxExtras \in Nat
  BY RequestReplyAssumption DEF Init
<1>2. input \in IF kind = "ping" THEN {<<>>} ELSE Inputs[kind]
  BY DEF Init
<1>3. kind # "ping" => input \in Seq(Seq(Nat))
  BY <1>1, <1>2, RequestReplyAssumption
<1>4. kind = "dns" => \A i \in DOMAIN input : HostName(input[i])
  BY <1>1, <1>2, RequestReplyAssumption
<1>5. /\ at = "ready" /\ sent = 0 /\ printed = <<>> /\ msg_received_count = 0
      /\ requests = {} /\ replies = {} /\ inbox = <<>>
      /\ answered = {} /\ lost = FALSE /\ extras = 0
  BY DEF Init
<1>6. TypeInv
  <2>1. IsFiniteSet(replies)
    BY <1>5, FS_EmptySet
  <2>2. kind # "ping" => input \in Seq(Seq(Nat)) /\ sent <= Len(input)
    <3>1. ASSUME kind # "ping" PROVE input \in Seq(Seq(Nat)) /\ Len(input) \in Nat
      BY <1>3, <3>1
    <3> QED
      BY <1>5, <3>1
  <2>3. Waiting = 0 /\ Len(printed) = 0 /\ inbox \in Seq(Seq(Nat)) /\ printed \in Seq(Seq(Nat))
    <3>1. <<>> \in Seq(Seq(Nat)) /\ Len(<<>>) = 0
      BY Zenon, EmptySeq
    <3>2. Waiting = 0
      BY <1>5 DEF Waiting
    <3> QED
      BY Zenon, <1>5, <3>1, <3>2
  <2>4. extras \in 0 .. MaxExtras /\ answered \subseteq 1 .. sent /\ lost \in BOOLEAN
    <3>1. 0 \in 0 .. MaxExtras
      BY <1>1
    <3> QED
      BY Zenon, <1>5, <3>1
  <2>5. at = "ready" /\ sent = 0 /\ msg_received_count = 0
    BY <1>5
  <2> QED
    BY <1>1, <1>4, <2>1, <2>2, <2>3, <2>4, <2>5 DEF TypeInv
<1>7. BodyInv /\ AskedInv /\ CalmInv
  BY <1>5 DEF BodyInv, AskedInv, CalmInv
<1>8. CountInv
  <2>1. Cardinality(replies) = 0 /\ Cardinality(answered) = 0
    BY <1>5, FS_EmptySet
  <2> QED
    BY <1>5, <2>1 DEF CountInv, Bonus
<1> QED
  BY <1>6, <1>7, <1>8 DEF IInv

\* The invariant is preserved by every step of the clients, the network and the
\* other side.
THEOREM Invariance == Spec => []IInv
<1>1. Init => IInv
  BY InitHolds
<1>2. IInv /\ [Next]_vars => IInv'
  <2> SUFFICES ASSUME IInv, [Next]_vars PROVE IInv'
    OBVIOUS
  <2>1. CASE Client
    BY <2>1, SendStep, ReceiveStep, ClientRests DEF Client
  <2>2. CASE Answer
    BY <2>2, AnswerStep
  <2>3. CASE Deliver
    BY <2>3, DeliverStep
  <2>4. CASE Foreign
    BY <2>4, ForeignStep
  <2>5. CASE Lose
    BY <2>5, LoseStep
  <2>6. CASE UNCHANGED vars
    <3>1. UNCHANGED <<kind, input, pid, at, sent, printed, msg_received_count,
                      requests, replies, inbox, answered, lost, extras>>
      BY <2>6 DEF vars, client
    <3>2. TypeInv /\ BodyInv /\ AskedInv /\ CalmInv /\ CountInv
      BY DEF IInv
    <3>3. TypeInv'
      BY <3>1, <3>2 DEF TypeInv, Waiting
    <3>4. BodyInv'
      BY <3>1, <3>2, BodyKept
    <3>5. AskedInv' /\ CalmInv'
      BY <3>1, <3>2 DEF AskedInv, CalmInv
    <3>6. CountInv'
      BY Zenon, <3>1, <3>2 DEF CountInv, Bonus
    <3> QED
      BY <3>3, <3>4, <3>5, <3>6 DEF IInv
  <2> QED
    BY <2>1, <2>2, <2>3, <2>4, <2>5, <2>6 DEF Next
<1> QED
  BY <1>1, <1>2, PTL DEF Spec

\* No more answers are counted than requests sent, and what is under way belongs to
\* one of them (inf22-0/main.c:50-60, inf22-1/main.c:98-148, inf22-2/main.c:77-129).
THEOREM Typing == Spec => []TypeOK
<1>1. ASSUME IInv PROVE TypeOK
  <2>1. TypeInv /\ BodyInv
    BY <1>1 DEF IInv
  <2>2. {m.n : m \in requests \cup replies} \subseteq 1 .. sent
    BY <2>1 DEF BodyInv, Datagram
  <2>3. msg_received_count \in 0 .. sent /\ (kind = "ping" \/ Len(printed) = sent - Waiting)
    BY <2>1 DEF TypeInv, Waiting
  <2> QED
    BY <2>1, <2>2, <2>3 DEF TypeOK, TypeInv, Waiting
<1>2. IInv => TypeOK
  BY <1>1
<1> QED
  BY Invariance, <1>2, PTL

\* Every request under way is one its receiver accepts, whatever the line, the
\* process id and the number of requests sent
\* (inf22-0/main.c:50-60, inf22-1/main.c:73-88, 119-127, inf22-2/main.c:77-116).
THEOREM RequestsAreUnderstood == Spec => []RequestsUnderstood
<1>1. IInv => RequestsUnderstood
  BY DEF IInv, BodyInv, RequestsUnderstood
<1> QED
  BY Invariance, <1>1, PTL

\* However many datagrams are lost, delayed or reordered, the i-th answer printed
\* is the one to the i-th line; with duplicates and foreign datagrams it may be the
\* answer to an earlier line or a foreign one, never that to a later line
\* (inf22-0/main.c:50-60, inf22-2/main.c:76-129).
THEOREM AnswersAreOwn == Spec => []OwnAnswers
<1>1. ASSUME IInv PROVE OwnAnswers
  <2> SUFFICES ASSUME kind # "ping", NEW i \in DOMAIN printed
               PROVE  IF extras = 0 THEN printed[i] = input[i]
                      ELSE printed[i] = Alien \/ \E j \in 1 .. i : printed[i] = input[j]
    BY DEF OwnAnswers
  <2>1. CASE extras = 0
    BY <1>1, <2>1 DEF IInv, CalmInv
  <2>2. CASE extras # 0
    BY <1>1, <2>2 DEF IInv, AskedInv
  <2> QED
    BY <2>1, <2>2
<1>2. IInv => OwnAnswers
  BY <1>1
<1> QED
  BY Invariance, <1>2, PTL

\* Ping counts at most one answer more than it was given, however many requests
\* it sends and whatever is late or lost (inf22-1/main.c:139-148).
THEOREM CountsOneTooMany == Spec => []CountsOneTooManyAtMost
<1>1. ASSUME IInv PROVE CountsOneTooManyAtMost
  <2> SUFFICES ASSUME kind = "ping", extras = 0
               PROVE  msg_received_count <= Cardinality(answered) + 1
    BY DEF CountsOneTooManyAtMost
  <2>1. msg_received_count + Len(inbox) + Cardinality(replies) <= Cardinality(answered) + Bonus
    BY <1>1 DEF IInv, CountInv
  <2>2. Bonus \in {0, 1}
    BY DEF Bonus
  <2> QED
    BY <1>1, <2>1, <2>2, Sizes DEF IInv
<1>2. IInv => CountsOneTooManyAtMost
  BY <1>1
<1> QED
  BY Invariance, <1>2, PTL
=============================================================================
