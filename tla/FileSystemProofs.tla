-------------------------- MODULE FileSystemProofs ---------------------------
(***************************************************************************)
(* Theorems about the two FUSE file systems.  UnionFS: for any number of   *)
(* directories, any names, times and lengths, and any number of changes    *)
(* during a call.  ArchiveFS: for any files, any threads and any number of *)
(* reads.                                                                  *)
(***************************************************************************)
EXTENDS UnionFS, ArchiveFS, FiniteSetTheorems, FunctionTheorems,
        WellFoundedInduction, TLAPS

-----------------------------------------------------------------------------
(* UnionFS: the inductive invariant.                                       *)

Places == {"exists", "first", "second", "file_size", "open", "iterate", "done", "thrown"}

\* What a call holds, but for its listing.
CallOK ==
  /\ DOMAIN call = {"op", "name", "at", "dir", "real", "time", "looked", "offset",
                    "asked", "size", "got", "version", "listing"}
  /\ call.op \in {"getattr", "read", "readdir"} /\ call.name \in Names /\ call.at \in Places
  /\ call.dir \in Nat /\ 1 <= call.dir /\ call.dir <= NDirs + 1
  /\ call.real \in Nat /\ call.real <= NDirs /\ call.real < call.dir
  /\ call.time \in Nat /\ call.looked \in Nat
  /\ call.offset \in Nat /\ call.asked \in Nat /\ call.size \in Nat /\ call.size <= call.asked
  /\ call.version \in Versions \cup {Nothing}

DiskOK ==
  /\ present \subseteq in_dirs /\ disk \in [in_dirs -> Contents]
  /\ touched \subseteq in_dirs \X Names
  /\ removed \in BOOLEAN /\ setback \in BOOLEAN /\ changes \in 0 .. MaxChanges

\* Each place is of one operation and, up to the end of the directories, inside them.
PlaceInv ==
  /\ call.at \in {"first", "second"} => call.op # "readdir" /\ call.dir <= NDirs
  /\ call.at \in {"file_size", "open"} => call.op = "read" /\ call.dir = NDirs + 1
  /\ call.at = "iterate" => call.op = "readdir" /\ call.dir <= NDirs
  /\ call.at = "done" => call.dir = NDirs + 1

\* What was seen to be there is there until something is removed.
SeenInv ==
  removed \/ /\ call.at \in {"first", "second"} => There
             /\ call.at = "file_size" => Found
             /\ call.at = "iterate" => call.dir \in present
             /\ call.at # "thrown"

\* The entry found so far is as good as those of the directories passed.
BestSoFar ==
  call.op # "readdir" => \A d \in in_dirs : d < call.dir /\ Still(d, call.name) =>
    /\ call.real # 0
    /\ ~ setback => IF d < call.real THEN disk[d][call.name].time < call.time
                                     ELSE disk[d][call.name].time <= call.time

\* Between the two looks the entry is known to be newer.
LookInv == call.at = "second" => call.looked > call.time \/ call.real = 0

\* Until the file is read no byte has been got; what is left of it once it was cut
\* is right as long as nobody touches it.
ReadInv ==
  /\ call.at \notin {"open", "done"} => call.size = 0
  /\ call.at # "done" => call.got = 0
  /\ call.at = "open" /\ Still(call.real, call.name) =>
       LET len == disk[call.real][call.name].len
       IN  call.offset < len /\ call.size = Cut(call.offset, call.asked, len)
  /\ call.at = "done" => ServesItsChoice

IInv == CallOK /\ DiskOK /\ PlaceInv /\ SeenInv /\ BestSoFar /\ LookInv /\ ReadInv

-----------------------------------------------------------------------------
(* What the steps do to the directories.                                   *)

\* The changes of others.
Others == Put \/ RemoveFile \/ RemoveDir \/ MakeDir

\* A version has a time and a length.
LEMMA VersionIs ==
  ASSUME DiskOK, NEW d, NEW n, Has(d, n)
  PROVE  /\ disk[d][n] \in Versions
         /\ disk[d][n].time \in Times /\ disk[d][n].len \in Lengths
         /\ disk[d][n].time \in Nat /\ disk[d][n].len \in Nat
<1>1. PICK S \in SUBSET Names : disk[d] \in [S -> Versions]
  BY DEF DiskOK, Has, Contents
<1>2. disk[d][n] \in Versions
  BY <1>1 DEF Has
<1> QED
  BY <1>2, UnionAssumption DEF Versions

\* Whoever changes an entry touches it, and what is not removed stays.
LEMMA OthersTouch ==
  ASSUME DiskOK, Others
  PROVE  /\ call' = call /\ setback' = setback /\ UnderWay
         /\ touched \subseteq touched' /\ (removed => removed')
         /\ \A d, n : Still(d, n)' => Still(d, n) /\ disk'[d][n] = disk[d][n]
         /\ ~ removed' => present \subseteq present' /\ \A d, n : Has(d, n) => Has(d, n)'
<1> USE DEF Others, Still, Has
<1>1. CASE Put
  <2>1. PICK d \in present, n \in Names, v \in Versions :
          /\ disk' = [disk EXCEPT ![d] = [m \in DOMAIN @ \cup {n} |-> IF m = n THEN v ELSE @[m]]]
          /\ touched' = touched \cup {<<d, n>>}
    BY <1>1 DEF Put
  <2>2. ASSUME NEW e, NEW m
        PROVE  /\ Still(e, m)' => Still(e, m) /\ disk'[e][m] = disk[e][m]
               /\ Has(e, m) => Has(e, m)'
    BY <2>1 DEF DiskOK
  <2> QED
    BY <1>1, <2>1, <2>2 DEF Put
<1>2. CASE RemoveFile
  <2>1. PICK d \in present : \E n \in DOMAIN disk[d] :
          /\ disk' = [disk EXCEPT ![d] = [m \in DOMAIN @ \ {n} |-> @[m]]]
          /\ touched' = touched \cup {<<d, n>>}
    BY <1>2 DEF RemoveFile
  <2>2. ASSUME NEW e, NEW m
        PROVE  Still(e, m)' => Still(e, m) /\ disk'[e][m] = disk[e][m]
    BY <2>1 DEF DiskOK
  <2> QED
    BY <1>2, <2>1, <2>2 DEF RemoveFile
<1>3. CASE RemoveDir
  <2>1. PICK d \in present :
          /\ disk' = [disk EXCEPT ![d] = <<>>]
          /\ touched' = touched \cup ({d} \X DOMAIN disk[d])
    BY <1>3 DEF RemoveDir
  <2>2. DOMAIN <<>> = {}
    OBVIOUS
  <2>3. ASSUME NEW e, NEW m
        PROVE  Still(e, m)' => Still(e, m) /\ disk'[e][m] = disk[e][m]
    BY <2>1, <2>2 DEF DiskOK
  <2> QED
    BY <1>3, <2>1, <2>3 DEF RemoveDir
<1>4. CASE MakeDir
  BY <1>4 DEF MakeDir
<1> QED
  BY <1>1, <1>2, <1>3, <1>4

-----------------------------------------------------------------------------
(* The inductive invariant holds initially and is kept.                    *)

LEMMA InitIInv == Init => IInv
<1> SUFFICES ASSUME Init PROVE IInv
  OBVIOUS
<1> USE UnionAssumption
<1>1. PICK op \in {"getattr", "read", "readdir"}, n \in Names :
       call = [op |-> op, name |-> n, at |-> "exists", dir |-> 1, real |-> 0, time |-> 0,
               looked |-> 0, offset |-> 0, asked |-> 0, size |-> 0, got |-> 0,
               version |-> Nothing, listing |-> <<>>]
  BY DEF Init
<1>2. CallOK
  BY <1>1 DEF CallOK, Places
<1>3. DiskOK
  <2>1. disk \in [in_dirs -> Contents] /\ present \subseteq in_dirs
    BY DEF Init
  <2>2. 0 \in 0 .. MaxChanges
    OBVIOUS
  <2> QED
    BY <2>1, <2>2 DEF Init, DiskOK
<1>4. PlaceInv /\ SeenInv /\ LookInv /\ ReadInv
  BY <1>1 DEF PlaceInv, SeenInv, LookInv, ReadInv
<1>5. BestSoFar
  BY <1>1 DEF BestSoFar, in_dirs
<1> QED
  BY <1>2, <1>3, <1>4, <1>5 DEF IInv

\* Changes of others, which only happen while a call is under way.
LEMMA OthersKeep ==
  ASSUME IInv, Others
  PROVE  IInv'
<1> USE DEF IInv
<1>1. /\ call' = call /\ setback' = setback /\ UnderWay
      /\ touched \subseteq touched' /\ (removed => removed')
      /\ \A d, n : Still(d, n)' => Still(d, n) /\ disk'[d][n] = disk[d][n]
      /\ ~ removed' => present \subseteq present' /\ \A d, n : Has(d, n) => Has(d, n)'
  BY OthersTouch
<1>2. CallOK'
  BY <1>1 DEF CallOK
<1>3. DiskOK'
  <2>1. changes' = changes + 1 /\ changes < MaxChanges /\ removed' \in BOOLEAN
    BY DEF Others, Put, RemoveFile, RemoveDir, MakeDir, UnderWay, DiskOK
  <2>2. changes' \in 0 .. MaxChanges
    BY <2>1, UnionAssumption DEF DiskOK
  <2>3. CASE Put
    <3>1. PICK d \in present, n \in Names, v \in Versions :
            /\ disk' = [disk EXCEPT ![d] = [m \in DOMAIN @ \cup {n} |-> IF m = n THEN v ELSE @[m]]]
            /\ touched' = touched \cup {<<d, n>>}
      BY <2>3 DEF Put
    <3>2. PICK S \in SUBSET Names : disk[d] \in [S -> Versions]
      BY DEF DiskOK, Contents
    <3>3. [m \in DOMAIN disk[d] \cup {n} |-> IF m = n THEN v ELSE disk[d][m]]
            \in [S \cup {n} -> Versions]
      BY <3>2
    <3>4. [m \in DOMAIN disk[d] \cup {n} |-> IF m = n THEN v ELSE disk[d][m]] \in Contents
      BY <3>3 DEF Contents
    <3>5. disk' \in [in_dirs -> Contents] /\ touched' \subseteq in_dirs \X Names
      BY <3>1, <3>4 DEF DiskOK
    <3> QED
      BY <1>1, <2>1, <2>2, <2>3, <3>5 DEF DiskOK, Put
  <2>4. CASE RemoveFile
    <3>1. PICK d \in present : \E n \in DOMAIN disk[d] :
            /\ disk' = [disk EXCEPT ![d] = [m \in DOMAIN @ \ {n} |-> @[m]]]
            /\ touched' = touched \cup {<<d, n>>}
      BY <2>4 DEF RemoveFile
    <3>2. PICK S \in SUBSET Names : disk[d] \in [S -> Versions]
      BY DEF DiskOK, Contents
    <3>3. PICK n \in S :
            /\ disk' = [disk EXCEPT ![d] = [m \in DOMAIN @ \ {n} |-> @[m]]]
            /\ touched' = touched \cup {<<d, n>>}
      BY <3>1, <3>2
    <3>4. [m \in DOMAIN disk[d] \ {n} |-> disk[d][m]] \in [S \ {n} -> Versions]
      BY <3>2
    <3>5. [m \in DOMAIN disk[d] \ {n} |-> disk[d][m]] \in Contents
      BY <3>4 DEF Contents
    <3>6. disk' \in [in_dirs -> Contents] /\ touched' \subseteq in_dirs \X Names
      BY <3>3, <3>5 DEF DiskOK
    <3> QED
      BY <1>1, <2>1, <2>2, <2>4, <3>6 DEF DiskOK, RemoveFile
  <2>5. CASE RemoveDir
    <3>1. PICK d \in present :
            /\ disk' = [disk EXCEPT ![d] = <<>>]
            /\ touched' = touched \cup ({d} \X DOMAIN disk[d])
            /\ present' = present \ {d}
      BY <2>5 DEF RemoveDir
    <3>2. PICK S \in SUBSET Names : disk[d] \in [S -> Versions]
      BY DEF DiskOK, Contents
    <3>3. <<>> \in [{} -> Versions]
      OBVIOUS
    <3>4. <<>> \in Contents
      BY <3>3 DEF Contents
    <3>5. disk' \in [in_dirs -> Contents] /\ touched' \subseteq in_dirs \X Names
      BY <3>1, <3>2, <3>4 DEF DiskOK
    <3> QED
      BY <1>1, <2>1, <2>2, <2>5, <3>1, <3>5 DEF DiskOK
  <2>6. CASE MakeDir
    BY <1>1, <2>1, <2>2, <2>6 DEF DiskOK, MakeDir
  <2> QED
    BY <2>3, <2>4, <2>5, <2>6 DEF Others
<1>4. PlaceInv' /\ LookInv'
  BY <1>1 DEF PlaceInv, LookInv
<1>5. SeenInv'
  BY <1>1 DEF SeenInv, There, Found
<1>6. BestSoFar'
  BY <1>1 DEF BestSoFar
<1>7. ReadInv'
  BY <1>1 DEF ReadInv, UnderWay
<1> QED
  BY <1>2, <1>3, <1>4, <1>5, <1>6, <1>7

\* Steps of the callback leave the directories as they are.
LEMMA CallbackKeepsDisk ==
  ASSUME IInv, Callback
  PROVE  /\ UNCHANGED <<disk, present, touched, removed, changes>>
         /\ setback' \in BOOLEAN /\ (setback => setback')
         /\ \A d, n : (Has(d, n)' <=> Has(d, n)) /\ (Still(d, n)' <=> Still(d, n))
         /\ DiskOK'
<1>1. UNCHANGED <<disk, present, touched, removed, changes>>
  BY DEF Callback
<1>2. setback' \in BOOLEAN /\ (setback => setback')
  BY DEF Callback, SecondLook, IInv, DiskOK
<1>3. \A d, n : (Has(d, n)' <=> Has(d, n)) /\ (Still(d, n)' <=> Still(d, n))
  BY <1>1 DEF Has, Still
<1>4. DiskOK'
  BY <1>1, <1>2 DEF IInv, DiskOK
<1> QED
  BY <1>1, <1>2, <1>3, <1>4

\* Going to the next directory keeps the invariant if this one is accounted for.
LEMMA NextDirKeeps ==
  ASSUME IInv, Callback, call.dir <= NDirs, UNCHANGED setback,
         call.op # "readdir" /\ Still(call.dir, call.name) =>
           /\ call.real # 0
           /\ ~ setback => disk[call.dir][call.name].time <= call.time,
         call.at \in {"exists", "first", "iterate"},
         call' = NextDir(call)
  PROVE  IInv'
<1> USE DEF IInv
<1>1. /\ UNCHANGED <<disk, present, touched, removed, changes>>
      /\ \A d, n : (Has(d, n)' <=> Has(d, n)) /\ (Still(d, n)' <=> Still(d, n))
      /\ DiskOK'
  BY CallbackKeepsDisk
<1>2. /\ DOMAIN call' = DOMAIN call /\ call'.at = "exists" /\ call'.dir = call.dir + 1
      /\ call'.op = call.op /\ call'.name = call.name
      /\ call'.real = call.real /\ call'.time = call.time /\ call'.looked = call.looked
      /\ call'.offset = call.offset /\ call'.asked = call.asked /\ call'.size = call.size
      /\ call'.got = call.got /\ call'.version = call.version
  BY DEF NextDir, CallOK
<1>3. CallOK'
  BY <1>2, UnionAssumption DEF CallOK, Places
<1>4. PlaceInv' /\ SeenInv' /\ LookInv' /\ ReadInv'
  BY <1>1, <1>2 DEF PlaceInv, SeenInv, LookInv, ReadInv
<1>5. BestSoFar'
  <2> SUFFICES ASSUME call.op # "readdir", NEW d \in in_dirs, d < call.dir + 1, Still(d, call.name)
               PROVE  /\ call.real # 0
                      /\ ~ setback => IF d < call.real THEN disk[d][call.name].time < call.time
                                                       ELSE disk[d][call.name].time <= call.time
    BY <1>1, <1>2 DEF BestSoFar
  <2>1. d = call.dir \/ d < call.dir
    BY DEF CallOK, in_dirs
  <2> QED
    BY <2>1 DEF BestSoFar, CallOK
<1> QED
  BY <1>1, <1>3, <1>4, <1>5

LEMMA ExistsKeeps ==
  ASSUME IInv, Callback, Exists, UNCHANGED setback
  PROVE  IInv'
<1> USE DEF IInv
<1>1. CASE exists
  <2>1. /\ UNCHANGED <<disk, present, touched, removed, changes>>
        /\ \A d, n : (Has(d, n)' <=> Has(d, n)) /\ (Still(d, n)' <=> Still(d, n))
        /\ DiskOK'
    BY CallbackKeepsDisk
  <2>2. call' = [call EXCEPT !.at = "first"]
    BY <1>1 DEF Exists
  <2>3. CallOK'
    BY <2>2 DEF CallOK, Places
  <2>4. PlaceInv' /\ LookInv' /\ ReadInv'
    BY <2>2 DEF CallOK, PlaceInv, LookInv, ReadInv, Exists, Searching
  <2>5. There'
    BY <1>1, <2>1, <2>2 DEF exists, There, CallOK
  <2>6. SeenInv'
    BY <2>1, <2>2, <2>5 DEF SeenInv, CallOK
  <2>7. BestSoFar'
    BY <2>1, <2>2 DEF BestSoFar, CallOK
  <2> QED
    BY <2>1, <2>3, <2>4, <2>6, <2>7
<1>2. CASE ~ exists
  <2>1. ~ Still(call.dir, call.name)
    BY <1>2 DEF exists, There, Still
  <2> QED
    BY <1>2, <2>1, NextDirKeeps DEF Exists, Searching
<1> QED
  BY <1>1, <1>2

\* A call that dies has met something that was removed.
LEMMA ThrowKeeps ==
  ASSUME IInv, Callback, UNCHANGED setback, removed, call.at # "done", call.at # "open",
         call' = Throw(call)
  PROVE  IInv'
<1> USE DEF IInv
<1>1. /\ UNCHANGED <<disk, present, touched, removed, changes>>
      /\ \A d, n : (Has(d, n)' <=> Has(d, n)) /\ (Still(d, n)' <=> Still(d, n))
      /\ DiskOK'
  BY CallbackKeepsDisk
<1>2. call' = [call EXCEPT !.at = "thrown"]
  BY DEF Throw
<1>3. CallOK'
  BY <1>2 DEF CallOK, Places
<1>4. PlaceInv' /\ LookInv' /\ ReadInv' /\ SeenInv'
  BY <1>1, <1>2 DEF CallOK, PlaceInv, LookInv, ReadInv, SeenInv
<1>5. BestSoFar'
  BY <1>1, <1>2 DEF BestSoFar, CallOK
<1> QED
  BY <1>1, <1>3, <1>4, <1>5

\* What has been seen is gone only if something was removed.
LEMMA FirstLookKeeps ==
  ASSUME IInv, Callback, FirstLook, UNCHANGED setback
  PROVE  IInv'
<1> USE DEF IInv
<1>1. call.at = "first" /\ call.op # "readdir" /\ call.dir <= NDirs
  BY DEF FirstLook, PlaceInv
<1>2. CASE ~ There
  <2>1. removed
    BY <1>1, <1>2 DEF SeenInv
  <2>2. call' = Throw(call)
    BY <1>2 DEF FirstLook
  <2> QED
    BY <1>1, <2>1, <2>2, ThrowKeeps
<1>3. CASE There
  <2> DEFINE time == disk[call.dir][call.name].time
  <2>1. time \in Nat
    BY <1>3, VersionIs DEF There
  <2>2. CASE Newer(time)
    <3>1. /\ UNCHANGED <<disk, present, touched, removed, changes>>
          /\ \A d, n : (Has(d, n)' <=> Has(d, n)) /\ (Still(d, n)' <=> Still(d, n))
          /\ DiskOK'
      BY CallbackKeepsDisk
    <3>2. call' = [call EXCEPT !.at = "second", !.looked = time]
      BY <1>3, <2>2 DEF FirstLook
    <3>3. CallOK'
      BY <2>1, <3>2 DEF CallOK, Places
    <3>4. PlaceInv' /\ LookInv' /\ ReadInv'
      BY <1>1, <2>2, <3>2 DEF CallOK, PlaceInv, LookInv, ReadInv, Newer
    <3>5. There'
      BY <1>3, <3>1, <3>2 DEF There, CallOK
    <3>6. SeenInv'
      BY <3>1, <3>2, <3>5 DEF SeenInv, CallOK
    <3>7. BestSoFar'
      BY <3>1, <3>2 DEF BestSoFar, CallOK
    <3> QED
      BY <3>1, <3>3, <3>4, <3>6, <3>7
  <2>3. CASE ~ Newer(time)
    <3>1. call' = NextDir(call)
      BY <1>3, <2>3 DEF FirstLook
    <3>2. call.real # 0 /\ time <= call.time
      BY <2>1, <2>3 DEF Newer, CallOK
    <3> QED
      BY <1>1, <3>1, <3>2, NextDirKeeps
  <2> QED
    BY <2>2, <2>3
<1> QED
  BY <1>2, <1>3

\* The entry taken at the second look is newer than those of earlier directories,
\* unless it has become older since the first.
LEMMA SecondLookKeeps ==
  ASSUME IInv, Callback, SecondLook
  PROVE  IInv'
<1> USE DEF IInv
<1>1. call.at = "second" /\ call.op # "readdir" /\ call.dir <= NDirs
  BY DEF SecondLook, PlaceInv
<1>2. CASE ~ There
  <2>1. removed
    BY <1>1, <1>2 DEF SeenInv
  <2>2. call' = Throw(call) /\ UNCHANGED setback
    BY <1>2 DEF SecondLook
  <2> QED
    BY <1>1, <2>1, <2>2, ThrowKeeps
<1>3. CASE There
  <2> DEFINE time == disk[call.dir][call.name].time
  <2>1. time \in Nat
    BY <1>3, VersionIs DEF There
  <2>2. /\ UNCHANGED <<disk, present, touched, removed, changes>>
        /\ \A d, n : (Has(d, n)' <=> Has(d, n)) /\ (Still(d, n)' <=> Still(d, n))
        /\ DiskOK'
    BY CallbackKeepsDisk
  <2>3. /\ call' = NextDir([call EXCEPT !.real = call.dir, !.time = time])
        /\ setback' = (setback \/ time < call.looked)
    BY <1>3 DEF SecondLook
  <2> HIDE DEF time
  <2>4. /\ DOMAIN call' = DOMAIN call /\ call'.at = "exists" /\ call'.dir = call.dir + 1
        /\ call'.op = call.op /\ call'.name = call.name
        /\ call'.real = call.dir /\ call'.time = time /\ call'.looked = call.looked
        /\ call'.offset = call.offset /\ call'.asked = call.asked /\ call'.size = call.size
        /\ call'.got = call.got /\ call'.version = call.version
    BY <2>3 DEF NextDir, CallOK
  <2>5. CallOK'
    BY <1>1, <2>1, <2>4, UnionAssumption DEF CallOK, Places
  <2>6. PlaceInv' /\ LookInv' /\ ReadInv' /\ SeenInv'
    BY <1>1, <2>2, <2>4 DEF PlaceInv, LookInv, ReadInv, SeenInv
  <2>7. BestSoFar'
    <3> SUFFICES ASSUME NEW d \in in_dirs, d < call.dir + 1, Still(d, call.name)
                 PROVE  /\ call.dir # 0
                        /\ ~ setback' => IF d < call.dir THEN disk[d][call.name].time < time
                                                         ELSE disk[d][call.name].time <= time
      BY <2>2, <2>4 DEF BestSoFar
    <3>1. call.dir # 0 /\ d \in Nat
      BY DEF CallOK, in_dirs
    <3>2. CASE d = call.dir
      BY <2>1, <3>1, <3>2 DEF time, CallOK
    <3>3. CASE d < call.dir
      <4>1. /\ call.real # 0
            /\ ~ setback => disk[d][call.name].time <= call.time
        <5>1. disk[d][call.name].time \in Nat
          BY VersionIs DEF Still
        <5> QED
          BY <1>1, <3>3, <5>1 DEF BestSoFar, CallOK
      <4>2. call.looked > call.time
        BY <1>1, <4>1 DEF LookInv
      <4>3. disk[d][call.name].time \in Nat
        BY VersionIs DEF Still
      <4>4. ~ setback' => ~ setback /\ call.looked <= time
        <5>1. ~ setback' => ~ setback /\ ~ (time < call.looked)
          BY Zenon, <2>3
        <5>2. ~ (time < call.looked) => call.looked <= time
          BY <2>1 DEF CallOK
        <5> QED
          BY <5>1, <5>2
      <4> QED
        BY <2>1, <3>1, <3>3, <4>1, <4>2, <4>3, <4>4 DEF CallOK
    <3> QED
      BY <3>1, <3>2, <3>3 DEF CallOK
  <2> QED
    BY <2>2, <2>5, <2>6, <2>7
<1> QED
  BY <1>2, <1>3

\* What is seen of a file from `offset` on: no more than it has, no more than asked.
LEMMA HeldIs ==
  ASSUME NEW offset \in Nat, NEW size \in Nat, NEW len \in Nat
  PROVE  /\ Held(offset, size, len) = Cut(offset, size, len)
         /\ Cut(offset, size, len) \in Nat /\ Cut(offset, size, len) <= size
<1>1. Cut(offset, size, len) \in Nat /\ Cut(offset, size, len) <= size
  BY DEF Cut
<1>2. {k \in offset .. offset + size - 1 : k < len} = offset .. offset + Cut(offset, size, len) - 1
  BY DEF Cut
<1>3. Cardinality(offset .. offset + Cut(offset, size, len) - 1) = Cut(offset, size, len)
  <2> DEFINE last == offset + Cut(offset, size, len) - 1
  <2>1. last \in Int /\ offset \in Int
    BY <1>1
  <2>2. Cardinality(offset .. last) = IF offset > last THEN 0 ELSE last - offset + 1
    BY <2>1, FS_Interval
  <2> QED
    BY <1>1, <2>2
<1> QED
  BY <1>1, <1>2, <1>3 DEF Held

\* The answers.  Each ends the call, or goes on to the file chosen.
LEMMA StatKeeps ==
  ASSUME IInv, Callback, Stat, UNCHANGED setback
  PROVE  IInv'
<1> USE DEF IInv
<1>1. /\ UNCHANGED <<disk, present, touched, removed, changes>>
      /\ \A d, n : (Has(d, n)' <=> Has(d, n)) /\ (Still(d, n)' <=> Still(d, n))
      /\ DiskOK'
  BY CallbackKeepsDisk
<1>2. call.op = "getattr" /\ call.at = "exists" /\ call.dir = NDirs + 1
  BY UnionAssumption DEF Stat, After, CallOK
<1>3. call' = [call EXCEPT !.at = "done", !.version = Version]
  BY DEF Stat
<1>4. Version \in Versions \cup {Nothing}
  BY VersionIs DEF Version, Found
<1>5. CallOK'
  BY <1>3, <1>4 DEF CallOK, Places
<1>6. PlaceInv' /\ LookInv' /\ SeenInv'
  BY <1>1, <1>2, <1>3 DEF CallOK, PlaceInv, LookInv, SeenInv
<1>7. BestSoFar'
  BY <1>1, <1>3 DEF BestSoFar, CallOK
<1>8. ReadInv'
  <2>1. Still(call.real, call.name) => Version = disk[call.real][call.name]
    BY DEF Still, Version, Found
  <2>2. /\ call'.op = "getattr" /\ call'.at = "done" /\ call'.version = Version
        /\ call'.real = call.real /\ call'.name = call.name
    BY <1>2, <1>3 DEF CallOK
  <2>3. ServesItsChoice'
    BY <1>1, <2>1, <2>2 DEF ServesItsChoice, Answered
  <2> QED
    BY <2>2, <2>3 DEF ReadInv
<1> QED
  BY <1>1, <1>5, <1>6, <1>7, <1>8

LEMMA IsRegularFileKeeps ==
  ASSUME IInv, Callback, IsRegularFile, UNCHANGED setback
  PROVE  IInv'
<1> USE DEF IInv
<1>1. /\ UNCHANGED <<disk, present, touched, removed, changes>>
      /\ \A d, n : (Has(d, n)' <=> Has(d, n)) /\ (Still(d, n)' <=> Still(d, n))
      /\ DiskOK'
  BY CallbackKeepsDisk
<1>2. call.op = "read" /\ call.at = "exists" /\ call.dir = NDirs + 1
  BY UnionAssumption DEF IsRegularFile, After, CallOK
<1>3. call' = [call EXCEPT !.at = IF Found THEN "file_size" ELSE "done"]
  BY DEF IsRegularFile
<1>4. CallOK'
  BY <1>3 DEF CallOK, Places
<1>5. PlaceInv' /\ LookInv'
  BY <1>2, <1>3 DEF CallOK, PlaceInv, LookInv
<1>6. Found' <=> Found
  BY <1>1, <1>3 DEF Found, CallOK
<1>7. SeenInv'
  BY <1>1, <1>2, <1>3, <1>6 DEF SeenInv, CallOK
<1>8. BestSoFar'
  BY <1>1, <1>3 DEF BestSoFar, CallOK
<1>9. ReadInv'
  <2>1. CASE Found
    BY <1>2, <1>3, <2>1 DEF ReadInv, CallOK
  <2>2. CASE ~ Found
    <3>1. ~ Still(call.real, call.name)'
      BY <1>1, <1>3, <2>2 DEF Still, Found, CallOK
    <3>2. ServesItsChoice'
      BY <3>1 DEF ServesItsChoice
    <3> QED
      BY <1>2, <1>3, <2>2, <3>2 DEF ReadInv, CallOK
  <2> QED
    BY <2>1, <2>2
<1> QED
  BY <1>1, <1>4, <1>5, <1>7, <1>8, <1>9

LEMMA FileSizeKeeps ==
  ASSUME IInv, Callback, FileSize, UNCHANGED setback
  PROVE  IInv'
<1> USE DEF IInv
<1>1. /\ UNCHANGED <<disk, present, touched, removed, changes>>
      /\ \A d, n : (Has(d, n)' <=> Has(d, n)) /\ (Still(d, n)' <=> Still(d, n))
      /\ DiskOK'
  BY CallbackKeepsDisk
<1>2. call.op = "read" /\ call.at = "file_size" /\ call.dir = NDirs + 1
  BY DEF FileSize, PlaceInv
<1>3. CASE ~ Found
  <2>1. removed
    BY <1>2, <1>3 DEF SeenInv
  <2>2. call' = Throw(call)
    BY <1>3 DEF FileSize
  <2> QED
    BY <1>2, <2>1, <2>2, ThrowKeeps
<1>4. CASE Found
  <2> DEFINE len == disk[call.real][call.name].len
  <2>1. PICK offset, size \in Sizes :
          call' = [call EXCEPT !.at = IF offset >= len THEN "done" ELSE "open",
                               !.offset = offset, !.asked = size,
                               !.size = Cut(offset, size, len)]
    BY <1>4 DEF FileSize, Version
  <2>2. len \in Nat /\ offset \in Nat /\ size \in Nat
    BY <1>4, VersionIs, UnionAssumption DEF Found
  <2>3. /\ Held(offset, size, len) = Cut(offset, size, len)
        /\ Cut(offset, size, len) \in Nat /\ Cut(offset, size, len) <= size
    BY <2>2, HeldIs
  <2> HIDE DEF len
  <2>4. /\ DOMAIN call' = DOMAIN call /\ call'.dir = call.dir
        /\ call'.at = (IF offset >= len THEN "done" ELSE "open")
        /\ call'.op = call.op /\ call'.name = call.name
        /\ call'.real = call.real /\ call'.time = call.time /\ call'.looked = call.looked
        /\ call'.offset = offset /\ call'.asked = size /\ call'.size = Cut(offset, size, len)
        /\ call'.got = call.got /\ call'.version = call.version
    BY <2>1 DEF CallOK
  <2>5. CallOK'
    BY <2>2, <2>3, <2>4 DEF CallOK, Places
  <2>6. PlaceInv' /\ LookInv' /\ SeenInv'
    BY <1>1, <1>2, <2>4 DEF PlaceInv, LookInv, SeenInv
  <2>7. BestSoFar'
    BY <1>1, <2>4 DEF BestSoFar
  <2>8. ReadInv'
    <3>1. len' = len
      BY <1>1, <2>4 DEF len
    <3>2. CASE offset >= len
      <4>1. Cut(offset, size, len) = 0 /\ call'.got = 0
        <5>1. offset + size <= len => size = 0
          BY <2>2, <3>2
        <5>2. Cut(offset, size, len) = 0
          BY <3>2, <5>1 DEF Cut
        <5>3. call'.got = 0
          BY <1>2, <2>4 DEF ReadInv
        <5> QED
          BY <5>2, <5>3
      <4>2. ServesItsChoice'
        BY <1>1, <1>2, <2>3, <2>4, <3>1, <4>1 DEF ServesItsChoice, Answered, len
      <4> QED
        BY <2>4, <3>2, <4>1, <4>2 DEF ReadInv
    <3>3. CASE ~ (offset >= len)
      <4>1. offset < len
        BY <2>2, <3>3
      <4> QED
        BY <1>1, <1>2, <2>4, <3>1, <3>3, <4>1 DEF ReadInv, len
    <3> QED
      BY <3>2, <3>3
  <2> QED
    BY <1>1, <2>5, <2>6, <2>7, <2>8
<1> QED
  BY <1>3, <1>4

LEMMA OpenAndReadKeeps ==
  ASSUME IInv, Callback, OpenAndRead, UNCHANGED setback
  PROVE  IInv'
<1> USE DEF IInv
<1>1. /\ UNCHANGED <<disk, present, touched, removed, changes>>
      /\ \A d, n : (Has(d, n)' <=> Has(d, n)) /\ (Still(d, n)' <=> Still(d, n))
      /\ DiskOK'
  BY CallbackKeepsDisk
<1>2. call.op = "read" /\ call.at = "open" /\ call.dir = NDirs + 1
  BY DEF OpenAndRead, PlaceInv
<1> DEFINE got == Held(call.offset, call.size, Version.len)
<1>3. call' = [call EXCEPT !.at = "done", !.version = Version, !.got = got]
  BY DEF OpenAndRead
<1> HIDE DEF got
<1>4. Version \in Versions \cup {Nothing}
  BY VersionIs DEF Version, Found
<1>5. /\ DOMAIN call' = DOMAIN call /\ call'.dir = call.dir /\ call'.at = "done"
      /\ call'.op = call.op /\ call'.name = call.name
      /\ call'.real = call.real /\ call'.time = call.time /\ call'.looked = call.looked
      /\ call'.offset = call.offset /\ call'.asked = call.asked /\ call'.size = call.size
      /\ call'.got = got /\ call'.version = Version
  BY <1>3 DEF CallOK
<1>6. CallOK'
  BY <1>4, <1>5 DEF CallOK, Places
<1>7. PlaceInv' /\ LookInv' /\ SeenInv'
  BY <1>1, <1>2, <1>5 DEF PlaceInv, LookInv, SeenInv
<1>8. BestSoFar'
  BY <1>1, <1>5 DEF BestSoFar
<1>9. ServesItsChoice'
  <2> SUFFICES ASSUME Still(call.real, call.name)
               PROVE  call.size = got
                      /\ got = Held(call.offset, call.asked, disk[call.real][call.name].len)
    BY <1>1, <1>2, <1>5 DEF ServesItsChoice, Answered
  <2> DEFINE len == disk[call.real][call.name].len
  <2>1. len \in Nat /\ Version.len = len
    BY VersionIs DEF Still, Version, Found
  <2>2. call.offset < len /\ call.size = Cut(call.offset, call.asked, len)
    BY <1>2 DEF ReadInv
  <2> HIDE DEF len
  <2>3. Held(call.offset, call.asked, len) = call.size
    BY <2>1, <2>2, HeldIs DEF CallOK
  <2>4. Cut(call.offset, call.size, len) = call.size
    BY <2>1, <2>2 DEF Cut, CallOK
  <2>5. got = call.size
    BY <2>1, <2>4, HeldIs DEF got, CallOK
  <2> QED
    BY <2>3, <2>5 DEF len
<1>10. ReadInv'
  BY <1>5, <1>9 DEF ReadInv
<1> QED
  BY <1>1, <1>6, <1>7, <1>8, <1>10

\* Listing a directory.
LEMMA ReadDirKeeps ==
  ASSUME IInv, Callback, IsDirectory \/ DirectoryIterator \/ EndOfListing, UNCHANGED setback
  PROVE  IInv'
<1> USE DEF IInv
<1>1. /\ UNCHANGED <<disk, present, touched, removed, changes>>
      /\ \A d, n : (Has(d, n)' <=> Has(d, n)) /\ (Still(d, n)' <=> Still(d, n))
      /\ DiskOK'
  BY CallbackKeepsDisk
<1>2. CASE IsDirectory
  <2>1. CASE call.dir \in present
    <3>1. call' = [call EXCEPT !.at = "iterate"]
      BY <1>2, <2>1 DEF IsDirectory
    <3>2. CallOK' /\ PlaceInv' /\ LookInv' /\ ReadInv'
      BY <1>2, <3>1 DEF IsDirectory, CallOK, Places, PlaceInv, LookInv, ReadInv
    <3>3. SeenInv' /\ BestSoFar'
      BY <1>1, <1>2, <2>1, <3>1 DEF IsDirectory, CallOK, SeenInv, BestSoFar
    <3> QED
      BY <1>1, <3>2, <3>3
  <2>2. CASE call.dir \notin present
    BY <1>2, <2>2, NextDirKeeps DEF IsDirectory
  <2> QED
    BY <2>1, <2>2
<1>3. CASE DirectoryIterator
  <2>0. call.at = "iterate" /\ call.op = "readdir" /\ call.dir <= NDirs
    BY <1>3 DEF DirectoryIterator, PlaceInv
  <2>1. CASE call.dir \in present
    <3> DEFINE listing == call.listing \o NewNames(call)
    <3>1. call' = NextDir([call EXCEPT !.listing = listing])
      BY <1>3, <2>1 DEF DirectoryIterator
    <3> HIDE DEF listing
    <3>2. /\ DOMAIN call' = DOMAIN call /\ call'.at = "exists" /\ call'.dir = call.dir + 1
          /\ call'.op = call.op /\ call'.name = call.name
          /\ call'.real = call.real /\ call'.time = call.time /\ call'.looked = call.looked
          /\ call'.offset = call.offset /\ call'.asked = call.asked /\ call'.size = call.size
          /\ call'.got = call.got /\ call'.version = call.version
      BY <3>1 DEF NextDir, CallOK
    <3>3. CallOK'
      BY <2>0, <3>2, UnionAssumption DEF CallOK, Places
    <3>4. PlaceInv' /\ LookInv' /\ ReadInv' /\ SeenInv' /\ BestSoFar'
      BY <1>1, <2>0, <3>2 DEF PlaceInv, LookInv, ReadInv, SeenInv, BestSoFar
    <3> QED
      BY <1>1, <3>3, <3>4
  <2>2. CASE call.dir \notin present
    <3>1. removed
      BY <2>0, <2>2 DEF SeenInv
    <3>2. call' = Throw(call)
      BY <1>3, <2>2 DEF DirectoryIterator
    <3> QED
      BY <2>0, <3>1, <3>2, ThrowKeeps
  <2> QED
    BY <2>1, <2>2
<1>4. CASE EndOfListing
  <2>1. call.op = "readdir" /\ call.at = "exists" /\ call.dir = NDirs + 1
    BY <1>4, UnionAssumption DEF EndOfListing, After, CallOK
  <2>2. call' = [call EXCEPT !.at = "done"]
    BY <1>4 DEF EndOfListing
  <2>3. CallOK' /\ PlaceInv' /\ LookInv'
    BY <2>1, <2>2 DEF CallOK, Places, PlaceInv, LookInv
  <2>4. SeenInv' /\ BestSoFar'
    BY <1>1, <2>1, <2>2 DEF CallOK, SeenInv, BestSoFar
  <2>5. ReadInv'
    BY <2>1, <2>2 DEF CallOK, ReadInv, ServesItsChoice, Answered
  <2> QED
    BY <1>1, <2>3, <2>4, <2>5
<1> QED
  BY <1>2, <1>3, <1>4

LEMMA StepKeeps == IInv /\ [Next]_vars => IInv'
<1> SUFFICES ASSUME IInv, [Next]_vars
             PROVE  IInv'
  OBVIOUS
<1>1. CASE Callback
  <2>1. CASE SecondLook
    BY <1>1, <2>1, SecondLookKeeps
  <2>2. CASE UNCHANGED setback /\ Exists
    BY <1>1, <2>2, ExistsKeeps
  <2>3. CASE UNCHANGED setback /\ FirstLook
    BY <1>1, <2>3, FirstLookKeeps
  <2>4. CASE UNCHANGED setback /\ Stat
    BY <1>1, <2>4, StatKeeps
  <2>5. CASE UNCHANGED setback /\ IsRegularFile
    BY <1>1, <2>5, IsRegularFileKeeps
  <2>6. CASE UNCHANGED setback /\ FileSize
    BY <1>1, <2>6, FileSizeKeeps
  <2>7. CASE UNCHANGED setback /\ OpenAndRead
    BY <1>1, <2>7, OpenAndReadKeeps
  <2>8. CASE UNCHANGED setback /\ (IsDirectory \/ DirectoryIterator \/ EndOfListing)
    BY <1>1, <2>8, ReadDirKeeps
  <2> QED
    BY <1>1, <2>1, <2>2, <2>3, <2>4, <2>5, <2>6, <2>7, <2>8 DEF Callback
<1>2. CASE Others
  BY <1>2, OthersKeep
<1>3. CASE UNCHANGED vars
  BY <1>3 DEF vars, IInv, CallOK, DiskOK, PlaceInv, SeenInv, BestSoFar, LookInv, ReadInv,
              There, Found, Has, Still, ServesItsChoice, Answered
<1> QED
  BY <1>1, <1>2, <1>3 DEF Next, Others

-----------------------------------------------------------------------------
(* Listings.  Their invariant needs the one above and not the other way    *)
(* round, so the two are proved one after the other.                       *)

\* A directory that is gone has no entries.
GoneInv == \A d \in in_dirs \ present : disk[d] = <<>>

\* Untouched names are listed if a directory passed has them.
ListedInv ==
  call.op = "readdir" => \A n \in Names : (\A d \in in_dirs : <<d, n>> \notin touched) =>
    (n \in ToSet(call.listing) <=> \E d \in in_dirs : d < call.dir /\ Has(d, n))

LInv ==
  /\ GoneInv
  /\ call.listing \in Seq(Names) /\ IsInjective(call.listing)
  /\ ListedInv

\* The sequence made of a finite set has its elements, each once.
LEMMA SetToSeqLists ==
  ASSUME NEW S, IsFiniteSet(S)
  PROVE  /\ SetToSeq(S) \in Seq(S) /\ IsInjective(SetToSeq(S))
         /\ ToSet(SetToSeq(S)) = S
<1> DEFINE n == Cardinality(S)
           f == SetToSeq(S)
<1>1. n \in Nat /\ ExistsBijection(1 .. n, S)
  BY FS_CardinalityType
<1>2. PICK g : g \in Bijection(1 .. n, S)
  BY <1>1 DEF ExistsBijection
<1>3. g \in [1 .. n -> S] /\ \A a, b \in 1 .. n : g[a] = g[b] => a = b
  BY <1>2, Fun_BijectionProperties
<1>4. \E h \in [1 .. n -> S] : IsInjective(h)
  BY <1>3 DEF IsInjective
<1>5. f \in [1 .. n -> S] /\ IsInjective(f)
  BY <1>4 DEF SetToSeq
<1> HIDE DEF f, n
<1>6. f \in Injection(1 .. n, S)
  BY <1>5 DEF Injection
<1>7. Cardinality(1 .. n) = Cardinality(S)
  BY <1>1, FS_Interval DEF n
<1>8. f \in Surjection(1 .. n, S)
  BY <1>6, <1>7, FS_Injection
<1>9. ToSet(f) = S
  BY <1>5, <1>8 DEF Surjection, ToSet
<1>10. f \in Seq(S)
  BY <1>1, <1>5
<1> QED
  BY <1>5, <1>9, <1>10 DEF f

\* Two listings without a name in common, one after the other.
LEMMA Concatenated ==
  ASSUME NEW s \in Seq(Names), NEW t \in Seq(Names), IsInjective(s), IsInjective(t),
         ToSet(s) \cap ToSet(t) = {}
  PROVE  /\ s \o t \in Seq(Names) /\ IsInjective(s \o t)
         /\ ToSet(s \o t) = ToSet(s) \cup ToSet(t)
<1> DEFINE u == s \o t
<1>1. /\ u \in Seq(Names) /\ Len(u) = Len(s) + Len(t) /\ Len(s) \in Nat /\ Len(t) \in Nat
      /\ DOMAIN u = 1 .. Len(u) /\ DOMAIN s = 1 .. Len(s) /\ DOMAIN t = 1 .. Len(t)
  OBVIOUS
<1>2. /\ \A i \in DOMAIN s : i \in DOMAIN u /\ u[i] = s[i]
      /\ \A i \in DOMAIN t : i + Len(s) \in DOMAIN u /\ u[i + Len(s)] = t[i]
  BY <1>1
<1>3. \A i \in DOMAIN u :
        \/ i \in DOMAIN s /\ u[i] = s[i]
        \/ i - Len(s) \in DOMAIN t /\ u[i] = t[i - Len(s)]
  BY <1>1
<1> HIDE DEF u
<1>4. ToSet(u) = ToSet(s) \cup ToSet(t)
  <2>1. ToSet(s) \subseteq ToSet(u)
    BY <1>2 DEF ToSet
  <2>2. ToSet(t) \subseteq ToSet(u)
    BY <1>2 DEF ToSet
  <2>3. ToSet(u) \subseteq ToSet(s) \cup ToSet(t)
    BY <1>3 DEF ToSet
  <2> QED
    BY <2>1, <2>2, <2>3
<1>5. ASSUME NEW a \in DOMAIN u, NEW b \in DOMAIN u, u[a] = u[b]
      PROVE  a = b
  <2>1. \A i \in DOMAIN s, j \in DOMAIN t : s[i] # t[j]
    BY DEF ToSet
  <2>2. a \in DOMAIN s <=> b \in DOMAIN s
    BY <1>3, <1>5, <2>1
  <2>3. CASE a \in DOMAIN s
    BY <1>2, <1>5, <2>2, <2>3 DEF IsInjective
  <2>4. CASE a \notin DOMAIN s
    <3>1. a - Len(s) = b - Len(s)
      BY <1>3, <1>5, <2>2, <2>4 DEF IsInjective
    <3> QED
      BY <1>1, <3>1
  <2> QED
    BY <2>3, <2>4
<1> QED
  BY <1>1, <1>4, <1>5 DEF IsInjective, u

LEMMA InitLInv == Init => LInv
<1> SUFFICES ASSUME Init PROVE LInv
  OBVIOUS
<1>1. call.listing = <<>> /\ call.dir = 1
  BY DEF Init
<1>2. ToSet(<<>>) = {} /\ <<>> \in Seq(Names) /\ IsInjective(<<>>)
  BY DEF ToSet, IsInjective
<1>3. ListedInv
  BY <1>1, <1>2 DEF ListedInv, in_dirs
<1> QED
  BY <1>1, <1>2, <1>3 DEF Init, LInv, GoneInv

\* An entry nobody has touched is there if it was, and what goes leaves nothing.
LEMMA OthersLeave ==
  ASSUME DiskOK, GoneInv, Others
  PROVE  /\ GoneInv'
         /\ \A d \in in_dirs : \A n : <<d, n>> \notin touched' =>
              <<d, n>> \notin touched /\ (Has(d, n)' <=> Has(d, n))
<1> USE DEF Others, Has
<1>1. CASE Put
  <2>1. PICK d \in present, n \in Names, v \in Versions :
          /\ disk' = [disk EXCEPT ![d] = [m \in DOMAIN @ \cup {n} |-> IF m = n THEN v ELSE @[m]]]
          /\ touched' = touched \cup {<<d, n>>}
    BY <1>1 DEF Put
  <2>2. present' = present
    BY <1>1 DEF Put
  <2>3. GoneInv'
    BY <2>1, <2>2 DEF GoneInv, DiskOK
  <2>4. ASSUME NEW e \in in_dirs, NEW m, <<e, m>> \notin touched'
        PROVE  <<e, m>> \notin touched /\ (Has(e, m)' <=> Has(e, m))
    BY <2>1, <2>4 DEF DiskOK
  <2> QED
    BY <2>3, <2>4
<1>2. CASE RemoveFile
  <2>1. PICK d \in present : \E n \in DOMAIN disk[d] :
          /\ disk' = [disk EXCEPT ![d] = [m \in DOMAIN @ \ {n} |-> @[m]]]
          /\ touched' = touched \cup {<<d, n>>}
    BY <1>2 DEF RemoveFile
  <2>2. present' = present
    BY <1>2 DEF RemoveFile
  <2>3. GoneInv'
    BY <2>1, <2>2 DEF GoneInv, DiskOK
  <2>4. ASSUME NEW e \in in_dirs, NEW m, <<e, m>> \notin touched'
        PROVE  <<e, m>> \notin touched /\ (Has(e, m)' <=> Has(e, m))
    BY <2>1, <2>4 DEF DiskOK
  <2> QED
    BY <2>3, <2>4
<1>3. CASE RemoveDir
  <2>1. PICK d \in present :
          /\ present' = present \ {d}
          /\ disk' = [disk EXCEPT ![d] = <<>>]
          /\ touched' = touched \cup ({d} \X DOMAIN disk[d])
    BY <1>3 DEF RemoveDir
  <2>2. DOMAIN <<>> = {}
    OBVIOUS
  <2>3. GoneInv'
    BY <2>1 DEF GoneInv, DiskOK
  <2>4. ASSUME NEW e \in in_dirs, NEW m, <<e, m>> \notin touched'
        PROVE  <<e, m>> \notin touched /\ (Has(e, m)' <=> Has(e, m))
    BY <2>1, <2>2, <2>4 DEF DiskOK
  <2> QED
    BY <2>3, <2>4
<1>4. CASE MakeDir
  BY <1>4 DEF MakeDir, GoneInv
<1> QED
  BY <1>1, <1>2, <1>3, <1>4

\* What others do leaves the listing as good as it was.
LEMMA OthersKeepListing ==
  ASSUME IInv, LInv, Others
  PROVE  LInv'
<1>1. /\ GoneInv'
      /\ \A d \in in_dirs : \A n : <<d, n>> \notin touched' =>
           <<d, n>> \notin touched /\ (Has(d, n)' <=> Has(d, n))
  BY OthersLeave DEF IInv, LInv
<1>2. call' = call
  BY OthersTouch DEF IInv
<1>3. ListedInv'
  <2> SUFFICES ASSUME call.op = "readdir", NEW n \in Names,
                      \A d \in in_dirs : <<d, n>> \notin touched'
               PROVE  n \in ToSet(call.listing) <=> \E d \in in_dirs : d < call.dir /\ Has(d, n)'
    BY <1>2 DEF ListedInv, in_dirs
  <2>1. \A d \in in_dirs : <<d, n>> \notin touched /\ (Has(d, n)' <=> Has(d, n))
    BY <1>1
  <2> QED
    BY <2>1 DEF LInv, ListedInv
<1> QED
  BY <1>1, <1>2, <1>3 DEF LInv

\* So does a step of a callback that leaves it alone and passes no directory that
\* has anything to list.
LEMMA PassingKeepsListing ==
  ASSUME IInv, LInv, Callback,
         call'.op = call.op, call'.listing = call.listing,
         \/ call.op # "readdir"
         \/ call'.dir = call.dir
         \/ call'.dir = call.dir + 1 /\ call.dir \in in_dirs \ present
  PROVE  LInv'
<1>1. /\ UNCHANGED <<disk, present, touched>>
      /\ \A d, n : Has(d, n)' <=> Has(d, n)
  BY CallbackKeepsDisk DEF IInv
<1>2. GoneInv'
  BY <1>1 DEF LInv, GoneInv, in_dirs
<1>3. ListedInv'
  <2> SUFFICES ASSUME call.op = "readdir", NEW n \in Names,
                      \A d \in in_dirs : <<d, n>> \notin touched
               PROVE  n \in ToSet(call.listing)
                        <=> \E d \in in_dirs : d < call'.dir /\ Has(d, n)
    BY <1>1 DEF ListedInv, in_dirs
  <2>1. n \in ToSet(call.listing) <=> \E d \in in_dirs : d < call.dir /\ Has(d, n)
    BY DEF LInv, ListedInv
  <2>2. CASE call'.dir = call.dir
    BY <2>1, <2>2
  <2>3. CASE call'.dir = call.dir + 1 /\ call.dir \in in_dirs \ present
    <3>1. ~ Has(call.dir, n)
      BY <2>3 DEF LInv, GoneInv, Has
    <3>2. \A d \in in_dirs : d < call'.dir <=> d < call.dir \/ d = call.dir
      BY <2>3 DEF in_dirs
    <3> QED
      BY <2>1, <3>1, <3>2
  <2> QED
    BY <2>2, <2>3
<1> QED
  BY <1>2, <1>3 DEF LInv

\* A directory that is iterated adds the names it has and no other directory had.
LEMMA IteratorKeepsListing ==
  ASSUME IInv, LInv, Callback, DirectoryIterator, call.dir \in present
  PROVE  LInv'
<1> DEFINE new == DOMAIN disk[call.dir] \ ToSet(call.listing)
<1>1. /\ UNCHANGED <<disk, present, touched>>
      /\ \A d, n : Has(d, n)' <=> Has(d, n)
  BY CallbackKeepsDisk DEF IInv
<1>2. GoneInv'
  BY <1>1 DEF LInv, GoneInv, in_dirs
<1>3. call.dir \in in_dirs /\ call.op = "readdir"
  BY DEF IInv, DiskOK, DirectoryIterator, PlaceInv
<1>4. new \in SUBSET Names /\ IsFiniteSet(new)
  <2>1. PICK S \in SUBSET Names : disk[call.dir] \in [S -> Versions]
    BY <1>3 DEF IInv, DiskOK, Contents
  <2>2. new \in SUBSET Names
    BY <2>1
  <2> QED
    BY <2>2, FS_Subset, UnionAssumption
<1>5. NewNames(call) = SetToSeq(new)
  BY DEF NewNames
<1>6. call'.op = call.op /\ call'.dir = call.dir + 1
      /\ call'.listing = call.listing \o SetToSeq(new)
  BY <1>5 DEF DirectoryIterator, NextDir, IInv, CallOK
<1> HIDE DEF new
<1>7. /\ SetToSeq(new) \in Seq(Names) /\ IsInjective(SetToSeq(new))
      /\ ToSet(SetToSeq(new)) = new
  <2>1. SetToSeq(new) \in Seq(new) /\ IsInjective(SetToSeq(new)) /\ ToSet(SetToSeq(new)) = new
    BY <1>4, SetToSeqLists
  <2>2. Seq(new) \subseteq Seq(Names)
    BY <1>4
  <2> QED
    BY <2>1, <2>2
<1>8. ToSet(call.listing) \cap ToSet(SetToSeq(new)) = {}
  BY <1>7 DEF new
<1>9. /\ call'.listing \in Seq(Names) /\ IsInjective(call'.listing)
      /\ ToSet(call'.listing) = ToSet(call.listing) \cup new
  BY <1>6, <1>7, <1>8, Concatenated DEF LInv
<1>10. ListedInv'
  <2> SUFFICES ASSUME NEW n \in Names, \A d \in in_dirs : <<d, n>> \notin touched
               PROVE  n \in ToSet(call'.listing)
                        <=> \E d \in in_dirs : d < call'.dir /\ Has(d, n)
    BY <1>1 DEF ListedInv, in_dirs
  <2>1. n \in ToSet(call.listing) <=> \E d \in in_dirs : d < call.dir /\ Has(d, n)
    BY <1>3 DEF LInv, ListedInv
  <2>2. n \in ToSet(call'.listing) <=> n \in ToSet(call.listing) \/ Has(call.dir, n)
    BY <1>3, <1>9 DEF new, Has
  <2>3. \A d \in in_dirs : d < call'.dir <=> d < call.dir \/ d = call.dir
    BY <1>3, <1>6 DEF in_dirs
  <2> QED
    BY <1>3, <2>1, <2>2, <2>3
<1> QED
  BY <1>2, <1>9, <1>10 DEF LInv

LEMMA StepKeepsListing == IInv /\ LInv /\ [Next]_vars => LInv'
<1> SUFFICES ASSUME IInv, LInv, [Next]_vars
             PROVE  LInv'
  OBVIOUS
<1>1. CASE Callback
  <2> USE DEF NextDir, Throw
  <2>0. CallOK
    BY DEF IInv
  <2>1. CASE Exists \/ FirstLook \/ SecondLook
    <3>1. call.op # "readdir" /\ call'.op = call.op /\ call'.listing = call.listing
      BY <2>0, <2>1 DEF CallOK, Exists, Searching, FirstLook, SecondLook, IInv, PlaceInv
    <3> QED
      BY <1>1, <3>1, PassingKeepsListing
  <2>2. CASE Stat \/ IsRegularFile \/ FileSize \/ OpenAndRead
    <3>1. call.op # "readdir" /\ call'.op = call.op /\ call'.listing = call.listing
      BY <2>0, <2>2 DEF CallOK, Stat, IsRegularFile, FileSize, OpenAndRead, After, IInv, PlaceInv
    <3> QED
      BY <1>1, <3>1, PassingKeepsListing
  <2>3. CASE IsDirectory
    <3>1. call.dir \in in_dirs /\ call'.op = call.op /\ call'.listing = call.listing
          /\ (call'.dir = call.dir \/ (call'.dir = call.dir + 1 /\ call.dir \notin present))
      BY <2>0, <2>3, UnionAssumption DEF CallOK, IsDirectory, in_dirs
    <3> QED
      BY <1>1, <3>1, PassingKeepsListing
  <2>4. CASE DirectoryIterator /\ call.dir \in present
    BY <1>1, <2>4, IteratorKeepsListing
  <2>5. CASE DirectoryIterator /\ call.dir \notin present
    <3>1. call'.op = call.op /\ call'.listing = call.listing /\ call'.dir = call.dir
      BY <2>0, <2>5 DEF CallOK, DirectoryIterator
    <3> QED
      BY <1>1, <3>1, PassingKeepsListing
  <2>6. CASE EndOfListing
    <3>1. call'.op = call.op /\ call'.listing = call.listing /\ call'.dir = call.dir
      BY <2>0, <2>6 DEF CallOK, EndOfListing
    <3> QED
      BY <1>1, <3>1, PassingKeepsListing
  <2> QED
    BY <1>1, <2>1, <2>2, <2>3, <2>4, <2>5, <2>6 DEF Callback
<1>2. CASE Others
  BY <1>2, OthersKeepListing
<1>3. CASE UNCHANGED vars
  BY <1>3 DEF vars, LInv, GoneInv, ListedInv, Has, in_dirs
<1> QED
  BY <1>1, <1>2, <1>3 DEF Next, Others

-----------------------------------------------------------------------------
(* The theorems about the union.                                           *)

\* The inductive invariant holds throughout every call.
THEOREM Invariance == Spec => []IInv
<1>1. Init => IInv
  BY InitIInv
<1>2. IInv /\ [Next]_vars => IInv'
  BY StepKeeps
<1> QED
  BY <1>1, <1>2, PTL DEF Spec

\* The variables have their types.
THEOREM Typing == Spec => []TypeOK
<1>1. IInv => TypeOK
  BY UnionAssumption DEF IInv, CallOK, DiskOK, Places, TypeOK
<1> QED
  BY <1>1, Invariance, PTL

\* getattr and read answer from the newest of the entries left alone, or one as
\* good, for any number of directories (inf24-1/main.cpp:42-64, 134-151).
THEOREM NewestAnswers == Spec => []AnswersFromNewest
<1>1. IInv => AnswersFromNewest
  <2> SUFFICES ASSUME IInv, Answered("getattr") \/ Answered("read")
               PROVE  NewestOfStill /\ ServesItsChoice
    BY DEF AnswersFromNewest
  <2>1. call.at = "done" /\ call.op # "readdir" /\ call.dir = NDirs + 1
    BY DEF Answered, IInv, PlaceInv
  <2>2. \A d \in in_dirs : d < call.dir
    BY <2>1, UnionAssumption DEF in_dirs
  <2>3. NewestOfStill
    BY <2>1, <2>2 DEF IInv, BestSoFar, NewestOfStill
  <2> QED
    BY <2>1, <2>3 DEF IInv, ReadInv
<1> QED
  BY <1>1, Invariance, PTL

\* Only a removal during a call makes it throw (lines 56-59, 107-109, 135-139).
THEOREM OnlyRemovalKills == Spec => []DiesOnlyOfRemoval
<1>1. IInv => DiesOnlyOfRemoval
  BY DEF IInv, SeenInv, DiesOnlyOfRemoval
<1> QED
  BY <1>1, Invariance, PTL
\* A listing has no name twice, and of the names left alone exactly those that
\* some directory has, for any number of directories (lines 101-119).
THEOREM EachNameOnce == Spec => []ListsEachNameOnce
<1>1. Init => LInv
  BY InitLInv
<1>2. IInv /\ LInv /\ [Next]_vars => LInv'
  BY StepKeepsListing
<1>3. IInv /\ LInv => ListsEachNameOnce
  <2> SUFFICES ASSUME IInv, LInv, Answered("readdir")
               PROVE  ListsEachNameOnce
    BY DEF ListsEachNameOnce
  <2>1. call.op = "readdir" /\ call.dir = NDirs + 1
    BY DEF Answered, IInv, PlaceInv
  <2>2. \A d \in in_dirs : d < call.dir
    BY <2>1, UnionAssumption DEF in_dirs
  <2> QED
    BY <2>1, <2>2 DEF LInv, ListedInv, ListsEachNameOnce
<1> QED
  BY <1>1, <1>2, <1>3, Invariance, PTL DEF Spec

-----------------------------------------------------------------------------
(* Induction, on sets of numbers.                                          *)

LEMMA Induction ==
  ASSUME NEW S \in SUBSET Nat, 0 \in S, \A n \in S : n + 1 \in S
  PROVE  S = Nat
<1> DEFINE R == {pair \in Nat \X Nat : pair[1] < pair[2]}
<1> SUFFICES ASSUME Nat \ S # {} PROVE FALSE
  OBVIOUS
<1>1. IsWellFoundedOn(R, Nat)
  BY NatLessThanWellFounded DEF OpToRel
<1> HIDE DEF R
<1>2. PICK n \in Nat \ S : \A m \in Nat \ S : ~ (<<m, n>> \in R)
  BY <1>1, WFMin
<1>3. \A m \in Nat \ S : ~ (m < n)
  BY <1>2 DEF R
<1>4. n - 1 \in Nat /\ n - 1 < n
  OBVIOUS
<1>5. n - 1 \in S
  BY <1>3, <1>4
<1> QED
  BY <1>4, <1>5

-----------------------------------------------------------------------------
(* Where the files of the archive begin (inf24-0/main.c:157-163).          *)

\* n things that belong to x.
LEMMA Column ==
  ASSUME NEW x, NEW n \in Nat
  PROVE  IsFiniteSet({x} \X (1 .. n)) /\ Cardinality({x} \X (1 .. n)) = n
<1>1. IsFiniteSet({x}) /\ Cardinality({x}) = 1
  BY FS_Singleton
<1>2. IsFiniteSet(1 .. n) /\ Cardinality(1 .. n) = n
  BY FS_Interval
<1>3. /\ IsFiniteSet({x} \X (1 .. n))
      /\ Cardinality({x} \X (1 .. n)) = Cardinality({x}) * Cardinality(1 .. n)
  BY Zenon, <1>1, <1>2, FS_Product
<1> QED
  BY <1>1, <1>2, <1>3

BytesBefore(i) == {b \in Bytes : b[1] < i}

LEMMA FilesAre ==
  /\ Len(FILE_SIZE) \in Nat /\ Files = 1 .. Len(FILE_SIZE)
  /\ 1 \in Files
  /\ \A f \in Files : FILE_SIZE[f] \in Nat
BY ArchiveAssumption DEF Files

\* Before a file lie the file before it and what lies before that.
LEMMA NextFile ==
  ASSUME NEW f \in Files, IsFiniteSet(BytesBefore(f))
  PROVE  /\ IsFiniteSet(BytesBefore(f + 1))
         /\ Cardinality(BytesBefore(f)) \in Nat
         /\ Cardinality(BytesBefore(f + 1)) = Cardinality(BytesBefore(f)) + FILE_SIZE[f]
<1> DEFINE file == {f} \X (1 .. FILE_SIZE[f])
<1>1. FILE_SIZE[f] \in Nat /\ f \in Nat
  BY FilesAre
<1>2. IsFiniteSet(file) /\ Cardinality(file) = FILE_SIZE[f]
  BY <1>1, Column
<1>3. BytesBefore(f + 1) = BytesBefore(f) \cup file
  <2>1. \A b \in Bytes : b[1] \in Nat /\ (b[1] = f <=> b \in file)
    BY FilesAre DEF Bytes
  <2>2. file \subseteq Bytes
    BY DEF Bytes
  <2>3. \A b \in Bytes : b[1] < f + 1 <=> b[1] < f \/ b[1] = f
    BY <1>1, <2>1
  <2> HIDE DEF file
  <2> QED
    BY <2>1, <2>2, <2>3 DEF BytesBefore
<1>4. BytesBefore(f) \cap file = {}
  BY <1>1 DEF BytesBefore
<1>5. Cardinality(BytesBefore(f)) \in Nat
  BY FS_CardinalityType
<1>6. Cardinality({}) = 0
  BY FS_EmptySet
<1> HIDE DEF file
<1>7. /\ IsFiniteSet(BytesBefore(f) \cup file)
      /\ Cardinality(BytesBefore(f) \cup file) =
           Cardinality(BytesBefore(f)) + Cardinality(file) - Cardinality(BytesBefore(f) \cap file)
  BY Zenon, <1>2, FS_Union
<1>8. /\ IsFiniteSet(BytesBefore(f + 1))
      /\ Cardinality(BytesBefore(f + 1)) = Cardinality(BytesBefore(f)) + FILE_SIZE[f] - 0
  BY Zenon, <1>2, <1>3, <1>4, <1>6, <1>7
<1> QED
  BY <1>1, <1>5, <1>8

\* The bytes before a file are finitely many, and none before the first.
LEMMA BytesBeforeFinite ==
  /\ BytesBefore(1) = {}
  /\ \A f \in Files : IsFiniteSet(BytesBefore(f)) /\ IsFiniteSet(BytesBefore(f + 1))
  /\ BytesBefore(Len(FILE_SIZE) + 1) = Bytes
  /\ IsFiniteSet(Bytes)
<1> DEFINE S == {n \in Nat : n <= Len(FILE_SIZE) => IsFiniteSet(BytesBefore(n + 1))}
<1>0. \A b \in Bytes : b[1] \in 1 .. Len(FILE_SIZE)
  BY FilesAre DEF Bytes
<1>1. BytesBefore(1) = {}
  BY <1>0 DEF BytesBefore
<1>2. 0 \in S
  <2>1. IsFiniteSet(BytesBefore(0 + 1))
    <3>1. 0 + 1 = 1
      OBVIOUS
    <3> QED
      BY Zenon, <1>1, <3>1, FS_EmptySet
  <2> QED
    BY <2>1
<1>3. ASSUME NEW n \in S PROVE n + 1 \in S
  <2> SUFFICES ASSUME n + 1 <= Len(FILE_SIZE) PROVE IsFiniteSet(BytesBefore(n + 1 + 1))
    OBVIOUS
  <2>1. n \in Nat /\ n + 1 \in Files /\ n <= Len(FILE_SIZE)
    BY FilesAre
  <2>2. IsFiniteSet(BytesBefore(n + 1))
    BY <2>1
  <2> QED
    BY <2>1, <2>2, NextFile
<1>4. S = Nat
  <2> HIDE DEF S
  <2> QED
    <3>1. S \in SUBSET Nat
      BY DEF S
    <3> QED
      BY <1>2, <1>3, <3>1, Induction
<1>5. ASSUME NEW f \in Files
      PROVE  IsFiniteSet(BytesBefore(f)) /\ IsFiniteSet(BytesBefore(f + 1))
  <2>1. f - 1 \in S /\ f - 1 <= Len(FILE_SIZE) /\ f - 1 + 1 = f
    <3>1. f - 1 \in Nat /\ f - 1 <= Len(FILE_SIZE) /\ f - 1 + 1 = f
      BY FilesAre
    <3> HIDE DEF S
    <3> QED
      BY <1>4, <3>1
  <2>2. IsFiniteSet(BytesBefore(f))
    BY <2>1
  <2> QED
    BY <2>2, NextFile
<1>6. BytesBefore(Len(FILE_SIZE) + 1) = Bytes
  BY <1>0, FilesAre DEF BytesBefore
<1>7. IsFiniteSet(Bytes)
  BY <1>5, <1>6, FilesAre
<1> QED
  BY <1>1, <1>5, <1>6, <1>7

\* FILE_HEAD counts the bytes of the files before.
LEMMA Heads ==
  ASSUME NEW f \in Files
  PROVE  /\ FILE_HEAD[f] \in Nat /\ FILE_SIZE[f] \in Nat /\ Total \in Nat
         /\ FILE_HEAD[f] = Cardinality(BytesBefore(f))
         /\ FILE_HEAD[f] + FILE_SIZE[f] <= Total
<1> DEFINE AddsUp(g) ==
             g = [i \in Files |-> IF i = 1 THEN 0 ELSE g[i - 1] + FILE_SIZE[i - 1]]
           h == [i \in Files |-> Cardinality(BytesBefore(i))]
           S == {n \in Nat : n + 1 \in Files =>
                              FILE_HEAD[n + 1] = Cardinality(BytesBefore(n + 1))}
<1>1. \A i \in Files :
        /\ Cardinality(BytesBefore(i)) \in Nat
        /\ Cardinality(BytesBefore(i + 1)) = Cardinality(BytesBefore(i)) + FILE_SIZE[i]
  BY BytesBeforeFinite, NextFile
<1>2. Cardinality(BytesBefore(1)) = 0
  BY BytesBeforeFinite, FS_EmptySet
<1>3. \A i \in Files : i # 1 => i - 1 \in Files /\ i - 1 + 1 = i
  BY FilesAre
<1>4. AddsUp(h)
  BY <1>1, <1>2, <1>3
<1>5. AddsUp(FILE_HEAD)
  <2>1. FILE_HEAD = CHOOSE g : AddsUp(g)
    BY DEF FILE_HEAD
  <2> HIDE DEF AddsUp
  <2> QED
    BY <1>4, <2>1
<1>6. \A i \in Files : FILE_HEAD[i] =
        IF i = 1 THEN 0 ELSE FILE_HEAD[i - 1] + FILE_SIZE[i - 1]
  BY <1>5
<1>7. 0 \in S
  BY <1>2, <1>6, FilesAre
<1>8. ASSUME NEW n \in S PROVE n + 1 \in S
  <2> SUFFICES ASSUME n + 1 + 1 \in Files
               PROVE  FILE_HEAD[n + 1 + 1] = Cardinality(BytesBefore(n + 1 + 1))
    OBVIOUS
  <2>1. n \in Nat /\ n + 1 \in Files /\ n + 1 + 1 # 1 /\ n + 1 + 1 - 1 = n + 1
    BY FilesAre
  <2>2. FILE_HEAD[n + 1] = Cardinality(BytesBefore(n + 1))
    BY <2>1
  <2>3. FILE_HEAD[n + 1 + 1] = FILE_HEAD[n + 1] + FILE_SIZE[n + 1]
    BY <1>6, <2>1
  <2> QED
    BY <1>1, <2>1, <2>2, <2>3
<1>9. S = Nat
  <2>1. S \in SUBSET Nat
    OBVIOUS
  <2> HIDE DEF S
  <2> QED
    BY <1>7, <1>8, <2>1, Induction
<1>10. FILE_HEAD[f] = Cardinality(BytesBefore(f))
  <2>1. f - 1 \in S /\ f - 1 + 1 = f
    <3>1. f - 1 \in Nat /\ f - 1 + 1 = f
      BY FilesAre
    <3> HIDE DEF S
    <3> QED
      BY <1>9, <3>1
  <2> QED
    BY <2>1
<1>11. Cardinality(BytesBefore(f + 1)) <= Total /\ Total \in Nat
  <2>1. IsFiniteSet(Bytes) /\ BytesBefore(f + 1) \in SUBSET Bytes
    BY BytesBeforeFinite DEF BytesBefore
  <2>2. Cardinality(BytesBefore(f + 1)) <= Cardinality(Bytes)
    BY Zenon, <2>1, FS_Subset
  <2>3. Cardinality(Bytes) \in Nat
    BY Zenon, <2>1, FS_CardinalityType
  <2>4. Total = Cardinality(Bytes)
    BY DEF Total
  <2> QED
    BY Zenon, <2>2, <2>3, <2>4
<1> QED
  BY <1>1, <1>10, <1>11, FilesAre

-----------------------------------------------------------------------------
(* The inductive invariant of the archive.                                 *)

CallsOfRead == [at : {"done", "seek", "fgetc", "back", "memcpy"}, file : Files,
                offset : Nat, size : Nat, out : Seq(Int)]

ArchiveTypes ==
  /\ length \in DataLengths /\ pos \in Nat /\ reads \in 0 .. MaxReads
  /\ BUFFER \in [Cells -> -1 .. Header + length]
  /\ reading \in [Threads -> CallsOfRead]
  /\ overlap \in BOOLEAN /\ eof \in BOOLEAN

\* A call stays inside its file, and counts its bytes up to the number asked for.
InItsFile(c) ==
  /\ c.at # "done" => c.size > 0 /\ c.offset + c.size <= FILE_SIZE[c.file]
  /\ c.at \in {"seek", "back"} => c.out = <<>>
  /\ c.at \in {"fgetc", "memcpy"} => Len(c.out) < c.size
  /\ c.at = "done" => Len(c.out) = c.size

\* How far a call has moved the archive and not moved it back yet.
Advance(c) ==
  CASE c.at = "fgetc" -> Distance(c) + Len(c.out)
    [] c.at = "back"  -> Back(c)
    [] OTHER          -> 0

\* The same of all calls, as a set whose elements are counted.
Ahead(calls) == UNION {{t} \X (1 .. Advance(calls[t])) : t \in Threads}

\* The archive stands where the calls under way have moved it.
AheadInv ==
  /\ IsFiniteSet(Ahead(reading))
  /\ ~ eof => pos = Header + Cardinality(Ahead(reading))

\* What a call that nobody disturbed has read, and what it has copied.
InBuffer(c, n) == \A k \in 0 .. n - 1 : BUFFER[k + c.offset] = Place(c.file, c.offset + k)

GotRight(c) ==
  /\ c.at = "fgetc" => InBuffer(c, Len(c.out))
  /\ c.at \in {"back", "memcpy"} => InBuffer(c, c.size)
  /\ c.at \in {"memcpy", "done"} =>
       \A k \in 1 .. Len(c.out) : c.out[k] = Place(c.file, c.offset + k - 1)

AloneInv ==
  ~ overlap => \A t, u \in Threads : t # u => reading[t].at = "done" \/ reading[u].at = "done"

RightInv ==
  ~ overlap /\ length >= Total => ~ eof /\ \A t \in Threads : GotRight(reading[t])

ArchiveInv ==
  /\ ArchiveTypes /\ AheadInv /\ AloneInv /\ RightInv
  /\ \A t \in Threads : InItsFile(reading[t])

\* What a call in its file asks for is in the archive and the buffer.
LEMMA CallSizes ==
  ASSUME NEW c \in CallsOfRead, InItsFile(c)
  PROVE  /\ FILE_HEAD[c.file] \in Nat /\ Total \in Nat
         /\ Distance(c) = FILE_HEAD[c.file] + c.offset
         /\ Distance(c) \in Nat
         /\ Back(c) = Distance(c) + c.size
         /\ Back(c) \in Nat
         /\ Advance(c) \in Nat
         /\ c.at # "done" => /\ Back(c) <= Total
                             /\ c.offset + c.size <= Total
<1>1. c.file \in Files /\ c.offset \in Nat /\ c.size \in Nat /\ Len(c.out) \in Nat
  BY DEF CallsOfRead
<1>2. /\ FILE_HEAD[c.file] \in Nat /\ FILE_SIZE[c.file] \in Nat /\ Total \in Nat
      /\ FILE_HEAD[c.file] + FILE_SIZE[c.file] <= Total
  BY <1>1, Heads
<1>3. /\ Distance(c) = FILE_HEAD[c.file] + c.offset
      /\ Back(c) = FILE_HEAD[c.file] + c.offset + c.size
  BY DEF Distance, Back
<1>4. Distance(c) \in Nat /\ Back(c) \in Nat
  BY <1>1, <1>2, <1>3
<1>5. Advance(c) \in Nat
  BY <1>1, <1>4 DEF Advance
<1>6. ASSUME c.at # "done"
      PROVE  Back(c) <= Total /\ c.offset + c.size <= Total
  <2>1. c.offset + c.size <= FILE_SIZE[c.file]
    BY <1>6 DEF InItsFile
  <2>2. PICK head \in Nat, size \in Nat :
          head = FILE_HEAD[c.file] /\ size = FILE_SIZE[c.file]
    BY <1>2
  <2>3. head + size <= Total /\ c.offset + c.size <= size
    BY <1>2, <2>1, <2>2
  <2>4. c.offset + c.size <= Total /\ head + c.offset + c.size <= Total
    BY <1>1, <1>2, <2>3
  <2> QED
    BY <1>3, <2>2, <2>4
<1> QED
  BY <1>1, <1>2, <1>3, <1>4, <1>5, <1>6

\* A byte of a file has its cell in the buffer.
LEMMA CellOf ==
  ASSUME NEW f \in Files, NEW offset \in Nat, NEW size \in Nat, NEW n \in Nat,
         offset + size <= FILE_SIZE[f], n < size
  PROVE  n + offset \in Cells
<1>1. FILE_SIZE[f] <= BufferSize /\ FILE_SIZE[f] \in Nat /\ BufferSize \in Nat
  BY Heads, BufferAssumption DEF Files
<1>2. n + offset < BufferSize
  BY <1>1
<1> QED
  BY <1>1, <1>2 DEF Cells

\* One call's part of all that is ahead.
LEMMA AheadOfOne ==
  ASSUME NEW calls, NEW t \in Threads, Advance(calls[t]) \in Nat, IsFiniteSet(Ahead(calls))
  PROVE  LET rest == {p \in Ahead(calls) : p[1] # t}
         IN  /\ IsFiniteSet(rest) /\ Cardinality(rest) \in Nat
             /\ Cardinality(Ahead(calls)) = Cardinality(rest) + Advance(calls[t])
<1> DEFINE rest == {p \in Ahead(calls) : p[1] # t}
           own == {t} \X (1 .. Advance(calls[t]))
<1>1. IsFiniteSet(rest)
  BY FS_Subset
<1>2. IsFiniteSet(own) /\ Cardinality(own) = Advance(calls[t])
  BY Column
<1>3. Ahead(calls) = rest \cup own
  <2>1. \A p \in Ahead(calls) : p[1] = t <=> p \in own
    BY DEF Ahead
  <2>2. own \subseteq Ahead(calls)
    BY DEF Ahead
  <2> HIDE DEF own
  <2> QED
    BY <2>1, <2>2
<1>4. rest \cap own = {}
  OBVIOUS
<1> HIDE DEF rest, own
<1>5. Cardinality(rest) \in Nat
  BY <1>1, FS_CardinalityType
<1>6. Cardinality(Ahead(calls)) = Cardinality(rest) + Cardinality(own) - Cardinality({})
  <2>1. Cardinality(rest \cup own) = Cardinality(rest) + Cardinality(own) - Cardinality(rest \cap own)
    BY Zenon, <1>1, <1>2, FS_Union
  <2> QED
    BY Zenon, <1>3, <1>4, <2>1
<1>7. Cardinality(Ahead(calls)) = Cardinality(rest) + Advance(calls[t])
  <2>1. Cardinality({}) = 0
    BY FS_EmptySet
  <2>2. Cardinality(own) \in Nat
    BY <1>2
  <2> QED
    BY <1>2, <1>5, <1>6, <2>1, <2>2
<1> QED
  BY <1>1, <1>5, <1>7 DEF rest

\* A step of one call changes what is ahead by what it moves.
LEMMA AheadStep ==
  ASSUME NEW t \in Threads, NEW c, reading \in [Threads -> CallsOfRead],
         reading' = [reading EXCEPT ![t] = c],
         IsFiniteSet(Ahead(reading)), Advance(reading[t]) \in Nat, Advance(c) \in Nat
  PROVE  /\ IsFiniteSet(Ahead(reading'))
         /\ Cardinality(Ahead(reading)) \in Nat
         /\ Advance(reading[t]) <= Cardinality(Ahead(reading))
         /\ Cardinality(Ahead(reading')) =
              Cardinality(Ahead(reading)) - Advance(reading[t]) + Advance(c)
<1>0. PICK calls : calls = reading'
  OBVIOUS
<1> DEFINE rest == {p \in Ahead(reading) : p[1] # t}
           own == {t} \X (1 .. Advance(c))
<1>1. /\ IsFiniteSet(rest) /\ Cardinality(rest) \in Nat
      /\ Cardinality(Ahead(reading)) = Cardinality(rest) + Advance(reading[t])
  BY AheadOfOne
<1>2. IsFiniteSet(own)
  BY Column
<1>3. calls[t] = c /\ \A u \in Threads \ {t} : calls[u] = reading[u]
  BY <1>0
<1>4. Ahead(calls) = rest \cup own
  BY <1>3 DEF Ahead
<1>5. IsFiniteSet(Ahead(calls))
  <2> HIDE DEF rest, own
  <2> QED
    BY Zenon, <1>1, <1>2, <1>4, FS_Union
<1>6. {p \in Ahead(calls) : p[1] # t} = rest
  BY <1>3 DEF Ahead
<1>7. Cardinality(Ahead(calls)) = Cardinality(rest) + Advance(c)
  <2> HIDE DEF rest
  <2>1. LET others == {p \in Ahead(calls) : p[1] # t}
        IN  Cardinality(Ahead(calls)) = Cardinality(others) + Advance(calls[t])
    BY <1>3, <1>5, AheadOfOne
  <2> QED
    BY Zenon, <1>3, <1>6, <2>1
<1> HIDE DEF rest
<1> QED
  BY <1>0, <1>1, <1>5, <1>7

\* A call that is alone is all that is ahead.
LEMMA AheadAlone ==
  ASSUME ArchiveInv, ~ overlap, ~ eof,
         NEW t \in Threads, reading[t].at # "done"
  PROVE  pos = Header + Advance(reading[t])
<1>1. Ahead(reading) = {t} \X (1 .. Advance(reading[t]))
  <2>1. \A u \in Threads \ {t} : Advance(reading[u]) = 0
    BY DEF ArchiveInv, AloneInv, Advance
  <2> QED
    BY <2>1 DEF Ahead
<1>2. Advance(reading[t]) \in Nat
  BY CallSizes DEF ArchiveInv, ArchiveTypes
<1>3. Cardinality({t} \X (1 .. Advance(reading[t]))) = Advance(reading[t])
  BY <1>2, Column
<1>4. Cardinality(Ahead(reading)) = Advance(reading[t])
  BY Zenon, <1>1, <1>3
<1> QED
  BY <1>4 DEF ArchiveInv, AheadInv

-----------------------------------------------------------------------------
(* It holds initially and is kept by every step.                           *)

LEMMA ArchiveStarts ==
  ASSUME ArchiveInit
  PROVE  ArchiveInv
<1> DEFINE c == [at |-> "done", file |-> 1, offset |-> 0, size |-> 0, out |-> <<>>]
<1>1. \A t \in Threads : reading[t] = c
  BY DEF ArchiveInit
<1>2. c \in CallsOfRead
  BY FilesAre DEF CallsOfRead
<1>3. ArchiveTypes
  <2>1. Header \in Nat /\ length \in Nat /\ 0 \in 0 .. MaxReads
    BY ArchiveAssumption DEF ArchiveInit
  <2>2. reading \in [Threads -> CallsOfRead]
    BY <1>2 DEF ArchiveInit
  <2>3. BUFFER \in [Cells -> -1 .. Header + length]
    BY <2>1 DEF ArchiveInit
  <2> QED
    BY <2>1, <2>2, <2>3 DEF ArchiveTypes, ArchiveInit
<1>4. AheadInv
  <2>1. Ahead(reading) = {}
    BY <1>1 DEF Ahead, Advance
  <2>2. IsFiniteSet(Ahead(reading)) /\ Cardinality(Ahead(reading)) = 0
    BY Zenon, <2>1, FS_EmptySet
  <2> QED
    BY <2>2, ArchiveAssumption DEF AheadInv, ArchiveInit
<1>5. AloneInv /\ RightInv /\ \A t \in Threads : InItsFile(reading[t])
  BY <1>1 DEF AloneInv, RightInv, GotRight, InItsFile, ArchiveInit
<1> QED
  BY <1>3, <1>4, <1>5 DEF ArchiveInv

\* What every step of one call leaves of the invariant to be shown.
LEMMA StepOfCall ==
  ASSUME ArchiveInv,
         NEW t \in Threads, NEW c \in CallsOfRead, InItsFile(c),
         reading' = [reading EXCEPT ![t] = c], length' = length,
         pos' \in Nat, BUFFER' \in [Cells -> -1 .. Header + length],
         reads' \in 0 .. MaxReads, overlap' \in BOOLEAN, eof' \in BOOLEAN,
         ~ eof' => ~ eof /\ pos' = pos - Advance(reading[t]) + Advance(c),
         ~ overlap' => /\ ~ overlap
                       /\ \A u \in Threads \ {t} : reading[u].at = "done",
         ~ overlap' /\ length >= Total => ~ eof' /\ GotRight(c)'
  PROVE  ArchiveInv'
<1>1. reading'[t] = c /\ \A u \in Threads \ {t} : reading'[u] = reading[u]
  BY DEF ArchiveInv, ArchiveTypes
<1>2. ArchiveTypes'
  BY DEF ArchiveInv, ArchiveTypes
<1>3. AheadInv'
  <2>1. Advance(reading[t]) \in Nat /\ Advance(c) \in Nat
    BY CallSizes DEF ArchiveInv, ArchiveTypes
  <2>2. /\ IsFiniteSet(Ahead(reading'))
        /\ Cardinality(Ahead(reading)) \in Nat
        /\ Cardinality(Ahead(reading')) =
             Cardinality(Ahead(reading)) - Advance(reading[t]) + Advance(c)
    BY <2>1, AheadStep DEF ArchiveInv, ArchiveTypes, AheadInv
  <2>3. IsFiniteSet(Ahead(reading))'
    BY Zenon, <2>2
  <2>4. ASSUME ~ eof' PROVE pos' = Header + Cardinality(Ahead(reading'))
    BY <2>1, <2>2, <2>4, ArchiveAssumption DEF ArchiveInv, AheadInv
  <2> QED
    BY <2>3, <2>4 DEF AheadInv
<1>4. AloneInv'
  BY <1>1 DEF AloneInv
<1>5. RightInv'
  <2> SUFFICES ASSUME ~ overlap', length >= Total, NEW u \in Threads \ {t}
               PROVE  GotRight(reading[u])'
    <3>1. GotRight(c)' <=> GotRight(reading[t])'
      BY <1>1 DEF GotRight, InBuffer
    <3> QED
      BY <3>1 DEF RightInv
  <2>1. GotRight(reading[u]) /\ reading[u].at = "done"
    BY DEF ArchiveInv, RightInv
  <2> QED
    BY <1>1, <2>1 DEF GotRight, InBuffer
<1>6. \A u \in Threads : InItsFile(reading'[u])
  BY <1>1 DEF ArchiveInv
<1> QED
  BY <1>2, <1>3, <1>4, <1>5, <1>6 DEF ArchiveInv

\* A call under way knows that it is alone unless two have overlapped.
LEMMA OthersDone ==
  ASSUME ArchiveInv, NEW t \in Threads, reading[t].at # "done", UNCHANGED overlap
  PROVE  /\ overlap' \in BOOLEAN
         /\ ~ overlap' => ~ overlap /\ \A u \in Threads \ {t} : reading[u].at = "done"
BY DEF ArchiveInv, ArchiveTypes, AloneInv

\* A sequence with one byte more.
LEMMA OneMore ==
  ASSUME NEW out \in Seq(Int), NEW byte \in Int
  PROVE  /\ Append(out, byte) \in Seq(Int) /\ Len(Append(out, byte)) = Len(out) + 1
         /\ \A k \in 1 .. Len(out) : Append(out, byte)[k] = out[k]
         /\ Append(out, byte)[Len(out) + 1] = byte
OBVIOUS

\* The call of a thread, with its type.
LEMMA CallOf ==
  ASSUME ArchiveInv, NEW t \in Threads
  PROVE  /\ reading[t] \in CallsOfRead /\ InItsFile(reading[t])
         /\ reading[t].file \in Files /\ reading[t].offset \in Nat
         /\ reading[t].size \in Nat /\ reading[t].out \in Seq(Int)
         /\ Len(reading[t].out) \in Nat
         /\ reads \in 0 .. MaxReads /\ pos \in Nat /\ Header \in Nat /\ length \in Nat
         /\ BUFFER \in [Cells -> -1 .. Header + length]
         /\ overlap \in BOOLEAN /\ eof \in BOOLEAN
<1>1. reading[t] \in CallsOfRead /\ InItsFile(reading[t])
  BY DEF ArchiveInv, ArchiveTypes
<1>2. /\ reads \in 0 .. MaxReads /\ pos \in Nat /\ Header \in Nat /\ length \in Nat
      /\ BUFFER \in [Cells -> -1 .. Header + length]
      /\ overlap \in BOOLEAN /\ eof \in BOOLEAN
  BY ArchiveAssumption DEF ArchiveInv, ArchiveTypes
<1> QED
  BY <1>1, <1>2 DEF CallsOfRead

LEMMA BeginKeeps ==
  ASSUME ArchiveInv, NEW t \in Threads, Begin(t)
  PROVE  ArchiveInv'
<1>1. PICK f \in Files, offset \in Offsets, size \in Offsets :
        /\ size > 0
        /\ reading' = [reading EXCEPT ![t] =
             IF offset >= FILE_SIZE[f]
             THEN [at |-> "done", file |-> f, offset |-> offset, size |-> 0, out |-> <<>>]
             ELSE [at |-> "seek", file |-> f, offset |-> offset,
                   size |-> Size(f, offset, size), out |-> <<>>]]
  BY DEF Begin
<1>2. PICK c : c = IF offset >= FILE_SIZE[f]
                   THEN [at |-> "done", file |-> f, offset |-> offset, size |-> 0, out |-> <<>>]
                   ELSE [at |-> "seek", file |-> f, offset |-> offset,
                         size |-> Size(f, offset, size), out |-> <<>>]
  OBVIOUS
<1>3. offset \in Nat /\ size \in Nat /\ FILE_SIZE[f] \in Nat
  BY Heads DEF Offsets
<1>4. c.at \in {"done", "seek"} /\ c.out = <<>> /\ c \in CallsOfRead /\ InItsFile(c)
  <2>1. CASE offset >= FILE_SIZE[f]
    BY <1>2, <1>3, <2>1 DEF CallsOfRead, InItsFile
  <2>2. CASE ~ (offset >= FILE_SIZE[f])
    <3>1. /\ Size(f, offset, size) \in Nat /\ Size(f, offset, size) > 0
          /\ offset + Size(f, offset, size) <= FILE_SIZE[f]
      BY <1>1, <1>3, <2>2 DEF Size
    <3>2. c = [at |-> "seek", file |-> f, offset |-> offset,
               size |-> Size(f, offset, size), out |-> <<>>]
      BY <1>2, <2>2
    <3> QED
      BY <1>3, <3>1, <3>2 DEF CallsOfRead, InItsFile
  <2> QED
    BY <2>1, <2>2
<1>5. /\ reading[t].at = "done" /\ reads' = reads + 1 /\ reads < MaxReads
      /\ overlap' = (overlap \/ \E u \in Threads : reading[u].at # "done")
      /\ UNCHANGED <<length, pos, BUFFER, eof>>
  BY DEF Begin
<1>6. Advance(reading[t]) = 0 /\ Advance(c) = 0
  BY <1>4, <1>5 DEF Advance
<1>7. reading' = [reading EXCEPT ![t] = c]
  BY <1>1, <1>2
<1>8. /\ pos' \in Nat /\ BUFFER' \in [Cells -> -1 .. Header + length]
      /\ reads' \in 0 .. MaxReads /\ overlap' \in BOOLEAN /\ eof' \in BOOLEAN
      /\ (~ eof' => ~ eof /\ pos' = pos - Advance(reading[t]) + Advance(c))
  <2>1. MaxReads \in Nat
    BY ArchiveAssumption
  <2> QED
    BY <1>5, <1>6, <2>1, CallOf
<1>9. ~ overlap' => ~ overlap /\ \A u \in Threads \ {t} : reading[u].at = "done"
  BY <1>5
<1>10. ~ overlap' /\ length >= Total => ~ eof' /\ GotRight(c)'
  BY <1>4, <1>5, <1>9 DEF ArchiveInv, RightInv, GotRight
<1> QED
  BY <1>4, <1>5, <1>7, <1>8, <1>9, <1>10, StepOfCall

LEMMA SeekForwardKeeps ==
  ASSUME ArchiveInv, NEW t \in Threads, SeekForward(t)
  PROVE  ArchiveInv'
<1>1. PICK c : c = [reading[t] EXCEPT !.at = "fgetc"]
  OBVIOUS
<1>2. /\ reading[t].at = "seek" /\ pos' = pos + Distance(reading[t])
      /\ UNCHANGED <<length, BUFFER, reads, overlap, eof>>
  BY DEF SeekForward
<1>3. reading' = [reading EXCEPT ![t] = c]
  BY <1>1 DEF SeekForward
<1>4. /\ c \in CallsOfRead /\ c.at = "fgetc" /\ c.file = reading[t].file
      /\ c.offset = reading[t].offset /\ c.size = reading[t].size /\ c.out = reading[t].out
  BY <1>1, CallOf DEF CallsOfRead
<1>5. c.out = <<>> /\ InItsFile(c)
  <2>1. /\ InItsFile(reading[t]) /\ reading[t].size \in Nat
        /\ reading[t].out = <<>> /\ reading[t].size > 0
        /\ reading[t].offset + reading[t].size <= FILE_SIZE[reading[t].file]
    BY <1>2, CallOf DEF InItsFile
  <2>2. c.out = <<>> /\ Len(c.out) < c.size
    BY <1>4, <2>1
  <2> QED
    BY <1>4, <2>1, <2>2 DEF InItsFile
<1>6. Advance(reading[t]) = 0 /\ Advance(c) = Distance(reading[t])
  <2>1. Distance(c) = Distance(reading[t]) /\ Distance(c) \in Nat
    BY <1>4, <1>5, CallSizes DEF Distance
  <2> QED
    BY <1>2, <1>4, <1>5, <2>1 DEF Advance
<1>7. /\ pos' \in Nat /\ BUFFER' \in [Cells -> -1 .. Header + length]
      /\ reads' \in 0 .. MaxReads /\ eof' \in BOOLEAN
      /\ (~ eof' => ~ eof /\ pos' = pos - Advance(reading[t]) + Advance(c))
  <2>1. Distance(reading[t]) \in Nat
    BY CallOf, CallSizes
  <2> QED
    BY <1>2, <1>6, <2>1, CallOf
<1>8. /\ overlap' \in BOOLEAN
      /\ ~ overlap' => ~ overlap /\ \A u \in Threads \ {t} : reading[u].at = "done"
  BY <1>2, OthersDone
<1>9. ~ overlap' /\ length >= Total => ~ eof' /\ GotRight(c)'
  BY <1>2, <1>4, <1>5, <1>8 DEF ArchiveInv, RightInv, GotRight, InBuffer
<1> QED
  BY <1>2, <1>3, <1>4, <1>5, <1>7, <1>8, <1>9, StepOfCall

LEMMA GetByteKeeps ==
  ASSUME ArchiveInv, NEW t \in Threads, GetByte(t)
  PROVE  ArchiveInv'
<1>0. PICK old : old = reading[t]
  OBVIOUS
<1>1. PICK n \in Nat : n = Len(old.out)
  BY <1>0, CallOf
<1> DEFINE ended == pos >= Header + length
<1>2. PICK c : c = IF n + 1 < old.size THEN [old EXCEPT !.out = Append(@, 0)]
                   ELSE [old EXCEPT !.at = "back", !.out = <<>>]
  OBVIOUS
<1>3. /\ old.at = "fgetc" /\ BUFFER' = [BUFFER EXCEPT ![n + old.offset] = IF ended THEN -1 ELSE pos]
      /\ pos' = (IF ended THEN pos ELSE pos + 1) /\ eof' = (eof \/ ended)
      /\ UNCHANGED <<length, reads, overlap>>
  BY <1>0, <1>1 DEF GetByte
<1>4. reading' = [reading EXCEPT ![t] = c]
  BY <1>0, <1>1, <1>2 DEF GetByte
<1>5. /\ old \in CallsOfRead /\ InItsFile(old)
      /\ old.size \in Nat /\ old.offset \in Nat /\ n < old.size
      /\ old.file \in Files /\ old.out \in Seq(Int)
      /\ old.size > 0 /\ old.offset + old.size <= FILE_SIZE[old.file]
  BY <1>0, <1>1, <1>3, CallOf DEF InItsFile
<1>6. /\ c \in CallsOfRead /\ c.file = old.file /\ c.offset = old.offset /\ c.size = old.size
      /\ \/ n + 1 < old.size /\ c.at = "fgetc" /\ Len(c.out) = n + 1
         \/ n + 1 = old.size /\ c.at = "back" /\ c.out = <<>>
  <2>1. CASE n + 1 < old.size
    <3>0. Append(old.out, 0) \in Seq(Int) /\ Len(Append(old.out, 0)) = n + 1
      BY <1>1, <1>5, OneMore
    <3>1. PICK out \in Seq(Int) : out = Append(old.out, 0) /\ Len(out) = n + 1
      BY Zenon, <3>0
    <3>2. c = [old EXCEPT !.out = out]
      BY <1>2, <2>1, <3>1
    <3> QED
      BY <1>3, <1>5, <2>1, <3>1, <3>2 DEF CallsOfRead
  <2>2. CASE ~ (n + 1 < old.size)
    <3>1. c = [old EXCEPT !.at = "back", !.out = <<>>]
      BY <1>2, <2>2
    <3>2. n + 1 = old.size /\ <<>> \in Seq(Int)
      BY <1>5, <2>2
    <3> QED
      BY <1>5, <3>1, <3>2 DEF CallsOfRead
  <2> QED
    BY <2>1, <2>2
<1>7. InItsFile(c)
  BY <1>5, <1>6 DEF InItsFile
<1>8. /\ Distance(old) \in Nat /\ Distance(c) = Distance(old)
      /\ Back(c) = Distance(old) + old.size
      /\ Back(c) <= Total /\ old.offset + old.size <= Total
      /\ Total \in Nat
      /\ Distance(old) = FILE_HEAD[old.file] + old.offset
      /\ FILE_HEAD[old.file] \in Nat
  <2>1. Distance(c) = Distance(old)
    BY <1>6 DEF Distance
  <2>2. c.at # "done" /\ old.at # "done"
    BY <1>3, <1>6
  <2> QED
    BY <1>5, <1>6, <1>7, <2>1, <2>2, CallSizes
<1>9. Advance(old) = Distance(old) + n /\ Advance(c) = Distance(old) + n + 1
  <2>1. Advance(old) = Distance(old) + n
    BY <1>1, <1>3 DEF Advance
  <2>2. CASE n + 1 < old.size
    <3>1. c.at = "fgetc" /\ Len(c.out) = n + 1
      BY <1>5, <1>6, <2>2
    <3>2. Advance(c) = Distance(old) + (n + 1)
      BY <1>8, <3>1 DEF Advance
    <3> QED
      BY <1>8, <2>1, <3>2
  <2>3. CASE n + 1 = old.size
    <3>1. c.at = "back"
      BY <1>5, <1>6, <2>3
    <3>2. Advance(c) = Distance(old) + (n + 1)
      BY <1>8, <2>3, <3>1 DEF Advance
    <3> QED
      BY <1>8, <2>1, <3>2
  <2> QED
    BY <1>6, <2>1, <2>2, <2>3
<1>10. /\ pos' \in Nat /\ BUFFER' \in [Cells -> -1 .. Header + length]
       /\ reads' \in 0 .. MaxReads /\ eof' \in BOOLEAN
  <2>1. (IF ended THEN -1 ELSE pos) \in -1 .. Header + length
    BY CallOf
  <2>2. pos' \in Nat
    BY <1>3, CallOf
  <2>3. ended \in BOOLEAN
    OBVIOUS
  <2> HIDE DEF ended
  <2>4. reads' \in 0 .. MaxReads /\ eof' \in BOOLEAN
    BY <1>3, <2>3, CallOf
  <2>5. BUFFER' \in [Cells -> -1 .. Header + length]
    BY <1>3, <2>1, CallOf
  <2> QED
    BY <2>2, <2>4, <2>5
<1>11. ASSUME ~ eof' PROVE ~ eof /\ ~ ended /\ pos' = pos - Advance(old) + Advance(c)
  <2>1. ~ eof /\ ~ ended
    BY <1>3, <1>11
  <2>2. pos' = pos + 1
    BY <1>3, <2>1
  <2> QED
    BY <1>8, <1>9, <2>1, <2>2, CallOf
<1>12. /\ overlap' \in BOOLEAN
       /\ ~ overlap' => ~ overlap /\ \A u \in Threads \ {t} : reading[u].at = "done"
  BY <1>0, <1>3, OthersDone
<1>13. ASSUME ~ overlap', length >= Total
       PROVE  ~ eof' /\ GotRight(c)'
  <2>1. ~ overlap /\ ~ eof /\ GotRight(old)
    BY <1>0, <1>3, <1>13 DEF ArchiveInv, RightInv
  <2>2. pos = Header + Distance(old) + n
    <3>1. pos = Header + Advance(old)
      BY <1>0, <1>3, <2>1, AheadAlone
    <3> QED
      BY <1>8, <1>9, <3>1, CallOf
  <2>3. pos < Header + length
    <3>1. Distance(old) + n < Total
      BY <1>5, <1>8
    <3> QED
      BY <1>8, <1>13, <2>2, <3>1, CallOf
  <2>4. ~ ended
    BY <2>3, CallOf
  <2>5. pos = Place(old.file, old.offset + n)
    <3>1. FILE_HEAD[old.file] = Cardinality({b \in Bytes : b[1] < old.file})
      BY <1>5, Heads DEF BytesBefore
    <3>2. PICK head \in Nat : head = FILE_HEAD[old.file]
      BY <1>8
    <3>3. Place(old.file, old.offset + n) = Header + head + (old.offset + n)
      BY Zenon, <3>1, <3>2 DEF Place
    <3>4. Distance(old) = head + old.offset
      BY <1>8, <3>2
    <3>5. old.offset \in Nat /\ Header \in Nat
      BY <1>5, ArchiveAssumption
    <3> QED
      BY <2>2, <3>3, <3>4, <3>5
  <2>6. n + old.offset \in Cells
    BY <1>5, CellOf
  <2>7. ASSUME NEW k \in 0 .. n
        PROVE  BUFFER'[k + old.offset] = Place(old.file, old.offset + k)
    <3>1. BUFFER \in [Cells -> -1 .. Header + length]
      BY CallOf
    <3>2. CASE k = n
      BY <1>3, <2>4, <2>5, <2>6, <3>1, <3>2
    <3>3. CASE k # n
      <4>1. BUFFER[k + old.offset] = Place(old.file, old.offset + k)
        BY <1>1, <1>3, <2>1, <3>3 DEF GotRight, InBuffer
      <4>2. k + old.offset # n + old.offset
        BY <1>5, <3>3
      <4>3. BUFFER'[k + old.offset] = BUFFER[k + old.offset]
        BY <1>3, <3>1, <4>2
      <4> QED
        BY <4>1, <4>3
    <3> QED
      BY <3>2, <3>3
  <2>8. InBuffer(c, n + 1)'
    <3>1. \A k \in 0 .. n + 1 - 1 : k \in 0 .. n
      OBVIOUS
    <3> QED
      BY <1>6, <2>7, <3>1 DEF InBuffer
  <2>9. GotRight(c)'
    BY <1>6, <2>8 DEF GotRight
  <2> QED
    BY <1>3, <2>1, <2>4, <2>9
<1> QED
  BY <1>0, <1>3, <1>4, <1>6, <1>7, <1>10, <1>11, <1>12, <1>13, StepOfCall

LEMMA SeekBackKeeps ==
  ASSUME ArchiveInv, NEW t \in Threads, SeekBack(t)
  PROVE  ArchiveInv'
<1>0. PICK old : old = reading[t]
  OBVIOUS
<1>1. PICK c : c = [old EXCEPT !.at = "memcpy"]
  OBVIOUS
<1>2. /\ old.at = "back"
      /\ pos' = (IF pos >= Back(old) THEN pos - Back(old) ELSE pos)
      /\ UNCHANGED <<length, BUFFER, reads, overlap, eof>>
  BY <1>0 DEF SeekBack
<1>3. reading' = [reading EXCEPT ![t] = c]
  BY <1>0, <1>1 DEF SeekBack
<1>4. /\ c \in CallsOfRead /\ c.at = "memcpy" /\ c.file = old.file
      /\ c.offset = old.offset /\ c.size = old.size /\ c.out = old.out
  BY <1>0, <1>1, CallOf DEF CallsOfRead
<1>5. c.out = <<>> /\ InItsFile(c)
  BY <1>0, <1>2, <1>4, CallOf DEF InItsFile
<1>6. Advance(old) = Back(old) /\ Back(old) \in Nat /\ Advance(c) = 0
  <2>1. Back(old) \in Nat
    BY <1>0, CallOf, CallSizes
  <2> QED
    BY <1>2, <1>4, <2>1 DEF Advance
<1>7. pos' \in Nat
  BY <1>2, <1>6, CallOf
<1>8. ASSUME ~ eof' PROVE ~ eof /\ pos' = pos - Advance(old) + Advance(c)
  <2>1. Cardinality(Ahead(reading)) \in Nat /\ Advance(old) <= Cardinality(Ahead(reading))
    <3>1. /\ reading \in [Threads -> CallsOfRead] /\ IsFiniteSet(Ahead(reading))
          /\ Advance(reading[t]) \in Nat /\ Advance(c) \in Nat
      BY <1>0, <1>6 DEF ArchiveInv, ArchiveTypes, AheadInv
    <3> QED
      BY Zenon, <1>0, <1>3, <3>1, AheadStep
  <2>2. ~ eof /\ pos = Header + Cardinality(Ahead(reading))
    BY <1>2, <1>8 DEF ArchiveInv, AheadInv
  <2>3. pos >= Back(old)
    BY <1>6, <2>1, <2>2, CallOf
  <2> QED
    BY <1>2, <1>6, <2>2, <2>3, CallOf
<1>9. /\ BUFFER' \in [Cells -> -1 .. Header + length]
      /\ reads' \in 0 .. MaxReads /\ eof' \in BOOLEAN
  BY <1>2, CallOf
<1>10. /\ overlap' \in BOOLEAN
       /\ ~ overlap' => ~ overlap /\ \A u \in Threads \ {t} : reading[u].at = "done"
  BY <1>0, <1>2, OthersDone
<1>11. ASSUME ~ overlap', length >= Total
       PROVE  ~ eof' /\ GotRight(c)'
  <2>1. ~ eof /\ GotRight(old)
    BY <1>0, <1>2, <1>11 DEF ArchiveInv, RightInv
  <2>2. InBuffer(c, c.size)'
    BY <1>2, <1>4, <2>1 DEF GotRight, InBuffer
  <2> QED
    BY <1>2, <1>4, <1>5, <2>1, <2>2 DEF GotRight
<1> QED
  BY <1>0, <1>2, <1>3, <1>4, <1>5, <1>7, <1>8, <1>9, <1>10, <1>11, StepOfCall

LEMMA CopyByteKeeps ==
  ASSUME ArchiveInv, NEW t \in Threads, CopyByte(t)
  PROVE  ArchiveInv'
<1>0. PICK old : old = reading[t]
  OBVIOUS
<1>1. PICK n \in Nat : n = Len(old.out)
  BY <1>0, CallOf
<1>2. PICK c : c = [old EXCEPT !.out = Append(@, BUFFER[n + old.offset]),
                               !.at = IF n + 1 < old.size THEN @ ELSE "done"]
  OBVIOUS
<1>3. old.at = "memcpy" /\ UNCHANGED <<length, pos, BUFFER, reads, overlap, eof>>
  BY <1>0 DEF CopyByte
<1>4. reading' = [reading EXCEPT ![t] = c]
  BY <1>0, <1>1, <1>2 DEF CopyByte
<1>5. /\ old \in CallsOfRead /\ InItsFile(old)
      /\ old.size \in Nat /\ old.offset \in Nat /\ n < old.size
      /\ old.file \in Files /\ old.out \in Seq(Int)
      /\ old.size > 0 /\ old.offset + old.size <= FILE_SIZE[old.file]
  BY <1>0, <1>1, <1>3, CallOf DEF InItsFile
<1>6. BUFFER[n + old.offset] \in Int
  <2>1. n + old.offset \in Cells
    BY <1>5, CellOf
  <2> QED
    BY <2>1, CallOf
<1>7. /\ c \in CallsOfRead /\ c.file = old.file /\ c.offset = old.offset /\ c.size = old.size
      /\ c.out = Append(old.out, BUFFER[n + old.offset]) /\ Len(c.out) = n + 1
      /\ \/ n + 1 < old.size /\ c.at = "memcpy"
         \/ n + 1 = old.size /\ c.at = "done"
  <2>0. /\ Append(old.out, BUFFER[n + old.offset]) \in Seq(Int)
        /\ Len(Append(old.out, BUFFER[n + old.offset])) = n + 1
    BY <1>1, <1>5, <1>6, OneMore
  <2>1. PICK out \in Seq(Int) : out = Append(old.out, BUFFER[n + old.offset]) /\ Len(out) = n + 1
    BY Zenon, <2>0
  <2>2. c = [old EXCEPT !.out = out, !.at = IF n + 1 < old.size THEN old.at ELSE "done"]
    BY <1>2, <2>1
  <2>3. /\ c \in CallsOfRead /\ c.file = old.file /\ c.offset = old.offset
        /\ c.size = old.size /\ c.out = out
        /\ c.at = IF n + 1 < old.size THEN "memcpy" ELSE "done"
    BY <1>3, <1>5, <2>2 DEF CallsOfRead
  <2>4. n + 1 < old.size \/ n + 1 = old.size
    BY <1>5
  <2> QED
    BY <2>1, <2>3, <2>4
<1>8. InItsFile(c)
  BY <1>5, <1>7 DEF InItsFile
<1>9. Advance(old) = 0 /\ Advance(c) = 0
  BY <1>3, <1>7 DEF Advance
<1>10. /\ pos' \in Nat /\ BUFFER' \in [Cells -> -1 .. Header + length]
       /\ reads' \in 0 .. MaxReads /\ eof' \in BOOLEAN
       /\ (~ eof' => ~ eof /\ pos' = pos - Advance(old) + Advance(c))
  BY <1>3, <1>9, CallOf
<1>11. /\ overlap' \in BOOLEAN
       /\ ~ overlap' => ~ overlap /\ \A u \in Threads \ {t} : reading[u].at = "done"
  BY <1>0, <1>3, OthersDone
<1>12. ASSUME ~ overlap', length >= Total
       PROVE  ~ eof' /\ GotRight(c)'
  <2>1. ~ eof /\ GotRight(old)
    BY <1>0, <1>3, <1>12 DEF ArchiveInv, RightInv
  <2>2. InBuffer(old, old.size)
    BY <1>3, <2>1 DEF GotRight
  <2>3. ASSUME NEW k \in 1 .. n + 1
        PROVE  c.out[k] = Place(c.file, c.offset + k - 1)
    <3>1. CASE k = n + 1
      <4>1. BUFFER[n + old.offset] = Place(old.file, old.offset + n)
        BY <1>5, <2>2 DEF InBuffer
      <4>2. c.out[k] = BUFFER[n + old.offset] /\ c.offset + k - 1 = old.offset + n
        BY <1>1, <1>5, <1>6, <1>7, <3>1
      <4> QED
        BY Zenon, <1>7, <4>1, <4>2
    <3>2. CASE k # n + 1
      <4>1. k \in 1 .. Len(old.out) /\ c.out[k] = old.out[k]
        BY <1>1, <1>5, <1>6, <1>7, <3>2
      <4> QED
        BY <1>3, <1>7, <2>1, <4>1 DEF GotRight
    <3> QED
      BY <3>1, <3>2
  <2>4. InBuffer(c, c.size)'
    BY <1>3, <1>7, <2>2 DEF InBuffer
  <2>5. GotRight(c)'
    BY <1>7, <2>3, <2>4 DEF GotRight
  <2> QED
    BY <1>3, <2>1, <2>5
<1> QED
  BY <1>0, <1>3, <1>4, <1>7, <1>8, <1>10, <1>11, <1>12, StepOfCall

\* When no call is under way nothing is ahead.
LEMMA BackAtRest ==
  ASSUME ArchiveInv, AtRest, ~ eof
  PROVE  pos = Header
<1>1. Ahead(reading) = {}
  BY DEF AtRest, Ahead, Advance
<1>2. Cardinality(Ahead(reading)) = 0
  BY Zenon, <1>1, FS_EmptySet
<1> QED
  BY <1>2, ArchiveAssumption DEF ArchiveInv, AheadInv

-----------------------------------------------------------------------------
(* The theorems about the archive.                                         *)

\* The inductive invariant holds throughout.
THEOREM ArchiveInvariance == ArchiveSpec => []ArchiveInv
<1>1. ArchiveInit => ArchiveInv
  BY ArchiveStarts
<1>2. ArchiveInv /\ [ArchiveNext]_archive_vars => ArchiveInv'
  <2> SUFFICES ASSUME ArchiveInv, [ArchiveNext]_archive_vars
               PROVE  ArchiveInv'
    OBVIOUS
  <2>1. ASSUME NEW t \in Threads, read_callback(t)
        PROVE  ArchiveInv'
    BY <2>1, BeginKeeps, SeekForwardKeeps, GetByteKeeps, SeekBackKeeps, CopyByteKeeps
       DEF read_callback
  <2>2. CASE UNCHANGED archive_vars
    BY <2>2 DEF archive_vars, ArchiveInv, ArchiveTypes, AheadInv, Ahead, AloneInv, RightInv,
                GotRight, InBuffer
  <2> QED
    BY <2>1, <2>2 DEF ArchiveNext
<1> QED
  BY <1>1, <1>2, PTL DEF ArchiveSpec

\* The variables have their types, and no call leaves its file or, if all files fit
\* it (BufferAssumption), the buffer (lines 105-114).
THEOREM ArchiveTyping == ArchiveSpec => []ArchiveTypeOK
<1>1. ArchiveInv => ArchiveTypeOK
  <2> SUFFICES ASSUME ArchiveInv PROVE ArchiveTypeOK
    OBVIOUS
  <2>1. ASSUME NEW t \in Threads
        PROVE  /\ reading[t].at \in {"done", "seek", "fgetc", "back", "memcpy"}
               /\ Len(reading[t].out) <= reading[t].size
               /\ reading[t].at # "done" =>
                    /\ reading[t].size > 0
                    /\ reading[t].offset + reading[t].size <= FILE_SIZE[reading[t].file]
               /\ reading[t].at \in {"fgetc", "memcpy"} =>
                    Len(reading[t].out) + reading[t].offset \in Cells
    <3>1. /\ reading[t].at \in {"done", "seek", "fgetc", "back", "memcpy"}
          /\ Len(reading[t].out) <= reading[t].size
          /\ reading[t].at # "done" =>
               /\ reading[t].size > 0
               /\ reading[t].offset + reading[t].size <= FILE_SIZE[reading[t].file]
          /\ reading[t].at \in {"fgetc", "memcpy"} => Len(reading[t].out) < reading[t].size
      BY CallOf DEF CallsOfRead, InItsFile
    <3>2. ASSUME reading[t].at \in {"fgetc", "memcpy"}
          PROVE  Len(reading[t].out) + reading[t].offset \in Cells
      BY <3>1, <3>2, CallOf, CellOf
    <3> QED
      BY <3>1, <3>2
  <2> QED
    BY <2>1 DEF ArchiveInv, ArchiveTypes, ArchiveTypeOK
<1> QED
  BY <1>1, ArchiveInvariance, PTL

\* Reads that do not overlap return the bytes of their files, for any files that
\* fit the buffer (BufferAssumption) and any number of reads (inf24-0/main.c:102-114).
THEOREM ReadsAreRight == ArchiveSpec => []RightUntilOverlap
<1>1. ArchiveInv => RightUntilOverlap
  <2> SUFFICES ASSUME ArchiveInv, ~ overlap, length >= Total, AtRest
               PROVE  /\ pos = Header
                      /\ \A t \in Threads : reading[t].out =
                           [k \in 1 .. reading[t].size |->
                              Place(reading[t].file, reading[t].offset + k - 1)]
    BY DEF RightUntilOverlap
  <2>1. ~ eof /\ pos = Header
    BY BackAtRest DEF ArchiveInv, RightInv
  <2>2. ASSUME NEW t \in Threads
        PROVE  reading[t].out = [k \in 1 .. reading[t].size |->
                                  Place(reading[t].file, reading[t].offset + k - 1)]
    <3>1. reading[t].at = "done" /\ Len(reading[t].out) = reading[t].size
      BY CallOf DEF AtRest, InItsFile
    <3>2. \A k \in 1 .. reading[t].size :
            reading[t].out[k] = Place(reading[t].file, reading[t].offset + k - 1)
      BY <3>1 DEF ArchiveInv, RightInv, GotRight
    <3>3. reading[t].out = [k \in 1 .. reading[t].size |-> reading[t].out[k]]
      BY <3>1, CallOf
    <3> QED
      BY <3>2, <3>3
  <2> QED
    BY <2>1, <2>2
<1> QED
  BY <1>1, ArchiveInvariance, PTL

\* Overlapping reads leave the archive where they found it, however many there
\* are, unless one has met its end (lines 107-112).
THEOREM SeeksLeadBack == ArchiveSpec => []SeeksCancel
<1>1. ArchiveInv => SeeksCancel
  BY BackAtRest DEF SeeksCancel
<1> QED
  BY <1>1, ArchiveInvariance, PTL
=============================================================================
