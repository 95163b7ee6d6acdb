------------------------------- MODULE UnionFS -------------------------------
(***************************************************************************)
(* inf24-1/main.cpp: a FUSE file system that shows several directories as  *)
(* one.  A name stands for the newest of the entries called so, found by   *)
(* looking into one directory after the other, while whoever owns those    *)
(* directories goes on changing them.                                      *)
(*                                                                         *)
(* Every look at the disk is a step.  No state is kept from one call to    *)
(* the next (in_dirs is only read), so one call, made on any disk, stands  *)
(* for all.  What std::filesystem throws leaves the callback and ends the  *)
(* process; that it throws for want of a permission is left out.  The      *)
(* entries are regular files; where no directory has the name, the         *)
(* relative path that is used instead leads nowhere.                       *)
(***************************************************************************)
EXTENDS Integers, FiniteSets, SequencesExt

CONSTANTS
  NDirs,       \* number of directories, in_dirs is 1 .. NDirs
  Names,       \* names an entry may have
  Times,       \* times of last change
  Lengths,     \* lengths of a file
  Sizes,       \* offsets and sizes the kernel asks read for
  MaxChanges   \* bound on the changes of the disk during a call

ASSUME UnionAssumption ==
  /\ NDirs \in Nat \ {0} /\ MaxChanges \in Nat
  /\ Times \subseteq Nat /\ Lengths \subseteq Nat /\ Sizes \subseteq Nat
  /\ IsFiniteSet(Names)   \* they have at most NAME_MAX bytes

VARIABLES
  disk,      \* the entries of each directory
  present,   \* the directories that exist
  call,      \* the call under way
  touched,   \* entries changed since it began
  removed,   \* some have been removed
  setback,   \* an entry became older between the two looks at its time
  changes    \* changes made

vars == <<disk, present, call, touched, removed, setback, changes>>

in_dirs == 1 .. NDirs
Versions == [time : Times, len : Lengths]
Nothing == [time |-> 0, len |-> 0]
Contents == UNION {[S -> Versions] : S \in SUBSET Names}

Has(d, n) == d \in in_dirs /\ n \in DOMAIN disk[d]

Init ==
  /\ present \in SUBSET in_dirs
  /\ disk \in [in_dirs -> Contents]
  /\ \A d \in in_dirs \ present : disk[d] = <<>>
  /\ \E op \in {"getattr", "read", "readdir"}, n \in Names :
       call = [op |-> op, name |-> n, at |-> "exists", dir |-> 1, real |-> 0, time |-> 0,
               looked |-> 0, offset |-> 0, asked |-> 0, size |-> 0, got |-> 0,
               version |-> Nothing, listing |-> <<>>]
  /\ touched = {} /\ removed = FALSE /\ setback = FALSE /\ changes = 0

-----------------------------------------------------------------------------
(* GetRealPathAndLastTime, the beginning of getattr and read.              *)

There == Has(call.dir, call.name)
NextDir(c) == [c EXCEPT !.at = "exists", !.dir = @ + 1]
Throw(c) == [c EXCEPT !.at = "thrown"]
Searching == call.op # "readdir" /\ call.dir <= NDirs

\* A mutated exists: the time is asked for without looking whether there is one.
Blindly == TRUE

exists == There

Exists ==
  /\ call.at = "exists" /\ Searching
  /\ call' = IF exists THEN [call EXCEPT !.at = "first"] ELSE NextDir(call)

\* A mutated Newer: of two equally old entries the later directory's is taken.
NewerOrSame(time) == time >= call.time \/ call.real = 0

Newer(time) == time > call.time \/ call.real = 0

FirstLook ==
  /\ call.at = "first"
  /\ call' = CASE ~ There -> Throw(call)
               [] There /\ Newer(disk[call.dir][call.name].time) ->
                    [call EXCEPT !.at = "second", !.looked = disk[call.dir][call.name].time]
               [] OTHER -> NextDir(call)

SecondLook ==
  /\ call.at = "second"
  /\ IF There
     THEN LET time == disk[call.dir][call.name].time
          IN  /\ call' = NextDir([call EXCEPT !.real = call.dir, !.time = time])
              /\ setback' = (setback \/ time < call.looked)
     ELSE call' = Throw(call) /\ UNCHANGED setback

-----------------------------------------------------------------------------
(* What is done with the path.                                             *)

Found == Has(call.real, call.name)
Version == IF Found THEN disk[call.real][call.name] ELSE Nothing
After(op) == call.op = op /\ call.at = "exists" /\ call.dir > NDirs

\* Without an entry stbuf stays as it is, and 0 is returned all the same.
Stat ==
  /\ After("getattr")
  /\ call' = [call EXCEPT !.at = "done", !.version = Version]

IsRegularFile ==
  /\ After("read")
  /\ call' = [call EXCEPT !.at = IF Found THEN "file_size" ELSE "done"]

\* The number of bytes a file of `len` bytes has to give.
Held(offset, size, len) == Cardinality({k \in offset .. offset + size - 1 : k < len})

\* A mutated Cut: the rest of the file is taken for the size.
RestOfFile(offset, size, len) == IF offset >= len THEN 0 ELSE len - offset

Cut(offset, size, len) ==
  CASE offset >= len        -> 0
    [] offset + size <= len -> size
    [] OTHER                -> len - offset

\* The place and the size of the read are chosen here, where they are first used.
FileSize ==
  /\ call.at = "file_size"
  /\ \E offset, size \in Sizes :
       call' = IF Found
               THEN [call EXCEPT !.at = IF offset >= Version.len THEN "done" ELSE "open",
                                 !.offset = offset, !.asked = size,
                                 !.size = Cut(offset, size, Version.len)]
               ELSE Throw(call)

\* `size` is returned, however many bytes the file still has.
OpenAndRead ==
  /\ call.at = "open"
  /\ call' = [call EXCEPT !.at = "done", !.version = Version,
                          !.got = Held(call.offset, call.size, Version.len)]

-----------------------------------------------------------------------------
(* ReadDirCallback on the root.                                            *)

IsDirectory ==
  /\ call.at = "exists" /\ call.op = "readdir" /\ call.dir <= NDirs
  /\ call' = IF call.dir \in present THEN [call EXCEPT !.at = "iterate"] ELSE NextDir(call)

\* A mutated NewNames: names listed before are listed again.
AllNames(c) == SetToSeq(DOMAIN disk[c.dir])

NewNames(c) == SetToSeq(DOMAIN disk[c.dir] \ ToSet(c.listing))

DirectoryIterator ==
  /\ call.at = "iterate"
  /\ call' = IF call.dir \in present
             THEN NextDir([call EXCEPT !.listing = @ \o NewNames(call)])
             ELSE Throw(call)

EndOfListing ==
  /\ After("readdir")
  /\ call' = [call EXCEPT !.at = "done"]

Callback ==
  /\ \/ SecondLook
     \/ /\ Exists \/ FirstLook
           \/ Stat
           \/ IsRegularFile \/ FileSize \/ OpenAndRead
           \/ IsDirectory \/ DirectoryIterator \/ EndOfListing
        /\ UNCHANGED setback
  /\ UNCHANGED <<disk, present, touched, removed, changes>>

-----------------------------------------------------------------------------
(* What others do with the directories meanwhile.                          *)

UnderWay == call.at \notin {"done", "thrown"} /\ changes < MaxChanges

\* An entry is written, or one of any age is moved there.
Put ==
  /\ UnderWay
  /\ \E d \in present, n \in Names, v \in Versions :
       /\ disk' = [disk EXCEPT ![d] = [m \in DOMAIN @ \cup {n} |-> IF m = n THEN v ELSE @[m]]]
       /\ touched' = touched \cup {<<d, n>>}
  /\ changes' = changes + 1
  /\ UNCHANGED <<present, call, removed, setback>>

RemoveFile ==
  /\ UnderWay
  /\ \E d \in present : \E n \in DOMAIN disk[d] :
       /\ disk' = [disk EXCEPT ![d] = [m \in DOMAIN @ \ {n} |-> @[m]]]
       /\ touched' = touched \cup {<<d, n>>}
  /\ removed' = TRUE
  /\ changes' = changes + 1
  /\ UNCHANGED <<present, call, setback>>

RemoveDir ==
  /\ UnderWay
  /\ \E d \in present :
       /\ present' = present \ {d}
       /\ disk' = [disk EXCEPT ![d] = <<>>]
       /\ touched' = touched \cup ({d} \X DOMAIN disk[d])
  /\ removed' = TRUE
  /\ changes' = changes + 1
  /\ UNCHANGED <<call, setback>>

\* A directory appears late, perhaps after the call has passed it.
MakeDir ==
  /\ UnderWay
  /\ \E d \in in_dirs \ present : present' = present \cup {d}
  /\ changes' = changes + 1
  /\ UNCHANGED <<disk, call, touched, removed, setback>>

Next == Callback \/ Put \/ RemoveFile \/ RemoveDir \/ MakeDir

Spec == Init /\ [][Next]_vars

-----------------------------------------------------------------------------
(* Properties.                                                             *)

TypeOK ==
  /\ present \subseteq in_dirs /\ disk \in [in_dirs -> Contents]
  /\ call.at \in {"exists", "first", "second", "file_size", "open", "iterate", "done", "thrown"}
  /\ call.dir \in 1 .. NDirs + 1 /\ call.real \in 0 .. NDirs
  /\ call.size <= call.asked /\ call.version \in Versions \cup {Nothing}
  /\ touched \subseteq in_dirs \X Names
  /\ removed \in BOOLEAN /\ setback \in BOOLEAN /\ changes \in 0 .. MaxChanges

Answered(op) == call.op = op /\ call.at = "done"
Still(d, n) == Has(d, n) /\ <<d, n>> \notin touched

\* getattr and read answer from an entry that was, when it was looked at, newer
\* than every entry of an earlier directory and no older than every one of a later
\* directory, of those nobody has touched meanwhile, whatever is done to the
\* others, unless an entry is replaced by an older one between the two looks at
\* its time (inf24-1/main.cpp:49-64).
NewestOfStill ==
  \A d \in in_dirs : Still(d, call.name) => LET time == disk[d][call.name].time IN
    /\ call.real # 0
    /\ ~ setback => IF d < call.real THEN time < call.time ELSE time <= call.time

\* If that entry is left alone, getattr returns its attributes, and read as many
\* of its bytes as it says, which are all that were asked for and are there.
ServesItsChoice ==
  Still(call.real, call.name) => LET v == disk[call.real][call.name] IN
    /\ Answered("getattr") => call.version = v
    /\ Answered("read") => call.size = call.got /\ call.got = Held(call.offset, call.asked, v.len)

\* Both hold of every answer, whatever is done to the other entries during the
\* call (inf24-1/main.cpp:69-83, 134-151).
AnswersFromNewest ==
  Answered("getattr") \/ Answered("read") => NewestOfStill /\ ServesItsChoice

\* A listing has no name twice, and of the names nobody has touched exactly
\* those that some directory has (lines 101-119).
ListsEachNameOnce ==
  Answered("readdir") =>
    /\ IsInjective(call.listing)
    /\ \A n \in Names : (\A d \in in_dirs : <<d, n>> \notin touched) =>
         (n \in ToSet(call.listing) <=> \E d \in in_dirs : Has(d, n))

\* The file system dies in a call only if something was removed during it: the
\* exceptions of last_write_time, file_size and directory_iterator are out of
\* reach as long as entries are only written (lines 56-59, 107-109, 135-139).
DiesOnlyOfRemoval == call.at = "thrown" => removed
=============================================================================
