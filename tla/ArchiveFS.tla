------------------------------ MODULE ArchiveFS ------------------------------
(***************************************************************************)
(* inf24-0/main.c: a FUSE file system whose files lie one behind the other *)
(* in one archive, after a header with their sizes.  read_callback finds a *)
(* file by seeking forward from where the shared FILE stands, copies byte  *)
(* by byte into the shared BUFFER, and seeks back.  fuse_main calls it     *)
(* from several threads at once.                                           *)
(*                                                                         *)
(* Every call of stdio is atomic, sequences of calls are not.  The byte at *)
(* position p of the archive is p itself.  A seek to before the beginning  *)
(* fails and leaves the position as it is.  A file that does not fit       *)
(* BUFFER is written behind its end, where C promises nothing any more:    *)
(* BufferAssumption leaves such archives out.                              *)
(*                                                                         *)
(* Names that every specification has begin with Archive, so that a module *)
(* can extend this one and UnionFS.                                        *)
(***************************************************************************)
EXTENDS Integers, FiniteSets, Sequences

CONSTANTS
  Threads,     \* threads of FUSE
  FILE_SIZE,   \* the sizes in the header
  Header,      \* length of the header
  DataLengths, \* lengths the data behind it may have
  BufferSize,  \* the cells of BUFFER, 100000 in the code
  MaxReads     \* bound on the calls of read_callback

ASSUME ArchiveAssumption ==
  /\ FILE_SIZE \in Seq(Nat) /\ FILE_SIZE # <<>>
  /\ Header \in Nat /\ DataLengths \subseteq Nat /\ MaxReads \in Nat

\* Every file fits BUFFER, which read_callback does not test.
ASSUME BufferAssumption ==
  BufferSize \in Nat /\ \A f \in DOMAIN FILE_SIZE : FILE_SIZE[f] <= BufferSize

VARIABLES
  length,   \* length of the data
  pos,      \* position of DATA_FILE
  BUFFER,
  reading,  \* the last call of each thread
  reads,    \* calls made
  overlap,  \* two calls have been under way at the same time
  eof       \* a fgetc has met the end of the archive

archive_vars == <<length, pos, BUFFER, reading, reads, overlap, eof>>

Files == DOMAIN FILE_SIZE

\* A mutated FILE_HEAD: the sizes are not added up.
LastSize == [i \in Files |-> IF i = 1 THEN 0 ELSE FILE_SIZE[i - 1]]

FILE_HEAD ==
  LET head[i \in Files] == IF i = 1 THEN 0 ELSE head[i - 1] + FILE_SIZE[i - 1]
  IN  head

\* The bytes of all files, each with its file and its number there.
Bytes == UNION {{f} \X (1 .. FILE_SIZE[f]) : f \in Files}
Total == Cardinality(Bytes)
Offsets == 0 .. Total

Cells == 0 .. BufferSize - 1

ArchiveInit ==
  /\ length \in DataLengths
  /\ pos = Header
  /\ BUFFER = [k \in Cells |-> 0]
  /\ reading = [t \in Threads |-> [at |-> "done", file |-> 1, offset |-> 0, size |-> 0, out |-> <<>>]]
  /\ reads = 0
  /\ overlap = FALSE /\ eof = FALSE

-----------------------------------------------------------------------------

\* A mutated Size: nothing is cut off.
WholeSize(file, offset, size) == size

\* What is asked for beyond the end of the file is cut off.
Size(file, offset, size) ==
  IF offset + size <= FILE_SIZE[file] THEN size ELSE FILE_SIZE[file] - offset

\* A request for nothing but the end returns 0 at once.
Begin(t) ==
  /\ reading[t].at = "done"
  /\ reads < MaxReads
  /\ \E f \in Files, offset, size \in Offsets :
       /\ size > 0
       /\ reading' = [reading EXCEPT ![t] =
            IF offset >= FILE_SIZE[f]
            THEN [at |-> "done", file |-> f, offset |-> offset, size |-> 0, out |-> <<>>]
            ELSE [at |-> "seek", file |-> f, offset |-> offset,
                  size |-> Size(f, offset, size), out |-> <<>>]]
  /\ reads' = reads + 1
  /\ overlap' = (overlap \/ \E u \in Threads : reading[u].at # "done")
  /\ UNCHANGED <<length, pos, BUFFER, eof>>

Distance(c) == FILE_HEAD[c.file] + c.offset

SeekForward(t) ==
  /\ reading[t].at = "seek"
  /\ pos' = pos + Distance(reading[t])
  /\ reading' = [reading EXCEPT ![t].at = "fgetc"]
  /\ UNCHANGED <<length, BUFFER, reads, overlap, eof>>

\* At the end of the archive fgetc returns -1 and the position stays.  `out`
\* counts the turns of the loop here and is what memcpy copies later.
GetByte(t) ==
  /\ reading[t].at = "fgetc"
  /\ LET c == reading[t]
         ended == pos >= Header + length
     IN  /\ BUFFER' = [BUFFER EXCEPT ![Len(c.out) + c.offset] = IF ended THEN -1 ELSE pos]
         /\ pos' = IF ended THEN pos ELSE pos + 1
         /\ eof' = (eof \/ ended)
         /\ reading' = [reading EXCEPT ![t] =
              IF Len(c.out) + 1 < c.size THEN [c EXCEPT !.out = Append(@, 0)]
              ELSE [c EXCEPT !.at = "back", !.out = <<>>]]
  /\ UNCHANGED <<length, reads, overlap>>

\* A mutated Back: the bytes read are forgotten.
BackToFile(c) == Distance(c)

Back(c) == Distance(c) + c.size

SeekBack(t) ==
  /\ reading[t].at = "back"
  /\ pos' = IF pos >= Back(reading[t]) THEN pos - Back(reading[t]) ELSE pos
  /\ reading' = [reading EXCEPT ![t].at = "memcpy"]
  /\ UNCHANGED <<length, BUFFER, reads, overlap, eof>>

CopyByte(t) ==
  /\ reading[t].at = "memcpy"
  /\ LET c == reading[t]
     IN  reading' = [reading EXCEPT
           ![t].out = Append(@, BUFFER[Len(@) + c.offset]),
           ![t].at = IF Len(c.out) + 1 < c.size THEN @ ELSE "done"]
  /\ UNCHANGED <<length, pos, BUFFER, reads, overlap, eof>>

read_callback(t) ==
  Begin(t) \/ SeekForward(t) \/ GetByte(t) \/ SeekBack(t) \/ CopyByte(t)

ArchiveNext == \E t \in Threads : read_callback(t)

ArchiveSpec == ArchiveInit /\ [][ArchiveNext]_archive_vars

-----------------------------------------------------------------------------
(* Properties.                                                             *)

ArchiveTypeOK ==
  /\ length \in DataLengths /\ pos \in Nat /\ reads \in 0 .. MaxReads
  /\ BUFFER \in [Cells -> -1 .. Header + length]
  /\ \A t \in Threads : LET c == reading[t] IN
       /\ c.at \in {"done", "seek", "fgetc", "back", "memcpy"}
       /\ Len(c.out) <= c.size
       /\ c.at # "done" => c.size > 0 /\ c.offset + c.size <= FILE_SIZE[c.file]
       /\ c.at \in {"fgetc", "memcpy"} => Len(c.out) + c.offset \in Cells
  /\ overlap \in BOOLEAN /\ eof \in BOOLEAN

AtRest == \A t \in Threads : reading[t].at = "done"

\* Where byte k of a file lies, counted from 0: behind those of the files before.
Place(f, k) == Header + Cardinality({b \in Bytes : b[1] < f}) + k

\* As long as no two reads have overlapped and the archive is as long as its
\* header says, a read returns the bytes of its file, whatever was read before,
\* and leaves the archive where it found it (inf24-0/main.c:102-114, 157-163).
RightUntilOverlap ==
  ~ overlap /\ length >= Total /\ AtRest =>
    /\ pos = Header
    /\ \A t \in Threads : LET c == reading[t] IN
         c.out = [k \in 1 .. c.size |-> Place(c.file, c.offset + k - 1)]

\* The seeks of overlapping reads cancel each other: when all have returned the
\* archive is back at its first file, unless a byte was asked for beyond the end,
\* for which the seek back goes too far and every later read is displaced
\* (lines 107-112).
SeeksCancel == ~ eof /\ AtRest => pos = Header
=============================================================================
