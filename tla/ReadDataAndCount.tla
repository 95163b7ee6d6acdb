-------------------------- MODULE ReadDataAndCount --------------------------
(***************************************************************************)
(* inf17-0/main.c: read_data_and_count reads N descriptors to their ends   *)
(* through one level-triggered epoll, whatever the speed of each, closes   *)
(* every one at its end and returns the number of bytes read.              *)
(*                                                                         *)
(* It registers for EPOLLIN only and takes a read of 0 bytes for the end.  *)
(* A socket whose peer has closed is reported as readable; a pipe without  *)
(* a writer and without data is reported as hung up and not as readable.   *)
(* The descriptors name different files; N is at most MAX_PENDING_EVENTS.  *)
(*                                                                         *)
(* Names that every specification has begin with Count, so that a module   *)
(* can extend this one and PrimePipe.                                      *)
(***************************************************************************)
EXTENDS Integers, FiniteSets, Functions

CONSTANTS
  FdCount,    \* N, the number of descriptors
  Buffer,     \* BUFFER_SIZE
  MaxBytes,   \* bound on what is written to a descriptor
  MaxErrors   \* bound on the reads that fail

ASSUME CountAssumption ==
  FdCount \in Nat /\ Buffer \in Nat \ {0} /\ MaxBytes \in Nat /\ MaxErrors \in Nat

Fds == 0 .. FdCount - 1

VARIABLES
  kind,        \* what each descriptor is
  sent,        \* bytes written at the other end
  ended,       \* descriptors whose other end is closed
  open,        \* descriptors that are still open here
  bytes_read,  \* the fields of data_t
  is_received,
  batch,       \* events of the last epoll_wait that are still to be handled
  remaining,   \* remaining_fds
  at,          \* where the function is
  total,       \* the value returned
  errors       \* reads that have failed

count_vars ==
  <<kind, sent, ended, open, bytes_read, is_received, batch, remaining, at, total, errors>>
writers == <<kind, sent, ended>>

-----------------------------------------------------------------------------

\* The descriptors are registered.  Data that comes earlier is found later.
CountInit ==
  /\ kind \in [Fds -> {"socket", "pipe"}]
  /\ sent = [f \in Fds |-> 0]
  /\ ended = {}
  /\ open = Fds
  /\ bytes_read = [f \in Fds |-> 0]
  /\ is_received = {}
  /\ batch = {}
  /\ remaining = FdCount
  /\ at = "wait"
  /\ total = 0
  /\ errors = 0

Unread(f) == sent[f] - bytes_read[f]

(* The other ends.                                                         *)

WriteByte(f) ==
  /\ f \notin ended /\ sent[f] < MaxBytes
  /\ sent' = [sent EXCEPT ![f] = @ + 1]
  /\ UNCHANGED <<kind, ended, open, bytes_read, is_received, batch, remaining, at, total, errors>>

CloseEnd(f) ==
  /\ f \notin ended
  /\ ended' = ended \cup {f}
  /\ UNCHANGED <<kind, sent, open, bytes_read, is_received, batch, remaining, at, total, errors>>

(* The function.                                                           *)

Readable(f) == Unread(f) > 0 \/ (f \in ended /\ kind[f] = "socket")

\* A hangup is reported although nobody asked for it.
Ready == {f \in open : Readable(f) \/ f \in ended}

Event(f) == [fd |-> f, in |-> Readable(f)]

EpollWait ==
  /\ at = "wait" /\ remaining > 0
  /\ Ready # {}
  /\ batch' = {Event(f) : f \in Ready}
  /\ at' = "events"
  /\ UNCHANGED <<writers, open, bytes_read, is_received, remaining, total, errors>>

\* What a read of at most Buffer bytes returns when no byte or end is missing.
Amount(f) == IF Unread(f) < Buffer THEN Unread(f) ELSE Buffer

\* The next event of the batch, in no particular order, is e.
Handling(e) ==
  /\ at = "events"
  /\ e \in batch
  /\ batch' = batch \ {e}
  /\ at' = IF batch = {e} THEN "wait" ELSE "events"

ReadSome(f) ==
  /\ \E e \in batch : e.fd = f /\ e.in /\ Handling(e)
  /\ Amount(f) > 0
  /\ bytes_read' = [bytes_read EXCEPT ![f] = @ + Amount(f)]
  /\ UNCHANGED <<writers, open, is_received, remaining, total, errors>>

\* read returns -1, as it does when a signal or a reset of the peer meets it: the
\* event has been handled, and nothing else has changed.
ReadFails(f) ==
  /\ \E e \in batch : e.fd = f /\ e.in /\ Handling(e)
  /\ errors < MaxErrors
  /\ errors' = errors + 1
  /\ UNCHANGED <<writers, open, bytes_read, is_received, remaining, total>>

\* A mutated ReadEnd: the descriptor is counted and stays open.
ReadEndUnclosed(f) ==
  /\ \E e \in batch : e.fd = f /\ e.in /\ Handling(e)
  /\ Amount(f) = 0
  /\ is_received' = is_received \cup {f}
  /\ remaining' = remaining - 1
  /\ UNCHANGED <<writers, open, bytes_read, total, errors>>

\* A mutated ReadEnd: the descriptor is closed and not counted.
ReadEndUncounted(f) ==
  /\ \E e \in batch : e.fd = f /\ e.in /\ Handling(e)
  /\ Amount(f) = 0
  /\ is_received' = is_received \cup {f}
  /\ open' = open \ {f}
  /\ UNCHANGED <<writers, bytes_read, remaining, total, errors>>

\* read returns 0: the descriptor is closed and leaves the epoll with it.
ReadEnd(f) ==
  /\ \E e \in batch : e.fd = f /\ e.in /\ Handling(e)
  /\ Amount(f) = 0
  /\ is_received' = is_received \cup {f}
  /\ open' = open \ {f}
  /\ remaining' = remaining - 1
  /\ UNCHANGED <<writers, bytes_read, total, errors>>

\* A mutated HangUp: taken for the end.
HangUpEnds(f) ==
  /\ \E e \in batch : e.fd = f /\ ~ e.in /\ Handling(e)
  /\ remaining' = remaining - 1
  /\ UNCHANGED <<writers, open, bytes_read, is_received, total, errors>>

\* An event that is only a hangup changes nothing.
HangUp(f) ==
  /\ \E e \in batch : e.fd = f /\ ~ e.in /\ Handling(e)
  /\ remaining' = IF f \in is_received THEN remaining - 1 ELSE remaining
  /\ UNCHANGED <<writers, open, bytes_read, is_received, total, errors>>

\* The loop over files_data.
Sum(counts) == FoldFunction(+, 0, counts)

Return ==
  /\ at = "wait" /\ remaining = 0
  /\ total' = Sum(bytes_read)
  /\ at' = "returned"
  /\ UNCHANGED <<writers, open, bytes_read, is_received, batch, remaining, errors>>

read_data_and_count ==
  \/ EpollWait \/ Return
  \/ \E f \in Fds : ReadSome(f) \/ ReadFails(f) \/ ReadEnd(f) \/ HangUp(f)

-----------------------------------------------------------------------------

CountNext == read_data_and_count \/ \E f \in Fds : WriteByte(f) \/ CloseEnd(f)

CountSpec == CountInit /\ [][CountNext]_count_vars

\* The function runs whenever it can; nobody has to write or close.
CountFairSpec == CountSpec /\ WF_count_vars(read_data_and_count)

-----------------------------------------------------------------------------
(* Properties.                                                             *)

CountTypeOK ==
  /\ kind \in [Fds -> {"socket", "pipe"}]
  /\ sent \in [Fds -> 0 .. MaxBytes] /\ bytes_read \in [Fds -> 0 .. MaxBytes]
  /\ ended \subseteq Fds /\ open \subseteq Fds /\ is_received \subseteq Fds
  /\ batch \subseteq [fd : Fds, in : BOOLEAN]
  /\ remaining \in 0 .. FdCount
  /\ at \in {"wait", "events", "returned"}
  /\ errors \in 0 .. MaxErrors

\* When the function returns, every descriptor has ended and is closed, and the
\* value returned is the number of bytes that were sent to all of them, however
\* writes, ends and batches fell and whatever reads failed (inf17-0/main.c:7-8, 13
\* and 65-97).
ReturnsWhatWasSent ==
  at = "returned" =>
    /\ ended = Fds /\ open = {}
    /\ total = Sum(sent)

\* While epoll_wait sleeps, some descriptor is still to be written or closed at
\* its other end: the function never sleeps over the last end, or over bytes
\* that came while it handled a batch (lines 65-89).
SleepsOnlyForWriters ==
  at = "wait" /\ remaining > 0 /\ Ready = {} =>
    \E f \in open : f \notin ended /\ Unread(f) = 0

\* When the other end of every socket is closed, the function returns.
ReturnsForSockets ==
  (\A f \in Fds : f \in ended /\ kind[f] = "socket") ~> at = "returned"

\* The task (lines 4-8): data are read from all descriptors, of whatever kind, and
\* their sum is returned.  The end of a pipe is a hangup without EPOLLIN, which
\* lines 72-86 pass over again and again.
ReturnsAll == ended = Fds ~> at = "returned"
=============================================================================
