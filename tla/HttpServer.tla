----------------------------- MODULE HttpServer -----------------------------
(***************************************************************************)
(* inf16-1/main.c: a server that handles one connection after the other.   *)
(* It takes the file name from what its first read returns, reads on until *)
(* the buffer shows an empty line, and answers with the file, with 404 or  *)
(* with 403.  A stop signal is noticed between two connections.            *)
(*                                                                         *)
(* A later read writes over the beginning of the buffer and leaves the     *)
(* rest of the earlier contents in place, and that is what is searched.    *)
(* Bytes are model characters: "GET" and "HTTP" are one byte here, "/" and *)
(* letters make up a name.  A request fits the buffer, and so does a file. *)
(* A read of the file that fails is taken for one of 2^32 - 1 bytes.       *)
(***************************************************************************)
EXTENDS Naturals, Sequences, SequencesExt

CONSTANTS
  Clients,
  Wanted,    \* the name of the file each client asks for
  Request,   \* the bytes each client sends for it
  Pauses,    \* how many of them it may have sent when it pauses
  Disk       \* file names with what they are at first

\* What a path can name: a file with at least one byte, an empty one, a directory,
\* a file that may not be read, or nothing.
Kinds == {"file", "empty", "directory", "forbidden", "missing"}

\* Bytes that end what %s takes.
EndOfName == {"GET", "HTTP", "CR", "LF"}

\* A request is GET, the name, which has none of these bytes, HTTP, and the rest.
ASSUME ClientsAssumption ==
  /\ Clients # {}
  /\ DOMAIN Wanted = Clients /\ DOMAIN Request = Clients /\ DOMAIN Pauses = Clients
  /\ \A c \in Clients :
       /\ Wanted[c] \in Seq(STRING) /\ Wanted[c] \in DOMAIN Disk
       /\ Request[c] \in Seq(STRING) /\ Len(Request[c]) >= Len(Wanted[c]) + 2
       /\ Request[c][1] = "GET" /\ Request[c][Len(Wanted[c]) + 2] = "HTTP"
       /\ \A i \in 1 .. Len(Wanted[c]) :
            Request[c][i + 1] = Wanted[c][i] /\ Wanted[c][i] \notin EndOfName
       /\ Pauses[c] \subseteq 1 .. Len(Request[c])
  /\ Disk \in [DOMAIN Disk -> Kinds]

VARIABLES
  server,     \* where the server is and the client it serves
  input,      \* the part of the buffer `input` that has been filled
  file_name,
  conn,       \* the connection of each client
  answer,     \* the pieces written to each client
  backlog,    \* connections waiting to be accepted
  disk,       \* what each file is now
  stop        \* a byte is in the stop pipe

vars == <<server, input, file_name, conn, answer, backlog, disk, stop>>
request == <<input, file_name>>
outside == <<backlog, disk, stop>>

Unread(c) == SubSeq(Request[c], conn[c].got + 1, conn[c].sent)

Running == server.at \notin {"returned", "killed"}

-----------------------------------------------------------------------------

Init ==
  /\ server = [at |-> "epoll_wait", fd |-> CHOOSE c \in Clients : TRUE]
  /\ input = <<>> /\ file_name = <<>>
  /\ conn = [c \in Clients |-> [at |-> "away", sent |-> 0, got |-> 0, first |-> 0,
                                gone |-> "no", had |-> 0]]
  /\ answer = [c \in Clients |-> <<>>]
  /\ backlog = <<>>
  /\ disk = Disk
  /\ stop = FALSE

(* The world outside.                                                      *)

Connect(c) ==
  /\ Running
  /\ conn[c].at = "away"
  /\ conn' = [conn EXCEPT ![c].at = "queued"]
  /\ backlog' = Append(backlog, c)
  /\ UNCHANGED <<server, request, answer, disk, stop>>

Send(c) ==
  /\ conn[c].at \in {"queued", "open"} /\ conn[c].gone = "no"
  /\ \E n \in Pauses[c] : n > conn[c].sent /\ conn' = [conn EXCEPT ![c].sent = n]
  /\ UNCHANGED <<server, request, answer, outside>>

\* The client closes its socket, with or without pieces it has not read.
Leave(c) ==
  /\ conn[c].at \in {"queued", "open"} /\ conn[c].gone = "no"
  /\ \E how \in IF answer[c] = <<>> THEN {"end"} ELSE {"end", "reset"} :
       conn' = [conn EXCEPT ![c].gone = how, ![c].had = Len(answer[c])]
  /\ UNCHANGED <<server, request, answer, outside>>

\* A piece written after the end is answered by a reset.
Reset(c) ==
  /\ conn[c].gone = "end" /\ Len(answer[c]) > conn[c].had
  /\ conn' = [conn EXCEPT ![c].gone = "broken"]
  /\ UNCHANGED <<server, request, answer, outside>>

Unlink(name) ==
  /\ disk[name] \in {"file", "empty"}
  /\ disk' = [disk EXCEPT ![name] = "missing"]
  /\ UNCHANGED <<server, request, conn, answer, backlog, stop>>

StopSignalHandler ==
  /\ Running
  /\ stop' = TRUE
  /\ UNCHANGED <<server, request, conn, answer, backlog, disk>>

-----------------------------------------------------------------------------
(* ServerMain.  epoll_wait returns one event, any of those that are ready. *)

\* A mutated Stop: goes on with the loop.
StopContinues ==
  /\ server.at = "epoll_wait" /\ stop
  /\ UNCHANGED <<server, request, conn, answer, outside>>

Stop ==
  /\ server.at = "epoll_wait" /\ stop
  /\ server' = [server EXCEPT !.at = "returned"]
  /\ UNCHANGED <<request, conn, answer, outside>>

Accept ==
  /\ server.at = "epoll_wait" /\ backlog # <<>>
  /\ server' = [at |-> "first_read", fd |-> Head(backlog)]
  /\ conn' = [conn EXCEPT ![Head(backlog)].at = "open"]
  /\ backlog' = Tail(backlog)
  /\ UNCHANGED <<request, answer, disk, stop>>

Close(c) ==
  /\ server = [at |-> "close", fd |-> c]
  /\ server' = [server EXCEPT !.at = "epoll_wait"]
  /\ conn' = [conn EXCEPT ![c].at = "closed"]
  /\ UNCHANGED <<request, answer, outside>>

(* ServerHandler.                                                          *)

\* The longest beginning of s without a byte of `ends`.
BeginningOf(s, ends) ==
  LET n == CHOOSE n \in 0 .. Len(s) :
             /\ \A i \in 1 .. n : s[i] \notin ends
             /\ n < Len(s) => s[n + 1] \in ends
  IN  SubSeq(s, 1, n)

\* A mutated NameIn: takes the rest of the line.
LineIn(s) ==
  IF s = <<>> \/ Head(s) # "GET" THEN <<>>
  ELSE BeginningOf(Tail(s), {"CR", "LF"})

\* What sscanf finds after GET, nothing if the input does not begin with it.
NameIn(s) ==
  IF s = <<>> \/ Head(s) # "GET" THEN <<>> ELSE BeginningOf(Tail(s), EndOfName)

FirstRead(c) ==
  /\ server = [at |-> "first_read", fd |-> c]
  /\ Unread(c) # <<>> \/ conn[c].gone # "no"
  /\ input' = Unread(c)
  /\ file_name' = NameIn(Unread(c))
  /\ conn' = [conn EXCEPT ![c].got = conn[c].sent, ![c].first = conn[c].sent]
  /\ server' = [server EXCEPT !.at = "search"]
  /\ UNCHANGED <<answer, outside>>

LineEnd(i) == i + 1 \in DOMAIN input /\ input[i] = "CR" /\ input[i + 1] = "LF"


\* The search of WaitEndOfInput for a line end after a line end.
EmptyLine == \E i \in DOMAIN input : i > 1 /\ LineEnd(i) /\ input[i - 1] = "LF"

\* For a line end at the very beginning the byte before the buffer is looked
\* at: it may have any value.
Search(c) ==
  /\ server = [at |-> "search", fd |-> c]
  /\ \/ /\ EmptyLine \/ LineEnd(1)
        /\ server' = [server EXCEPT !.at = "status"]
     \/ /\ ~ EmptyLine
        /\ server' = [server EXCEPT !.at = "read"]
  /\ UNCHANGED <<request, conn, answer, outside>>

\* The read of WaitEndOfInput.
ReadOver(c) ==
  /\ server = [at |-> "read", fd |-> c]
  /\ Unread(c) # <<>>
  /\ input' = Unread(c) \o SubSeq(input, Len(Unread(c)) + 1, Len(input))
  /\ conn' = [conn EXCEPT ![c].got = conn[c].sent]
  /\ server' = [server EXCEPT !.at = "search"]
  /\ UNCHANGED <<file_name, answer, outside>>

\* A mutated AfterEnd: the end of input does not end the loop.
SearchAgain == "search"

AfterEnd == "status"

ReadEnd(c) ==
  /\ server = [at |-> "read", fd |-> c]
  /\ Unread(c) = <<>> /\ conn[c].gone # "no"
  /\ server' = [server EXCEPT !.at = AfterEnd]
  /\ UNCHANGED <<request, conn, answer, outside>>

\* What a path names: the empty name is the directory itself.
FileKind(name) == IF name \in DOMAIN disk THEN disk[name] ELSE "missing"

\* The first access call of FileStatus, and the second, for which a file that has
\* gone by now is one that may not be read.
Exists(c) ==
  /\ server = [at |-> "status", fd |-> c]
  /\ server' = [server EXCEPT !.at = IF FileKind(file_name) = "missing" THEN "404" ELSE "access"]
  /\ UNCHANGED <<request, conn, answer, outside>>

MayRead(c) ==
  /\ server = [at |-> "access", fd |-> c]
  /\ server' = [server EXCEPT !.at = IF FileKind(file_name) \in {"file", "empty", "directory"}
                                     THEN "200" ELSE "403"]
  /\ UNCHANGED <<request, conn, answer, outside>>

(* Writing.  The pieces of an answer, each a write call of its own; a      *)
(* piece is named like the state in which it is written.                   *)

\* A mutated AfterLast: the file is sent over and over.
SendAgain == "body"

AfterLast == "close"

After == [s \in {"200", "404", "403", "length", "empty", "body"} |->
            CASE s = "200" -> "length"
              [] s = "length" -> "open"
              [] s \in {"404", "403"} -> "empty"
              [] OTHER -> AfterLast]

Write(c) ==
  /\ server.at \in DOMAIN After /\ server.fd = c
  /\ \/ /\ conn[c].gone \in {"no", "end"}
        /\ answer' = [answer EXCEPT ![c] = Append(@, server.at)]
        /\ UNCHANGED conn
     \/ /\ conn[c].gone = "reset"   \* an error nobody looks at
        /\ conn' = [conn EXCEPT ![c].gone = "broken"]
        /\ UNCHANGED answer
  /\ server' = [server EXCEPT !.at = After[server.at]]
  /\ UNCHANGED <<request, outside>>

\* open and the read loop of SendData, which has nothing to write for an empty
\* file.  A directory or a file that is gone by now cannot be read, which never
\* ends the loop.
OpenFile(c) ==
  /\ server = [at |-> "open", fd |-> c]
  /\ server' = [server EXCEPT !.at = CASE FileKind(file_name) = "file" -> "body"
                                       [] FileKind(file_name) = "empty" -> "close"
                                       [] OTHER -> "endless"]
  /\ UNCHANGED <<request, conn, answer, outside>>

\* The loop writes and writes; the pieces after the first are not kept.
WriteEndless(c) ==
  /\ server = [at |-> "endless", fd |-> c]
  /\ \/ /\ conn[c].gone \in {"no", "end"}
        /\ answer' = [answer EXCEPT ![c] = IF Last(@) = "junk" /\ Len(@) > conn[c].had
                                           THEN @ ELSE Append(@, "junk")]
        /\ UNCHANGED conn
     \/ /\ conn[c].gone = "reset"
        /\ conn' = [conn EXCEPT ![c].gone = "broken"]
        /\ UNCHANGED answer
  /\ UNCHANGED <<server, request, outside>>

\* A write to a broken connection raises SIGPIPE.
WriteKills(c) ==
  /\ server.at \in DOMAIN After \cup {"endless"} /\ server.fd = c
  /\ conn[c].gone = "broken"
  /\ server' = [server EXCEPT !.at = "killed"]
  /\ UNCHANGED <<request, conn, answer, outside>>

ServerHandler(c) ==
  \/ FirstRead(c) \/ Search(c) \/ ReadOver(c) \/ ReadEnd(c) \/ Exists(c) \/ MayRead(c)
  \/ Write(c) \/ OpenFile(c) \/ WriteEndless(c) \/ WriteKills(c)

ServerMain == Stop \/ Accept \/ \E c \in Clients : ServerHandler(c) \/ Close(c)

-----------------------------------------------------------------------------

Next ==
  \/ ServerMain
  \/ StopSignalHandler
  \/ \E c \in Clients : Connect(c) \/ Send(c) \/ Leave(c) \/ Reset(c)
  \/ \E name \in DOMAIN disk : Unlink(name)

Spec == Init /\ [][Next]_vars

\* The server runs whenever it can, and resets arrive.
FairSpec ==
  /\ Spec
  /\ WF_vars(ServerMain)
  /\ \A c \in Clients : WF_vars(Reset(c))

-----------------------------------------------------------------------------
(* Properties.                                                             *)

TypeOK ==
  /\ server \in [at : {"epoll_wait", "first_read", "search", "read", "status", "access", "200",
                       "404", "403", "length", "empty", "open", "body", "endless", "close",
                       "returned", "killed"}, fd : Clients]
  /\ conn \in [Clients -> [at : {"away", "queued", "open", "closed"}, sent : Nat, got : Nat,
                           first : Nat, gone : {"no", "end", "reset", "broken"}, had : Nat]]
  /\ \A c \in Clients :
       /\ conn[c].first <= conn[c].got /\ conn[c].got <= conn[c].sent
       /\ conn[c].sent <= Len(Request[c])
       /\ Len(answer[c]) <= 4
       /\ conn[c].had <= Len(answer[c])
  /\ backlog \in Seq(Clients)
  /\ disk \in [DOMAIN Disk -> Kinds]
  /\ stop \in BOOLEAN

\* The first read has got the first line of the request.
LineWhole(c) == "CR" \in {Request[c][i] : i \in 1 .. conn[c].first}

Unchanged(c) == FileKind(Wanted[c]) = Disk[Wanted[c]]

Answer == [kind \in {"file", "empty", "forbidden", "missing"} |->
             CASE kind = "file" -> <<"200", "length", "body">>
               [] kind = "empty" -> <<"200", "length">>
               [] kind = "forbidden" -> <<"403", "empty">>
               [] kind = "missing" -> <<"404", "empty">>]

\* A client that waits until its connection is closed has the whole answer for
\* the file it named, if the first read got its first line and the file is not
\* removed, and for a directory it is never closed (inf16-1/main.c:109-126).
RightAnswer ==
  \A c \in Clients :
    conn[c].at = "closed" /\ conn[c].gone = "no" /\ LineWhole(c) /\ Unchanged(c) =>
      /\ Disk[Wanted[c]] # "directory"
      /\ answer[c] = Answer[Disk[Wanted[c]]]

\* All has been sent, and the line end and empty line at the end of it, three
\* bytes, are still to come with one read or came with the first.
EmptyLineWhole(c) ==
  /\ conn[c].sent = Len(Request[c])
  /\ conn[c].got + 3 <= Len(Request[c]) \/ conn[c].first = Len(Request[c])


\* However much of its request a client has sent, when it leaves the server is
\* done with it, or is killed by SIGPIPE at a write to this very client after its
\* reset, never by another's (lines 44, 70-75 and 179-182).
LeavingFreesServer ==
  \A c \in Clients :
    conn[c].at = "open" /\ conn[c].gone # "no" ~>
      conn[c].at = "closed" \/ (server = [at |-> "killed", fd |-> c] /\ conn[c].gone = "broken")

\* The server works until something can be read from stop_fd (lines 32-33).  It
\* does not: see LeavingFreesServer.
WorksUntilStopped == ~ Running => stop

\* The server waits for a client that is silent, or writes without an end because
\* its path names what it cannot read.
Stuck ==
  \/ /\ server.at \in {"first_read", "read"}
     /\ Unread(server.fd) = <<>> /\ conn[server.fd].gone = "no"
  \/ server.at = "endless" /\ FileKind(file_name) \in {"directory", "missing"}

\* A stop signal ends the server unless one connection keeps it forever
\* (lines 160-183).
StopsUnlessStuck == <>[]Stuck \/ (stop ~> ~ Running)
=============================================================================
