----------------------------- MODULE EchoServer -----------------------------
(***************************************************************************)
(* inf17-1/main.c: one thread serves every connection with a level-        *)
(* triggered epoll.  It reads one byte when a connection is readable, then *)
(* watches it for writability and writes the byte back in upper case, then *)
(* watches it for input again.  At end of input it closes the connection.  *)
(* SIGINT and SIGTERM write to a pipe that the same epoll watches.         *)
(*                                                                         *)
(* epoll_wait returns a batch of events; between the wait and the handling *)
(* of an event other events of the batch are handled and the network moves *)
(* on, so an event may be stale when it is handled.  The sockets block.    *)
(* The array index an accept takes is never used again, so a connection is *)
(* named by its client here; more than MAX_FD accepts overrun the arrays   *)
(* and are outside the model.                                              *)
(***************************************************************************)
EXTENDS Integers, Sequences, FiniteSets

CONSTANTS
  Clients,
  Leavers,      \* clients that may close their socket before they have read the echo
  Data,         \* the bytes each client sends
  Window,       \* bytes a connection takes before it stops being writable
  PipeSize,     \* bytes the stop pipe holds
  MaxSignals    \* bound on the number of SIGINTs and SIGTERMs

ASSUME ClientsAssumption ==
  /\ IsFiniteSet(Clients) /\ Leavers \subseteq Clients
  /\ {"stop", "listen"} \cap Clients = {}
  /\ Data \in [Clients -> Seq(STRING)]
  /\ Window \in Nat \ {0} /\ PipeSize \in Nat \ {0} /\ MaxSignals \in Nat

VARIABLES
  server,    \* what ServerMain is doing
  batch,     \* events of the last epoll_wait that are still to be handled
  fds,       \* connections in the order they were accepted
  conn,      \* the socket of each client, as the server's kernel sees it
  entity,    \* label and byte of each connection, and the events it is watched for
  echo,      \* everything written to each connection
  taken,     \* how much of the echo the client has read
  backlog,   \* connections waiting to be accepted
  signals,   \* signals delivered so far
  pipe       \* bytes in the stop pipe

vars == <<server, batch, fds, conn, entity, echo, taken, backlog, signals, pipe>>
serverVars == <<server, batch, fds, entity>>

-----------------------------------------------------------------------------

Capital == [a |-> "A", b |-> "B", c |-> "C"]

toupper(x) == IF x \in DOMAIN Capital THEN Capital[x] ELSE x

\* What can be in an entity: "nul" before anything is read.
Bytes == {"nul"} \cup UNION {{toupper(Data[c][i]) : i \in 1 .. Len(Data[c])} : c \in Clients}

\* Bytes of client c that have arrived and that the server has not read.
Unread(c) == conn[c].sent - conn[c].got

\* read() on the connection returns at once: a byte, the end or an error.
Readable(c) == Unread(c) > 0 \/ conn[c].fin \/ conn[c].reset # "no"

\* write() on the connection returns at once.
Writable(c) == Len(echo[c]) - taken[c] < Window \/ conn[c].reset # "no"

Init ==
  /\ server = "epoll_wait"
  /\ batch = {}
  /\ fds = <<>>
  /\ conn = [c \in Clients |-> [at |-> "away", sent |-> 0, got |-> 0, fin |-> FALSE,
                                left |-> FALSE, reset |-> "no"]]
  /\ entity = [c \in Clients |-> [label |-> 0, byte |-> "nul", watch |-> "none"]]
  /\ echo = [c \in Clients |-> <<>>]
  /\ taken = [c \in Clients |-> 0]
  /\ backlog = <<>>
  /\ signals = 0
  /\ pipe = 0

-----------------------------------------------------------------------------
(* The clients and the network.                                            *)

Running == server \in {"epoll_wait", "events"}

Connect(c) ==
  /\ Running
  /\ conn[c].at = "away"
  /\ conn' = [conn EXCEPT ![c].at = "queued"]
  /\ backlog' = Append(backlog, c)
  /\ UNCHANGED <<serverVars, echo, taken, signals, pipe>>

Send(c) ==
  /\ conn[c].at \in {"queued", "open"}
  /\ conn[c].sent < Len(Data[c]) /\ ~ conn[c].fin /\ ~ conn[c].left
  /\ conn' = [conn EXCEPT ![c].sent = @ + 1]
  /\ UNCHANGED <<serverVars, echo, taken, backlog, signals, pipe>>

\* The client has sent everything and shuts down its sending side.
Finish(c) ==
  /\ conn[c].at \in {"queued", "open"}
  /\ conn[c].sent = Len(Data[c]) /\ ~ conn[c].fin /\ ~ conn[c].left
  /\ conn' = [conn EXCEPT ![c].fin = TRUE]
  /\ UNCHANGED <<serverVars, echo, taken, backlog, signals, pipe>>

Receive(c) ==
  /\ ~ conn[c].left
  /\ taken[c] < Len(echo[c])
  /\ taken' = [taken EXCEPT ![c] = @ + 1]
  /\ UNCHANGED <<serverVars, conn, echo, backlog, signals, pipe>>

\* The client closes its socket without waiting for the echo: the end of input
\* follows what it has sent, or a reset if it has unread echo.
Leave(c) ==
  /\ c \in Leavers
  /\ conn[c].at \in {"queued", "open"} /\ ~ conn[c].left
  /\ conn' = [conn EXCEPT
                ![c].left = TRUE,
                ![c].fin = IF taken[c] = Len(echo[c]) THEN TRUE ELSE @,
                ![c].reset = IF taken[c] = Len(echo[c]) THEN @ ELSE "pending"]
  /\ UNCHANGED <<serverVars, echo, taken, backlog, signals, pipe>>

\* What is written after that is answered by a reset.
Reset(c) ==
  /\ conn[c].left /\ conn[c].at = "open" /\ conn[c].reset = "no"
  /\ taken[c] < Len(echo[c])
  /\ conn' = [conn EXCEPT ![c].reset = "pending"]
  /\ UNCHANGED <<serverVars, echo, taken, backlog, signals, pipe>>

PipeHasRoom == pipe < PipeSize

\* StopSignalHandler: the write end of the pipe does not block, so that a
\* write to a full pipe fails and changes nothing.
StopSignalHandler ==
  /\ Running
  /\ signals < MaxSignals
  /\ signals' = signals + 1
  /\ pipe' = IF PipeHasRoom THEN pipe + 1 ELSE pipe
  /\ UNCHANGED <<serverVars, conn, echo, taken, backlog>>

-----------------------------------------------------------------------------
(* The server.  An event is [fd, events]; fd is a client, or one of the    *)
(* two names below.                                                        *)

Event(fd, events) == [fd |-> fd, events |-> events]

\* What epoll reports for a connection; a hangup is always reported.
Events(c) ==
  (IF entity[c].watch = "in" /\ Readable(c) THEN {"in"} ELSE {})
    \cup (IF entity[c].watch = "out" /\ Writable(c) THEN {"out"} ELSE {})
    \cup (IF conn[c].reset # "no" THEN {"hup"} ELSE {})

ReadyEvents ==
  {Event("stop", {"in"}) : x \in {pipe} \ {0}}
    \cup {Event("listen", {"in"}) : x \in 1 .. (IF backlog = <<>> THEN 0 ELSE 1)}
    \cup {Event(c, Events(c)) : c \in {d \in Clients : conn[d].at = "open" /\ Events(d) # {}}}

\* A wait that times out or is interrupted is tried again and changes nothing.
EpollWait ==
  /\ server = "epoll_wait"
  /\ ReadyEvents # {}
  /\ batch' = ReadyEvents
  /\ server' = "events"
  /\ UNCHANGED <<fds, conn, entity, echo, taken, backlog, signals, pipe>>

\* The next event of the batch, in no particular order, is e.
Handling(e) ==
  /\ server = "events"
  /\ e \in batch
  /\ batch' = batch \ {e}
  /\ server' = IF batch = {e} THEN "epoll_wait" ELSE "events"

\* A mutated AfterStop: only the loop over the batch is left.
NextBatch == "epoll_wait"

AfterStop == "cleanup"

Stop ==
  /\ server = "events"
  /\ Event("stop", {"in"}) \in batch
  /\ batch' = {}
  /\ server' = AfterStop
  /\ UNCHANGED <<fds, conn, entity, echo, taken, backlog, signals, pipe>>

\* accept() waits while the backlog is empty.
Accept ==
  /\ Handling(Event("listen", {"in"}))
  /\ backlog # <<>>
  /\ LET c == Head(backlog)
     IN  /\ conn' = [conn EXCEPT ![c].at = "open"]
         /\ entity' = [entity EXCEPT ![c].watch = "in"]
         /\ fds' = Append(fds, c)
  /\ backlog' = Tail(backlog)
  /\ UNCHANGED <<echo, taken, signals, pipe>>

\* A mutated ToRead: the two branches are not told apart.
ReadAlways(e) == e.events # {}

ToRead(e) == e.events \cap {"in", "hup"} # {}

\* A mutated AfterRead: goes on watching for input only.
ReadAhead == "in"

\* What a connection is watched for once it has been read.
AfterRead == "out"

\* The byte read takes the place of one that has not been written yet.
ReadByte(c) ==
  /\ \E e \in batch : e.fd = c /\ ToRead(e) /\ Handling(e)
  /\ Unread(c) > 0
  /\ conn' = [conn EXCEPT ![c].got = @ + 1]
  /\ entity' = [entity EXCEPT ![c] = [label |-> 1, watch |-> AfterRead,
                                      byte |-> toupper(Data[c][conn[c].got + 1])]]
  /\ UNCHANGED <<fds, echo, taken, backlog, signals, pipe>>

\* read() returns -1 for a reset without an end of input before it: the label
\* stays as it is.
ReadError(c) ==
  /\ \E e \in batch : e.fd = c /\ ToRead(e) /\ Handling(e)
  /\ Unread(c) = 0 /\ conn[c].reset = "pending" /\ ~ conn[c].fin
  /\ conn' = [conn EXCEPT ![c].reset = "reported"]
  /\ entity' = [entity EXCEPT ![c].watch = AfterRead]
  /\ UNCHANGED <<fds, echo, taken, backlog, signals, pipe>>

\* read() returns 0.
ReadEnd(c) ==
  /\ \E e \in batch : e.fd = c /\ ToRead(e) /\ Handling(e)
  /\ Unread(c) = 0
  /\ conn[c].reset = "reported" \/ conn[c].fin
  /\ entity' = [entity EXCEPT ![c].watch = AfterRead,
                              ![c].label = IF @ = 0 THEN -1 ELSE @]
  /\ UNCHANGED <<fds, conn, echo, taken, backlog, signals, pipe>>

\* A mutated WriteByte: the label stays, so the byte is written once more.
WriteAgain(c) ==
  /\ \E e \in batch : e.fd = c /\ ~ ToRead(e) /\ Handling(e)
  /\ entity[c].label = 1
  /\ conn[c].reset = "no"
  /\ echo' = [echo EXCEPT ![c] = Append(@, entity[c].byte)]
  /\ entity' = [entity EXCEPT ![c].watch = "in"]
  /\ UNCHANGED <<fds, conn, taken, backlog, signals, pipe>>

WriteByte(c) ==
  /\ \E e \in batch : e.fd = c /\ ~ ToRead(e) /\ Handling(e)
  /\ entity[c].label = 1
  /\ conn[c].reset = "no"
  /\ echo' = [echo EXCEPT ![c] = Append(@, entity[c].byte)]
  /\ entity' = [entity EXCEPT ![c].label = 0, ![c].watch = "in"]
  /\ UNCHANGED <<fds, conn, taken, backlog, signals, pipe>>

\* A write to a connection that was reset returns -1, which is not looked at.
WriteError(c) ==
  /\ \E e \in batch : e.fd = c /\ ~ ToRead(e) /\ Handling(e)
  /\ entity[c].label = 1
  /\ conn[c].reset = "pending" /\ ~ conn[c].fin
  /\ conn' = [conn EXCEPT ![c].reset = "reported"]
  /\ entity' = [entity EXCEPT ![c].label = 0, ![c].watch = "in"]
  /\ UNCHANGED <<fds, echo, taken, backlog, signals, pipe>>

\* A write after a reset that follows an end of input raises SIGPIPE, which
\* the program does not handle.
WriteKills(c) ==
  /\ server = "events"
  /\ \E e \in batch : e.fd = c /\ ~ ToRead(e)
  /\ entity[c].label = 1
  /\ conn[c].reset = "pending" /\ conn[c].fin
  /\ server' = "killed"
  /\ batch' = {}
  /\ UNCHANGED <<fds, conn, entity, echo, taken, backlog, signals, pipe>>

\* A mutated Close: the connection leaves the epoll and stays open.
CloseHalf(c) ==
  /\ \E e \in batch : e.fd = c /\ ~ ToRead(e) /\ Handling(e)
  /\ entity[c].label = -1
  /\ entity' = [entity EXCEPT ![c].watch = "none"]
  /\ UNCHANGED <<fds, conn, echo, taken, backlog, signals, pipe>>

Close(c) ==
  /\ \E e \in batch : e.fd = c /\ ~ ToRead(e) /\ Handling(e)
  /\ entity[c].label = -1
  /\ conn' = [conn EXCEPT ![c].at = "closed"]
  /\ entity' = [entity EXCEPT ![c].watch = "none"]
  /\ UNCHANGED <<fds, echo, taken, backlog, signals, pipe>>

\* The loop at the end of ServerMain leaves out the last connection accepted.
Cleanup ==
  /\ server = "cleanup"
  /\ conn' = [c \in Clients |->
                IF \E i \in 1 .. Len(fds) - 1 : fds[i] = c
                THEN [conn[c] EXCEPT !.at = "closed"] ELSE conn[c]]
  /\ server' = "returned"
  /\ UNCHANGED <<batch, fds, entity, echo, taken, backlog, signals, pipe>>

ServerMain ==
  \/ EpollWait \/ Stop \/ Accept \/ Cleanup
  \/ \E c \in Clients :
       \/ ReadByte(c) \/ ReadError(c) \/ ReadEnd(c)
       \/ WriteByte(c) \/ WriteError(c) \/ WriteKills(c) \/ Close(c)

Next ==
  \/ ServerMain
  \/ StopSignalHandler
  \/ \E c \in Clients :
       Connect(c) \/ Send(c) \/ Finish(c) \/ Receive(c) \/ Leave(c) \/ Reset(c)

Spec == Init /\ [][Next]_vars

\* The server runs whenever it can, and clients that stay read their echo.
FairSpec ==
  /\ Spec
  /\ WF_vars(ServerMain)
  /\ \A c \in Clients : WF_vars(Receive(c))

-----------------------------------------------------------------------------
(* Properties.                                                             *)

TypeOK ==
  /\ server \in {"epoll_wait", "events", "cleanup", "returned", "killed"}
  /\ batch \subseteq [fd : Clients \cup {"stop", "listen"}, events : SUBSET {"in", "out", "hup"}]
  /\ server = "events" <=> batch # {}
  /\ fds \in Seq(Clients) /\ backlog \in Seq(Clients)
  /\ conn \in [Clients -> [at : {"away", "queued", "open", "closed"}, sent : Nat, got : Nat,
                           fin : BOOLEAN, left : BOOLEAN, reset : {"no", "pending", "reported"}]]
  /\ entity \in [Clients -> [label : {-1, 0, 1}, byte : Bytes, watch : {"none", "in", "out"}]]
  /\ echo \in [Clients -> Seq(Bytes)] /\ taken \in [Clients -> Nat]
  /\ \A c \in Clients :
       /\ conn[c].got <= conn[c].sent /\ conn[c].sent <= Len(Data[c])
       /\ taken[c] <= Len(echo[c])
  /\ signals \in 0 .. MaxSignals
  /\ pipe \in 0 .. PipeSize

\* The first n bytes of client c in upper case.
Uppercase(c, n) == [i \in 1 .. n |-> toupper(Data[c][i])]

\* As long as a connection is not reset, what the client has been sent, the
\* byte in its entity and what is still unread are together what it has sent:
\* no byte is lost, doubled or moved to another connection, even in a batch
\* (inf17-1/main.c:97-122), and a connection is closed only when all is echoed.
NoByteLost ==
  \A c \in Clients : conn[c].reset = "no" =>
    /\ echo[c] \o (IF entity[c].label = 1 THEN <<entity[c].byte>> ELSE <<>>)
         = Uppercase(c, conn[c].got)
    /\ Running /\ conn[c].at = "closed" => conn[c].fin /\ Unread(c) = 0 /\ entity[c].label = -1

\* The server never waits in a call other than epoll_wait: what an event of the
\* batch announced is still there when the event is handled (lines 75-130).
NeverBlocks ==
  \A e \in batch :
    /\ e.fd = "listen" => backlog # <<>>
    /\ e.fd \in Clients =>
         /\ conn[e.fd].at = "open"
         /\ IF ToRead(e) THEN Readable(e.fd) ELSE Writable(e.fd)

\* A client that sends everything and reads its echo gets all of it back in
\* upper case and its connection is closed, whatever other clients do, unless
\* the server ends.
Served ==
  \A c \in Clients \ Leavers :
    conn[c].fin ~> \/ ~ Running
                   \/ conn[c].at = "closed" /\ echo[c] = Uppercase(c, Len(Data[c]))

\* A stop signal ends the server, however many more arrive ("даже если придет
\* 100500 сигналов", inf17-1/main.c:160-161).
SignalStops == signals > 0 ~> server \in {"returned", "killed"}

\* ServerMain goes on until something can be read from stop_fd ("должен
\* работать до тех пор, пока в stop_fd не появится что-нибудь доступное для
\* чтения", inf17-1/main.c:33-34).
WorksUntilStopped == ~ Running => pipe > 0

-----------------------------------------------------------------------------
(* Refinement of EchoService.  A byte is sent back with the write, and a   *)
(* client that has left may get less than it asked for.                    *)

Client(c) ==
  IF conn[c].left THEN "left" ELSE IF conn[c].fin THEN "ended" ELSE "sends"

Service == INSTANCE EchoService WITH
  Reply   <- [c \in Clients |-> Uppercase(c, Len(Data[c]))],
  asked   <- [c \in Clients |-> conn[c].sent],
  client  <- [c \in Clients |-> Client(c)],
  reply   <- echo,
  closed  <- {c \in Clients : conn[c].at = "closed"},
  running <- Running

\* Every step of the event loop, the clients and the network is one of the echo
\* service or changes nothing a client could notice (lines 74-144).
ImplementsEchoService == Service!Spec
=============================================================================
