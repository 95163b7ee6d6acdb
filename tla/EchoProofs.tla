------------------------------ MODULE EchoProofs ------------------------------
(***************************************************************************)
(* Theorems of EchoServer for any number of clients, whatever they send,   *)
(* whichever of them leave, and any windows, pipe and number of signals.   *)
(***************************************************************************)
EXTENDS EchoServer, SequenceTheorems, TLAPS

-----------------------------------------------------------------------------
(* The inductive invariant.                                                *)

Conns == [at : {"away", "queued", "open", "closed"}, sent : Nat, got : Nat,
          fin : BOOLEAN, left : BOOLEAN, reset : {"no", "pending", "reported"}]
Entities == [label : {-1, 0, 1}, byte : Bytes, watch : {"none", "in", "out"}]
EventSet == [fd : Clients \cup {"stop", "listen"}, events : SUBSET {"in", "out", "hup"}]

TypeInv ==
  /\ fds \in Seq(Clients) /\ backlog \in Seq(Clients)
  /\ conn \in [Clients -> Conns]
  /\ entity \in [Clients -> Entities]
  /\ echo \in [Clients -> Seq(Bytes)]
  /\ taken \in [Clients -> Nat]
  /\ signals \in 0 .. MaxSignals
  /\ pipe \in 0 .. PipeSize

\* The server has a batch exactly while it handles one.
ServerInv ==
  /\ server \in {"epoll_wait", "events", "cleanup", "returned", "killed"}
  /\ batch \subseteq EventSet
  /\ server = "events" <=> batch # {}

\* A connection waits in the backlog once, and only before it is accepted.
Accepted(c) == conn[c].at \in {"open", "closed"}

QueueInv ==
  /\ \A i \in 1 .. Len(backlog) : conn[backlog[i]].at = "queued"
  /\ \A i, j \in 1 .. Len(backlog) : backlog[i] = backlog[j] => i = j
  /\ \A i \in 1 .. Len(fds) : Accepted(fds[i])

\* What an event announced still holds.
Holds(e) ==
  /\ e.fd = "listen" => backlog # <<>>
  /\ e.fd \in Clients =>
       /\ conn[e.fd].at = "open"
       /\ e.events # {}
       /\ "in" \in e.events => entity[e.fd].watch = "in" /\ Readable(e.fd)
       /\ "out" \in e.events => entity[e.fd].watch = "out" /\ Writable(e.fd)
       /\ "hup" \in e.events => conn[e.fd].reset # "no"

\* A batch has one event of a descriptor.
BatchInv ==
  /\ \A e \in batch : Holds(e)
  /\ \A e, f \in batch : e.fd = f.fd => e = f

\* The counters of a connection are in order.
CountInv(c) ==
  conn[c].got <= conn[c].sent /\ conn[c].sent <= Len(Data[c]) /\ taken[c] <= Len(echo[c])

\* The byte of the entity, if it has one.
Held(c) == IF entity[c].label = 1 THEN <<entity[c].byte>> ELSE <<>>

\* Unless it is reset, a connection that is watched for input holds no byte, all
\* bytes read are echoed or held, and its label tells the end only after it.
ByteInv(c) ==
  /\ conn[c].at \in {"away", "queued"} => entity[c].label = 0
  /\ conn[c].reset = "no" =>
       /\ echo[c] \o Held(c) = Uppercase(c, conn[c].got)
       /\ entity[c].watch = "in" => entity[c].label = 0
       /\ entity[c].label = -1 => conn[c].fin /\ Unread(c) = 0
       /\ Running /\ conn[c].at = "closed" => entity[c].label = -1

ClientsInv == \A c \in Clients : CountInv(c) /\ ByteInv(c)

IInv == TypeInv /\ ServerInv /\ QueueInv /\ BatchInv /\ ClientsInv

-----------------------------------------------------------------------------
(* What the parts of the invariant need of a step.                         *)

\* Upper case of a byte is a byte, and reading one more adds one to the upper case.
LEMMA OneMoreByte ==
  ASSUME NEW c \in Clients, NEW n \in Nat, n < Len(Data[c])
  PROVE  /\ toupper(Data[c][n + 1]) \in Bytes
         /\ Uppercase(c, n + 1) = Uppercase(c, n) \o <<toupper(Data[c][n + 1])>>
<1>1. Len(Data[c]) \in Nat
  BY ClientsAssumption
<1>2. \A i \in 1 .. n + 1 : toupper(Data[c][i]) \in Bytes
  BY <1>1 DEF Bytes
<1>3. Uppercase(c, n) \in Seq(Bytes) /\ Len(Uppercase(c, n)) = n
  BY <1>2 DEF Uppercase
<1>4. Uppercase(c, n + 1) = Append(Uppercase(c, n), toupper(Data[c][n + 1]))
  BY <1>2, <1>3 DEF Uppercase
<1>5. n + 1 \in 1 .. n + 1
  OBVIOUS
<1>6. toupper(Data[c][n + 1]) \in Bytes
  BY <1>2, <1>5
<1>7. Append(Uppercase(c, n), toupper(Data[c][n + 1])) = Uppercase(c, n) \o <<toupper(Data[c][n + 1])>>
  BY <1>3, <1>6, AppendIsConcat
<1> QED
  BY <1>4, <1>6, <1>7

\* What the kernel holds for client d may only grow.
Grows(d) ==
  /\ conn'[d].at = conn[d].at /\ conn'[d].got = conn[d].got
  /\ conn[d].sent <= conn'[d].sent /\ conn'[d].sent <= Len(Data[d])
  /\ conn[d].fin => conn'[d].fin /\ conn'[d].sent = conn[d].sent
  /\ conn[d].reset # "no" => conn'[d].reset # "no"
  /\ taken[d] <= taken'[d] /\ taken'[d] <= Len(echo[d])

\* What an event of client c announced goes on to hold.
Fresh(c) ==
  /\ conn'[c].at = conn[c].at /\ entity'[c].watch = entity[c].watch
  /\ Readable(c) => Readable(c)'
  /\ Writable(c) => Writable(c)'
  /\ conn[c].reset # "no" => conn'[c].reset # "no"

LEMMA BatchStays ==
  ASSUME BatchInv, batch' \subseteq batch,
         \A e \in batch' : e.fd = "listen" /\ backlog # <<>> => backlog' # <<>>,
         \A e \in batch' : e.fd \in Clients => Fresh(e.fd)
  PROVE  BatchInv'
BY DEF BatchInv, Holds, Fresh

LEMMA QueueStays ==
  ASSUME QueueInv, backlog \in Seq(Clients), backlog' = backlog, fds \in Seq(Clients), fds' = fds,
         \A c \in Clients : conn[c].at = "queued" => conn'[c].at = "queued",
         \A c \in Clients : Accepted(c) => Accepted(c)'
  PROVE  QueueInv'
BY DEF QueueInv

\* A client nothing happens to keeps its part of the invariant.
Untouched(d) ==
  conn'[d] = conn[d] /\ entity'[d] = entity[d] /\ echo'[d] = echo[d] /\ taken'[d] = taken[d]

LEMMA UntouchedKeeps ==
  ASSUME NEW d \in Clients, Untouched(d), Running' => Running, CountInv(d), ByteInv(d)
  PROVE  CountInv(d)' /\ ByteInv(d)' /\ Fresh(d)
<1>1. Unread(d)' = Unread(d) /\ Held(d)' = Held(d)
  BY DEF Untouched, Unread, Held
<1>2. Uppercase(d, conn[d].got)' = Uppercase(d, conn[d].got)
  BY DEF Untouched, Uppercase
<1>3. Readable(d)' <=> Readable(d)
  BY <1>1 DEF Untouched, Readable
<1>4. Writable(d)' <=> Writable(d)
  BY DEF Untouched, Writable
<1>5. CountInv(d)'
  BY DEF CountInv, Untouched
<1>6. ByteInv(d)'
  BY <1>1, <1>2 DEF ByteInv, Untouched
<1>7. Fresh(d)
  BY <1>3, <1>4 DEF Fresh, Untouched
<1> QED
  BY <1>5, <1>6, <1>7

\* What grows keeps its part as well, and every event.
LEMMA GrowsKeeps ==
  ASSUME TypeInv, NEW d \in Clients, Grows(d), entity' = entity, echo' = echo,
         conn'[d] \in Conns, taken'[d] \in Nat,
         Running' => Running, CountInv(d), ByteInv(d)
  PROVE  CountInv(d)' /\ ByteInv(d)' /\ Fresh(d)
<1>1. /\ conn[d].sent \in Nat /\ conn[d].got \in Nat /\ conn'[d].sent \in Nat /\ taken[d] \in Nat
      /\ Len(echo[d]) \in Nat /\ Len(Data[d]) \in Nat
  BY ClientsAssumption DEF TypeInv, Conns
<1>2. conn[d].fin => Unread(d)' = Unread(d)
  BY DEF Grows, Unread
<1>3. Unread(d) > 0 => Unread(d)' > 0
  BY <1>1 DEF Grows, Unread
<1>4. Held(d)' = Held(d)
  BY DEF Held
<1>5. Uppercase(d, conn[d].got)' = Uppercase(d, conn[d].got)
  BY DEF Grows, Uppercase
<1>6. CountInv(d)'
  BY <1>1 DEF CountInv, Grows
<1>7. ByteInv(d)'
  BY <1>2, <1>4, <1>5 DEF ByteInv, Grows
<1>8. Fresh(d)
  <2>1. Readable(d) => Readable(d)'
    BY <1>3 DEF Readable, Grows
  <2>2. Writable(d) => Writable(d)'
    <3>1. Len(echo'[d]) = Len(echo[d]) /\ Window \in Int
      BY ClientsAssumption
    <3>2. Len(echo[d]) - taken[d] < Window => Len(echo'[d]) - taken'[d] < Window
      BY <1>1, <3>1 DEF Grows
    <3> QED
      BY <3>2 DEF Writable, Grows
  <2> QED
    BY <2>1, <2>2 DEF Fresh, Grows
<1> QED
  BY <1>6, <1>7, <1>8

-----------------------------------------------------------------------------
(* The clients and the network.                                            *)

Network(c) == Send(c) \/ Finish(c) \/ Receive(c) \/ Leave(c) \/ Reset(c)

\* Whatever they do after they have connected lets everything grow.
LEMMA NetworkGrows ==
  ASSUME IInv, NEW c \in Clients, Network(c)
  PROVE  /\ UNCHANGED <<serverVars, echo, backlog, signals, pipe>>
         /\ conn' \in [Clients -> Conns] /\ taken' \in [Clients -> Nat]
         /\ \A d \in Clients : Grows(d)
<1>1. /\ conn \in [Clients -> Conns] /\ taken \in [Clients -> Nat]
      /\ \A d \in Clients : CountInv(d) /\ echo[d] \in Seq(Bytes) /\ Data[d] \in Seq(STRING)
  BY ClientsAssumption DEF IInv, TypeInv, ClientsInv
<1>2. /\ conn[c] \in Conns /\ taken[c] \in Nat
      /\ \A d \in Clients : conn[d].sent \in Nat /\ conn[d].got \in Nat /\ taken[d] \in Nat
  BY <1>1 DEF Conns
<1>3. \A d \in Clients : Len(echo[d]) \in Nat /\ Len(Data[d]) \in Nat
  BY <1>1
<1>4. UNCHANGED <<serverVars, echo, backlog, signals, pipe>>
  BY DEF Network, Send, Finish, Receive, Leave, Reset
<1>5. ASSUME conn' = conn, taken' = taken
      PROVE  \A d \in Clients : Grows(d)
  BY <1>1, <1>2, <1>5 DEF Grows, CountInv
<1>6. CASE Send(c)
  <2>1. taken' = taken /\ conn' = [conn EXCEPT ![c] = [conn[c] EXCEPT !.sent = @ + 1]]
    BY <1>6 DEF Send
  <2>2. [conn[c] EXCEPT !.sent = @ + 1] \in Conns
    BY <1>2 DEF Conns
  <2>3. conn' \in [Clients -> Conns]
    BY <1>1, <2>1, <2>2
  <2>4. ASSUME NEW d \in Clients PROVE Grows(d)
    BY <1>1, <1>2, <1>3, <1>6, <2>1 DEF Grows, CountInv, Send, Conns
  <2> QED
    BY <1>1, <1>4, <2>1, <2>3, <2>4
<1>7. CASE Finish(c)
  <2>1. taken' = taken /\ conn' = [conn EXCEPT ![c] = [conn[c] EXCEPT !.fin = TRUE]]
    BY <1>7 DEF Finish
  <2>2. [conn[c] EXCEPT !.fin = TRUE] \in Conns
    BY <1>2 DEF Conns
  <2>3. conn' \in [Clients -> Conns]
    BY <1>1, <2>1, <2>2
  <2>4. ASSUME NEW d \in Clients PROVE Grows(d)
    BY <1>1, <1>2, <1>3, <1>7, <2>1 DEF Grows, CountInv, Finish, Conns
  <2> QED
    BY <1>1, <1>4, <2>1, <2>3, <2>4
<1>8. CASE Receive(c)
  <2>1. conn' = conn /\ taken' = [taken EXCEPT ![c] = @ + 1] /\ taken[c] < Len(echo[c])
    BY <1>8 DEF Receive
  <2>2. taken' \in [Clients -> Nat]
    BY <1>1, <2>1
  <2>3. ASSUME NEW d \in Clients PROVE Grows(d)
    BY <1>1, <1>2, <1>3, <2>1 DEF Grows, CountInv
  <2> QED
    BY <1>1, <1>4, <2>1, <2>2, <2>3
<1>9. CASE Leave(c)
  <2>1. PICK f \in BOOLEAN, r \in {"no", "pending", "reported"} :
          /\ conn' = [conn EXCEPT ![c] = [conn[c] EXCEPT !.left = TRUE, !.fin = f, !.reset = r]]
          /\ conn[c].fin => f
          /\ conn[c].reset # "no" => r # "no"
    <3> DEFINE fin == IF taken[c] = Len(echo[c]) THEN TRUE ELSE conn[c].fin
               reset == IF taken[c] = Len(echo[c]) THEN conn[c].reset ELSE "pending"
    <3>1. conn' = [conn EXCEPT ![c] = [conn[c] EXCEPT !.left = TRUE, !.fin = fin, !.reset = reset]]
      BY <1>9 DEF Leave
    <3>2. conn[c].fin \in BOOLEAN /\ conn[c].reset \in {"no", "pending", "reported"}
      BY <1>2 DEF Conns
    <3>3. fin \in BOOLEAN /\ reset \in {"no", "pending", "reported"}
      BY <3>2
    <3>4. (conn[c].fin => fin) /\ (conn[c].reset # "no" => reset # "no")
      OBVIOUS
    <3> HIDE DEF fin, reset
    <3> QED
      BY <3>1, <3>3, <3>4
  <2>2. [conn[c] EXCEPT !.left = TRUE, !.fin = f, !.reset = r] \in Conns
    BY <1>2 DEF Conns
  <2>3. taken' = taken
    BY <1>9 DEF Leave
  <2>4. conn' \in [Clients -> Conns]
    BY <1>1, <2>1, <2>2
  <2>5. ASSUME NEW d \in Clients PROVE Grows(d)
    BY <1>1, <1>2, <1>3, <2>1, <2>3 DEF Grows, CountInv, Conns
  <2> QED
    BY <1>1, <1>4, <2>3, <2>4, <2>5
<1>10. CASE Reset(c)
  <2>1. taken' = taken /\ conn' = [conn EXCEPT ![c] = [conn[c] EXCEPT !.reset = "pending"]]
    BY <1>10 DEF Reset
  <2>2. [conn[c] EXCEPT !.reset = "pending"] \in Conns
    BY <1>2 DEF Conns
  <2>3. conn' \in [Clients -> Conns]
    BY <1>1, <2>1, <2>2
  <2>4. ASSUME NEW d \in Clients PROVE Grows(d)
    BY <1>1, <1>2, <1>3, <2>1 DEF Grows, CountInv, Conns
  <2> QED
    BY <1>1, <1>4, <2>1, <2>3, <2>4
<1> QED
  BY <1>6, <1>7, <1>8, <1>9, <1>10 DEF Network

LEMMA NetworkKeeps ==
  ASSUME IInv, NEW c \in Clients, Network(c)
  PROVE  IInv'
<1>1. /\ UNCHANGED <<serverVars, echo, backlog, signals, pipe>>
      /\ conn' \in [Clients -> Conns] /\ taken' \in [Clients -> Nat]
      /\ \A d \in Clients : Grows(d)
  BY NetworkGrows
<1>2. server' = server /\ batch' = batch /\ fds' = fds /\ entity' = entity /\ backlog' = backlog /\ echo' = echo
  BY <1>1 DEF serverVars
<1>3. TypeInv'
  BY <1>1, <1>2 DEF IInv, TypeInv
<1>4. ServerInv'
  BY <1>2 DEF IInv, ServerInv
<1>5. QueueInv'
  BY <1>1, <1>2, QueueStays DEF IInv, TypeInv, Grows, Accepted
<1>6. \A d \in Clients : CountInv(d)' /\ ByteInv(d)' /\ Fresh(d)
  <2> SUFFICES ASSUME NEW d \in Clients PROVE CountInv(d)' /\ ByteInv(d)' /\ Fresh(d)
    OBVIOUS
  <2>1. Running' => Running
    BY <1>2 DEF Running
  <2>2. TypeInv /\ CountInv(d) /\ ByteInv(d)
    BY DEF IInv, ClientsInv
  <2>3. conn'[d] \in Conns /\ taken'[d] \in Nat /\ Grows(d)
    BY <1>1
  <2> QED
    BY <1>2, <2>1, <2>2, <2>3, GrowsKeeps
<1>7. BatchInv'
  BY <1>2, <1>6, BatchStays DEF IInv
<1> QED
  BY <1>3, <1>4, <1>5, <1>6, <1>7 DEF IInv, ClientsInv

-----------------------------------------------------------------------------
(* The server: an event of a connection.                                   *)

\* What an event tells the handler of it.
LEMMA EventTells ==
  ASSUME IInv, NEW e \in batch, e.fd \in Clients
  PROVE  /\ conn[e.fd].at = "open"
         /\ ToRead(e) /\ conn[e.fd].reset = "no" => entity[e.fd].watch = "in"
         /\ ToRead(e) => Readable(e.fd)
         /\ ~ ToRead(e) => entity[e.fd].watch = "out" /\ Writable(e.fd)
<1>1. Holds(e) /\ e.events \subseteq {"in", "out", "hup"}
  BY DEF IInv, BatchInv, ServerInv, EventSet
<1>2. ToRead(e) => "in" \in e.events \/ "hup" \in e.events
  BY DEF ToRead
<1>3. ~ ToRead(e) => "out" \in e.events
  BY <1>1 DEF ToRead, Holds
<1>4. conn[e.fd].reset # "no" => Readable(e.fd)
  BY DEF Readable
<1> QED
  BY <1>1, <1>2, <1>3, <1>4 DEF Holds

\* A handler that changes only the connection of its event, and keeps that
\* connection's part of the invariant, keeps all of it.
LEMMA HandlerKeeps ==
  ASSUME IInv, NEW e \in batch, e.fd \in Clients, Handling(e),
         UNCHANGED <<fds, taken, backlog, signals, pipe>>,
         conn' \in [Clients -> Conns], entity' \in [Clients -> Entities],
         echo' \in [Clients -> Seq(Bytes)],
         \A d \in Clients \ {e.fd} : Untouched(d),
         CountInv(e.fd)', ByteInv(e.fd)', Accepted(e.fd)'
  PROVE  IInv'
<1>1. batch' = batch \ {e} /\ (server' = IF batch = {e} THEN "epoll_wait" ELSE "events") /\ server = "events"
  BY DEF Handling
<1>2. TypeInv'
  BY DEF IInv, TypeInv
<1>3. ServerInv'
  <2>1. batch = {e} <=> batch \ {e} = {}
    OBVIOUS
  <2> QED
    BY <1>1, <2>1 DEF IInv, ServerInv
<1>4. \A d \in Clients : CountInv(d)' /\ ByteInv(d)' /\ (d # e.fd => Fresh(d))
  <2>1. Running' => Running
    BY <1>1 DEF Running
  <2> QED
    BY <2>1, UntouchedKeeps DEF IInv, ClientsInv
<1>5. BatchInv'
  <2>1. \A f \in batch' : f \in batch /\ f.fd # e.fd
    BY <1>1 DEF IInv, BatchInv
  <2> QED
    BY <1>1, <1>4, <2>1, BatchStays DEF IInv
<1>6. QueueInv'
  <2>1. \A d \in Clients : conn[d].at = "queued" => conn'[d].at = "queued"
    BY EventTells DEF Untouched
  <2>2. \A d \in Clients : Accepted(d) => Accepted(d)'
    BY DEF Untouched, Accepted
  <2> QED
    BY <2>1, <2>2, QueueStays DEF IInv, TypeInv
<1> QED
  BY <1>2, <1>3, <1>4, <1>5, <1>6 DEF IInv, ClientsInv

\* What the handlers start from.
LEMMA HandlerFacts ==
  ASSUME IInv, NEW c \in Clients
  PROVE  /\ conn \in [Clients -> Conns] /\ entity \in [Clients -> Entities]
         /\ echo \in [Clients -> Seq(Bytes)] /\ taken \in [Clients -> Nat]
         /\ conn[c] \in Conns /\ entity[c] \in Entities /\ echo[c] \in Seq(Bytes)
         /\ conn[c].sent \in Nat /\ conn[c].got \in Nat /\ Len(Data[c]) \in Nat
         /\ taken[c] \in Nat /\ Len(echo[c]) \in Nat
         /\ CountInv(c) /\ ByteInv(c)
<1>1. /\ conn \in [Clients -> Conns] /\ entity \in [Clients -> Entities]
      /\ echo \in [Clients -> Seq(Bytes)] /\ taken \in [Clients -> Nat]
  BY DEF IInv, TypeInv
<1>2. conn[c] \in Conns /\ conn[c].sent \in Nat /\ conn[c].got \in Nat
  BY <1>1 DEF Conns
<1>3. Len(Data[c]) \in Nat
  BY ClientsAssumption
<1>4. echo[c] \in Seq(Bytes) /\ Len(echo[c]) \in Nat
  BY <1>1
<1> QED
  BY <1>1, <1>2, <1>3, <1>4 DEF IInv, ClientsInv

\* The handling of event e puts new values in the socket of client c, in its
\* entity and in its echo.
Puts(e, c, k, n, w) ==
  /\ e \in batch /\ e.fd = c /\ Handling(e)
  /\ UNCHANGED <<fds, taken, backlog, signals, pipe>>
  /\ conn' = [conn EXCEPT ![c] = k]
  /\ entity' = [entity EXCEPT ![c] = n]
  /\ echo' = [echo EXCEPT ![c] = w]

\* The values keep the client's part of the invariant.
Good(c, k, n, w) ==
  /\ k \in Conns /\ n \in Entities /\ w \in Seq(Bytes)
  /\ k.at \in {"open", "closed"}
  /\ k.got <= k.sent /\ k.sent <= Len(Data[c]) /\ taken[c] <= Len(w)
  /\ k.reset = "no" =>
       /\ w \o (IF n.label = 1 THEN <<n.byte>> ELSE <<>>) = Uppercase(c, k.got)
       /\ n.watch = "in" => n.label = 0
       /\ n.label = -1 => k.fin /\ k.sent - k.got = 0
       /\ k.at = "closed" => n.label = -1

LEMMA GoodValuesKeep ==
  ASSUME IInv, NEW c \in Clients, NEW e, NEW k, NEW n, NEW w, Puts(e, c, k, n, w), Good(c, k, n, w)
  PROVE  IInv'
<1>1. /\ conn \in [Clients -> Conns] /\ entity \in [Clients -> Entities]
      /\ echo \in [Clients -> Seq(Bytes)]
  BY HandlerFacts
<1>2. conn'[c] = k /\ entity'[c] = n /\ echo'[c] = w /\ taken'[c] = taken[c]
  BY <1>1 DEF Puts
<1>3. \A d \in Clients \ {c} : Untouched(d)
  BY <1>1 DEF Untouched, Puts
<1>4. CountInv(c)'
  BY <1>2 DEF CountInv, Good
<1>5. ByteInv(c)'
  <2>1. Held(c)' = IF n.label = 1 THEN <<n.byte>> ELSE <<>>
    BY <1>2 DEF Held
  <2>2. Uppercase(c, conn[c].got)' = Uppercase(c, k.got)
    BY <1>2 DEF Uppercase
  <2>3. Unread(c)' = k.sent - k.got
    BY <1>2 DEF Unread
  <2> QED
    BY <1>2, <2>1, <2>2, <2>3 DEF ByteInv, Good
<1>6. conn' \in [Clients -> Conns] /\ entity' \in [Clients -> Entities] /\ echo' \in [Clients -> Seq(Bytes)]
  BY <1>1 DEF Puts, Good
<1>7. e \in batch /\ e.fd = c /\ Handling(e) /\ UNCHANGED <<fds, taken, backlog, signals, pipe>>
  BY DEF Puts
<1>8. Accepted(c)'
  BY <1>2 DEF Good, Accepted
<1> QED
  BY <1>3, <1>4, <1>5, <1>6, <1>7, <1>8, HandlerKeeps

\* A byte is read only when none is held, and takes its place in the order.
LEMMA ReadByteKeeps ==
  ASSUME IInv, NEW c \in Clients, ReadByte(c)
  PROVE  IInv'
<1>1. PICK e \in batch : e.fd = c /\ ToRead(e) /\ Handling(e)
  BY DEF ReadByte
<1>2. /\ conn \in [Clients -> Conns] /\ entity \in [Clients -> Entities]
      /\ echo \in [Clients -> Seq(Bytes)] /\ taken \in [Clients -> Nat]
      /\ conn[c] \in Conns /\ entity[c] \in Entities /\ echo[c] \in Seq(Bytes)
      /\ conn[c].sent \in Nat /\ conn[c].got \in Nat /\ Len(Data[c]) \in Nat
      /\ taken[c] \in Nat /\ Len(echo[c]) \in Nat
      /\ CountInv(c) /\ ByteInv(c)
  BY HandlerFacts
<1>3. conn[c].at = "open" /\ (conn[c].reset = "no" => entity[c].watch = "in")
  BY <1>1, EventTells
<1> DEFINE b == toupper(Data[c][conn[c].got + 1])
           k == [conn[c] EXCEPT !.got = @ + 1]
           n == [label |-> 1, watch |-> "out", byte |-> b]
<1>4. Puts(e, c, k, n, echo[c])
  BY <1>1, <1>2 DEF Puts, ReadByte, AfterRead
<1>5. conn[c].got < conn[c].sent /\ conn[c].got < Len(Data[c])
  BY <1>2 DEF ReadByte, Unread, CountInv
<1>6. b \in Bytes /\ Uppercase(c, conn[c].got + 1) = Uppercase(c, conn[c].got) \o <<b>>
  BY <1>2, <1>5, OneMoreByte
<1>7. k \in Conns
  <2>1. conn[c].got + 1 \in Nat
    BY <1>2
  <2> HIDE DEF b
  <2> QED
    BY <1>2, <2>1 DEF Conns
<1>8. k.at = "open" /\ k.got = conn[c].got + 1 /\ k.sent = conn[c].sent /\ k.reset = conn[c].reset
  BY <1>2, <1>3 DEF Conns
<1>9. n \in Entities /\ n.label = 1 /\ n.watch = "out" /\ n.byte = b
  BY <1>6 DEF Entities
<1> HIDE DEF b, k, n
<1>10. conn[c].reset = "no" => echo[c] = Uppercase(c, conn[c].got)
  <2>1. conn[c].reset = "no" => Held(c) = <<>> /\ echo[c] \o Held(c) = Uppercase(c, conn[c].got)
    BY <1>2, <1>3 DEF ByteInv, Held
  <2> QED
    BY <1>2, <2>1, ConcatEmptySeq
<1>11. k.reset = "no" => echo[c] \o <<b>> = Uppercase(c, k.got)
  BY <1>6, <1>8, <1>10
<1>12. k.got <= k.sent /\ k.sent <= Len(Data[c]) /\ taken[c] <= Len(echo[c])
  BY <1>2, <1>5, <1>8 DEF CountInv
<1>13. Good(c, k, n, echo[c])
  BY <1>2, <1>7, <1>8, <1>9, <1>11, <1>12 DEF Good, ReadByte
<1> QED
  BY <1>4, <1>13, GoodValuesKeep

\* An error is read only from a connection that was reset.
LEMMA ReadErrorKeeps ==
  ASSUME IInv, NEW c \in Clients, ReadError(c)
  PROVE  IInv'
<1>1. PICK e \in batch : e.fd = c /\ ToRead(e) /\ Handling(e)
  BY DEF ReadError
<1>2. /\ conn \in [Clients -> Conns] /\ entity \in [Clients -> Entities]
      /\ echo \in [Clients -> Seq(Bytes)] /\ taken \in [Clients -> Nat]
      /\ conn[c] \in Conns /\ entity[c] \in Entities /\ echo[c] \in Seq(Bytes)
      /\ conn[c].sent \in Nat /\ conn[c].got \in Nat /\ Len(Data[c]) \in Nat
      /\ taken[c] \in Nat /\ Len(echo[c]) \in Nat
      /\ CountInv(c) /\ ByteInv(c)
  BY HandlerFacts
<1>3. conn[c].at = "open" /\ (conn[c].reset = "no" => entity[c].watch = "in")
  BY <1>1, EventTells
<1> DEFINE k == [conn[c] EXCEPT !.reset = "reported"]
           n == [entity[c] EXCEPT !.watch = "out"]
<1>4. Puts(e, c, k, n, echo[c])
  BY <1>1, <1>2 DEF Puts, ReadError, AfterRead
<1>5. k \in Conns /\ n \in Entities
  BY <1>2 DEF Conns, Entities
<1>6. k.at = "open" /\ k.got = conn[c].got /\ k.sent = conn[c].sent /\ k.reset = "reported"
  BY <1>2, <1>3 DEF Conns
<1> HIDE DEF k, n
<1>7. Good(c, k, n, echo[c])
  BY <1>2, <1>5, <1>6 DEF Good, ReadError, CountInv
<1> QED
  BY <1>4, <1>7, GoodValuesKeep

\* The end is read when nothing is unread and, unless reset, nothing is held.
LEMMA ReadEndKeeps ==
  ASSUME IInv, NEW c \in Clients, ReadEnd(c)
  PROVE  IInv'
<1>1. PICK e \in batch : e.fd = c /\ ToRead(e) /\ Handling(e)
  BY DEF ReadEnd
<1>2. /\ conn \in [Clients -> Conns] /\ entity \in [Clients -> Entities]
      /\ echo \in [Clients -> Seq(Bytes)] /\ taken \in [Clients -> Nat]
      /\ conn[c] \in Conns /\ entity[c] \in Entities /\ echo[c] \in Seq(Bytes)
      /\ conn[c].sent \in Nat /\ conn[c].got \in Nat /\ Len(Data[c]) \in Nat
      /\ taken[c] \in Nat /\ Len(echo[c]) \in Nat
      /\ CountInv(c) /\ ByteInv(c)
  BY HandlerFacts
<1>3. conn[c].at = "open" /\ (conn[c].reset = "no" => entity[c].watch = "in")
  BY <1>1, EventTells
<1> DEFINE l == IF entity[c].label = 0 THEN -1 ELSE entity[c].label
           n == [entity[c] EXCEPT !.watch = "out", !.label = l]
<1>4. Puts(e, c, conn[c], n, echo[c])
  BY <1>1, <1>2 DEF Puts, ReadEnd, AfterRead
<1>5. l \in {-1, 0, 1} /\ (entity[c].label = 0 => l = -1)
  BY <1>2 DEF Entities
<1> HIDE DEF l
<1>6. n \in Entities /\ n.watch = "out" /\ n.label = l
  BY <1>2, <1>5 DEF Entities
<1> HIDE DEF n
<1>7. conn[c].reset = "no" =>
        /\ echo[c] \o (IF n.label = 1 THEN <<n.byte>> ELSE <<>>) = Uppercase(c, conn[c].got)
        /\ n.label = -1 => conn[c].fin /\ conn[c].sent - conn[c].got = 0
  <2>1. conn[c].reset = "no" => entity[c].label = 0 /\ n.label = -1 /\ Held(c) = <<>>
    BY <1>2, <1>3, <1>5, <1>6 DEF ByteInv, Held
  <2>2. conn[c].reset = "no" => echo[c] \o <<>> = Uppercase(c, conn[c].got)
    BY <1>2, <2>1 DEF ByteInv
  <2>3. conn[c].reset = "no" => conn[c].fin /\ conn[c].sent - conn[c].got = 0
    BY DEF ReadEnd, Unread
  <2>4. conn[c].reset = "no" => (IF n.label = 1 THEN <<n.byte>> ELSE <<>>) = <<>>
    BY <2>1
  <2> QED
    BY <2>2, <2>3, <2>4
<1>8. Good(c, conn[c], n, echo[c])
  BY <1>2, <1>3, <1>6, <1>7 DEF Good, ReadEnd, CountInv
<1> QED
  BY <1>4, <1>8, GoodValuesKeep

\* The byte that was held is written, and none is held.
LEMMA WriteByteKeeps ==
  ASSUME IInv, NEW c \in Clients, WriteByte(c)
  PROVE  IInv'
<1>1. PICK e \in batch : e.fd = c /\ ~ ToRead(e) /\ Handling(e)
  BY DEF WriteByte
<1>2. /\ conn \in [Clients -> Conns] /\ entity \in [Clients -> Entities]
      /\ echo \in [Clients -> Seq(Bytes)] /\ taken \in [Clients -> Nat]
      /\ conn[c] \in Conns /\ entity[c] \in Entities /\ echo[c] \in Seq(Bytes)
      /\ conn[c].sent \in Nat /\ conn[c].got \in Nat /\ Len(Data[c]) \in Nat
      /\ taken[c] \in Nat /\ Len(echo[c]) \in Nat
      /\ CountInv(c) /\ ByteInv(c)
  BY HandlerFacts
<1>3. conn[c].at = "open" /\ entity[c].watch = "out"
  BY <1>1, EventTells
<1> DEFINE w == Append(echo[c], entity[c].byte)
           n == [entity[c] EXCEPT !.label = 0, !.watch = "in"]
<1>4. Puts(e, c, conn[c], n, w)
  BY <1>1, <1>2 DEF Puts, WriteByte
<1>5. n \in Entities /\ n.watch = "in" /\ n.label = 0 /\ entity[c].byte \in Bytes
  BY <1>2 DEF Entities
<1>6. w = echo[c] \o <<entity[c].byte>> /\ w \in Seq(Bytes) /\ Len(w) = Len(echo[c]) + 1
  BY <1>2, <1>5, AppendIsConcat
<1> HIDE DEF w, n
<1>7. w \o (IF n.label = 1 THEN <<n.byte>> ELSE <<>>) = Uppercase(c, conn[c].got)
  <2>1. Held(c) = <<entity[c].byte>> /\ conn[c].reset = "no"
    BY DEF Held, WriteByte
  <2>2. w = Uppercase(c, conn[c].got)
    BY <1>2, <1>6, <2>1 DEF ByteInv
  <2>3. w \o <<>> = Uppercase(c, conn[c].got)
    BY <1>6, <2>2, ConcatEmptySeq
  <2>4. (IF n.label = 1 THEN <<n.byte>> ELSE <<>>) = <<>>
    BY <1>5
  <2> QED
    BY <2>3, <2>4
<1>8. taken[c] <= Len(w) /\ conn[c].got <= conn[c].sent /\ conn[c].sent <= Len(Data[c])
  BY <1>2, <1>6 DEF CountInv
<1>9. Good(c, conn[c], n, w)
  <2>1. /\ n.watch = "in" => n.label = 0
        /\ n.label = -1 => conn[c].fin /\ conn[c].sent - conn[c].got = 0
        /\ conn[c].at = "closed" => n.label = -1
    BY <1>3, <1>5
  <2> QED
    BY <1>2, <1>3, <1>5, <1>6, <1>7, <1>8, <2>1, Zenon DEF Good
<1> QED
  BY <1>4, <1>9, GoodValuesKeep

\* A write fails only on a connection that was reset.
LEMMA WriteErrorKeeps ==
  ASSUME IInv, NEW c \in Clients, WriteError(c)
  PROVE  IInv'
<1>1. PICK e \in batch : e.fd = c /\ ~ ToRead(e) /\ Handling(e)
  BY DEF WriteError
<1>2. /\ conn \in [Clients -> Conns] /\ entity \in [Clients -> Entities]
      /\ echo \in [Clients -> Seq(Bytes)] /\ taken \in [Clients -> Nat]
      /\ conn[c] \in Conns /\ entity[c] \in Entities /\ echo[c] \in Seq(Bytes)
      /\ conn[c].sent \in Nat /\ conn[c].got \in Nat /\ Len(Data[c]) \in Nat
      /\ taken[c] \in Nat /\ Len(echo[c]) \in Nat
      /\ CountInv(c) /\ ByteInv(c)
  BY HandlerFacts
<1>3. conn[c].at = "open" /\ entity[c].watch = "out"
  BY <1>1, EventTells
<1> DEFINE k == [conn[c] EXCEPT !.reset = "reported"]
           n == [entity[c] EXCEPT !.label = 0, !.watch = "in"]
<1>4. Puts(e, c, k, n, echo[c])
  BY <1>1, <1>2 DEF Puts, WriteError
<1>5. k \in Conns /\ n \in Entities
  BY <1>2 DEF Conns, Entities
<1>6. k.at = "open" /\ k.got = conn[c].got /\ k.sent = conn[c].sent /\ k.reset = "reported"
  BY <1>2, <1>3 DEF Conns
<1> HIDE DEF k, n
<1>7. Good(c, k, n, echo[c])
  BY <1>2, <1>5, <1>6 DEF Good, WriteError, CountInv
<1> QED
  BY <1>4, <1>7, GoodValuesKeep

\* A connection is closed after its end was read.
LEMMA CloseKeeps ==
  ASSUME IInv, NEW c \in Clients, Close(c)
  PROVE  IInv'
<1>1. PICK e \in batch : e.fd = c /\ ~ ToRead(e) /\ Handling(e)
  BY DEF Close
<1>2. /\ conn \in [Clients -> Conns] /\ entity \in [Clients -> Entities]
      /\ echo \in [Clients -> Seq(Bytes)] /\ taken \in [Clients -> Nat]
      /\ conn[c] \in Conns /\ entity[c] \in Entities /\ echo[c] \in Seq(Bytes)
      /\ conn[c].sent \in Nat /\ conn[c].got \in Nat /\ Len(Data[c]) \in Nat
      /\ taken[c] \in Nat /\ Len(echo[c]) \in Nat
      /\ CountInv(c) /\ ByteInv(c)
  BY HandlerFacts
<1>3. conn[c].at = "open" /\ entity[c].watch = "out"
  BY <1>1, EventTells
<1> DEFINE k == [conn[c] EXCEPT !.at = "closed"]
           n == [entity[c] EXCEPT !.watch = "none"]
<1>4. Puts(e, c, k, n, echo[c])
  BY <1>1, <1>2 DEF Puts, Close
<1>5. k \in Conns /\ n \in Entities
  BY <1>2 DEF Conns, Entities
<1>6. /\ k.at = "closed" /\ k.got = conn[c].got /\ k.sent = conn[c].sent /\ k.reset = conn[c].reset
      /\ n.watch = "none" /\ n.label = entity[c].label /\ entity[c].label = -1
  BY <1>2 DEF Conns, Entities, Close
<1>7. k.fin <=> conn[c].fin
  BY <1>2 DEF Conns
<1> HIDE DEF k, n
<1>8. k.reset = "no" =>
        /\ echo[c] \o <<>> = Uppercase(c, k.got)
        /\ k.fin /\ k.sent - k.got = 0
  <2>1. conn[c].reset = "no" => echo[c] \o <<>> = Uppercase(c, conn[c].got)
    BY <1>2, <1>6 DEF ByteInv, Held
  <2>2. conn[c].reset = "no" => conn[c].fin /\ conn[c].sent - conn[c].got = 0
    BY <1>2, <1>6 DEF ByteInv, Unread
  <2> QED
    BY <1>6, <1>7, <2>1, <2>2
<1>9. Good(c, k, n, echo[c])
  BY <1>2, <1>5, <1>6, <1>8 DEF Good, Close, CountInv
<1> QED
  BY <1>4, <1>9, GoodValuesKeep

\* SIGPIPE ends the program in the middle of a batch.
LEMMA WriteKillsKeeps ==
  ASSUME IInv, NEW c \in Clients, WriteKills(c)
  PROVE  IInv'
<1>1. /\ batch' = {} /\ server' = "killed" /\ fds' = fds /\ conn' = conn /\ entity' = entity
      /\ echo' = echo /\ taken' = taken /\ backlog' = backlog /\ signals' = signals /\ pipe' = pipe
  BY DEF WriteKills
<1>2. \A d \in Clients : CountInv(d)' /\ ByteInv(d)'
  BY <1>1, UntouchedKeeps DEF IInv, ClientsInv, Untouched, Running
<1> QED
  BY <1>1, <1>2 DEF IInv, TypeInv, ServerInv, QueueInv, Accepted, BatchInv, ClientsInv

-----------------------------------------------------------------------------
(* The other steps.                                                        *)

LEMMA InitIInv == Init => IInv
<1> SUFFICES ASSUME Init PROVE IInv
  OBVIOUS
<1>1. \A c \in Clients : Len(Data[c]) \in Nat
  BY ClientsAssumption
<1>2. \A c \in Clients :
        /\ conn[c] = [at |-> "away", sent |-> 0, got |-> 0, fin |-> FALSE, left |-> FALSE, reset |-> "no"]
        /\ entity[c] = [label |-> 0, byte |-> "nul", watch |-> "none"]
        /\ echo[c] = <<>> /\ taken[c] = 0
  BY DEF Init
<1>3. TypeInv
  <2>1. [at |-> "away", sent |-> 0, got |-> 0, fin |-> FALSE, left |-> FALSE, reset |-> "no"] \in Conns
    BY DEF Conns
  <2>2. [label |-> 0, byte |-> "nul", watch |-> "none"] \in Entities
    BY DEF Entities, Bytes
  <2>3. conn \in [Clients -> Conns] /\ entity \in [Clients -> Entities]
    BY <2>1, <2>2 DEF Init
  <2>4. echo \in [Clients -> Seq(Bytes)] /\ taken \in [Clients -> Nat]
    BY DEF Init
  <2>5. signals \in 0 .. MaxSignals /\ pipe \in 0 .. PipeSize
    BY ClientsAssumption DEF Init
  <2> QED
    BY <2>3, <2>4, <2>5 DEF Init, TypeInv
<1>4. ServerInv
  BY DEF Init, ServerInv
<1>5. QueueInv
  <2>1. Len(backlog) = 0 /\ Len(fds) = 0
    BY DEF Init
  <2> QED
    BY <2>1 DEF QueueInv
<1>6. BatchInv
  BY DEF Init, BatchInv
<1>7. ASSUME NEW c \in Clients PROVE CountInv(c) /\ ByteInv(c)
  <2>1. CountInv(c)
    BY <1>1, <1>2 DEF CountInv
  <2>2. Held(c) = <<>> /\ conn[c].got = 0 /\ echo[c] = <<>>
    BY <1>2 DEF Held
  <2>3. Uppercase(c, 0) = <<>>
    BY DEF Uppercase
  <2>4. <<>> \o <<>> = <<>>
    OBVIOUS
  <2> QED
    BY <1>2, <2>1, <2>2, <2>3, <2>4 DEF ByteInv
<1> QED
  BY <1>3, <1>4, <1>5, <1>6, <1>7 DEF IInv, ClientsInv

\* A signal changes the pipe only.
LEMMA SignalKeeps ==
  ASSUME IInv, StopSignalHandler
  PROVE  IInv'
<1>1. /\ server' = server /\ batch' = batch /\ fds' = fds /\ conn' = conn /\ entity' = entity
      /\ echo' = echo /\ taken' = taken /\ backlog' = backlog
  BY DEF StopSignalHandler, serverVars
<1>2. signals' \in 0 .. MaxSignals /\ pipe' \in 0 .. PipeSize
  BY ClientsAssumption DEF StopSignalHandler, PipeHasRoom, IInv, TypeInv
<1>3. \A d \in Clients : CountInv(d)' /\ ByteInv(d)' /\ Fresh(d)
  BY <1>1, UntouchedKeeps DEF IInv, ClientsInv, Untouched, Running
<1>4. BatchInv'
  BY <1>1, <1>3, BatchStays DEF IInv
<1>5. QueueInv'
  BY <1>1, QueueStays DEF IInv, TypeInv, Accepted
<1> QED
  BY <1>1, <1>2, <1>3, <1>4, <1>5 DEF IInv, TypeInv, ServerInv, ClientsInv

\* A client that connects joins the end of the backlog.
LEMMA ConnectKeeps ==
  ASSUME IInv, NEW c \in Clients, Connect(c)
  PROVE  IInv'
<1>1. /\ server' = server /\ batch' = batch /\ fds' = fds /\ entity' = entity
      /\ echo' = echo /\ taken' = taken /\ signals' = signals /\ pipe' = pipe
      /\ backlog' = Append(backlog, c) /\ conn[c].at = "away"
      /\ conn' = [conn EXCEPT ![c] = [conn[c] EXCEPT !.at = "queued"]]
  BY DEF Connect, serverVars
<1>2. /\ conn \in [Clients -> Conns] /\ conn[c] \in Conns /\ CountInv(c) /\ ByteInv(c)
      /\ backlog \in Seq(Clients)
  BY HandlerFacts DEF IInv, TypeInv
<1> DEFINE k == [conn[c] EXCEPT !.at = "queued"]
<1>3. k \in Conns
  BY <1>2 DEF Conns
<1>4. /\ k.at = "queued" /\ k.got = conn[c].got /\ k.sent = conn[c].sent /\ k.reset = conn[c].reset
      /\ (k.fin <=> conn[c].fin)
  BY <1>2 DEF Conns
<1>5. conn' = [conn EXCEPT ![c] = k]
  BY <1>1
<1> HIDE DEF k
<1>6. conn' \in [Clients -> Conns] /\ conn'[c] = k /\ \A d \in Clients \ {c} : conn'[d] = conn[d]
  BY <1>2, <1>3, <1>5
<1>7. backlog' \in Seq(Clients) /\ backlog' # <<>>
  BY <1>1, <1>2
<1>8. QueueInv'
  <2>1. \A i \in 1 .. Len(backlog) : backlog[i] \in Clients /\ backlog[i] # c
    BY <1>1, <1>2 DEF IInv, QueueInv
  <2>2. /\ Len(backlog') = Len(backlog) + 1 /\ backlog'[Len(backlog) + 1] = c
        /\ \A i \in 1 .. Len(backlog) : backlog'[i] = backlog[i]
    BY <1>1, <1>2
  <2>3. \A i \in 1 .. Len(fds') : conn'[fds'[i]].at \in {"open", "closed"}
    <3>1. fds \in Seq(Clients) /\ \A i \in 1 .. Len(fds) : fds[i] # c
      BY <1>1 DEF IInv, TypeInv, QueueInv, Accepted
    <3> QED
      BY <1>1, <1>6, <3>1 DEF IInv, QueueInv, Accepted
  <2> QED
    BY <1>2, <1>4, <1>6, <2>1, <2>2, <2>3 DEF IInv, QueueInv, Accepted
<1>9. \A d \in Clients : CountInv(d)' /\ ByteInv(d)' /\ (d # c => Fresh(d))
  <2>1. \A d \in Clients \ {c} : CountInv(d)' /\ ByteInv(d)' /\ Fresh(d)
    BY <1>1, <1>6, UntouchedKeeps DEF IInv, ClientsInv, Untouched, Running
  <2>2. CountInv(c)'
    BY <1>1, <1>2, <1>4, <1>6 DEF CountInv
  <2>3. ByteInv(c)'
    <3>1. Held(c)' = Held(c) /\ Uppercase(c, conn[c].got)' = Uppercase(c, conn[c].got)
      BY <1>1, <1>4, <1>6 DEF Held, Uppercase
    <3>2. entity'[c] = entity[c] /\ echo'[c] = echo[c] /\ entity[c].label = 0
      BY <1>1, <1>2 DEF ByteInv
    <3> QED
      BY <1>2, <1>4, <1>6, <3>1, <3>2 DEF ByteInv
  <2> QED
    BY <2>1, <2>2, <2>3
<1>10. BatchInv'
  <2>1. \A e \in batch' : e.fd \in Clients => e.fd # c
    BY <1>1 DEF IInv, BatchInv, Holds
  <2> QED
    BY <1>1, <1>7, <1>9, <2>1, BatchStays DEF IInv
<1> QED
  BY <1>1, <1>6, <1>7, <1>8, <1>9, <1>10 DEF IInv, TypeInv, ServerInv, ClientsInv

\* What epoll reports holds when it is reported.
LEMMA EpollWaitKeeps ==
  ASSUME IInv, EpollWait
  PROVE  IInv'
<1>1. /\ server = "epoll_wait" /\ server' = "events" /\ batch' = ReadyEvents /\ ReadyEvents # {}
      /\ fds' = fds /\ conn' = conn /\ entity' = entity /\ echo' = echo /\ taken' = taken
      /\ backlog' = backlog /\ signals' = signals /\ pipe' = pipe
  BY DEF EpollWait
<1>2. \A e \in ReadyEvents :
        \/ e = Event("stop", {"in"})
        \/ e = Event("listen", {"in"}) /\ backlog # <<>>
        \/ \E c \in Clients : e = Event(c, Events(c)) /\ conn[c].at = "open" /\ Events(c) # {}
  BY DEF ReadyEvents
<1>3. \A c \in Clients :
        /\ Events(c) \subseteq {"in", "out", "hup"}
        /\ "in" \in Events(c) => entity[c].watch = "in" /\ Readable(c)
        /\ "out" \in Events(c) => entity[c].watch = "out" /\ Writable(c)
        /\ "hup" \in Events(c) => conn[c].reset # "no"
  BY DEF Events
<1>4. \A x, y : Event(x, y).fd = x /\ Event(x, y).events = y
  BY DEF Event
<1>5. "stop" \notin Clients /\ "listen" \notin Clients
  BY ClientsAssumption
<1>6. \A e \in ReadyEvents : e \in EventSet
  BY <1>2, <1>3 DEF EventSet, Event
<1>7. \A e, f \in ReadyEvents : e.fd = f.fd => e = f
  BY <1>2, <1>4, <1>5
<1>8. \A e \in ReadyEvents : Holds(e)
  BY <1>2, <1>3, <1>4, <1>5 DEF Holds
<1>9. \A e \in ReadyEvents : Holds(e)'
  BY <1>1, <1>8 DEF Holds, Readable, Writable, Unread
<1>10. \A d \in Clients : CountInv(d)' /\ ByteInv(d)'
  BY <1>1, UntouchedKeeps DEF IInv, ClientsInv, Untouched, Running
<1>11. QueueInv'
  BY <1>1, QueueStays DEF IInv, TypeInv, Accepted
<1>12. ServerInv'
  BY <1>1, <1>6 DEF ServerInv
<1> QED
  BY <1>1, <1>7, <1>9, <1>10, <1>11, <1>12 DEF IInv, TypeInv, BatchInv, ClientsInv

\* Stopping throws the rest of the batch away.
LEMMA StopKeeps ==
  ASSUME IInv, Stop
  PROVE  IInv'
<1>1. /\ batch' = {} /\ server' = "cleanup" /\ fds' = fds /\ conn' = conn /\ entity' = entity
      /\ echo' = echo /\ taken' = taken /\ backlog' = backlog /\ signals' = signals /\ pipe' = pipe
  BY DEF Stop, AfterStop
<1>2. \A d \in Clients : CountInv(d)' /\ ByteInv(d)'
  BY <1>1, UntouchedKeeps DEF IInv, ClientsInv, Untouched, Running
<1> QED
  BY <1>1, <1>2 DEF IInv, TypeInv, ServerInv, QueueInv, Accepted, BatchInv, ClientsInv

\* An accepted connection was waiting, has no event yet and holds no byte.
LEMMA AcceptKeeps ==
  ASSUME IInv, Accept
  PROVE  IInv'
<1>0. PICK c : c = Head(backlog)
  OBVIOUS
<1> DEFINE l == Event("listen", {"in"})
           k == [conn[c] EXCEPT !.at = "open"]
           n == [entity[c] EXCEPT !.watch = "in"]
<1>1. /\ l \in batch /\ batch' = batch \ {l} /\ server = "events"
      /\ (server' = IF batch = {l} THEN "epoll_wait" ELSE "events")
      /\ backlog # <<>> /\ backlog' = Tail(backlog) /\ fds' = Append(fds, c)
      /\ echo' = echo /\ taken' = taken /\ signals' = signals /\ pipe' = pipe
      /\ conn' = [conn EXCEPT ![c] = k] /\ entity' = [entity EXCEPT ![c] = n]
  BY <1>0 DEF Accept, Handling
<1>2. l.fd = "listen"
  BY DEF Event
<1>3. backlog \in Seq(Clients) /\ fds \in Seq(Clients)
  BY DEF IInv, TypeInv
<1>4. Len(backlog) \in Nat /\ Len(backlog) > 0 /\ c \in Clients /\ c = backlog[1]
  BY <1>0, <1>1, <1>3
<1> HIDE DEF l
<1>5. conn[c].at = "queued"
  BY <1>4 DEF IInv, QueueInv
<1>6. /\ conn \in [Clients -> Conns] /\ entity \in [Clients -> Entities]
      /\ conn[c] \in Conns /\ entity[c] \in Entities /\ CountInv(c) /\ ByteInv(c)
  BY <1>4, HandlerFacts
<1>7. k \in Conns /\ n \in Entities
  BY <1>6 DEF Conns, Entities
<1>8. /\ k.at = "open" /\ k.got = conn[c].got /\ k.sent = conn[c].sent /\ k.reset = conn[c].reset
      /\ n.watch = "in" /\ n.label = entity[c].label /\ entity[c].label = 0
  BY <1>5, <1>6 DEF Conns, Entities, ByteInv
<1> HIDE DEF k, n
<1>9. /\ conn' \in [Clients -> Conns] /\ conn'[c] = k /\ entity' \in [Clients -> Entities] /\ entity'[c] = n
      /\ \A d \in Clients \ {c} : conn'[d] = conn[d] /\ entity'[d] = entity[d]
  BY <1>1, <1>4, <1>6, <1>7
<1>10. TypeInv'
  <2>1. backlog' \in Seq(Clients) /\ fds' \in Seq(Clients)
    BY <1>1, <1>3, <1>4
  <2> QED
    BY <1>1, <1>9, <2>1 DEF IInv, TypeInv
<1>11. ServerInv'
  <2>1. batch = {l} <=> batch \ {l} = {}
    BY <1>1
  <2> QED
    BY <1>1, <2>1 DEF IInv, ServerInv
<1>12. QueueInv'
  <2>1. /\ Len(backlog') = Len(backlog) - 1
        /\ \A i \in 1 .. Len(backlog) - 1 : backlog'[i] = backlog[i + 1] /\ i + 1 \in 1 .. Len(backlog)
    BY <1>1, <1>3, <1>4
  <2>2. \A i \in 2 .. Len(backlog) : backlog[i] \in Clients /\ backlog[i] # c /\ conn[backlog[i]].at = "queued"
    BY <1>3, <1>4 DEF IInv, QueueInv
  <2>3. \A i \in 1 .. Len(backlog') : i + 1 \in 2 .. Len(backlog) /\ backlog'[i] = backlog[i + 1]
    BY <1>4, <2>1
  <2>4. \A i, j \in 2 .. Len(backlog) : backlog[i] = backlog[j] => i = j
    BY <1>4 DEF IInv, QueueInv
  <2>5. \A i, j \in 1 .. Len(backlog') : i + 1 = j + 1 => i = j
    OBVIOUS
  <2>6. \A i \in 1 .. Len(backlog') : conn'[backlog'[i]].at = "queued"
    BY <1>9, <2>2, <2>3
  <2>7. \A i \in 1 .. Len(fds') : conn'[fds'[i]].at \in {"open", "closed"}
    <3>1. \A i \in 1 .. Len(fds) : fds[i] \in Clients /\ Accepted(fds[i])
      BY <1>3 DEF IInv, QueueInv
    <3>2. /\ Len(fds') = Len(fds) + 1 /\ fds'[Len(fds) + 1] = c /\ Len(fds) \in Nat
          /\ \A i \in 1 .. Len(fds) : fds'[i] = fds[i]
      BY <1>1, <1>3, <1>4
    <3>3. \A d \in Clients : Accepted(d) => conn'[d].at \in {"open", "closed"}
      BY <1>8, <1>9 DEF Accepted
    <3>4. conn'[c].at = "open"
      BY <1>8, <1>9
    <3> QED
      BY <3>1, <3>2, <3>3, <3>4
  <2> QED
    BY <2>3, <2>4, <2>5, <2>6, <2>7 DEF QueueInv, Accepted
<1>13. \A d \in Clients : CountInv(d)' /\ ByteInv(d)' /\ (d # c => Fresh(d))
  <2>1. \A d \in Clients \ {c} : CountInv(d)' /\ ByteInv(d)' /\ Fresh(d)
    <3>1. Running' => Running
      BY <1>1 DEF Running
    <3> QED
      BY <1>1, <1>9, <3>1, UntouchedKeeps DEF IInv, ClientsInv, Untouched
  <2>2. CountInv(c)'
    BY <1>1, <1>6, <1>8, <1>9 DEF CountInv
  <2>3. ByteInv(c)'
    <3>1. Held(c)' = Held(c)
      BY <1>8, <1>9 DEF Held
    <3>2. Uppercase(c, conn[c].got)' = Uppercase(c, conn[c].got) /\ echo'[c] = echo[c]
      BY <1>1, <1>8, <1>9 DEF Uppercase
    <3> QED
      BY <1>6, <1>8, <1>9, <3>1, <3>2 DEF ByteInv
  <2> QED
    BY <2>1, <2>2, <2>3
<1>14. BatchInv'
  <2>1. \A e \in batch' : e \in batch /\ e.fd # "listen"
    BY <1>1, <1>2 DEF IInv, BatchInv
  <2>2. \A e \in batch' : e.fd \in Clients => e.fd # c
    BY <1>5, <2>1 DEF IInv, BatchInv, Holds
  <2> QED
    BY <1>13, <2>1, <2>2, BatchStays DEF IInv
<1> QED
  BY <1>10, <1>11, <1>12, <1>13, <1>14 DEF IInv, ClientsInv

\* After the loop connections are closed in whatever state they are.
LEMMA CleanupKeeps ==
  ASSUME IInv, Cleanup
  PROVE  IInv'
<1>1. /\ server = "cleanup" /\ server' = "returned" /\ batch' = batch /\ fds' = fds /\ entity' = entity
      /\ echo' = echo /\ taken' = taken /\ backlog' = backlog /\ signals' = signals /\ pipe' = pipe
  BY DEF Cleanup
<1>2. batch = {}
  BY <1>1 DEF IInv, ServerInv
<1>3. /\ conn \in [Clients -> Conns]
      /\ \A c \in Clients :
           \/ conn'[c] = conn[c]
           \/ ((\E i \in 1 .. Len(fds) - 1 : fds[i] = c) /\ conn'[c] = [conn[c] EXCEPT !.at = "closed"])
      /\ conn' = [c \in Clients |-> conn'[c]]
  BY DEF Cleanup, IInv, TypeInv
<1>4. ASSUME NEW c \in Clients, NEW k, k = [conn[c] EXCEPT !.at = "closed"]
      PROVE  /\ k \in Conns /\ k.at = "closed" /\ k.got = conn[c].got /\ k.sent = conn[c].sent
             /\ k.reset = conn[c].reset /\ (k.fin <=> conn[c].fin)
  <2>1. conn[c] \in Conns
    BY <1>3
  <2>2. k \in Conns
    BY <1>4, <2>1 DEF Conns
  <2> QED
    BY <1>4, <2>1, <2>2 DEF Conns
<1>5. \A c \in Clients :
        /\ conn'[c] \in Conns /\ conn'[c].got = conn[c].got /\ conn'[c].sent = conn[c].sent
        /\ conn'[c].reset = conn[c].reset /\ (conn'[c].fin <=> conn[c].fin)
        /\ \/ conn'[c].at = conn[c].at
           \/ (conn'[c].at = "closed" /\ \E i \in 1 .. Len(fds) - 1 : fds[i] = c)
  BY <1>3, <1>4
<1>6. conn' \in [Clients -> Conns]
  BY <1>3, <1>5
<1>7. TypeInv'
  BY <1>1, <1>6 DEF IInv, TypeInv
<1>8. QueueInv'
  <2>1. \A c \in Clients : (\E i \in 1 .. Len(fds) - 1 : fds[i] = c) => Accepted(c)
    <3>1. Len(fds) \in Nat
      BY DEF IInv, TypeInv
    <3> QED
      BY <3>1 DEF IInv, QueueInv
  <2>2. \A c \in Clients : conn[c].at = "queued" => conn'[c].at = "queued"
    BY <1>5, <2>1 DEF Accepted
  <2>3. \A c \in Clients : Accepted(c) => Accepted(c)'
    BY <1>5 DEF Accepted
  <2> QED
    BY <1>1, <2>2, <2>3, QueueStays DEF IInv, TypeInv
<1>9. ASSUME NEW c \in Clients PROVE CountInv(c)' /\ ByteInv(c)'
  <2>1. CountInv(c) /\ ByteInv(c)
    BY DEF IInv, ClientsInv
  <2>2. CountInv(c)'
    BY <1>1, <1>5, <2>1 DEF CountInv
  <2>3. Held(c)' = Held(c) /\ Uppercase(c, conn[c].got)' = Uppercase(c, conn[c].got)
        /\ Unread(c)' = Unread(c) /\ ~ Running'
    BY <1>1, <1>5 DEF Held, Uppercase, Unread, Running
  <2>4. ByteInv(c)'
    BY <1>1, <1>5, <2>1, <2>3 DEF ByteInv
  <2> QED
    BY <2>2, <2>4
<1>10. BatchInv' /\ ServerInv'
  BY <1>1, <1>2 DEF BatchInv, ServerInv
<1> QED
  BY <1>7, <1>8, <1>9, <1>10 DEF IInv, ClientsInv

\* Every step keeps it.
LEMMA StepKeeps == IInv /\ [Next]_vars => IInv'
<1> SUFFICES ASSUME IInv, [Next]_vars PROVE IInv'
  OBVIOUS
<1>1. CASE ServerMain
  BY <1>1, EpollWaitKeeps, StopKeeps, AcceptKeeps, CleanupKeeps, ReadByteKeeps, ReadErrorKeeps,
     ReadEndKeeps, WriteByteKeeps, WriteErrorKeeps, WriteKillsKeeps, CloseKeeps DEF ServerMain
<1>2. CASE StopSignalHandler
  BY <1>2, SignalKeeps
<1>3. CASE \E c \in Clients : Connect(c) \/ Send(c) \/ Finish(c) \/ Receive(c) \/ Leave(c) \/ Reset(c)
  BY <1>3, ConnectKeeps, NetworkKeeps DEF Network
<1>4. CASE UNCHANGED vars
  <2>1. /\ server' = server /\ batch' = batch /\ fds' = fds /\ conn' = conn /\ entity' = entity
        /\ echo' = echo /\ taken' = taken /\ backlog' = backlog /\ signals' = signals /\ pipe' = pipe
    BY <1>4 DEF vars
  <2>2. \A d \in Clients : CountInv(d)' /\ ByteInv(d)' /\ Fresh(d)
    BY <2>1, UntouchedKeeps DEF IInv, ClientsInv, Untouched, Running
  <2>3. BatchInv'
    BY <2>1, <2>2, BatchStays DEF IInv
  <2>4. QueueInv'
    BY <2>1, QueueStays DEF IInv, TypeInv, Accepted
  <2> QED
    BY <2>1, <2>2, <2>3, <2>4 DEF IInv, TypeInv, ServerInv, ClientsInv
<1> QED
  BY <1>1, <1>2, <1>3, <1>4 DEF Next

-----------------------------------------------------------------------------
(* The theorems.                                                           *)

\* The inductive invariant holds in every behaviour.
THEOREM Invariance == Spec => []IInv
<1>1. Init => IInv
  BY InitIInv
<1>2. IInv /\ [Next]_vars => IInv'
  BY StepKeeps
<1> QED
  BY <1>1, <1>2, PTL DEF Spec

\* The server reads no more than was sent, clients no more than was echoed, and
\* the stop pipe never holds more than it can.
THEOREM Typing == Spec => []TypeOK
<1>1. IInv => TypeOK
  BY DEF IInv, TypeInv, ServerInv, ClientsInv, CountInv, TypeOK, Conns, Entities, EventSet
<1> QED
  BY <1>1, Invariance, PTL

\* What a connection was sent back, holds and has not read is what its client
\* sent, in order, whatever the other connections of the batch do.
THEOREM Bytewise == Spec => []NoByteLost
<1>1. IInv => NoByteLost
  BY DEF IInv, ClientsInv, ByteInv, Held, NoByteLost
<1> QED
  BY <1>1, Invariance, PTL

\* Handling an event never waits: no call of the batch's other events and no
\* step of the network takes away what the event announced.
THEOREM NeverWaits == Spec => []NeverBlocks
<1>1. IInv => NeverBlocks
  <2> SUFFICES ASSUME IInv, NEW e \in batch
               PROVE  /\ e.fd = "listen" => backlog # <<>>
                      /\ e.fd \in Clients =>
                           /\ conn[e.fd].at = "open"
                           /\ IF ToRead(e) THEN Readable(e.fd) ELSE Writable(e.fd)
    BY DEF NeverBlocks
  <2>1. e.fd = "listen" => backlog # <<>>
    BY DEF IInv, BatchInv, Holds
  <2> QED
    BY <2>1, EventTells
<1> QED
  BY <1>1, Invariance, PTL

-----------------------------------------------------------------------------
(* What has been echoed.                                                   *)

\* A byte written is the next one of its client, in upper case.
LEMMA WrittenByte ==
  ASSUME IInv, NEW c \in Clients, WriteByte(c)
  PROVE  /\ Len(echo[c]) < conn[c].sent /\ Len(echo[c]) < Len(Data[c])
         /\ entity[c].byte = toupper(Data[c][Len(echo[c]) + 1])
         /\ conn[c].at = "open"
         /\ echo' = [echo EXCEPT ![c] = Append(@, entity[c].byte)]
<1>1. PICK e \in batch : e.fd = c /\ ~ ToRead(e) /\ Handling(e)
  BY DEF WriteByte
<1>2. /\ entity[c] \in Entities /\ echo[c] \in Seq(Bytes)
      /\ conn[c].sent \in Nat /\ conn[c].got \in Nat /\ Len(Data[c]) \in Nat
      /\ Len(echo[c]) \in Nat
      /\ CountInv(c) /\ ByteInv(c)
  BY HandlerFacts
<1>3. entity[c].byte \in Bytes
  BY <1>2 DEF Entities
<1>4. echo[c] \o <<entity[c].byte>> = Uppercase(c, conn[c].got)
  BY <1>2 DEF ByteInv, Held, WriteByte
<1>5. PICK n \in Nat : n = Len(echo[c])
  BY <1>2
<1>6. Append(echo[c], entity[c].byte) = Uppercase(c, conn[c].got)
  BY <1>2, <1>3, <1>4, AppendIsConcat
<1>7. /\ Len(Append(echo[c], entity[c].byte)) = n + 1
      /\ Append(echo[c], entity[c].byte)[n + 1] = entity[c].byte
  BY <1>2, <1>3, <1>5, AppendProperties
<1>8. Len(Uppercase(c, conn[c].got)) = conn[c].got
  BY <1>2 DEF Uppercase
<1>9. conn[c].got = n + 1
  BY <1>6, <1>7, <1>8
<1>10. n + 1 \in 1 .. conn[c].got
  BY <1>9
<1>11. entity[c].byte = toupper(Data[c][n + 1])
  BY <1>6, <1>7, <1>10 DEF Uppercase
<1>12. conn[c].got <= conn[c].sent /\ conn[c].sent <= Len(Data[c])
  BY <1>2 DEF CountInv
<1>13. conn[c].at = "open"
  BY <1>1, EventTells
<1> QED
  BY <1>2, <1>5, <1>9, <1>11, <1>12, <1>13 DEF WriteByte

\* What each client has been sent is the beginning of what it sent.
InOrder == \A c \in Clients : echo[c] = Uppercase(c, Len(echo[c]))

LEMMA InOrderKeeps == IInv /\ InOrder /\ [Next]_vars => InOrder'
<1> SUFFICES ASSUME IInv, InOrder, [Next]_vars PROVE InOrder'
  OBVIOUS
<1>1. CASE echo' = echo
  BY <1>1 DEF InOrder, Uppercase
<1>2. ASSUME NEW c \in Clients, WriteByte(c) PROVE InOrder'
  <2>1. /\ Len(echo[c]) < Len(Data[c])
        /\ entity[c].byte = toupper(Data[c][Len(echo[c]) + 1])
        /\ echo' = [echo EXCEPT ![c] = Append(@, entity[c].byte)]
    BY <1>2, WrittenByte
  <2>2. /\ echo \in [Clients -> Seq(Bytes)] /\ echo[c] \in Seq(Bytes)
        /\ Len(echo[c]) \in Nat /\ entity[c].byte \in Bytes
    BY HandlerFacts DEF Entities
  <2>3. PICK n \in Nat : n = Len(echo[c])
    BY <2>2
  <2>4. PICK w \in Seq(Bytes) : w = Append(echo[c], entity[c].byte)
    BY Zenon, <2>2, AppendProperties
  <2>5. Len(w) = n + 1
    BY <2>2, <2>3, <2>4, AppendProperties
  <2>6. w = Uppercase(c, n) \o <<toupper(Data[c][n + 1])>>
    <3>1. w = echo[c] \o <<entity[c].byte>>
      BY <2>2, <2>4, AppendIsConcat
    <3>2. echo[c] = Uppercase(c, n) /\ entity[c].byte = toupper(Data[c][n + 1])
      BY <2>1, <2>3 DEF InOrder
    <3> QED
      BY Zenon, <3>1, <3>2
  <2>7. w = Uppercase(c, n + 1)
    BY <2>1, <2>3, <2>6, OneMoreByte
  <2>8. echo'[c] = w /\ \A d \in Clients \ {c} : echo'[d] = echo[d]
    BY <2>1, <2>2, <2>4
  <2>9. echo'[c] = Uppercase(c, Len(echo'[c]))
    BY Zenon, <2>5, <2>7, <2>8
  <2>10. \A m : Uppercase(c, m)' = Uppercase(c, m)
    BY DEF Uppercase
  <2>11. ASSUME NEW d \in Clients, d # c PROVE (echo[d] = Uppercase(d, Len(echo[d])))'
    BY <2>8, <2>11 DEF InOrder, Uppercase
  <2>12. (echo[c] = Uppercase(c, Len(echo[c])))'
    BY <2>9 DEF Uppercase
  <2> QED
    BY <2>11, <2>12 DEF InOrder
<1> QED
  BY <1>1, <1>2 DEF Next, ServerMain, vars, serverVars, EpollWait, Stop, Accept, Cleanup, ReadByte,
     ReadError, ReadEnd, WriteError, WriteKills, Close, StopSignalHandler, Connect, Send, Finish,
     Receive, Leave, Reset

\* What a client has been sent back is at every moment the beginning of what it
\* sent, in upper case, whether it stays or leaves and whatever else a batch
\* holds (inf17-1/main.c:97-122).
THEOREM EchoesInOrder ==
  Spec => [](\A c \in Clients : echo[c] = Uppercase(c, Len(echo[c])))
<1>1. Init => InOrder
  BY DEF Init, InOrder, Uppercase
<1> QED
  BY <1>1, InOrderKeeps, Invariance, PTL DEF Spec, InOrder

-----------------------------------------------------------------------------
(* The server implements EchoService.                                      *)

\* Only a client that has left resets its connection or ends before it has sent all.
LeftInv ==
  \A c \in Clients :
    conn[c].left \/ (conn[c].reset = "no" /\ (conn[c].fin => conn[c].sent = Len(Data[c])))

\* What EchoService sees of client d is the same after the step.
Unseen(d) ==
  /\ conn'[d].sent = conn[d].sent /\ conn'[d].left = conn[d].left /\ conn'[d].fin = conn[d].fin
  /\ conn'[d].at = "closed" <=> conn[d].at = "closed"

LEMMA UnseenStep ==
  ASSUME \A d \in Clients : Unseen(d)
  PROVE  /\ [d \in Clients |-> conn'[d].sent] = [d \in Clients |-> conn[d].sent]
         /\ [d \in Clients |-> Client(d)'] = [d \in Clients |-> Client(d)]
         /\ {d \in Clients : conn'[d].at = "closed"} = {d \in Clients : conn[d].at = "closed"}
<1>1. \A d \in Clients : Client(d)' = Client(d)
  BY DEF Unseen, Client
<1> QED
  BY <1>1 DEF Unseen

\* A step that neither the clients nor the service notice.
LEMMA Stutters ==
  ASSUME \A d \in Clients : Unseen(d), echo' = echo, Running' = Running
  PROVE  UNCHANGED Service!serviceVars
BY UnseenStep DEF Service!serviceVars

LEMMA ClientServed ==
  ASSUME IInv, NEW c \in Clients, Network(c)
  PROVE  [Service!Next]_Service!serviceVars
<1>1. /\ conn \in [Clients -> Conns] /\ conn[c] \in Conns /\ conn[c].sent \in Nat
      /\ Len(Data[c]) \in Nat
  BY HandlerFacts
<1>2. echo' = echo /\ server' = server /\ Running' = Running
  BY DEF Network, Send, Finish, Receive, Leave, Reset, serverVars, Running
<1>3. Len(Uppercase(c, Len(Data[c]))) = Len(Data[c])
  BY <1>1 DEF Uppercase
<1>4. CASE Send(c)
  <2>1. /\ conn'[c].sent = conn[c].sent + 1 /\ conn'[c].left = conn[c].left
        /\ conn'[c].fin = conn[c].fin /\ conn'[c].at = conn[c].at
        /\ \A d \in Clients : d # c => conn'[d] = conn[d]
    BY <1>1, <1>4 DEF Send, Conns
  <2>2. /\ Client(c) = "sends" /\ conn[c].at # "closed" /\ conn[c].sent < Len(Data[c])
    BY <1>4 DEF Send, Client
  <2>3. \A d \in Clients : Client(d)' = Client(d)
    BY <2>1 DEF Client
  <2>4. [d \in Clients |-> conn'[d].sent] = [[d \in Clients |-> conn[d].sent] EXCEPT ![c] = @ + 1]
    BY <2>1
  <2>5. {d \in Clients : conn'[d].at = "closed"} = {d \in Clients : conn[d].at = "closed"}
    BY <2>1
  <2>6. Service!Send(c)
    BY <1>2, <1>3, <2>2, <2>3, <2>4, <2>5 DEF Service!Send
  <2> QED
    BY <2>6 DEF Service!Next
<1>5. CASE Finish(c)
  <2>1. /\ conn'[c].sent = conn[c].sent /\ conn'[c].left = conn[c].left
        /\ conn'[c].fin /\ conn'[c].at = conn[c].at
        /\ \A d \in Clients : d # c => conn'[d] = conn[d]
    BY <1>1, <1>5 DEF Finish, Conns
  <2>2. /\ Client(c) = "sends" /\ conn[c].at # "closed" /\ conn[c].sent = Len(Data[c])
        /\ Client(c)' = "ended"
    BY <1>5, <2>1 DEF Finish, Client
  <2>3. \A d \in Clients : d # c => Client(d)' = Client(d)
    BY <2>1 DEF Client
  <2>4. [d \in Clients |-> Client(d)'] = [[d \in Clients |-> Client(d)] EXCEPT ![c] = "ended"]
    BY <2>2, <2>3
  <2>5. /\ {d \in Clients : conn'[d].at = "closed"} = {d \in Clients : conn[d].at = "closed"}
        /\ [d \in Clients |-> conn'[d].sent] = [d \in Clients |-> conn[d].sent]
    BY <2>1
  <2>6. Service!End(c)
    BY <1>2, <1>3, <2>2, <2>4, <2>5 DEF Service!End
  <2> QED
    BY <2>6 DEF Service!Next
<1>6. CASE Leave(c)
  <2>1. /\ conn'[c].sent = conn[c].sent /\ conn'[c].left /\ conn'[c].at = conn[c].at
        /\ \A d \in Clients : d # c => conn'[d] = conn[d]
    BY <1>1, <1>6 DEF Leave, Conns
  <2>2. /\ Client(c) # "left" /\ conn[c].at # "closed" /\ Client(c)' = "left"
    BY <1>6, <2>1 DEF Leave, Client
  <2>3. \A d \in Clients : d # c => Client(d)' = Client(d)
    BY <2>1 DEF Client
  <2>4. [d \in Clients |-> Client(d)'] = [[d \in Clients |-> Client(d)] EXCEPT ![c] = "left"]
    BY <2>2, <2>3
  <2>5. /\ {d \in Clients : conn'[d].at = "closed"} = {d \in Clients : conn[d].at = "closed"}
        /\ [d \in Clients |-> conn'[d].sent] = [d \in Clients |-> conn[d].sent]
    BY <2>1
  <2>6. Service!Leave(c)
    BY <1>2, <2>2, <2>4, <2>5 DEF Service!Leave
  <2> QED
    BY <2>6 DEF Service!Next
<1>7. CASE Receive(c) \/ Reset(c)
  <2>1. CASE Receive(c)
    BY <1>2, <2>1, Stutters DEF Receive, Unseen
  <2>2. CASE Reset(c)
    <3>1. \A d \in Clients : Unseen(d)
      BY <1>1, <2>2 DEF Reset, Unseen, Conns
    <3> QED
      BY <1>2, <3>1, Stutters
  <2> QED
    BY <1>7, <2>1, <2>2
<1> QED
  BY <1>4, <1>5, <1>6, <1>7 DEF Network

\* A write is the service's echo of the next byte.
LEMMA WriteServed ==
  ASSUME IInv, NEW c \in Clients, WriteByte(c)
  PROVE  Service!Next
<1>1. /\ Len(echo[c]) < conn[c].sent /\ Len(echo[c]) < Len(Data[c])
      /\ entity[c].byte = toupper(Data[c][Len(echo[c]) + 1])
      /\ conn[c].at = "open"
      /\ echo' = [echo EXCEPT ![c] = Append(@, entity[c].byte)]
  BY WrittenByte
<1>2. Len(echo[c]) \in Nat /\ Len(Data[c]) \in Nat
  BY HandlerFacts
<1>3. Uppercase(c, Len(Data[c]))[Len(echo[c]) + 1] = entity[c].byte
  <2>1. Len(echo[c]) + 1 \in 1 .. Len(Data[c])
    BY <1>1, <1>2
  <2> QED
    BY <1>1, <2>1 DEF Uppercase
<1>4. /\ conn' = conn /\ Running /\ Running'
  BY DEF WriteByte, Handling, Running
<1>5. \A d \in Clients : Unseen(d)
  BY <1>4 DEF Unseen
<1>6. Service!Echo(c)
  BY <1>1, <1>3, <1>4, <1>5, UnseenStep DEF Service!Echo
<1> QED
  BY <1>6 DEF Service!Next

\* A connection that was not reset is closed when all has gone back.
LEMMA CloseServed ==
  ASSUME IInv, LeftInv, NEW c \in Clients, Close(c)
  PROVE  Service!Next
<1>1. PICK e \in batch : e.fd = c /\ ~ ToRead(e) /\ Handling(e)
  BY DEF Close
<1>2. /\ conn \in [Clients -> Conns] /\ conn[c] \in Conns /\ echo[c] \in Seq(Bytes)
      /\ conn[c].sent \in Nat /\ conn[c].got \in Nat /\ Len(Data[c]) \in Nat
      /\ CountInv(c) /\ ByteInv(c)
  BY HandlerFacts
<1>3. conn[c].at = "open" /\ Running /\ Running'
  BY <1>1, EventTells DEF Handling, Running
<1>4. /\ conn'[c].at = "closed" /\ conn'[c].sent = conn[c].sent /\ conn'[c].left = conn[c].left
      /\ conn'[c].fin = conn[c].fin /\ \A d \in Clients : d # c => conn'[d] = conn[d]
      /\ echo' = echo
  BY <1>2 DEF Close, Conns
<1>5. /\ [d \in Clients |-> conn'[d].sent] = [d \in Clients |-> conn[d].sent]
      /\ {d \in Clients : conn'[d].at = "closed"} = {d \in Clients : conn[d].at = "closed"} \cup {c}
  BY <1>4
<1>6. [d \in Clients |-> Client(d)'] = [d \in Clients |-> Client(d)]
  <2>1. \A d \in Clients : Client(d)' = Client(d)
    BY <1>4 DEF Client
  <2> QED
    BY <2>1
<1>7. Client(c) = "left" \/ (Client(c) = "ended" /\ echo[c] = Uppercase(c, Len(Data[c])))
  <2>1. CASE conn[c].left
    BY <2>1 DEF Client
  <2>2. CASE ~ conn[c].left
    <3>1. conn[c].reset = "no" /\ entity[c].label = -1
      BY <2>2 DEF LeftInv, Close
    <3>2. /\ echo[c] \o <<>> = Uppercase(c, conn[c].got)
          /\ conn[c].fin /\ Unread(c) = 0
      BY <1>2, <3>1 DEF ByteInv, Held
    <3>3. echo[c] = Uppercase(c, conn[c].got)
      BY <1>2, <3>2, ConcatEmptySeq
    <3>4. conn[c].got = Len(Data[c])
      BY <1>2, <2>2, <3>2 DEF Unread, LeftInv
    <3> QED
      BY Zenon, <2>2, <3>2, <3>3, <3>4 DEF Client
  <2> QED
    BY <2>1, <2>2
<1>8. Service!Close(c)
  BY <1>3, <1>4, <1>5, <1>6, <1>7 DEF Service!Close
<1> QED
  BY <1>8 DEF Service!Next

LEMMA LeftKeeps == IInv /\ LeftInv /\ [Next]_vars => LeftInv'
<1> SUFFICES ASSUME IInv, LeftInv, [Next]_vars PROVE LeftInv'
  OBVIOUS
<1> DEFINE Kept(d) == /\ conn'[d].left = conn[d].left /\ conn'[d].reset = conn[d].reset
                      /\ conn'[d].fin = conn[d].fin /\ conn'[d].sent = conn[d].sent
<1>1. conn \in [Clients -> Conns]
  BY DEF IInv, TypeInv
<1>2. CASE \A d \in Clients : Kept(d)
  BY <1>2 DEF LeftInv
<1>3. ASSUME NEW c \in Clients, Network(c) PROVE LeftInv'
  <2>1. CASE Send(c)
    BY <1>1, <2>1 DEF Send, LeftInv, Conns
  <2>2. CASE Finish(c)
    BY <1>1, <2>2 DEF Finish, LeftInv, Conns
  <2>3. CASE Receive(c)
    BY <1>2, <2>3 DEF Receive
  <2>4. CASE Leave(c)
    BY <1>1, <2>4 DEF Leave, LeftInv, Conns
  <2>5. CASE Reset(c)
    BY <1>1, <2>5 DEF Reset, LeftInv, Conns
  <2> QED
    BY <1>3, <2>1, <2>2, <2>3, <2>4, <2>5 DEF Network
<1>4. ASSUME NEW c \in Clients, ReadByte(c) \/ Close(c) \/ Connect(c) PROVE \A d \in Clients : Kept(d)
  BY <1>1, <1>4 DEF ReadByte, Close, Connect, Conns
<1>5. ASSUME NEW c \in Clients, ReadError(c) \/ WriteError(c) PROVE LeftInv'
  <2>1. conn[c].left /\ conn' = [conn EXCEPT ![c].reset = "reported"] /\ conn[c] \in Conns
    BY <1>1, <1>5 DEF ReadError, WriteError, LeftInv
  <2>2. conn'[c].left /\ \A d \in Clients \ {c} : conn'[d] = conn[d]
    BY <1>1, <2>1 DEF Conns
  <2> QED
    BY <2>2 DEF LeftInv
<1>6. ASSUME NEW c \in Clients, ReadEnd(c) \/ WriteByte(c) \/ WriteKills(c) PROVE conn' = conn
  BY <1>6 DEF ReadEnd, WriteByte, WriteKills
<1>7. CASE Accept
  BY <1>1, <1>2, <1>7 DEF Accept, Conns
<1>8. CASE Cleanup
  BY <1>1, <1>2, <1>8 DEF Cleanup, Conns
<1>9. CASE EpollWait \/ Stop \/ StopSignalHandler \/ UNCHANGED vars
  BY <1>2, <1>9 DEF EpollWait, Stop, StopSignalHandler, vars
<1> QED
  BY <1>2, <1>3, <1>4, <1>5, <1>6, <1>7, <1>8, <1>9 DEF Next, ServerMain, Network

\* Handling an event otherwise changes nothing a client could notice.
LEMMA HandlerServed ==
  ASSUME IInv, NEW c \in Clients, ReadByte(c) \/ ReadError(c) \/ ReadEnd(c) \/ WriteError(c)
  PROVE  UNCHANGED Service!serviceVars
<1>1. conn \in [Clients -> Conns] /\ conn[c] \in Conns
  BY HandlerFacts
<1>2. PICK e \in batch : Handling(e)
  BY DEF ReadByte, ReadError, ReadEnd, WriteError
<1>3. Running' = Running
  BY <1>2 DEF Handling, Running
<1>4. echo' = echo
  BY DEF ReadByte, ReadError, ReadEnd, WriteError
<1>5. \A d \in Clients : Unseen(d)
  <2>1. CASE ReadByte(c)
    BY <1>1, <2>1 DEF ReadByte, Unseen, Conns
  <2>2. CASE ReadError(c) \/ WriteError(c)
    BY <1>1, <2>2 DEF ReadError, WriteError, Unseen, Conns
  <2>3. CASE ReadEnd(c)
    BY <2>3 DEF ReadEnd, Unseen
  <2> QED
    BY <2>1, <2>2, <2>3
<1> QED
  BY <1>3, <1>4, <1>5, Stutters

\* The stop, a signal that kills, and what follows the loop.
LEMMA EndServed ==
  ASSUME IInv, Stop \/ Cleanup \/ \E c \in Clients : WriteKills(c)
  PROVE  Service!Next
<1>1. conn \in [Clients -> Conns]
  BY DEF IInv, TypeInv
<1>2. CASE Stop \/ \E c \in Clients : WriteKills(c)
  <2>1. conn' = conn /\ echo' = echo /\ Running /\ Running' = FALSE
    BY <1>2 DEF Stop, WriteKills, Running, AfterStop
  <2>2. \A d \in Clients : Unseen(d)
    BY <2>1 DEF Unseen
  <2>3. Service!Stop
    BY <2>1, <2>2, UnseenStep DEF Service!Stop
  <2> QED
    BY <2>3 DEF Service!Next
<1>3. CASE Cleanup
  <2>1. /\ ~ Running /\ Running' = Running /\ echo' = echo
        /\ \A d \in Clients : conn'[d] = conn[d] \/ conn'[d] = [conn[d] EXCEPT !.at = "closed"]
    BY <1>3 DEF Cleanup, Running
  <2>2. ASSUME NEW d \in Clients
        PROVE  /\ conn'[d].sent = conn[d].sent /\ conn'[d].left = conn[d].left /\ conn'[d].fin = conn[d].fin
               /\ Client(d)' = Client(d)
               /\ conn[d].at = "closed" => conn'[d].at = "closed"
    <3>1. CASE conn'[d] = conn[d]
      BY <3>1 DEF Client
    <3>2. CASE conn'[d] = [conn[d] EXCEPT !.at = "closed"]
      <4>1. conn[d] \in Conns
        BY <1>1
      <4>2. /\ conn'[d].sent = conn[d].sent /\ conn'[d].left = conn[d].left
            /\ conn'[d].fin = conn[d].fin /\ conn'[d].at = "closed"
        BY <3>2, <4>1 DEF Conns
      <4> QED
        BY <4>2 DEF Client
    <3> QED
      BY <2>1, <3>1, <3>2
  <2>3. /\ [d \in Clients |-> conn'[d].sent] = [d \in Clients |-> conn[d].sent]
        /\ [d \in Clients |-> Client(d)'] = [d \in Clients |-> Client(d)]
    BY <2>2
  <2>4. \E some \in SUBSET Clients :
          {d \in Clients : conn'[d].at = "closed"} = {d \in Clients : conn[d].at = "closed"} \cup some
    <3>1. {d \in Clients : conn'[d].at = "closed"} \in SUBSET Clients
      OBVIOUS
    <3>2. {d \in Clients : conn'[d].at = "closed"}
            = {d \in Clients : conn[d].at = "closed"} \cup {d \in Clients : conn'[d].at = "closed"}
      BY <2>2
    <3> QED
      BY Zenon, <3>1, <3>2
  <2>5. Service!Shutdown
    BY <2>1, <2>3, <2>4 DEF Service!Shutdown
  <2> QED
    BY <2>5 DEF Service!Next
<1> QED
  BY <1>2, <1>3

\* Waiting, accepting and connecting are not the service's.
LEMMA WaitServed ==
  ASSUME IInv, EpollWait \/ Accept \/ StopSignalHandler \/ UNCHANGED vars \/ \E c \in Clients : Connect(c)
  PROVE  UNCHANGED Service!serviceVars
<1>1. conn \in [Clients -> Conns] /\ backlog \in Seq(Clients)
  BY DEF IInv, TypeInv
<1>2. CASE EpollWait \/ StopSignalHandler \/ UNCHANGED vars
  <2>1. conn' = conn /\ echo' = echo /\ Running' = Running
    BY <1>2 DEF EpollWait, StopSignalHandler, vars, serverVars, Running
  <2> QED
    BY <2>1, Stutters DEF Unseen
<1>3. CASE Accept
  <2>1. PICK c \in Clients : c = Head(backlog) /\ c = backlog[1] /\ 1 \in 1 .. Len(backlog)
    BY <1>1, <1>3, HeadTailProperties DEF Accept
  <2>2. conn[c].at = "queued"
    BY <2>1 DEF IInv, QueueInv
  <2>3. conn' = [conn EXCEPT ![c].at = "open"] /\ echo' = echo /\ Running' = Running
    BY <1>3, <2>1 DEF Accept, Handling, Running
  <2>4. \A d \in Clients : Unseen(d)
    BY <1>1, <2>2, <2>3 DEF Unseen, Conns
  <2> QED
    BY <2>3, <2>4, Stutters
<1>4. ASSUME NEW c \in Clients, Connect(c) PROVE UNCHANGED Service!serviceVars
  <2>1. \A d \in Clients : Unseen(d)
    BY <1>1, <1>4 DEF Connect, Unseen, Conns
  <2>2. echo' = echo /\ Running' = Running
    BY <1>4 DEF Connect, serverVars, Running
  <2> QED
    BY <2>1, <2>2, Stutters
<1> QED
  BY <1>2, <1>3, <1>4

\* Whatever a batch holds and in whichever order it is handled, for any clients: the
\* server sends back the next byte of a client in upper case, closes a connection that
\* was not reset only when all has gone back, or does nothing the clients could notice
\* (inf17-1/main.c:74-144).
THEOREM Refinement == Spec => ImplementsEchoService
<1>1. Init => LeftInv /\ Service!Init
  <2> SUFFICES ASSUME Init PROVE LeftInv /\ Service!Init
    OBVIOUS
  <2>1. \A c \in Clients : /\ conn[c].at = "away" /\ conn[c].sent = 0 /\ conn[c].reset = "no"
                           /\ Client(c) = "sends" /\ echo[c] = <<>> /\ conn[c].fin = FALSE
    BY DEF Init, Client
  <2>2. Running /\ echo = [c \in Clients |-> <<>>]
    BY DEF Init, Running
  <2> QED
    BY <2>1, <2>2 DEF Service!Init, LeftInv
<1>2. IInv /\ LeftInv /\ [Next]_vars => [Service!Next]_Service!serviceVars
  <2> SUFFICES ASSUME IInv, LeftInv, [Next]_vars
               PROVE  Service!Next \/ UNCHANGED Service!serviceVars
    OBVIOUS
  <2>1. ASSUME NEW c \in Clients, Network(c)
        PROVE  Service!Next \/ UNCHANGED Service!serviceVars
    BY <2>1, ClientServed
  <2> QED
    BY <2>1, WriteServed, CloseServed, HandlerServed, EndServed, WaitServed
       DEF Next, ServerMain, Network
<1> QED
  BY <1>1, <1>2, LeftKeeps, Invariance, PTL DEF Spec, ImplementsEchoService, Service!Spec
=============================================================================
