----------------------------- MODULE HttpProofs ------------------------------
(***************************************************************************)
(* HttpServer is typed, and who waits for an answer gets the right one,    *)
(* for any clients, requests, files and ways in which the bytes arrive.    *)
(***************************************************************************)
EXTENDS HttpServer, SequenceTheorems, Integers, TLAPS

-----------------------------------------------------------------------------
(* What the first read takes for the name (inf16-1/main.c:109-110).        *)

\* The first n elements of a sequence.
LEMMA FirstOnes ==
  ASSUME NEW S, NEW s \in Seq(S), NEW n \in 0 .. Len(s)
  PROVE  /\ SubSeq(s, 1, n) \in Seq(S) /\ Len(SubSeq(s, 1, n)) = n
         /\ \A i \in 1 .. n : SubSeq(s, 1, n)[i] = s[i]
<1>1. Len(s) \in Nat /\ n \in Nat /\ \A i \in 1 .. n : s[i] \in S
  OBVIOUS
<1>2. SubSeq(s, 1, n) \in Seq(S)
  BY <1>1, SubSeqProperties
<1>3. Len(SubSeq(s, 1, n)) = n
  BY <1>1, SubSeqProperties
<1>4. \A i \in 1 .. n : SubSeq(s, 1, n)[i] = s[i]
  BY <1>1, SubSeqProperties
<1> QED
  BY <1>2, <1>3, <1>4

\* A beginning of a request is read byte by byte as the request.
LEMMA RequestBegins ==
  ASSUME NEW c \in Clients
  PROVE  /\ Wanted[c] \in Seq(STRING) /\ Request[c] \in Seq(STRING)
         /\ Len(Wanted[c]) \in Nat /\ Len(Request[c]) \in Nat
         /\ Len(Wanted[c]) + 2 <= Len(Request[c])
         /\ Request[c][1] = "GET" /\ Request[c][Len(Wanted[c]) + 2] = "HTTP"
         /\ \A i \in 1 .. Len(Wanted[c]) :
              Request[c][i + 1] = Wanted[c][i] /\ Wanted[c][i] \notin EndOfName
BY ClientsAssumption

\* When the first line is there, the name read is the one asked for.
LEMMA NameRead ==
  ASSUME NEW c \in Clients, NEW n \in 0 .. Len(Request[c]),
         "CR" \in {Request[c][i] : i \in 1 .. n}
  PROVE  NameIn(SubSeq(Request[c], 1, n)) = Wanted[c]
<1>1. PICK r \in Seq(STRING) : r = Request[c]
  BY RequestBegins
<1>2. PICK w \in Seq(STRING) : w = Wanted[c]
  BY RequestBegins
<1>3. PICK m \in Nat : m = Len(w)
  BY LenProperties
<1>4. /\ Len(r) \in Nat /\ m + 2 <= Len(r) /\ r[1] = "GET" /\ r[m + 2] = "HTTP"
      /\ \A i \in 1 .. m : r[i + 1] = w[i] /\ w[i] \notin EndOfName
  BY RequestBegins, <1>1, <1>2, <1>3
<1>5. n \in 0 .. Len(r) /\ n \in Nat /\ \E i \in 1 .. n : r[i] = "CR"
  BY <1>1, <1>4
<1>6. m + 2 <= n
  <2>1. PICK k \in 1 .. n : r[k] = "CR"
    BY <1>5
  <2>2. k # 1 /\ k # m + 2
    BY <1>4, <2>1
  <2>3. ~ (k \in 2 .. m + 1)
    <3> SUFFICES ASSUME k \in 2 .. m + 1 PROVE FALSE
      OBVIOUS
    <3>1. k - 1 \in 1 .. m /\ k - 1 + 1 = k
      BY <1>3
    <3>2. r[k] = w[k - 1] /\ w[k - 1] # "CR"
      BY <1>4, <3>1 DEF EndOfName
    <3> QED
      BY <2>1, <3>2
  <2> QED
    BY <1>3, <1>5, <2>1, <2>2, <2>3
<1>7. PICK s \in Seq(STRING) : s = SubSeq(r, 1, n)
  <2>1. SubSeq(r, 1, n) \in Seq(STRING)
    BY <1>5
  <2> QED
    BY <2>1
<1>8. Len(s) = n /\ \A i \in 1 .. n : s[i] = r[i]
  BY Zenon, <1>5, <1>7, FirstOnes
<1>9. s # <<>> /\ Head(s) = "GET"
  <2>1. n > 0 /\ 1 \in 1 .. n
    BY <1>3, <1>5, <1>6
  <2>2. s # <<>>
    BY <1>8, <2>1
  <2>3. Head(s) = s[1]
    BY <2>2
  <2> QED
    BY Zenon, <1>4, <1>8, <2>1, <2>2, <2>3
<1>10. PICK t \in Seq(STRING) : t = Tail(s)
  BY Zenon, <1>9, HeadTailProperties
<1>11. Len(t) = n - 1 /\ \A i \in 1 .. n - 1 : t[i] = r[i + 1]
  BY <1>3, <1>5, <1>6, <1>8, <1>9, <1>10, HeadTailProperties
<1>12. m \in 0 .. Len(t) /\ m + 1 <= Len(t)
       /\ (\A i \in 1 .. m : t[i] = w[i] /\ t[i] \notin EndOfName)
       /\ t[m + 1] \in EndOfName
  <2>1. m \in 0 .. Len(t) /\ m + 1 <= Len(t)
    BY <1>3, <1>5, <1>6, <1>11
  <2>2. ASSUME NEW i \in 1 .. m PROVE t[i] = w[i] /\ t[i] \notin EndOfName
    <3>1. i \in 1 .. n - 1
      BY <1>3, <1>5, <1>6
    <3> QED
      BY <1>4, <1>11, <3>1
  <2>3. t[m + 1] = r[m + 2]
    <3>1. m + 1 \in 1 .. n - 1 /\ m + 1 + 1 = m + 2
      BY <1>3, <1>5, <1>6
    <3> QED
      BY <1>11, <3>1
  <2> QED
    BY <1>4, <2>1, <2>2, <2>3 DEF EndOfName
<1> DEFINE Ends(k) == /\ \A i \in 1 .. k : t[i] \notin EndOfName
                      /\ k < Len(t) => t[k + 1] \in EndOfName
<1>13. ASSUME NEW k \in 0 .. Len(t) PROVE Ends(k) <=> k = m
  <2>1. CASE k < m
    <3>1. k + 1 \in 1 .. m /\ k < Len(t)
      BY <1>3, <1>12, <2>1
    <3> QED
      BY <1>12, <2>1, <3>1
  <2>2. CASE k = m
    BY <1>12, <2>2
  <2>3. CASE k > m
    <3>1. m + 1 \in 1 .. k
      BY <1>3, <2>3
    <3> QED
      BY <1>12, <2>3, <3>1
  <2> QED
    BY <1>3, <2>1, <2>2, <2>3
<1>14. (CHOOSE k \in 0 .. Len(t) : Ends(k)) = m
  <2> HIDE DEF Ends
  <2> QED
    BY <1>12, <1>13
<1>15. BeginningOf(t, EndOfName) = SubSeq(t, 1, m)
  BY <1>14 DEF BeginningOf
<1>16. SubSeq(t, 1, m) = w
  <2>1. PICK u \in Seq(STRING) : u = SubSeq(t, 1, m)
    <3>1. SubSeq(t, 1, m) \in Seq(STRING)
      BY <1>12
    <3> QED
      BY <3>1
  <2>2. Len(u) = m /\ \A i \in 1 .. m : u[i] = t[i]
    BY <1>3, <1>12, <2>1, SubSeqProperties
  <2>3. u = w
    BY <1>3, <1>12, <2>2, SeqEqual
  <2> QED
    BY Zenon, <2>1, <2>3
<1>17. NameIn(s) = BeginningOf(t, EndOfName)
  BY <1>9, <1>10 DEF NameIn
<1> QED
  BY Zenon, <1>1, <1>2, <1>7, <1>15, <1>16, <1>17

-----------------------------------------------------------------------------
(* The inductive invariant.                                                *)

Places ==
  {"epoll_wait", "first_read", "search", "read", "status", "access", "200", "404", "403",
   "length", "empty", "open", "body", "endless", "close", "returned", "killed"}

Connection ==
  [at : {"away", "queued", "open", "closed"}, sent : Nat, got : Nat, first : Nat,
   gone : {"no", "end", "reset", "broken"}, had : Nat]

Pieces == {"200", "404", "403", "length", "empty", "body", "junk"}

Types ==
  /\ server \in [at : Places, fd : Clients]
  /\ conn \in [Clients -> Connection]
  /\ answer \in [Clients -> Seq(Pieces)]
  /\ backlog \in Seq(Clients)
  /\ disk \in [DOMAIN Disk -> Kinds]
  /\ stop \in BOOLEAN

\* Who waits to be accepted waits once.
QueueInv ==
  \A i \in DOMAIN backlog :
    /\ conn[backlog[i]].at = "queued"
    /\ \A j \in DOMAIN backlog : backlog[i] = backlog[j] => i = j

\* A file can only disappear.
DiskInv ==
  \A name \in DOMAIN Disk :
    disk[name] = Disk[name] \/ (Disk[name] \in {"file", "empty"} /\ disk[name] = "missing")

Sizes(c) ==
  /\ conn[c].first <= conn[c].got /\ conn[c].got <= conn[c].sent
  /\ conn[c].sent <= Len(Request[c])
  /\ conn[c].had <= Len(answer[c]) /\ Len(answer[c]) <= 4
  /\ conn[c].gone = "no" => conn[c].had = 0

\* The client is served, and this far.
At(c, places) == server.fd = c /\ server.at \in places

Idle == {"epoll_wait", "returned"}
Answering == {"access", "200", "404", "403", "length", "empty", "open", "body", "close"}

\* Only the connection that is served has been read from or written to and is not closed.
Opened(c) ==
  /\ At(c, Places \ Idle) => conn[c].at = "open"
  /\ At(c, {"first_read"}) \/ conn[c].at \in {"away", "queued"} =>
       answer[c] = <<>> /\ conn[c].got = 0 /\ conn[c].first = 0

\* How much may have been written at each place.  The endless loop has written
\* junk that is counted twice if the client left in between.
Written(c) ==
  /\ At(c, {"search", "read", "status", "access", "200", "404", "403"}) => answer[c] = <<>>
  /\ At(c, {"length", "empty"}) => Len(answer[c]) <= 1
  /\ At(c, {"open", "body"}) => Len(answer[c]) <= 2
  /\ At(c, {"close"}) => Len(answer[c]) <= 3
  /\ At(c, {"endless"}) =>
       \/ Len(answer[c]) <= 2
       \/ /\ answer[c][Len(answer[c])] = "junk"
          /\ Len(answer[c]) = 3 \/ (Len(answer[c]) = 4 /\ conn[c].had = 3)

\* The name is the one asked for once the first line has been read.
Named(c) ==
  At(c, Places \ (Idle \cup {"first_read"})) /\ LineWhole(c) => file_name = Wanted[c]

\* What has been written when the server is at a place, for each kind of file.
AsFar(kind, at, s) ==
  \/ at = "access" /\ kind # "missing"
  \/ at = "200" /\ kind \in {"file", "empty", "directory"}
  \/ at = "404" /\ kind = "missing"
  \/ at = "403" /\ kind = "forbidden"
  \/ at = "length" /\ kind \in {"file", "empty", "directory"} /\ s = <<"200">>
  \/ at = "open" /\ kind \in {"file", "empty", "directory"} /\ s = <<"200", "length">>
  \/ at = "body" /\ kind = "file" /\ s = <<"200", "length">>
  \/ at = "empty" /\ kind = "forbidden" /\ s = <<"403">>
  \/ at = "empty" /\ kind = "missing" /\ s = <<"404">>
  \/ at = "close" /\ kind # "directory" /\ s = Answer[kind]

\* The client that is served and still waits has the beginning of its answer.
Begun(c) ==
  At(c, Answering) /\ conn[c].gone = "no" /\ LineWhole(c) /\ Unchanged(c) =>
    AsFar(Disk[Wanted[c]], server.at, answer[c])

\* What RightAnswer says of one client.
Right(c) ==
  conn[c].at = "closed" /\ conn[c].gone = "no" /\ LineWhole(c) /\ Unchanged(c) =>
    Disk[Wanted[c]] # "directory" /\ answer[c] = Answer[Disk[Wanted[c]]]

ClientInv(c) == Sizes(c) /\ Opened(c) /\ Written(c) /\ Named(c) /\ Begun(c) /\ Right(c)

IInv == Types /\ QueueInv /\ DiskInv /\ \A c \in Clients : ClientInv(c)

-----------------------------------------------------------------------------
(* What steps leave as it is.                                              *)

LEMMA KindOf ==
  ASSUME Types, NEW c \in Clients
  PROVE  /\ Wanted[c] \in DOMAIN Disk
         /\ Disk[Wanted[c]] \in Kinds
         /\ FileKind(Wanted[c]) = disk[Wanted[c]]
         /\ Unchanged(c) <=> disk[Wanted[c]] = Disk[Wanted[c]]
<1>1. Wanted[c] \in DOMAIN Disk /\ Disk \in [DOMAIN Disk -> Kinds]
  BY ClientsAssumption
<1>2. DOMAIN disk = DOMAIN Disk
  BY DEF Types
<1> QED
  BY <1>1, <1>2 DEF FileKind, Unchanged

\* The first line does not change once it has been read.
LEMMA SameLine ==
  ASSUME NEW c \in Clients, conn'[c].first = conn[c].first
  PROVE  LineWhole(c)' <=> LineWhole(c)
BY DEF LineWhole

LEMMA SameDisk ==
  ASSUME disk' = disk
  PROVE  /\ DiskInv <=> DiskInv'
         /\ \A c \in Clients : Unchanged(c)' <=> Unchanged(c)
         /\ \A name : FileKind(name)' = FileKind(name)
BY DEF DiskInv, Unchanged, FileKind

LEMMA QueueKept ==
  ASSUME QueueInv, Types, backlog' = backlog,
         \A c \in Clients : conn[c].at = "queued" => conn'[c].at = "queued"
  PROVE  QueueInv'
BY DEF QueueInv, Types

\* A client that the step does not touch, and that is not served after it unless
\* the server has not moved.
LEMMA OtherClient ==
  ASSUME NEW c \in Clients, ClientInv(c),
         conn'[c] = conn[c], answer'[c] = answer[c], disk' = disk,
         server'.fd # c \/ server'.at \in Idle \/ UNCHANGED <<server, file_name>>
  PROVE  ClientInv(c)'
<1>1. (LineWhole(c)' <=> LineWhole(c)) /\ (Unchanged(c)' <=> Unchanged(c))
  BY SameLine, SameDisk
<1>2. ASSUME NEW P, At(c, P)', P \cap Idle = {}
      PROVE  At(c, P) /\ server' = server /\ file_name' = file_name
  BY <1>2 DEF At
<1>3. Sizes(c)' /\ Right(c)'
  BY <1>1 DEF ClientInv, Sizes, Right
<1>4. Opened(c)'
  <2>1. At(c, Places \ Idle)' => At(c, Places \ Idle)
    BY <1>2
  <2>2. At(c, {"first_read"})' => At(c, {"first_read"})
    BY <1>2 DEF Idle
  <2> QED
    BY <2>1, <2>2 DEF ClientInv, Opened
<1>5. Written(c)'
  <2>1. CASE server' = server
    BY <2>1 DEF ClientInv, Written, At
  <2>2. CASE server'.fd # c \/ server'.at \in Idle
    BY <2>2 DEF Written, At, Idle
  <2> QED
    BY <2>1, <2>2
<1>6. Named(c)'
  <2>1. At(c, Places \ (Idle \cup {"first_read"}))' =>
          At(c, Places \ (Idle \cup {"first_read"})) /\ file_name' = file_name
    BY <1>2
  <2> QED
    BY <1>1, <2>1 DEF ClientInv, Named
<1>7. Begun(c)'
  <2>1. At(c, Answering)' => At(c, Answering) /\ server' = server
    BY <1>2 DEF Answering, Idle
  <2> QED
    BY <1>1, <2>1 DEF ClientInv, Begun
<1> QED
  BY <1>3, <1>4, <1>5, <1>6, <1>7 DEF ClientInv

-----------------------------------------------------------------------------
(* The world outside.                                                      *)

\* What a client or the network may do to a connection.
LEMMA NetworkKeeps ==
  ASSUME Types, NEW c \in Clients, ClientInv(c), conn' \in [Clients -> Connection],
         UNCHANGED <<server, file_name, answer, disk>>,
         conn'[c].at = conn[c].at \/ (conn[c].at = "away" /\ conn'[c].at = "queued"),
         conn'[c].got = conn[c].got, conn'[c].first = conn[c].first,
         conn[c].sent <= conn'[c].sent, conn'[c].sent <= Len(Request[c]),
         conn'[c].gone = "no" => conn[c].gone = "no" /\ conn'[c].had = 0,
         \/ conn'[c].had = conn[c].had
         \/ conn[c].gone = "no" /\ conn'[c].had = Len(answer[c])
  PROVE  ClientInv(c)'
<1>1. (LineWhole(c)' <=> LineWhole(c)) /\ (Unchanged(c)' <=> Unchanged(c))
  BY SameLine, SameDisk
<1>2. \A P : At(c, P)' <=> At(c, P)
  BY DEF At
<1>3. /\ conn[c] \in Connection /\ conn'[c] \in Connection
      /\ answer[c] \in Seq(Pieces) /\ Len(answer[c]) \in Nat /\ Len(Request[c]) \in Nat
  BY RequestBegins DEF Types
<1>4. Sizes(c)'
  BY <1>3 DEF ClientInv, Sizes, Connection
<1>5. Opened(c)'
  <2>1. At(c, Places \ Idle)' => At(c, Places \ Idle)
    BY <1>2
  <2>2. At(c, {"first_read"})' => At(c, {"first_read"})
    BY <1>2
  <2> QED
    BY <2>1, <2>2 DEF ClientInv, Opened
<1>6. Written(c)'
  <2>1. conn[c].had <= Len(answer[c]) /\ (conn[c].gone = "no" => conn[c].had = 0)
    BY DEF ClientInv, Sizes
  <2>2. At(c, {"endless"}) /\ Len(answer[c]) = 4 => conn[c].had = 3 /\ conn[c].gone # "no"
    BY <2>1 DEF ClientInv, Written
  <2> QED
    BY <2>2 DEF ClientInv, Written, At
<1>7. Named(c)'
  BY <1>1, <1>2 DEF ClientInv, Named
<1>8. Begun(c)' /\ Right(c)'
  BY <1>1, <1>2 DEF ClientInv, Begun, Right
<1> QED
  BY <1>4, <1>5, <1>6, <1>7, <1>8 DEF ClientInv

LEMMA ConnectKeeps ==
  ASSUME IInv, NEW c \in Clients, Connect(c)
  PROVE  IInv'
<1>1. /\ conn[c].at = "away" /\ conn' = [conn EXCEPT ![c].at = "queued"]
      /\ backlog' = Append(backlog, c)
      /\ UNCHANGED <<server, file_name, answer, disk, stop>>
  BY DEF Connect, request
<1>2. conn \in [Clients -> Connection] /\ backlog \in Seq(Clients)
  BY DEF IInv, Types
<1>3. conn' \in [Clients -> Connection] /\ backlog' \in Seq(Clients)
  <2>1. [conn[c] EXCEPT !.at = "queued"] \in Connection
    BY <1>2 DEF Connection
  <2>2. conn' \in [Clients -> Connection]
    BY <1>1, <1>2, <2>1
  <2>3. backlog' \in Seq(Clients)
    BY <1>1, <1>2
  <2> QED
    BY <2>2, <2>3
<1>4. Types'
  BY <1>1, <1>3 DEF IInv, Types
<1>5. QueueInv'
  <2>1. /\ DOMAIN backlog = 1 .. Len(backlog) /\ DOMAIN backlog' = 1 .. Len(backlog) + 1
        /\ Len(backlog) \in Nat
        /\ \A i \in 1 .. Len(backlog) : backlog'[i] = backlog[i] /\ backlog[i] \in Clients
        /\ backlog'[Len(backlog) + 1] = c
    BY <1>1, <1>2
  <2>2. \A i \in 1 .. Len(backlog) : backlog[i] # c /\ conn'[backlog[i]].at = "queued"
    BY <1>1, <1>2, <2>1 DEF IInv, QueueInv
  <2>3. conn'[c].at = "queued"
    BY <1>1, <1>2 DEF Connection
  <2> QED
    BY <2>1, <2>2, <2>3 DEF IInv, QueueInv
<1>6. DiskInv'
  BY <1>1, SameDisk DEF IInv
<1>7. ASSUME NEW d \in Clients PROVE ClientInv(d)'
  <2>1. CASE d = c
    <3>1. /\ conn'[c].at = "queued" /\ conn'[c].sent = conn[c].sent /\ conn'[c].got = conn[c].got
          /\ conn'[c].first = conn[c].first /\ conn'[c].gone = conn[c].gone
          /\ conn'[c].had = conn[c].had /\ conn[c].sent \in Nat
      BY <1>1, <1>2 DEF Connection
    <3>2. conn[c].sent <= Len(Request[c]) /\ (conn[c].gone = "no" => conn[c].had = 0)
      BY DEF IInv, ClientInv, Sizes
    <3> QED
      BY <1>1, <1>3, <2>1, <3>1, <3>2, NetworkKeeps DEF IInv
  <2>2. CASE d # c
    BY <1>1, <1>2, <2>2, OtherClient DEF IInv
  <2> QED
    BY <2>1, <2>2
<1> QED
  BY <1>4, <1>5, <1>6, <1>7 DEF IInv

\* Sending, leaving and the reset change the connection of one client.
LEMMA NetworkStep ==
  ASSUME IInv, NEW c \in Clients,
         NEW d \in Connection, conn' = [conn EXCEPT ![c] = d],
         UNCHANGED <<server, file_name, answer, backlog, disk, stop>>,
         d.at = conn[c].at, d.got = conn[c].got, d.first = conn[c].first,
         conn[c].sent <= d.sent, d.sent <= Len(Request[c]),
         d.gone = "no" => conn[c].gone = "no" /\ d.had = 0,
         d.had = conn[c].had \/ (conn[c].gone = "no" /\ d.had = Len(answer[c]))
  PROVE  IInv'
<1>1. conn \in [Clients -> Connection]
  BY DEF IInv, Types
<1>2. /\ conn' \in [Clients -> Connection] /\ conn'[c] = d
      /\ \A e \in Clients : e # c => conn'[e] = conn[e]
  BY <1>1
<1>3. Types'
  BY <1>2 DEF IInv, Types
<1>4. QueueInv'
  BY <1>2, QueueKept DEF IInv
<1>5. DiskInv'
  BY SameDisk DEF IInv
<1>6. ASSUME NEW e \in Clients PROVE ClientInv(e)'
  <2>1. CASE e = c
    BY <1>2, <2>1, NetworkKeeps DEF IInv
  <2>2. CASE e # c
    BY <1>2, <2>2, OtherClient DEF IInv
  <2> QED
    BY <2>1, <2>2
<1> QED
  BY <1>3, <1>4, <1>5, <1>6 DEF IInv

LEMMA ClientStepsKeep ==
  ASSUME IInv, NEW c \in Clients, Send(c) \/ Leave(c) \/ Reset(c)
  PROVE  IInv'
<1>1. /\ conn \in [Clients -> Connection] /\ conn[c] \in Connection
      /\ conn[c].sent \in Nat /\ conn[c].had \in Nat /\ Len(answer[c]) \in Nat
      /\ Len(Request[c]) \in Nat
  BY RequestBegins DEF IInv, Types, Connection
<1>2. /\ conn[c].sent <= Len(Request[c]) /\ (conn[c].gone = "no" => conn[c].had = 0)
  BY DEF IInv, ClientInv, Sizes
<1>3. UNCHANGED <<server, file_name, answer, backlog, disk, stop>>
  BY DEF Send, Leave, Reset, request, outside
<1>4. CASE Send(c)
  <2>1. PICK n \in Pauses[c] : n > conn[c].sent /\ conn' = [conn EXCEPT ![c].sent = n]
    BY <1>4 DEF Send
  <2>2. n \in 1 .. Len(Request[c])
    BY <2>1, ClientsAssumption
  <2>3. PICK d \in Connection : d = [conn[c] EXCEPT !.sent = n]
    <3>1. n \in Nat
      BY <1>1, <2>2
    <3>2. [conn[c] EXCEPT !.sent = n] \in Connection
      BY <1>1, <3>1 DEF Connection
    <3> QED
      BY <3>2
  <2>4. conn' = [conn EXCEPT ![c] = d]
    BY <2>1, <2>3
  <2>5. /\ d.at = conn[c].at /\ d.got = conn[c].got /\ d.first = conn[c].first
        /\ d.sent = n /\ d.gone = conn[c].gone /\ d.had = conn[c].had
    BY <1>1, <2>3 DEF Connection
  <2>6. conn[c].sent <= d.sent /\ d.sent <= Len(Request[c])
    BY <1>1, <2>1, <2>2, <2>5
  <2> QED
    BY <1>2, <1>3, <2>4, <2>5, <2>6, NetworkStep
<1>5. CASE Leave(c)
  <2>1. PICK how \in {"end", "reset"} :
          conn[c].gone = "no" /\ conn' = [conn EXCEPT ![c].gone = how, ![c].had = Len(answer[c])]
    BY <1>5 DEF Leave
  <2>2. PICK d \in Connection : d = [conn[c] EXCEPT !.gone = how, !.had = Len(answer[c])]
    BY <1>1 DEF Connection
  <2>3. conn' = [conn EXCEPT ![c] = d]
    BY <2>1, <2>2
  <2>4. /\ d.at = conn[c].at /\ d.got = conn[c].got /\ d.first = conn[c].first
        /\ d.sent = conn[c].sent /\ d.gone = how /\ d.had = Len(answer[c])
    BY <1>1, <2>2 DEF Connection
  <2>5. conn[c].sent <= d.sent /\ d.sent <= Len(Request[c])
    BY <1>1, <1>2, <2>4
  <2> QED
    BY <1>3, <2>1, <2>3, <2>4, <2>5, NetworkStep
<1>6. CASE Reset(c)
  <2>1. conn' = [conn EXCEPT ![c].gone = "broken"]
    BY <1>6 DEF Reset
  <2>2. PICK d \in Connection : d = [conn[c] EXCEPT !.gone = "broken"]
    BY <1>1 DEF Connection
  <2>3. conn' = [conn EXCEPT ![c] = d]
    BY <2>1, <2>2
  <2>4. /\ d.at = conn[c].at /\ d.got = conn[c].got /\ d.first = conn[c].first
        /\ d.sent = conn[c].sent /\ d.gone = "broken" /\ d.had = conn[c].had
    BY <1>1, <2>2 DEF Connection
  <2>5. conn[c].sent <= d.sent /\ d.sent <= Len(Request[c])
    BY <1>1, <1>2, <2>4
  <2> QED
    BY <1>3, <2>3, <2>4, <2>5, NetworkStep
<1> QED
  BY <1>4, <1>5, <1>6

\* A removed file makes it harder for a client to count on it.
LEMMA UnlinkKeeps ==
  ASSUME IInv, NEW name \in DOMAIN disk, Unlink(name)
  PROVE  IInv'
<1>1. /\ disk[name] \in {"file", "empty"} /\ disk' = [disk EXCEPT ![name] = "missing"]
      /\ UNCHANGED <<server, file_name, conn, answer, backlog, stop>>
  BY DEF Unlink, request
<1>2. DOMAIN disk = DOMAIN Disk /\ disk \in [DOMAIN Disk -> Kinds]
  BY DEF IInv, Types
<1>3. Types'
  BY <1>1, <1>2 DEF IInv, Types, Kinds
<1>4. QueueInv'
  BY <1>1 DEF IInv, QueueInv
<1>5. DiskInv'
  BY <1>1, <1>2 DEF IInv, DiskInv
<1>6. ASSUME NEW c \in Clients PROVE ClientInv(c)'
  <2>1. LineWhole(c)' <=> LineWhole(c)
    BY <1>1, SameLine
  <2>2. Unchanged(c)' => Unchanged(c)
    <3>1. Wanted[c] \in DOMAIN Disk /\ (Unchanged(c) <=> disk[Wanted[c]] = Disk[Wanted[c]])
      BY KindOf DEF IInv
    <3>2. Unchanged(c)' <=> disk'[Wanted[c]] = Disk[Wanted[c]]
      BY <1>1, <1>2, <3>1 DEF Unchanged, FileKind
    <3>3. disk[Wanted[c]] = Disk[Wanted[c]] \/ (Disk[Wanted[c]] \in {"file", "empty"} /\ disk[Wanted[c]] = "missing")
      BY <3>1 DEF IInv, DiskInv
    <3> QED
      BY <1>1, <1>2, <3>1, <3>2, <3>3
  <2>3. Sizes(c)' /\ Opened(c)' /\ Written(c)'
    BY <1>1 DEF IInv, ClientInv, Sizes, Opened, Written, At
  <2>4. Named(c)'
    BY <1>1, <2>1 DEF IInv, ClientInv, Named, At
  <2>5. Begun(c)' /\ Right(c)'
    BY <1>1, <2>1, <2>2 DEF IInv, ClientInv, Begun, Right, At
  <2> QED
    BY <2>3, <2>4, <2>5 DEF ClientInv
<1> QED
  BY <1>3, <1>4, <1>5, <1>6 DEF IInv

LEMMA SignalKeeps ==
  ASSUME IInv, StopSignalHandler
  PROVE  IInv'
<1>1. stop' = TRUE /\ UNCHANGED <<server, file_name, conn, answer, backlog, disk>>
  BY DEF StopSignalHandler, request
<1>2. Types'
  BY <1>1 DEF IInv, Types
<1>3. QueueInv' /\ DiskInv'
  BY <1>1 DEF IInv, QueueInv, DiskInv
<1>4. \A c \in Clients : ClientInv(c)'
  BY <1>1, OtherClient DEF IInv
<1> QED
  BY <1>2, <1>3, <1>4 DEF IInv

-----------------------------------------------------------------------------
(* The steps of the server.                                                *)

\* The server moves on with the connection it serves, whatever the other ones do.
LEMMA ServerStep ==
  ASSUME IInv, NEW c \in Clients, server.fd = c, NEW p \in Places, p # "first_read",
         server.at \notin Idle, server.at # "first_read",
         server' = [server EXCEPT !.at = p],
         UNCHANGED <<file_name, backlog, disk, stop>>,
         conn' \in [Clients -> Connection], answer' \in [Clients -> Seq(Pieces)],
         \A d \in Clients : d # c => conn'[d] = conn[d] /\ answer'[d] = answer[d],
         conn'[c].at = "open", conn'[c].first = conn[c].first,
         Sizes(c)', Written(c)', Begun(c)'
  PROVE  IInv'
<1>1. server'.fd = c /\ server'.at = p /\ server' \in [at : Places, fd : Clients]
  BY DEF IInv, Types
<1>2. Types'
  BY <1>1 DEF IInv, Types
<1>3. server.at \in Places
  BY DEF IInv, Types
<1>4. conn[c].at = "open"
  BY <1>3 DEF IInv, ClientInv, Opened, At
<1>5. QueueInv'
  <2>1. \A d \in Clients : conn[d].at = "queued" => conn'[d].at = "queued"
    BY <1>4
  <2> QED
    BY <2>1, QueueKept DEF IInv
<1>6. DiskInv'
  BY SameDisk DEF IInv
<1>7. ASSUME NEW d \in Clients, d # c PROVE ClientInv(d)'
  BY <1>1, <1>7, OtherClient DEF IInv
<1>8. ClientInv(c)'
  <2>1. Opened(c)'
    BY <1>1 DEF Opened, At
  <2>2. Named(c)'
    <3>1. LineWhole(c)' <=> LineWhole(c)
      BY SameLine
    <3>2. LineWhole(c) => file_name = Wanted[c]
      BY <1>3 DEF IInv, ClientInv, Named, At
    <3> QED
      BY <3>1, <3>2 DEF Named
  <2>3. Right(c)'
    BY DEF Right
  <2> QED
    BY <2>1, <2>2, <2>3 DEF ClientInv
<1> QED
  BY <1>2, <1>5, <1>6, <1>7, <1>8 DEF IInv

\* A move without a read or a write.
LEMMA MoveStep ==
  ASSUME IInv, NEW c \in Clients, server.fd = c, NEW p \in Places, p # "first_read",
         server.at \notin Idle, server.at # "first_read",
         server' = [server EXCEPT !.at = p],
         UNCHANGED <<file_name, conn, answer, backlog, disk, stop>>,
         Written(c)', Begun(c)'
  PROVE  IInv'
<1>1. conn \in [Clients -> Connection] /\ answer \in [Clients -> Seq(Pieces)] /\ server.at \in Places
  BY DEF IInv, Types
<1>2. Sizes(c)'
  BY DEF IInv, ClientInv, Sizes
<1>3. conn[c].at = "open"
  BY <1>1 DEF IInv, ClientInv, Opened, At
<1> QED
  BY <1>1, <1>2, <1>3, ServerStep

\* The served client's part of the invariant, for the steps from a place.
LEMMA Served ==
  ASSUME IInv, NEW c \in Clients, server.fd = c, server.at \notin Idle
  PROVE  /\ conn[c] \in Connection /\ answer[c] \in Seq(Pieces)
         /\ server \in [at : Places, fd : Clients] /\ server = [at |-> server.at, fd |-> c]
         /\ conn[c].at = "open"
         /\ Sizes(c) /\ Written(c)
         /\ server.at # "first_read" /\ LineWhole(c) => file_name = Wanted[c]
         /\ server.at = "first_read" => answer[c] = <<>> /\ conn[c].got = 0 /\ conn[c].first = 0
<1>1. server \in [at : Places, fd : Clients] /\ server.at \in Places
  BY DEF IInv, Types
<1> QED
  BY <1>1 DEF IInv, Types, ClientInv, Opened, Named, At

LEMMA SearchKeeps ==
  ASSUME IInv, NEW c \in Clients, Search(c) \/ ReadEnd(c)
  PROVE  IInv'
<1>1. PICK p \in {"status", "read"} :
        /\ server.fd = c /\ server.at \in {"search", "read"} /\ server' = [server EXCEPT !.at = p]
        /\ UNCHANGED <<file_name, conn, answer, backlog, disk, stop>>
  BY DEF Search, ReadEnd, AfterEnd, request, outside
<1>2. server'.fd = c /\ server'.at = p /\ p \in Places
  BY <1>1 DEF IInv, Types, Places
<1>3. Written(c)'
  BY <1>1, <1>2 DEF IInv, ClientInv, Written, At
<1>4. Begun(c)'
  BY <1>2 DEF Begun, At, Answering
<1> QED
  BY <1>1, <1>2, <1>3, <1>4, MoveStep DEF Idle

LEMMA ExistsKeeps ==
  ASSUME IInv, NEW c \in Clients, Exists(c) \/ MayRead(c)
  PROVE  IInv'
<1>1. PICK p \in {"404", "access", "200", "403"} :
        /\ server' = [server EXCEPT !.at = p] /\ server.fd = c
        /\ \/ /\ server.at = "status"
              /\ p = IF FileKind(file_name) = "missing" THEN "404" ELSE "access"
           \/ /\ server.at = "access"
              /\ p = IF FileKind(file_name) \in {"file", "empty", "directory"} THEN "200" ELSE "403"
        /\ UNCHANGED <<file_name, conn, answer, backlog, disk, stop>>
  BY DEF Exists, MayRead, request, outside
<1>2. server'.fd = c /\ server'.at = p /\ p \in Places
  BY <1>1 DEF IInv, Types, Places
<1>3. Written(c)'
  BY <1>1, <1>2 DEF IInv, ClientInv, Written, At
<1>4. Begun(c)'
  <2>1. (LineWhole(c)' <=> LineWhole(c)) /\ (Unchanged(c)' <=> Unchanged(c))
    BY <1>1, SameLine, SameDisk
  <2> SUFFICES ASSUME conn[c].gone = "no", LineWhole(c), Unchanged(c)
               PROVE  AsFar(Disk[Wanted[c]], p, answer[c])
    BY <1>1, <1>2, <2>1 DEF Begun
  <2>2. file_name = Wanted[c]
    BY <1>1, Served DEF Idle
  <2>3. /\ FileKind(file_name) = Disk[Wanted[c]]
        /\ Disk[Wanted[c]] \in Kinds
    BY <2>2, KindOf DEF IInv
  <2>4. server.at = "access" => Disk[Wanted[c]] # "missing"
    <3>1. server.at = "access" => AsFar(Disk[Wanted[c]], "access", answer[c])
      BY <1>1 DEF IInv, ClientInv, Begun, At, Answering
    <3> QED
      BY <3>1 DEF AsFar
  <2> QED
    BY <1>1, <2>3, <2>4 DEF AsFar, Kinds
<1> QED
  BY <1>1, <1>2, <1>3, <1>4, MoveStep DEF Idle

LEMMA WholeAnswer ==
  /\ Answer["file"] = <<"200", "length", "body">>
  /\ Answer["empty"] = <<"200", "length">>
  /\ Answer["forbidden"] = <<"403", "empty">>
  /\ Answer["missing"] = <<"404", "empty">>
BY DEF Answer

LEMMA OpenKeeps ==
  ASSUME IInv, NEW c \in Clients, OpenFile(c)
  PROVE  IInv'
<1>1. PICK p \in {"body", "close", "endless"} :
        /\ server' = [server EXCEPT !.at = p] /\ server.fd = c /\ server.at = "open"
        /\ p = "body" => FileKind(file_name) = "file"
        /\ p = "close" => FileKind(file_name) = "empty"
        /\ UNCHANGED <<file_name, conn, answer, backlog, disk, stop>>
  BY DEF OpenFile, request, outside
<1>2. server'.fd = c /\ server'.at = p /\ p \in Places
  BY <1>1 DEF IInv, Types, Places
<1>3. Written(c)'
  BY <1>1, <1>2 DEF IInv, ClientInv, Written, At
<1>4. Begun(c)'
  <2>1. (LineWhole(c)' <=> LineWhole(c)) /\ (Unchanged(c)' <=> Unchanged(c))
    BY <1>1, SameLine, SameDisk
  <2> SUFFICES ASSUME conn[c].gone = "no", LineWhole(c), Unchanged(c), p # "endless"
               PROVE  AsFar(Disk[Wanted[c]], p, answer[c])
    BY <1>1, <1>2, <2>1 DEF Begun, At, Answering
  <2>2. file_name = Wanted[c]
    BY <1>1, Served DEF Idle
  <2>3. Disk[Wanted[c]] = IF p = "body" THEN "file" ELSE "empty"
    BY <1>1, <2>2, KindOf DEF IInv
  <2>4. AsFar(Disk[Wanted[c]], "open", answer[c])
    BY <1>1 DEF IInv, ClientInv, Begun, At, Answering
  <2> QED
    BY <2>3, <2>4, WholeAnswer DEF AsFar
<1> QED
  BY <1>1, <1>2, <1>3, <1>4, MoveStep DEF Idle

LEMMA KillKeeps ==
  ASSUME IInv, NEW c \in Clients, WriteKills(c)
  PROVE  IInv'
<1>1. /\ server' = [server EXCEPT !.at = "killed"] /\ server.fd = c
      /\ server.at \in {"200", "404", "403", "length", "empty", "body", "endless"}
      /\ UNCHANGED <<file_name, conn, answer, backlog, disk, stop>>
  BY DEF WriteKills, After, request, outside
<1>2. server'.fd = c /\ server'.at = "killed" /\ "killed" \in Places
  BY <1>1 DEF IInv, Types, Places
<1>3. Written(c)' /\ Begun(c)'
  BY <1>2 DEF Written, Begun, At, Answering
<1> QED
  BY <1>1, <1>2, <1>3, MoveStep DEF Idle

\* A later read changes the buffer and what has been got.
LEMMA ReadOverKeeps ==
  ASSUME IInv, NEW c \in Clients, ReadOver(c)
  PROVE  IInv'
<1>1. /\ server' = [server EXCEPT !.at = "search"] /\ server.fd = c /\ server.at = "read"
      /\ conn' = [conn EXCEPT ![c].got = conn[c].sent]
      /\ UNCHANGED <<file_name, answer, backlog, disk, stop>>
  BY DEF ReadOver, outside
<1>2. server'.fd = c /\ server'.at = "search" /\ "search" \in Places
  BY <1>1 DEF IInv, Types, Places
<1>3. /\ conn \in [Clients -> Connection] /\ answer \in [Clients -> Seq(Pieces)]
      /\ conn[c] \in Connection /\ conn[c].at = "open" /\ Sizes(c) /\ Written(c)
  BY <1>1, Served DEF IInv, Types, Idle
<1>4. [conn[c] EXCEPT !.got = conn[c].sent] \in Connection
  BY <1>3 DEF Connection
<1>5. /\ conn' \in [Clients -> Connection] /\ conn'[c] = [conn[c] EXCEPT !.got = conn[c].sent]
      /\ \A d \in Clients : d # c => conn'[d] = conn[d]
  BY <1>1, <1>3, <1>4
<1>6. /\ conn'[c].at = "open" /\ conn'[c].sent = conn[c].sent /\ conn'[c].got = conn[c].sent
      /\ conn'[c].first = conn[c].first /\ conn'[c].gone = conn[c].gone
      /\ conn'[c].had = conn[c].had
  BY <1>3, <1>5 DEF Connection
<1>7. Sizes(c)'
  BY <1>1, <1>3, <1>6 DEF Sizes, Connection
<1>8. Written(c)'
  BY <1>1, <1>2, <1>3 DEF Written, At
<1>9. Begun(c)'
  BY <1>2 DEF Begun, At, Answering
<1> QED
  BY <1>1, <1>2, <1>3, <1>5, <1>6, <1>7, <1>8, <1>9, ServerStep DEF Idle

\* The first read gets the name, if it gets the line.
LEMMA FirstReadKeeps ==
  ASSUME IInv, NEW c \in Clients, FirstRead(c)
  PROVE  IInv'
<1>1. /\ server' = [server EXCEPT !.at = "search"] /\ server.fd = c /\ server.at = "first_read"
      /\ conn' = [conn EXCEPT ![c].got = conn[c].sent, ![c].first = conn[c].sent]
      /\ file_name' = NameIn(Unread(c))
      /\ UNCHANGED <<answer, backlog, disk, stop>>
  BY DEF FirstRead, outside
<1>2. server'.fd = c /\ server'.at = "search" /\ "search" \in Places
  BY <1>1 DEF IInv, Types, Places
<1>3. /\ conn \in [Clients -> Connection] /\ conn[c] \in Connection /\ conn[c].at = "open"
      /\ Sizes(c) /\ answer[c] = <<>> /\ conn[c].got = 0
  BY <1>1, Served DEF IInv, Types, Idle
<1>4. [conn[c] EXCEPT !.got = conn[c].sent, !.first = conn[c].sent] \in Connection
  BY <1>3 DEF Connection
<1>5. /\ conn' \in [Clients -> Connection]
      /\ conn'[c] = [conn[c] EXCEPT !.got = conn[c].sent, !.first = conn[c].sent]
      /\ \A d \in Clients : d # c => conn'[d] = conn[d]
  BY <1>1, <1>3, <1>4
<1>6. /\ conn'[c].at = "open" /\ conn'[c].sent = conn[c].sent /\ conn'[c].got = conn[c].sent
      /\ conn'[c].first = conn[c].sent /\ conn'[c].gone = conn[c].gone
      /\ conn'[c].had = conn[c].had
  BY <1>3, <1>5 DEF Connection
<1>7. Types'
  BY <1>1, <1>2, <1>5 DEF IInv, Types
<1>8. QueueInv'
  <2>1. \A d \in Clients : conn[d].at = "queued" => conn'[d].at = "queued"
    BY <1>3, <1>5
  <2> QED
    BY <1>1, <2>1, QueueKept DEF IInv
<1>9. DiskInv'
  BY <1>1, SameDisk DEF IInv
<1>10. ASSUME NEW d \in Clients, d # c PROVE ClientInv(d)'
  BY <1>1, <1>2, <1>5, <1>10, OtherClient DEF IInv
<1>11. Sizes(c)'
  BY <1>1, <1>3, <1>6 DEF Sizes, Connection
<1>12. Opened(c)' /\ Right(c)'
  BY <1>2, <1>6 DEF Opened, Right, At
<1>13. Written(c)' /\ Begun(c)'
  BY <1>1, <1>2, <1>3 DEF Written, Begun, At, Answering
<1>14. Named(c)'
  <2> SUFFICES ASSUME LineWhole(c)' PROVE file_name' = Wanted[c]
    BY DEF Named
  <2>1. conn[c].sent \in 0 .. Len(Request[c])
    BY <1>3, RequestBegins DEF Sizes, Connection
  <2>2. "CR" \in {Request[c][i] : i \in 1 .. conn[c].sent}
    BY <1>6 DEF LineWhole
  <2>3. Unread(c) = SubSeq(Request[c], 1, conn[c].sent)
    BY <1>3 DEF Unread
  <2>4. PICK n \in 0 .. Len(Request[c]) : n = conn[c].sent
    BY <2>1
  <2>5. NameIn(SubSeq(Request[c], 1, n)) = Wanted[c]
    BY <2>2, <2>4, NameRead
  <2> QED
    BY <1>1, <2>3, <2>4, <2>5
<1>15. ClientInv(c)'
  BY <1>11, <1>12, <1>13, <1>14 DEF ClientInv
<1> QED
  BY <1>7, <1>8, <1>9, <1>10, <1>15 DEF IInv

-----------------------------------------------------------------------------
(* Writing.                                                                *)

LEMMA AppendToNone ==
  ASSUME NEW S, NEW s \in Seq(S), NEW x \in S, s = <<>>
  PROVE  Append(s, x) = <<x>>
<1>1. PICK u \in Seq(S) : u = Append(s, x)
  BY Zenon, AppendProperties
<1>2. Len(u) = 1 /\ u[1] = x
  BY <1>1, AppendProperties
<1> QED
  BY <1>1, <1>2

LEMMA AppendToOne ==
  ASSUME NEW S, NEW a \in S, NEW x \in S, NEW s \in Seq(S), s = <<a>>
  PROVE  Append(s, x) = <<a, x>>
<1>1. PICK u \in Seq(S) : u = Append(s, x)
  BY Zenon, AppendProperties
<1>2. Len(s) = 1 /\ s[1] = a
  OBVIOUS
<1>3. Len(u) = 2 /\ u[1] = a /\ u[2] = x
  BY <1>1, <1>2, AppendProperties
<1>4. u = <<a, x>>
  BY <1>3
<1> QED
  BY Zenon, <1>1, <1>4

LEMMA AppendToTwo ==
  ASSUME NEW S, NEW a \in S, NEW b \in S, NEW x \in S, NEW s \in Seq(S), s = <<a, b>>
  PROVE  Append(s, x) = <<a, b, x>>
<1>1. PICK u \in Seq(S) : u = Append(s, x)
  BY Zenon, AppendProperties
<1>2. Len(s) = 2 /\ s[1] = a /\ s[2] = b
  OBVIOUS
<1>3. Len(u) = 3 /\ u[1] = a /\ u[2] = b /\ u[3] = x
  BY <1>1, <1>2, AppendProperties
<1>4. u = <<a, b, x>>
  BY <1>3
<1> QED
  BY Zenon, <1>1, <1>4

LEMMA AfterPiece ==
  /\ DOMAIN After = {"200", "404", "403", "length", "empty", "body"}
  /\ After["200"] = "length" /\ After["length"] = "open"
  /\ After["404"] = "empty" /\ After["403"] = "empty"
  /\ After["empty"] = "close" /\ After["body"] = "close"
BY DEF After, AfterLast

\* A piece written is the next one of the answer.
LEMMA NextPiece ==
  ASSUME NEW at \in DOMAIN After, NEW s \in Seq(Pieces), NEW kind,
         at \in {"200", "404", "403"} => s = <<>>, AsFar(kind, at, s)
  PROVE  AsFar(kind, After[at], Append(s, at))
<1>1. at \in {"200", "404", "403", "length", "empty", "body"} /\ at \in Pieces
      /\ "200" \in Pieces /\ "length" \in Pieces /\ "403" \in Pieces /\ "404" \in Pieces
  BY AfterPiece DEF Pieces
<1> DEFINE t == Append(s, at)
<1>2. CASE at = "200"
  <2>1. kind \in {"file", "empty", "directory"} /\ s = <<>>
    BY <1>2 DEF AsFar
  <2>2. t = <<"200">>
    BY Zenon, <1>1, <1>2, <2>1, AppendToNone
  <2> QED
    BY <1>2, <2>1, <2>2, AfterPiece DEF AsFar
<1>3. CASE at \in {"404", "403"}
  <2>1. /\ at = "404" => kind = "missing"
        /\ at = "403" => kind = "forbidden"
        /\ s = <<>>
    BY <1>3 DEF AsFar
  <2>2. t = <<at>>
    BY Zenon, <1>1, <1>3, <2>1, AppendToNone
  <2> QED
    BY <1>3, <2>1, <2>2, AfterPiece DEF AsFar
<1>4. CASE at = "length"
  <2>1. kind \in {"file", "empty", "directory"} /\ s = <<"200">>
    BY <1>4 DEF AsFar
  <2>2. t = <<"200", "length">>
    BY Zenon, <1>1, <1>4, <2>1, AppendToOne
  <2> QED
    BY <1>4, <2>1, <2>2, AfterPiece DEF AsFar
<1>5. CASE at = "empty"
  <2>1. \/ kind = "forbidden" /\ s = <<"403">>
        \/ kind = "missing" /\ s = <<"404">>
    BY <1>5 DEF AsFar
  <2>2. CASE kind = "forbidden" /\ s = <<"403">>
    <3>1. t = <<"403", "empty">>
      BY Zenon, <1>1, <1>5, <2>2, AppendToOne
    <3> QED
      BY <1>5, <2>2, <3>1, AfterPiece, WholeAnswer DEF AsFar
  <2>3. CASE kind = "missing" /\ s = <<"404">>
    <3>1. t = <<"404", "empty">>
      BY Zenon, <1>1, <1>5, <2>3, AppendToOne
    <3> QED
      BY <1>5, <2>3, <3>1, AfterPiece, WholeAnswer DEF AsFar
  <2> QED
    BY <2>1, <2>2, <2>3
<1>6. CASE at = "body"
  <2>1. kind = "file" /\ s = <<"200", "length">>
    BY <1>6 DEF AsFar
  <2>2. t = <<"200", "length", at>>
    <3>1. s = <<"200", "length">>
      BY <2>1
    <3>2. at \in Pieces /\ "200" \in Pieces /\ "length" \in Pieces
      BY <1>1
    <3> QED
      BY Zenon, <3>1, <3>2, AppendToTwo
  <2>3. t = <<"200", "length", "body">>
    BY Zenon, <1>6, <2>2
  <2> QED
    BY <1>6, <2>1, <2>3, AfterPiece, WholeAnswer DEF AsFar
<1> QED
  BY <1>1, <1>2, <1>3, <1>4, <1>5, <1>6

\* A write that meets the reset only marks the connection.
LEMMA BrokenKeeps ==
  ASSUME IInv, NEW c \in Clients, server.fd = c, server.at \notin Idle, server.at # "first_read",
         NEW p \in Places, p # "first_read", server' = [server EXCEPT !.at = p],
         conn' = [conn EXCEPT ![c].gone = "broken"],
         UNCHANGED <<file_name, answer, backlog, disk, stop>>,
         \/ p = server.at
         \/ server.at \in DOMAIN After /\ p = After[server.at]
  PROVE  IInv'
<1>1. /\ conn \in [Clients -> Connection] /\ answer \in [Clients -> Seq(Pieces)]
      /\ server'.fd = c /\ server'.at = p
      /\ conn[c] \in Connection /\ conn[c].at = "open" /\ Sizes(c) /\ Written(c)
      /\ Len(answer[c]) \in Nat
  BY Served DEF IInv, Types
<1>2. [conn[c] EXCEPT !.gone = "broken"] \in Connection
  BY <1>1 DEF Connection
<1>3. /\ conn' \in [Clients -> Connection] /\ conn'[c] = [conn[c] EXCEPT !.gone = "broken"]
      /\ \A d \in Clients : d # c => conn'[d] = conn[d]
  BY <1>1, <1>2
<1>4. /\ conn'[c].at = "open" /\ conn'[c].sent = conn[c].sent /\ conn'[c].got = conn[c].got
      /\ conn'[c].first = conn[c].first /\ conn'[c].gone = "broken"
      /\ conn'[c].had = conn[c].had
  BY <1>1, <1>3 DEF Connection
<1>5. Sizes(c)'
  BY <1>1, <1>4 DEF Sizes
<1>6. Written(c)'
  <2>1. CASE p = server.at
    BY <1>1, <1>4, <2>1 DEF Written, At
  <2>2. CASE server.at \in DOMAIN After /\ p = After[server.at]
    <3>1. Len(answer[c]) <= 2
      <4>1. server.at \in {"200", "404", "403"} => Len(answer[c]) = 0
        BY <1>1 DEF Written, At
      <4> QED
        BY <1>1, <2>2, <4>1, AfterPiece DEF Written, At
    <3>2. p \in {"length", "empty"} => Len(answer[c]) = 0
      BY <1>1, <2>2, AfterPiece DEF Written, At
    <3> QED
      BY <1>1, <2>2, <3>1, <3>2, AfterPiece DEF Written, At
  <2> QED
    BY <2>1, <2>2
<1>7. Begun(c)'
  BY <1>4 DEF Begun
<1> QED
  BY <1>1, <1>3, <1>4, <1>5, <1>6, <1>7, ServerStep

LEMMA WriteKeeps ==
  ASSUME IInv, NEW c \in Clients, Write(c)
  PROVE  IInv'
<1>1. /\ server.at \in DOMAIN After /\ server.fd = c
      /\ server' = [server EXCEPT !.at = After[server.at]]
      /\ UNCHANGED <<file_name, backlog, disk, stop>>
  BY DEF Write, request, outside
<1>2. PICK p \in Places : p = After[server.at]
  BY <1>1, AfterPiece DEF Places
<1>3. p # "first_read" /\ server.at \notin Idle /\ server.at # "first_read"
  BY <1>1, <1>2, AfterPiece DEF Idle
<1>4. /\ conn \in [Clients -> Connection] /\ answer \in [Clients -> Seq(Pieces)]
      /\ server'.fd = c /\ server'.at = p
      /\ conn[c] \in Connection /\ conn[c].at = "open" /\ Sizes(c) /\ Written(c)
      /\ answer[c] \in Seq(Pieces) /\ Len(answer[c]) \in Nat
  BY <1>1, <1>2, <1>3, Served DEF IInv, Types
<1>5. CASE answer' = [answer EXCEPT ![c] = Append(@, server.at)] /\ conn' = conn
  <2>1. /\ answer'[c] = Append(answer[c], server.at)
        /\ \A d \in Clients : d # c => answer'[d] = answer[d]
    BY <1>4, <1>5
  <2>2. server.at \in Pieces
    BY <1>1, AfterPiece DEF Pieces
  <2>3. Append(answer[c], server.at) \in Seq(Pieces)
        /\ Len(Append(answer[c], server.at)) = Len(answer[c]) + 1
    BY <1>4, <2>2
  <2>4. answer' \in [Clients -> Seq(Pieces)] /\ Len(answer'[c]) = Len(answer[c]) + 1
    BY <1>4, <1>5, <2>1, <2>3
  <2>5. Len(answer[c]) <= 2 /\ (p \in {"length", "empty"} => Len(answer[c]) = 0)
        /\ (p = "open" => Len(answer[c]) <= 1)
    BY <1>1, <1>2, <1>4, AfterPiece DEF Written, At
  <2>6. Sizes(c)'
    BY <1>4, <1>5, <2>4, <2>5 DEF Sizes, Connection
  <2>7. Written(c)'
    BY <1>1, <1>2, <1>4, <2>4, <2>5, AfterPiece DEF Written, At
  <2>8. Begun(c)'
    <3>1. (LineWhole(c)' <=> LineWhole(c)) /\ (Unchanged(c)' <=> Unchanged(c))
      BY <1>1, <1>5, SameLine, SameDisk
    <3> SUFFICES ASSUME conn[c].gone = "no", LineWhole(c), Unchanged(c)
                 PROVE  AsFar(Disk[Wanted[c]], p, answer'[c])
      BY <1>4, <1>5, <3>1 DEF Begun
    <3>2. AsFar(Disk[Wanted[c]], server.at, answer[c])
      BY <1>1, AfterPiece DEF IInv, ClientInv, Begun, At, Answering
    <3>3. server.at \in {"200", "404", "403"} => answer[c] = <<>>
      BY <1>1, <1>4 DEF Written, At
    <3>4. AsFar(Disk[Wanted[c]], After[server.at], Append(answer[c], server.at))
      BY <1>1, <1>4, <3>2, <3>3, NextPiece
    <3> QED
      BY Zenon, <1>2, <2>1, <3>4
  <2> QED
    BY <1>1, <1>2, <1>3, <1>4, <1>5, <2>1, <2>4, <2>6, <2>7, <2>8, ServerStep
<1>6. CASE conn' = [conn EXCEPT ![c].gone = "broken"] /\ answer' = answer
  BY <1>1, <1>2, <1>3, <1>6, BrokenKeeps
<1> QED
  BY <1>5, <1>6 DEF Write

LEMMA WriteEndlessKeeps ==
  ASSUME IInv, NEW c \in Clients, WriteEndless(c)
  PROVE  IInv'
<1>1. /\ server.fd = c /\ server.at = "endless" /\ UNCHANGED <<server, file_name, backlog, disk, stop>>
  BY DEF WriteEndless, request, outside
<1>2. /\ conn \in [Clients -> Connection] /\ answer \in [Clients -> Seq(Pieces)]
      /\ server' = [server EXCEPT !.at = "endless"] /\ "endless" \in Places
      /\ conn[c] \in Connection /\ conn[c].at = "open" /\ Sizes(c) /\ Written(c)
      /\ answer[c] \in Seq(Pieces) /\ Len(answer[c]) \in Nat /\ conn[c].had \in Nat
  BY <1>1, Served DEF IInv, Types, Idle, Places, Connection
<1>3. CASE /\ answer' = [answer EXCEPT ![c] = IF Last(@) = "junk" /\ Len(@) > conn[c].had
                                              THEN @ ELSE Append(@, "junk")]
           /\ conn' = conn
  <2>0. PICK s \in Seq(Pieces) : s = answer[c]
    BY <1>2
  <2>1. /\ answer'[c] = IF s[Len(s)] = "junk" /\ Len(s) > conn[c].had THEN s ELSE Append(s, "junk")
        /\ \A d \in Clients : d # c => answer'[d] = answer[d]
    BY <1>2, <1>3, <2>0 DEF Last
  <2>2. /\ Len(s) \in Nat /\ Append(s, "junk") \in Seq(Pieces) /\ Len(Append(s, "junk")) = Len(s) + 1
        /\ Append(s, "junk")[Len(s) + 1] = "junk"
    <3>1. "junk" \in Pieces
      BY DEF Pieces
    <3> QED
      BY <3>1, AppendProperties
  <2>3. answer' \in [Clients -> Seq(Pieces)]
    BY <1>2, <1>3, <2>1, <2>2
  <2>4. \/ Len(s) <= 2
        \/ s[Len(s)] = "junk" /\ (Len(s) = 3 \/ (Len(s) = 4 /\ conn[c].had = 3))
    BY <1>1, <1>2, <2>0 DEF Written, At
  <2>5. conn[c].had <= Len(s)
    BY <1>2, <2>0 DEF Sizes
  <2>6. CASE answer'[c] = s
    <3>1. Sizes(c)'
      BY <1>2, <1>3, <2>0, <2>6 DEF Sizes
    <3>2. Written(c)'
      BY <1>1, <1>2, <1>3, <2>0, <2>6 DEF Written, At
    <3>3. Begun(c)'
      BY <1>1 DEF Begun, At, Answering
    <3> QED
      BY <1>1, <1>2, <1>3, <2>1, <2>3, <3>1, <3>2, <3>3, ServerStep DEF Idle
  <2>7. CASE answer'[c] = Append(s, "junk") /\ ~ (s[Len(s)] = "junk" /\ Len(s) > conn[c].had)
    <3>0. ~ (s[Len(s)] = "junk" /\ Len(s) > conn[c].had)
      BY <2>7
    <3>1. PICK n \in Nat, h \in Nat : n = Len(s) /\ h = conn[c].had
      BY <1>2, <2>2
    <3>2. n <= 2 \/ (n = 3 /\ h = 3)
      <4>1. CASE n <= 2
        BY <4>1
      <4>2. CASE s[Len(s)] = "junk" /\ (n = 3 \/ (n = 4 /\ h = 3))
        <5>1. ~ (n > h)
          BY <3>0, <3>1, <4>2
        <5>2. h <= n
          BY <2>5, <3>1
        <5> QED
          BY <4>2, <5>1, <5>2
      <4> QED
        BY <2>4, <3>1, <4>1, <4>2
    <3>3. /\ Len(answer'[c]) = n + 1 /\ answer'[c][Len(answer'[c])] = "junk"
          /\ conn' = conn
      BY <1>3, <2>2, <2>7, <3>1
    <3>4. Sizes(c)'
      <4>1. h <= n
        BY <2>5, <3>1
      <4>2. h <= n + 1 /\ n + 1 <= 4
        BY <3>2, <4>1
      <4> QED
        BY <1>2, <3>1, <3>3, <4>2 DEF Sizes
    <3>6. Written(c)'
      <4>1. server'.at = "endless"
        BY <1>1
      <4>2. n + 1 <= 2 \/ n + 1 = 3 \/ (n + 1 = 4 /\ h = 3)
        BY <3>2
      <4> QED
        BY <3>1, <3>3, <4>1, <4>2 DEF Written, At
    <3>5. Begun(c)'
      BY <1>1 DEF Begun, At, Answering
    <3> QED
      BY <1>1, <1>2, <1>3, <2>1, <2>3, <3>4, <3>5, <3>6, ServerStep DEF Idle
  <2> QED
    BY <2>1, <2>6, <2>7
<1>4. CASE conn' = [conn EXCEPT ![c].gone = "broken"] /\ answer' = answer
  BY <1>1, <1>2, <1>4, BrokenKeeps DEF Idle
<1> QED
  BY <1>3, <1>4 DEF WriteEndless

-----------------------------------------------------------------------------
(* The steps between two connections.                                      *)

LEMMA AcceptKeeps ==
  ASSUME IInv, Accept
  PROVE  IInv'
<1>1. backlog \in Seq(Clients) /\ backlog # <<>>
  BY DEF IInv, Types, Accept
<1>2. PICK c \in Clients : c = Head(backlog) /\ c = backlog[1]
  BY <1>1, HeadTailProperties
<1>3. /\ server.at = "epoll_wait" /\ server' = [at |-> "first_read", fd |-> c]
      /\ conn' = [conn EXCEPT ![c].at = "open"]
      /\ backlog' = Tail(backlog)
      /\ UNCHANGED <<file_name, answer, disk, stop>>
  BY <1>2 DEF Accept, request
<1>4. /\ Len(backlog) \in Nat \ {0} /\ DOMAIN backlog = 1 .. Len(backlog) /\ 1 \in DOMAIN backlog
      /\ backlog' \in Seq(Clients) /\ Len(backlog') = Len(backlog) - 1
      /\ DOMAIN backlog' = 1 .. Len(backlog) - 1
      /\ \A i \in 1 .. Len(backlog) - 1 : backlog'[i] = backlog[i + 1]
  BY <1>1, <1>3
<1>5. conn \in [Clients -> Connection] /\ conn[c] \in Connection /\ conn[c].at = "queued"
  BY <1>2, <1>4 DEF IInv, Types, QueueInv
<1>6. [conn[c] EXCEPT !.at = "open"] \in Connection
  BY <1>5 DEF Connection
<1>7. /\ conn' \in [Clients -> Connection] /\ conn'[c] = [conn[c] EXCEPT !.at = "open"]
      /\ \A d \in Clients : d # c => conn'[d] = conn[d]
  BY <1>3, <1>5, <1>6
<1>8. /\ conn'[c].at = "open" /\ conn'[c].sent = conn[c].sent /\ conn'[c].got = conn[c].got
      /\ conn'[c].first = conn[c].first /\ conn'[c].gone = conn[c].gone
      /\ conn'[c].had = conn[c].had
  BY <1>5, <1>7 DEF Connection
<1>9. Types'
  <2>1. server' \in [at : Places, fd : Clients]
    BY <1>3 DEF Places
  <2> QED
    BY <1>3, <1>4, <1>7, <2>1 DEF IInv, Types
<1>10. QueueInv'
  <2> SUFFICES ASSUME NEW i \in 1 .. Len(backlog) - 1
               PROVE  /\ conn'[backlog'[i]].at = "queued"
                      /\ \A j \in 1 .. Len(backlog) - 1 : backlog'[i] = backlog'[j] => i = j
    BY <1>4 DEF QueueInv
  <2>1. i + 1 \in DOMAIN backlog /\ backlog'[i] = backlog[i + 1] /\ i \in Nat \ {0}
    BY <1>4
  <2>2. backlog[i + 1] # c /\ backlog[i + 1] \in Clients
    <3>1. backlog[i + 1] = backlog[1] => i + 1 = 1
      BY <1>4, <2>1 DEF IInv, QueueInv
    <3> QED
      BY <1>1, <1>2, <2>1, <3>1
  <2>3. conn[backlog[i + 1]].at = "queued"
    BY <2>1 DEF IInv, QueueInv
  <2>4. ASSUME NEW j \in 1 .. Len(backlog) - 1, backlog'[i] = backlog'[j] PROVE i = j
    <3>1. j + 1 \in DOMAIN backlog /\ backlog'[j] = backlog[j + 1] /\ j \in Nat
      BY <1>4
    <3>2. i + 1 = j + 1
      BY <2>1, <2>4, <3>1 DEF IInv, QueueInv
    <3> QED
      BY <2>1, <3>1, <3>2
  <2> QED
    BY <1>7, <2>1, <2>2, <2>3, <2>4
<1>11. DiskInv'
  BY <1>3, SameDisk DEF IInv
<1>12. ASSUME NEW d \in Clients, d # c PROVE ClientInv(d)'
  BY <1>3, <1>7, <1>12, OtherClient DEF IInv
<1>13. ClientInv(c)'
  <2>1. server'.fd = c /\ server'.at = "first_read"
    BY <1>3
  <2>2. Sizes(c)'
    BY <1>3, <1>8 DEF IInv, ClientInv, Sizes
  <2>3. Opened(c)'
    BY <1>3, <1>5, <1>8 DEF IInv, ClientInv, Opened
  <2>4. Written(c)' /\ Named(c)' /\ Begun(c)' /\ Right(c)'
    BY <1>8, <2>1 DEF Written, Named, Begun, Right, At, Answering
  <2> QED
    BY <2>2, <2>3, <2>4 DEF ClientInv
<1> QED
  BY <1>9, <1>10, <1>11, <1>12, <1>13 DEF IInv

LEMMA CloseKeeps ==
  ASSUME IInv, NEW c \in Clients, Close(c)
  PROVE  IInv'
<1>1. /\ server.fd = c /\ server.at = "close" /\ server' = [server EXCEPT !.at = "epoll_wait"]
      /\ conn' = [conn EXCEPT ![c].at = "closed"]
      /\ UNCHANGED <<file_name, answer, backlog, disk, stop>>
  BY DEF Close, request, outside
<1>2. /\ conn \in [Clients -> Connection] /\ conn[c] \in Connection /\ conn[c].at = "open"
      /\ Sizes(c)
  BY <1>1, Served DEF IInv, Types, Idle
<1>3. [conn[c] EXCEPT !.at = "closed"] \in Connection
  BY <1>2 DEF Connection
<1>4. /\ conn' \in [Clients -> Connection] /\ conn'[c] = [conn[c] EXCEPT !.at = "closed"]
      /\ \A d \in Clients : d # c => conn'[d] = conn[d]
  BY <1>1, <1>2, <1>3
<1>5. /\ conn'[c].at = "closed" /\ conn'[c].sent = conn[c].sent /\ conn'[c].got = conn[c].got
      /\ conn'[c].first = conn[c].first /\ conn'[c].gone = conn[c].gone
      /\ conn'[c].had = conn[c].had
  BY <1>2, <1>4 DEF Connection
<1>6. server'.at = "epoll_wait" /\ server' \in [at : Places, fd : Clients]
  BY <1>1 DEF IInv, Types, Places
<1>7. Types'
  BY <1>1, <1>4, <1>6 DEF IInv, Types
<1>8. QueueInv'
  <2>1. \A d \in Clients : conn[d].at = "queued" => conn'[d].at = "queued"
    BY <1>2, <1>4
  <2> QED
    BY <1>1, <2>1, QueueKept DEF IInv
<1>9. DiskInv'
  BY <1>1, SameDisk DEF IInv
<1>10. ASSUME NEW d \in Clients, d # c PROVE ClientInv(d)'
  BY <1>1, <1>4, <1>6, <1>10, OtherClient DEF IInv, Idle
<1>11. Right(c)'
  <2>1. (LineWhole(c)' <=> LineWhole(c)) /\ (Unchanged(c)' <=> Unchanged(c))
    BY <1>1, <1>5, SameLine, SameDisk
  <2> SUFFICES ASSUME conn[c].gone = "no", LineWhole(c), Unchanged(c)
               PROVE  Disk[Wanted[c]] # "directory" /\ answer[c] = Answer[Disk[Wanted[c]]]
    BY <1>1, <1>5, <2>1 DEF Right
  <2>2. AsFar(Disk[Wanted[c]], "close", answer[c])
    BY <1>1 DEF IInv, ClientInv, Begun, At, Answering
  <2> QED
    BY <2>2 DEF AsFar
<1>12. ClientInv(c)'
  <2>1. Sizes(c)'
    BY <1>1, <1>2, <1>5 DEF Sizes
  <2>2. Opened(c)' /\ Written(c)' /\ Named(c)' /\ Begun(c)'
    BY <1>5, <1>6 DEF Opened, Written, Named, Begun, At, Idle, Answering
  <2> QED
    BY <1>11, <2>1, <2>2 DEF ClientInv
<1> QED
  BY <1>7, <1>8, <1>9, <1>10, <1>12 DEF IInv

LEMMA StopKeeps ==
  ASSUME IInv, Stop
  PROVE  IInv'
<1>1. /\ server' = [server EXCEPT !.at = "returned"]
      /\ UNCHANGED <<file_name, conn, answer, backlog, disk, stop>>
  BY DEF Stop, request, outside
<1>2. server'.at = "returned" /\ server' \in [at : Places, fd : Clients]
  BY <1>1 DEF IInv, Types, Places
<1>3. Types'
  BY <1>1, <1>2 DEF IInv, Types
<1>4. QueueInv' /\ DiskInv'
  BY <1>1, QueueKept, SameDisk DEF IInv
<1>5. ASSUME NEW c \in Clients PROVE ClientInv(c)'
  BY <1>1, <1>2, <1>5, OtherClient DEF IInv, Idle
<1> QED
  BY <1>3, <1>4, <1>5 DEF IInv

-----------------------------------------------------------------------------
(* The theorems.                                                           *)

LEMMA InitInv == Init => IInv
<1> SUFFICES ASSUME Init PROVE IInv
  OBVIOUS
<1>1. (CHOOSE c \in Clients : TRUE) \in Clients
  BY ClientsAssumption
<1>2. server.at = "epoll_wait" /\ server \in [at : Places, fd : Clients]
  BY <1>1 DEF Init, Places
<1>3. DOMAIN backlog = {} /\ backlog \in Seq(Clients)
  BY DEF Init
<1>4. Disk \in [DOMAIN Disk -> Kinds] /\ disk = Disk
  BY ClientsAssumption DEF Init
<1>5. Types
  <2>1. conn \in [Clients -> Connection]
    BY DEF Init, Connection
  <2>2. answer \in [Clients -> Seq(Pieces)]
    <3>1. <<>> \in Seq(Pieces)
      OBVIOUS
    <3> QED
      BY <3>1 DEF Init
  <2>3. stop \in BOOLEAN
    BY DEF Init
  <2> QED
    BY <1>2, <1>3, <1>4, <2>1, <2>2, <2>3 DEF Types
<1>6. QueueInv /\ DiskInv
  BY <1>3, <1>4 DEF QueueInv, DiskInv
<1>7. ASSUME NEW c \in Clients PROVE ClientInv(c)
  <2>1. /\ conn[c].at = "away" /\ conn[c].sent = 0 /\ conn[c].got = 0 /\ conn[c].first = 0
        /\ conn[c].gone = "no" /\ conn[c].had = 0 /\ answer[c] = <<>> /\ Len(answer[c]) = 0
    BY DEF Init
  <2>2. Len(Request[c]) \in Nat
    BY RequestBegins
  <2>3. Sizes(c)
    BY <2>1, <2>2 DEF Sizes
  <2>4. Opened(c) /\ Written(c) /\ Named(c) /\ Begun(c) /\ Right(c)
    BY <1>2, <2>1 DEF Opened, Written, Named, Begun, Right, At, Idle, Answering
  <2> QED
    BY <2>3, <2>4 DEF ClientInv
<1> QED
  BY <1>5, <1>6, <1>7 DEF IInv

LEMMA NextInv == IInv /\ [Next]_vars => IInv'
<1> SUFFICES ASSUME IInv, [Next]_vars PROVE IInv'
  OBVIOUS
<1>1. CASE ServerMain
  <2>1. CASE Stop
    BY <2>1, StopKeeps
  <2>2. CASE Accept
    BY <2>2, AcceptKeeps
  <2>3. ASSUME NEW c \in Clients, ServerHandler(c) PROVE IInv'
    <3>1. CASE FirstRead(c)
      BY <3>1, FirstReadKeeps
    <3>2. CASE Search(c) \/ ReadEnd(c)
      BY <3>2, SearchKeeps
    <3>3. CASE ReadOver(c)
      BY <3>3, ReadOverKeeps
    <3>4. CASE Exists(c) \/ MayRead(c)
      BY <3>4, ExistsKeeps
    <3>5. CASE Write(c)
      BY <3>5, WriteKeeps
    <3>6. CASE OpenFile(c)
      BY <3>6, OpenKeeps
    <3>7. CASE WriteEndless(c)
      BY <3>7, WriteEndlessKeeps
    <3>8. CASE WriteKills(c)
      BY <3>8, KillKeeps
    <3> QED
      BY <2>3, <3>1, <3>2, <3>3, <3>4, <3>5, <3>6, <3>7, <3>8 DEF ServerHandler
  <2>4. ASSUME NEW c \in Clients, Close(c) PROVE IInv'
    BY <2>4, CloseKeeps
  <2> QED
    BY <1>1, <2>1, <2>2, <2>3, <2>4 DEF ServerMain
<1>2. CASE StopSignalHandler
  BY <1>2, SignalKeeps
<1>3. ASSUME NEW c \in Clients, Connect(c) \/ Send(c) \/ Leave(c) \/ Reset(c) PROVE IInv'
  BY <1>3, ConnectKeeps, ClientStepsKeep
<1>4. ASSUME NEW name \in DOMAIN disk, Unlink(name) PROVE IInv'
  BY <1>4, UnlinkKeeps
<1>5. CASE UNCHANGED vars
  <2>1. UNCHANGED <<server, file_name, conn, answer, backlog, disk, stop>>
    BY <1>5 DEF vars
  <2>2. Types' /\ QueueInv' /\ DiskInv'
    BY <2>1 DEF IInv, Types, QueueInv, DiskInv
  <2>3. \A c \in Clients : ClientInv(c)'
    BY <2>1, OtherClient DEF IInv
  <2> QED
    BY <2>2, <2>3 DEF IInv
<1> QED
  BY <1>1, <1>2, <1>3, <1>4, <1>5 DEF Next

\* The inductive invariant holds in every reachable state.
THEOREM Invariance == Spec => []IInv
BY InitInv, NextInv, PTL DEF Spec

\* The types, that what the first read got is part of what has been read and sent, and
\* that at most four kinds of pieces are written (inf16-1/main.c:57-134).
THEOREM Typing == Spec => []TypeOK
<1>1. IInv => TypeOK
  BY DEF IInv, Types, ClientInv, Sizes, TypeOK, Places, Connection
<1> QED
  BY <1>1, Invariance, PTL

\* For any clients, requests and files, and wherever the requests are cut: a client that
\* waits until its connection is closed has the whole right answer, if the first read got
\* its first line and the file is not removed; for a directory it is never closed
\* (lines 57-134).
THEOREM AnswersAreRight == Spec => []RightAnswer
<1>1. IInv => RightAnswer
  BY DEF IInv, ClientInv, Right, RightAnswer
<1> QED
  BY <1>1, Invariance, PTL
=============================================================================
