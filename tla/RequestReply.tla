----------------------------- MODULE RequestReply -----------------------------
(***************************************************************************)
(* Three clients that send a datagram and wait for one: numbers            *)
(* (inf22-0/main.c), echo requests (inf22-1/main.c) and questions to a     *)
(* name server (inf22-2/main.c).  None compares what it gets with what it  *)
(* has sent.  Only ping waits for a limited time, and it counts.           *)
(*                                                                         *)
(* The network loses, delays, reorders and duplicates datagrams.  The      *)
(* answer to a question is the question, so that one can tell whose it is. *)
(* A byte or word is a number; a dot is 46.                                *)
(***************************************************************************)
EXTENDS Checksum, FiniteSets, SequencesExt

CONSTANTS
  Inputs,      \* for each kind of client what it may read
  Pids,        \* process ids, the identifiers of echo requests
  MaxRequests, \* bound on the requests of ping
  MaxExtras    \* bound on duplicates and foreign datagrams

\* A name as name servers take them: no label is empty, none is too long.
HostName(host) ==
  /\ host \in Seq(Nat) /\ Len(host) \in 1 .. 253
  /\ host[1] # 46 /\ host[Len(host)] # 46
  /\ \A i \in 1 .. Len(host) - 1 : ~ (host[i] = 46 /\ host[i + 1] = 46)

ASSUME RequestReplyAssumption ==
  /\ \A lines \in Inputs.number : lines \in Seq(Seq(Nat))
  /\ \A lines \in Inputs.dns : lines \in Seq(Seq(Nat)) /\ \A i \in DOMAIN lines : HostName(lines[i])
  /\ Pids \subseteq Word /\ MaxRequests \in Nat /\ MaxExtras \in Nat

VARIABLES
  kind, input, pid,
  at,         \* where the client is
  sent,       \* requests sent
  requests,   \* requests on their way
  replies,    \* replies on their way
  inbox,      \* datagrams at the client's socket
  printed,    \* answers printed
  msg_received_count,
  answered,   \* the requests the other side has answered
  lost,       \* a datagram has been lost
  extras      \* duplicates and foreign datagrams so far

client == <<kind, input, pid, at, sent, printed, msg_received_count>>
vars == <<client, requests, replies, inbox, answered, lost, extras>>

Init ==
  /\ kind \in {"number", "ping", "dns"} /\ pid \in Pids
  /\ input \in IF kind = "ping" THEN {<<>>} ELSE Inputs[kind]
  /\ at = "ready" /\ sent = 0 /\ printed = <<>> /\ msg_received_count = 0
  /\ requests = {} /\ replies = {} /\ inbox = <<>>
  /\ answered = {} /\ lost = FALSE /\ extras = 0

-----------------------------------------------------------------------------
(* What is sent.                                                           *)

\* A mutated Label: one byte too many is announced.
LongLabel(buffer) == <<Len(buffer) + 1>> \o buffer

Label(buffer) == <<Len(buffer) % 256>> \o buffer

\* What has been written, and what of the next label has been read, after k bytes.
Written(host) ==
  LET after[k \in 0 .. Len(host)] ==
        IF k = 0 THEN [request |-> <<>>, buffer |-> <<>>]
        ELSE LET last == after[k - 1] IN
             IF host[k] = 46
             THEN [request |-> last.request \o Label(last.buffer), buffer |-> <<>>]
             ELSE [request |-> last.request, buffer |-> Append(last.buffer, host[k])]
  IN  after

\* A name becomes labels with their lengths before them, then the tail.
Question(host) ==
  LET last == Written(host)[Len(host)]
  IN  last.request \o Label(last.buffer) \o <<0, 0, 1, 0, 1>>

msg == [k \in 1 .. 28 |-> (46 + 2 * k) + 256 * (IF k = 28 THEN 0 ELSE 47 + 2 * k)]

SumOf(words) ==
  LET sum[k \in 0 .. Len(words)] == IF k = 0 THEN 0 ELSE sum[k - 1] + words[k]
  IN  sum[Len(words)]

\* The checksum field is zero while it is computed.
Packet(sequence) ==
  LET bare == <<8, 0, pid, sequence>> \o msg
  IN  [bare EXCEPT ![2] = checksum(SumOf(bare))]

Request ==
  CASE kind = "number" -> input[sent + 1]
    [] kind = "ping"   -> Packet(sent % 65536)
    [] kind = "dns"    -> Question(input[sent + 1])

-----------------------------------------------------------------------------
(* The clients.                                                            *)

Send ==
  /\ at = "ready"
  /\ IF kind = "ping" THEN sent < MaxRequests ELSE sent < Len(input)
  /\ requests' = requests \cup {[n |-> sent + 1, body |-> Request]}
  /\ sent' = sent + 1
  /\ at' = "waiting"
  /\ UNCHANGED <<kind, input, pid, printed, msg_received_count,
                 replies, inbox, answered, lost, extras>>

\* A mutated Counted: the first two failures count.
CountedTwice(received) == received \/ sent <= 2

\* `msg_count > 1` lets the first receive count even if it fails.
Counted(received) == received \/ sent <= 1

Count(received) ==
  msg_received_count' = msg_received_count + (IF kind = "ping" /\ Counted(received) THEN 1 ELSE 0)

Receive ==
  /\ at = "waiting" /\ inbox # <<>>
  /\ inbox' = Tail(inbox)
  /\ printed' = IF kind = "ping" THEN printed ELSE Append(printed, Head(inbox))
  /\ Count(TRUE)
  /\ at' = "ready"
  /\ UNCHANGED <<kind, input, pid, sent, requests, replies, answered, lost, extras>>

\* A mutated HasTimeout: ping has none for its first request.
HasTimeoutLater == kind = "ping" /\ sent > 1

\* Only ping sets SO_RCVTIMEO.
HasTimeout == kind = "ping"

Timeout ==
  /\ HasTimeout /\ at = "waiting" /\ inbox = <<>>
  /\ Count(FALSE)
  /\ at' = "ready"
  /\ UNCHANGED <<kind, input, pid, sent, printed,
                 requests, replies, inbox, answered, lost, extras>>

\* The input ends, or the time of ping is up.
End ==
  /\ at = "ready"
  /\ kind # "ping" => sent = Len(input)
  /\ at' = "ended"
  /\ UNCHANGED <<kind, input, pid, sent, printed, msg_received_count,
                 requests, replies, inbox, answered, lost, extras>>

Client == Send \/ Receive \/ Timeout \/ End

-----------------------------------------------------------------------------
(* The network and the other side.                                         *)

\* Where the label after the one at position p begins.
NextLabel(question, p) == p + question[p] + 1

\* The name in the question that begins at position p, each label after a dot.
Name(question) ==
  LET name[p \in DOMAIN question] ==
        IF question[p] = 0 THEN <<>>
        ELSE IF NextLabel(question, p) \in DOMAIN question
        THEN <<46>> \o SubSeq(question, p + 1, NextLabel(question, p) - 1)
                   \o name[NextLabel(question, p)]
        ELSE <<0>>
  IN  name

\* <<>> if what follows the name is not the type and class asked for.
Parse(question) ==
  IF IsSuffix(<<0, 0, 1, 0, 1>>, question) THEN Tail(Name(question)[1]) ELSE <<>>

\* What a datagram is when it leaves `from`: gone, or also still on its way.
Leave(from, m) == {[left |-> from \ {m}, extra |-> 0], [left |-> from, extra |-> 1]}

\* The echo of a packet that verifies, the answer to a question or a number.
Answer ==
  /\ \E m \in requests : \E l \in Leave(requests, m) :
       /\ kind = "ping" => Verifies(SumOf(m.body))
       /\ extras + l.extra <= MaxExtras
       /\ requests' = l.left
       /\ extras' = extras + l.extra
       /\ replies' = replies \cup {[m EXCEPT !.body = IF kind = "dns" THEN Parse(@) ELSE @]}
       /\ answered' = answered \cup {m.n}
  /\ UNCHANGED <<client, inbox, lost>>

Deliver ==
  /\ \E m \in replies : \E l \in Leave(replies, m) :
       /\ extras + l.extra <= MaxExtras
       /\ replies' = l.left
       /\ extras' = extras + l.extra
       /\ inbox' = Append(inbox, m.body)
  /\ UNCHANGED <<client, requests, answered, lost>>

\* What a datagram of somebody else says.
Alien == <<>>

\* A raw socket gets every ICMP packet that comes to the host, a UDP socket, which
\* is never connected, whatever is sent to the port it got with its first sendto.
Foreign ==
  /\ (kind = "ping" \/ sent > 0) /\ extras < MaxExtras
  /\ inbox' = Append(inbox, Alien)
  /\ extras' = extras + 1
  /\ UNCHANGED <<client, requests, replies, answered, lost>>

Lose ==
  /\ \E m \in requests \cup replies :
       /\ requests' = requests \ {m}
       /\ replies' = replies \ {m}
  /\ lost' = TRUE
  /\ UNCHANGED <<client, inbox, answered, extras>>

Next == Client \/ Answer \/ Deliver \/ Foreign \/ Lose

\* The clients do not stop where they need not wait, and what is not lost gets
\* answered and arrives.
Spec == Init /\ [][Next]_vars /\ WF_vars(Client) /\ WF_vars(Answer) /\ WF_vars(Deliver)

-----------------------------------------------------------------------------
(* Properties.                                                             *)

TypeOK ==
  /\ at \in {"ready", "waiting", "ended"}
  /\ sent \in Nat /\ msg_received_count \in 0 .. sent
  /\ answered \subseteq 1 .. sent
  /\ {m.n : m \in requests \cup replies} \subseteq 1 .. sent
  /\ kind = "ping" \/ Len(printed) = sent - (IF at = "waiting" THEN 1 ELSE 0)
  /\ extras \in 0 .. MaxExtras /\ lost \in BOOLEAN

\* A request its receiver accepts: an echo request whose words add up, also where
\* that carries twice, a question that reads back as the name asked for
\* (inf22-1/main.c:73-88, 119-127, inf22-2/main.c:77-116).
Understood(m) ==
  CASE kind = "number" -> m.body = input[m.n]
    [] kind = "ping"   -> Verifies(SumOf(m.body))
    [] kind = "dns"    -> Parse(m.body) = input[m.n]

\* Whatever the line, the process id and the sequence number, the receiver accepts
\* every request on its way.
RequestsUnderstood == \A m \in requests : Understood(m)

\* The i-th answer printed is the answer to the i-th line read, however many
\* datagrams are lost: a client that has lost one waits for ever rather than take
\* the next answer for it.  Once something was duplicated or came from somebody
\* else it may be that, or the answer to an earlier line, but never to a later one
\* (inf22-0/main.c:50-60, inf22-2/main.c:76-129).
OwnAnswers ==
  kind # "ping" => \A i \in DOMAIN printed :
    IF extras = 0 THEN printed[i] = input[i]
    ELSE printed[i] = Alien \/ \E j \in 1 .. i : printed[i] = input[j]

\* Without duplicates and foreign datagrams ping counts at most one answer more
\* than it was given, the first one, which counts also when it does not come;
\* late answers, taken for those of later requests, do not count twice
\* (inf22-1/main.c:139-148).
CountsOneTooManyAtMost ==
  kind = "ping" /\ extras = 0 => msg_received_count <= Cardinality(answered) + 1

\* The task (lines 17-18): what ping counts are answers to its requests.  The first
\* receive counts even if it has timed out (line 145).
CountsAnswersOnly == kind = "ping" /\ extras = 0 => msg_received_count <= Cardinality(answered)

\* Ping always ends, and the other clients do unless a datagram is lost, which
\* nothing but the interrupt key helps out of (inf22-1/main.c:107-115, 139,
\* inf22-0/main.c:55, inf22-2/main.c:126).
EndsUnlessLost == <>(at = "ended" \/ (kind # "ping" /\ lost))
=============================================================================
