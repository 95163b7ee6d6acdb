----------------------------- MODULE EchoService -----------------------------
(***************************************************************************)
(* What inf17-1 is for: whoever connects gets back what he sends, byte by  *)
(* byte and in upper case, and his connection is closed when he has ended  *)
(* and everything is back, until the server is stopped.  There are no      *)
(* events, batches, labels and buffers here; EchoServer has them.          *)
(***************************************************************************)
EXTENDS Naturals, Sequences

CONSTANTS
  Clients,
  Reply     \* what each client gets back when it has sent all

VARIABLES
  asked,    \* how many bytes each client has sent
  client,   \* a client sends, has ended, or has left without waiting for the rest
  reply,    \* what has been sent back
  closed,   \* clients whose connection the server has closed
  running   \* the server serves

serviceVars == <<asked, client, reply, closed, running>>

Init ==
  /\ asked = [c \in Clients |-> 0]
  /\ client = [c \in Clients |-> "sends"]
  /\ reply = [c \in Clients |-> <<>>]
  /\ closed = {}
  /\ running = TRUE

Send(c) ==
  /\ client[c] = "sends" /\ c \notin closed
  /\ asked[c] < Len(Reply[c])
  /\ asked' = [asked EXCEPT ![c] = @ + 1]
  /\ UNCHANGED <<client, reply, closed, running>>

End(c) ==
  /\ client[c] = "sends" /\ c \notin closed
  /\ asked[c] = Len(Reply[c])
  /\ client' = [client EXCEPT ![c] = "ended"]
  /\ UNCHANGED <<asked, reply, closed, running>>

Leave(c) ==
  /\ client[c] # "left" /\ c \notin closed
  /\ client' = [client EXCEPT ![c] = "left"]
  /\ UNCHANGED <<asked, reply, closed, running>>

\* The next byte goes back.
Echo(c) ==
  /\ running /\ c \notin closed
  /\ Len(reply[c]) < asked[c]
  /\ reply' = [reply EXCEPT ![c] = Append(@, Reply[c][Len(@) + 1])]
  /\ UNCHANGED <<asked, client, closed, running>>

Close(c) ==
  /\ running /\ c \notin closed
  /\ client[c] = "left" \/ (client[c] = "ended" /\ reply[c] = Reply[c])
  /\ closed' = closed \cup {c}
  /\ UNCHANGED <<asked, client, reply, running>>

Stop ==
  /\ running
  /\ running' = FALSE
  /\ UNCHANGED <<asked, client, reply, closed>>

\* What is still open may be closed or be left to the kernel.
Shutdown ==
  /\ ~ running
  /\ \E some \in SUBSET Clients : closed' = closed \cup some
  /\ UNCHANGED <<asked, client, reply, running>>

Next ==
  \/ Stop \/ Shutdown
  \/ \E c \in Clients : Send(c) \/ End(c) \/ Leave(c) \/ Echo(c) \/ Close(c)

Spec == Init /\ [][Next]_serviceVars
=============================================================================
