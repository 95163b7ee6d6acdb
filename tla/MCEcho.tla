------------------------------- MODULE MCEcho -------------------------------
(***************************************************************************)
(* A small instance of EchoServer: a client that stays and one that may    *)
(* leave before it has read its echo.                                      *)
(***************************************************************************)
EXTENDS EchoServer

CONSTANTS stays, leaves

MCClients == {stays, leaves}
MCLeavers == {leaves}
MCData == [x \in MCClients |-> IF x = stays THEN <<"a", "B", "c">> ELSE <<"c", "c">>]
=============================================================================
