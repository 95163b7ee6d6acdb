---------------------------- MODULE MCRequestReply ----------------------------
(***************************************************************************)
(* A small instance of RequestReply: up to three lines of input; names of  *)
(* one, two and three labels; process ids around those whose checksum      *)
(* carries twice.                                                          *)
(***************************************************************************)
EXTENDS RequestReply

MCInputs == [number |-> {<<>>, <<<<1>>, <<2>>, <<3>>>>},
             dns    |-> {<<<<97>>, <<97, 97, 46, 98>>, <<97, 46, 98, 46, 99, 99>>>>}]
=============================================================================
