------------------------------- MODULE MCHttp -------------------------------
(***************************************************************************)
(* A small instance of HttpServer: a request for a file and one for the    *)
(* directory itself.  The beginnings of the file's name are names of what  *)
(* may not be read and of an empty file, for a first read that falls short *)
(* of it.                                                                  *)
(***************************************************************************)
EXTENDS HttpServer

MCRequest(name) == <<"GET">> \o name \o <<"HTTP", "CR", "LF", "CR", "LF">>

MCDisk == [name \in {<<"/">>, <<"/", "p">>, <<"/", "p", "e">>, <<"/", "p", "e", "f">>} |->
             CASE name = <<"/", "p", "e", "f">> -> "file"
               [] name = <<"/", "p", "e">> -> "empty"
               [] name = <<"/", "p">> -> "forbidden"
               [] OTHER -> "directory"]

MCTwoClients == {1, 2}
MCTwoWanted == <<<<"/", "p", "e", "f">>, <<"/">>>>
MCTwoRequests == [c \in MCTwoClients |-> MCRequest(MCTwoWanted[c])]
MCTwoPauses == <<{3, 4, 7, 9, 10}, {4, 7}>>
=============================================================================
