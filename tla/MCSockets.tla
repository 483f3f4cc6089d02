----------------------------- MODULE MCSockets -----------------------------
(* A client, a server and a main program that opens and closes sockets and *)
(* connects one itself.                                                    *)
EXTENDS Sockets, TLC

CONSTANTS client, server

MCTasks == {client, server}
MCDoes == (client :> {"tcp", "connect", "request"})
       @@ (server :> {"accept"})
       @@ (Main :> {"listen", "close", "connect"})
=============================================================================
