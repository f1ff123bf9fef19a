--------------------------- MODULE MCSocketClient ---------------------------
(***************************************************************************)
(* Small instances of SocketClient: three sockets at once, which is one    *)
(* more than the client can lose sight of in two remounts.                 *)
(***************************************************************************)
EXTENDS SocketClient
=============================================================================
