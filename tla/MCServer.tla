-------------------------------- MODULE MCServer -------------------------------
(* Two connections: a stream and a transaction, or two transactions.         *)
EXTENDS Server
=============================================================================
