------------------------------- MODULE MCRpc -------------------------------
(* An instance of one connection for TLC. *)
EXTENDS RpcChannel
=============================================================================
