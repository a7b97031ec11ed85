-------------------------------- MODULE MCRpc --------------------------------
(* RpcChannel on two connections, one to each kind of server.               *)
EXTENDS RpcChannel
=============================================================================
