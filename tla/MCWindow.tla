------------------------------ MODULE MCWindow -------------------------------
(* VscodeServer with two clients and one diff review. *)
EXTENDS VscodeServer
=============================================================================
