------------------------------ MODULE MCCommand ------------------------------
(* IdeCommand with two windows whose locks readdir returns in the order 1, 2. *)
EXTENDS IdeCommand

MCDirOrder == <<1, 2>>
=============================================================================
