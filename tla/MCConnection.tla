---------------------------- MODULE MCConnection ----------------------------
(* BridgeConnection on a small instance: BridgeClient objects are           *)
(* interchangeable, the IDEs are not (one matches the cwd, one does not).   *)
EXTENDS BridgeConnection, TLC

ClientSymmetry == Permutations(Client)
=============================================================================
