--------------------------- MODULE MCDiagnostics ----------------------------
(* DiagnosticsSync with two projects, one of which has the files. *)
EXTENDS DiagnosticsSync

MCProjectOf == [f \in File |-> "p1"]
MCMaxReqs   == [k \in Kinds |-> 2]
MCMaxChan   == [k \in Kinds |-> 2]
=============================================================================
