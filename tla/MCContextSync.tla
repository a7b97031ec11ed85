--------------------------- MODULE MCContextSync ----------------------------
(* ContextSync with a VS Code and a JetBrains window to be connected to in  *)
(* turn.                                                                    *)
EXTENDS ContextSync
=============================================================================
