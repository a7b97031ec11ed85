------------------------------ MODULE MCLocks ------------------------------
\* One VS Code and one JetBrains window over a directory, one folder for both.
EXTENDS LockDirectory
=============================================================================
