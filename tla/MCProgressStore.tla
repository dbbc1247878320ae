-------------------------- MODULE MCProgressStore --------------------------
(* ProgressStore for TLC: two processes on one lock file.                  *)
EXTENDS ProgressStore

CONSTANTS p1, p2, shared_tmp

MCProcesses == {p1, p2}
MCOneLock == [p \in Processes |-> shared_tmp]
=============================================================================
