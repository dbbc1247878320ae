-------------------------- MODULE MCEmailRecovery --------------------------
(* EmailRecovery for TLC: two operations of one process.                   *)
EXTENDS EmailRecovery

CONSTANTS op1, op2

MCOperations == {op1, op2}
=============================================================================
