-------------------------- MODULE MCImplementationJob --------------------------
(* One operator and one executor, as one process or as two.                   *)
EXTENDS ImplementationJob, TLC

CONSTANTS x1, o
=============================================================================
