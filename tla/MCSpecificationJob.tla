------------------------- MODULE MCSpecificationJob -------------------------
(* The executors are model values.                                         *)
EXTENDS SpecificationJob

CONSTANTS e

MCExecutors == {e}
=============================================================================
