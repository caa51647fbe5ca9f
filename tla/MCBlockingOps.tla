---------------------------- MODULE MCBlockingOps ----------------------------
(* BlockingOps on two or four operations.                                  *)
EXTENDS BlockingOps

CONSTANTS o1, o2, o3, o4
=============================================================================
