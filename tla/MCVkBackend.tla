---------------------------- MODULE MCVkBackend ----------------------------
(* Instances of VkBackend for TLC.  The pool's ranges are interchangeable;
   the staging range is not one of them. *)
EXTENDS VkBackend, TLC

PoolSymmetry == Permutations(Pool)
=============================================================================
