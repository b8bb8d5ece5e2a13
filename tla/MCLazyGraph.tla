----------------------------- MODULE MCLazyGraph -----------------------------
(***************************************************************************)
(* LazyGraph on two instances in one run of TLC: `bounds` tells which one  *)
(* a behaviour is of, "assigns" for the constants of the cfg and "graphs"  *)
(* for larger graphs on the CPU without assign().                          *)
(***************************************************************************)
EXTENDS LazyGraph

VARIABLE bounds

Graphs == INSTANCE LazyGraph WITH MaxNodes <- 4, MaxLeaves <- 1, MaxAssigns <- 0, MaxBatch <- 1, Backend <- "cpu"

BoundsInit == bounds \in {"assigns", "graphs"} /\ LazyInit

BoundsNext ==
  \/ bounds = "assigns" /\ LazyNext /\ UNCHANGED bounds
  \/ bounds = "graphs" /\ Graphs!LazyNext /\ UNCHANGED bounds

BoundsSpec == BoundsInit /\ [][BoundsNext]_<<lvars, bounds>>

\* The instance of the cfg alone.
AssignsSpec == bounds = "assigns" /\ LazyInit /\ [][BoundsNext]_<<lvars, bounds>>
=============================================================================
