------------------------------ MODULE RangePool ------------------------------
(***************************************************************************)
(* What a device allocator promises: the ranges it has handed out never    *)
(* overlap, and a range stays its owner's until the owner gives it back.   *)
(* A range is [block, offset, padded]: `padded` bytes of a memory block.   *)
(***************************************************************************)
EXTENDS Integers

VARIABLE held   \* the ranges that are handed out

Overlap(a, b) ==
  /\ a.block = b.block
  /\ a.offset < b.offset + b.padded
  /\ b.offset < a.offset + a.padded

Init == held = {}

Take(r) == (\A h \in held : ~Overlap(r, h)) /\ held' = held \cup {r}

Release(r) == r \in held /\ held' = held \ {r}

Range == [block : Nat \ {0}, offset : Nat, padded : Nat \ {0}]

\* (\E r \in Range : Take(r)), with the witness read off the next state so that
\* it can be evaluated.
Next ==
  \/ \E r \in held' \ held : r \in Range /\ Take(r)
  \/ \E r \in held : Release(r)

Spec == Init /\ [][Next]_held
=============================================================================
