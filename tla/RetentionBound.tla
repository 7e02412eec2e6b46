--------------------------- MODULE RetentionBound ---------------------------
(***************************************************************************)
(* What group message retention promises to the clients of a group: one    *)
(* published bound, the row of group_retention_visibility.  Messages below *)
(* it are no longer shown.  It only grows, and its revision tells any two  *)
(* of its values apart, in the order in which they were published.         *)
(***************************************************************************)
EXTENDS Integers

VARIABLE visibility  \* the row's min_visible_seq and revision; zeros before it exists

Unpublished == [bound |-> 0, revision |-> 0]

BoundInit == visibility = Unpublished

Advance ==
  /\ visibility'.revision = visibility.revision + 1
  /\ visibility'.bound > visibility.bound

BoundSpec == BoundInit /\ [][Advance]_visibility
=============================================================================
