----------------------------- MODULE MCTaskReview -----------------------------
(* Small instances of TaskReview for TLC.                                  *)
EXTENDS TaskReview, TLC

CONSTANTS q1, q2, q3, alice, bob, run1, none

Symmetry == Permutations({q1, q2, q3})
=============================================================================
