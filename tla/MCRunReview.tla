----------------------------- MODULE MCRunReview -----------------------------
(* Small instances of RunReview for TLC.                                   *)
EXTENDS RunReview

CONSTANTS p1, p2, q1, q2, alice, seed, post, none
=============================================================================
