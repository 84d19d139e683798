---------------------------- MODULE MCRunPipeline ----------------------------
(* Small instances of RunPipeline for TLC.                                 *)
EXTENDS RunPipeline, TLC

CONSTANTS p1, p2, seed, post, none

(* Article 1 is an editorial change, or one without an obligation; the     *)
(* later ones carry obligations that can turn out to be gaps.              *)
FromTwo == Articles \ {1}

Symmetry == Permutations({p1, p2})
=============================================================================
