-------------------------- MODULE MCPreconferSigner --------------------------
(* Instances of PreconferSigner for TLC.                                     *)
EXTENDS PreconferSigner, TLC

CONSTANTS p1, p2, r1, r2, r3, r4, t1, t2

MCProcs == {p1, p2}
MCRequests == {r1, r2, r3, r4}
MCSpenders == {t1, t2}

Symmetry == Permutations(MCProcs) \cup Permutations(MCRequests) \cup Permutations(MCSpenders)
=============================================================================
