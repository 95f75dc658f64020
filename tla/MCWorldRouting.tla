--------------------------- MODULE MCWorldRouting ---------------------------
(* Model values and symmetry for checking WorldRouting with TLC.           *)
EXTENDS WorldRouting, TLC

CONSTANTS c1, c2, c3

MCConns == {c1, c2, c3}
MCConnsPair == {c1, c2}

Symmetry == Permutations(MCConns)
SymmetryPair == Permutations(MCConnsPair)
=============================================================================
