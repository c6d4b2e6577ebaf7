--------------------------- MODULE MCJobLifecycle ---------------------------
EXTENDS JobRefinement, TLC
CONSTANTS j1, w1, w2, p1, p2, a1, a2
Never == {FALSE}
Maybe == BOOLEAN
WorkerSymmetry == Permutations(Workers)
=============================================================================
