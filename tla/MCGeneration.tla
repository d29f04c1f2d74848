---------------------------- MODULE MCGeneration ----------------------------
EXTENDS Generation, TLC

CONSTANTS t1, t2, A, B, g1, g2
Listing == t1 :> A @@ t2 :> B
Belief == t1 :> 7 @@ t2 :> 9
GeneratorSymmetry == Permutations({g1, g2})
=============================================================================
