-------------------------- MODULE MCZookeeperCache --------------------------
EXTENDS ZookeeperCache

CONSTANTS k1, k2, d1, d2

\* All objects share their dependencies.
OneDep == [k \in Keys |-> <<d1>>]
TwoDeps == [k \in Keys |-> <<d1, d2>>]

AdderSymmetry == Permutations(Adders)
=============================================================================
