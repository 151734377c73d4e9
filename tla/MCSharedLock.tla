---------------------------- MODULE MCSharedLock ----------------------------
\* Two crawling nodes.
EXTENDS SharedLock, TLC

CONSTANTS a, b

MCNodes == {a, b}
MCUp == {TRUE}
Swap == Permutations(MCNodes)
=============================================================================
