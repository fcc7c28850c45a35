---------------------------- MODULE MC_UnionFind ----------------------------
\* Instance of UnionFind for TLC: all parent vectors of up to MaxIds ids.
EXTENDS UnionFind
=============================================================================
