----------------------------- MODULE MCRefObject -----------------------------
EXTENDS RefObject, TLC

\* Threads, routines and objects are interchangeable for the safety properties.
Symmetry == Permutations(Threads) \cup Permutations(Routines) \cup Permutations(Objects)
=============================================================================
