---------------------------- MODULE MCFileStore ----------------------------
EXTENDS FileStore, TLC

CONSTANTS v1, v2

StoreSymmetry == Permutations(Key) \cup Permutations(Caller) \cup Permutations({v1, v2})
=============================================================================
