---------------------------- MODULE MCGameLists ----------------------------
EXTENDS GameLists, TLC

Symmetry == Permutations(Account) \cup Permutations(Game)
=============================================================================
