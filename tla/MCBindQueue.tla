------------------------------ MODULE MCBindQueue ------------------------------
EXTENDS BindQueue, TLC
Symmetry == Permutations(Client) \cup Permutations(Queue)
================================================================================
