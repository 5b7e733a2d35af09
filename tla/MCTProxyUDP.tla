---------------------------- MODULE MCTProxyUDP ----------------------------
EXTENDS TProxyUDP, TLC

Symmetry == Permutations(Session)
=============================================================================
