---------------------- MODULE MCPersistentConnections ----------------------
EXTENDS PersistentConnections, TLC

\* The hosts are interchangeable.
Symmetry == Permutations(Hosts)
=============================================================================
