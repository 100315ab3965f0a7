--------------------------- MODULE MCMusicControl ---------------------------
\* No creation, host or id is named by the specification.
EXTENDS MusicControl, TLC

Symmetry == Permutations(Creators) \cup Permutations(Hosts) \cup Permutations(Ids)
=============================================================================
