--------------------------- MODULE MCDirectories ---------------------------
EXTENDS Directories
CONSTANTS root, d1, d2, c1, c2
MCSpec == DirSpec /\ DirFairness
MCDirs == {root, d1, d2}
MCClients == {c1, c2}
=============================================================================
