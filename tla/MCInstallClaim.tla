--------------------------- MODULE MCInstallClaim ---------------------------
(* Three installs of one name.  Installers are alike. *)
EXTENDS InstallClaim, TLC

CONSTANTS i1, i2, i3

MCInstallers == {i1, i2, i3}
MCTwo        == {i1, i2}
Symmetry     == Permutations(MCInstallers)

=============================================================================
