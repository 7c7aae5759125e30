--------------------------- MODULE MCConfigDocument ---------------------------
(* Two documents applied one after the other, each of up to two names. *)
EXTENDS ConfigDocument, TLC

CONSTANTS n1, n2, e1, a1

MCNames == {n1, n2}
MCDials == {e1}
MCAppliers == {a1}
Symmetry == Permutations(MCNames)

=============================================================================
