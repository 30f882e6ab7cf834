----------------------------- MODULE MCMhRepair -----------------------------
(* Model values and symmetry for the run of MhRepair. *)
EXTENDS MhRepair, TLC

CONSTANTS l1, l2

MCLink == {l1, l2}
MCOneLink == {l1}
MCSymmetry == Permutations(MCLink)
=============================================================================
