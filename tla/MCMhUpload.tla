----------------------------- MODULE MCMhUpload -----------------------------
(* Model values and symmetry for the runs of MhUpload. *)
EXTENDS MhUploadInv, TLC

CONSTANTS l1, l2

MCLink == {l1, l2}
MCOneLink == {l1}
MCSymmetry == Permutations(MCLink)
=============================================================================
