---------------------------- MODULE MCMhDownload ----------------------------
(* Model values and symmetry for the runs of MhDownload. *)
EXTENDS MhDownloadInv, TLC

CONSTANTS l1, l2

MCLink == {l1, l2}
MCOneLink == {l1}
MCSymmetry == Permutations(MCLink)
=============================================================================
