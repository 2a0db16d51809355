--------------------------- MODULE MCRootRotation ---------------------------
(* RootRotation on a few requests and passwords for TLC.  Requests are alike. *)
EXTENDS RootRotation, TLC

ProcSymmetry == Permutations(Proc)
=============================================================================
