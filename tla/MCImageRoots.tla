----------------------------- MODULE MCImageRoots -----------------------------
(* Small instances of ImageRoots for TLC.                                  *)
EXTENDS ImageRoots

TwoImages == <<"app", "base">>
=============================================================================
