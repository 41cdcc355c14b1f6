---------------------------- MODULE MCShimExtract ----------------------------
(* Small instances of ShimExtract for TLC.                                 *)
EXTENDS ShimExtract

CONSTANTS s1, s2, s3, v1, v2, entry, old, new

\* Two launches of one version of a bundle, one of the next.
TwoVersions == [s \in Shims |-> IF s = s3 THEN v2 ELSE v1]

\* The versions share their entry; each has a file of its own.
Archives == [b \in Bundles |-> IF b = v1 THEN {entry, old} ELSE {entry, new}]
=============================================================================
