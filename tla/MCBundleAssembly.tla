--------------------------- MODULE MCBundleAssembly ---------------------------
(* Small instances of BundleAssembly for TLC.                              *)
EXTENDS BundleAssembly

CONSTANTS host, img, dir, a, b, c, same, empty, d1, d2, d3, d4, d5, d6

OneImage == <<img>>
Paths == <<a, b, c>>
OneElf == {a}
OneAsset == <<c>>

\* The image has the host's a, and an empty resolv.conf.
Contained ==
    [o \in {host, img, dir} |->
        IF o = host THEN [x \in {a, b, c} |-> IF x = a THEN same ELSE IF x = b THEN d1 ELSE d2]
        ELSE IF o = img THEN [x \in {a, b, c} |-> IF x = a THEN same ELSE IF x = b THEN d3 ELSE empty]
        ELSE [x \in {a, b, c} |-> IF x = a THEN d4 ELSE IF x = b THEN d5 ELSE d6]]
=============================================================================
