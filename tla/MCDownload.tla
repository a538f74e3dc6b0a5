----------------------------- MODULE MCDownload -----------------------------
(* Files of up to MaxLen units.                                            *)
EXTENDS Download

CONSTANT MaxLen

BoundedContents == UNION {[1 .. n -> Units] : n \in 0 .. MaxLen}
=============================================================================
