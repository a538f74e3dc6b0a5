--------------------------- MODULE MCAtomicUpload ---------------------------
(* Two uploads to the same path, one of two chunks and one of an empty     *)
(* file; either source may change while it is read.                        *)
EXTENDS AtomicUpload

CONSTANTS t1, t2

Sizes == [t \in Transfers |-> IF t = t1 THEN 2 ELSE 0]
=============================================================================
