--------------------------- MODULE MCEvidenceStore ---------------------------
(* Two operations that share their bytes, acquired for different goals. *)
EXTENDS EvidenceStore

CONSTANTS goal1, goal2, bytes, t1, t2

MCRawOf == [o \in Op |-> bytes]
=============================================================================
