--------------------------- MODULE MCArtifactStore ---------------------------
(***************************************************************************)
(* Two publications that want one path, and a bundle of two members that   *)
(* needs an authority receipt; a third publication wants the path of one   *)
(* of the members.                                                         *)
(***************************************************************************)
EXTENDS ArtifactStore

CONSTANTS a1, a2, b, b2, c, pathA, pathB, pathC, wave

MCPathOf ==
  [o \in Op |-> CASE o \in {a1, a2} -> pathA [] o \in {b, b2} -> pathB [] OTHER -> pathC]

MCMembers == [x \in Bundle |-> <<b, c>>]
=============================================================================
