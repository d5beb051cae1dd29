------------------------- MODULE MCResearchHandoff -------------------------
(***************************************************************************)
(* A handoff that forms the Concept, and one that brings two items of      *)
(* Evidence and is read for a later document.                              *)
(***************************************************************************)
EXTENDS ResearchHandoff

CONSTANTS idea, study, e1, e2, concept, thesis

MCItemsOf == [h \in Handoff |-> IF h = study THEN {e1, e2} ELSE {}]
MCTargetOf == [h \in Handoff |-> IF h = idea THEN concept ELSE thesis]
=============================================================================
