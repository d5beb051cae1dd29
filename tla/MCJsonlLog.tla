----------------------------- MODULE MCJsonlLog -----------------------------
(* A log of two decisions; the first has been given a second timestamp by  *)
(* the caller that repeated it.                                            *)
EXTENDS JsonlLog

CONSTANTS decision, repeated, other

MCRecord == {decision, repeated, other}
MCIdOf == [r \in MCRecord |-> IF r = other THEN "other" ELSE "decision"]
=============================================================================
