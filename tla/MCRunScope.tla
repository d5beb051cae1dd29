----------------------------- MODULE MCRunScope -----------------------------
(* A Run whose Scope is proposed, corrected and reconciled. *)
EXTENDS RunScope
=============================================================================
