----------------------------- MODULE ScopeGate -----------------------------
(***************************************************************************)
(* What the Scope of a Run promises (docs/operations.md): one revision is  *)
(* open at a time, the user confirms it, a Plan reconciles it, and only    *)
(* then is research dispatched under it.  RunScope.tla implements it.      *)
(***************************************************************************)
EXTENDS Integers

VARIABLES proposed,   \* latest Scope revision proposed
          confirmed,  \* latest one confirmed
          planned,    \* the one the current Plan was made for, 0 without a Plan
          researched  \* revisions research was dispatched under

vars == <<proposed, confirmed, planned, researched>>

Init == proposed = 1 /\ confirmed = 0 /\ planned = 0 /\ researched = {}

Settled == confirmed = proposed

Propose ==
  /\ Settled
  /\ proposed' = proposed + 1
  /\ UNCHANGED <<confirmed, planned, researched>>

Confirm ==
  /\ ~Settled
  /\ confirmed' = proposed
  /\ UNCHANGED <<proposed, planned, researched>>

\* The first Plan, or the Plan Revision that reconciles a corrected Scope.
Plan ==
  /\ Settled
  /\ planned' = confirmed
  /\ UNCHANGED <<proposed, confirmed, researched>>

Research ==
  /\ Settled /\ planned = confirmed
  /\ researched' = researched \union {confirmed}
  /\ UNCHANGED <<proposed, confirmed, planned>>

Next == Propose \/ Confirm \/ Plan \/ Research

Spec == Init /\ [][Next]_vars
=============================================================================
