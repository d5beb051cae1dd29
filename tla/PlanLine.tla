------------------------------ MODULE PlanLine ------------------------------
(***************************************************************************)
(* What the Plan operations of a Run promise: the Plan moves along one     *)
(* line, one Adaptation Decision at a time.  A Decision is promised, then  *)
(* committed together with its effect on the Plan, then announced; the     *)
(* next is promised only after that, and a promise is always kept.         *)
(***************************************************************************)
EXTENDS Naturals

CONSTANTS Decision, Revising

VARIABLES plan, committed, promised, announced

line == <<plan, committed, promised, announced>>

Init == plan = 1 /\ committed = {} /\ promised = {} /\ announced = {}

Promise(d) ==
  /\ promised = {} /\ announced = committed
  /\ d \notin committed
  /\ promised' = {d}
  /\ UNCHANGED <<plan, committed, announced>>

Commit(d) ==
  /\ promised = {d}
  /\ promised' = {}
  /\ committed' = committed \union {d}
  /\ plan' = IF d \in Revising THEN plan + 1 ELSE plan
  /\ UNCHANGED announced

Announce(d) ==
  /\ d \in committed \ announced
  /\ announced' = announced \union {d}
  /\ UNCHANGED <<plan, committed, promised>>

Next == \E d \in Decision : Promise(d) \/ Commit(d) \/ Announce(d)

Safe == Init /\ [][Next]_line

Spec == Safe /\ WF_line(\E d \in Decision : Commit(d) \/ Announce(d))
=============================================================================
