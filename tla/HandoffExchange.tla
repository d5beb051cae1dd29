-------------------------- MODULE HandoffExchange --------------------------
(***************************************************************************)
(* What a research handoff promises to the Run that takes it in: it is     *)
(* there as a whole or not at all, it is read before the document it is    *)
(* meant for is formed, and that document names exactly what was read for  *)
(* it (src/harness/src/run-store/README.md, "Discovery binds ...").  A     *)
(* Scope corrected before the first Plan takes back what was formed.       *)
(***************************************************************************)
CONSTANTS Handoff, Target, TargetOf, None

VARIABLES
  held,    \* handoffs the Run has taken in
  read,    \* handoffs a controlled read was recorded for
  formed   \* the handoffs each formed document names

vars == <<held, read, formed>>

Init ==
  /\ held = {} /\ read = {}
  /\ formed = [t \in Target |-> None]

For(t) == {h \in held \intersect read : TargetOf[h] = t}

Capture(h) ==
  /\ h \notin held
  /\ held' = held \union {h}
  /\ UNCHANGED <<read, formed>>

Read(h) ==
  /\ h \in held
  /\ \A t \in Target : TargetOf[h] = t => formed[t] = None
  /\ read' = read \union {h}
  /\ UNCHANGED <<held, formed>>

Form(t) ==
  /\ formed[t] = None
  /\ formed' = [formed EXCEPT ![t] = For(t)]
  /\ UNCHANGED <<held, read>>

\* With a handoff goes every document that names it.
Withdraw(H, T) ==
  /\ H \union T # {}
  /\ \A t \in Target : formed[t] # None /\ formed[t] \intersect H # {} => t \in T
  /\ held' = held \ H
  /\ formed' = [t \in Target |-> IF t \in T THEN None ELSE formed[t]]
  /\ UNCHANGED read

Next ==
  \/ \E h \in Handoff : Capture(h) \/ Read(h)
  \/ \E t \in Target : Form(t)
  \/ \E H \in SUBSET held, T \in SUBSET Target : Withdraw(H, T)

Spec == Init /\ [][Next]_vars
=============================================================================
