---------------------------- MODULE MCRunLineage ----------------------------
(***************************************************************************)
(* Three Runs and what they may be created as, up to their names: a root   *)
(* and its successors of either kind, side by side or one after the other, *)
(* or two roots and an id that is taken for a successor of one after it    *)
(* was taken for one of the other.                                         *)
(***************************************************************************)
EXTENDS RunLineage

CONSTANTS r1, r2, r3

Successor(of) == [how : {"continue", "restart"}, of : {of}]
Restart(of) == [how |-> "restart", of |-> of]
Continue(of) == [how |-> "continue", of |-> of]

Families(two, three) ==
  {[r \in Run |-> CASE r = r1 -> {NoDeclaration} [] r = r2 -> t [] r = r3 -> u] :
     t \in two, u \in three}

MCDeclared ==
  Families({{d} : d \in Successor(r1)}, {{d} : d \in Successor(r1) \union Successor(r2)})
  \union Families({{NoDeclaration}},
                  {{Restart(r1), Restart(r2)}, {Restart(r1), Continue(r2)}})
=============================================================================
