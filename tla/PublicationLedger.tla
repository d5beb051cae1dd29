-------------------------- MODULE PublicationLedger --------------------------
(***************************************************************************)
(* What the Artifact Store promises its readers, crashes and retries left  *)
(* out: formal files appear one at a time and are never replaced, and the  *)
(* publication ledger names them in the order in which they appeared.      *)
(***************************************************************************)
EXTENDS Sequences, Naturals

CONSTANTS Op, Path, PathOf, NoOp

VARIABLES content, ledger

Recorded(o) == \E i \in 1 .. Len(ledger) : ledger[i] = o

\* Every formal file has its ledger entry.
Settled == \A p \in Path : content[p] = NoOp \/ Recorded(content[p])

Init ==
  /\ content = [p \in Path |-> NoOp]
  /\ ledger = <<>>

\* A formal file appears at a free path, after all others were recorded.
Appear(o) ==
  /\ Settled
  /\ content[PathOf[o]] = NoOp
  /\ content' = [content EXCEPT ![PathOf[o]] = o]
  /\ ledger' = ledger

\* The file that appeared last is recorded.
Record(o) ==
  /\ content[PathOf[o]] = o
  /\ ~Recorded(o)
  /\ ledger' = Append(ledger, o)
  /\ content' = content

Next == \E o \in Op : Appear(o) \/ Record(o)

Spec == Init /\ [][Next]_<<content, ledger>>
=============================================================================
