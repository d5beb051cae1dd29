---------------------------- MODULE OperationLog ----------------------------
(***************************************************************************)
(* What an append-only record log with operation receipts promises:        *)
(* records are only added, at the end, each after its intent is durable,   *)
(* and no two records have one identity.  JsonlLog.tla implements it.      *)
(***************************************************************************)
EXTENDS Integers, Sequences, FiniteSets

CONSTANTS Record,   \* records that may be logged
          IdOf      \* event_id or decision_id of a record

VARIABLES intents,  \* records with a durable receipt
          records   \* the log

vars == <<intents, records>>

Init == intents = {} /\ records = <<>>

Intend(r) ==
  /\ intents' = intents \union {r}
  /\ UNCHANGED records

\* A record is appended after its receipt, once per identity.
Append1(r) ==
  /\ r \in intents
  /\ \A i \in 1 .. Len(records) : IdOf[records[i]] # IdOf[r]
  /\ records' = Append(records, r)
  /\ UNCHANGED intents

Next == \E r \in Record : Intend(r) \/ Append1(r)

Spec == Init /\ [][Next]_vars
=============================================================================
