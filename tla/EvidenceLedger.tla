--------------------------- MODULE EvidenceLedger ---------------------------
(***************************************************************************)
(* What the Evidence Store promises: content is stored once and stays, and *)
(* a record is added, at the end, only after its content, one for each     *)
(* operation and for good.  EvidenceStore.tla implements it.               *)
(***************************************************************************)
EXTENDS Integers, Sequences

CONSTANTS Op,     \* evidence operations
          Time,   \* values of recorded_at
          RawOf   \* content of an operation

VARIABLES stored,  \* contents in evidence/raw
          records  \* evidence/manifest.jsonl

vars == <<stored, records>>

Init == stored = {} /\ records = <<>>

Store(o) ==
  /\ stored' = stored \union {RawOf[o]}
  /\ UNCHANGED records

AddRecord(o, t) ==
  /\ RawOf[o] \in stored
  /\ \A i \in 1 .. Len(records) : records[i].op # o
  /\ records' = Append(records, [op |-> o, at |-> t])
  /\ UNCHANGED stored

Next == \E o \in Op : Store(o) \/ \E t \in Time : AddRecord(o, t)

Spec == Init /\ [][Next]_vars
=============================================================================
