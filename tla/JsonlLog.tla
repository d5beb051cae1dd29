------------------------------ MODULE JsonlLog ------------------------------
(***************************************************************************)
(* One record log of a Run, events.jsonl or decisions.jsonl                *)
(* (run-store/jsonl-store.ts): appendValidated and repair, one file-system *)
(* step at a time, under the Run lock.                                     *)
(*                                                                         *)
(* The name of a receipt is a hash of the whole record, the identity of a  *)
(* record is only its event_id or decision_id: a caller that repeats a     *)
(* call with another timestamp logs another record of the same identity.   *)
(* A line without its newline is not yet a record.                         *)
(***************************************************************************)
EXTENDS Integers, Sequences, FiniteSets

CONSTANTS Record,       \* records callers may log
          IdOf,         \* their identities
          NoRecord,
          RecoverFirst, \* callers run load-run after an interrupted call
          Tears,        \* a crash inside a write leaves an incomplete file
          MaxCrash      \* bound: interrupted calls considered

ASSUME RecordAssumption == NoRecord \notin Record

ASSUME BoundAssumption ==
  RecoverFirst \in BOOLEAN /\ Tears \in BOOLEAN /\ MaxCrash \in Nat

VARIABLES
  lines,     \* complete records of the log
  partial,   \* an incomplete line follows them
  receipts,  \* records with .store/operations/log-*.json
  temp,      \* records with .store/temp/log-*.receipt.tmp
  torn,      \* those of them whose temporary is incomplete
  step,      \* what the call in progress does next
  rec,       \* the record it logs, if it is not repair
  dirty,     \* a call was interrupted since the last complete repair
  crashes    \* how many were

temps == <<temp, torn>>
call == <<step, rec>>
bounds == <<dirty, crashes>>
vars == <<lines, partial, receipts, temps, call, bounds>>

-----------------------------------------------------------------------------
Logged == {lines[i] : i \in 1 .. Len(lines)}

SameId(r, s) == IdOf[r] = IdOf[s]

Init ==
  /\ lines = <<>> /\ partial = FALSE
  /\ receipts = {} /\ temp = {} /\ torn = {}
  /\ step = "idle" /\ rec = NoRecord
  /\ dirty = FALSE /\ crashes = 0

Return ==
  /\ step' = "idle" /\ rec' = NoRecord

MayStart == step = "idle" /\ (RecoverFirst => ~dirty)

\* Mutant: the identities already logged are not looked at.
AppendAcceptsAnyId(r) == ~partial

\* appendValidated refuses a record whose identity is logged with other
\* content, and a log with an incomplete line.
AppendAccepts(r) ==
  /\ ~partial
  /\ \A s \in Logged : SameId(r, s) => s = r

Start(r) ==
  /\ MayStart
  /\ AppendAccepts(r)
  /\ rec' = r
  /\ step' = IF r \in receipts THEN "line" ELSE "temp"
  /\ UNCHANGED <<lines, partial, receipts, temps, bounds>>

\* writeSyncedTemp takes a temporary an earlier attempt left, if it holds the
\* same bytes; repair removes none.
WriteTemp ==
  /\ step = "temp" /\ rec \notin torn
  /\ temp' = temp \union {rec}
  /\ step' = "link"
  /\ UNCHANGED <<lines, partial, receipts, torn, rec, bounds>>

WriteThrows ==
  /\ step = "temp" /\ rec \in torn
  /\ Return
  /\ UNCHANGED <<lines, partial, receipts, temps, bounds>>

Link ==
  /\ step = "link"
  /\ receipts' = receipts \union {rec}
  /\ step' = "unlink"
  /\ UNCHANGED <<lines, partial, temps, rec, bounds>>

Unlink ==
  /\ step = "unlink"
  /\ temp' = temp \ {rec}
  /\ step' = "line"
  /\ UNCHANGED <<lines, partial, receipts, torn, rec, bounds>>

\* Mutant: a record that is already logged is appended again.
WriteLineAgain ==
  /\ step = "line"
  /\ lines' = Append(lines, rec)
  /\ Return
  /\ UNCHANGED <<partial, receipts, temps, bounds>>

\* appendBytes, or the idempotent replay of a record that is already there.
WriteLine ==
  /\ step = "line"
  /\ lines' = IF rec \in Logged THEN lines ELSE Append(lines, rec)
  /\ Return
  /\ UNCHANGED <<partial, receipts, temps, bounds>>

-----------------------------------------------------------------------------
\* repair accepts one receipt for each identity, and for each record its own.
RepairAccepts ==
  /\ \A r, s \in receipts : SameId(r, s) => r = s
  /\ \A r \in receipts, s \in Logged : SameId(r, s) => s = r
  /\ Logged \subseteq receipts

\* load-run: the incomplete line is cut off before anything is checked.
Repair ==
  /\ step = "idle"
  /\ partial' = FALSE
  /\ IF RepairAccepts
     THEN /\ step' = "replay" /\ rec' = NoRecord
     ELSE UNCHANGED call
  /\ UNCHANGED <<lines, receipts, temps, bounds>>

\* Mutant: only records whose temporary is still there are replayed.
UnloggedWithTemp == {r \in receipts \cap temp : \A s \in Logged : ~SameId(r, s)}

Unlogged == {r \in receipts : \A s \in Logged : ~SameId(r, s)}

\* Missing records are appended in the order of their receipts' names.
Replay(r) ==
  /\ step = "replay" /\ r \in Unlogged
  /\ lines' = Append(lines, r)
  /\ UNCHANGED <<partial, receipts, temps, call, bounds>>

Repaired ==
  /\ step = "replay" /\ Unlogged = {}
  /\ dirty' = FALSE
  /\ Return
  /\ UNCHANGED <<lines, partial, receipts, temps, crashes>>

-----------------------------------------------------------------------------
Interrupted ==
  /\ crashes < MaxCrash
  /\ crashes' = crashes + 1
  /\ dirty' = TRUE
  /\ Return

Crash ==
  /\ step # "idle"
  /\ Interrupted
  /\ UNCHANGED <<lines, partial, receipts, temps>>

\* The process dies inside appendBytes and leaves a line without its end.
CrashInLine ==
  /\ \/ step = "line" /\ rec \notin Logged
     \/ step = "replay" /\ Unlogged # {}
  /\ Interrupted
  /\ partial' = TRUE
  /\ UNCHANGED <<lines, receipts, temps>>

\* The process dies between opening the temporary and writing it.
CrashInTemp ==
  /\ Tears
  /\ step = "temp" /\ rec \notin temp
  /\ Interrupted
  /\ temp' = temp \union {rec} /\ torn' = torn \union {rec}
  /\ UNCHANGED <<lines, partial, receipts>>

Next ==
  \/ \E r \in Record : Start(r) \/ Replay(r)
  \/ WriteTemp \/ WriteThrows \/ Link \/ Unlink \/ WriteLine
  \/ Repair \/ Repaired
  \/ Crash \/ CrashInLine \/ CrashInTemp

\* A call goes on by itself; load-run is run again after an interruption.
Fairness ==
  /\ WF_vars(WriteTemp \/ WriteThrows \/ Link \/ Unlink \/ WriteLine)
  /\ WF_vars(Repair) /\ WF_vars(Repaired)
  /\ WF_vars(\E r \in Record : Replay(r))

Spec == Init /\ [][Next]_vars

FairSpec == Spec /\ Fairness

-----------------------------------------------------------------------------
Step == {"idle", "temp", "link", "unlink", "line", "replay"}

\* Types of the log, its receipts and the call in progress.
TypeOK ==
  /\ lines \in Seq(Record)
  /\ partial \in BOOLEAN
  /\ receipts \subseteq Record /\ temp \subseteq Record /\ torn \subseteq temp
  /\ step \in Step
  /\ rec \in Record \union {NoRecord}
  /\ rec = NoRecord <=> step \in {"idle", "replay"}
  /\ dirty \in BOOLEAN
  /\ crashes \in 0 .. MaxCrash

\* An incomplete line is only ever left by a death nothing has repaired yet:
\* no caller appends behind it (L243-247).
PartialOnlyWhenDirty == partial => dirty

\* load-run never refuses the log: one receipt for each identity, and every
\* record has its own (repair, L390-436).
LoadAccepts == step = "idle" => RepairAccepts

\* Every record whose receipt is durable is in the log in the end
\* (repair, L437-443).
IntentsAreLogged == \A r \in Record : r \in receipts ~> r \in Logged

Log == INSTANCE OperationLog WITH intents <- receipts, records <- lines

\* The files implement the abstract log: append-only, receipt first, one record
\* for each identity, through any interruptions and repairs.
ImplementsLog == Log!Spec
=============================================================================
