---------------------------- MODULE EvidenceStore ----------------------------
(***************************************************************************)
(* The Evidence Store of one Run (evidence-store/evidence-store.ts):       *)
(* recordPreparedLocked and recoverLocked, one file-system step at a time, *)
(* under the Run lock.                                                     *)
(*                                                                         *)
(* An operation is a source, its bytes and the goal they were acquired     *)
(* for; its key leaves out recorded_at, so a repeated call may bring       *)
(* another time.  Several operations may share their bytes, and then the   *)
(* content-addressed file that holds them.                                 *)
(***************************************************************************)
EXTENDS Integers, Sequences, FiniteSets

CONSTANTS Op,        \* evidence operations
          Time,      \* values of recorded_at
          RawOf,     \* content of an operation
          NoOp, NoTime,
          MaxCrash,  \* bound: interrupted calls
          MaxLoss    \* bound: temporaries lost from outside the Store

ASSUME NameAssumption ==
  /\ NoOp \notin Op /\ NoTime \notin Time
  /\ Time \cap {"none", "torn"} = {}

ASSUME BoundAssumption == MaxCrash \in Nat /\ MaxLoss \in Nat

VARIABLES
  manifest,     \* complete records of evidence/manifest.jsonl
  partial,      \* an incomplete line follows them
  receipt,      \* time in the receipt of each operation, NoTime without one
  raws,         \* contents in evidence/raw
  rawTemp,      \* temporary of each operation's content
  receiptTemp,  \* time in the temporary of each operation's receipt
  step,         \* what the call in progress does next
  op, at,       \* its operation and recorded_at
  plan,         \* what recovery has still to do for each receipt
  crashes, losses

files == <<manifest, partial, receipt, raws, rawTemp, receiptTemp>>
call == <<step, op, at, plan>>
bounds == <<crashes, losses>>
vars == <<files, call, bounds>>

-----------------------------------------------------------------------------
Recorded == {manifest[i].op : i \in 1 .. Len(manifest)}

Init ==
  /\ manifest = <<>> /\ partial = FALSE
  /\ receipt = [o \in Op |-> NoTime] /\ raws = {}
  /\ rawTemp = [o \in Op |-> "none"] /\ receiptTemp = [o \in Op |-> "none"]
  /\ step = "idle" /\ op = NoOp /\ at = NoTime
  /\ plan = [o \in Op |-> "done"]
  /\ crashes = 0 /\ losses = 0

Return ==
  /\ step' = "idle" /\ op' = NoOp /\ at' = NoTime
  /\ plan' = [o \in Op |-> "done"]

Goto(next) == step' = next /\ UNCHANGED <<op, at, plan>>

Start(o, t) ==
  /\ step = "idle"
  /\ step' = "rawTemp" /\ op' = o /\ at' = t
  /\ UNCHANGED <<files, plan, bounds>>

\* Mutant: an incomplete temporary is taken for a complete one.
MatchesAny(temp, content) == TRUE

\* writeSyncedTemp takes a temporary that is there if it holds the same bytes.
Matches(temp, content) == temp \in {"none", content}

WriteRawTemp ==
  /\ step = "rawTemp" /\ Matches(rawTemp[op], "whole")
  /\ rawTemp' = [rawTemp EXCEPT ![op] = IF @ = "none" THEN "whole" ELSE @]
  /\ Goto("intent")
  /\ UNCHANGED <<manifest, partial, receipt, raws, receiptTemp, bounds>>

\* A receipt that is there is kept, with its time.
ReadReceipt ==
  /\ step = "intent" /\ receipt[op] # NoTime
  /\ step' = "raw" /\ at' = receipt[op]
  /\ UNCHANGED <<files, op, plan, bounds>>

WriteReceiptTemp ==
  /\ step = "intent" /\ receipt[op] = NoTime
  /\ Matches(receiptTemp[op], at)
  /\ receiptTemp' = [receiptTemp EXCEPT ![op] = at]
  /\ Goto("linkReceipt")
  /\ UNCHANGED <<manifest, partial, receipt, raws, rawTemp, bounds>>

WriteThrows ==
  /\ \/ step = "rawTemp" /\ ~Matches(rawTemp[op], "whole")
     \/ step = "intent" /\ receipt[op] = NoTime /\ ~Matches(receiptTemp[op], at)
  /\ Return
  /\ UNCHANGED <<files, bounds>>

LinkReceipt ==
  /\ step = "linkReceipt"
  /\ receipt' = [receipt EXCEPT ![op] = at]
  /\ Goto("unlinkReceipt")
  /\ UNCHANGED <<manifest, partial, raws, rawTemp, receiptTemp, bounds>>

UnlinkReceipt ==
  /\ step = "unlinkReceipt"
  /\ receiptTemp' = [receiptTemp EXCEPT ![op] = "none"]
  /\ Goto("raw")
  /\ UNCHANGED <<manifest, partial, receipt, raws, rawTemp, bounds>>

\* The content may have been stored before, by this operation or another.
LinkRaw ==
  /\ step = "raw"
  /\ raws' = raws \union {RawOf[op]}
  /\ Goto("unlinkRaw")
  /\ UNCHANGED <<manifest, partial, receipt, rawTemp, receiptTemp, bounds>>

UnlinkRaw ==
  /\ step = "unlinkRaw"
  /\ rawTemp' = [rawTemp EXCEPT ![op] = "none"]
  /\ Goto("append")
  /\ UNCHANGED <<manifest, partial, receipt, raws, receiptTemp, bounds>>

\* Mutant: a record is appended whether it is there or not.
AddedAgain == Append(manifest, [op |-> op, at |-> at])

\* The manifest with the record of the call, once; a record of the operation
\* that is there has the time of its receipt (RecordsBacked) and is the same.
Added == IF op \in Recorded THEN manifest ELSE Append(manifest, [op |-> op, at |-> at])

AppendRecord ==
  /\ step = "append" /\ ~partial
  /\ manifest' = Added
  /\ Return
  /\ UNCHANGED <<partial, receipt, raws, rawTemp, receiptTemp, bounds>>

AppendThrows ==
  /\ step = "append" /\ partial
  /\ Return
  /\ UNCHANGED <<files, bounds>>

-----------------------------------------------------------------------------
HasReceipt(o) == receipt[o] # NoTime

Backed(r) == RawOf[r.op] \in raws /\ receipt[r.op] = r.at

\* recoverLocked accepts records with their receipt and content, and receipts
\* whose content is stored, or whole in its temporary, or gone.
RecoveryAccepts ==
  /\ \A i \in 1 .. Len(manifest) : Backed(manifest[i])
  /\ \A o \in Op : HasReceipt(o) /\ RawOf[o] \notin raws => rawTemp[o] # "torn"

\* Mutant: an intent whose content is still in its temporary is left alone.
ClassifyStoredOnly(o) == IF HasReceipt(o) /\ RawOf[o] \in raws THEN "complete" ELSE "done"

Classify(o) ==
  CASE ~HasReceipt(o) -> "done"
    [] HasReceipt(o) /\ RawOf[o] \in raws -> "complete"
    [] HasReceipt(o) /\ RawOf[o] \notin raws /\ rawTemp[o] # "none" -> "recover"
    [] OTHER -> "discard"

\* load-run: the incomplete line is cut off first; every receipt is classified
\* before anything else is done.
Recover ==
  /\ step = "idle"
  /\ partial' = FALSE
  /\ IF RecoveryAccepts
     THEN step' = "replay" /\ plan' = [o \in Op |-> Classify(o)]
     ELSE UNCHANGED <<step, plan>>
  /\ UNCHANGED <<manifest, receipt, raws, rawTemp, receiptTemp, op, at, bounds>>

\* The receipts are gone through one by one.
Replay(o) ==
  /\ step = "replay" /\ plan[o] \in {"complete", "recover"}
  /\ op' = o /\ at' = receipt[o]
  /\ step' = IF plan[o] = "recover" THEN "publish" ELSE "log"
  /\ UNCHANGED <<files, plan, bounds>>

Discard(o) ==
  /\ step = "replay" /\ plan[o] = "discard"
  /\ receipt' = [receipt EXCEPT ![o] = NoTime]
  /\ plan' = [plan EXCEPT ![o] = "done"]
  /\ UNCHANGED <<manifest, partial, raws, rawTemp, receiptTemp, step, op, at, bounds>>

PublishRaw ==
  /\ step = "publish" /\ RawOf[op] \notin raws
  /\ raws' = raws \union {RawOf[op]}
  /\ Goto("unlinkPublished")
  /\ UNCHANGED <<manifest, partial, receipt, rawTemp, receiptTemp, bounds>>

\* The content was stored since it was classified, by an operation that shares
\* it: publishTemp finds the path occupied and load-run ends with write.conflict.
PublishThrows ==
  /\ step = "publish" /\ RawOf[op] \in raws
  /\ Return
  /\ UNCHANGED <<files, bounds>>

UnlinkPublished ==
  /\ step = "unlinkPublished"
  /\ rawTemp' = [rawTemp EXCEPT ![op] = "none"]
  /\ Goto("log")
  /\ UNCHANGED <<manifest, partial, receipt, raws, receiptTemp, bounds>>

LogReplayed ==
  /\ step = "log"
  /\ manifest' = Added
  /\ step' = "replay" /\ op' = NoOp /\ at' = NoTime
  /\ plan' = [plan EXCEPT ![op] = "done"]
  /\ UNCHANGED <<partial, receipt, raws, rawTemp, receiptTemp, bounds>>

Worked == step = "replay" /\ \A o \in Op : plan[o] = "done"

Clean(o) ==
  /\ Worked
  /\ \/ rawTemp[o] # "none" /\ rawTemp' = [rawTemp EXCEPT ![o] = "none"]
        /\ UNCHANGED receiptTemp
     \/ receiptTemp[o] # "none" /\ receiptTemp' = [receiptTemp EXCEPT ![o] = "none"]
        /\ UNCHANGED rawTemp
  /\ UNCHANGED <<manifest, partial, receipt, raws, call, bounds>>

Recovered ==
  /\ Worked
  /\ \A o \in Op : rawTemp[o] = "none" /\ receiptTemp[o] = "none"
  /\ Return
  /\ UNCHANGED <<files, bounds>>

-----------------------------------------------------------------------------
Interrupted == crashes < MaxCrash /\ crashes' = crashes + 1 /\ UNCHANGED losses /\ Return

Crash ==
  /\ step # "idle"
  /\ Interrupted
  /\ UNCHANGED files

\* The process dies inside a write and leaves an incomplete temporary.
CrashInRawTemp ==
  /\ step = "rawTemp" /\ rawTemp[op] = "none"
  /\ rawTemp' = [rawTemp EXCEPT ![op] = "torn"]
  /\ Interrupted
  /\ UNCHANGED <<manifest, partial, receipt, raws, receiptTemp>>

CrashInReceiptTemp ==
  /\ step = "intent" /\ receipt[op] = NoTime /\ receiptTemp[op] = "none"
  /\ receiptTemp' = [receiptTemp EXCEPT ![op] = "torn"]
  /\ Interrupted
  /\ UNCHANGED <<manifest, partial, receipt, raws, rawTemp>>

\* The process dies inside appendRecord.
CrashInLine ==
  /\ step \in {"append", "log"} /\ ~partial /\ op \notin Recorded
  /\ partial' = TRUE
  /\ Interrupted
  /\ UNCHANGED <<manifest, receipt, raws, rawTemp, receiptTemp>>

\* A temporary disappears: its file was synced, its directory entry was not.
LoseTemp(o) ==
  /\ step = "idle" /\ losses < MaxLoss
  /\ rawTemp[o] # "none"
  /\ rawTemp' = [rawTemp EXCEPT ![o] = "none"]
  /\ losses' = losses + 1
  /\ UNCHANGED <<manifest, partial, receipt, raws, receiptTemp, call, crashes>>

RecordStep ==
  \/ WriteRawTemp \/ ReadReceipt \/ WriteReceiptTemp \/ WriteThrows
  \/ LinkReceipt \/ UnlinkReceipt \/ LinkRaw \/ UnlinkRaw
  \/ AppendRecord \/ AppendThrows

RecoveryStep ==
  \/ \E o \in Op : Replay(o) \/ Discard(o) \/ Clean(o)
  \/ PublishRaw \/ PublishThrows \/ UnlinkPublished \/ LogReplayed \/ Recovered

Next ==
  \/ \E o \in Op, t \in Time : Start(o, t)
  \/ RecordStep
  \/ Recover \/ RecoveryStep
  \/ Crash \/ CrashInRawTemp \/ CrashInReceiptTemp \/ CrashInLine
  \/ \E o \in Op : LoseTemp(o)

Spec == Init /\ [][Next]_vars

\* A call goes on by itself; callers run load-run again and again.
FairSpec == Spec /\ WF_vars(RecordStep \/ RecoveryStep) /\ SF_vars(Recover)

-----------------------------------------------------------------------------
Step == {"idle", "rawTemp", "intent", "linkReceipt", "unlinkReceipt", "raw", "unlinkRaw",
         "append", "replay", "publish", "unlinkPublished", "log"}

\* Types of the files and the call in progress.
TypeOK ==
  /\ manifest \in Seq([op : Op, at : Time]) /\ partial \in BOOLEAN
  /\ receipt \in [Op -> Time \union {NoTime}]
  /\ raws \subseteq {RawOf[o] : o \in Op}
  /\ rawTemp \in [Op -> {"none", "torn", "whole"}]
  /\ receiptTemp \in [Op -> Time \union {"none", "torn"}]
  /\ step \in Step
  /\ op \in Op \union {NoOp} /\ at \in Time \union {NoTime}
  /\ op = NoOp <=> step \in {"idle", "replay"}
  /\ at = NoTime <=> step \in {"idle", "replay"}
  /\ plan \in [Op -> {"done", "complete", "recover", "discard"}]
  /\ crashes \in 0 .. MaxCrash /\ losses \in 0 .. MaxLoss

\* Every record has its content and a receipt with its time, whatever was
\* interrupted, repeated with another time, or lost (recoverLocked, L763-806).
RecordsBacked == \A i \in 1 .. Len(manifest) : Backed(manifest[i])

\* load-run accepts what interrupted calls left behind (L754-862).  A lost
\* temporary that a repeated call then left incomplete is refused for ever.
LoadAccepts == step = "idle" /\ losses = 0 => RecoveryAccepts

\* Every operation whose receipt is durable is recorded in the end (L863-877).
\* load-run may end with write.conflict on the way, not for ever.
IntentsAreRecorded ==
  \A o \in Op : HasReceipt(o) ~> o \in Recorded \/ losses > 0

Ledger == INSTANCE EvidenceLedger WITH stored <- raws, records <- manifest

\* Content before record, one record for an operation, nothing ever removed.
ImplementsLedger == Ledger!Spec
=============================================================================
