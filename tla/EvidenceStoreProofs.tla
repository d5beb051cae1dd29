------------------------- MODULE EvidenceStoreProofs -------------------------
(***************************************************************************)
(* The Evidence Store proved for any operations and contents, shared or    *)
(* not, any times, and any number of interruptions and losses.             *)
(***************************************************************************)
EXTENDS EvidenceStore, TLAPS

Recovering == step \in {"replay", "publish", "unlinkPublished", "log"}

\* Records have content and receipt; an intent has its content or, unless a
\* temporary was lost, all of it in a temporary.
DataInv ==
  /\ RecordsBacked
  /\ losses = 0 => \A o \in Op : HasReceipt(o) /\ RawOf[o] \notin raws => rawTemp[o] = "whole"

\* What the call in progress has done before its next step.
CallInv ==
  /\ step \in {"intent", "linkReceipt", "unlinkReceipt", "raw"} => rawTemp[op] = "whole"
  /\ step = "linkReceipt" => receipt[op] = NoTime
  /\ step \in {"unlinkReceipt", "raw", "unlinkRaw", "append", "publish", "unlinkPublished", "log"}
       => receipt[op] = at
  /\ step \in {"unlinkRaw", "append", "unlinkPublished"} => RawOf[op] \in raws
  /\ step = "log" => RawOf[op] \in raws

\* What recovery decided stays right while it works; what it is done with has
\* its content or no receipt.
PlanInv ==
  /\ \A o \in Op : plan[o] = "complete" => HasReceipt(o) /\ RawOf[o] \in raws
  /\ \A o \in Op : plan[o] = "recover" => HasReceipt(o)
  /\ \A o \in Op : plan[o] = "discard" => o \notin Recorded
  /\ step \in {"publish", "unlinkPublished", "log"} => plan[op] \in {"complete", "recover"}
  /\ ~Recovering => \A o \in Op : plan[o] = "done"
  /\ Recovering => \A o \in Op : plan[o] = "done" /\ HasReceipt(o) => RawOf[o] \in raws

Inv == TypeOK /\ DataInv /\ CallInv /\ PlanInv

-----------------------------------------------------------------------------
\* What an append does to a sequence.
LEMMA Appended ==
  ASSUME NEW S, NEW q \in Seq(S), NEW r \in S
  PROVE  /\ Append(q, r) \in Seq(S)
         /\ Len(q) \in Nat /\ Len(Append(q, r)) = Len(q) + 1
         /\ \A i \in 1 .. Len(q) : Append(q, r)[i] = q[i]
         /\ Append(q, r)[Len(q) + 1] = r
OBVIOUS

\* Every record of the manifest has an operation and a time.
LEMMA RecordTyped ==
  ASSUME TypeOK, NEW i \in 1 .. Len(manifest)
  PROVE  manifest[i].op \in Op /\ manifest[i].at \in Time
<1> DEFINE S == [op : Op, at : Time]
<1>1. manifest \in Seq(S)
  BY DEF TypeOK
<1>2. \A r \in S : r.op \in Op /\ r.at \in Time
  OBVIOUS
<1> HIDE DEF S
<1>3. manifest[i] \in S
  BY <1>1
<1> QED
  BY <1>2, <1>3

\* A record that follows its receipt and its content keeps the manifest right.
LEMMA AddedKeeps ==
  ASSUME TypeOK, RecordsBacked, op \in Op, at \in Time,
         RawOf[op] \in raws, receipt[op] = at,
         manifest' = Added, receipt' = receipt, raws' = raws
  PROVE  /\ manifest' \in Seq([op : Op, at : Time])
         /\ RecordsBacked'
         /\ Recorded' = Recorded \union {op}
<1>1. manifest \in Seq([op : Op, at : Time])
  BY DEF TypeOK
<1>2. CASE op \in Recorded
  BY <1>1, <1>2 DEF Added, RecordsBacked, Backed, Recorded
<1>3. CASE op \notin Recorded
  <2> DEFINE r == [op |-> op, at |-> at]
  <2>1. r \in [op : Op, at : Time] /\ r.op = op /\ r.at = at
    OBVIOUS
  <2>2. manifest' = Append(manifest, r)
    BY <1>3 DEF Added
  <2> HIDE DEF r
  <2>3. /\ manifest' \in Seq([op : Op, at : Time])
        /\ Len(manifest) \in Nat /\ Len(manifest') = Len(manifest) + 1
        /\ \A i \in 1 .. Len(manifest) : manifest'[i] = manifest[i]
        /\ manifest'[Len(manifest) + 1] = r
    BY <1>1, <2>1, <2>2, Appended
  <2>4. RecordsBacked'
    BY <2>1, <2>3 DEF RecordsBacked, Backed
  <2>5. Recorded' = Recorded \union {op}
    BY <2>1, <2>3 DEF Recorded
  <2> QED
    BY <2>3, <2>4, <2>5
<1> QED
  BY <1>2, <1>3

\* An operation on record has a receipt and its content.
LEMMA RecordedBacked ==
  ASSUME TypeOK, RecordsBacked, NEW o \in Recorded
  PROVE  o \in Op /\ HasReceipt(o) /\ RawOf[o] \in raws
<1>1. PICK i \in 1 .. Len(manifest) : o = manifest[i].op
  BY DEF Recorded
<1>2. manifest[i].op \in Op /\ manifest[i].at \in Time
  BY <1>1, RecordTyped
<1>3. Backed(manifest[i])
  BY <1>1 DEF RecordsBacked
<1>4. receipt[o] \in Time /\ RawOf[o] \in raws
  BY <1>1, <1>2, <1>3 DEF Backed
<1> QED
  BY <1>1, <1>2, <1>4, NameAssumption DEF HasReceipt

\* Every step keeps the types; the time of a receipt that is read is a time.
LEMMA NextTypeOK == Inv /\ [Next]_vars => TypeOK'
<1> SUFFICES ASSUME Inv, [Next]_vars PROVE TypeOK'
  OBVIOUS
<1>0. TypeOK /\ DataInv /\ CallInv /\ PlanInv
  BY DEF Inv
<1> USE <1>0, NameAssumption, BoundAssumption DEF TypeOK, Step
<1>1. manifest' \in Seq([op : Op, at : Time])
  <2>1. CASE AppendRecord \/ LogReplayed
    <3>1. op \in Op /\ at \in Time /\ RawOf[op] \in raws /\ receipt[op] = at
      BY <2>1 DEF AppendRecord, LogReplayed, CallInv
    <3>2. manifest' = Added /\ receipt' = receipt /\ raws' = raws
      BY <2>1 DEF AppendRecord, LogReplayed
    <3> QED
      BY <3>1, <3>2, AddedKeeps DEF DataInv
  <2>2. CASE UNCHANGED manifest
    BY <2>2
  <2> QED
    BY <2>1, <2>2 DEF Next, RecordStep, RecoveryStep, vars, files, Start, WriteRawTemp,
       ReadReceipt, WriteReceiptTemp, WriteThrows, LinkReceipt, UnlinkReceipt, LinkRaw,
       UnlinkRaw, AppendThrows, Recover, Replay, Discard, PublishRaw, PublishThrows,
       UnlinkPublished, Clean, Recovered, Crash, CrashInRawTemp, CrashInReceiptTemp,
       CrashInLine, LoseTemp
<1>2. partial' \in BOOLEAN
  BY DEF Next, RecordStep, RecoveryStep, vars, files, Start, WriteRawTemp,
     ReadReceipt, WriteReceiptTemp, WriteThrows, LinkReceipt, UnlinkReceipt, LinkRaw,
     UnlinkRaw, AppendRecord, AppendThrows, Recover, Replay, Discard, PublishRaw,
     PublishThrows, UnlinkPublished, LogReplayed, Clean, Recovered, Crash,
     CrashInRawTemp, CrashInReceiptTemp, CrashInLine, LoseTemp
<1>3. receipt' \in [Op -> Time \union {NoTime}]
  BY DEF Next, RecordStep, RecoveryStep, vars, files, Start, WriteRawTemp,
     ReadReceipt, WriteReceiptTemp, WriteThrows, LinkReceipt, UnlinkReceipt, LinkRaw,
     UnlinkRaw, AppendRecord, AppendThrows, Recover, Replay, Discard, PublishRaw,
     PublishThrows, UnlinkPublished, LogReplayed, Clean, Recovered, Crash,
     CrashInRawTemp, CrashInReceiptTemp, CrashInLine, LoseTemp
<1>4. raws' \subseteq {RawOf[o] : o \in Op}
  BY DEF Next, RecordStep, RecoveryStep, vars, files, Start, WriteRawTemp,
     ReadReceipt, WriteReceiptTemp, WriteThrows, LinkReceipt, UnlinkReceipt, LinkRaw,
     UnlinkRaw, AppendRecord, AppendThrows, Recover, Replay, Discard, PublishRaw,
     PublishThrows, UnlinkPublished, LogReplayed, Clean, Recovered, Crash,
     CrashInRawTemp, CrashInReceiptTemp, CrashInLine, LoseTemp
<1>5. /\ rawTemp' \in [Op -> {"none", "torn", "whole"}]
      /\ receiptTemp' \in [Op -> Time \union {"none", "torn"}]
  BY DEF Next, RecordStep, RecoveryStep, vars, files, Start, WriteRawTemp,
     ReadReceipt, WriteReceiptTemp, WriteThrows, LinkReceipt, UnlinkReceipt, LinkRaw,
     UnlinkRaw, AppendRecord, AppendThrows, Recover, Replay, Discard, PublishRaw,
     PublishThrows, UnlinkPublished, LogReplayed, Clean, Recovered, Crash,
     CrashInRawTemp, CrashInReceiptTemp, CrashInLine, LoseTemp
<1>6. /\ step' \in Step
      /\ op' \in Op \union {NoOp} /\ at' \in Time \union {NoTime}
  BY DEF Next, RecordStep, RecoveryStep, vars, files, call, Goto, Return, Interrupted,
     Start, WriteRawTemp,
     ReadReceipt, WriteReceiptTemp, WriteThrows, LinkReceipt, UnlinkReceipt, LinkRaw,
     UnlinkRaw, AppendRecord, AppendThrows, Recover, Replay, Discard, PublishRaw,
     PublishThrows, UnlinkPublished, LogReplayed, Clean, Recovered, Crash,
     CrashInRawTemp, CrashInReceiptTemp, CrashInLine, LoseTemp
<1>7. /\ op' = NoOp <=> step' \in {"idle", "replay"}
      /\ at' = NoTime <=> step' \in {"idle", "replay"}
  BY DEF Next, RecordStep, RecoveryStep, vars, files, call, Goto, Return, Interrupted,
     Start, WriteRawTemp, PlanInv, HasReceipt,
     ReadReceipt, WriteReceiptTemp, WriteThrows, LinkReceipt, UnlinkReceipt, LinkRaw,
     UnlinkRaw, AppendRecord, AppendThrows, Recover, Replay, Discard, PublishRaw,
     PublishThrows, UnlinkPublished, LogReplayed, Clean, Recovered, Crash,
     CrashInRawTemp, CrashInReceiptTemp, CrashInLine, LoseTemp
<1>8. plan' \in [Op -> {"done", "complete", "recover", "discard"}]
  <2>1. CASE Recover
    <3>1. \A o \in Op : Classify(o) \in {"done", "complete", "recover", "discard"}
      BY DEF Classify
    <3> QED
      BY <2>1, <3>1 DEF Recover
  <2>2. CASE ~Recover
    BY <2>2 DEF Next, RecordStep, RecoveryStep, vars, files, call, Goto, Return, Interrupted,
       Start, WriteRawTemp,
       ReadReceipt, WriteReceiptTemp, WriteThrows, LinkReceipt, UnlinkReceipt, LinkRaw,
       UnlinkRaw, AppendRecord, AppendThrows, Replay, Discard, PublishRaw,
       PublishThrows, UnlinkPublished, LogReplayed, Clean, Recovered, Crash,
       CrashInRawTemp, CrashInReceiptTemp, CrashInLine, LoseTemp
  <2> QED
    BY <2>1, <2>2
<1>9. crashes' \in 0 .. MaxCrash /\ losses' \in 0 .. MaxLoss
  BY DEF Next, RecordStep, RecoveryStep, vars, bounds, Interrupted,
     Start, WriteRawTemp,
     ReadReceipt, WriteReceiptTemp, WriteThrows, LinkReceipt, UnlinkReceipt, LinkRaw,
     UnlinkRaw, AppendRecord, AppendThrows, Recover, Replay, Discard, PublishRaw,
     PublishThrows, UnlinkPublished, LogReplayed, Clean, Recovered, Crash,
     CrashInRawTemp, CrashInReceiptTemp, CrashInLine, LoseTemp
<1> QED
  BY <1>1, <1>2, <1>3, <1>4, <1>5, <1>6, <1>7, <1>8, <1>9

-----------------------------------------------------------------------------
\* Every step keeps records behind their content and receipt, and intents
\* behind a copy of their content.
LEMMA NextDataInv == Inv /\ [Next]_vars => DataInv'
<1> SUFFICES ASSUME Inv, [Next]_vars PROVE DataInv'
  OBVIOUS
<1>0. TypeOK /\ DataInv /\ CallInv /\ PlanInv
  BY DEF Inv
<1>1. RecordsBacked /\ \A i \in 1 .. Len(manifest) : manifest[i].op \in Op
  BY <1>0, RecordTyped DEF DataInv
<1>2. CASE AppendRecord \/ LogReplayed
  <2>1. op \in Op /\ at \in Time /\ RawOf[op] \in raws /\ receipt[op] = at
    BY <1>0, <1>2, NameAssumption DEF AppendRecord, LogReplayed, CallInv, TypeOK
  <2>2. /\ manifest' = Added /\ receipt' = receipt /\ raws' = raws
        /\ rawTemp' = rawTemp /\ losses' = losses
    BY <1>2 DEF AppendRecord, LogReplayed, bounds
  <2>3. RecordsBacked'
    BY <1>0, <2>1, <2>2, AddedKeeps DEF DataInv
  <2> QED
    BY <1>0, <2>2, <2>3 DEF DataInv, HasReceipt
<1>3. ASSUME NEW o \in Op, Discard(o) PROVE DataInv'
  <2>1. o \notin Recorded
    BY <1>0, <1>3 DEF Discard, PlanInv
  <2>2. RecordsBacked'
    BY <1>0, <1>1, <1>3, <2>1 DEF Discard, RecordsBacked, Backed, Recorded, TypeOK
  <2> QED
    BY <1>0, <1>3, <2>2, NameAssumption DEF Discard, DataInv, HasReceipt, TypeOK, bounds
<1>4. CASE LinkReceipt
  <2>1. op \in Op /\ receipt[op] = NoTime /\ rawTemp[op] = "whole"
    BY <1>0, <1>4 DEF LinkReceipt, CallInv, TypeOK
  <2>2. op \notin Recorded
    BY <1>0, <2>1, RecordedBacked DEF DataInv, HasReceipt
  <2>3. RecordsBacked'
    BY <1>0, <1>1, <1>4, <2>2 DEF LinkReceipt, RecordsBacked, Backed, Recorded, TypeOK
  <2> QED
    BY <1>0, <1>4, <2>1, <2>3 DEF LinkReceipt, DataInv, HasReceipt, TypeOK, bounds
<1>5. CASE LinkRaw \/ PublishRaw
  BY <1>0, <1>5 DEF LinkRaw, PublishRaw, DataInv, RecordsBacked, Backed, HasReceipt, bounds
<1>6. CASE UnlinkRaw \/ UnlinkPublished
  <2>1. RawOf[op] \in raws /\ op \in Op
    BY <1>0, <1>6 DEF UnlinkRaw, UnlinkPublished, CallInv, TypeOK
  <2> QED
    BY <1>0, <1>6, <2>1 DEF UnlinkRaw, UnlinkPublished, DataInv, RecordsBacked, Backed,
       HasReceipt, TypeOK, bounds
<1>7. CASE WriteRawTemp
  BY <1>0, <1>7 DEF WriteRawTemp, Matches, DataInv, RecordsBacked, Backed, HasReceipt,
     TypeOK, bounds
<1>8. CASE CrashInRawTemp
  BY <1>0, <1>8 DEF CrashInRawTemp, Interrupted, DataInv, RecordsBacked, Backed,
     HasReceipt, TypeOK
<1>9. ASSUME NEW o \in Op, Clean(o) PROVE DataInv'
  <2>1. \A i \in Op : HasReceipt(i) => RawOf[i] \in raws
    BY <1>0, <1>9 DEF Clean, Worked, PlanInv, Recovering
  <2> QED
    BY <1>0, <1>9, <2>1 DEF Clean, DataInv, RecordsBacked, Backed, HasReceipt
<1>10. ASSUME NEW o \in Op, LoseTemp(o) PROVE DataInv'
  BY <1>0, <1>10, BoundAssumption DEF LoseTemp, DataInv, RecordsBacked, Backed, TypeOK
<1>11. CASE UNCHANGED <<manifest, receipt, raws, rawTemp, losses>>
  BY <1>0, <1>11 DEF DataInv, RecordsBacked, Backed, HasReceipt
<1> QED
  BY <1>2, <1>3, <1>4, <1>5, <1>6, <1>7, <1>8, <1>9, <1>10, <1>11
  DEF Next, RecordStep, RecoveryStep, vars, files, bounds, Interrupted, Start, ReadReceipt,
      WriteReceiptTemp, WriteThrows, UnlinkReceipt, AppendThrows, Recover, Replay,
      PublishThrows, Recovered, Crash, CrashInReceiptTemp, CrashInLine

-----------------------------------------------------------------------------
\* A step that ends the call, or starts it, leaves nothing to know about it.
LEMMA EndedCall ==
  ASSUME step' \in {"idle", "rawTemp", "replay"} PROVE CallInv'
BY DEF CallInv

\* Every step leaves the call with what its next step relies on.
LEMMA NextCallInv == Inv /\ [Next]_vars => CallInv'
<1> SUFFICES ASSUME Inv, [Next]_vars PROVE CallInv'
  OBVIOUS
<1>0. TypeOK /\ CallInv /\ PlanInv
  BY DEF Inv
<1> DEFINE Ends == step' \in {"idle", "rawTemp", "replay"}
<1>1. CASE Ends
  BY <1>1, EndedCall
<1>2. CASE WriteRawTemp
  BY <1>0, <1>2 DEF WriteRawTemp, Matches, Goto, CallInv, TypeOK
<1>3. CASE ReadReceipt
  BY <1>0, <1>3 DEF ReadReceipt, files, CallInv, TypeOK
<1>4. CASE WriteReceiptTemp
  BY <1>0, <1>4 DEF WriteReceiptTemp, Goto, CallInv, TypeOK
<1>5. CASE LinkReceipt
  BY <1>0, <1>5 DEF LinkReceipt, Goto, CallInv, TypeOK
<1>6. CASE UnlinkReceipt
  BY <1>0, <1>6 DEF UnlinkReceipt, Goto, CallInv, TypeOK
<1>7. CASE LinkRaw
  BY <1>0, <1>7 DEF LinkRaw, Goto, CallInv, TypeOK
<1>8. CASE UnlinkRaw
  BY <1>0, <1>8 DEF UnlinkRaw, Goto, CallInv, TypeOK
<1>9. ASSUME NEW o \in Op, Replay(o) PROVE CallInv'
  BY <1>0, <1>9 DEF Replay, files, CallInv, PlanInv
<1>10. CASE PublishRaw
  BY <1>0, <1>10 DEF PublishRaw, Goto, CallInv, TypeOK
<1>11. CASE UnlinkPublished
  BY <1>0, <1>11 DEF UnlinkPublished, Goto, CallInv, TypeOK
<1>12. CASE UNCHANGED vars
  BY <1>0, <1>12 DEF vars, files, call, CallInv
<1>13. CASE Recover
  BY <1>0, <1>13 DEF Recover, CallInv
<1>14. ASSUME \/ \E o \in Op, t \in Time : Start(o, t)
              \/ \E o \in Op : Discard(o) \/ Clean(o) \/ LoseTemp(o)
              \/ WriteThrows \/ AppendRecord \/ AppendThrows
              \/ PublishThrows \/ LogReplayed \/ Recovered
              \/ Crash \/ CrashInRawTemp \/ CrashInReceiptTemp \/ CrashInLine
       PROVE  Ends
  BY <1>14 DEF Start, Discard, Clean, Worked, LoseTemp, WriteThrows, AppendRecord,
     AppendThrows, PublishThrows, LogReplayed, Recovered, Crash, CrashInRawTemp,
     CrashInReceiptTemp, CrashInLine, Interrupted, Return, call
<1> HIDE DEF Ends
<1> QED
  BY <1>1, <1>2, <1>3, <1>4, <1>5, <1>6, <1>7, <1>8, <1>9, <1>10, <1>11, <1>12, <1>13, <1>14
  DEF Next, RecordStep, RecoveryStep

\* A call that records, or none, has no plan.
LEMMA NoPlan ==
  ASSUME plan' = [o \in Op |-> "done"], step' \notin {"replay", "publish", "unlinkPublished", "log"}
  PROVE  PlanInv'
BY DEF PlanInv, Recovering

\* Every step keeps what recovery decided right.
LEMMA NextPlanInv == Inv /\ [Next]_vars => PlanInv'
<1> SUFFICES ASSUME Inv, [Next]_vars PROVE PlanInv'
  OBVIOUS
<1>0. TypeOK /\ DataInv /\ CallInv /\ PlanInv
  BY DEF Inv
<1>1. ~Recovering => plan = [o \in Op |-> "done"]
  BY <1>0 DEF PlanInv, TypeOK
<1>2. ASSUME \/ \E o \in Op, t \in Time : Start(o, t)
             \/ \E o \in Op : LoseTemp(o)
             \/ RecordStep \/ PublishThrows \/ Recovered
             \/ Crash \/ CrashInRawTemp \/ CrashInReceiptTemp \/ CrashInLine
      PROVE  PlanInv'
  <2>1. plan' = [o \in Op |-> "done"]
    BY <1>1, <1>2 DEF Recovering, Start, LoseTemp, RecordStep, WriteRawTemp, ReadReceipt,
       WriteReceiptTemp, WriteThrows, LinkReceipt, UnlinkReceipt, LinkRaw, UnlinkRaw,
       AppendRecord, AppendThrows, PublishThrows, Recovered, Crash, CrashInRawTemp,
       CrashInReceiptTemp, CrashInLine, Interrupted, Return, Goto, call
  <2>2. step' \notin {"replay", "publish", "unlinkPublished", "log"}
    BY <1>2 DEF Start, LoseTemp, RecordStep, WriteRawTemp, ReadReceipt,
       WriteReceiptTemp, WriteThrows, LinkReceipt, UnlinkReceipt, LinkRaw, UnlinkRaw,
       AppendRecord, AppendThrows, PublishThrows, Recovered, Crash, CrashInRawTemp,
       CrashInReceiptTemp, CrashInLine, Interrupted, Return, Goto, call
  <2> QED
    BY <2>1, <2>2, NoPlan
<1>3. CASE Recover
  <2>1. manifest' = manifest /\ receipt' = receipt /\ raws' = raws
    BY <1>3 DEF Recover
  <2>2. CASE RecoveryAccepts
    <3>1. step' = "replay" /\ plan' = [o \in Op |-> Classify(o)]
      BY <1>3, <2>2 DEF Recover
    <3>2. \A o \in Op : Classify(o) = "complete" => HasReceipt(o) /\ RawOf[o] \in raws
      BY DEF Classify
    <3>3. \A o \in Op : Classify(o) = "recover" => HasReceipt(o)
      BY DEF Classify
    <3>4. \A o \in Op : Classify(o) = "discard" => RawOf[o] \notin raws
      BY DEF Classify
    <3>5. \A o \in Op : Classify(o) = "done" /\ HasReceipt(o) => RawOf[o] \in raws
      BY DEF Classify
    <3>6. \A o \in Op : Classify(o) = "discard" => o \notin Recorded
      BY <1>0, <3>4, RecordedBacked DEF DataInv
    <3> QED
      BY <2>1, <3>1, <3>2, <3>3, <3>5, <3>6 DEF PlanInv, Recovering, HasReceipt, Recorded
  <2>3. CASE ~RecoveryAccepts
    BY <1>0, <1>3, <2>1, <2>3 DEF Recover, PlanInv, Recovering, HasReceipt, Recorded
  <2> QED
    BY <2>2, <2>3
<1>4. ASSUME NEW o \in Op, Replay(o) PROVE PlanInv'
  BY <1>0, <1>4 DEF Replay, files, PlanInv, Recovering, HasReceipt, Recorded
<1>5. ASSUME NEW o \in Op, Discard(o) PROVE PlanInv'
  BY <1>0, <1>5 DEF Discard, PlanInv, Recovering, HasReceipt, Recorded, TypeOK
<1>6. CASE PublishRaw
  BY <1>0, <1>6 DEF PublishRaw, Goto, PlanInv, Recovering, HasReceipt, Recorded
<1>7. CASE UnlinkPublished
  BY <1>0, <1>7 DEF UnlinkPublished, Goto, PlanInv, Recovering, HasReceipt, Recorded
<1>8. CASE LogReplayed
  <2>1. op \in Op /\ at \in Time /\ RawOf[op] \in raws /\ receipt[op] = at
    BY <1>0, <1>8, NameAssumption DEF LogReplayed, CallInv, TypeOK
  <2>2. manifest' = Added /\ receipt' = receipt /\ raws' = raws
    BY <1>8 DEF LogReplayed
  <2>3. Recorded' = Recorded \union {op}
    BY <1>0, <2>1, <2>2, AddedKeeps DEF DataInv
  <2>4. plan[op] # "discard"
    BY <1>0, <1>8 DEF LogReplayed, PlanInv
  <2> QED
    BY <1>0, <1>8, <2>1, <2>2, <2>3, <2>4 DEF LogReplayed, PlanInv, Recovering, HasReceipt, TypeOK
<1>9. ASSUME NEW o \in Op, Clean(o) PROVE PlanInv'
  BY <1>0, <1>9 DEF Clean, call, PlanInv, Recovering, HasReceipt, Recorded
<1>10. CASE UNCHANGED vars
  BY <1>0, <1>10 DEF vars, files, call, PlanInv, Recovering, HasReceipt, Recorded
<1> QED
  BY <1>2, <1>3, <1>4, <1>5, <1>6, <1>7, <1>8, <1>9, <1>10 DEF Next, RecoveryStep

-----------------------------------------------------------------------------
\* The invariant holds of every behaviour.
THEOREM Invariance == Spec => []Inv
<1>1. Init => Inv
  <2> SUFFICES ASSUME Init PROVE Inv
    OBVIOUS
  <2>1. TypeOK
    <3>1. manifest \in Seq([op : Op, at : Time])
      BY DEF Init
    <3>2. partial \in BOOLEAN
      BY DEF Init
    <3>3. /\ op = NoOp <=> step \in {"idle", "replay"}
          /\ at = NoTime <=> step \in {"idle", "replay"}
      BY DEF Init
    <3>4. /\ receipt \in [Op -> Time \union {NoTime}]
          /\ raws \subseteq {RawOf[o] : o \in Op}
          /\ rawTemp \in [Op -> {"none", "torn", "whole"}]
          /\ receiptTemp \in [Op -> Time \union {"none", "torn"}]
          /\ plan \in [Op -> {"done", "complete", "recover", "discard"}]
      BY DEF Init
    <3>5. /\ step \in Step
          /\ op \in Op \union {NoOp} /\ at \in Time \union {NoTime}
      BY DEF Init, Step
    <3>6. crashes \in 0 .. MaxCrash /\ losses \in 0 .. MaxLoss
      BY BoundAssumption DEF Init
    <3> QED
      BY <3>1, <3>2, <3>3, <3>4, <3>5, <3>6 DEF TypeOK
  <2>2. DataInv /\ CallInv /\ PlanInv
    BY DEF Init, DataInv, CallInv, PlanInv, Recovering, RecordsBacked, HasReceipt
  <2> QED
    BY <2>1, <2>2 DEF Inv
<1>2. Inv /\ [Next]_vars => Inv'
  BY NextTypeOK, NextDataInv, NextCallInv, NextPlanInv DEF Inv
<1> QED
  BY <1>1, <1>2, PTL DEF Spec

\* Types of the files and the call in progress.
THEOREM TypeCorrect == Spec => []TypeOK
<1>1. Inv => TypeOK
  BY DEF Inv
<1> QED
  BY <1>1, Invariance, PTL

\* Every record has its content and a receipt with its time (L763-806).
THEOREM RecordsStayBacked == Spec => []RecordsBacked
<1>1. Inv => RecordsBacked
  BY DEF Inv, DataInv
<1> QED
  BY <1>1, Invariance, PTL

\* load-run accepts what interrupted calls left behind (L754-862).
THEOREM AlwaysOpens == Spec => []LoadAccepts
<1>1. Inv => LoadAccepts
  BY DEF Inv, DataInv, RecordsBacked, LoadAccepts, RecoveryAccepts
<1> QED
  BY <1>1, Invariance, PTL

\* The Evidence Store keeps the ledger (EvidenceLedger).
THEOREM Implements == Spec => ImplementsLedger
<1>1. Init => Ledger!Init
  BY DEF Init, Ledger!Init
<1>2. Inv /\ [Next]_vars => [Ledger!Next]_(Ledger!vars)
  <2> SUFFICES ASSUME Inv, [Next]_vars PROVE Ledger!Next \/ UNCHANGED <<raws, manifest>>
    BY DEF Ledger!vars
  <2>0. TypeOK /\ CallInv
    BY DEF Inv
  <2>1. CASE LinkRaw \/ PublishRaw
    <3>1. op \in Op
      BY <2>0, <2>1 DEF LinkRaw, PublishRaw, TypeOK
    <3>2. Ledger!Store(op)
      BY <2>1 DEF LinkRaw, PublishRaw, Ledger!Store
    <3> QED
      BY <3>1, <3>2 DEF Ledger!Next
  <2>2. CASE AppendRecord \/ LogReplayed
    <3>1. op \in Op /\ at \in Time /\ RawOf[op] \in raws
      BY <2>0, <2>2, NameAssumption DEF AppendRecord, LogReplayed, CallInv, TypeOK
    <3>2. manifest' = Added /\ raws' = raws
      BY <2>2 DEF AppendRecord, LogReplayed
    <3>3. CASE op \in Recorded
      BY <3>2, <3>3 DEF Added
    <3>4. CASE op \notin Recorded
      <4>1. Ledger!AddRecord(op, at)
        BY <3>1, <3>2, <3>4 DEF Added, Recorded, Ledger!AddRecord
      <4> QED
        BY <3>1, <4>1 DEF Ledger!Next
    <3> QED
      BY <3>3, <3>4
  <2>3. CASE UNCHANGED <<raws, manifest>>
    BY <2>3
  <2> QED
    BY <2>1, <2>2, <2>3
    DEF Next, RecordStep, RecoveryStep, vars, files, Start, WriteRawTemp, ReadReceipt,
        WriteReceiptTemp, WriteThrows, LinkReceipt, UnlinkReceipt, UnlinkRaw, AppendThrows,
        Recover, Replay, Discard, PublishThrows, UnlinkPublished, Clean, Recovered, Crash,
        CrashInRawTemp, CrashInReceiptTemp, CrashInLine, LoseTemp
<1> QED
  BY <1>1, <1>2, Invariance, PTL DEF Spec, ImplementsLedger, Ledger!Spec
=============================================================================
