------------------------- MODULE PlanOperationProofs -------------------------
(***************************************************************************)
(* For any Decisions, bounds and interruptions, as long as callers finish  *)
(* what was interrupted before anything else: every intent can be carried  *)
(* through, no call loses what another put into the Manifest, and the Plan *)
(* operations implement one line of Decisions.                             *)
(***************************************************************************)
EXTENDS PlanOperation, TLAPS

Stored == {d \in Decision : based[d] # 0}

\* The Manifest has everything that is stored, and no checkpoint is newer.
Complete(m) == m.refs = documents /\ m.pending = Stored \ m.applied

NoLater(m) == \A c \in checkpoints : c.time <= m.time

Settled == Complete(manifest) /\ NoLater(manifest)

\* A Manifest refers to what is stored.
Honest(m) == m.refs \subseteq documents /\ m.pending \subseteq Stored \ m.applied

AllHonest == Honest(manifest) /\ \A c \in checkpoints : Honest(c)

\* A checkpoint no older than the Manifest has its Plan and its Decisions.
Matching ==
  \A c \in checkpoints :
    c.time >= manifest.time => c.plan = manifest.plan /\ c.applied = manifest.applied

\* There is one, unless an operation is between its Manifest and its checkpoint.
Covered ==
  \/ \E c \in checkpoints : c.time >= manifest.time
  \/ \E r \in Unfinished(manifest) : manifest # r.base

\* A receipt is what transformPlan made of its base.
WellFormed ==
  \A r \in receipts :
    /\ r.decision \notin r.base.applied
    /\ r.result.applied = r.base.applied \union {r.decision}
    /\ r.result.pending = r.base.pending \ {r.decision}
    /\ r.result.refs = r.base.refs
    /\ r.result.time = r.base.time + 1
    /\ r.result.plan = IF r.decision \in Revising THEN r.base.plan + 1 ELSE r.base.plan

\* At most one operation is unfinished, and what is committed of it is either
\* being completed or was interrupted.
OneUnfinished ==
  \A r \in Unfinished(manifest) :
    /\ \A s \in Unfinished(manifest) : r = s
    /\ manifest # r.base => dirty \/ job = r

\* The Manifest is behind what is stored only where a publication or a
\* checkpoint is under way or was interrupted, and then nothing is unfinished.
Settling ==
  \/ Settled
  \/ Unfinished(manifest) = {} /\ (dirty \/ pc \in {"index", "snapshot"})

\* An applied Decision has its receipt.
Receipted == \A d \in manifest.applied : \E r \in receipts : r.decision = d

\* Recovery visits what is unfinished, and nothing is left once an operation is
\* being completed; what it has passed over waits for its replay.
Visited ==
  /\ pc = "recover" => visit \subseteq Unfinished(manifest)
  /\ pc \in Stages => visit = {}
  /\ pc = "recover" /\ call.kind # "apply" =>
       \A r \in Unfinished(manifest) :
         r \in visit \/ (manifest = r.base /\ r.decision \in Revising)

\* After an interruption only an operation that has its receipt is applied.
ApplyResumes ==
  pc = "recover" /\ call.kind = "apply" /\ dirty => Own(call.item) # {}

\* Publications, checkpoints and validate-plan find nothing to recover.
Undisturbed ==
  pc = "recover" /\ call.kind \in {"publish", "checkpoint", "validate"} =>
    /\ Unfinished(manifest) = {} /\ ~dirty /\ visit = {} /\ view = manifest

PublishReady ==
  /\ pc = "recover" /\ call.kind = "publish" =>
       call.item \in Document \union Decision /\ call.item \notin manifest.applied
  /\ pc = "index" =>
       /\ Unfinished(manifest) = {} /\ view = manifest /\ NoLater(manifest)
       /\ call.item \in Document =>
            /\ documents = manifest.refs \union {call.item}
            /\ manifest.pending = Stored \ manifest.applied
       /\ call.item \notin Document =>
            /\ call.item \in Decision \ manifest.applied
            /\ documents = manifest.refs
            /\ manifest.pending \union {call.item} = Stored \ manifest.applied

SnapshotReady ==
  pc = "snapshot" =>
    /\ Unfinished(manifest) = {} /\ Complete(manifest)
    /\ view \in checkpoints /\ NoLater(view) /\ view.time >= manifest.time
    /\ view.refs = manifest.refs /\ view.pending = manifest.pending

\* What precedes the next write of the operation being completed is durable.
JobReady ==
  pc \in Stages =>
    /\ call.kind \in {"apply", "load"}
    /\ \A r \in Unfinished(manifest) : r = job
    /\ pc \in {"controls", "report", "commit"} => manifest = job.base
    /\ pc \in {"checkpoint", "applied", "written"} => manifest = job.result
    /\ pc # "controls" => job.decision \in controls
    /\ pc \notin {"controls", "report"} /\ job.decision \in Closing =>
         job.decision \in reports
    /\ pc \in {"applied", "written"} => job.result \in checkpoints

\* What the types of the next step rest on.
Shape ==
  /\ pc = "report" => job.decision \in Closing
  /\ pc = "written" => job.decision \in applied
  /\ pc = "index" => call.kind = "publish"
  /\ pc = "idle" <=> call.kind = "none"
  /\ call.kind = "publish" => call.item \in Decision \union Document

TypeInv == TypeOK /\ Shape

DiskInv ==
  /\ AllHonest /\ Matching /\ Covered /\ WellFormed /\ Receipted
  /\ Resumable /\ OneUnfinished /\ EventsBacked /\ Settling

CallInv ==
  /\ Visited /\ ApplyResumes /\ Undisturbed
  /\ PublishReady /\ SnapshotReady /\ JobReady

IInv == TypeInv /\ DiskInv /\ CallInv

-----------------------------------------------------------------------------
LEMMA NoReceiptApart == NoReceipt \notin Receipt
<1> SUFFICES ASSUME NoReceipt \in Receipt PROVE FALSE
  OBVIOUS
<1>1. NoReceipt.decision \in Decision
  BY DEF Receipt
<1> QED
  BY <1>1, ConstantAssumption DEF NoReceipt

LEMMA ManifestFields ==
  ASSUME NEW m \in Manifest
  PROVE  /\ m.plan \in Plan /\ m.time \in Time
         /\ m.applied \subseteq Decision /\ m.pending \subseteq Decision
         /\ m.refs \subseteq Document
BY DEF Manifest

LEMMA ReceiptFields ==
  ASSUME NEW r \in Receipt
  PROVE  r.decision \in Decision /\ r.base \in Manifest /\ r.result \in Manifest
BY DEF Receipt

LEMMA FirstManifestType == FirstManifest \in Manifest
BY ConstantAssumption DEF FirstManifest, Manifest, Plan, Time

\* A call that ends leaves no trace in the process.
LEMMA ReturnType ==
  ASSUME TypeOK, Return
  PROVE  /\ pc' = "idle" /\ call' \in Calls /\ view' \in Manifest
         /\ visit' = {} /\ job' = NoReceipt /\ Shape'
BY FirstManifestType DEF Return, Calls, Shape

LEMMA InitTypeInv == Init => TypeInv
<1> SUFFICES ASSUME Init PROVE TypeInv
  OBVIOUS
<1>1. call \in Calls
  BY DEF Init, Calls
<1>2. crashes \in 0 .. MaxCrash /\ based \in [Decision -> {0} \union Plan]
  BY ConstantAssumption DEF Init
<1>3. Shape
  BY DEF Init, Shape
<1> QED
  BY <1>1, <1>2, <1>3, FirstManifestType DEF Init, TypeInv, TypeOK, Stages

LEMMA StartTypeInv == TypeInv /\ Start => TypeInv'
<1> SUFFICES ASSUME TypeInv,
                    NEW kind \in Kind, NEW item \in Decision \union Document \union {None},
                    Begin(kind, item),
                    kind = "publish" => item \in Decision \union Document
             PROVE  TypeInv'
  BY DEF Start, Kind
<1>1. call' \in Calls /\ visit' \subseteq receipts'
  BY DEF Begin, Calls, Unfinished, disk
<1>2. TypeOK'
  BY <1>1 DEF Begin, TypeInv, TypeOK, Stages, Idle, disk
<1>3. Shape'
  BY DEF Begin, Shape, Kind
<1> QED
  BY <1>2, <1>3 DEF TypeInv

LEMMA DecideTypeInv == TypeInv /\ Decide => TypeInv'
<1> SUFFICES ASSUME TypeInv, Decide PROVE TypeInv'
  OBVIOUS
<1> USE DEF TypeInv, TypeOK, disk, Stages
<1>1. ASSUME NEW r \in receipts, Pass(r) PROVE TypeInv'
  BY <1>1 DEF Pass, Visiting, Shape
<1>2. ASSUME NEW r \in receipts, Resume(r) \/ Replay(r) PROVE TypeInv'
  <2>1. job' = r /\ job' # NoReceipt /\ pc' \in {"checkpoint", "controls"}
    BY <1>2, NoReceiptApart DEF Resume, Replay, CompleteFrom
  <2> QED
    BY <1>2, <2>1 DEF Resume, Replay, Visiting, Recovered, Shape
<1>3. ASSUME Return, UNCHANGED <<disk, dirty, crashes>> PROVE TypeInv'
  BY <1>3, ReturnType
<1> QED
  BY <1>1, <1>2, <1>3 DEF Decide, Refuse, EndApply, EndCall

\* A write of the operation being completed names a Decision with a receipt.
LEMMA JobType ==
  ASSUME TypeOK, pc \in Stages
  PROVE  job \in receipts /\ job \in Receipt /\ job # NoReceipt
BY DEF TypeOK

LEMMA WriteTypeInv == TypeInv /\ Write => TypeInv'
<1> SUFFICES ASSUME TypeOK, Shape, Write PROVE TypeOK' /\ Shape'
  BY DEF TypeInv
<1> USE DEF Stages
<1>1. ASSUME NEW d \in Decision, PublishIntent(d) PROVE TypeOK' /\ Shape'
  <2>1. NewReceipt(d) \in Receipt
    BY <1>1 DEF PublishIntent, NewReceipt, Receipt, TypeOK
  <2> QED
    BY <1>1, <2>1, NoReceiptApart DEF PublishIntent, Recovered, TypeOK, Shape
<1>2. CASE PublishControls \/ PublishReport \/ Commit \/ PublishCheckpoint \/ AppendApplied
  <2>1. pc \in Stages
    BY <1>2 DEF PublishControls, PublishReport, Commit, PublishCheckpoint, AppendApplied
  <2>2. job.decision \in Decision /\ job.result \in Manifest
    BY <2>1, JobType, ReceiptFields
  <2>3. TypeOK'
    BY <1>2, <2>1, <2>2
    DEF PublishControls, PublishReport, Commit, PublishCheckpoint, AppendApplied, TypeOK, Shape
  <2>4. Shape'
    BY <1>2 DEF PublishControls, PublishReport, Commit, PublishCheckpoint, AppendApplied, Shape
  <2> QED
    BY <2>3, <2>4
<1>3. CASE AppendWritten
  <2>1. pc = "written" /\ job.decision \in applied
    BY <1>3 DEF AppendWritten, Shape
  <2>2. CASE Return
    BY <1>3, <2>1, <2>2, ReturnType DEF AppendWritten, TypeOK
  <2>3. CASE ~Return
    BY <1>3, <2>1, <2>3 DEF AppendWritten, TypeOK, Shape
  <2> QED
    BY <2>2, <2>3
<1>4. CASE StoreItem
  <2>1. view.plan \in Plan
    BY ManifestFields DEF TypeOK
  <2> QED
    BY <1>4, <2>1 DEF StoreItem, Recovered, TypeOK, Shape
<1>5. CASE IndexItem
  <2>1. call.item \in Decision \union Document
    BY <1>5 DEF IndexItem, Shape
  <2>2. manifest' \in Manifest
    BY <1>5, <2>1 DEF IndexItem, TypeOK, Manifest
  <2> QED
    BY <1>5, <2>2, ReturnType DEF IndexItem, TypeOK
<1>6. CASE StoreSnapshot
  BY <1>6 DEF StoreSnapshot, Recovered, TypeOK, Shape
<1>7. CASE IndexSnapshot
  BY <1>7, ReturnType DEF IndexSnapshot, TypeOK
<1>8. CASE Restore
  <2>1. PICK c \in checkpoints : manifest' = Restored(c)
    BY <1>8 DEF Restore, Latest
  <2>2. Restored(c) \in Manifest
    BY DEF TypeOK, Restored, Manifest
  <2> QED
    BY <1>8, <2>1, <2>2, ReturnType DEF Restore, TypeOK
<1> QED
  BY <1>1, <1>2, <1>3, <1>4, <1>5, <1>6, <1>7, <1>8 DEF Write

LEMMA NextTypeInv == TypeInv /\ [Next]_vars => TypeInv'
<1> SUFFICES ASSUME TypeInv, [Next]_vars PROVE TypeInv'
  OBVIOUS
<1>1. CASE Crash
  <2>1. crashes' \in 0 .. MaxCrash
    BY <1>1, ConstantAssumption DEF Crash, TypeInv, TypeOK
  <2> QED
    BY <1>1, <2>1, ReturnType DEF Crash, TypeInv, TypeOK, disk, Stages
<1>2. CASE UNCHANGED vars
  BY <1>2 DEF vars, disk, process, TypeInv, TypeOK, Shape, Stages
<1> QED
  BY <1>1, <1>2, StartTypeInv, DecideTypeInv, WriteTypeInv DEF Next

-----------------------------------------------------------------------------
\* Nothing durable disappears.
LogsGrow ==
  /\ controls \subseteq controls' /\ reports \subseteq reports'
  /\ checkpoints \subseteq checkpoints'
  /\ applied \subseteq applied' /\ written \subseteq written'

\* The Manifest keeps its Plan and its Decisions.
Advances ==
  /\ manifest.plan <= manifest'.plan
  /\ manifest.applied \subseteq manifest'.applied
  /\ manifest'.pending \intersect manifest.applied = {}

\* A finished operation stays finished.
LEMMA FinishedStays ==
  ASSUME TypeOK, TypeOK', LogsGrow, Advances, receipts' = receipts
  PROVE  Unfinished(manifest)' \subseteq Unfinished(manifest)
<1> SUFFICES ASSUME NEW r \in receipts, Durable(r, manifest) PROVE Durable(r, manifest)'
  BY DEF Unfinished
<1>1. r.result.plan \in Nat /\ manifest.plan \in Nat /\ manifest'.plan \in Nat
  BY ReceiptFields, ManifestFields, ConstantAssumption DEF TypeOK, Plan
<1> QED
  BY <1>1 DEF LogsGrow, Advances, Durable, Recorded

LEMMA InitIInv == Init => IInv
<1> SUFFICES ASSUME Init PROVE DiskInv /\ CallInv
  BY InitTypeInv DEF IInv
<1>1. Unfinished(manifest) = {}
  BY DEF Init, Unfinished
<1>2. AllHonest /\ Matching /\ Covered /\ Settling
  <2>1. FirstManifest.time = 0 /\ Stored = {}
    BY DEF Init, FirstManifest, Stored
  <2> QED
    BY <2>1 DEF Init, FirstManifest, AllHonest, Honest, Matching, Covered, Settling, Settled,
                Complete, NoLater
<1>3. WellFormed /\ Receipted /\ Resumable /\ OneUnfinished /\ EventsBacked
  BY <1>1 DEF Init, FirstManifest, WellFormed, Receipted, Resumable, OneUnfinished, EventsBacked
<1>4. CallInv
  BY DEF Init, CallInv, Visited, ApplyResumes, Undisturbed, PublishReady, SnapshotReady,
         JobReady, Stages
<1> QED
  BY <1>2, <1>3, <1>4 DEF DiskInv

-----------------------------------------------------------------------------
(* Steps that write nothing: calls begin, decide, end and die.             *)

\* They disturb only what the process and the interruption flag decide.
LEMMA QuietDisk ==
  ASSUME IInv, UNCHANGED disk,
         dirty => dirty', job # NoReceipt => dirty' \/ job' = job,
         pc \in {"index", "snapshot"} => pc' = pc \/ dirty' \/ Settled
  PROVE  DiskInv'
<1> USE DEF IInv
<1>1. /\ manifest' = manifest /\ based' = based /\ documents' = documents
      /\ receipts' = receipts /\ controls' = controls /\ reports' = reports
      /\ checkpoints' = checkpoints /\ applied' = applied /\ written' = written
  BY DEF disk
<1>2. AllHonest' /\ Matching' /\ Covered' /\ WellFormed' /\ Receipted' /\ Resumable'
      /\ EventsBacked'
  BY <1>1 DEF DiskInv, AllHonest, Honest, Stored, Matching, Covered, Unfinished, Durable,
              Recorded, WellFormed, Receipted, Resumable, Conflicts, EventsBacked
<1>3. Unfinished(manifest)' = Unfinished(manifest) /\ (Settled' <=> Settled)
  BY <1>1 DEF Unfinished, Durable, Recorded, Settled, Complete, NoLater, Stored
<1>4. OneUnfinished'
  <2> SUFFICES ASSUME NEW r \in Unfinished(manifest), manifest # r.base
               PROVE  dirty' \/ job' = r
    BY <1>1, <1>3 DEF DiskInv, OneUnfinished
  <2>1. dirty \/ job = r
    BY DEF DiskInv, OneUnfinished
  <2>2. r # NoReceipt
    BY NoReceiptApart DEF Unfinished, TypeInv, TypeOK
  <2> QED
    BY <2>1, <2>2
<1>5. Settling'
  BY <1>1, <1>3 DEF DiskInv, Settling
<1> QED
  BY <1>2, <1>4, <1>5 DEF DiskInv

\* Outside the two publications under way, what is behind was interrupted.
LEMMA IdleSettled ==
  ASSUME DiskInv, pc \notin {"index", "snapshot"}, ~dirty
  PROVE  Settled
BY DEF DiskInv, Settling

LEMMA StartIInv == IInv /\ ResumeFirst /\ Start => DiskInv' /\ CallInv'
<1> SUFFICES ASSUME IInv, ResumeFirst,
                    NEW kind \in Kind, NEW item \in Decision \union Document \union {None},
                    Begin(kind, item),
                    kind \in {"apply", "publish"} => item \in Decision \union Document
             PROVE  DiskInv' /\ CallInv'
  BY DEF Start, Kind
<1> USE DEF IInv, Begin, Idle
<1>1. DiskInv'
  BY QuietDisk
<1>2. Unfinished(manifest)' = Unfinished(manifest) /\ manifest' = manifest
  BY DEF disk, Unfinished, Durable, Recorded
<1>3. Visited'
  BY <1>2 DEF Visited, Stages
<1>4. ApplyResumes'
  BY DEF ApplyResumes, MayStart, Unfinished, Own, disk
<1>5. Undisturbed'
  BY <1>2 DEF Undisturbed, MayStart, Kind
<1>6. PublishReady'
  <2>1. ASSUME kind = "publish" PROVE item \notin manifest.applied
    BY <2>1, ConstantAssumption, ManifestFields DEF Publishable, TypeInv, TypeOK
  <2> QED
    BY <1>2, <2>1 DEF PublishReady
<1>7. SnapshotReady' /\ JobReady'
  BY DEF SnapshotReady, JobReady, Stages
<1> QED
  BY <1>1, <1>3, <1>4, <1>5, <1>6, <1>7 DEF CallInv

LEMMA ReturnIInv ==
  ASSUME IInv, Return, UNCHANGED disk, dirty => dirty',
         (pc = "recover" /\ dirty' = dirty) \/ dirty'
  PROVE  DiskInv' /\ CallInv'
<1>1. DiskInv'
  <2>1. pc = "recover" => job = NoReceipt
    BY DEF IInv, TypeInv, TypeOK, Stages
  <2> QED
    BY <2>1, QuietDisk
<1>2. CallInv'
  <2>1. pc' = "idle"
    BY DEF Return
  <2> QED
    BY <2>1 DEF CallInv, Visited, ApplyResumes, Undisturbed, PublishReady, SnapshotReady,
                JobReady, Stages
<1> QED
  BY <1>1, <1>2

\* Recovery passes over an operation that its replay has to carry through.
LEMMA PassIInv ==
  ASSUME IInv, NEW r \in receipts, Pass(r)
  PROVE  DiskInv' /\ CallInv'
<1> USE DEF IInv, Pass, Visiting
<1>1. DiskInv'
  BY QuietDisk
<1>2. Unfinished(manifest)' = Unfinished(manifest) /\ manifest' = manifest
  BY DEF disk, Unfinished, Durable, Recorded
<1>3. call.kind # "apply" => manifest = r.base /\ r.decision \in Revising
  <2>1. r.decision \notin Revising => r.result.plan = r.base.plan
    BY DEF DiskInv, WellFormed
  <2> QED
    BY <2>1
<1>4. Visited'
  BY <1>2, <1>3 DEF CallInv, Visited, Stages
<1>5. ApplyResumes' /\ Undisturbed' /\ PublishReady' /\ SnapshotReady' /\ JobReady'
  BY <1>2 DEF CallInv, ApplyResumes, Undisturbed, PublishReady, SnapshotReady, JobReady,
              Stages, Own, disk
<1> QED
  BY <1>1, <1>4, <1>5 DEF CallInv

\* An unfinished operation is taken up at the write its Manifest calls for.
LEMMA TakeUpIInv ==
  ASSUME IInv, NEW r \in Unfinished(manifest), CompleteFrom(r), pc = "recover",
         visit' = {}, call.kind \in {"apply", "load"},
         UNCHANGED <<disk, call, dirty, crashes>>
  PROVE  DiskInv' /\ CallInv'
<1> USE DEF IInv, CompleteFrom
<1>1. DiskInv'
  <2>1. job = NoReceipt
    BY DEF TypeInv, TypeOK, Stages
  <2> QED
    BY <2>1, QuietDisk
<1>2. Unfinished(manifest)' = Unfinished(manifest) /\ manifest' = manifest
      /\ controls' = controls /\ reports' = reports
  BY DEF disk, Unfinished, Durable, Recorded
<1>3. JobReady'
  <2>1. \A s \in Unfinished(manifest) : s = r
    BY DEF DiskInv, OneUnfinished
  <2>2. pc' = "controls" => manifest = r.base
    BY DEF Conflicts
  <2>3. pc' = "checkpoint" =>
          /\ manifest = r.result /\ r.decision \in controls
          /\ r.decision \in Closing => r.decision \in reports
    <3>1. r \in receipts
      BY DEF Unfinished
    <3>2. r.result.time = r.base.time + 1 /\ r.base.time \in Nat
      BY <3>1, ReceiptFields, ManifestFields, ConstantAssumption
      DEF DiskInv, WellFormed, TypeInv, TypeOK, Time
    <3>3. r.result # r.base
      BY <3>2
    <3> QED
      BY <3>3 DEF Conflicts
  <2> QED
    BY <1>2, <2>1, <2>2, <2>3 DEF JobReady, Stages
<1>4. Visited' /\ ApplyResumes' /\ Undisturbed' /\ PublishReady' /\ SnapshotReady'
  BY DEF Visited, ApplyResumes, Undisturbed, PublishReady, SnapshotReady
<1> QED
  BY <1>1, <1>3, <1>4 DEF CallInv

LEMMA DecideIInv == IInv /\ Decide => DiskInv' /\ CallInv'
<1> SUFFICES ASSUME IInv, Decide PROVE DiskInv' /\ CallInv'
  OBVIOUS
<1>1. ASSUME NEW r \in receipts, Pass(r) PROVE DiskInv' /\ CallInv'
  BY <1>1, PassIInv
<1>2. ASSUME NEW r \in receipts, Resume(r) PROVE DiskInv' /\ CallInv'
  <2>1. r \in Unfinished(manifest) /\ visit' = {}
    BY <1>2 DEF Resume, Visiting, IInv, CallInv, Visited, DiskInv, OneUnfinished
  <2>2. call.kind = "load"
    BY <1>2 DEF Resume, Visiting, IInv, CallInv, Undisturbed, TypeInv, TypeOK, Shape, Calls,
                Kind
  <2> QED
    BY <1>2, <2>1, <2>2, TakeUpIInv DEF Resume, Visiting
<1>3. ASSUME NEW r \in receipts, Replay(r) PROVE DiskInv' /\ CallInv'
  <2>1. r \in Unfinished(manifest)
    BY <1>3 DEF Replay, Unfinished
  <2> QED
    BY <1>3, <2>1, TakeUpIInv DEF Replay, Recovered
<1>4. ASSUME NEW r \in receipts, Refuse(r) PROVE DiskInv' /\ CallInv'
  BY <1>4, ReturnIInv DEF Refuse, Visiting
<1>5. CASE EndApply \/ EndCall
  BY <1>5, ReturnIInv DEF EndApply, EndCall, Recovered
<1> QED
  BY <1>1, <1>2, <1>3, <1>4, <1>5 DEF Decide

LEMMA CrashIInv == IInv /\ Crash => DiskInv' /\ CallInv'
BY ReturnIInv DEF Crash

-----------------------------------------------------------------------------
(* The writes of one operation.                                            *)

\* A new intent finds everything settled: what is unfinished would stand in its
\* way or have been interrupted, and then only its own replay may start.
LEMMA IntentAlone ==
  ASSUME IInv, NEW d \in Decision, PublishIntent(d)
  PROVE  Unfinished(manifest) = {} /\ ~dirty /\ Settled
<1> USE DEF IInv, PublishIntent, Recovered
<1>1. ~dirty
  BY DEF CallInv, ApplyResumes
<1>2. Unfinished(manifest) = {}
  <2> SUFFICES ASSUME NEW r \in Unfinished(manifest) PROVE FALSE
    OBVIOUS
  <2>1. r \in receipts /\ ~Durable(r, manifest)
    BY DEF Unfinished
  <2>2. job # r
    BY <2>1, NoReceiptApart DEF TypeInv, TypeOK, Stages
  <2>3. manifest = r.base
    BY <1>1, <2>2 DEF DiskInv, OneUnfinished
  <2>4. r \notin Own(d)
    OBVIOUS
  <2> QED
    BY <2>1, <2>3, <2>4 DEF NoOtherPending
<1> QED
  BY <1>1, <1>2, IdleSettled

LEMMA IntentIInv ==
  ASSUME IInv, NEW d \in Decision, PublishIntent(d), TypeOK'
  PROVE  DiskInv' /\ CallInv'
<1> USE DEF IInv, PublishIntent
<1>0. PICK r : r = NewReceipt(d)
  OBVIOUS
<1>1. Unfinished(manifest) = {} /\ Settled
  BY IntentAlone
<1>2. \A s \in receipts : Durable(s, manifest) /\ Durable(s, manifest)'
  BY <1>1 DEF Unfinished, Durable, Recorded
<1>3. r.decision = d /\ r.base = manifest /\ r.result = Result(d) /\ ~Durable(r, manifest)'
  BY <1>0 DEF NewReceipt, Durable
<1>4. Unfinished(manifest)' = {r}
  <2>1. receipts' = receipts \union {r}
    BY <1>0
  <2> QED
    BY <1>2, <1>3, <2>1 DEF Unfinished
<1>5. AllHonest' /\ Matching' /\ EventsBacked' /\ Receipted'
  BY DEF DiskInv, AllHonest, Honest, Stored, Matching, EventsBacked, Receipted
<1>6. Covered'
  BY <1>1 DEF DiskInv, Covered
<1>7. WellFormed'
  <2>1. /\ r.result.applied = manifest.applied \union {d}
        /\ r.result.pending = manifest.pending \ {d}
        /\ r.result.refs = manifest.refs
        /\ r.result.time = manifest.time + 1
        /\ r.result.plan = IF d \in Revising THEN manifest.plan + 1 ELSE manifest.plan
    BY <1>3 DEF Result, Manifest, TypeInv, TypeOK
  <2> QED
    BY <1>0, <1>3, <2>1 DEF DiskInv, WellFormed
<1>8. Resumable' /\ OneUnfinished'
  BY <1>0, <1>2, <1>3, <1>4 DEF Resumable, OneUnfinished
<1>9. Settling'
  BY <1>1 DEF Settling, Settled, Complete, NoLater, Stored
<1>10. JobReady'
  BY <1>0, <1>3, <1>4 DEF JobReady, Recovered, Stages
<1>11. Visited' /\ ApplyResumes' /\ Undisturbed' /\ PublishReady' /\ SnapshotReady'
  BY DEF Recovered, Visited, ApplyResumes, Undisturbed, PublishReady, SnapshotReady, Stages
<1> QED
  BY <1>5, <1>6, <1>7, <1>8, <1>9, <1>10, <1>11 DEF DiskInv, CallInv

\* While an operation is being completed no call prepares anything else.
LEMMA JobCallInv ==
  ASSUME Visited, pc \in Stages, pc' \in Stages, visit' = visit, JobReady'
  PROVE  CallInv'
BY DEF CallInv, Visited, ApplyResumes, Undisturbed, PublishReady, SnapshotReady, Stages

\* A write that only adds to the Artifacts and logs.
LEMMA GrowIInv ==
  ASSUME IInv, pc \in Stages, LogsGrow,
         UNCHANGED <<manifest, based, documents, receipts, dirty, job>>,
         TypeOK', Honest(manifest)' => AllHonest', Matching', NoLater(manifest) => NoLater(manifest)',
         pc \in {"checkpoint", "applied", "written"} => \E c \in checkpoints' : c.time >= manifest.time,
         EventsBacked'
  PROVE  DiskInv'
<1> USE DEF IInv
<1>1. Unfinished(manifest)' \subseteq Unfinished(manifest)
  <2>1. Advances
    BY ManifestFields, ConstantAssumption
    DEF Advances, DiskInv, AllHonest, Honest, TypeInv, TypeOK, Plan
  <2> QED
    BY <2>1, FinishedStays DEF TypeInv
<1>2. AllHonest'
  BY DEF DiskInv, AllHonest, Honest, Stored
<1>3. Covered'
  <2>1. pc \in {"controls", "report", "commit"} =>
          \A r \in Unfinished(manifest) : manifest = r.base
    BY DEF CallInv, JobReady
  <2> QED
    BY <2>1 DEF DiskInv, Covered, LogsGrow, Stages
<1>4. WellFormed' /\ Receipted'
  BY DEF DiskInv, WellFormed, Receipted
<1>5. Resumable'
  <2> SUFFICES ASSUME NEW r \in receipts
               PROVE  \/ manifest = r.base
                      \/ Durable(r, manifest)'
                      \/ manifest = r.result /\ ~Conflicts(r)'
    BY DEF Resumable
  <2>1. CASE Durable(r, manifest)
    BY <1>1, <2>1 DEF Unfinished
  <2>2. CASE ~Durable(r, manifest)
    BY <2>2 DEF DiskInv, Resumable, Conflicts, LogsGrow
  <2> QED
    BY <2>1, <2>2
<1>6. OneUnfinished'
  BY <1>1 DEF DiskInv, OneUnfinished
<1>7. Settling'
  <2>1. Settled => Settled'
    BY DEF Settled, Complete, NoLater, Stored
  <2> QED
    BY <1>1, <2>1 DEF DiskInv, Settling, Stages
<1> QED
  BY <1>2, <1>3, <1>4, <1>5, <1>6, <1>7 DEF DiskInv

LEMMA ControlsIInv ==
  ASSUME IInv, TypeOK', PublishControls \/ PublishReport
  PROVE  DiskInv' /\ CallInv'
<1> USE DEF IInv, PublishControls, PublishReport
<1>1. pc \in {"controls", "report"} /\ pc' \in {"report", "commit"}
  OBVIOUS
<1>2. LogsGrow
  BY DEF LogsGrow
<1>3. EventsBacked'
  BY DEF DiskInv, EventsBacked
<1>4. DiskInv'
  BY <1>1, <1>2, <1>3, GrowIInv DEF Stages, DiskInv, AllHonest, Honest, Stored, Matching, NoLater
<1>5. Unfinished(manifest)' \subseteq Unfinished(manifest)
  BY <1>2, FinishedStays, ManifestFields, ConstantAssumption
  DEF Advances, DiskInv, AllHonest, Honest, TypeInv, TypeOK, Plan
<1>6. JobReady'
  BY <1>1, <1>5 DEF CallInv, JobReady, Stages
<1> QED
  BY <1>1, <1>4, <1>6, JobCallInv DEF CallInv, Stages

\* The Manifest moves from the base of the receipt to its result.
LEMMA CommitIInv ==
  ASSUME IInv, TypeOK', Commit
  PROVE  DiskInv' /\ CallInv'
<1> USE DEF IInv, Commit
<1> DEFINE d == job.decision
<1>1. /\ job \in receipts /\ manifest = job.base /\ manifest' = job.result
      /\ d \in controls /\ (d \in Closing => d \in reports)
      /\ \A r \in Unfinished(manifest) : r = job
  BY JobType DEF CallInv, JobReady, Stages, TypeInv
<1>2. /\ d \notin manifest.applied
      /\ manifest'.applied = manifest.applied \union {d}
      /\ manifest'.pending = manifest.pending \ {d}
      /\ manifest'.refs = manifest.refs
      /\ manifest'.time = manifest.time + 1
      /\ manifest'.plan = IF d \in Revising THEN manifest.plan + 1 ELSE manifest.plan
  BY <1>1 DEF DiskInv, WellFormed
<1>3. manifest.time \in Nat /\ manifest.plan \in Nat
  BY ManifestFields, ConstantAssumption DEF TypeInv, TypeOK, Time, Plan
<1>4. job \in Unfinished(manifest)
  BY <1>1, <1>2 DEF Unfinished, Durable
<1>5. Settled
  BY <1>4 DEF DiskInv, Settling
<1>6. \A c \in checkpoints : c.time \in Nat /\ c.time < manifest'.time
  <2>1. \A c \in checkpoints : c.time \in Nat
    BY ManifestFields, ConstantAssumption DEF TypeInv, TypeOK, Time
  <2> QED
    BY <1>2, <1>3, <1>5, <2>1 DEF Settled, NoLater
<1>7. manifest'.pending \intersect manifest.applied = {}
  BY <1>2 DEF DiskInv, AllHonest, Honest
<1>8. Unfinished(manifest)' \subseteq Unfinished(manifest)
  BY <1>2, <1>3, <1>7, FinishedStays DEF LogsGrow, Advances, TypeInv
<1>9. job \in Unfinished(manifest)' /\ manifest' # job.base
  <2>1. manifest' \notin checkpoints
    BY <1>3, <1>6
  <2> QED
    BY <1>1, <1>2, <1>3, <2>1 DEF Unfinished, Durable, Recorded
<1>10. AllHonest'
  <2>1. Honest(manifest)'
    BY <1>2 DEF DiskInv, AllHonest, Honest, Stored
  <2> QED
    BY <2>1 DEF DiskInv, AllHonest, Honest, Stored
<1>11. Matching'
  BY <1>2, <1>3, <1>6 DEF Matching
<1>12. Covered'
  BY <1>9 DEF Covered
<1>13. WellFormed'
  BY DEF DiskInv, WellFormed
<1>14. Receipted'
  BY <1>1, <1>2 DEF DiskInv, Receipted
<1>15. Resumable'
  <2> SUFFICES ASSUME NEW r \in receipts
               PROVE  Durable(r, manifest)' \/ (manifest' = r.result /\ ~Conflicts(r)')
    BY DEF Resumable
  <2>1. CASE r = job
    BY <1>1, <2>1 DEF Conflicts
  <2>2. CASE r # job
    BY <1>1, <1>8, <2>2 DEF Unfinished
  <2> QED
    BY <2>1, <2>2
<1>16. OneUnfinished'
  BY <1>1, <1>8 DEF OneUnfinished
<1>17. EventsBacked'
  BY <1>2 DEF DiskInv, EventsBacked
<1>18. Settling'
  <2>1. Complete(manifest)'
    BY <1>2, <1>5 DEF Settled, Complete, Stored
  <2>2. NoLater(manifest)'
    BY <1>2, <1>3, <1>6 DEF NoLater
  <2> QED
    BY <2>1, <2>2 DEF Settling, Settled
<1>19. JobReady'
  BY <1>1, <1>8 DEF CallInv, JobReady, Stages
<1>20. CallInv'
  BY <1>19, JobCallInv DEF CallInv, Stages
<1> QED
  BY <1>10, <1>11, <1>12, <1>13, <1>14, <1>15, <1>16, <1>17, <1>18, <1>20 DEF DiskInv

\* The Manifest is on disk; now it has a checkpoint.
LEMMA CheckpointIInv ==
  ASSUME IInv, TypeOK', PublishCheckpoint
  PROVE  DiskInv' /\ CallInv'
<1> USE DEF IInv, PublishCheckpoint
<1>1. manifest = job.result /\ manifest.time \in Nat
  BY ManifestFields, ConstantAssumption DEF CallInv, JobReady, Stages, TypeInv, TypeOK, Time
<1>2. LogsGrow
  BY DEF LogsGrow
<1>3. Matching' /\ (NoLater(manifest) => NoLater(manifest)') /\ (Honest(manifest)' => AllHonest')
  BY <1>1 DEF DiskInv, Matching, NoLater, AllHonest, Honest, Stored
<1>4. EventsBacked'
  BY DEF DiskInv, EventsBacked
<1>5. DiskInv'
  BY <1>1, <1>2, <1>3, <1>4, GrowIInv DEF Stages
<1>6. Unfinished(manifest)' \subseteq Unfinished(manifest)
  BY <1>2, FinishedStays, ManifestFields, ConstantAssumption
  DEF Advances, DiskInv, AllHonest, Honest, TypeInv, TypeOK, Plan
<1>7. JobReady'
  BY <1>6 DEF CallInv, JobReady, Stages
<1> QED
  BY <1>5, <1>7, JobCallInv DEF CallInv, Stages

\* The Event of a Decision follows all it speaks of.
LEMMA AppliedIInv ==
  ASSUME IInv, TypeOK', AppendApplied
  PROVE  DiskInv' /\ CallInv'
<1> USE DEF IInv, AppendApplied
<1>1. /\ job \in receipts /\ manifest = job.result /\ job.result \in checkpoints
      /\ job.decision \in controls
      /\ job.decision \in Closing => job.decision \in reports
      /\ manifest.time \in Nat
  BY JobType, ManifestFields, ConstantAssumption
  DEF CallInv, JobReady, Stages, TypeInv, TypeOK, Time
<1>2. LogsGrow
  BY DEF LogsGrow
<1>3. EventsBacked'
  BY <1>1 DEF DiskInv, WellFormed, EventsBacked
<1>4. DiskInv'
  BY <1>1, <1>2, <1>3, GrowIInv DEF Stages, DiskInv, AllHonest, Honest, Stored, Matching, NoLater
<1>5. Unfinished(manifest)' \subseteq Unfinished(manifest)
  BY <1>2, FinishedStays, ManifestFields, ConstantAssumption
  DEF Advances, DiskInv, AllHonest, Honest, TypeInv, TypeOK, Plan
<1>6. JobReady'
  BY <1>5 DEF CallInv, JobReady, Stages
<1> QED
  BY <1>4, <1>6, JobCallInv DEF CallInv, Stages

\* The last Event finishes the operation.
LEMMA WrittenIInv ==
  ASSUME IInv, TypeOK', AppendWritten
  PROVE  DiskInv' /\ CallInv' /\ Unfinished(manifest)' = {}
<1> USE DEF IInv, AppendWritten
<1>1. PICK r \in receipts : r = job
  BY JobType DEF Stages, TypeInv
<1>2. /\ manifest = r.result /\ r.result \in checkpoints
      /\ r.decision \in controls /\ r.decision \in applied
      /\ r.decision \in Closing => r.decision \in reports
      /\ \A s \in Unfinished(manifest) : s = r
      /\ manifest.time \in Nat /\ manifest.plan \in Nat
  BY <1>1, ManifestFields, ConstantAssumption
  DEF CallInv, JobReady, Stages, TypeInv, TypeOK, Time, Plan, Shape
<1>3. LogsGrow
  BY DEF LogsGrow
<1>4. Unfinished(manifest)' \subseteq Unfinished(manifest)
  BY <1>3, FinishedStays, ManifestFields, ConstantAssumption
  DEF Advances, DiskInv, AllHonest, Honest, TypeInv, TypeOK, Plan
<1>5. Unfinished(manifest)' = {}
  <2>1. r.decision \in manifest.applied \ manifest.pending
    BY <1>2 DEF DiskInv, WellFormed
  <2>2. Durable(r, manifest)'
    BY <1>1, <1>2, <2>1 DEF Durable, Recorded
  <2> QED
    BY <1>2, <1>4, <2>2 DEF Unfinished
<1>6. AllHonest' /\ Matching' /\ WellFormed' /\ Receipted' /\ EventsBacked'
  BY DEF DiskInv, AllHonest, Honest, Stored, Matching, WellFormed, Receipted, EventsBacked
<1>7. Covered'
  BY <1>2 DEF Covered
<1>8. Resumable' /\ OneUnfinished'
  BY <1>5 DEF Resumable, OneUnfinished, Unfinished
<1>9. Settling'
  BY <1>5 DEF DiskInv, Settling, Settled, Complete, NoLater, Stored
<1>10. CallInv'
  BY <1>5 DEF CallInv, JobReady, Visited, ApplyResumes, Undisturbed, PublishReady,
              SnapshotReady, Stages, Return
<1> QED
  BY <1>5, <1>6, <1>7, <1>8, <1>9, <1>10 DEF DiskInv

-----------------------------------------------------------------------------
(* The writes of the other calls.                                          *)

\* The Plan and its Decisions stay, and nothing published is dropped.
Steady ==
  /\ manifest'.plan = manifest.plan /\ manifest'.applied = manifest.applied
  /\ manifest.refs \subseteq manifest'.refs
  /\ manifest.pending \subseteq manifest'.pending

\* Publications and checkpoints find everything settled.
LEMMA CallFindsSettled ==
  ASSUME IInv, Recovered("publish") \/ Recovered("checkpoint")
  PROVE  Unfinished(manifest) = {} /\ ~dirty /\ view = manifest /\ Settled
<1>1. Unfinished(manifest) = {} /\ ~dirty /\ view = manifest
  BY DEF IInv, CallInv, Undisturbed, Recovered
<1> QED
  BY <1>1, IdleSettled DEF IInv, Recovered

LEMMA StoreItemIInv ==
  ASSUME IInv, TypeOK', StoreItem
  PROVE  DiskInv' /\ CallInv'
<1> USE DEF IInv, StoreItem
<1>1. Unfinished(manifest) = {} /\ ~dirty /\ view = manifest /\ Settled
  BY CallFindsSettled
<1>2. /\ call.item \in Document \union Decision /\ call.item \notin manifest.applied
      /\ view.plan \in Nat /\ view.plan # 0
  BY ManifestFields, ConstantAssumption
  DEF CallInv, PublishReady, Recovered, TypeInv, TypeOK, Plan
<1>3. Unfinished(manifest)' = {}
  BY <1>1 DEF Unfinished, Durable, Recorded
<1>4. /\ call.item \in Document => Stored' = Stored /\ documents' = documents \union {call.item}
      /\ call.item \notin Document => Stored' = Stored \union {call.item} /\ documents' = documents
  BY <1>2 DEF Stored, TypeInv, TypeOK
<1>5. AllHonest'
  BY <1>4 DEF DiskInv, AllHonest, Honest
<1>6. Matching' /\ WellFormed' /\ Receipted' /\ EventsBacked'
  BY DEF DiskInv, Matching, WellFormed, Receipted, EventsBacked
<1>7. Covered'
  BY <1>1 DEF DiskInv, Covered
<1>8. Resumable' /\ OneUnfinished' /\ Settling'
  BY <1>3 DEF Resumable, OneUnfinished, Unfinished, Settling
<1>9. PublishReady'
  BY <1>1, <1>2, <1>3, <1>4 DEF PublishReady, Settled, Complete, NoLater
<1>10. Visited' /\ ApplyResumes' /\ Undisturbed' /\ SnapshotReady' /\ JobReady'
  BY DEF Visited, ApplyResumes, Undisturbed, SnapshotReady, JobReady, Stages
<1> QED
  BY <1>5, <1>6, <1>7, <1>8, <1>9, <1>10 DEF DiskInv, CallInv

\* A call that ends has prepared nothing.
LEMMA IdleCallInv == Return => CallInv'
BY DEF Return, CallInv, Visited, ApplyResumes, Undisturbed, PublishReady, SnapshotReady,
       JobReady, Stages

\* A new Manifest that is complete, with the Plan and the Decisions of the old.
LEMMA MoveIInv ==
  ASSUME IInv, TypeOK', Return, Steady, Complete(manifest)', NoLater(manifest)',
         manifest.time <= manifest'.time,
         UNCHANGED <<based, documents, receipts, controls, reports, checkpoints, applied, written>>,
         \E c \in checkpoints : c.time >= manifest'.time,
         \A r \in Unfinished(manifest) : manifest' = r.base
  PROVE  DiskInv' /\ CallInv'
<1> USE DEF IInv, Steady
<1>1. manifest.time \in Nat /\ manifest'.time \in Nat /\ manifest.plan \in Nat
      /\ \A c \in checkpoints : c.time \in Nat
  BY ManifestFields, ConstantAssumption DEF TypeInv, TypeOK, Time, Plan
<1>2. Unfinished(manifest)' \subseteq Unfinished(manifest)
  <2>1. manifest'.pending \intersect manifest.applied = {}
    BY DEF Complete
  <2>2. Advances
    BY <1>1, <2>1 DEF Advances
  <2> QED
    BY <2>2, FinishedStays DEF LogsGrow, TypeInv
<1>3. AllHonest'
  <2>1. Honest(manifest)'
    BY DEF Honest, Complete
  <2> QED
    BY <2>1 DEF DiskInv, AllHonest, Honest, Stored
<1>4. Matching'
  BY <1>1 DEF DiskInv, Matching
<1>5. Covered' /\ Settling'
  BY DEF Covered, Settling, Settled
<1>6. WellFormed' /\ Receipted' /\ EventsBacked'
  BY DEF DiskInv, WellFormed, Receipted, EventsBacked
<1>7. OneUnfinished'
  BY <1>2 DEF DiskInv, OneUnfinished
<1>8. Resumable'
  <2> SUFFICES ASSUME NEW r \in receipts PROVE manifest' = r.base \/ Durable(r, manifest)'
    BY DEF Resumable
  <2>1. CASE r \in Unfinished(manifest)
    BY <2>1
  <2>2. CASE r \notin Unfinished(manifest)
    BY <1>2, <2>2 DEF Unfinished
  <2> QED
    BY <2>1, <2>2
<1> QED
  BY <1>3, <1>4, <1>5, <1>6, <1>7, <1>8, IdleCallInv DEF DiskInv

LEMMA IndexItemIInv ==
  ASSUME IInv, TypeOK', IndexItem
  PROVE  DiskInv' /\ CallInv' /\ Steady
<1> USE DEF IInv, IndexItem
<1>1. /\ Unfinished(manifest) = {} /\ view = manifest /\ NoLater(manifest)
      /\ manifest.time \in Nat
  BY ManifestFields, ConstantAssumption DEF CallInv, PublishReady, TypeInv, TypeOK, Time
<1>2. manifest'.plan = manifest.plan /\ manifest'.applied = manifest.applied
      /\ manifest'.time = manifest.time
  BY <1>1 DEF TypeInv, TypeOK, Manifest
<1>3. Complete(manifest)' /\ Steady
  <2>1. CASE call.item \in Document
    <3>1. /\ manifest'.refs = manifest.refs \union {call.item}
          /\ manifest'.pending = manifest.pending
      BY <1>1, <2>1 DEF TypeInv, TypeOK, Manifest
    <3> QED
      BY <1>2, <2>1, <3>1 DEF CallInv, PublishReady, Complete, Stored, Steady
  <2>2. CASE call.item \notin Document
    <3>1. /\ manifest'.refs = manifest.refs
          /\ manifest'.pending = manifest.pending \union {call.item}
      BY <1>1, <2>2 DEF TypeInv, TypeOK, Manifest
    <3> QED
      BY <1>2, <2>2, <3>1 DEF CallInv, PublishReady, Complete, Stored, Steady
  <2> QED
    BY <2>1, <2>2
<1>4. NoLater(manifest)' /\ \E c \in checkpoints : c.time >= manifest'.time
  BY <1>1, <1>2 DEF NoLater, DiskInv, Covered
<1> QED
  BY <1>1, <1>2, <1>3, <1>4, MoveIInv

LEMMA StoreSnapshotIInv ==
  ASSUME IInv, TypeOK', StoreSnapshot
  PROVE  DiskInv' /\ CallInv'
<1> USE DEF IInv, StoreSnapshot
<1>1. Unfinished(manifest) = {} /\ ~dirty /\ view = manifest /\ Settled
  BY CallFindsSettled
<1>2. \A c \in checkpoints : c.time \in Nat
  BY ManifestFields, ConstantAssumption DEF TypeInv, TypeOK, Time
<1>3. manifest.time \in Nat
  BY ManifestFields, ConstantAssumption DEF TypeInv, TypeOK, Time
<1>4. PICK m : /\ checkpoints' = checkpoints \union {m} /\ view' = m
               /\ m.plan = manifest.plan /\ m.applied = manifest.applied
               /\ m.refs = manifest.refs /\ m.pending = manifest.pending
               /\ m.time \in Nat /\ m.time > manifest.time
               /\ \A c \in checkpoints : c.time <= m.time
  <2>1. PICK c \in Latest, now \in Time, m \in Manifest :
          /\ now = IF c.time > manifest.time THEN c.time ELSE manifest.time
          /\ m = [manifest EXCEPT !.time = now + 1]
          /\ checkpoints' = checkpoints \union {m} /\ view' = m
    <3>1. \A c \in Latest : c.time \in Time
      BY ManifestFields DEF Latest, TypeInv, TypeOK
    <3>2. manifest.time \in Time
      BY ManifestFields DEF TypeInv, TypeOK
    <3> QED
      BY <3>1, <3>2
  <2>2. now \in Nat /\ now >= manifest.time /\ \A o \in checkpoints : o.time <= now
    BY <1>2, <1>3, <2>1 DEF Latest
  <2>3. /\ m.plan = manifest.plan /\ m.applied = manifest.applied
        /\ m.refs = manifest.refs /\ m.pending = manifest.pending
        /\ m.time = now + 1
    BY <2>1 DEF TypeInv, TypeOK, Manifest
  <2>4. m.time \in Nat /\ m.time > manifest.time /\ \A o \in checkpoints : o.time <= m.time
    BY <1>2, <1>3, <2>2, <2>3
  <2> HIDE DEF StoreSnapshot, IInv
  <2> QED
    BY <2>1, <2>3, <2>4
<1>5. Unfinished(manifest)' = {}
  <2>1. LogsGrow /\ Advances
    BY ManifestFields, ConstantAssumption
    DEF LogsGrow, Advances, DiskInv, AllHonest, Honest, TypeInv, TypeOK, Plan
  <2> QED
    BY <1>1, <2>1, FinishedStays DEF TypeInv
<1>6. AllHonest'
  BY <1>4 DEF DiskInv, AllHonest, Honest, Stored
<1>7. Matching' /\ WellFormed' /\ Receipted' /\ EventsBacked'
  BY <1>4 DEF DiskInv, Matching, WellFormed, Receipted, EventsBacked
<1>8. Covered'
  BY <1>3, <1>4 DEF Covered
<1>9. Resumable' /\ OneUnfinished' /\ Settling'
  BY <1>5 DEF Resumable, OneUnfinished, Unfinished, Settling
<1>10. SnapshotReady'
  <2>1. Complete(manifest)'
    BY <1>1 DEF Settled, Complete, Stored
  <2>2. /\ view' \in checkpoints' /\ NoLater(view)' /\ view'.time >= manifest'.time
        /\ view'.refs = manifest'.refs /\ view'.pending = manifest'.pending
    <3>1. UNCHANGED manifest
      OBVIOUS
    <3> HIDE DEF StoreSnapshot, IInv
    <3> QED
      BY <1>3, <1>4, <3>1 DEF NoLater
  <2> QED
    BY <1>5, <2>1, <2>2 DEF SnapshotReady
<1>11. Visited' /\ ApplyResumes' /\ Undisturbed' /\ PublishReady' /\ JobReady'
  BY DEF Visited, ApplyResumes, Undisturbed, PublishReady, JobReady, Stages
<1> QED
  BY <1>6, <1>7, <1>8, <1>9, <1>10, <1>11 DEF DiskInv, CallInv

LEMMA IndexSnapshotIInv ==
  ASSUME IInv, TypeOK', IndexSnapshot
  PROVE  DiskInv' /\ CallInv' /\ Steady
<1> USE DEF IInv, IndexSnapshot
<1>1. /\ Unfinished(manifest) = {} /\ Complete(manifest)
      /\ view \in checkpoints /\ NoLater(view) /\ view.time >= manifest.time
      /\ view.refs = manifest.refs /\ view.pending = manifest.pending
      /\ view.plan = manifest.plan /\ view.applied = manifest.applied
  BY DEF CallInv, SnapshotReady, DiskInv, Matching
<1>2. view.time \in Nat /\ manifest.time \in Nat
  BY ManifestFields, ConstantAssumption DEF TypeInv, TypeOK, Time
<1>3. Steady
  BY <1>1 DEF Steady
<1>4. Complete(manifest)' /\ NoLater(manifest)'
  BY <1>1 DEF Complete, NoLater, Stored
<1> QED
  BY <1>1, <1>2, <1>3, <1>4, MoveIInv

\* load-run finds the Plan and the Decisions of the Manifest in every checkpoint
\* it may choose; where an operation waits for its replay the Manifest stays as
\* the receipt has it.
LEMMA RestoreIInv ==
  ASSUME IInv, TypeOK', Restore
  PROVE  DiskInv' /\ CallInv' /\ Steady
<1> USE DEF IInv
<1>1. PICK c \in Latest : manifest' = Restored(c)
  BY DEF Restore
<1>2. c \in checkpoints /\ c \in Manifest /\ manifest \in Manifest /\ manifest' \in Manifest
      /\ \A o \in checkpoints : o.time \in Nat /\ o.time <= c.time
  BY ManifestFields, ConstantAssumption DEF Latest, TypeInv, TypeOK, Time
<1>3. manifest.time \in Nat /\ c.time \in Nat
  BY <1>2, ManifestFields, ConstantAssumption DEF Time
<1>4. \A r \in Unfinished(manifest) : manifest = r.base
  BY DEF Restore, Recovered, CallInv, Visited
<1>5. c.time >= manifest.time
  BY <1>2, <1>3, <1>4 DEF DiskInv, Covered
<1>6. /\ manifest'.plan = c.plan /\ manifest'.applied = c.applied /\ manifest'.time = c.time
      /\ manifest'.refs = c.refs \union documents
      /\ manifest'.pending = c.pending \union (Stored \ c.applied)
  BY <1>1, <1>2 DEF Restored, Stored, Manifest
<1>7. Complete(manifest)'
  BY <1>2, <1>6 DEF DiskInv, AllHonest, Honest, Complete, Stored, Restore
<1>8. Steady
  BY <1>2, <1>5, <1>6, <1>7 DEF Steady, DiskInv, Matching, AllHonest, Honest, Complete, Stored,
                               Restore
<1>9. NoLater(manifest)' /\ \E o \in checkpoints : o.time >= manifest'.time
  BY <1>2, <1>3, <1>6 DEF NoLater, Restore
<1>10. ASSUME NEW r \in Unfinished(manifest) PROVE manifest' = r.base
  <2>1. Settled
    BY <1>10 DEF DiskInv, Settling
  <2>2. manifest'.time = manifest.time
    BY <1>2, <1>3, <1>5, <1>6, <2>1 DEF Settled, NoLater
  <2>3. manifest'.refs = manifest.refs /\ manifest'.pending = manifest.pending
    BY <1>7, <1>8, <2>1 DEF Settled, Complete, Stored, Steady, Restore
  <2>4. manifest' = manifest
    BY <1>2, <1>8, <2>2, <2>3 DEF Steady, Manifest
  <2> QED
    BY <1>4, <1>10, <2>4
<1> QED
  BY <1>3, <1>5, <1>6, <1>7, <1>8, <1>9, <1>10, MoveIInv DEF Restore

-----------------------------------------------------------------------------
LEMMA WriteIInv == IInv /\ TypeOK' /\ Write => DiskInv' /\ CallInv'
<1> SUFFICES ASSUME IInv, TypeOK', Write PROVE DiskInv' /\ CallInv'
  OBVIOUS
<1> QED
  BY IntentIInv, ControlsIInv, CommitIInv, CheckpointIInv, AppliedIInv, WrittenIInv,
     StoreItemIInv, IndexItemIInv, StoreSnapshotIInv, IndexSnapshotIInv, RestoreIInv
  DEF Write

LEMMA NextIInv ==
  ASSUME ResumeFirst
  PROVE  IInv /\ [Next]_vars => IInv'
<1> SUFFICES ASSUME IInv, [Next]_vars PROVE IInv'
  OBVIOUS
<1>1. TypeInv' /\ TypeOK'
  BY NextTypeInv DEF IInv, TypeInv
<1>2. CASE UNCHANGED vars
  <2>1. DiskInv'
    BY <1>2, QuietDisk DEF vars, process
  <2>2. CallInv'
    BY <1>2
    DEF vars, disk, process, IInv, CallInv, Visited, ApplyResumes, Undisturbed, PublishReady,
        SnapshotReady, JobReady, NoLater, Complete, Stored, Unfinished, Durable, Recorded, Own
  <2> QED
    BY <1>1, <2>1, <2>2 DEF IInv
<1>3. CASE Next
  BY <1>1, <1>3, StartIInv, DecideIInv, WriteIInv, CrashIInv DEF Next, IInv
<1> QED
  BY <1>2, <1>3

\* Types, for any discipline of the callers.
THEOREM TypeCorrect == Spec => []TypeOK
<1>1. TypeInv => TypeOK
  BY DEF TypeInv
<1> QED
  BY <1>1, InitTypeInv, NextTypeInv, PTL DEF Spec

\* load-run and completeOperation never find an operation they can neither finish
\* nor recognize as finished (recoverPlanRevisionOperationsLocked throws nothing
\* that stays), if callers finish what was interrupted first.
THEOREM IntentsResumable ==
  ASSUME ResumeFirst
  PROVE  Spec => []Resumable
<1>1. IInv => Resumable
  BY DEF IInv, DiskInv
<1>2. IInv /\ [Next]_vars => IInv'
  BY NextIInv
<1> QED
  BY <1>1, <1>2, InitIInv, PTL DEF Spec

\* An adaptation_applied Event is never ahead of the Manifest, the control
\* Artifacts, the terminal report and the checkpoint it speaks of.
THEOREM EventsHaveBacking ==
  ASSUME ResumeFirst
  PROVE  Spec => []EventsBacked
<1>1. IInv => EventsBacked
  BY DEF IInv, DiskInv
<1>2. IInv /\ [Next]_vars => IInv'
  BY NextIInv
<1> QED
  BY <1>1, <1>2, InitIInv, PTL DEF Spec

\* What a step does to the Manifest.
LEMMA ManifestSteps ==
  ASSUME IInv, Next, IInv', ~Commit
  PROVE  Steady
<1>1. IndexItem \/ IndexSnapshot \/ Restore => Steady
  BY IndexItemIInv, IndexSnapshotIInv, RestoreIInv DEF IInv, TypeInv
<1>2. manifest' = manifest => Steady
  BY DEF Steady
<1> QED
  BY <1>1, <1>2
  DEF Next, Start, Begin, Decide, Pass, Resume, Refuse, Replay, EndApply, EndCall, Write,
      PublishIntent, PublishControls, PublishReport, PublishCheckpoint, AppendApplied,
      AppendWritten, StoreItem, StoreSnapshot, Crash, disk

\* Commit adds one Decision and takes it out of what is pending.
LEMMA CommitStep ==
  ASSUME IInv, Commit
  PROVE  /\ job \in receipts /\ job.decision \notin manifest.applied
         /\ \A r \in Unfinished(manifest) : r = job
         /\ manifest'.applied = manifest.applied \union {job.decision}
         /\ manifest'.pending = manifest.pending \ {job.decision}
         /\ manifest'.refs = manifest.refs
         /\ manifest'.plan = IF job.decision \in Revising THEN manifest.plan + 1 ELSE manifest.plan
<1>1. /\ job \in receipts /\ manifest = job.base /\ manifest' = job.result
      /\ \A r \in Unfinished(manifest) : r = job
  BY JobType DEF IInv, TypeInv, CallInv, JobReady, Stages, Commit
<1> QED
  BY <1>1 DEF IInv, DiskInv, WellFormed

\* No publication, checkpoint, completion or recovery drops an applied Decision,
\* a pending one, a published Artifact or a Plan Revision from the Manifest.
THEOREM NothingIsLost ==
  ASSUME ResumeFirst
  PROVE  Spec => NothingLost
<1> DEFINE Keeps == /\ manifest.applied \subseteq manifest'.applied
                    /\ manifest.pending \subseteq manifest'.pending \union manifest'.applied
                    /\ manifest.refs \subseteq manifest'.refs
                    /\ manifest.plan <= manifest'.plan
<1>1. IInv /\ [Next]_vars => IInv'
  BY NextIInv
<1>2. IInv /\ IInv' /\ [Next]_vars => [Keeps]_vars
  <2> SUFFICES ASSUME IInv, IInv', Next PROVE Keeps
    OBVIOUS
  <2>1. manifest.plan \in Nat /\ manifest'.plan \in Nat
    BY ManifestFields, ConstantAssumption DEF IInv, TypeInv, TypeOK, Plan
  <2>2. CASE Commit
    BY <2>1, <2>2, CommitStep
  <2>3. CASE ~Commit
    BY <2>1, <2>3, ManifestSteps DEF Steady
  <2> QED
    BY <2>2, <2>3
<1> QED
  BY <1>1, <1>2, InitIInv, PTL DEF Spec, NothingLost

\* A receipt is promised or its Decision is committed; announced is what finished.
LEMMA LineAtRest ==
  ASSUME IInv, Unfinished(manifest) = {}
  PROVE  /\ \A r \in receipts : r.decision \in manifest.applied
         /\ written = manifest.applied
<1>1. \A r \in receipts : r.decision \in manifest.applied /\ r.decision \in written
  BY DEF Unfinished, Durable, Recorded
<1>2. written \subseteq manifest.applied
  BY DEF IInv, TypeInv, TypeOK, DiskInv, EventsBacked
<1>3. manifest.applied \subseteq written
  BY <1>1 DEF IInv, DiskInv, Receipted
<1> QED
  BY <1>1, <1>2, <1>3

\* The operations, with all their writes, interruptions and replays, are one line
\* of Decisions: each promised, committed with its effect on the Plan, announced.
THEOREM ImplementsPlanLine ==
  ASSUME ResumeFirst
  PROVE  Spec => Line!Safe
<1> DEFINE promised == {r.decision : r \in receipts} \ manifest.applied
<1>1. IInv /\ [Next]_vars => IInv'
  BY NextIInv
<1>2. Init => Line!Init
  BY DEF Init, FirstManifest, Line!Init
<1>3. IInv /\ IInv' /\ [Next]_vars => [Line!Next]_Line!line
  <2> SUFFICES ASSUME IInv, IInv', [Next]_vars PROVE Line!Next \/ UNCHANGED Line!line
    OBVIOUS
  <2>1. ASSUME NEW d \in Decision, PublishIntent(d) PROVE Line!Promise(d)
    <3>1. Unfinished(manifest) = {}
      BY <2>1, IntentAlone
    <3>2. promised = {} /\ written = manifest.applied
      BY <3>1, LineAtRest
    <3>3. PICK r : r.decision = d /\ receipts' = receipts \union {r}
      BY <2>1 DEF PublishIntent, NewReceipt
    <3>4. d \notin manifest.applied /\ UNCHANGED <<manifest, written>>
      BY <2>1 DEF PublishIntent
    <3>5. promised' = {d}
      BY <3>2, <3>3, <3>4
    <3>6. UNCHANGED <<manifest.plan, manifest.applied, written>>
      BY <3>4
    <3> HIDE DEF promised
    <3> QED
      BY <3>2, <3>4, <3>5, <3>6 DEF Line!Promise, promised
  <2>2. CASE Commit
    <3>1. UNCHANGED <<receipts, written>>
      BY <2>2 DEF Commit
    <3>2. \A r \in receipts : r = job \/ r.decision \in manifest.applied
      BY <2>2, CommitStep DEF Unfinished, Durable
    <3>3. promised = {job.decision}
      BY <2>2, <3>2, CommitStep
    <3>4. promised' = {}
      BY <2>2, <3>1, <3>2, CommitStep
    <3>5. job.decision \in Decision
      BY <2>2, CommitStep, ReceiptFields DEF IInv, TypeInv, TypeOK
    <3>6. PICK d \in Decision : d = job.decision
      BY <3>5
    <3>7. Line!Commit(d)
      BY <2>2, <3>1, <3>3, <3>4, <3>6, CommitStep DEF Line!Commit
    <3> QED
      BY <3>7 DEF Line!Next
  <2>3. CASE AppendWritten
    <3>1. UNCHANGED <<manifest, receipts>> /\ written' = written \union {job.decision}
      BY <2>3 DEF AppendWritten
    <3>2. job.decision \in manifest.applied /\ job.decision \in Decision
      BY <2>3, JobType, ReceiptFields
      DEF AppendWritten, IInv, TypeInv, Shape, DiskInv, EventsBacked, Stages
    <3>3. CASE job.decision \in written
      BY <3>1, <3>3 DEF Line!line
    <3>4. CASE job.decision \notin written
      BY <3>1, <3>2, <3>4 DEF Line!Next, Line!Announce
    <3> QED
      BY <3>3, <3>4
  <2>4. CASE Next /\ ~Commit /\ ~AppendWritten /\ \A d \in Decision : ~PublishIntent(d)
    <3>1. manifest'.plan = manifest.plan /\ manifest'.applied = manifest.applied
      BY <2>4, ManifestSteps DEF Steady
    <3>2. UNCHANGED <<receipts, written>>
      BY <2>4
      DEF Next, Start, Begin, Decide, Pass, Resume, Refuse, Replay, EndApply, EndCall, Write,
          PublishControls, PublishReport, PublishCheckpoint, AppendApplied,
          StoreItem, IndexItem, StoreSnapshot, IndexSnapshot, Restore, Crash, disk
    <3> QED
      BY <3>1, <3>2 DEF Line!line
  <2>5. CASE UNCHANGED vars
    BY <2>5 DEF vars, disk, Line!line
  <2> QED
    BY <2>1, <2>2, <2>3, <2>4, <2>5 DEF Line!Next
<1> QED
  BY <1>1, <1>2, <1>3, InitIInv, PTL DEF Spec, Line!Safe
=============================================================================
