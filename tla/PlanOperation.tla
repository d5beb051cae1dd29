---------------------------- MODULE PlanOperation ----------------------------
(***************************************************************************)
(* The Plan operations of one Run (adaptation/plan-runtime.ts) and the     *)
(* calls of the Run Store that recover them: apply-plan-revision,          *)
(* publish-artifact, checkpoint, validate-plan and load-run.               *)
(*                                                                         *)
(* An operation applies one Adaptation Decision.  Its receipt, the intent, *)
(* holds the exact Manifest before and after; the control Artifacts, the   *)
(* terminal report, the Manifest, the checkpoint and the Events follow,    *)
(* each a durable write before which the process may die.  Every call      *)
(* first visits all receipts and may complete some.                        *)
(*                                                                         *)
(* A call holds the Run lock (RunLock), so calls do not overlap.  A bundle *)
(* is one write (ArtifactStore has its parts), a log record as well        *)
(* (JsonlLog), and so are the files of one terminal report.                *)
(***************************************************************************)
EXTENDS Integers, FiniteSets

CONSTANTS
  Revising,    \* Decisions that make a new Plan
  InPlace,     \* Decisions that keep the Plan, such as stop_followup
  Closing,     \* Decisions that keep the Plan and close the Run with a report
  Document,    \* other Artifacts
  Synthesis,   \* those refused while an operation or a Decision is pending
  MaxPlan,     \* bound: Plan revisions
  MaxTime,     \* bound: checkpoints
  MaxCrash,    \* bound: interrupted calls
  ResumeFirst, \* callers finish what was interrupted before anything else
  None

Decision == Revising \union InPlace \union Closing

ASSUME ConstantAssumption ==
  /\ MaxPlan \in Nat \ {0} /\ MaxTime \in Nat /\ MaxCrash \in Nat
  /\ ResumeFirst \in BOOLEAN
  /\ Revising \intersect (InPlace \union Closing) = {}
  /\ InPlace \intersect Closing = {}
  /\ Synthesis \subseteq Document /\ Decision \intersect Document = {}
  /\ None \notin Decision \union Document

Plan == 1 .. MaxPlan
Time == 0 .. MaxTime

\* The part of a Manifest that Plan operations and publications change; time is
\* that of its latest checkpoint.  updated_at also follows the Artifacts published
\* since, from which load-run computes it again.
Manifest ==
  [plan : Plan, applied : SUBSET Decision, pending : SUBSET Decision,
   refs : SUBSET Document, time : Time]

\* plan is the revision the Decision was made for.
Receipt == [decision : Decision, base : Manifest, result : Manifest]

NoReceipt == [decision |-> None]

VARIABLES
  manifest,    \* manifest.json
  based,       \* Plan each stored Adaptation Decision is based on, 0 if none
  documents,   \* other Artifacts stored
  receipts,    \* plan-revision-*.json
  controls,    \* Decisions whose control Artifacts are stored
  reports,     \* Decisions whose terminal report is stored and materialized
  checkpoints, \* Manifests the stored checkpoints hold
  applied,     \* Decisions with their adaptation_applied Event
  written,     \* Decisions with their checkpoint_written Event
  pc,          \* next durable write of the call in progress
  call,        \* what it was called for
  view,        \* the Manifest it read first
  visit,       \* receipts its recovery has still to visit
  job,         \* receipt it is completing
  dirty,       \* a call was interrupted since the last complete load-run
  crashes

disk == <<manifest, based, documents, receipts, controls, reports, checkpoints,
          applied, written>>
process == <<pc, call, view, visit, job>>
vars == <<disk, process, dirty, crashes>>

-----------------------------------------------------------------------------
FirstManifest ==
  [plan |-> 1, applied |-> {}, pending |-> {}, refs |-> {}, time |-> 0]

\* A Run with its first Plan and a checkpoint of it.
Init ==
  /\ manifest = FirstManifest
  /\ based = [d \in Decision |-> 0] /\ documents = {}
  /\ receipts = {} /\ controls = {} /\ reports = {}
  /\ checkpoints = {FirstManifest}
  /\ applied = {} /\ written = {}
  /\ pc = "idle" /\ call = [kind |-> "none", item |-> None]
  /\ view = FirstManifest /\ visit = {} /\ job = NoReceipt
  /\ dirty = FALSE /\ crashes = 0

\* planOperationRecordsAreDurable
Recorded(r) ==
  /\ r.decision \in Closing => r.decision \in reports
  /\ r.decision \in controls /\ r.result \in checkpoints
  /\ r.decision \in applied /\ r.decision \in written

\* planOperationCompletionIsDurable and, for a Plan since replaced, its
\* historical form.
Durable(r, m) ==
  /\ m.plan >= r.result.plan
  /\ r.decision \in m.applied \ m.pending
  /\ Recorded(r)

Unfinished(m) == {r \in receipts : ~Durable(r, m)}

\* Mutant: every Decision makes a new Plan.
ResultRevises(d) ==
  [manifest EXCEPT !.plan = @ + 1, !.applied = @ \union {d}, !.pending = @ \ {d},
                   !.time = @ + 1]

\* transformPlan and the final Manifest of the operation on d.
Result(d) ==
  [manifest EXCEPT !.plan = IF d \in Revising THEN @ + 1 ELSE @,
                   !.applied = @ \union {d}, !.pending = @ \ {d},
                   !.time = @ + 1]

NewReceipt(d) == [decision |-> d, base |-> manifest, result |-> Result(d)]

-----------------------------------------------------------------------------
Idle == pc = "idle"

Kind == {"apply", "publish", "checkpoint", "validate", "load"}

\* What disciplined callers start: after an interruption load-run or the replay
\* of the interrupted operation, nothing that changes the Manifest before an
\* unfinished operation is replayed.
MayStart(kind, item) ==
  ResumeFirst =>
    CASE kind = "load" -> TRUE
      [] kind = "apply" -> ~dirty \/ \E r \in Unfinished(manifest) : r.decision = item
      [] OTHER -> ~dirty /\ Unfinished(manifest) = {}

\* assertTransitionReadyLocked, on the Manifest read before recovery.
Publishable(x) ==
  IF x \in Document
  THEN /\ x \notin manifest.refs
       /\ x \in Synthesis => manifest.pending = {} /\ Unfinished(manifest) = {}
  ELSE /\ x \notin manifest.pending \union manifest.applied
       /\ based[x] \in {0, manifest.plan}

\* A call takes the Run lock, reads the Manifest and starts to recover; it passes
\* over what is durable.
Begin(kind, item) ==
  /\ Idle /\ MayStart(kind, item)
  /\ kind = "publish" => Publishable(item)
  /\ pc' = "recover"
  /\ call' = [kind |-> kind, item |-> item]
  /\ view' = manifest /\ visit' = Unfinished(manifest)
  /\ UNCHANGED <<disk, job, dirty, crashes>>

Start ==
  \/ \E d \in Decision : Begin("apply", d) \/ Begin("publish", d)
  \/ \E x \in Document : Begin("publish", x)
  \/ \E kind \in {"checkpoint", "validate", "load"} : Begin(kind, None)

\* The call ends with its result or with an error.
Return ==
  /\ pc' = "idle" /\ call' = [kind |-> "none", item |-> None]
  /\ view' = FirstManifest /\ visit' = {} /\ job' = NoReceipt

Visiting(r) == pc = "recover" /\ r \in visit

\* recoverPlanRevisionOperationsLocked, one receipt: what is left to do is for
\* apply-plan-revision, or for its replay.
Pass(r) ==
  /\ Visiting(r)
  /\ \/ manifest.plan = r.result.plan /\ call.kind = "apply"
     \/ manifest.plan # r.result.plan /\ manifest = r.base
  /\ visit' = visit \ {r}
  /\ UNCHANGED <<disk, pc, call, view, job, dirty, crashes>>

\* Mutant: an operation that has not reached its Manifest is not taken up again.
ConflictsWithBase(r) ==
  \/ manifest # r.result
  \/ r.decision \notin controls
  \/ r.decision \in Closing \ reports

\* completeOperation finds neither Manifest of the receipt, or the new one
\* without what precedes it.
Conflicts(r) ==
  /\ manifest # r.base
  /\ \/ manifest # r.result
     \/ r.decision \notin controls
     \/ r.decision \in Closing \ reports

\* completeOperation goes on from the Manifest it finds.
CompleteFrom(r) ==
  /\ ~Conflicts(r)
  /\ job' = r
  /\ pc' = IF manifest = r.result THEN "checkpoint" ELSE "controls"

\* The other calls complete an operation on their way.
Resume(r) ==
  /\ Visiting(r) /\ call.kind # "apply"
  /\ manifest.plan = r.result.plan
  /\ CompleteFrom(r)
  /\ visit' = visit \ {r}
  /\ UNCHANGED <<disk, call, view, dirty, crashes>>

\* Recovery throws: the base Manifest is gone, or the operation belongs to a Plan
\* since replaced and is not durable.
Refused(r) ==
  IF manifest.plan = r.result.plan
  THEN call.kind # "apply" /\ Conflicts(r)
  ELSE manifest # r.base

Refuse(r) ==
  /\ Visiting(r) /\ Refused(r)
  /\ Return
  /\ UNCHANGED <<disk, dirty, crashes>>

Recovered(kind) == pc = "recover" /\ visit = {} /\ call.kind = kind

-----------------------------------------------------------------------------
(* apply-plan-revision                                                     *)

Own(d) == {r \in receipts : r.decision = d}

\* Mutant: another operation's intent does not stand in the way.
NoOtherCheck(d) == TRUE

\* assertNoDivergentPendingOperation
NoOtherPending(d) ==
  \A r \in receipts \ Own(d) :
    r.base.plan = manifest.plan => r.result.plan = manifest.plan /\ Durable(r, manifest)

\* The intent of a new operation.
PublishIntent(d) ==
  LET r == NewReceipt(d) IN
  /\ Recovered("apply") /\ call.item = d
  /\ Own(d) = {}
  /\ based[d] = manifest.plan
  /\ d \notin manifest.applied /\ NoOtherPending(d)
  /\ r.result \in Manifest
  /\ receipts' = receipts \union {r}
  /\ job' = r /\ pc' = "controls"
  /\ UNCHANGED <<manifest, based, documents, controls, reports, checkpoints, applied,
                 written, call, view, visit, dirty, crashes>>

\* Exact replay of an operation that has its receipt.
Replay(r) ==
  /\ Recovered("apply") /\ r \in Own(call.item)
  /\ ~Durable(r, manifest)
  /\ CompleteFrom(r)
  /\ UNCHANGED <<disk, call, view, visit, dirty, crashes>>

\* The request is refused, or already done.
EndApply ==
  /\ Recovered("apply")
  /\ LET d == call.item IN
       IF Own(d) = {}
       THEN \/ based[d] # manifest.plan
            \/ d \in manifest.applied
            \/ ~NoOtherPending(d)
            \/ Result(d) \notin Manifest
       ELSE \A r \in Own(d) : Durable(r, manifest) \/ Conflicts(r)
  /\ Return
  /\ UNCHANGED <<disk, dirty, crashes>>

\* completeOperation, write by write.
PublishControls ==
  /\ pc = "controls"
  /\ controls' = controls \union {job.decision}
  /\ pc' = IF job.decision \in Closing THEN "report" ELSE "commit"
  /\ UNCHANGED <<manifest, based, documents, receipts, reports, checkpoints, applied,
                 written, call, view, visit, job, dirty, crashes>>

PublishReport ==
  /\ pc = "report"
  /\ reports' = reports \union {job.decision}
  /\ pc' = "commit"
  /\ UNCHANGED <<manifest, based, documents, receipts, controls, checkpoints, applied,
                 written, call, view, visit, job, dirty, crashes>>

\* Mutant: the checkpoint is left to the next call.
CommitOnly ==
  /\ pc = "commit"
  /\ manifest' = job.result
  /\ pc' = "applied"
  /\ UNCHANGED <<based, documents, receipts, controls, reports, checkpoints, applied,
                 written, call, view, visit, job, dirty, crashes>>

Commit ==
  /\ pc = "commit"
  /\ manifest' = job.result
  /\ pc' = "checkpoint"
  /\ UNCHANGED <<based, documents, receipts, controls, reports, checkpoints, applied,
                 written, call, view, visit, job, dirty, crashes>>

PublishCheckpoint ==
  /\ pc = "checkpoint"
  /\ checkpoints' = checkpoints \union {job.result}
  /\ pc' = "applied"
  /\ UNCHANGED <<manifest, based, documents, receipts, controls, reports, applied,
                 written, call, view, visit, job, dirty, crashes>>

\* appendOperationEvents, in the order of the receipt.
AppendApplied ==
  /\ pc = "applied"
  /\ applied' = applied \union {job.decision}
  /\ pc' = "written"
  /\ UNCHANGED <<manifest, based, documents, receipts, controls, reports, checkpoints,
                 written, call, view, visit, job, dirty, crashes>>

AppendWritten ==
  /\ pc = "written"
  /\ written' = written \union {job.decision}
  /\ IF call.kind = "apply"
     THEN Return
     ELSE pc' = "recover" /\ job' = NoReceipt /\ UNCHANGED <<call, view, visit>>
  /\ UNCHANGED <<manifest, based, documents, receipts, controls, reports, checkpoints,
                 applied, dirty, crashes>>

-----------------------------------------------------------------------------
(* publish-artifact, checkpoint, validate-plan and load-run                *)

StoreItem ==
  LET x == call.item IN
  /\ Recovered("publish")
  /\ IF x \in Document
     THEN documents' = documents \union {x} /\ UNCHANGED based
     ELSE based' = [based EXCEPT ![x] = view.plan] /\ UNCHANGED documents
  /\ pc' = "index"
  /\ UNCHANGED <<manifest, receipts, controls, reports, checkpoints, applied, written,
                 call, view, visit, job, dirty, crashes>>

\* applyPublishedEnvelope, on the Manifest the call read before recovery.
IndexItem ==
  LET x == call.item IN
  /\ pc = "index"
  /\ manifest' = IF x \in Document
                 THEN [view EXCEPT !.refs = @ \union {x}]
                 ELSE [view EXCEPT !.pending = @ \union {x}]
  /\ Return
  /\ UNCHANGED <<based, documents, receipts, controls, reports, checkpoints, applied,
                 written, dirty, crashes>>

Latest == {c \in checkpoints : \A o \in checkpoints : o.time <= c.time}

\* A checkpoint is later than the Manifest and every stored checkpoint.
StoreSnapshot ==
  \E c \in Latest :
    LET now == IF c.time > manifest.time THEN c.time ELSE manifest.time
        m == [manifest EXCEPT !.time = now + 1]
    IN  /\ Recovered("checkpoint") /\ m \in Manifest
        /\ checkpoints' = checkpoints \union {m}
        /\ view' = m /\ pc' = "snapshot"
        /\ UNCHANGED <<manifest, based, documents, receipts, controls, reports, applied,
                       written, call, visit, job, dirty, crashes>>

IndexSnapshot ==
  /\ pc = "snapshot"
  /\ manifest' = view
  /\ Return
  /\ UNCHANGED <<based, documents, receipts, controls, reports, checkpoints, applied,
                 written, dirty, crashes>>

\* validate-plan, and a checkpoint beyond the bound.
EndCall ==
  /\ \/ Recovered("validate")
     \/ Recovered("checkpoint")
        /\ \E c \in checkpoints \union {manifest} : c.time = MaxTime
  /\ Return
  /\ UNCHANGED <<disk, dirty, crashes>>

\* Mutant: the checkpoint alone.
RestoredAsStored(c) == c

\* recoverLocked: a checkpoint and the Artifacts published since.
Restored(c) ==
  [c EXCEPT !.refs = @ \union documents,
            !.pending = @ \union ({d \in Decision : based[d] # 0} \ c.applied)]

Restore ==
  /\ Recovered("load")
  /\ \E c \in Latest : manifest' = Restored(c)
  /\ dirty' = FALSE
  /\ Return
  /\ UNCHANGED <<based, documents, receipts, controls, reports, checkpoints, applied,
                 written, crashes>>

\* The process dies before its next durable write.
Crash ==
  /\ ~Idle /\ crashes < MaxCrash
  /\ crashes' = crashes + 1 /\ dirty' = TRUE
  /\ Return
  /\ UNCHANGED disk

Write ==
  \/ \E d \in Decision : PublishIntent(d)
  \/ PublishControls \/ PublishReport \/ Commit
  \/ PublishCheckpoint \/ AppendApplied \/ AppendWritten
  \/ StoreItem \/ IndexItem \/ StoreSnapshot \/ IndexSnapshot \/ Restore

Decide ==
  \/ \E r \in receipts : Pass(r) \/ Resume(r) \/ Refuse(r) \/ Replay(r)
  \/ EndApply \/ EndCall

Next == Start \/ Decide \/ Write \/ Crash

Spec == Init /\ [][Next]_vars

\* A call goes on by itself; callers run load-run after an interruption, and
\* replay the operation it leaves unfinished.
FairSpec ==
  /\ Spec
  /\ WF_vars(Decide \/ Write)
  /\ WF_vars(Begin("load", None) /\ dirty)
  /\ SF_vars(\E r \in Unfinished(manifest) : Begin("apply", r.decision))

-----------------------------------------------------------------------------
Calls == [kind : Kind \union {"none"}, item : Decision \union Document \union {None}]

Stages == {"controls", "report", "commit", "checkpoint", "applied", "written"}

TypeOK ==
  /\ manifest \in Manifest /\ view \in Manifest
  /\ checkpoints \subseteq Manifest
  /\ based \in [Decision -> {0} \union Plan]
  /\ documents \subseteq Document
  /\ receipts \subseteq Receipt /\ visit \subseteq receipts
  /\ controls \subseteq Decision /\ reports \subseteq Closing
  /\ applied \subseteq Decision /\ written \subseteq applied
  /\ pc \in {"idle", "recover", "index", "snapshot"} \union Stages
  /\ call \in Calls
  /\ job \in receipts \union {NoReceipt}
  /\ pc \in Stages <=> job # NoReceipt
  /\ dirty \in BOOLEAN /\ crashes \in 0 .. MaxCrash

\* Every operation with a receipt can still be finished: its base Manifest is the
\* current one, or it is committed and nothing before its Manifest is missing.
Resumable ==
  \A r \in receipts :
    \/ manifest = r.base
    \/ Durable(r, manifest)
    \/ manifest = r.result /\ ~Conflicts(r)

\* The Event that says a Decision is applied is true of the Manifest, which has
\* its checkpoint and all it refers to.
EventsBacked ==
  \A d \in applied :
    /\ d \in manifest.applied \intersect controls
    /\ d \in Closing => d \in reports
    /\ \E c \in checkpoints : d \in c.applied

\* No call drops from the Manifest what another put there: applied Decisions,
\* published Artifacts, the Plan.
NothingLost ==
  [][/\ manifest.applied \subseteq manifest'.applied
     /\ manifest.pending \subseteq manifest'.pending \union manifest'.applied
     /\ manifest.refs \subseteq manifest'.refs
     /\ manifest.plan <= manifest'.plan]_vars

\* Every intent is carried through in the end, interruptions included.
IntentsFinish == Unfinished(manifest) # {} ~> Unfinished(manifest) = {}

Line == INSTANCE PlanLine WITH
  plan <- manifest.plan,
  committed <- manifest.applied,
  promised <- {r.decision : r \in receipts} \ manifest.applied,
  announced <- written

\* One Decision at a time, from its intent to its last Event, and none halfway.
ImplementsLine == Line!Spec
=============================================================================
