--------------------------- MODULE ResearchHandoff ---------------------------
(***************************************************************************)
(* Research handoffs (run-store/run-store.ts createResearchHandoff,        *)
(* readResearchHandoff and their part of recoverLocked): what another Run  *)
(* found is captured into this one as an intent, one Evidence import per   *)
(* item, one Artifact and its entry in the Manifest; read by a recorded    *)
(* decision; and named by the document formed from it.  A call may die     *)
(* between any two of these writes, and the Scope and the Plan a handoff   *)
(* is bound to may be replaced meanwhile.                                  *)
(*                                                                         *)
(* A ScopeFrame is named by the Scope revision it projects.  Receipts and  *)
(* lines are as EvidenceStore, JsonlLog and ArtifactStore model them: what *)
(* a receipt (an Artifact's temporary) holds, load-run completes.  Other   *)
(* publications, Plan Revisions among them, are one step; a Scope decision *)
(* is two, its line and the Manifest.  A read takes all items of a         *)
(* handoff.  What a source Run must be, and the bytes, are left out.       *)
(***************************************************************************)
EXTENDS Naturals, FiniteSets

CONSTANTS Handoff, Item,
          ItemsOf,       \* the reusable Evidence of each handoff
          Target,
          TargetOf,      \* the document a handoff is read for, if any
          Concept,       \* concept-hypothesis.json
          MaxRevision, MaxPlan, MaxCrash,
          RecoverFirst,  \* callers run load-run after an interrupted call
          None

Revision == 1 .. MaxRevision
Doc == Revision \union Handoff \union Target

ASSUME HandoffAssumption ==
  /\ ItemsOf \in [Handoff -> SUBSET Item]
  /\ \A g, h \in Handoff : g # h => ItemsOf[g] \intersect ItemsOf[h] = {}
  /\ TargetOf \in [Handoff -> Target \union {None}]
  /\ Concept \in Target
  /\ Handoff \intersect (Revision \union Target) = {} /\ Target \intersect Revision = {}
  /\ None \notin Handoff \union Target \union Revision
ASSUME BoundAssumption ==
  /\ MaxRevision \in Nat \ {0} /\ MaxPlan \in Nat /\ MaxCrash \in Nat
  /\ RecoverFirst \in BOOLEAN

VARIABLES
  run,       \* scope_revision, status and current Plan of the Manifest
  tracked,   \* its artifact_refs
  decided,   \* the latest Scope decision in decisions.jsonl
  stale,     \* superseded_formation_refs, once that decision is a confirmation
  first,     \* the ScopeFrame at scope-frame.json
  intents,   \* .store/operations/research-handoff-*.json
  evidence,  \* the import of each item: its receipt, its line
  artifact,  \* the formal documents
  binds,     \* research_handoff_input_hashes and the Plan of each target
  reading,   \* the consumption decision of each handoff: its receipt, its line
  call,      \* the call that holds the Run lock
  dirty,     \* a call was cut short since load-run last finished
  crashes

manifest == <<run, tracked>>
scope == <<decided, stale, first>>
store == <<intents, evidence, artifact>>
uses == <<binds, reading>>
vars == <<manifest, scope, store, uses, call, dirty, crashes>>

-----------------------------------------------------------------------------
\* No open Scope question, an unreconciled Scope, one awaiting confirmation.
Status == {"open", "unclear", "waiting", "reporting"}

Intent == [revision : Revision, scope : Revision, plan : 0 .. MaxPlan]
ASSUME IntentAssumption == None \notin Intent

NoUse == [of |-> {}, plan |-> 0]

Doing(op, h, at) == [op |-> op, of |-> h, at |-> at, todo |-> {}]
Idle == Doing("idle", None, "idle")
Refused == Doing("refused", None, "idle")

Init ==
  /\ run = [revision |-> 1, status |-> "open", plan |-> 0]
  /\ tracked = {}
  /\ decided = [revision |-> 1, confirmed |-> TRUE]
  /\ stale = {} /\ first = None
  /\ intents = [h \in Handoff |-> None]
  /\ evidence = [i \in Item |-> "none"]
  /\ artifact = [d \in Doc |-> "none"]
  /\ binds = [t \in Target |-> NoUse]
  /\ reading = [h \in Handoff |-> "none"]
  /\ call = Idle
  /\ dirty = FALSE /\ crashes = 0

-----------------------------------------------------------------------------
Published == {d \in Doc : artifact[d] = "published"}
Recorded(h) == {i \in ItemsOf[h] : evidence[i] = "recorded"}
Imported(h) == Recorded(h) = ItemsOf[h]

Durable(h) == artifact[h] = "published" /\ Imported(h)
Started(h) == artifact[h] = "published" \/ Recorded(h) # {}
Untouched(h) == artifact[h] = "none" /\ \A i \in ItemsOf[h] : evidence[i] = "none"

\* assertScopeBindingLocked
Bound ==
  /\ decided.revision = run.revision
  /\ decided.confirmed <=> run.status # "waiting"

\* The document's consumed handoffs among D, and those its Plan admits.
ReadFor(t, D) == {h \in D \intersect Handoff : TargetOf[h] = t /\ reading[h] = "logged"}
Applies(h, plan) == intents[h].plan \in {0, plan}

\* validateResearchHandoffContract, for the documents D.
Sound(D) ==
  /\ \A h \in D \intersect Handoff : intents[h].scope \in D /\ Imported(h)
  /\ \A t \in D \intersect Target :
       binds[t].of = ReadFor(t, D) /\ \A h \in binds[t].of : Applies(h, binds[t].plan)

\* exactAssessmentPrePlanScopeLocked
CurrentFrame == run.revision \in Published \ stale

\* researchHandoffIntentStillApplicable; also what a controlled read demands.
SameScope(h) ==
  /\ intents[h].revision = run.revision
  /\ run.status \notin {"waiting", "reporting"}

PrePlanApplicable(h) ==
  /\ intents[h].plan = 0 /\ SameScope(h)
  /\ run.plan = 0 /\ Concept \notin tracked

Applicable(h) ==
  \/ PrePlanApplicable(h) /\ CurrentFrame /\ intents[h].scope = run.revision
  \/ /\ intents[h].plan > 0 /\ SameScope(h)
     /\ run.status # "unclear" /\ run.plan = intents[h].plan

MayStart == call = Idle /\ (RecoverFirst => ~dirty)

Go(at) == call' = [call EXCEPT !.at = at]
Done == call' = Idle /\ UNCHANGED dirty
Abort == call' = Idle /\ dirty' = TRUE

-----------------------------------------------------------------------------
\* A new handoff.  Before the first Plan it may only form the Concept of an
\* Assessment; later it names scope-frame.json.
PrePlan(h) ==
  /\ run.plan = 0 /\ CurrentFrame
  /\ Concept \notin tracked
  /\ ItemsOf[h] = {} /\ TargetOf[h] = Concept

BoundFrame == IF run.plan = 0 THEN run.revision ELSE first

Create(h) ==
  /\ MayStart /\ Bound /\ run.status \in {"open", "unclear"}
  /\ intents[h] = None
  /\ \/ PrePlan(h)
     \/ run.plan > 0 /\ run.status = "open" /\ first # None
  /\ intents' = [intents EXCEPT ![h] =
       [revision |-> run.revision, scope |-> BoundFrame, plan |-> run.plan]]
  /\ call' = Doing("create", h, "import")
  /\ UNCHANGED <<manifest, scope, evidence, artifact, uses, dirty, crashes>>

\* Mutant: an intent is replayed whatever became of its Scope and Plan.
ReplayableAlways(h) == TRUE

Replayable(h) == Started(h) \/ Applicable(h)

\* The same call again; it throws where it changes nothing.
Repeat(h) ==
  /\ call = Idle /\ Bound /\ run.status # "waiting"
  /\ intents[h] # None
  /\ RecoverFirst => h \notin stale
  /\ \/ Durable(h) /\ call' = Doing("repeat", h, "index")
     \/ ~Durable(h) /\ Replayable(h) /\ call' = Doing("repeat", h, "import")
  /\ UNCHANGED <<manifest, scope, store, uses, dirty, crashes>>

-----------------------------------------------------------------------------
\* recordResearchHandoffImportLocked, item after item.
PrepareItem(i) ==
  /\ call.at = "import" /\ i \in ItemsOf[call.of]
  /\ \A j \in ItemsOf[call.of] : evidence[j] # "prepared"
  /\ evidence[i] = "none"
  /\ evidence' = [evidence EXCEPT ![i] = "prepared"]
  /\ UNCHANGED <<manifest, scope, intents, artifact, uses, call, dirty, crashes>>

RecordItem(i) ==
  /\ call.at = "import" /\ i \in ItemsOf[call.of]
  /\ evidence[i] = "prepared"
  /\ evidence' = [evidence EXCEPT ![i] = "recorded"]
  /\ UNCHANGED <<manifest, scope, intents, artifact, uses, call, dirty, crashes>>

Imports ==
  /\ call.at = "import" /\ Imported(call.of)
  /\ Go(IF call.op = "create" THEN "check" ELSE "publish")
  /\ UNCHANGED <<manifest, scope, store, uses, dirty, crashes>>

\* assertTransitionReadyLocked: an unreconciled Scope refuses a new handoff, the
\* intent of which is durable by now.
Check ==
  /\ call.at = "check"
  /\ IF run.status = "unclear" THEN Abort ELSE Go("publish") /\ UNCHANGED dirty
  /\ UNCHANGED <<manifest, scope, store, uses, crashes>>

\* publishResearchHandoffLocked: its references are those of the Manifest.
Admitted == Sound(tracked \union {call.of})

\* Mutant: the Manifest is written before the Artifact is in place.
PrepareThenIndex ==
  /\ call.at = "publish" /\ Admitted
  /\ artifact' = [artifact EXCEPT ![call.of] = "prepared"]
  /\ Go(IF call.op = "load" THEN "link" ELSE "index")
  /\ UNCHANGED <<manifest, scope, intents, evidence, uses, dirty, crashes>>

Prepare ==
  /\ call.at = "publish" /\ Admitted
  /\ artifact' = [artifact EXCEPT ![call.of] = "prepared"]
  /\ Go("link")
  /\ UNCHANGED <<manifest, scope, intents, evidence, uses, dirty, crashes>>

PublishRefused ==
  /\ call.at = "publish" /\ ~Admitted /\ call.op # "load"
  /\ Abort
  /\ UNCHANGED <<manifest, scope, store, uses, crashes>>

Publish ==
  /\ call.at = "link"
  /\ artifact' = [artifact EXCEPT ![call.of] = "published"]
  /\ Go(IF call.op = "load" THEN "handoffs" ELSE "index")
  /\ UNCHANGED <<manifest, scope, intents, evidence, uses, dirty, crashes>>

Index ==
  /\ call.op \in {"create", "repeat"} /\ call.at = "index"
  /\ tracked' = tracked \union {call.of}
  /\ Done
  /\ UNCHANGED <<run, scope, store, uses, crashes>>

-----------------------------------------------------------------------------
\* Mutant: a handoff is read although its document is there.
ReadableFormed(h) ==
  /\ artifact[h] = "published" /\ SameScope(h)
  /\ IF intents[h].plan = 0 THEN Bound /\ run.plan = 0 /\ CurrentFrame
     ELSE run.plan = intents[h].plan

\* readResearchHandoff: the exact Scope and Plan, the document not yet formed.
Readable(h) ==
  /\ artifact[h] = "published" /\ SameScope(h)
  /\ IF intents[h].plan = 0
     THEN Bound /\ run.plan = 0 /\ CurrentFrame /\ Concept \notin tracked
     ELSE run.plan = intents[h].plan
  /\ TargetOf[h] \notin tracked

Read(h) ==
  /\ MayStart /\ reading[h] # "logged"
  /\ Readable(h)
  /\ reading' = [reading EXCEPT ![h] = "prepared"]
  /\ call' = Doing("read", h, "append")
  /\ UNCHANGED <<manifest, scope, store, binds, dirty, crashes>>

Append ==
  /\ call.op = "read"
  /\ reading' = [reading EXCEPT ![call.of] = "logged"]
  /\ Done
  /\ UNCHANGED <<manifest, scope, store, binds, crashes>>

-----------------------------------------------------------------------------
\* publishArtifact and publishArtifactBundle of document d.
MayPublish == MayStart /\ Bound /\ run.status \notin {"waiting", "reporting"}

Release(d) ==
  /\ Sound(tracked)
  /\ artifact[d] = "none"
  /\ artifact' = [artifact EXCEPT ![d] = "published"]
  /\ tracked' = tracked \union {d}

FormScope ==
  /\ MayPublish /\ run.plan = 0
  /\ Release(run.revision)
  /\ first' = IF first = None THEN run.revision ELSE first
  /\ UNCHANGED <<run, decided, stale, intents, evidence, uses, call, dirty, crashes>>

\* The document must name exactly the handoffs that were read for it.
Form(t) ==
  LET read == ReadFor(t, tracked) IN
  /\ MayPublish
  /\ IF t = Concept THEN run.plan = 0 /\ run.revision \in tracked
     ELSE run.plan > 0 /\ run.status = "open"
  /\ \A h \in read : Applies(h, run.plan)
  /\ Release(t)
  /\ binds' = [binds EXCEPT ![t] = [of |-> read, plan |-> run.plan]]
  /\ UNCHANGED <<run, scope, intents, evidence, reading, call, dirty, crashes>>

FirstPlan ==
  /\ MayPublish /\ run.plan = 0 /\ MaxPlan > 0
  /\ run.revision \in tracked /\ Sound(tracked)
  /\ run' = [run EXCEPT !.plan = 1, !.status = "open"]
  /\ UNCHANGED <<tracked, scope, store, uses, call, dirty, crashes>>

RevisePlan ==
  /\ MayPublish /\ run.plan > 0 /\ run.plan < MaxPlan
  /\ Sound(tracked)
  /\ run' = [run EXCEPT !.plan = @ + 1, !.status = "open"]
  /\ UNCHANGED <<tracked, scope, store, uses, call, dirty, crashes>>

\* Mutant: an intent counts as pending only once it has begun.
PendingOnceStarted(h) ==
  /\ intents[h] # None /\ ~(h \in tracked /\ Imported(h))
  /\ h \in tracked \/ Recorded(h) # {}

\* Pending operations, and what other receipts are without their effect.
Pending(h) ==
  /\ intents[h] # None /\ ~(h \in tracked /\ Imported(h))
  /\ h \in tracked \/ Recorded(h) # {} \/ Applicable(h)

Unfinished(h) ==
  \/ Pending(h) \/ reading[h] = "prepared" \/ artifact[h] = "prepared"
  \/ \E i \in ItemsOf[h] : evidence[i] = "prepared"

\* Tried without load-run as well: the pending operations must refuse it.
Close ==
  /\ call = Idle /\ Bound
  /\ run.plan > 0 /\ run.status = "open"
  /\ Sound(tracked)
  /\ \A h \in Handoff : ~Unfinished(h)
  /\ run' = [run EXCEPT !.status = "reporting"]
  /\ UNCHANGED <<tracked, scope, store, uses, call, dirty, crashes>>

-----------------------------------------------------------------------------
\* A Scope decision may come before load-run, once there is a Plan.
MayRevise ==
  /\ call = Idle /\ Bound
  /\ RecoverFirst /\ dirty => run.plan > 0

ProposeScope ==
  /\ MayRevise /\ run.status \in {"open", "unclear"}
  /\ run.revision < MaxRevision
  /\ decided' = [revision |-> run.revision + 1, confirmed |-> FALSE]
  /\ stale' = {}
  /\ call' = Doing("scope", None, "decided")
  /\ UNCHANGED <<manifest, first, store, uses, dirty, crashes>>

\* Mutant: the handoffs of the old Scope stay.
FormationOnly == Published \intersect (Revision \union {Concept})

\* prePlanFormationRefsLocked
PrePlanFormation ==
  {d \in Published : \/ d \in Revision \union {Concept}
                     \/ d \in Handoff /\ intents[d].plan = 0}

ConfirmScope ==
  /\ MayRevise /\ run.status = "waiting"
  /\ decided' = [decided EXCEPT !.confirmed = TRUE]
  /\ stale' = IF run.plan = 0 THEN PrePlanFormation ELSE {}
  /\ call' = Doing("scope", None, "decided")
  /\ UNCHANGED <<manifest, first, store, uses, dirty, crashes>>

\* bindLatestScopeState; a decision the Manifest has leaves it alone.
Rebound ==
  IF Bound THEN run
  ELSE [run EXCEPT !.revision = decided.revision,
                   !.status = IF decided.confirmed THEN "unclear" ELSE "waiting"]

IndexScope ==
  /\ call.op = "scope"
  /\ run' = Rebound
  /\ tracked' = tracked \ stale
  /\ Done
  /\ UNCHANGED <<scope, store, uses, crashes>>

-----------------------------------------------------------------------------
LoadStart ==
  /\ call \in {Idle, Refused}
  /\ call' = Doing("load", None, "evidence")
  /\ UNCHANGED <<manifest, scope, store, uses, dirty, crashes>>

LoadEvidence ==
  /\ call.at = "evidence"
  /\ evidence' = [i \in Item |-> IF evidence[i] = "prepared" THEN "recorded" ELSE evidence[i]]
  /\ Go("artifacts")
  /\ UNCHANGED <<manifest, scope, intents, artifact, uses, dirty, crashes>>

LoadArtifacts ==
  /\ call.at = "artifacts"
  /\ artifact' = [d \in Doc |-> IF artifact[d] = "prepared" THEN "published" ELSE artifact[d]]
  /\ call' = [call EXCEPT !.at = "handoffs", !.todo = {h \in Handoff : intents[h] # None}]
  /\ UNCHANGED <<manifest, scope, intents, evidence, uses, dirty, crashes>>

\* Mutant: only intents nothing was done for are looked at again.
ReplayUnstarted(h) ==
  /\ call.at = "handoffs" /\ h \in call.todo
  /\ call' = IF Applicable(h) /\ ~Started(h)
             THEN [call EXCEPT !.of = h, !.at = "import", !.todo = @ \ {h}]
             ELSE [call EXCEPT !.todo = @ \ {h}]
  /\ UNCHANGED <<manifest, scope, store, uses, dirty, crashes>>

\* A Manifest behind the Scope decisions has no exact ScopeFrame.
Unresolved(h) == ~Bound /\ ~Started(h) /\ PrePlanApplicable(h)

\* replayResearchHandoffIntentLocked, on the Manifest as it was left.
Replay(h) ==
  /\ call.at = "handoffs" /\ h \in call.todo
  /\ ~Unresolved(h)
  /\ call' = IF ~Durable(h) /\ Replayable(h)
             THEN [call EXCEPT !.of = h, !.at = "import", !.todo = @ \ {h}]
             ELSE [call EXCEPT !.todo = @ \ {h}]
  /\ UNCHANGED <<manifest, scope, store, uses, dirty, crashes>>

LoadLogs ==
  /\ call.at = "handoffs" /\ call.todo = {}
  /\ reading' = [h \in Handoff |-> IF reading[h] = "prepared" THEN "logged" ELSE reading[h]]
  /\ Go("manifest")
  /\ UNCHANGED <<manifest, scope, store, binds, dirty, crashes>>

\* Mutant: the Manifest keeps the documents it had.
LoadKeepsIndex ==
  /\ call.at = "manifest" /\ Sound(Published \ stale)
  /\ run' = Rebound
  /\ tracked' = tracked \ stale
  /\ call' = Idle /\ dirty' = FALSE
  /\ UNCHANGED <<scope, store, uses, crashes>>

\* The Manifest is rebuilt over every published document that is not stale.
Load ==
  /\ call.at = "manifest" /\ Sound(Published \ stale)
  /\ run' = Rebound
  /\ tracked' = Published \ stale
  /\ call' = Idle /\ dirty' = FALSE
  /\ UNCHANGED <<scope, store, uses, crashes>>

\* The exact Scope of an intent cannot be looked up, or references are missing.
LoadFails ==
  \/ call.at = "handoffs" /\ \E h \in call.todo : Unresolved(h)
  \/ call.at = "publish" /\ ~Admitted
  \/ call.at = "manifest" /\ ~Sound(Published \ stale)

LoadRefused ==
  /\ call.op = "load" /\ LoadFails
  /\ call' = Refused
  /\ UNCHANGED <<manifest, scope, store, uses, dirty, crashes>>

\* The process dies.  The Scope decision that came before load-run is spared
\* where callers run load-run.
Crash ==
  /\ call \notin {Idle, Refused} /\ crashes < MaxCrash
  /\ RecoverFirst /\ dirty => call.op # "scope"
  /\ crashes' = crashes + 1
  /\ Abort
  /\ UNCHANGED <<manifest, scope, store, uses>>

-----------------------------------------------------------------------------
Capturing ==
  \/ \E i \in Item : PrepareItem(i) \/ RecordItem(i)
  \/ Imports \/ Check \/ Prepare \/ PublishRefused \/ Publish \/ Index

Loading ==
  \/ LoadEvidence \/ LoadArtifacts \/ (\E h \in Handoff : Replay(h))
  \/ LoadLogs \/ Load \/ LoadRefused

Progress == Capturing \/ Append \/ IndexScope \/ Loading

Next ==
  \/ \E h \in Handoff : Create(h) \/ Repeat(h) \/ Read(h)
  \/ \E t \in Target : Form(t)
  \/ FormScope \/ FirstPlan \/ RevisePlan \/ Close
  \/ ProposeScope \/ ConfirmScope
  \/ LoadStart \/ Progress \/ Crash

Spec == Init /\ [][Next]_vars

\* A call goes on by itself; a Run cut short is loaded in the end.
FairSpec == Spec /\ WF_vars(Progress) /\ SF_vars(LoadStart /\ dirty)

-----------------------------------------------------------------------------
\* In the Manifest, unless the Scope it was formed under has been corrected.
Complete(h) ==
  /\ Durable(h)
  /\ h \in tracked \/ (intents[h].plan = 0 /\ intents[h].revision < run.revision)

\* The ScopeFrame an intent names has been superseded.
Misbound(h) == intents[h] # None /\ intents[h].plan > 0 /\ intents[h].scope \notin tracked

\* Types; only what is published is in the Manifest or is read, and nothing is
\* done for a handoff without an intent.
TypeOK ==
  /\ run \in [revision : Revision, status : Status, plan : 0 .. MaxPlan]
  /\ tracked \subseteq Doc /\ stale \subseteq Doc
  /\ decided \in [revision : Revision, confirmed : BOOLEAN]
  /\ first \in Revision \union {None}
  /\ intents \in [Handoff -> Intent \union {None}]
  /\ evidence \in [Item -> {"none", "prepared", "recorded"}]
  /\ artifact \in [Doc -> {"none", "prepared", "published"}]
  /\ binds \in [Target -> [of : SUBSET Handoff, plan : 0 .. MaxPlan]]
  /\ reading \in [Handoff -> {"none", "prepared", "logged"}]
  /\ call.of \in Handoff \union {None} /\ call.todo \subseteq Handoff
  /\ dirty \in BOOLEAN /\ crashes \in 0 .. MaxCrash
  /\ tracked \subseteq Published
  /\ \A h \in Handoff : reading[h] # "none" => artifact[h] = "published"
  /\ \A h \in Handoff : ~Untouched(h) => intents[h] # None

\* Once load-run has finished, a handoff is in the Run as a whole or has left
\* nothing but its intent (recoverResearchHandoffOperationsLocked).
WholeOnceOpen ==
  call = Idle /\ ~dirty => \A h \in Handoff : Complete(h) \/ Untouched(h)

\* load-run opens every Run but one whose handoff names a superseded ScopeFrame.
LoadAccepts == call = Refused => \E h \in Handoff : Misbound(h)

\* A handoff none of which is there is not begun once its Scope or its Plan has
\* been replaced (run-store.ts:10822).
StaleNeverStarts ==
  [][\A h \in Handoff :
       Untouched(h) /\ ~Untouched(h)' =>
         /\ intents[h].revision = decided.revision
         /\ intents[h].plan = run.plan]_vars

\* A report is written over whole handoffs, whatever is reopened afterwards.
ReportSeesWhole ==
  run.status = "reporting" => \A h \in Handoff : Complete(h) \/ Untouched(h)

\* A handoff that is begun is whole in the end, unless the Run cannot be opened.
BegunIsFinished ==
  \A h \in Handoff : ~Untouched(h) ~> Complete(h) \/ call = Refused

\* A handoff at the Scope and Plan of the Run names a ScopeFrame of the Run.
BindsCurrentScope ==
  \A h \in Handoff :
    intents[h] # None /\ SameScope(h) /\ intents[h].plan = run.plan =>
      intents[h].scope \in tracked

Exchange == INSTANCE HandoffExchange WITH
  held <- tracked \intersect Handoff,
  read <- {h \in Handoff : reading[h] = "logged"},
  formed <- [t \in Target |-> IF t \in tracked THEN binds[t].of ELSE None]

\* Whole, read before it is used, named by what was formed from it.
ImplementsExchange == Exchange!Spec
=============================================================================
