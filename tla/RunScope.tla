------------------------------ MODULE RunScope ------------------------------
(***************************************************************************)
(* The Scope of one Run and its recovery (run-store/run-store.ts):         *)
(* proposeScope, confirmScope, publishArtifact, checkpoint, the Plan       *)
(* Revision that reconciles a Scope, and load-run.                         *)
(*                                                                         *)
(* A call reads the Manifest, decides, and queues its durable writes; it   *)
(* may die between any two of them.  load-run rebuilds the Manifest from   *)
(* the latest checkpoint, the decision log and the Artifacts published     *)
(* since.  The Run lock (RunLock), the writes inside one publication       *)
(* (ArtifactStore) or one log record (JsonlLog) and those of a Plan        *)
(* Revision are single steps here; clarification is only asked for by a    *)
(* Scope revision.                                                         *)
(***************************************************************************)
EXTENDS Integers, FiniteSets, SequencesExt

CONSTANTS Text,            \* contents a Scope proposal may have
          MaxRevision,     \* bound: Scope revisions proposed
          MaxCrash,        \* bound: interrupted calls
          RecoverFirst,    \* callers run load-run after an interrupted call
          CheckpointFirst, \* callers checkpoint before they propose a Scope
          None

ASSUME BoundAssumption ==
  /\ MaxRevision \in Nat \ {0} /\ MaxCrash \in Nat
  /\ RecoverFirst \in BOOLEAN /\ CheckpointFirst \in BOOLEAN

VARIABLES
  receipts,  \* Scope decisions with a durable log receipt
  log,       \* those in decisions.jsonl
  ledger,    \* formal Artifacts in order of publication
  snapshot,  \* Manifest of the latest checkpoint
  manifest,  \* manifest.json
  todo,      \* durable writes the call in progress has still to do
  dirty,     \* a call was interrupted since the last complete load-run
  crashes,   \* how many were
  goal       \* history: Manifests before and after the last call begun

disk == <<receipts, log, ledger, snapshot, manifest>>
bounds == <<dirty, crashes>>
vars == <<disk, todo, bounds, goal>>

-----------------------------------------------------------------------------
Revision == 1 .. MaxRevision
Waiting == "awaiting_scope_confirmation"
Unclear == "needs_clarification"
Researching == {"planned", "researching"}
Status == Researching \union {"created", Waiting, Unclear}

\* An Artifact stands for the documents of its kind made for one Scope revision.
Kind == {"formation", "plan", "dispatch", "result", "adaptation", "revision"}
Artifact == [kind : Kind, scope : Revision]
Make(kind, scope) == [kind |-> kind, scope |-> scope]

Proposal(rev, text) ==
  [type |-> "proposal", rev |-> rev, text |-> text, stale |-> {}]
Confirmation(p, stale) ==
  [type |-> "confirmation", rev |-> p.rev, text |-> p.text, stale |-> stale]

Decision == [type : {"proposal", "confirmation"}, rev : Revision, text : Text,
             stale : SUBSET Artifact]

ManifestType ==
  [status : Status, before : Status \union {None},
   proposal : Decision, confirmation : Decision \union {None},
   plan : Artifact \union {None}, refs : SUBSET Artifact,
   active : SUBSET Revision, completed : SUBSET Revision,
   pending : SUBSET Artifact, rejected : SUBSET Artifact, applied : SUBSET Artifact]

ASSUME NoneAssumption == None \notin Status \union Artifact \union Decision

Proposals(D) == {d \in D : d.type = "proposal"}
Confirmations(D) == {d \in D : d.type = "confirmation"}

\* latestScopeState: one proposal for each revision, each but the last confirmed,
\* and every confirmation of the text that was proposed.
HistoryValid(D) ==
  LET last == Cardinality(Proposals(D)) IN
  /\ {d.rev : d \in Proposals(D)} = 1 .. last
  /\ \A c \in Confirmations(D) : \E p \in Proposals(D) : c.rev = p.rev /\ c.text = p.text
  /\ \A c, d \in Confirmations(D) : c.rev = d.rev => c = d
  /\ \A p \in Proposals(D) : p.rev < last => \E c \in Confirmations(D) : c.rev = p.rev

LatestProposal(D) == CHOOSE p \in Proposals(D) : \A q \in Proposals(D) : q.rev <= p.rev

LatestConfirmation(D) ==
  LET own == {c \in Confirmations(D) : c.rev = LatestProposal(D).rev}
  IN  IF own = {} THEN None ELSE CHOOSE c \in own : TRUE

\* assertScopeBindingLocked
Bound(m, D) ==
  /\ HistoryValid(D)
  /\ m.proposal = LatestProposal(D)
  /\ m.confirmation = LatestConfirmation(D)
  /\ m.confirmation = None <=> m.status = Waiting

\* The run-manifest schema.
Valid(m) ==
  /\ m \in ManifestType
  /\ m.status = Unclear => m.before # None
  /\ m.status \notin {Unclear, Waiting} => m.before = None
  /\ m.status = Waiting <=> m.confirmation = None

FirstManifest(p) ==
  [status |-> Waiting, before |-> None, proposal |-> p, confirmation |-> None,
   plan |-> None, refs |-> {}, active |-> {}, completed |-> {},
   pending |-> {}, rejected |-> {}, applied |-> {}]

Init ==
  /\ \E text \in Text :
       /\ log = {Proposal(1, text)}
       /\ manifest = FirstManifest(Proposal(1, text))
  /\ receipts = log /\ snapshot = manifest
  /\ ledger = <<>> /\ todo = <<>>
  /\ dirty = FALSE /\ crashes = 0
  /\ goal = {manifest}

-----------------------------------------------------------------------------
\* applyPublishedEnvelope: what an Artifact does to the Manifest m.
Project(m, a) ==
  LET n == [m EXCEPT !.refs = @ \union {a}] IN
  CASE a.kind = "plan" /\ m.plan = None ->
         [n EXCEPT !.status = "planned", !.before = None, !.plan = a]
    [] a.kind = "dispatch" ->
         [n EXCEPT !.status = "researching", !.active = @ \union {a.scope},
                   !.completed = @ \ {a.scope}]
    [] a.kind = "result" ->
         [n EXCEPT !.active = @ \ {a.scope}, !.completed = @ \union {a.scope}]
    [] a.kind = "adaptation" /\ a \notin m.rejected \union m.applied ->
         [n EXCEPT !.pending = @ \union {a}]
    [] OTHER -> n

\* Only the first Plan of a Run leaves needs_clarification this way.
Apply(m, a, prePlan) ==
  IF m.status = Unclear /\ ~(prePlan /\ m.plan = None /\ a.kind = "plan")
  THEN [Project(m, a) EXCEPT !.status = m.status, !.before = m.before]
  ELSE Project(m, a)

\* Mutant: the latest decision is bound, its consequence for the status is not.
RebindResumes(m, D) ==
  LET p == LatestProposal(D)
      c == LatestConfirmation(D)
      status == IF c = None THEN Waiting
                ELSE IF m.status = Waiting
                     THEN IF m.before = None THEN "created" ELSE m.before
                     ELSE m.status
  IN  [m EXCEPT !.status = status, !.before = None, !.proposal = p, !.confirmation = c]

\* bindLatestScopeState
Rebind(m, D) ==
  LET p == LatestProposal(D)
      c == LatestConfirmation(D)
      confirmed == c # m.confirmation
      resumed == IF m.before # None THEN m.before
                 ELSE IF m.plan = None THEN "created" ELSE None
      prior == IF p = m.proposal THEN m.before
               ELSE IF m.status \in {Waiting, Unclear} THEN resumed ELSE m.status
      status == IF c = None THEN Waiting
                ELSE IF ~confirmed THEN m.status
                ELSE IF p.rev = 1 THEN "created" ELSE Unclear
      superseded == IF c # None /\ confirmed /\ p.rev > 1 THEN m.pending ELSE {}
  IN  [m EXCEPT !.status = status,
                !.before = IF c # None /\ p.rev = 1 THEN None ELSE prior,
                !.proposal = p, !.confirmation = c,
                !.pending = @ \ superseded, !.rejected = @ \union superseded]

-----------------------------------------------------------------------------
Idle == todo = <<>>

MayStart == Idle /\ (RecoverFirst => ~dirty) /\ Bound(manifest, log)

Put(write, value) == [write |-> write, value |-> value]
Index(m) == Put("manifest", m)
Record(d, m) == <<Put("receipt", d), Put("line", d), Index(m)>>

Begin(writes, m) ==
  /\ todo' = writes
  /\ goal' = {manifest, m}
  /\ UNCHANGED <<disk, bounds>>

\* The Manifest while revision p awaits its confirmation.
Proposed(p) ==
  [manifest EXCEPT !.status = Waiting,
     !.before = IF manifest.status = Unclear THEN @ ELSE manifest.status,
     !.proposal = p, !.confirmation = None]

\* Mutant: the Manifest is replaced before the decision is logged.
ProposeIndexFirst(text) ==
  LET p == Proposal(manifest.proposal.rev + 1, text) IN
  /\ MayStart /\ manifest.status # Waiting
  /\ p.rev <= MaxRevision
  /\ CheckpointFirst => snapshot = manifest
  /\ Begin(<<Index(Proposed(p)), Put("receipt", p), Put("line", p)>>, Proposed(p))

\* Mutant: the confirmation of the revision before is kept.
ProposeKeepsConfirmation(text) ==
  LET p == Proposal(manifest.proposal.rev + 1, text)
      m == [Proposed(p) EXCEPT !.confirmation = manifest.confirmation]
  IN  /\ MayStart /\ manifest.status # Waiting
      /\ p.rev <= MaxRevision
      /\ CheckpointFirst => snapshot = manifest
      /\ Begin(Record(p, m), m)

ProposeScope(text) ==
  LET p == Proposal(manifest.proposal.rev + 1, text) IN
  /\ MayStart /\ manifest.status # Waiting
  /\ p.rev <= MaxRevision
  /\ CheckpointFirst => snapshot = manifest
  /\ Begin(Record(p, Proposed(p)), Proposed(p))

\* prePlanFormationRefsLocked: only a Run without a Plan supersedes formation.
Superseded ==
  IF manifest.plan = None THEN {a \in ToSet(ledger) : a.kind = "formation"} ELSE {}

\* Mutant: a confirmed correction resumes what was going on before it.
ConfirmedResumes(c) ==
  [manifest EXCEPT !.status = IF manifest.before = None THEN "created" ELSE manifest.before,
     !.before = None, !.confirmation = c]

\* The Manifest once its proposal is confirmed by c.
Confirmed(c) ==
  LET first == c.rev = 1 IN
  [manifest EXCEPT !.status = IF first THEN "created" ELSE Unclear,
     !.before = IF first THEN None ELSE @,
     !.confirmation = c,
     !.pending = IF first THEN @ ELSE {},
     !.rejected = IF first THEN @ ELSE @ \union manifest.pending,
     !.refs = IF first THEN @ ELSE @ \ c.stale]

ConfirmScope ==
  LET c == Confirmation(manifest.proposal, Superseded) IN
  /\ MayStart /\ manifest.status = Waiting
  /\ Begin(Record(c, Confirmed(c)), Confirmed(c))

\* Mutant: publications are not refused while a Scope awaits confirmation.
AllowsAnyStatus ==
  IF manifest.status = Unclear /\ manifest.plan # None THEN {"adaptation"} ELSE Kind \ {"revision"}

\* assertTransitionReadyLocked, scopeReconciliationArtifactTypeAllowed
Allows ==
  CASE manifest.status = Waiting -> {}
    [] manifest.status = Unclear /\ manifest.plan # None -> {"adaptation"}
    [] OTHER -> Kind \ {"revision"}

\* What each kind of Artifact needs in the current Run: formation and control
\* documents the Scope, dispatches the Plan, results a dispatched unit.
Ready(a) ==
  CASE a.kind = "formation" ->
         manifest.plan = None /\ a.scope = manifest.proposal.rev
    [] a.kind = "plan" ->
         /\ manifest.plan = None /\ a.scope = manifest.proposal.rev
         /\ Make("formation", a.scope) \in ToSet(ledger)
         /\ \A b \in ToSet(ledger) : b.kind = "plan" => b = a  \* one path
    [] a.kind = "dispatch" ->
         manifest.plan # None /\ a.scope = manifest.plan.scope
    [] a.kind = "result" -> a.scope \in manifest.active
    [] OTHER -> manifest.plan # None /\ a.scope = manifest.proposal.rev

\* publishArtifact; an Artifact that is published but not in the Manifest is an
\* idempotent replay, one that is in both changes nothing and is left out.
Publish(a) ==
  LET m == Apply(manifest, a, TRUE)
      writes == IF a \in ToSet(ledger) THEN <<Index(m)>> ELSE <<Put("formal", a), Index(m)>>
  IN  /\ MayStart
      /\ a.kind \in Allows /\ Ready(a)
      /\ a \notin manifest.refs
      /\ Begin(writes, m)

Checkpoint ==
  /\ MayStart /\ manifest.status # Waiting
  /\ snapshot # manifest
  /\ Begin(<<Put("snapshot", manifest)>>, manifest)

\* apply-plan-revision for a confirmed Scope: Plan, Manifest and checkpoint.
ReconcilePlan ==
  LET rev == manifest.proposal.rev
      a == Make("adaptation", rev)
      r == Make("revision", rev)
      m == [manifest EXCEPT !.status = manifest.before, !.before = None, !.plan = r,
              !.refs = @ \union {r}, !.pending = @ \ {a}, !.applied = @ \union {a}]
  IN  /\ MayStart /\ manifest.status = Unclear
      /\ manifest.plan # None /\ a \in manifest.pending
      /\ manifest' = m /\ snapshot' = m
      /\ ledger' = Append(ledger, r)
      /\ goal' = {manifest, m}
      /\ UNCHANGED <<receipts, log, todo, bounds>>

\* The call in progress does its next durable write.
Write ==
  LET w == Head(todo) IN
  /\ ~Idle
  /\ todo' = Tail(todo)
  /\ receipts' = IF w.write = "receipt" THEN receipts \union {w.value} ELSE receipts
  /\ log' = IF w.write = "line" THEN log \union {w.value} ELSE log
  /\ ledger' = IF w.write = "formal" THEN Append(ledger, w.value) ELSE ledger
  /\ snapshot' = IF w.write = "snapshot" THEN w.value ELSE snapshot
  /\ manifest' = IF w.write = "manifest" THEN w.value ELSE manifest
  /\ dirty' = IF w.write = "opened" THEN FALSE ELSE dirty
  /\ UNCHANGED <<crashes, goal>>

\* The process dies before its next write.
Crash ==
  /\ ~Idle /\ crashes < MaxCrash
  /\ crashes' = crashes + 1
  /\ dirty' = TRUE
  /\ todo' = <<>>
  /\ UNCHANGED <<disk, goal>>

-----------------------------------------------------------------------------
\* recoverLocked works on the repaired log.
Repaired == log \union receipts

\* The latest snapshot, bound to the latest Scope decisions.
Rebound ==
  Rebind([snapshot EXCEPT !.before = IF manifest.before # None THEN manifest.before ELSE @,
                          !.refs = @ \union ToSet(ledger)],
         Repaired)

\* Mutant: formation a confirmed revision superseded comes back.
NothingStale == {}

\* Formation the latest Scope confirmation superseded.
Stale ==
  IF Rebound.proposal.rev > 1 /\ Rebound.confirmation # None
  THEN Rebound.confirmation.stale ELSE {}

PrePlanAllowed ==
  \/ manifest.plan = None
  \/ manifest.proposal.rev = Rebound.proposal.rev /\ manifest.status # Unclear

\* What the Artifact a makes of the Manifests M; the checkpoint knows the earlier
\* ones, and none is left once one is invalid.
Replay(M, a) ==
  IF a \in snapshot.refs \union Stale THEN M
  ELSE {m \in {Apply(n, a, PrePlanAllowed) : n \in M} : Valid(m)}

\* The Manifest after the first k Artifacts, in order of publication.
Projected[k \in 0 .. Len(ledger)] ==
  IF k = 0 THEN {[Rebound EXCEPT !.refs = @ \ Stale]}
  ELSE Replay(Projected[k - 1], ledger[k])

\* The Manifest load-run restores; none when it refuses the Run.
Recovery ==
  IF HistoryValid(Repaired)
  THEN {m \in Projected[Len(ledger)] : Valid(m) /\ Bound(m, Repaired)}
  ELSE {}

\* Mutant: a Manifest behind the log is refused.
LoadBoundOnly ==
  /\ Idle /\ Bound(manifest, log)
  /\ log' = Repaired
  /\ \E m \in Recovery : todo' = <<Index(m), Put("opened", m)>>
  /\ UNCHANGED <<receipts, ledger, snapshot, manifest, bounds, goal>>

\* load-run: the log is repaired before the rest is checked.
Load ==
  /\ Idle
  /\ log' = Repaired
  /\ \/ \E m \in Recovery : todo' = <<Index(m), Put("opened", m)>>
     \/ Recovery = {} /\ UNCHANGED todo
  /\ UNCHANGED <<receipts, ledger, snapshot, manifest, bounds, goal>>

Next ==
  \/ \E text \in Text : ProposeScope(text)
  \/ ConfirmScope
  \/ \E a \in Artifact : Publish(a)
  \/ Checkpoint \/ ReconcilePlan
  \/ Load
  \/ Write \/ Crash

Spec == Init /\ [][Next]_vars

\* A call goes on by itself; load-run is run again after an interruption.
FairSpec == Spec /\ WF_vars(Write) /\ WF_vars(Load /\ dirty)

-----------------------------------------------------------------------------
\* Types; every Manifest on disk is valid against its schema.
TypeOK ==
  /\ receipts \subseteq Decision /\ log \subseteq receipts
  /\ ledger \in Seq(Artifact)
  /\ \A m \in {manifest, snapshot} \union goal : Valid(m)
  /\ \A w \in ToSet(todo) :
       w.write \in {"receipt", "line", "formal", "snapshot", "manifest", "opened"}
  /\ dirty \in BOOLEAN /\ crashes \in 0 .. MaxCrash

\* load-run never refuses a Run its own operations produced (recoverLocked, L10561-10576).
LoadAccepts == Idle => Recovery # {}

\* No research status while the Plan was made for another Scope than the
\* confirmed one (docs/operations.md L64).
NoUnreconciledResearch ==
  manifest.status \in Researching =>
    manifest.plan # None /\ manifest.plan.scope = manifest.proposal.rev

\* Formation a correction before the latest one superseded.
Withdrawn ==
  UNION {c.stale : c \in {e \in Confirmations(Repaired) : e.rev < LatestProposal(Repaired).rev}}

\* m is the Manifest g, but for such formation.
Restores(m, g) ==
  /\ m = [g EXCEPT !.refs = m.refs]
  /\ g.refs \subseteq m.refs /\ m.refs \subseteq g.refs \union Withdrawn

\* load-run changes nothing in a Run no call of which was interrupted, and gives
\* an interrupted call its whole effect or none; but it may bring back formation
\* that an earlier correction superseded (SupersededStaysOut).
LoadRestores ==
  Idle => \A m \in Recovery :
    \E g \in IF dirty THEN goal ELSE {manifest} : Restores(m, g)

\* Formation that a confirmed correction superseded before the first Plan never
\* comes back into the Manifest, however many corrections follow
\* (run-store.ts:5974, "cannot reuse formation bytes superseded at confirmation").
SupersededStaysOut ==
  Idle /\ ~dirty => \A c \in Confirmations(log) : c.stale \intersect manifest.refs = {}

\* The Scope of the Manifest never goes back to an earlier decision, not by
\* load-run from an older checkpoint either.
ScopeNeverReverts ==
  [][/\ manifest.proposal.rev <= manifest'.proposal.rev
     /\ manifest.proposal.rev = manifest'.proposal.rev =>
          /\ manifest'.proposal = manifest.proposal
          /\ manifest.confirmation \in {None, manifest'.confirmation}]_vars

\* Nothing is published while the latest Scope on record awaits confirmation, an
\* interrupted proposal included (docs/operations.md L64).
UnconfirmedBlocks ==
  [][ledger' # ledger => LatestConfirmation(log) # None]_vars

\* Once callers run load-run, an interrupted Run is reopened.
InterruptedRunReopens == dirty ~> ~dirty

\* The Scope revision of the last Plan published, 0 without one.
PlanAt == {k \in DOMAIN ledger : ledger[k].kind \in {"plan", "revision"}}
LatestPlan == IF PlanAt = {} THEN 0 ELSE ledger[Max(PlanAt)].scope

Gate == INSTANCE ScopeGate WITH
  proposed <- Max({d.rev : d \in Proposals(log)}),
  confirmed <- Max({0} \union {d.rev : d \in Confirmations(log)}),
  planned <- LatestPlan,
  researched <- {a.scope : a \in {b \in ToSet(ledger) : b.kind = "dispatch"}}

\* What is durable implements the gate: a confirmed and reconciled Scope before
\* research, one revision at a time.
ImplementsGate == Gate!Spec
=============================================================================
