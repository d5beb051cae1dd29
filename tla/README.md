# A verification of the Run harness

The repository is a harness for startup-opportunity research. An agent drives it
through commands; everything a research project produces lives in one directory,
the *Run*, and every command may be interrupted at any moment. The harness is a
storage system without a database: immutable files, hash-chained commits,
receipts, append-only logs, a mutable index (`manifest.json`), one lock file, and
one recovery command, `load-run`. These modules model that storage system and the
protocols built on it: the Scope of a Run, its Plan operations, the lineage of
Runs, and what one Run takes over from another.

## 1. The system

All paths are under `src/harness/src/` unless they say otherwise.

### Components

| Component | State it keeps | Operations | What makes it correct | Here |
|---|---|---|---|---|
| Run lock (`artifact-store/run-lock.ts`) | lock file with the owner's pid | `withLock` and its three instances | one caller inside at a time; a dead owner's lock is taken over, and no other | RunLock |
| Artifact Store (`artifact-store/artifact-store.ts`, `atomic-file.ts`) | formal files, `.store/operations` receipts, `.store/publications` chain, `.store/temp` | `publish`, `publishBundle`, `recover` | files never replaced, chain in order of publication and backed by files, bundles completed, recovery always possible | ArtifactStore |
| Record logs (`run-store/jsonl-store.ts`) | `events.jsonl`, `decisions.jsonl` and their receipts | `appendValidated`, `repair` | append-only, one record for each identity, each durable intent logged | JsonlLog |
| Evidence Store (`evidence-store/evidence-store.ts`) | content-addressed raw files, receipts, `evidence/manifest.jsonl` | `record`, `recover`, readers | content before record, one record for an operation, repeated calls harmless | EvidenceStore |
| Run Store: Scope, Manifest, checkpoint, load-run (`run-store/run-store.ts`) | `manifest.json`, checkpoints, Scope decisions | `proposeScope`, `confirmScope`, `publishArtifact`, `checkpoint`, `load-run` | no research without a confirmed and reconciled Scope; `load-run` restores the Manifest from checkpoint, log and Artifacts | RunScope |
| Plan Revision runtime (`adaptation/plan-runtime.ts`) | operation receipts, control bundles, Plan, Manifest, checkpoint, events | `apply-plan-revision`, the recovery every call makes first | each intent carried through once, one line of Plans, nothing another call put into the Manifest is lost | PlanOperation |
| Run creation, continuation, technical restart (`run-store/run-store.ts`, `continuation-guard.ts`) | `.continuations`, `.technical-restarts` of the runs root | `create`, `load-run` of a replacement, closure as a runtime failure | a Run is never public before the Run it succeeds is blocked; one replacement; nothing committed taken back | RunLineage |
| Research handoffs (`run-store/run-store.ts`, `validators/research-handoff-validator.ts`) | handoff intents, imported Evidence, one Artifact, consumption decisions | `create-research-handoff`, `read-research-handoff`, replay by `load-run` | whole or not there, never begun under a replaced Scope or Plan, named by what was formed from it | ResearchHandoff |
| Pre-candidate confirmations, prior input, reformation (`run-store/run-store.ts`) | decisions and Artifacts | one operation each | | not modelled, see section 8 |
| Lane lifecycle (`runtime/dispatch-launch-registry.ts`, `lane-materializer.ts`, ...) | launch registrations, attempts, closeouts | register, materialize, close | one delivery for each unit | not modelled, see section 8 |
| Reporting (`reporting/*`) | report sources, sidecars, views | render, materialize, recover | views agree with their source | the terminal report is one step of PlanOperation |
| Declarative Runtime (`runtime/declarative-runtime.ts`) | compiled publication plans | compile, publish | a stale plan is refused | not modelled, see section 8 |
| Planning, validators, compiler, comparison, schemas, CLI, MCP server, hooks | none of a Run | pure functions, transports | | not modelled, see section 8 |

### How they interact

Every mutation of a Run is made inside `withRunLock`, so the stores below the lock
see one call at a time and no interleaving: their hazard is not another thread but
the *next* call, made over whatever an interrupted one left. The Run Store calls
the Artifact Store (formal files), a record log (decisions, events), the Evidence
Store, and replaces `manifest.json` at the end; none of these writes is atomic with
another. `load-run` calls each component's recovery in turn, then rebuilds the
Manifest from the latest checkpoint, the decision log and the Artifacts published
since. Each component refuses to go on over state it cannot explain, so a call that
was interrupted at the wrong place can leave a Run no command opens any more: hence
the two questions each module asks, *is what is on disk right* and *can the Run be
opened again*.

### Hard behaviours

- Two contenders that judge one lock stale, in different processes or in one.
- Death between any two file operations, and inside one (an incomplete temporary or
  an incomplete line).
- Death inside `load-run` itself.
- A repeated call that is almost the same: another timestamp, another Envelope at
  the same path, another text of the same Scope revision.
- Members of a bundle published in part; two operations that share content.
- A Manifest behind the decision log, a checkpoint older than both, and Artifacts
  replayed onto a Scope newer than they are.
- Files or directory entries lost from outside.
- An intent whose Scope or Plan is replaced before it is carried out, by load-run, by
  the same call again, or never.
- Two Runs created at once to succeed the same one, while it is closed or continued.
- A call that recovers another's operation and goes on with the Manifest it read
  before.

`PROJECT.json` lists these as hazards at the line where each bites, with the
properties that cover it or the reason none does.

## 2. Modules

| Module | Models | State in the code |
|---|---|---|
| `RunLock` | `withLock`, `removeStaleLock`, one await at a time | `lock` the lock file; `pc`, `attempt` each call; `alive` what `process.kill(pid, 0)` answers |
| `ArtifactStore` | publication of one Envelope and of bundles, authority receipts, the chain, `recoverLocked`, one file operation at a time | `receipts`, `bundles`, `authority` the files of `.store/operations`; `content` the formal paths; `ledger` the chain; `temp`, `torn` the temporaries; `step`, `job`, `file`, `queue`, `plan` the call in progress |
| `PublicationLedger` | what ArtifactStore promises | `content`, `ledger` |
| `JsonlLog` | `appendValidated`, `repair` | `lines`, `partial` the log; `receipts`, `temp`, `torn`; `step`, `rec` the call |
| `OperationLog` | what JsonlLog promises | `intents`, `records` |
| `EvidenceStore` | `recordPreparedLocked`, `recoverLocked` | `manifest`, `partial`, `receipt`, `raws`, `rawTemp`, `receiptTemp`; `step`, `op`, `at`, `plan` the call |
| `EvidenceLedger` | what EvidenceStore promises | `stored`, `records` |
| `RunScope` | Scope operations, publication into the Manifest, checkpoint, `load-run` | `receipts`, `log` the decisions; `ledger` the Artifacts; `snapshot` the latest checkpoint; `manifest`; `todo` the writes still queued; `goal` a history variable |
| `ScopeGate` | what the Scope of a Run promises | `proposed`, `confirmed`, `planned`, `researched` |
| `PlanOperation` | `apply-plan-revision` and its exact replay, the recovery inside publication, checkpoint, `validate-plan` and `load-run` | `manifest`; `based`, `documents`, `receipts`, `controls`, `reports`, `checkpoints` the files; `applied`, `written` the Events; `pc`, `call`, `view`, `visit`, `job` the call in progress |
| `PlanLine` | what the Plan operations of a Run promise | `plan`, `committed`, `promised`, `announced` |
| `RunLineage` | `create`, `load`, the two leaf guards, the indices of the runs root, several callers at once | `runs`, `parent` the Manifests; `cont`, `receipt`, `proj` the index entries; `call` the callers; `declared` what each Run id may be created as; `born` (history) what each Run was published as |
| `ResearchHandoff` | `createResearchHandoff`, `readResearchHandoff`, their replay, and the Scope, Plan and documents around them | `run`, `tracked` the Manifest; `decided`, `stale`, `first` the Scope; `intents`, `evidence`, `artifact` what a handoff consists of; `binds`, `reading` its use; `call` |
| `HandoffExchange` | what a handoff promises to the Run that takes it in | `held`, `read`, `formed` |
| `*Proofs` | theorems about the module of that name | |
| `MC*` | instances for TLC | |

The modules form two layers. RunLock gives the layer above it one call at a time;
ArtifactStore, JsonlLog and EvidenceStore show that their many file operations
behave as a few atomic ones (each implements its ledger); RunScope then uses those
atomic ones: a decision's receipt, its line, a formal file, a checkpoint, the
Manifest are one write each, with a possible death between any two. PlanOperation and
ResearchHandoff are on the same layer: PlanOperation opens what is one step of
RunScope, a Plan Revision, and ResearchHandoff what one call makes of the Evidence
Store, the Artifact Store and a log together. RunLineage is above a single Run. Each
abstract specification is reached by a refinement mapping with `INSTANCE`:
`PublishesInOrder`, `ImplementsLog`, `ImplementsLedger`, `ImplementsGate`,
`ImplementsLine` and `ImplementsExchange` are `Ledger!Spec`, `Log!Spec`,
`Ledger!Spec`, `Gate!Spec`, `Line!Spec` and `Exchange!Spec`.

Definitions whose comment starts with *Mutant:* are variants of the definition that
follows them with one plausible mistake. Nothing uses them; they are there to be put
in its place, to see that a property notices.

### Actions and code

- **RunLock.** `WriteOwner` to `Throw` are the stretches of `withLock` between two
  awaits: `Acquire`/`Occupied` the two outcomes of `link` (L59-64), `ReadReleased`,
  `ReadLive`, `ReadStale` the outcomes of reading the owner (L21-31), `RemoveStale`
  the `rm` (L32), `ActionEnds`, `Release`, `Throw` the `finally` (L72-79). `Crash`
  and `Reuse` are the operating system's: a process dies; its pid is given away.
- **ArtifactStore.** `Publish`, `PublishBundle` are the entry checks; `Begin` the
  checks of each member (`publishPreparedLocked`); `WriteTemp`, `Link`, `Unlink`
  the three file operations of every installed file, whatever its kind; a commit
  file is named after the chain it extends. `Recover` evaluates all the checks
  `recoverLocked` makes before it changes anything and classifies every receipt;
  `CommitPublished`, `InstallPlanned`, `Discard`, `FillBundle`, `Clean`, `Recovered`
  are its repairs, in the order it makes them. `...Throws` are the refusals in the
  middle of a call.
- **JsonlLog.** `Start` checks identity and tail; `WriteTemp`, `Link`, `Unlink`,
  `WriteLine` are the writes of `appendValidated`; `Repair` cuts the tail and checks
  (L390-436), `Replay` appends what is missing, `Repaired` returns.
- **EvidenceStore.** `Start` to `AppendRecord` are the writes of
  `recordPreparedLocked` (L550-658) in order; `Recover` cuts the tail, checks and
  classifies (L754-862), `Replay` takes up one receipt and `PublishRaw`,
  `UnlinkPublished`, `LogReplayed`, `Discard`, `Clean` do what it needs.
- **RunScope.** `ProposeScope`, `ConfirmScope`, `Publish`, `Checkpoint`, `Load` make
  a call's checks, work out its effect, and queue its durable writes in the code's
  order; `Write` does the next; `Crash` forgets the rest. `ReconcilePlan` is the
  Plan Revision that reconciles a Scope, in one step. `Rebind`, `Apply`, `Stale`,
  `Replay`, `Recovery` are `bindLatestScopeState`, `applyPublishedEnvelope` and
  `recoverLocked`.
- **PlanOperation.** `Begin` takes the lock, reads the Manifest into `view` and lists
  the receipts; `Pass`, `Resume`, `Refuse` are what `recoverPlanRevisionOperationsLocked`
  does about one (over it, finish it, throw), `Recovered` hands over to the call.
  `PublishIntent`, `Replay`, `EndApply` are `applyLocked` and `prepareOperationLocked`;
  `PublishControls`, `PublishReport`, `Commit`, `PublishCheckpoint`, `AppendApplied`,
  `AppendWritten` the writes of `completeOperation` in order. `StoreItem`/`IndexItem`
  are a publication, `StoreSnapshot`/`IndexSnapshot` a checkpoint, `Restore` the
  Manifest load-run rebuilds. A publication writes back `view` with its item added.
- **RunLineage.** `CreateStart` makes the checks `create` makes before any lock;
  `CreateLock`, `Register`, `Declare`, `Publish`, `Commit`, `Project` are its writes,
  `PublishFails` a rename that fails with its clean-up; `LoadStart`, `Repair`,
  `RepairProjection` are load-run, `Replay` an exact replay of `create`;
  `CloseStart`, `CloseGuard`, `CloseWrite` close a Run as failed. `Guard` and
  `CurrentLeaf` are the two leaf checks, `Superseded`, `ReplacementResolved` what
  `resolveExecution` reports.
- **ResearchHandoff.** `Create` checks and stores the intent; `PrepareItem`,
  `RecordItem` are one Evidence import, `Check` the transition guard the code reaches
  only then, `Prepare`, `Publish` the Artifact, `Index` the Manifest. `Repeat` is the
  same call again, `Read`/`Append` a controlled read. `FormScope`, `Form`,
  `FirstPlan`, `RevisePlan` publish around them, `Close` begins the report,
  `ProposeScope`, `ConfirmScope`, `IndexScope` are a Scope decision: its line, then
  the Manifest. `LoadStart` to `Load` are `recoverLocked` in its order: Evidence,
  Artifacts, handoffs on the Manifest as it was left, logs, and only then the
  Manifest. `Sound` is the part of the reference validation that is about handoffs.

### What is abstracted

- Bytes, hashes and timestamps are identities: an operation, a record, a content.
  A hash-chain commit is the sequence it commits to. Identities that leave out a
  field (a record's timestamp, an Evidence operation's `recorded_at`) keep the
  difference: `IdOf`, `at`.
- ArtifactStore leaves out reference and schema validation, the guards of leaf and
  Scope, and the closeouts that recovery leaves to the Plan runtime.
- JsonlLog leaves out the readers, which change nothing. EvidenceStore leaves out
  the readers and the Scope guard before a record.
- RunScope keeps, of an Artifact, its kind and the Scope revision it was made for;
  one dispatched unit for each revision; clarification only as Scope revisions ask
  for it; revisions of a Plan only as Scope reconciliation asks for them. An exact
  replay of an Artifact that is tracked already, and a checkpoint of a Manifest that
  did not change, change nothing and are left out. Validation of the whole bundle at
  recovery is left out: RunScope refuses only what the Manifest schema, the history
  of decisions and the binding of the two refuse. Evidence is not part of it.

## 3. Runs

| Run | Instance | Shows |
|---|---|---|
| `runlock_safe` | 3 calls, two of them in one process, 2 processes, 2 crashes, pids reused | exclusion is lost only when a contender removed a live holder's lock; every call ends; a dead owner's lock goes |
| `artifacts_safe` | two Envelopes for one checkpoint path, a bundle of two that needs an authority receipt, a third Envelope for the path of a member; 2 interruptions, incomplete temporaries; callers that never reopen | chain backed, files in order and never replaced, bundles completed |
| `artifacts_reopen` | same publications, callers that reopen after an interruption, 2 interruptions, 1 lost file, complete temporaries | load-run is accepted and ends |
| `log_safe` | 3 records, two with one identity, 3 interruptions, incomplete files | log is append-only, one record for an identity, every intent logged, load-run accepted |
| `evidence_safe` | 2 operations that share their bytes, 2 times, 3 interruptions, 1 lost temporary | records backed by receipt and content, each intent recorded once and in the end, load-run accepted |
| `scope_safe` | 2 Scope revisions, 2 crashes; callers checkpoint before a Scope revision and reopen after a crash | load-run accepted, changes nothing or finishes the interrupted call; research only under a reconciled Scope; the Scope never goes back; nothing published under an unconfirmed one; an interrupted Run is open again in the end |
| `scope_superseded` | 3 Scope revisions, no crash | `SupersededStaysOut` fails: finding 1 |
| `plan_safe` | two rival revisions, a closing Decision, a document that waits for operations, 2 interruptions; callers finish what was interrupted first | every intent carried through once and in the end; no Event ahead of what it says; nothing another call put into the Manifest lost; one line of Decisions |
| `lineage_safe` | 3 Runs in every family, and two families in which one Run id is asked for twice, 2 callers that create, continue, replace, load, close and die at any step | never public unregistered; committed entries true; one replacement; a Run under an id that one restart occupies is that restart's and resolves with its source; nothing committed taken back; every restart completed |
| `lineage_race` | same, safety only | `ContinuedStaysOpen` fails: finding 2 |
| `handoff_safe` | one handoff that forms the Concept before the first Plan and one with two items of Evidence, 2 Scope revisions, 2 Plans, 2 interruptions | whole or untouched once the Run is open, finished once begun; none begun under a replaced Scope or Plan; a report sees all; documents name what was read for them; load-run accepted but for finding 3 |
| `handoff_scope` | same, no interruption | `BindsCurrentScope` fails: finding 3 |

`RecoverFirst`, `ResumeFirst` and `CheckpointFirst` are constants
because the code demands none of them: they are habits of callers, under which a
property holds. The documents ask for the first two (docs/operations.md:66,
`.agents/skills/startup-opportunity/SKILL.md:18`,
`adaptation/adaptation-author-runtime.ts:1046`). The third has support in part
only: startup-opportunity-codex-research-harness.md:956 asks for a checkpoint when a
Scope, a Plan or a wave is finished, and says nothing of one before a Scope revision.
It is the habit under which load-run could be trusted after a revision.
What happens to callers without them is in section 7. A hazard that a habit rules out
of the run is listed in `PROJECT.json` with what covers it otherwise, a theorem without
that habit or another run, or with no property and the entry of section 7.
`CHECK_DEADLOCK FALSE` is said where a Run may stop for good: a caller may have nothing
left to do within the bounds, or a Run may be one that every command refuses.

Type invariants of modules whose theorem is listed in section 5 are proved for all
constants; most are not checked once more by a run.

### Bounds, and why they are enough

- `MaxCrash`: a lost publication needs one interruption, a wrong recovery a second
  one inside recovery; JsonlLog and EvidenceStore, whose states are small, get a
  third for the call that retries. The safety properties of the lock
  and the three stores are proved for any number (section 5).
- RunLock: the race needs a stale owner, and two contenders; two calls of one
  process add the case where the pid test sees the contender itself.
- ArtifactStore: two Envelopes for one path are needed for a conflict, two members
  for a bundle published in part, a bundle member wanted by a single publication for
  the preflight checks. `MaxLoss` 1: a lost committed target is restored, or its
  receipt refused.
- EvidenceStore: two operations that share content, two values of `recorded_at`.
- RunScope: two revisions are one correction: before or after formation, a Plan, a
  dispatch or a pending Adaptation. A third brings finding 1, and with it the part of
  `LoadRestores` that is about formation an earlier correction superseded
  (`Withdrawn`): TLC finds the invariants and `ImplementsGate` true with three as well
  (114 637 states), the liveness graph is too large then. The theorems of section 5
  cover any number.
- PlanOperation: two Decisions that make a new Plan are rivals; one that closes the
  Run adds the report; the document tells apart what load-run rebuilds from what an
  operation stored. `MaxPlan`, `MaxTime` 3 let all of them happen one after the
  other. Two interruptions: one in the operation, one in its recovery. `InPlace = {}`
  leaves out Decisions that keep the Plan (`stop_followup`): the
  theorems of section 5 have it, the liveness of `IntentsFinish` is not checked for it.
- RunLineage: `MCDeclared` lists the families of three Runs up to their names, and two
  in which one id is asked for as a restart and as something else, a restart of another
  source or a continuation; with three there are rivals for one source and chains of two. Two callers: every race
  found is one of two calls. Deaths are not counted, the state is finite without.
- ResearchHandoff: `idea` has no Evidence and is read before the Plan, `study` has two
  items, so that a death between them leaves one; two Scope revisions and two Plans
  replace what each intent was made for. As callers reopen first (`RecoverFirst`), an
  intent of which nothing is durable goes stale by its Scope; by its Plan alone it would
  take a new Plan before load-run, so the run does not reach that half of
  `StaleNeverStarts`. A third revision reaches finding 1:
  `WholeOnceOpen`, `ReportSeesWhole` and `StaleNeverStarts` hold there too,
  `LoadAccepts` and `ImplementsExchange` do not. All five are proved, the last two for
  as long as the Scope has been corrected once at most, whatever `MaxRevision` is.

## 4. Fairness

`FairSpec` says two things everywhere. A call in progress goes on (weak fairness of
its next step: the code awaits only file operations, which return). And callers do
run `load-run`: after an interruption (weak fairness of `Recover`, `Repair`,
`Load /\ dirty`), which is what docs/operations.md tells them to do. Callers never
have to start anything else. RunLock has no recovery: only the steps of running
processes are fair; a call need not be made, no process must crash, no pid must be
reused.

EvidenceStore needs strong fairness of `Recover`. A caller may record again and again
while an old intent waits, so recovery is enabled infinitely often and not for ever;
it is fair because a person who has interrupted calls opens the Run again and again.

PlanOperation adds strong fairness of the replay of an unfinished operation: the same
agent that was interrupted is told to replay it, and load-run may come in between any
number of times. RunLineage: each call goes on, also after a death elsewhere, and an
incomplete replacement is loaded again and again; its property is about the time when
no more creations start and no call dies (`Quiet`), for the code does not exclude a
creation that holds the locks whenever load-run tries. ResearchHandoff: as
EvidenceStore, load-run is strongly fair while the Run is dirty.

Three assumptions of ResearchHandoff are about callers who run load-run first: a
Scope decision may overtake an interrupted creation only once there is a Plan and is
then not interrupted itself; a superseded handoff is not created once more; a report
is tried at any time, dirty or not. Section 7 says what happens otherwise.

Liveness checked: `CallEnds`, `StaleLockGoes`, `InterruptedRunReopens` (of
ArtifactStore and of RunScope), `IntentsAreLogged`, `IntentsAreRecorded`,
`IntentsFinish`, `RestartCompletes`, `BegunIsFinished`, and the fairness part of
`ImplementsLine`.

## 5. Proofs

| Theorem | Statement | Assumes |
|---|---|---|
| `RunLockProofs!TypeCorrect`, `Exclusion`, `CrashFreeExclusion` | `TypeOK`, `ExclusiveUnlessDisplaced`, `TakeoverNeedsCrash` always | constants' assumptions only |
| `ArtifactStoreProofs!TypeCorrect`, `ChainIsBacked`, `BundlesComplete`, `ImplementsLedger` | `TypeOK`, `LedgerBacked`, `RecoveryCompletesBundles` always; the ledger is implemented | `MaxLoss = 0` |
| `ArtifactStoreProofs!AlwaysReopens` | `LoadAccepts` always | `MaxLoss = 0`, `RecoverFirst`, `~Tears` |
| `JsonlLogProofs!TypeCorrect`, `TailIsFresh`, `Implements` | `TypeOK`, `PartialOnlyWhenDirty` always; the abstract log is implemented | constants' assumptions only |
| `JsonlLogProofs!AlwaysReopens` | `LoadAccepts` always | `RecoverFirst` |
| `EvidenceStoreProofs!TypeCorrect`, `RecordsStayBacked`, `AlwaysOpens`, `Implements` | `TypeOK`, `RecordsBacked`, `LoadAccepts` always; the ledger is implemented | constants' assumptions only |
| `RunScopeProofs!TypeCorrect`, `LoadRunAccepts`, `LoadRunRestores`, `ResearchIsReconciled`, `KeepsGate` | `TypeOK`, `LoadAccepts`, `LoadRestores`, `NoUnreconciledResearch` always; ScopeGate is implemented | `RecoverFirst`, `CheckpointFirst` |
| `RunScopeProofs!ScopeOnlyAdvances`, `NothingPublishedUnconfirmed` | `ScopeNeverReverts`, `UnconfirmedBlocks` | constants' assumptions only, undisciplined callers included |
| `PlanOperationProofs!TypeCorrect` | `TypeOK` always | constants' assumptions only |
| `PlanOperationProofs!IntentsResumable`, `EventsHaveBacking`, `NothingIsLost`, `ImplementsPlanLine` | `Resumable`, `EventsBacked` always, `NothingLost`, the safety part of PlanLine | `ResumeFirst` |
| `RunLineageProofs!TypeCorrect`, `NeverPublicUnindexed`, `CommittedEntriesAreTrue`, `ReplacedOnce`, `LineageIsFinal` | `TypeOK`, `PublicIsIndexed`, `CommittedIsPublic`, `OneReplacement` always, `SuccessionIsFinal` | constants' assumptions only |
| `RunLineageProofs!ReplacementResolves` | `ReplacementOpens` always | constants' assumptions only |
| `ResearchHandoffProofs!TypeCorrect`, `WholeWhenOpen` | `TypeOK`, `WholeOnceOpen` always | constants' assumptions only |
| `ResearchHandoffProofs!ReportOverWhole`, `StaleStaysOut` | `ReportSeesWhole` always, `StaleNeverStarts` | `RecoverFirst` |
| `ResearchHandoffProofs!OpensUnlessMisbound`, `KeepsExchange` | while `decided.revision <= 2`: `LoadAccepts`; each step is one of HandoffExchange, which the initial state satisfies | `RecoverFirst` |
| `ResearchHandoffProofs!ImplementsOverOneCorrection` | HandoffExchange is implemented | `RecoverFirst`, `MaxRevision <= 2` |

They hold for any sets of callers, processes, operations, paths, bundles, records,
contents, times, Decisions, documents, handoffs, items and Runs, finite or not, and any number of
interruptions and Scope or Plan revisions. Assumptions on
constants are named in the module that declares them and evaluated by TLC on every
run.

Every proof has the shape `Init => Inv`, `Inv /\ [Next]_vars => Inv'` (a lemma for
each part of `Inv`, a step for each action), `Inv => property`. None of the
properties is inductive by itself. What `Inv` adds:

- **RunLock**: `AttemptsLeft` (a caller in its loop has attempts left),
  `HolderIsNamed` (unless a takeover displaced somebody, whoever is inside is named
  in the lock file; exclusion follows, as the file names one), `NoTakeoverYet`
  (without a crash every process is alive, so nobody is about to remove a lock).
- **ArtifactStore**: `DiskInv` (a formal file lies at the path of an operation with a
  receipt, the chain names present files once, and at most one formal file is not in
  it), `CallInv` (what the call has checked still holds when it acts on it: the
  target it links has its receipt, the commit it writes its target, and no file but
  the one in hand is uncommitted), `RecoveryInv` (each receipt's planned action is
  still the right one while recovery works on the others, and no other receipt or
  bundle claims a member's path), `StepInv` (only recovery comes back to its plan).
  The refinement needs `CallInv`: a target may only appear when nothing else is
  uncommitted. For callers that reopen first a second layer, `ReopenInv`, bounds what
  an interruption leaves. `ClaimInv`: a path is promised to one operation, at most
  one intent and one bundle are unfinished, the intent is the bundle's, and the
  bundle's authority receipt is still the one that would be derived, as the next
  commit is a member's and the chain before the bundle ends there. `ProgressInv`:
  that is so because a call starts when nothing is unfinished (`Settled`), writes a
  bundle's receipts over nothing unfinished (`Starting`), and then leaves only the
  member its queue begins with (`UnderWay`). `PlanInv`: recovery plans a repair for
  each unrecorded intent and for no other. Then no check of `RecoveryAccepts` can
  fail. Both callers' conditions are needed: disagreements b and c of section 7.
- **JsonlLog**: `LogInv` (every line has its receipt; identities differ; an incomplete
  line has not been repaired), `CallInv` (the call's record has no logged rival and
  its receipt before its line), `FirstInv` (for callers that reopen first, every
  receipt but the call's own is logged, so no two claim one identity).
- **EvidenceStore**: `DataInv` (records backed; unless a temporary was lost, an
  intent has its content stored or whole in its temporary), `CallInv` (what the next
  step relies on: a whole temporary before the receipt, the receipt's time before
  the content), `PlanInv` (an operation classified complete still has its content,
  one to be discarded is not on record, one done with is complete).
- **RunScope**, in two layers. `IInv`, for any callers: `Good` (a Manifest about to
  be written is bound to decisions on record and is not behind the current one) for
  every Manifest queued, with its decision queued before it (`Queued`). `SInv`, for
  callers that reopen and checkpoint first, says what the replay of the published
  Artifacts onto the checkpoint yields, in every state a death can leave:
  `Recoverable(…, m, …)`, load-run ends in exactly one Manifest, which is `m` but for
  formation that corrections superseded. It holds because from the checkpoint's
  Manifest to `m` there is a *trace* (`Leads`): a Manifest for each number of
  Artifacts published, each the `Apply` of the next Artifact to the one before and
  accepted by the schema, none of them superseded. `Whole` says there is one for an
  open Run; the parts of `Held` say where the trace ends for each call in progress
  (the Manifest, the Manifest a decision is about to write, either of the two when
  the decision's line may or may not be on record). `Sane` carries what the schema
  does not say of a Manifest (research has a Plan for the Scope on record; what status
  may wait to be resumed), `Formed` that a Manifest's references are what is published
  but for what confirmations superseded, `BeforeFits` that the Artifacts of before a confirmation still replay
  under the state it leaves, `Near` which Manifest an interrupted call meant.
  The induction over the Artifacts is over the positions of one trace: `NatStep`
  derives it from the well-founded order of the naturals, by taking the least
  position that fails, as a set and without an operator parameter. `KeepsGate` is the
  whole of ScopeGate's specification, which states no fairness. The two hypotheses are
  needed: 7h to 7k are what fails without either.
- **PlanOperation**: `Honest` (no Manifest or checkpoint refers to what is not
  stored), `Matching` and `Covered` (the checkpoint load-run starts from agrees with the Manifest in
  Plan and Decisions, and there is one), `WellFormed` (a receipt's result is what
  its base becomes), `OneUnfinished`, `Settling` (the Manifest is behind what is
  stored only where nothing is unfinished). `Resumable` needs them all: load-run
  must give an operation that waits for its replay its base Manifest back.
- **RunLineage**: `Exclusive` (the creation lock), `Written` (what a creation has
  written when it comes to a step), `Recorded` (entries agree with the Manifests and
  with what the Run was published as; a projection has its committed receipt).
  `OneReplacement` is inductive only with them: two creations that replace one source
  share the source's creation lock while they declare. `ReplacementOpens` needs of
  `Written` that a creation which is no restart, once it has begun to write, finds its id
  unoccupied until it ends.

- **ResearchHandoff**, in four layers. `Base`: what the call in progress has done
  (`CallOK`), Evidence before the Artifact, Scope revisions and Plans that only go
  up. `Progressing`: a Run that was not cut short holds nothing unfinished, and
  load-run leaves behind it only what is whole or untouched (`LoadProgress`), which
  makes `WholeOnceOpen` inductive. `Loaded`, under `RecoverFirst`: an intent under a
  Plan that could still be begun is of an interrupted call, at a Manifest bound to its
  Scope, and waits for load-run (`LiveIsPending`). This is what lets load-run decide on
  the Manifest it has not rebound yet (7t is what happens without it); what is being
  begun is of the Scope and Plan of the Run (`BegunIsCurrent`), and a handoff without
  Evidence that the Manifest misses is still applicable, so that the pending check
  before a report sees it (`BareIsKnown`). `Orderly`, until a second correction of the
  Scope (`Early`), relates the Manifest to what load-run would rebuild it from,
  `Standing`: only handoffs are missing from it, and a correction before the first Plan
  supersedes all there is or nothing (`StaleShape`); at most one handoff is unfinished
  or could still be begun (`OneOpen`), so that a rebuilt Manifest takes in one handoff,
  as the abstract `Capture` does; every document that stands names what was read for
  it (`Named`), and nothing is read for a document that stands (`Readings`). A handoff
  before the first Plan names a ScopeFrame that stands (`PrePlanIntents`), so only one
  under a Plan can make load-run refuse the Run, and that one is `Misbound`: finding 3.
  Finding 1 is why `Early` is there: the next proposal forgets what was superseded, and
  `Standing` is no longer what the Run has.

`MaxLoss = 0` is an assumption of the ArtifactStore theorems because a formal file
that disappears from outside is a formal file without content: `LedgerBacked` allows
for it, the refinement does not, and `artifacts_reopen` checks `LoadAccepts` and
recovery with it.

**Model-checked only.** Liveness is beyond this prover: `CallEnds`, `StaleLockGoes`,
`InterruptedRunReopens`, `IntentsAreLogged`, `IntentsAreRecorded`, `IntentsFinish`,
`RestartCompletes`, `BegunIsFinished`, and the fairness part of PlanLine. So is what
`artifacts_reopen` adds to `AlwaysReopens`: `LoadAccepts` when a formal file was lost.

## 6. Findings

Each is a run of expectation *violation*, with the quoted lines in `PROJECT.json`.

1. `run-store.ts:10517` (`scope_superseded`): load-run takes out of the Manifest what
   the confirmation of the *latest* proposal superseded. Formation that an earlier
   correction superseded comes back as soon as the next revision is proposed.
2. `run-store.ts:2747` (`lineage_race`): the status of a parent is read before any lock
   and not again; a Run closed as failed meanwhile is continued all the same.
3. `run-store.ts:8651` (`handoff_scope`): under a Plan, a handoff takes its Scope from
   the path `scope-frame.json`, which after a correction before the first Plan is the
   superseded ScopeFrame. Its intent and imported Evidence stay, its Artifact is
   refused. This is why `handoff_safe` lets load-run refuse a Run with such a handoff.

## 7. Further disagreements

They follow from the same modules with other constants, or can be read off an
action. No run of their own is kept for them; each can be repeated with the constants
named.

**Run lock, stores and logs**

a. `run-lock.ts:32`: a contender that judged the lock stale removes whatever file has
   that name by now; two callers end up inside. `MutualExclusion` as an invariant of
   `runlock_safe`'s instance. `run-lock.ts:65` says "another writer owns the Run
   operation".
b. `artifact-store.ts:1981`: an intent left by an interrupted publication, then
   another Envelope at its path: load-run throws `write.conflict` from then on.
   `LoadAccepts` with `RecoverFirst = FALSE`, `MaxCrash = 1`.
c. `artifact-store.ts:2002`: recovery parses a publish temporary before it would delete
   it. `LoadAccepts` in `artifacts_reopen` with `Tears = TRUE`.
d. An interrupted bundle whose authority receipt is durable and whose bundle receipt
   is not is refused for good once anything else was published: the stored authority
   receipt names the head of the chain at the first attempt
   (`artifact-store.ts:1749`; `PublishBundle` needs `AuthorityMatches`).
   `artifact-store/README.md:5` says "Identical replay is idempotent" without this
   condition.
e. `jsonl-store.ts:413`: an interrupted call repeated with a new timestamp leaves two
   receipts of one record id, and load-run throws from then on. `LoadAccepts` in
   `log_safe` with `RecoverFirst = FALSE`. docs/operations.md:66 asks for load-run
   first.
f. An incomplete receipt temporary refuses its record for good: its name is the same
   at every attempt and `repair` removes none (`atomic-file.ts:24-36`;
   `JsonlLog!WriteThrows`). The Manifest's temporary has the same effect on load-run
   (`run-store.ts:11036`).
g. Two Evidence operations that share bytes, both interrupted between receipt and
   content: the first is replayed, the second finds its content published, and that
   `load-run` ends with `write.conflict`; the next succeeds
   (`EvidenceStore!PublishThrows`; `IntentsAreRecorded` holds because it does). A lost
   raw temporary that a repeated call then leaves incomplete is refused for ever,
   which is why `LoadAccepts` there is about `losses = 0`.

**Scope**

h. `run-store.ts:10561`: a Plan or dispatch published since the last checkpoint makes
   load-run refuse a Run whose Scope revision awaits confirmation: the replay sets its
   status without one. `LoadAccepts` with `CheckpointFirst = FALSE`, `MaxCrash = 0`;
   docs/operations.md:64 says that reopening validates the same history.
i. `run-store.ts:10557`: a confirmation interrupted before its Manifest, with a Plan
   newer than the checkpoint: load-run leaves the Run ready for research under a Plan
   of the old Scope. `NoUnreconciledResearch` with `CheckpointFirst = FALSE`,
   `MaxCrash = 1`.
j. With `CheckpointFirst = FALSE` an Adaptation that the Scope revision rejected is
   pending again after load-run (`run-store.ts:9695`, against
   `startup-opportunity-codex-research-harness.md:952`); it shows as a violation of
   `ImplementsGate` and `LoadRestores`.
k. `scope_safe` with `RecoverFirst = FALSE`, `Text = {one, two}` and without
   `LoadRestores` violates `LoadAccepts`: an interrupted proposal replaced by another
   text leaves two proposals of one revision (`run-store.ts:1617`).

**Plan operations**

l. `run-store.ts:5182`: a publication reads the Manifest before the recovery that may
   complete an interrupted operation, and writes back what it read: the applied
   Decision leaves the Manifest again while its checkpoint and Events stay.
   `NothingLost` with `Revising = {r1}`, `InPlace = {s}`, `ResumeFirst = FALSE`,
   `MaxCrash = 1`. `run-store/README.md:9` says that recovery may "finish a current
   Plan operation from its exact receipt".
m. A new Plan's intent that is interrupted, then a publication or checkpoint that
   changes the base Manifest: every later load-run throws
   `recovery.invalid_plan_operation` (`plan-runtime.ts:3797`; `Resumable` with
   `ResumeFirst = FALSE`). docs/runtime-research-product-repair-backlog-2026-07-30.md:821
   calls a published intent exactly replayable.

**Lineage**

n. `create` of a continuation that dies between its two entries blocks the parent for
   good where the exact replay is refused by the parent's own leaf check
   (`run-store.ts:2731-2745`, against
   `startup-opportunity-codex-research-harness.md:4637`).
o. Two children of one parent created at once both stay writable; only the parent
   becomes indeterminate (`RunLineage!Guard` of the children looks at their own
   children).
p. A restart that died before its rename keeps its Run id occupied. Asked for as a root or
   a continuation, the id is refused (`run-store.ts:2923`). A restart of *another* source
   is refused only when it brings another `created_at`; left out, it takes over the one on
   record (`run-store.ts:2938`) and the Run is published with two receipts. From then on
   neither it nor the first source resolves, and the second reports itself superseded by
   a Run that cannot be opened, against tests/g0.4-runtime.test.ts:7839, which "blocks
   occupied replacement ids". `lineage_safe` reaches it (two of its families ask twice for
   one id): `ReplacementOpens` speaks of Runs that one source lists, and without
   `Sources(r) = {s}` it is violated.

**Handoffs**

q. Before the first Plan of a corrected Scope, `create` stores the intent and is then
   refused by the transition guard (`run-store.ts:8924`); the same call again, or
   load-run, completes it (`Check`, `Repeat`).
r. An exact replay of a handoff that a Scope correction superseded puts it back into
   the Manifest (`run-store.ts:8580`), after which publications fail until load-run
   (`Repeat` without its condition on `stale`).
s. A death between the temporary and the link of a pre-Plan handoff, and a Scope
   correction before load-run: load-run links it, finds its ScopeFrame superseded and
   refuses the Run for good (`MayRevise` without its condition).
t. With `RecoverFirst = FALSE`, load-run decides about an intent on the Manifest it has
   not rebound yet (`run-store.ts:10365`, `10508`): an interrupted Scope decision makes
   it start a stale intent (`StaleNeverStarts`; `run-store.ts:10822` says it "cannot
   start"), or throw because the exact Scope cannot be looked up (`LoadAccepts`,
   `run-store.ts:10921`); and a report may be written over a published handoff that the
   Manifest does not know (`ReportSeesWhole`, `run-store.ts:6271`).

**Units**

u. load-run replays the Artifacts published since the checkpoint in the order of
   publication (`run-store.ts:10545`), a bundle is projected onto the Manifest in
   another order (`run-store.ts:5390`). A bundle of a wave, its tasks and their results
   leaves a unit completed, and active again after load-run. Not modelled: RunScope
   publishes one Artifact at a time.

## 8. Not modelled

- Validators, planning checks, compiler, projections, comparison, path policy,
  canonical form, schemas: pure functions of documents, most of the repository's
  lines. They decide *whether* an Envelope is accepted; the models take any accepted
  one. Where the Manifest schema decides a transition it is in `RunScope!Valid`, where
  the handoff validator does, in `ResearchHandoff!Sound`.
- What `transformPlan` puts into a Plan, and what a report says.
- Pre-candidate confirmations, prior input, reformation of the decision subject: a
  decision in the log and an entry of the Manifest, or one Artifact, under the Run
  lock. Their writes are those of a Scope decision or of a controlled read.
- Lane lifecycle: the states of a unit, its launches and attempts, are derived from
  documents by validators of several thousand lines. RunScope keeps a unit's
  dispatched and finished state. The launch registration is built from a bundle read
  before the lock, but validated once more as a whole inside it.
- Reports: their text and tables are formatting. A report is built in steps that take
  the Run lock one by one; only the terminal one changes the Manifest, and it is a step
  of PlanOperation.
- Compiled publication plans: the Manifest hash bound into a plan is compared under the
  lock, which is one more guard of a publication.
- CLI, MCP server, session hooks: transports and advice, no state of a Run. The MCP
  server lists Evidence without the lock and decides nothing on what it read.
- Power loss: files are assumed to survive a death of the process once `link` or
  `rename` returned. A lost directory entry is modelled where the code takes care of
  it (`Lose`, `LoseTemp`).
- Two hosts on one directory: the lock's pid test is local.

## 9. Plan

What is left, in order of importance:

1. **Units**: dispatch waves, tasks, results and their replay at load-run (7u), with the
   order in which `publishArtifactBundle` and `recoverLocked` project a bundle.
2. Proofs: ArtifactStore with formal files lost from outside (`MaxLoss > 0`), for which
   `artifacts_reopen` checks `LoadAccepts`.
3. Reports: the sequence of locks a report is built under, and a terminal apply that
   comes in between.
4. Composition: RunLock with an abstract store, to show which store properties
   survive a displaced holder.
