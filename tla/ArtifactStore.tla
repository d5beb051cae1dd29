---------------------------- MODULE ArtifactStore ----------------------------
(***************************************************************************)
(* Publication of immutable formal Artifacts and the recovery of           *)
(* interrupted publications (artifact-store/artifact-store.ts and          *)
(* atomic-file.ts), one file-system step at a time.                        *)
(*                                                                         *)
(* An operation is the publication of one Envelope: its operation key is a *)
(* hash of path, type and content, so two operations may want one path.    *)
(* The commits of .store/publications form a hash chain; a commit hash     *)
(* stands for the whole chain up to it and is modelled by that prefix.     *)
(* Every mutation is made under the Run lock (RunLock.tla), so one call is *)
(* in progress at a time; it may die between any two steps, or leave an    *)
(* incomplete temporary file when it dies inside a write.                  *)
(*                                                                         *)
(* Reference and schema validation, the leaf and Scope guards and the      *)
(* PlanRuntime-owned closeouts recovery defers are not modelled here.      *)
(***************************************************************************)
EXTENDS Integers, Sequences, FiniteSets

CONSTANTS Op,            \* publications: Envelopes with their operation keys
          Path,          \* formal paths
          PathOf,        \* artifact_path of an operation
          CheckpointPath,\* the paths under checkpoints/
          Solo,          \* operations callers may publish alone
          Bundle,        \* multi-Envelope publications
          Members,       \* Envelopes of a bundle in publicationRank order
          Launch,        \* bundles that are Dispatch launch registrations
          Authorized,    \* bundles that need an authority receipt
          NoOp,          \* no operation: the path is free
          NoBundle,
          RecoverFirst,  \* callers run load-run after an interrupted call
          Tears,         \* a crash inside a write leaves an incomplete file
          MaxCrash,      \* bound: interrupted calls considered
          MaxLoss        \* bound: formal files removed outside the Store

ASSUME PathAssumption ==
  /\ PathOf \in [Op -> Path]
  /\ CheckpointPath \subseteq Path
  /\ Solo \subseteq Op

ASSUME BundleAssumption ==
  /\ Members \in [Bundle -> Seq(Op)]
  /\ \A b \in Bundle : Len(Members[b]) >= 2
  /\ \A b \in Bundle : \A i, j \in 1 .. Len(Members[b]) :
       PathOf[Members[b][i]] = PathOf[Members[b][j]] => i = j
  /\ Launch \subseteq Authorized
  /\ Authorized \subseteq Bundle

ASSUME SentinelAssumption == NoOp \notin Op /\ NoBundle \notin Bundle

ASSUME BoundAssumption ==
  /\ RecoverFirst \in BOOLEAN
  /\ Tears \in BOOLEAN
  /\ MaxCrash \in Nat
  /\ MaxLoss \in Nat

VARIABLES
  receipts,   \* operations with .store/operations/artifact-*.json
  content,    \* what each formal path holds
  ledger,     \* the chain of .store/publications
  bundles,    \* bundles with .store/operations/bundle-*.json
  authority,  \* the authority-bundle receipts: bundle and chain it was cut at
  temp,       \* files of .store/temp
  torn,       \* those of them that are incomplete
  step,       \* what the call in progress does next
  job,        \* which call it is
  file,       \* the file it is installing
  queue,      \* the publications it still has to make
  plan,       \* recovery's action for each operation
  dirty,      \* a call was interrupted since the last complete recovery
  crashes,    \* how many were
  losses      \* formal files lost so far

disk == <<receipts, content, ledger, bundles, authority>>
temps == <<temp, torn>>
bounds == <<dirty, crashes, losses>>
vars == <<disk, temps, step, job, file, queue, plan, bounds>>

-----------------------------------------------------------------------------
Elements(s) == {s[i] : i \in 1 .. Len(s)}

Committed == Elements(ledger)

\* publicationCommitsLocked and readPublicationRecordsLocked: the record of a path.
CommittedAt(p) == \E o \in Committed : PathOf[o] = p

Kind == {"receipt", "target", "commit", "bundle", "authority"}

\* A file is installed from a temporary whose name is derived from what it
\* will hold: a commit file and an authority receipt also hold a chain.
File == [kind : Kind, op : Op \union {NoOp}, bundle : Bundle \union {NoBundle},
         chain : Seq(Op)]

OpFile(kind, o) ==
  [kind |-> kind, op |-> o, bundle |-> NoBundle, chain |-> <<>>]

CommitFile(o) ==
  [kind |-> "commit", op |-> o, bundle |-> NoBundle, chain |-> ledger]

BundleFile(b) ==
  [kind |-> "bundle", op |-> NoOp, bundle |-> b, chain |-> <<>>]

NoFile == [kind |-> "receipt", op |-> NoOp, bundle |-> NoBundle, chain |-> <<>>]

Paths(b) == {PathOf[o] : o \in Elements(Members[b])}

\* bundleAuthorityPreviousPublicationCommitHashLocked: the chain before the
\* first commit of one of the bundle's paths, or the whole chain.
ChainBefore(b) ==
  LET before == {i \in 1 .. Len(ledger) :
                   \A j \in 1 .. i : PathOf[ledger[j]] \notin Paths(b)}
  IN  SubSeq(ledger, 1, Cardinality(before))

AuthorityFile(b) ==
  [kind |-> "authority", op |-> NoOp, bundle |-> b, chain |-> ChainBefore(b)]

HasAuthority(b) == \E a \in authority : a.bundle = b

\* validateArtifactBundleAuthorityReceipt: the stored receipt must equal the one
\* that would be derived now.
AuthorityMatches(b) == [bundle |-> b, chain |-> ChainBefore(b)] \in authority

-----------------------------------------------------------------------------
\* preflightBundleTargetsLocked: isDurablyCompleted.
DurablyCompleted(o) ==
  o \in Committed /\ o \in receipts /\ content[PathOf[o]] = o

\* publicationCommitsLocked throws unless the chain has each path once and a
\* receipt for each commit.
ChainValid ==
  /\ Committed \subseteq receipts
  /\ \A i, j \in 1 .. Len(ledger) : PathOf[ledger[i]] = PathOf[ledger[j]] => i = j

\* Another immutable bundle intent may share only completed Envelopes; a path
\* may have no other receipt, and hold nothing but this Envelope, with its
\* receipt; an existing launch member needs the exact bundle receipt.
PreflightAccepts(b) ==
  /\ ChainValid
  /\ \A other \in bundles \ {b} : \A o \in Elements(Members[other]) :
       PathOf[o] \in Paths(b) => o \in Elements(Members[b]) /\ DurablyCompleted(o)
  /\ \A o \in Elements(Members[b]) :
       /\ \A r \in receipts : PathOf[r] = PathOf[o] => r = o
       /\ content[PathOf[o]] \in {NoOp, o}
       /\ content[PathOf[o]] = o => o \in receipts
       /\ (b \in Launch /\ content[PathOf[o]] = o) => b \in bundles

\* Mutant: publications do not wait for the commit of another.
BlockingNothing(o) == {}

\* assertNoUncommittedPublishedArtifactsLocked: the operations whose published
\* target (or foreign occupant) blocks the publication of o.
Blocking(o) ==
  {r \in receipts \ (Committed \union {o}) : content[PathOf[r]] # NoOp}

\* The early checks of publishPreparedLocked.
PublishAccepts(o) ==
  /\ ChainValid
  /\ Blocking(o) = {}
  /\ \/ content[PathOf[o]] = NoOp
     \/ content[PathOf[o]] = o /\ o \in receipts

-----------------------------------------------------------------------------
Init ==
  /\ receipts = {}
  /\ content = [p \in Path |-> NoOp]
  /\ ledger = <<>>
  /\ bundles = {}
  /\ authority = {}
  /\ temp = {}
  /\ torn = {}
  /\ step = "idle"
  /\ job = "publish"
  /\ file = NoFile
  /\ queue = <<>>
  /\ plan = [o \in Op |-> "complete"]
  /\ dirty = FALSE
  /\ crashes = 0
  /\ losses = 0

MayStart == step = "idle" /\ ~(RecoverFirst /\ dirty)

\* publishLocked is entered; a refusal here changes nothing.
Publish(o) ==
  /\ MayStart
  /\ o \in Solo
  /\ PublishAccepts(o)
  /\ step' = "begin"
  /\ job' = "publish"
  /\ queue' = <<o>>
  /\ UNCHANGED <<disk, temps, file, plan, bounds>>

\* publishBundlePreparedLocked: preflight, the authority receipt where one is
\* needed, the bundle receipt, then each member.  A stored authority receipt
\* that differs refuses the bundle.
PublishBundle(b) ==
  /\ MayStart
  /\ PreflightAccepts(b)
  /\ (b \in Authorized /\ HasAuthority(b)) => AuthorityMatches(b)
  /\ job' = "bundle"
  /\ queue' = Members[b]
  /\ \/ /\ b \in Authorized /\ ~HasAuthority(b)
        /\ step' = "write"
        /\ file' = AuthorityFile(b)
     \/ /\ b \in Authorized => HasAuthority(b)
        /\ b \notin bundles
        /\ step' = "write"
        /\ file' = BundleFile(b)
     \/ /\ b \in Authorized => HasAuthority(b)
        /\ b \in bundles
        /\ step' = "begin"
        /\ file' = file
  /\ UNCHANGED <<disk, temps, plan, bounds>>

\* A throw in the middle of a call: its files stay.
Throw ==
  /\ step' = "idle"
  /\ dirty' = TRUE
  /\ UNCHANGED <<disk, temps, job, file, queue, plan, crashes, losses>>

\* publishPreparedLocked for the next member: its early checks hold.
Begin ==
  /\ step = "begin"
  /\ PublishAccepts(Head(queue))
  /\ LET o == Head(queue) IN
     \/ /\ content[PathOf[o]] = o /\ o \notin Committed
        /\ file' = CommitFile(o)
        /\ step' = "write"
        /\ queue' = queue
     \/ /\ content[PathOf[o]] = o /\ o \in Committed
        /\ file' = file
        /\ queue' = Tail(queue)
        /\ step' = IF Tail(queue) # <<>> THEN "begin"
                   ELSE IF job = "recover" THEN "resume" ELSE "idle"
     \/ /\ content[PathOf[o]] = NoOp
        /\ file' = OpFile(IF o \in receipts THEN "target" ELSE "receipt", o)
        /\ step' = "write"
        /\ queue' = queue
  /\ UNCHANGED <<disk, temps, job, plan, bounds>>

\* ... or one of them throws.
BeginThrows ==
  /\ step = "begin"
  /\ ~PublishAccepts(Head(queue))
  /\ Throw

\* writeSyncedTemp: a complete temporary of the same name is reused, its name
\* being a hash of its bytes' identity.
WriteTemp ==
  /\ step = "write"
  /\ file \notin torn
  /\ temp' = temp \union {file}
  /\ step' = "link"
  /\ UNCHANGED <<disk, torn, job, file, queue, plan, bounds>>

\* write.temp_conflict: the existing temporary holds other (incomplete) bytes.
WriteThrows ==
  /\ step = "write"
  /\ file \in torn
  /\ Throw

\* Mutant: rename replaces an occupied path.
NeverOccupied == FALSE

\* EEXIST: only a target can be occupied, the other names being unique to
\* what the file holds and checked before.
Occupied == file.kind = "target" /\ content[PathOf[file.op]] # NoOp

LinkThrows ==
  /\ step = "link"
  /\ Occupied
  /\ Throw

\* publishTemp: link the temporary under its formal name, never replacing.
Link ==
  /\ step = "link"
  /\ ~Occupied
  /\ step' = "unlink"
  /\ receipts' = IF file.kind = "receipt" THEN receipts \union {file.op} ELSE receipts
  /\ content' = IF file.kind = "target"
                THEN [content EXCEPT ![PathOf[file.op]] = file.op] ELSE content
  /\ ledger' = IF file.kind = "commit" THEN Append(ledger, file.op) ELSE ledger
  /\ bundles' = IF file.kind = "bundle" THEN bundles \union {file.bundle} ELSE bundles
  /\ authority' = IF file.kind = "authority"
                  THEN authority \union {[bundle |-> file.bundle, chain |-> file.chain]}
                  ELSE authority
  /\ UNCHANGED <<temps, job, file, queue, plan, bounds>>

\* ... remove the temporary and go on: a receipt is followed by its target, a
\* target by its commit unless the chain has it, a commit by the next member,
\* an authority receipt by the bundle receipt unless that exists.
Unlink ==
  /\ step = "unlink"
  /\ temp' = temp \ {file}
  /\ \/ /\ file.kind = "receipt"
        /\ file' = OpFile("target", file.op)
        /\ step' = "write" /\ queue' = queue
     \/ /\ file.kind = "target" /\ file.op \notin Committed
        /\ file' = CommitFile(file.op)
        /\ step' = "write" /\ queue' = queue
     \/ /\ file.kind = "commit" \/ (file.kind = "target" /\ file.op \in Committed)
        /\ file' = file
        /\ queue' = Tail(queue)
        /\ step' = IF Tail(queue) # <<>> THEN "begin"
                   ELSE IF job = "recover" THEN "resume" ELSE "idle"
     \/ /\ file.kind = "authority" /\ file.bundle \notin bundles
        /\ file' = BundleFile(file.bundle)
        /\ step' = "write" /\ queue' = queue
     \/ /\ file.kind = "bundle" \/ (file.kind = "authority" /\ file.bundle \in bundles)
        /\ file' = file
        /\ step' = "begin" /\ queue' = queue
  /\ UNCHANGED <<disk, torn, job, plan, bounds>>

-----------------------------------------------------------------------------
\* recoverLocked, first loop: what is to be done with the receipt of o.  The
\* temporary is JSON; an incomplete one does not parse.
Classify(o) ==
  LET found == content[PathOf[o]]
      whole == OpFile("target", o)
  IN  IF o \notin receipts THEN "complete"
      ELSE
      CASE found = o /\ o \in Committed             -> "complete"
        [] found = o /\ o \notin Committed          -> "commit"
        [] found \notin {o, NoOp} /\ PathOf[o] \notin CheckpointPath -> "conflict"
        [] found \notin {o, NoOp} /\ PathOf[o] \in CheckpointPath ->
             IF o \in Committed THEN "complete" ELSE "discard"
        [] found = NoOp /\ whole \in torn           -> "conflict"
        [] found = NoOp /\ whole \in temp \ torn    -> "recover"
        [] OTHER -> IF o \in Committed THEN "restore" ELSE "discard"

\* recovery.publication_order_ambiguous
Ambiguous ==
  \E o, r \in Op : o # r /\ Classify(o) = "commit" /\ Classify(r) = "commit"

BundleComplete(b) ==
  \A o \in Elements(Members[b]) : content[PathOf[o]] = o /\ o \in Committed

\* The checks recoverLocked makes before it changes anything.
RecoveryAccepts ==
  /\ ChainValid
  /\ \A o \in Op : Classify(o) # "conflict"
  /\ \A b \in bundles :
       /\ PreflightAccepts(b)
       /\ BundleComplete(b) \/ b \notin Authorized \/ AuthorityMatches(b)
  /\ ~Ambiguous

Recover ==
  /\ step = "idle"
  /\ RecoveryAccepts
  /\ job' = "recover"
  /\ plan' = [o \in Op |-> Classify(o)]
  /\ step' = "resume"
  /\ UNCHANGED <<disk, temps, file, queue, bounds>>

Planned(action) == {o \in Op : plan[o] = action}

Done(o) == plan' = [plan EXCEPT ![o] = "complete"]

\* A target that was already published is committed before any other is made.
CommitPublished(o) ==
  /\ step = "resume"
  /\ plan[o] = "commit"
  /\ Done(o)
  /\ queue' = <<o>>
  /\ file' = CommitFile(o)
  /\ step' = "write"
  /\ UNCHANGED <<disk, temps, job, bounds>>

\* The receipts are then handled in the order of their hashed names, which is
\* unrelated to publication: any order.  A complete temporary is installed; a
\* committed target that is gone is rewritten.
InstallPlanned(o) ==
  /\ step = "resume"
  /\ Planned("commit") = {}
  /\ plan[o] \in {"recover", "restore"}
  /\ Done(o)
  /\ queue' = <<o>>
  /\ file' = OpFile("target", o)
  /\ step' = IF plan[o] = "recover" THEN "link" ELSE "write"
  /\ UNCHANGED <<disk, temps, job, bounds>>

\* Mutant: the discarded intent is never taken off the plan.
DiscardAgain(o) ==
  /\ step = "resume"
  /\ Planned("commit") = {}
  /\ plan[o] = "discard"
  /\ receipts' = receipts \ {o}
  /\ UNCHANGED <<content, ledger, bundles, authority, temps, step, job, file,
                 queue, plan, bounds>>

\* An intent of which nothing was published is forgotten.
Discard(o) ==
  /\ step = "resume"
  /\ Planned("commit") = {}
  /\ plan[o] = "discard"
  /\ Done(o)
  /\ receipts' = receipts \ {o}
  /\ UNCHANGED <<content, ledger, bundles, authority, temps, step, job, file,
                 queue, bounds>>

PlanDone == step = "resume" /\ \A o \in Op : plan[o] = "complete"

\* Mutant: only members that still have a receipt are looked for.
MissingWithReceipt ==
  {o \in receipts \cap UNION {Elements(Members[b]) : b \in bundles} :
     content[PathOf[o]] = NoOp}

Missing == {o \in UNION {Elements(Members[b]) : b \in bundles} :
              content[PathOf[o]] = NoOp}

\* Every bundle with a receipt gets its missing members, in the order of their
\* paths: unrelated to publicationRank, so any order.
FillBundle(o) ==
  /\ PlanDone
  /\ o \in Missing
  /\ queue' = <<o>>
  /\ step' = "begin"
  /\ UNCHANGED <<disk, temps, job, file, plan, bounds>>

\* The temporaries of Artifacts and commits go; those of bundle and authority
\* receipts have another prefix and stay.
Clean(f) ==
  /\ PlanDone
  /\ Missing = {}
  /\ f \in temp
  /\ f.kind \in {"receipt", "target", "commit"}
  /\ temp' = temp \ {f}
  /\ torn' = torn \ {f}
  /\ UNCHANGED <<disk, step, job, file, queue, plan, bounds>>

Recovered ==
  /\ PlanDone
  /\ Missing = {}
  /\ \A f \in temp : f.kind \in {"bundle", "authority"}
  /\ step' = "idle"
  /\ dirty' = FALSE
  /\ UNCHANGED <<disk, temps, job, file, queue, plan, crashes, losses>>

-----------------------------------------------------------------------------
\* The process dies, or a file-system call fails, between two steps.
Crash ==
  /\ step # "idle"
  /\ crashes < MaxCrash
  /\ step' = "idle"
  /\ dirty' = TRUE
  /\ crashes' = crashes + 1
  /\ UNCHANGED <<disk, temps, job, file, queue, plan, losses>>

\* ... inside writeSyncedTemp, after open(filename, "wx") and before the bytes.
CrashInWrite ==
  /\ Tears
  /\ step = "write"
  /\ file \notin temp
  /\ crashes < MaxCrash
  /\ temp' = temp \union {file}
  /\ torn' = torn \union {file}
  /\ step' = "idle"
  /\ dirty' = TRUE
  /\ crashes' = crashes + 1
  /\ UNCHANGED <<disk, job, file, queue, plan, losses>>

\* A formal file disappears from outside the Store.
Lose(p) ==
  /\ step = "idle"
  /\ losses < MaxLoss
  /\ content[p] # NoOp
  /\ content' = [content EXCEPT ![p] = NoOp]
  /\ losses' = losses + 1
  /\ dirty' = TRUE
  /\ UNCHANGED <<receipts, ledger, bundles, authority, temps, step, job, file,
                 queue, plan, crashes>>

Progress ==
  \/ Begin \/ BeginThrows \/ WriteTemp \/ WriteThrows \/ Link \/ LinkThrows \/ Unlink
  \/ \E o \in Op : CommitPublished(o) \/ InstallPlanned(o) \/ Discard(o) \/ FillBundle(o)
  \/ \E f \in temp : Clean(f)
  \/ Recovered

Next ==
  \/ \E o \in Op : Publish(o)
  \/ \E b \in Bundle : PublishBundle(b)
  \/ Recover
  \/ Progress
  \/ Crash \/ CrashInWrite
  \/ \E p \in Path : Lose(p)

Spec == Init /\ [][Next]_vars

\* A call in progress goes on, and an interrupted Run is reopened.
FairSpec == Spec /\ WF_vars(Progress) /\ WF_vars(Recover)

-----------------------------------------------------------------------------
\* Type invariant: what the operation, publication and temporary directories and
\* the call in progress range over.
TypeOK ==
  /\ receipts \subseteq Op
  /\ content \in [Path -> Op \union {NoOp}]
  /\ ledger \in Seq(Op)
  /\ bundles \subseteq Bundle
  /\ authority \subseteq [bundle : Bundle, chain : Seq(Op)]
  /\ temp \subseteq File
  /\ torn \subseteq temp
  /\ step \in {"idle", "begin", "write", "link", "unlink", "resume"}
  /\ job \in {"publish", "bundle", "recover"}
  /\ file \in File
  /\ queue \in Seq(Op)
  /\ plan \in [Op -> {"complete", "commit", "recover", "restore", "discard"}]
  /\ dirty \in BOOLEAN
  /\ crashes \in 0 .. MaxCrash
  /\ losses \in 0 .. MaxLoss

\* Every commit of the chain is backed by its immutable receipt and by the
\* target it names, whatever calls were interrupted and however they were
\* retried; and no two commits name one path.  Recovery, which deletes
\* receipts, must never delete one the chain needs.
LedgerBacked ==
  /\ ChainValid
  /\ losses = 0 => \A o \in Committed : content[PathOf[o]] = o

Ledger == INSTANCE PublicationLedger

\* The Store implements its abstract ledger: whatever is interrupted, retried
\* or recovered, formal files appear one at a time, none is replaced, and the
\* chain of commits is the order in which they appeared.  In particular
\* recovery never faces recovery.publication_order_ambiguous.
PublishesInOrder == Ledger!Spec

\* When load-run has gone through its plan, a bundle that has a receipt is
\* published and committed whole.
RecoveryCompletesBundles ==
  PlanDone /\ Missing = {} => \A b \in bundles : BundleComplete(b)

\* "Process crash 后可以从最后有效 checkpoint 恢复": after any interrupted calls,
\* load-run accepts what it finds.  Not without conditions: callers must run it
\* before they publish again, and no write may be cut short.
LoadAccepts == step = "idle" => RecoveryAccepts

\* An interrupted Run is reopened: recovery, itself interrupted, retried, and
\* faced with a lost file, ends with nothing left to repair.
InterruptedRunReopens == dirty ~> ~dirty
=============================================================================
