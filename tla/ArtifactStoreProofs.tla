------------------------- MODULE ArtifactStoreProofs -------------------------
(***************************************************************************)
(* The Artifact Store proved for any operations, paths and bundles, any    *)
(* number of interrupted calls and incomplete temporaries, and callers     *)
(* that reopen the Run or do not.  Files are lost only through the Store:  *)
(* MaxLoss = 0.  The last part is about callers that do reopen it, and     *)
(* whole temporaries: load-run never refuses what they interrupted.        *)
(***************************************************************************)
EXTENDS ArtifactStore, SequenceTheorems, FiniteSetTheorems, TLAPS

Installing == step \in {"write", "link", "unlink"}

\* The call is installing a file of one operation.
OnOp == Installing /\ file.kind \in {"receipt", "target", "commit"}

Recovering == job = "recover" /\ step # "idle"

BundleOps == UNION {Elements(Members[b]) : b \in bundles}

\* Paths whose formal file is not in the chain.
Uncommitted == {p \in Path : content[p] # NoOp /\ content[p] \notin Committed}

\* What is on disk between calls as well as in them: a formal file lies at the
\* path of an operation with a receipt; the chain names present files, each
\* once; and at most one formal file is not in it.
DiskInv ==
  /\ \A p \in Path : content[p] # NoOp =>
       PathOf[content[p]] = p /\ content[p] \in receipts
  /\ \A o \in Committed : content[PathOf[o]] = o
  /\ \A i, j \in 1 .. Len(ledger) : ledger[i] = ledger[j] => i = j
  /\ \A p, q \in Uncommitted : p = q

\* What the call in progress knows of the file it is installing.
CallInv ==
  /\ step = "begin" \/ Installing => queue # <<>>
  /\ step \in {"link", "unlink"} => file \notin torn
  /\ OnOp => file.op \in Op
  /\ Installing /\ ~OnOp => file.bundle \in Bundle
  /\ Installing /\ file.kind = "receipt" /\ step = "unlink" => file.op \in receipts
  /\ Installing /\ file.kind = "target" => file.op \in receipts
  /\ Installing /\ file.kind = "target" /\ step = "unlink" =>
       content[PathOf[file.op]] = file.op
  /\ Installing /\ file.kind = "commit" /\ step # "unlink" =>
       content[PathOf[file.op]] = file.op /\ file.op \notin Committed
  /\ Installing /\ file.kind = "commit" /\ step = "unlink" => file.op \in Committed
  /\ OnOp => \A p \in Uncommitted : content[p] = file.op

\* What recovery knows: its plan stays right while it repairs, and no bundle
\* member's path is claimed by another receipt or bundle.
RecoveryInv ==
  Recovering =>
    /\ step \in {"begin", "write", "link", "unlink", "resume"}
    /\ Installing => OnOp
    /\ step # "resume" => Tail(queue) = <<>> /\ plan[Head(queue)] = "complete"
    /\ OnOp => file.op = Head(queue)
    /\ step = "begin" \/ (OnOp /\ file.kind = "receipt") => Head(queue) \in BundleOps
    /\ step = "resume" => \A p \in Uncommitted : plan[content[p]] = "commit"
    /\ \A o \in Op :
         /\ plan[o] = "commit" => content[PathOf[o]] = o /\ o \notin Committed
         /\ plan[o] \in {"recover", "restore"} => o \in receipts
         /\ plan[o] = "recover" => OpFile("target", o) \notin torn
         /\ plan[o] = "discard" => o \notin Committed /\ content[PathOf[o]] # o
    /\ \A o \in BundleOps : \A r \in receipts \union BundleOps :
         PathOf[r] = PathOf[o] => r = o

\* Outside recovery nobody is at its steps.
StepInv == step = "resume" => job = "recover"

Inv == TypeOK /\ DiskInv /\ CallInv /\ RecoveryInv /\ StepInv

-----------------------------------------------------------------------------
\* A chain is cut to a chain.
LEMMA ChainBeforeType ==
  ASSUME ledger \in Seq(Op), NEW b
  PROVE  ChainBefore(b) \in Seq(Op)
<1> DEFINE before == {i \in 1 .. Len(ledger) :
                        \A j \in 1 .. i : PathOf[ledger[j]] \notin Paths(b)}
<1>1. Len(ledger) \in Nat /\ \A i \in 1 .. Len(ledger) : ledger[i] \in Op
  OBVIOUS
<1>2. IsFiniteSet(1 .. Len(ledger)) /\ Cardinality(1 .. Len(ledger)) = Len(ledger)
  <2> DEFINE n == Len(ledger)
  <2>1. n \in Nat
    BY <1>1
  <2> HIDE DEF n
  <2>2. IsFiniteSet(1 .. n) /\ Cardinality(1 .. n) = IF 1 > n THEN 0 ELSE n - 1 + 1
    BY <2>1, FS_Interval
  <2>3. Cardinality(1 .. n) = n
    BY <2>1, <2>2
  <2> QED
    BY <2>2, <2>3 DEF n
<1>3. Cardinality(before) \in Nat /\ Cardinality(before) <= Len(ledger)
  BY <1>2, FS_Subset, FS_CardinalityType
<1> HIDE DEF before
<1>4. \A i \in 1 .. Cardinality(before) : ledger[i] \in Op
  BY <1>1, <1>3
<1>5. SubSeq(ledger, 1, Cardinality(before)) \in Seq(Op)
  BY <1>3, <1>4, SubSeqProperties
<1> QED
  BY <1>5 DEF ChainBefore, before

\* The files the Store installs are Files.
LEMMA FileTypes ==
  ASSUME ledger \in Seq(Op)
  PROVE  /\ \A o \in Op : \A kind \in Kind : OpFile(kind, o) \in File
         /\ \A o \in Op : CommitFile(o) \in File
         /\ \A b \in Bundle : BundleFile(b) \in File /\ AuthorityFile(b) \in File
<1>1. <<>> \in Seq(Op)
  OBVIOUS
<1>2. \A b \in Bundle : ChainBefore(b) \in Seq(Op)
  BY ChainBeforeType
<1> QED
  BY <1>1, <1>2 DEF File, Kind, OpFile, CommitFile, BundleFile, AuthorityFile

\* An empty Run satisfies the invariant.
LEMMA InitInv == Init => Inv
<1> SUFFICES ASSUME Init PROVE Inv
  OBVIOUS
<1> USE SentinelAssumption, BoundAssumption DEF Init
<1>1. TypeOK
  <2>1. content \in [Path -> Op \union {NoOp}] /\ ledger \in Seq(Op) /\ queue \in Seq(Op)
    OBVIOUS
  <2>2. file \in File
    <3>1. <<>> \in Seq(Op)
      OBVIOUS
    <3> QED
      BY <3>1 DEF NoFile, File, Kind
  <2>3. plan \in [Op -> {"complete", "commit", "recover", "restore", "discard"}]
    OBVIOUS
  <2>4. crashes \in 0 .. MaxCrash /\ losses \in 0 .. MaxLoss
    OBVIOUS
  <2>5. dirty \in BOOLEAN
    OBVIOUS
  <2> QED
    BY <2>1, <2>2, <2>3, <2>4, <2>5 DEF TypeOK
<1>2. DiskInv
  BY DEF DiskInv, Uncommitted, Committed, Elements
<1>3. CallInv /\ RecoveryInv /\ StepInv
  BY DEF CallInv, RecoveryInv, StepInv, Installing, OnOp, Recovering
<1> QED
  BY <1>1, <1>2, <1>3 DEF Inv

\* Classification never plans a conflict once recovery accepted the Run.
LEMMA ClassifyType ==
  ASSUME RecoveryAccepts, NEW o \in Op
  PROVE  Classify(o) \in {"complete", "commit", "recover", "restore", "discard"}
<1>1. Classify(o) # "conflict"
  BY DEF RecoveryAccepts
<1> QED
  BY <1>1 DEF Classify

-----------------------------------------------------------------------------
\* Every step keeps the types of the variables.
LEMMA NextTypeOK ==
  ASSUME Inv, [Next]_vars
  PROVE  TypeOK'
<1> USE PathAssumption, BundleAssumption, SentinelAssumption, BoundAssumption
<1>1. TypeOK /\ CallInv
  BY DEF Inv
<1> USE <1>1 DEF TypeOK, disk, temps, bounds
<1>2. ASSUME NEW o \in Op, Publish(o) PROVE TypeOK'
  BY <1>2 DEF Publish
<1>3. ASSUME NEW b \in Bundle, PublishBundle(b) PROVE TypeOK'
  BY <1>3, FileTypes DEF PublishBundle
<1>4. CASE Throw
  BY <1>4 DEF Throw
<1>5. CASE Begin
  <2>1. queue # <<>> /\ Head(queue) \in Op /\ Tail(queue) \in Seq(Op)
    BY <1>5 DEF Begin, CallInv
  <2>2. file' \in File
    BY <1>5, <2>1, FileTypes DEF Begin, Kind
  <2> QED
    BY <1>5, <2>1, <2>2 DEF Begin
<1>6. CASE WriteTemp
  BY <1>6 DEF WriteTemp
<1>7. CASE Link
  <2>1. /\ file.kind \in {"receipt", "target", "commit"} => file.op \in Op
        /\ file.kind \in {"bundle", "authority"} => file.bundle \in Bundle
        /\ file.chain \in Seq(Op)
    BY <1>7 DEF Link, CallInv, OnOp, Installing, File
  <2>2. receipts' \subseteq Op /\ bundles' \subseteq Bundle
    BY <1>7, <2>1 DEF Link
  <2>3. content' \in [Path -> Op \union {NoOp}]
    BY <1>7, <2>1 DEF Link
  <2>4. ledger' \in Seq(Op)
    BY <1>7, <2>1 DEF Link
  <2>5. authority' \subseteq [bundle : Bundle, chain : Seq(Op)]
    BY <1>7, <2>1 DEF Link
  <2> QED
    BY <1>7, <2>2, <2>3, <2>4, <2>5 DEF Link
<1>8. CASE Unlink
  <2>1. queue # <<>> /\ Tail(queue) \in Seq(Op)
    BY <1>8 DEF Unlink, CallInv, Installing
  <2>2. /\ file.kind \in {"receipt", "target", "commit"} => file.op \in Op
        /\ file.kind \in {"bundle", "authority"} => file.bundle \in Bundle
    BY <1>8 DEF Unlink, CallInv, OnOp, Installing, File
  <2>3. file' \in File
    BY <1>8, <2>2, FileTypes DEF Unlink, Kind
  <2>4. temp' \subseteq File /\ torn' \subseteq temp'
    BY <1>8 DEF Unlink, CallInv
  <2> QED
    BY <1>8, <2>1, <2>3, <2>4 DEF Unlink
<1>9. CASE Recover
  BY <1>9, ClassifyType DEF Recover
<1>10. ASSUME NEW o \in Op, CommitPublished(o) PROVE TypeOK'
  BY <1>10, FileTypes DEF CommitPublished, Done
<1>11. ASSUME NEW o \in Op, InstallPlanned(o) PROVE TypeOK'
  BY <1>11, FileTypes DEF InstallPlanned, Done, Kind
<1>12. ASSUME NEW o \in Op, Discard(o) PROVE TypeOK'
  BY <1>12 DEF Discard, Done
<1>13. ASSUME NEW o \in Op, FillBundle(o) PROVE TypeOK'
  BY <1>13 DEF FillBundle
<1>14. ASSUME NEW f \in temp, Clean(f) PROVE TypeOK'
  BY <1>14 DEF Clean
<1>15. CASE Recovered
  BY <1>15 DEF Recovered
<1>16. CASE Crash
  BY <1>16 DEF Crash
<1>17. CASE CrashInWrite
  BY <1>17 DEF CrashInWrite
<1>18. ASSUME NEW p \in Path, Lose(p) PROVE TypeOK'
  BY <1>18 DEF Lose
<1>19. CASE UNCHANGED vars
  BY <1>19 DEF vars
<1> QED
  BY <1>2, <1>3, <1>4, <1>5, <1>6, <1>7, <1>8, <1>9, <1>10, <1>11, <1>12, <1>13,
     <1>14, <1>15, <1>16, <1>17, <1>18, <1>19
     DEF Next, Progress, BeginThrows, WriteThrows, LinkThrows

-----------------------------------------------------------------------------
\* What one step does to the disk: nothing, or it installs a file, or recovery
\* forgets an intent, or a file is lost.
LEMMA StoreSteps ==
  ASSUME [Next]_vars
  PROVE  \/ UNCHANGED disk
         \/ Link
         \/ \E o \in Op : Discard(o)
         \/ \E p \in Path : Lose(p)
  BY DEF Next, Progress, Publish, PublishBundle, Recover, Begin, BeginThrows,
         WriteTemp, WriteThrows, LinkThrows, Unlink, CommitPublished,
         InstallPlanned, FillBundle, Clean, Recovered, Crash, CrashInWrite, Throw,
         vars

\* ... and what it does to the formal files and the chain: nothing, or one target
\* appears, or one commit is appended, or a receipt goes, or a file is lost.
LEMMA DiskSteps ==
  ASSUME [Next]_vars
  PROVE  \/ UNCHANGED <<receipts, content, ledger>>
         \/ Link
         \/ \E o \in Op : Discard(o)
         \/ \E p \in Path : Lose(p)
  BY StoreSteps DEF disk

\* With no losses allowed none happens.
LEMMA NoLoss ==
  ASSUME MaxLoss = 0, TypeOK, NEW p \in Path
  PROVE  ~Lose(p)
  BY DEF TypeOK, Lose

\* The chain after a commit is appended.
LEMMA CommittedAfter ==
  ASSUME ledger \in Seq(Op), NEW o \in Op, ledger' = Append(ledger, o)
  PROVE  /\ Committed' = Committed \union {o}
         /\ o \notin Committed =>
              ((\A i, j \in 1 .. Len(ledger) : ledger[i] = ledger[j] => i = j)
               => (\A i, j \in 1 .. Len(ledger') : ledger'[i] = ledger'[j] => i = j))
<1>1. /\ Len(ledger') = Len(ledger) + 1
      /\ \A i \in 1 .. Len(ledger) : ledger'[i] = ledger[i]
      /\ ledger'[Len(ledger) + 1] = o
      /\ Len(ledger) \in Nat
  OBVIOUS
<1>2. 1 .. Len(ledger') = (1 .. Len(ledger)) \union {Len(ledger) + 1}
  BY <1>1
<1>3. Committed' = Committed \union {o}
  BY <1>1, <1>2 DEF Committed, Elements
<1>4. ASSUME o \notin Committed,
             \A i, j \in 1 .. Len(ledger) : ledger[i] = ledger[j] => i = j,
             NEW i \in 1 .. Len(ledger'), NEW j \in 1 .. Len(ledger'),
             ledger'[i] = ledger'[j]
      PROVE  i = j
  BY <1>1, <1>2, <1>4 DEF Committed, Elements
<1> QED
  BY <1>3, <1>4

\* The chain names operations.
LEMMA CommittedInOp == ASSUME TypeOK PROVE Committed \subseteq Op
  BY DEF TypeOK, Committed, Elements

\* A step that leaves the chain alone leaves what it names alone.
LEMMA CommittedSame == ASSUME UNCHANGED ledger PROVE Committed' = Committed
  BY DEF Committed, Elements

\* Every step keeps the formal files and the chain right.
LEMMA NextDiskInv ==
  ASSUME MaxLoss = 0, Inv, [Next]_vars
  PROVE  DiskInv'
<1>1. TypeOK /\ DiskInv /\ CallInv /\ RecoveryInv /\ StepInv /\ TypeOK'
  BY NextTypeOK DEF Inv
<1> USE <1>1, PathAssumption, SentinelAssumption
<1>2. CASE UNCHANGED <<receipts, content, ledger>>
  BY <1>2 DEF DiskInv, Uncommitted, Committed, Elements
<1>3. CASE Link /\ file.kind \notin {"receipt", "target", "commit"}
  BY <1>3 DEF Link, DiskInv, Uncommitted, Committed, Elements
<1>4. CASE Link /\ file.kind = "receipt"
  BY <1>4, CommittedSame DEF Link, DiskInv, Uncommitted
<1>5. CASE Link /\ file.kind = "target"
  <2> DEFINE o == file.op
  <2>1. /\ o \in Op /\ o \in receipts /\ content[PathOf[o]] = NoOp
        /\ \A p \in Uncommitted : content[p] = o
    BY <1>5 DEF Link, CallInv, OnOp, Installing, Occupied
  <2>2. Uncommitted = {}
    BY <2>1 DEF DiskInv, Uncommitted
  <2>3. /\ receipts' = receipts /\ ledger' = ledger
        /\ content' = [content EXCEPT ![PathOf[o]] = o]
    BY <1>5 DEF Link
  <2>4. Committed' = Committed
    BY <2>3, CommittedSame
  <2>5. \A p \in Path : content'[p] = IF p = PathOf[o] THEN o ELSE content[p]
    BY <2>3, <2>1 DEF TypeOK
  <2> HIDE DEF o
  <2>6. \A p \in Path : content'[p] # NoOp =>
          PathOf[content'[p]] = p /\ content'[p] \in receipts'
    BY <2>1, <2>3, <2>5 DEF DiskInv
  <2>7. \A r \in Committed' : content'[PathOf[r]] = r
    BY <2>1, <2>4, <2>5, CommittedInOp DEF DiskInv
  <2>8. \A p \in Uncommitted' : p = PathOf[o]
    BY <2>2, <2>4, <2>5 DEF Uncommitted
  <2> QED
    BY <2>3, <2>6, <2>7, <2>8 DEF DiskInv
<1>6. CASE Link /\ file.kind = "commit"
  <2> DEFINE o == file.op
  <2>1. o \in Op /\ o \notin Committed /\ content[PathOf[o]] = o
    BY <1>6 DEF Link, CallInv, OnOp, Installing
  <2>2. receipts' = receipts /\ content' = content /\ ledger' = Append(ledger, o)
    BY <1>6 DEF Link
  <2> HIDE DEF o
  <2>3. /\ Committed' = Committed \union {o}
        /\ \A i, j \in 1 .. Len(ledger') : ledger'[i] = ledger'[j] => i = j
    BY <2>1, <2>2, CommittedAfter DEF DiskInv, TypeOK
  <2>4. Uncommitted' \subseteq Uncommitted
    BY <2>2, <2>3 DEF Uncommitted
  <2> QED
    BY <2>1, <2>2, <2>3, <2>4 DEF DiskInv
<1>7. ASSUME NEW o \in Op, Discard(o) PROVE DiskInv'
  <2>1. o \notin Committed /\ content[PathOf[o]] # o
    BY <1>7 DEF Discard, RecoveryInv, StepInv, Recovering
  <2>2. \A p \in Path : content[p] # o
    BY <2>1, SentinelAssumption DEF DiskInv
  <2> QED
    BY <1>7, <2>2, CommittedSame DEF Discard, DiskInv, Uncommitted
<1> QED
  BY <1>2, <1>3, <1>4, <1>5, <1>6, <1>7, DiskSteps, NoLoss

\* ... and with the formal files, which of them are unrecorded.
LEMMA UncommittedSame ==
  ASSUME UNCHANGED <<content, ledger>>
  PROVE  Uncommitted' = Uncommitted
  BY DEF Uncommitted, Committed, Elements

\* A publication that is accepted waits for no other: what is not committed yet
\* is its own target.
LEMMA NothingElseUncommitted ==
  ASSUME TypeOK, DiskInv, NEW o \in Op, PublishAccepts(o), NEW p \in Uncommitted
  PROVE  content[p] = o
<1> DEFINE r == content[p]
<1>1. p \in Path /\ r # NoOp /\ r \notin Committed
  BY DEF Uncommitted
<1>2. r \in receipts /\ PathOf[r] = p
  BY <1>1 DEF DiskInv
<1>3. content[PathOf[r]] # NoOp
  BY <1>1, <1>2
<1> HIDE DEF r
<1>4. r \notin receipts \ (Committed \union {o})
  BY <1>3 DEF PublishAccepts, Blocking
<1>5. r = o
  BY <1>1, <1>2, <1>4
<1> QED
  BY <1>5 DEF r

\* When recovery has no target left to commit, every formal file is in the chain.
LEMMA ResumeSettled ==
  ASSUME Inv, step = "resume", Planned("commit") = {}
  PROVE  Uncommitted = {}
<1>1. \A p \in Uncommitted : plan[content[p]] = "commit" /\ content[p] \in Op
  BY SentinelAssumption
     DEF Inv, TypeOK, StepInv, RecoveryInv, Recovering, Uncommitted
<1> QED
  BY <1>1 DEF Planned

\* A queue of one publication.
LEMMA Singleton ==
  ASSUME NEW S, NEW o \in S
  PROVE  /\ <<o>> # <<>> /\ Head(<<o>>) = o /\ Tail(<<o>>) = <<>>
         /\ <<o>> \in Seq(S)
  OBVIOUS

\* Every step leaves the call in progress right about its file.
LEMMA NextCallInv ==
  ASSUME MaxLoss = 0, Inv, [Next]_vars
  PROVE  CallInv'
<1>1. TypeOK /\ DiskInv /\ CallInv /\ RecoveryInv /\ StepInv
  BY DEF Inv
<1> USE <1>1, PathAssumption, SentinelAssumption DEF disk, temps, bounds
<1>2. CASE step' \notin {"begin", "write", "link", "unlink"}
  BY <1>2 DEF CallInv, Installing, OnOp
<1>3. ASSUME NEW o \in Op, Publish(o) PROVE CallInv'
  BY <1>3, Singleton DEF Publish, CallInv, Installing, OnOp
<1>4. ASSUME NEW b \in Bundle, PublishBundle(b) PROVE CallInv'
  <2>1. Members[b] # <<>>
    BY BundleAssumption
  <2>2. step' = "write" => file' \in {AuthorityFile(b), BundleFile(b)}
    BY <1>4 DEF PublishBundle
  <2>3. step' \in {"write", "begin"} /\ queue' = Members[b]
    BY <1>4 DEF PublishBundle
  <2> QED
    BY <2>1, <2>2, <2>3 DEF CallInv, Installing, OnOp, AuthorityFile, BundleFile
<1>5. CASE Begin
  <2> DEFINE o == Head(queue)
  <2>1. queue # <<>> /\ o \in Op /\ PublishAccepts(o)
    BY <1>5 DEF Begin, CallInv, TypeOK
  <2>2. \A p \in Uncommitted : content[p] = o
    BY <2>1, NothingElseUncommitted
  <2>3. Uncommitted' = Uncommitted /\ Committed' = Committed
        /\ receipts' = receipts /\ content' = content
    BY <1>5, UncommittedSame, CommittedSame DEF Begin
  <2> HIDE DEF o
  <2>4. CASE content[PathOf[o]] = o /\ o \notin Committed
    <3>1. file' = CommitFile(o) /\ step' = "write" /\ queue' = queue
      BY <1>5, <2>1, <2>4 DEF Begin, o, TypeOK
    <3> QED
      BY <2>1, <2>2, <2>3, <2>4, <3>1 DEF CallInv, Installing, OnOp, CommitFile
  <2>5. CASE content[PathOf[o]] = o /\ o \in Committed
    BY <1>5, <2>1, <2>5 DEF Begin, CallInv, Installing, OnOp, o, TypeOK
  <2>6. CASE content[PathOf[o]] = NoOp
    <3>1. /\ file' = OpFile(IF o \in receipts THEN "target" ELSE "receipt", o)
          /\ step' = "write" /\ queue' = queue
      BY <1>5, <2>1, <2>6 DEF Begin, o, TypeOK
    <3> QED
      BY <2>1, <2>2, <2>3, <2>6, <3>1 DEF CallInv, Installing, OnOp, OpFile
  <2> QED
    BY <1>5, <2>4, <2>5, <2>6 DEF Begin, o
<1>6. CASE WriteTemp
  <2>1. Uncommitted' = Uncommitted /\ Committed' = Committed
    BY <1>6, UncommittedSame, CommittedSame DEF WriteTemp
  <2> QED
    BY <1>6, <2>1 DEF WriteTemp, CallInv, Installing, OnOp
<1>7. CASE Link /\ file.kind \notin {"target", "commit"}
  <2>1. Uncommitted' = Uncommitted /\ Committed' = Committed
    BY <1>7, UncommittedSame, CommittedSame DEF Link
  <2> QED
    BY <1>7, <2>1 DEF Link, CallInv, Installing, OnOp
<1>8. CASE Link /\ file.kind = "target"
  <2> DEFINE o == file.op
  <2>1. /\ o \in Op /\ content[PathOf[o]] = NoOp
        /\ \A p \in Uncommitted : content[p] = o
    BY <1>8 DEF Link, CallInv, OnOp, Installing, Occupied
  <2>2. Uncommitted = {}
    BY <2>1 DEF DiskInv, Uncommitted
  <2>3. \A p \in Path : content'[p] = IF p = PathOf[o] THEN o ELSE content[p]
    BY <1>8, <2>1 DEF Link, TypeOK
  <2>4. Committed' = Committed
    BY <1>8, CommittedSame DEF Link
  <2>5. \A p \in Uncommitted' : content'[p] = o
    BY <2>2, <2>3, <2>4 DEF Uncommitted
  <2> QED
    BY <1>8, <2>1, <2>3, <2>5 DEF Link, CallInv, Installing, OnOp
<1>9. CASE Link /\ file.kind = "commit"
  <2>1. Committed' = Committed \union {file.op}
    BY <1>9, CommittedAfter DEF Link, CallInv, Installing, OnOp, TypeOK
  <2>2. Uncommitted' \subseteq Uncommitted /\ content' = content
    BY <1>9, <2>1 DEF Link, Uncommitted
  <2> QED
    BY <1>9, <2>1, <2>2 DEF Link, CallInv, Installing, OnOp
<1>10. CASE Unlink
  <2>1. Uncommitted' = Uncommitted /\ Committed' = Committed
        /\ receipts' = receipts /\ content' = content
    BY <1>10, UncommittedSame, CommittedSame DEF Unlink
  <2>2. CASE file.kind = "receipt"
    <3>1. /\ file' = OpFile("target", file.op) /\ step' = "write" /\ queue' = queue
          /\ step = "unlink"
      BY <1>10, <2>2 DEF Unlink
    <3> QED
      BY <2>1, <2>2, <3>1 DEF CallInv, Installing, OnOp, OpFile
  <2>3. CASE file.kind = "target" /\ file.op \notin Committed
    <3>1. /\ file' = CommitFile(file.op) /\ step' = "write" /\ queue' = queue
          /\ step = "unlink"
      BY <1>10, <2>3 DEF Unlink
    <3> QED
      BY <2>1, <2>3, <3>1 DEF CallInv, Installing, OnOp, CommitFile
  <2>4. CASE file.kind = "commit" \/ (file.kind = "target" /\ file.op \in Committed)
    BY <1>10, <2>4 DEF Unlink, CallInv, Installing, OnOp
  <2>5. CASE file.kind \in {"authority", "bundle"}
    <3>1. /\ step' = "write" => file' = BundleFile(file.bundle)
          /\ step' \in {"write", "begin"} /\ queue' = queue
      BY <1>10, <2>5 DEF Unlink
    <3>2. queue # <<>> /\ file.bundle \in Bundle
      BY <1>10, <2>5 DEF Unlink, CallInv, Installing, OnOp
    <3> QED
      BY <3>1, <3>2 DEF CallInv, Installing, OnOp, BundleFile
  <2> QED
    BY <1>10, <2>2, <2>3, <2>4, <2>5 DEF Unlink
<1>11. ASSUME NEW o \in Op, CommitPublished(o) PROVE CallInv'
  <2>1. content[PathOf[o]] = o /\ o \notin Committed
    BY <1>11 DEF CommitPublished, StepInv, RecoveryInv, Recovering
  <2>2. PathOf[o] \in Uncommitted
    BY <2>1 DEF Uncommitted
  <2>3. \A p \in Uncommitted : content[p] = o
    BY <2>1, <2>2 DEF DiskInv
  <2>4. Uncommitted' = Uncommitted /\ Committed' = Committed /\ content' = content
    BY <1>11, UncommittedSame, CommittedSame DEF CommitPublished
  <2> QED
    BY <1>11, <2>1, <2>3, <2>4, Singleton
       DEF CommitPublished, CommitFile, CallInv, Installing, OnOp
<1>12. ASSUME NEW o \in Op, InstallPlanned(o) PROVE CallInv'
  <2>1. o \in receipts /\ (plan[o] = "recover" => OpFile("target", o) \notin torn)
    BY <1>12 DEF InstallPlanned, StepInv, RecoveryInv, Recovering
  <2>2. Uncommitted' = {}
    BY <1>12, ResumeSettled, UncommittedSame DEF InstallPlanned
  <2>3. /\ receipts' = receipts /\ torn' = torn /\ queue' = <<o>>
        /\ file' = OpFile("target", o)
        /\ step' = IF plan[o] = "recover" THEN "link" ELSE "write"
    BY <1>12 DEF InstallPlanned
  <2> QED
    BY <2>1, <2>2, <2>3, Singleton DEF OpFile, CallInv, Installing, OnOp
<1>13. ASSUME NEW o \in Op, FillBundle(o) PROVE CallInv'
  BY <1>13, Singleton DEF FillBundle, CallInv, Installing, OnOp
<1>14. CASE UNCHANGED vars
  BY <1>14, UncommittedSame, CommittedSame DEF vars, CallInv, Installing, OnOp
<1>15. ASSUME NEW o \in Op, Discard(o) PROVE step' = "resume"
  BY <1>15 DEF Discard
<1>16. ASSUME NEW f \in temp, Clean(f) PROVE step' = "resume"
  BY <1>16 DEF Clean, PlanDone
<1> QED
  BY <1>2, <1>3, <1>4, <1>5, <1>6, <1>7, <1>8, <1>9, <1>10, <1>11, <1>12, <1>13,
     <1>14, <1>15, <1>16, NoLoss
     DEF Next, Progress, BeginThrows, WriteThrows, LinkThrows, Throw, Recover,
         Recovered, Crash, CrashInWrite

\* Only recovery reaches the step between its repairs.
LEMMA NextStepInv ==
  ASSUME Inv, [Next]_vars
  PROVE  StepInv'
  BY DEF Inv, StepInv, Next, Progress, Publish, PublishBundle, Recover, Begin,
         BeginThrows, WriteTemp, WriteThrows, Link, LinkThrows, Unlink,
         CommitPublished, InstallPlanned, Discard, FillBundle, Clean, Recovered,
         Crash, CrashInWrite, Throw, Lose, vars, PlanDone

-----------------------------------------------------------------------------
\* The plan a recovery starts with is right.
LEMMA RecoverPlans ==
  ASSUME Inv, Recover
  PROVE  RecoveryInv'
<1> USE PathAssumption, BundleAssumption, SentinelAssumption DEF disk, temps, bounds
<1>1. TypeOK /\ DiskInv
  BY DEF Inv
<1>2. /\ RecoveryAccepts /\ step' = "resume"
      /\ plan' = [o \in Op |-> Classify(o)]
      /\ UNCHANGED <<receipts, content, ledger, bundles, temp, torn>>
  BY DEF Recover
<1>3. Uncommitted' = Uncommitted /\ Committed' = Committed
  BY <1>2, UncommittedSame, CommittedSame
<1>4. ASSUME NEW o \in Op
      PROVE  /\ Classify(o) = "commit" => content[PathOf[o]] = o /\ o \notin Committed
             /\ Classify(o) \in {"recover", "restore"} => o \in receipts
             /\ Classify(o) = "recover" => OpFile("target", o) \notin torn
             /\ Classify(o) = "discard" => o \notin Committed /\ content[PathOf[o]] # o
  <2> DEFINE found == content[PathOf[o]]
             whole == OpFile("target", o)
  <2>1. CASE o \notin receipts
    BY <2>1 DEF Classify
  <2>2. CASE o \in receipts /\ found = o
    BY <2>2 DEF Classify
  <2>3. CASE o \in receipts /\ found \notin {o, NoOp}
    BY <2>3 DEF Classify
  <2>4. CASE o \in receipts /\ found = NoOp
    <3>1. Classify(o) = IF whole \in torn THEN "conflict"
                        ELSE IF whole \in temp THEN "recover"
                        ELSE IF o \in Committed THEN "restore" ELSE "discard"
      BY <2>4 DEF Classify
    <3> QED
      BY <2>4, <3>1
  <2> QED
    BY <2>1, <2>2, <2>3, <2>4
<1>5. ASSUME NEW p \in Uncommitted
      PROVE  content[p] \in Op /\ Classify(content[p]) = "commit"
  <2> DEFINE o == content[p]
  <2>1. p \in Path /\ o \in Op /\ o \notin Committed
    BY <1>1 DEF Uncommitted, TypeOK
  <2>2. o \in receipts /\ content[PathOf[o]] = o
    BY <1>1 DEF Uncommitted, DiskInv
  <2> HIDE DEF o
  <2>3. Classify(o) = "commit"
    BY <2>1, <2>2 DEF Classify
  <2> QED
    BY <2>1, <2>3 DEF o
<1>6. ASSUME NEW o \in BundleOps, NEW r \in receipts \union BundleOps,
             PathOf[r] = PathOf[o]
      PROVE  r = o
  <2>1. PICK b \in bundles : o \in Elements(Members[b])
    BY DEF BundleOps
  <2>2. PreflightAccepts(b) /\ b \in Bundle
    BY <1>1, <1>2 DEF RecoveryAccepts, TypeOK
  <2>3. \A x, y \in Elements(Members[b]) : PathOf[x] = PathOf[y] => x = y
    BY <2>2 DEF Elements
  <2>4. CASE r \in receipts
    BY <1>6, <2>1, <2>2, <2>4 DEF PreflightAccepts
  <2>5. ASSUME NEW c \in bundles, r \in Elements(Members[c]) PROVE r = o
    <3>1. PathOf[r] \in Paths(b)
      BY <1>6, <2>1 DEF Paths
    <3>2. r \in Elements(Members[b])
      BY <2>2, <2>5, <3>1 DEF PreflightAccepts
    <3> QED
      BY <1>6, <2>1, <2>3, <3>2
  <2> QED
    BY <1>6, <2>4, <2>5 DEF BundleOps
<1>7. BundleOps' = BundleOps
  BY <1>2 DEF BundleOps
<1>8. \A o \in Op : plan'[o] = Classify(o)
  BY <1>2
<1>9. \A p \in Uncommitted' : plan'[content'[p]] = "commit"
  BY <1>2, <1>3, <1>5, <1>8
<1>10. \A o \in Op :
         /\ plan'[o] = "commit" => content'[PathOf[o]] = o /\ o \notin Committed'
         /\ plan'[o] \in {"recover", "restore"} => o \in receipts'
         /\ plan'[o] = "recover" => OpFile("target", o) \notin torn'
         /\ plan'[o] = "discard" => o \notin Committed' /\ content'[PathOf[o]] # o
  BY <1>2, <1>3, <1>4, <1>8
<1>11. \A o \in BundleOps' : \A r \in receipts' \union BundleOps' :
         PathOf[r] = PathOf[o] => r = o
  BY <1>2, <1>6, <1>7
<1> QED
  BY <1>2, <1>9, <1>10, <1>11 DEF RecoveryInv, Installing, OnOp

\* The steps at which recovery installs the file of one operation.
LEMMA RecoverySteps ==
  ASSUME MaxLoss = 0, Inv, [Next]_vars, Recovering', ~Recover, ~UNCHANGED vars
  PROVE  /\ Recovering
         /\ \/ Begin \/ WriteTemp \/ Link \/ Unlink
            \/ \E o \in Op : CommitPublished(o) \/ InstallPlanned(o)
            \/ \E o \in Op : Discard(o) \/ FillBundle(o)
            \/ \E f \in temp : Clean(f)
<1>1. TypeOK /\ StepInv
  BY DEF Inv
<1> QED
  BY <1>1, NoLoss DEF Recovering, StepInv, Next, Progress, Publish, PublishBundle,
     Recover, Begin,
     BeginThrows, WriteTemp, WriteThrows, Link, LinkThrows, Unlink, CommitPublished,
     InstallPlanned, Discard, FillBundle, Clean, Recovered, Crash, CrashInWrite,
     Throw, PlanDone

\* Every step of recovery keeps its plan right.
LEMMA NextRecoveryInv ==
  ASSUME MaxLoss = 0, Inv, [Next]_vars
  PROVE  RecoveryInv'
<1> USE PathAssumption, SentinelAssumption
<1>1. TypeOK /\ DiskInv /\ CallInv /\ RecoveryInv /\ StepInv
  BY DEF Inv
<1>2. CASE ~Recovering'
  BY <1>2 DEF RecoveryInv
<1>3. CASE UNCHANGED vars
  <2>1. Uncommitted' = Uncommitted /\ Committed' = Committed
    BY <1>3, UncommittedSame, CommittedSame DEF vars, disk
  <2> QED
    BY <1>1, <1>3, <2>1
       DEF vars, disk, temps, bounds, RecoveryInv, Recovering, Installing, OnOp, BundleOps
<1>4. CASE Recover
  BY <1>4, RecoverPlans
<1> SUFFICES ASSUME Recovering', ~Recover, ~UNCHANGED vars PROVE RecoveryInv'
  BY <1>2, <1>3, <1>4
<1>5. Recovering
  BY RecoverySteps
<1> DEFINE o == Head(queue)
\* What does not depend on the step: the plan against the disk.
<1> DEFINE PlanRight ==
      /\ \A x \in Op :
           /\ plan[x] = "commit" => content[PathOf[x]] = x /\ x \notin Committed
           /\ plan[x] \in {"recover", "restore"} => x \in receipts
           /\ plan[x] = "recover" => OpFile("target", x) \notin torn
           /\ plan[x] = "discard" => x \notin Committed /\ content[PathOf[x]] # x
      /\ \A x \in BundleOps : \A r \in receipts \union BundleOps :
           PathOf[r] = PathOf[x] => r = x
<1>6. PlanRight
  BY <1>1, <1>5 DEF RecoveryInv
<1>7. CASE Begin
  <2>1. /\ queue # <<>> /\ o \in Op /\ PublishAccepts(o) /\ step = "begin"
        /\ Tail(queue) = <<>> /\ plan[o] = "complete" /\ o \in BundleOps
    BY <1>1, <1>5, <1>7 DEF Begin, CallInv, RecoveryInv, TypeOK
  <2>2. /\ UNCHANGED <<receipts, content, ledger, bundles, torn, plan, job>>
        /\ step' \in {"write", "resume"}
    BY <1>5, <1>7, <2>1 DEF Begin, disk, temps, Recovering
  <2>3. Uncommitted' = Uncommitted /\ Committed' = Committed /\ BundleOps' = BundleOps
    BY <2>2, UncommittedSame, CommittedSame DEF BundleOps
  <2>4. step' = "write" => /\ queue' = queue /\ file'.op = o
                           /\ file'.kind \in {"commit", "target", "receipt"}
    BY <1>7, <2>1 DEF Begin, CommitFile, OpFile
  <2>5. step' = "resume" => content[PathOf[o]] = o /\ o \in Committed
    BY <1>7 DEF Begin
  <2>6. step' = "resume" => Uncommitted = {}
    BY <1>1, <2>1, <2>5, NothingElseUncommitted DEF Uncommitted
  <2>7. PlanRight'
    BY <1>6, <2>2, <2>3
  <2> QED
    BY <2>1, <2>2, <2>3, <2>4, <2>6, <2>7 DEF RecoveryInv, Installing, OnOp
<1>8. CASE WriteTemp
  <2>1. /\ UNCHANGED <<receipts, content, ledger, bundles, torn, plan, job, queue, file>>
        /\ step = "write" /\ step' = "link"
    BY <1>8 DEF WriteTemp, disk
  <2>2. Committed' = Committed /\ BundleOps' = BundleOps
    BY <2>1, CommittedSame DEF BundleOps
  <2>3. PlanRight'
    BY <1>6, <2>1, <2>2
  <2> QED
    BY <1>1, <1>5, <2>1, <2>2, <2>3 DEF RecoveryInv, Installing, OnOp
<1>9. CASE Link
  <2> DEFINE x == file.op
  <2>1. /\ file.kind \in {"receipt", "target", "commit"} /\ x \in Op /\ x = o
        /\ plan[x] = "complete" /\ Tail(queue) = <<>>
        /\ file.kind = "receipt" => x \in BundleOps
    BY <1>1, <1>5, <1>9 DEF Link, CallInv, RecoveryInv, Installing, OnOp
  <2>2. /\ UNCHANGED <<torn, plan, job, queue, file>>
        /\ step' = "unlink"
    BY <1>9 DEF Link, temps
  <2>3. bundles' = bundles /\ BundleOps' = BundleOps
    BY <1>9, <2>1 DEF Link, BundleOps
  <2>4. receipts' = IF file.kind = "receipt" THEN receipts \union {x} ELSE receipts
    BY <1>9 DEF Link
  <2>5. \A y \in Op \ {x} :
          /\ content[PathOf[y]] = y => content'[PathOf[y]] = y
          /\ content[PathOf[y]] # y => content'[PathOf[y]] # y
    BY <1>1, <1>9, <2>1 DEF Link, Occupied, TypeOK
  <2>6. Committed' \subseteq Committed \union {x}
    <3>1. CASE file.kind = "commit"
      BY <1>1, <1>9, <2>1, <3>1, CommittedAfter DEF Link, TypeOK
    <3>2. CASE file.kind # "commit"
      BY <1>9, <3>2, CommittedSame DEF Link
    <3> QED
      BY <3>1, <3>2
  <2> HIDE DEF x
  <2>7. PlanRight'
    BY <1>6, <2>1, <2>2, <2>3, <2>4, <2>5, <2>6
  <2> QED
    BY <2>1, <2>2, <2>3, <2>7 DEF RecoveryInv, Installing, OnOp, x
<1>10. CASE Unlink
  <2>1. /\ file.kind \in {"receipt", "target", "commit"} /\ file.op \in Op
        /\ file.op = o /\ plan[o] = "complete" /\ Tail(queue) = <<>>
    BY <1>1, <1>5, <1>10 DEF Unlink, CallInv, RecoveryInv, Installing, OnOp
  <2>2. /\ UNCHANGED <<receipts, content, ledger, bundles, torn, plan, job>>
        /\ step' \in {"write", "resume"}
    BY <1>5, <1>10, <2>1 DEF Unlink, disk, Recovering
  <2>3. Uncommitted' = Uncommitted /\ Committed' = Committed /\ BundleOps' = BundleOps
    BY <2>2, UncommittedSame, CommittedSame DEF BundleOps
  <2>4. step' = "write" => /\ queue' = queue /\ file'.op = o
                           /\ file'.kind \in {"commit", "target"}
    BY <1>10, <2>1 DEF Unlink, CommitFile, OpFile
  <2>5. step' = "resume" => file.op \in Committed
    BY <1>1, <1>10, <2>1 DEF Unlink, CallInv, Installing
  <2>6. step' = "resume" => Uncommitted = {}
    BY <1>1, <1>10, <2>1, <2>5 DEF Unlink, CallInv, Installing, OnOp, Uncommitted
  <2>7. PlanRight'
    BY <1>6, <2>2, <2>3
  <2> QED
    BY <2>1, <2>2, <2>3, <2>4, <2>6, <2>7 DEF RecoveryInv, Installing, OnOp
<1>11. ASSUME NEW x \in Op, CommitPublished(x) \/ InstallPlanned(x) PROVE RecoveryInv'
  <2>1. /\ UNCHANGED <<receipts, content, ledger, bundles, torn, job>>
        /\ step' \in {"write", "link"} /\ queue' = <<x>>
        /\ file'.kind \in {"commit", "target"} /\ file'.op = x
    BY <1>11 DEF CommitPublished, InstallPlanned, disk, temps, CommitFile, OpFile
  <2>2. \A y \in Op : plan'[y] = IF y = x THEN "complete" ELSE plan[y]
    BY <1>1, <1>11 DEF CommitPublished, InstallPlanned, Done, TypeOK
  <2>3. Committed' = Committed /\ BundleOps' = BundleOps
    BY <2>1, CommittedSame DEF BundleOps
  <2>4. PlanRight'
    BY <1>6, <2>1, <2>2, <2>3
  <2> QED
    BY <2>1, <2>2, <2>3, <2>4, Singleton DEF RecoveryInv, Installing, OnOp
<1>12. ASSUME NEW x \in Op, Discard(x) PROVE RecoveryInv'
  <2>1. /\ UNCHANGED <<content, ledger, bundles, torn, job, file, queue, step>>
        /\ step = "resume" /\ receipts' = receipts \ {x}
    BY <1>12 DEF Discard, temps
  <2>2. \A y \in Op : plan'[y] = IF y = x THEN "complete" ELSE plan[y]
    BY <1>1, <1>12 DEF Discard, Done, TypeOK
  <2>3. Committed' = Committed /\ BundleOps' = BundleOps
    BY <2>1, CommittedSame DEF BundleOps
  <2>4. Uncommitted' = {}
    BY <1>12, <2>1, ResumeSettled, UncommittedSame DEF Discard
  <2>5. PlanRight'
    BY <1>6, <2>1, <2>2, <2>3
  <2> QED
    BY <2>1, <2>3, <2>4, <2>5 DEF RecoveryInv, Installing, OnOp
<1>13. ASSUME NEW x \in Op, FillBundle(x) PROVE RecoveryInv'
  <2>1. /\ UNCHANGED <<receipts, content, ledger, bundles, torn, job, plan>>
        /\ step' = "begin" /\ queue' = <<x>> /\ plan[x] = "complete" /\ x \in BundleOps
    BY <1>13 DEF FillBundle, PlanDone, disk, temps, Missing, BundleOps
  <2>2. Committed' = Committed /\ BundleOps' = BundleOps
    BY <2>1, CommittedSame DEF BundleOps
  <2>3. PlanRight'
    BY <1>6, <2>1, <2>2
  <2> QED
    BY <2>1, <2>2, <2>3, Singleton DEF RecoveryInv, Installing, OnOp
<1>14. ASSUME NEW f \in temp, Clean(f) PROVE RecoveryInv'
  <2>1. /\ UNCHANGED <<receipts, content, ledger, bundles, job, plan, step, file, queue>>
        /\ torn' = torn \ {f} /\ step = "resume"
    BY <1>14 DEF Clean, PlanDone, disk
  <2>2. /\ Committed' = Committed /\ BundleOps' = BundleOps
        /\ Uncommitted' = Uncommitted
    BY <2>1, UncommittedSame, CommittedSame DEF BundleOps
  <2>3. PlanRight'
    BY <1>6, <2>1, <2>2
  <2> QED
    BY <1>1, <1>5, <2>1, <2>2, <2>3 DEF RecoveryInv, Installing, OnOp
<1> QED
  BY <1>7, <1>8, <1>9, <1>10, <1>11, <1>12, <1>13, <1>14, RecoverySteps

-----------------------------------------------------------------------------
\* The inductive invariant holds in every reachable state.
THEOREM Invariance == MaxLoss = 0 => (Spec => []Inv)
<1> SUFFICES ASSUME MaxLoss = 0 PROVE Spec => []Inv
  OBVIOUS
<1>1. Inv /\ [Next]_vars => Inv'
  BY NextTypeOK, NextDiskInv, NextCallInv, NextRecoveryInv, NextStepInv DEF Inv
<1> QED
  BY InitInv, <1>1, PTL DEF Spec

\* The directories and the call in progress keep their types.
THEOREM TypeCorrect == MaxLoss = 0 => (Spec => []TypeOK)
<1> SUFFICES ASSUME MaxLoss = 0 PROVE Spec => []TypeOK
  OBVIOUS
<1>1. Inv => TypeOK
  BY DEF Inv
<1> QED
  BY Invariance, <1>1, PTL

\* Every commit has its receipt, and no path is committed twice.
LEMMA ChainBacked == ASSUME Inv PROVE ChainValid
<1>1. TypeOK /\ DiskInv
  BY DEF Inv
<1>2. \A o \in Committed : content[PathOf[o]] = o /\ o \in Op /\ PathOf[o] \in Path
  BY <1>1, CommittedInOp, PathAssumption DEF DiskInv
<1>3. Committed \subseteq receipts
  BY <1>1, <1>2, SentinelAssumption DEF DiskInv
<1>4. ASSUME NEW i \in 1 .. Len(ledger), NEW j \in 1 .. Len(ledger),
             PathOf[ledger[i]] = PathOf[ledger[j]]
      PROVE  i = j
  <2>1. ledger[i] \in Committed /\ ledger[j] \in Committed
    BY DEF Committed, Elements
  <2>2. ledger[i] = ledger[j]
    BY <1>2, <1>4, <2>1
  <2> QED
    BY <1>1, <2>2 DEF DiskInv
<1> QED
  BY <1>3, <1>4 DEF ChainValid

\* The chain of commits is backed by receipts and targets, each path once,
\* through any interruptions, retries and recoveries.
THEOREM ChainIsBacked == MaxLoss = 0 => (Spec => []LedgerBacked)
<1> SUFFICES ASSUME MaxLoss = 0 PROVE Spec => []LedgerBacked
  OBVIOUS
<1>1. Inv => LedgerBacked
  BY ChainBacked DEF Inv, DiskInv, LedgerBacked
<1> QED
  BY Invariance, <1>1, PTL

\* When load-run is through with its plan, bundles are whole.
THEOREM BundlesComplete == MaxLoss = 0 => (Spec => []RecoveryCompletesBundles)
<1> SUFFICES ASSUME MaxLoss = 0 PROVE Spec => []RecoveryCompletesBundles
  OBVIOUS
<1>1. ASSUME Inv, PlanDone, Missing = {}, NEW b \in bundles, NEW o \in Elements(Members[b])
      PROVE  content[PathOf[o]] = o /\ o \in Committed
  <2>1. TypeOK /\ DiskInv /\ RecoveryInv /\ StepInv /\ step = "resume"
    BY <1>1 DEF Inv, PlanDone
  <2>2. Uncommitted = {}
    BY <1>1, <2>1, ResumeSettled DEF Planned, PlanDone
  <2>3. o \in BundleOps /\ o \in Op
    BY <2>1, BundleAssumption DEF BundleOps, TypeOK, Elements
  <2>4. content[PathOf[o]] # NoOp
    BY <1>1, <2>3 DEF Missing, BundleOps
  <2> DEFINE r == content[PathOf[o]]
  <2>5. PathOf[o] \in Path /\ r \in receipts /\ PathOf[r] = PathOf[o] /\ r \in Committed
    BY <2>1, <2>2, <2>3, <2>4, PathAssumption DEF DiskInv, Uncommitted
  <2> HIDE DEF r
  <2>6. r = o
    BY <2>1, <2>3, <2>5 DEF RecoveryInv, Recovering, StepInv
  <2> QED
    BY <2>5, <2>6 DEF r
<1>2. Inv => RecoveryCompletesBundles
  BY <1>1 DEF RecoveryCompletesBundles, BundleComplete
<1> QED
  BY Invariance, <1>2, PTL

\* The Store implements the publication ledger: files appear one at a time, are
\* never replaced, and are recorded in the order of their appearance.
THEOREM ImplementsLedger == MaxLoss = 0 => (Spec => PublishesInOrder)
<1> SUFFICES ASSUME MaxLoss = 0 PROVE Spec => PublishesInOrder
  OBVIOUS
<1>1. Init => Ledger!Init
  BY DEF Init, Ledger!Init
<1>2. ASSUME Inv, [Next]_vars PROVE [Ledger!Next]_<<content, ledger>>
  <2> USE PathAssumption, SentinelAssumption
  <2>1. TypeOK /\ DiskInv /\ CallInv
    BY <1>2 DEF Inv
  <2>2. \A x : Ledger!Recorded(x) <=> x \in Committed
    BY DEF Ledger!Recorded, Committed, Elements
  <2>3. CASE UNCHANGED <<content, ledger>>
    BY <2>3
  <2>4. CASE Link /\ file.kind = "target"
    <3> DEFINE o == file.op
    <3>1. /\ o \in Op /\ content[PathOf[o]] = NoOp
          /\ \A p \in Uncommitted : content[p] = o
      BY <2>1, <2>4 DEF Link, CallInv, OnOp, Installing, Occupied
    <3>2. Uncommitted = {}
      BY <2>1, <3>1 DEF DiskInv, Uncommitted
    <3>3. Ledger!Settled
      BY <2>2, <3>2 DEF Ledger!Settled, Uncommitted
    <3>4. content' = [content EXCEPT ![PathOf[o]] = o] /\ ledger' = ledger
      BY <2>4 DEF Link
    <3> QED
      BY <3>1, <3>3, <3>4 DEF Ledger!Next, Ledger!Appear
  <2>5. CASE Link /\ file.kind = "commit"
    <3> DEFINE o == file.op
    <3>1. o \in Op /\ content[PathOf[o]] = o /\ o \notin Committed
      BY <2>1, <2>5 DEF Link, CallInv, OnOp, Installing
    <3>2. content' = content /\ ledger' = Append(ledger, o)
      BY <2>5 DEF Link
    <3> QED
      BY <2>2, <3>1, <3>2 DEF Ledger!Next, Ledger!Record
  <2>6. CASE Link /\ file.kind \notin {"target", "commit"}
    BY <2>6 DEF Link
  <2>7. ASSUME NEW o \in Op, Discard(o) PROVE UNCHANGED <<content, ledger>>
    BY <2>7 DEF Discard
  <2> QED
    BY <1>2, <2>1, <2>3, <2>4, <2>5, <2>6, <2>7, DiskSteps, NoLoss
<1> QED
  BY Invariance, <1>1, <1>2, PTL DEF Spec, PublishesInOrder, Ledger!Spec

-----------------------------------------------------------------------------
(***************************************************************************)
(* Callers that reopen the Run after every interruption, and whole         *)
(* temporaries: load-run accepts whatever they interrupted.                *)
(***************************************************************************)
\* Intents of which the chain does not know yet.
Pending == receipts \ Committed

\* Nothing is left to repair.
Settled == Pending = {} /\ \A b \in bundles : BundleComplete(b)

\* What is promised on disk, at every step: a path is promised to one operation;
\* one publication and one bundle are unfinished at most, and the publication is
\* the bundle's; an unfinished bundle has the authority receipt it had.
ClaimInv ==
  /\ \A r, s \in receipts : PathOf[r] = PathOf[s] => r = s
  /\ \A r, s \in Pending : r = s
  /\ \A o \in BundleOps : \A r \in receipts \union BundleOps :
       PathOf[r] = PathOf[o] => r = o
  /\ \A b, c \in bundles : BundleComplete(b) \/ BundleComplete(c) \/ b = c
  /\ \A b \in bundles : BundleComplete(b) \/ Pending \subseteq Elements(Members[b])
  /\ \A b \in bundles \cap Authorized : BundleComplete(b) \/ AuthorityMatches(b)

\* The call publishes the one member its queue begins with.
AtOp == step = "begin" \/ OnOp

\* A bundle of which the members before the queue are committed, and beside
\* which no other is unfinished.
UnderWay(b) ==
  /\ \A other \in bundles \ {b} : BundleComplete(other)
  /\ Elements(queue) \subseteq Elements(Members[b])
  /\ Elements(Members[b]) \ Elements(queue) \subseteq Committed

\* A bundle whose own receipts are being written: nothing is unfinished, and its
\* preflight, made when the call began, still holds.
Starting(b) ==
  /\ queue = Members[b]
  /\ Pending = {}
  /\ \A other \in bundles \ {b} : BundleComplete(other)
  /\ file.kind = "authority" \/ step # "unlink" =>
       PreflightAccepts(b) /\ (b \in bundles => BundleComplete(b))
  /\ file.kind = "bundle" /\ step = "unlink" => b \in bundles
  /\ file.kind = "authority" /\ step # "unlink" => file.chain = ChainBefore(b)
  /\ b \in Authorized /\ (file.kind = "bundle" \/ step = "unlink") => AuthorityMatches(b)

\* What the call in progress leaves unfinished wherever it is interrupted.
ProgressInv ==
  /\ torn = {}
  /\ step = "idle" /\ ~dirty => Settled
  /\ AtOp => Pending \subseteq {Head(queue)}
  /\ OnOp => file.op = Head(queue)
  /\ OnOp /\ file.kind = "receipt" /\ step # "unlink" => content[PathOf[file.op]] = NoOp
  /\ AtOp /\ job = "publish" => \A b \in bundles : BundleComplete(b)
  /\ AtOp /\ job = "bundle" => \E b \in bundles : UnderWay(b)
  /\ Installing /\ ~OnOp => job = "bundle" /\ Starting(file.bundle)

\* What recovery plans is all that is unfinished.
PlanInv ==
  Recovering =>
    /\ \A o \in Op : plan[o] # "complete" => o \in Pending /\ plan[o] # "restore"
    /\ step = "resume" => \A o \in Pending : plan[o] # "complete"

ReopenInv == ClaimInv /\ ProgressInv /\ PlanInv

-----------------------------------------------------------------------------
\* The path of an intent is free, or holds what the intent is for.
LEMMA FreeOrOwn ==
  ASSUME Inv, ClaimInv, NEW r \in receipts
  PROVE  content[PathOf[r]] \in {NoOp, r}
<1>1. TypeOK /\ DiskInv /\ PathOf[r] \in Path
  BY PathAssumption DEF Inv, TypeOK
<1> DEFINE found == content[PathOf[r]]
<1>2. found # NoOp => found \in receipts /\ PathOf[found] = PathOf[r]
  BY <1>1 DEF DiskInv
<1> HIDE DEF found
<1>3. found # NoOp => found = r
  BY <1>2 DEF ClaimInv
<1> QED
  BY <1>3 DEF found

\* A member of a bundle with a receipt is an operation with a path.
LEMMA BundleOpsInOp ==
  ASSUME TypeOK
  PROVE  /\ BundleOps \subseteq Op
         /\ \A b \in bundles : Elements(Members[b]) \subseteq BundleOps
<1>1. ASSUME NEW b \in bundles PROVE Elements(Members[b]) \subseteq Op
  <2>1. Members[b] \in Seq(Op)
    BY BundleAssumption DEF TypeOK
  <2> QED
    BY <2>1 DEF Elements
<1> QED
  BY <1>1 DEF BundleOps

\* A committed operation needs nothing else.
LEMMA CompleteWhenCommitted ==
  ASSUME Inv, NEW b
  PROVE  BundleComplete(b) <=> Elements(Members[b]) \subseteq Committed
  BY DEF Inv, DiskInv, BundleComplete

\* While the chain does not change, an authority receipt stays the right one.
LEMMA AuthorityStays ==
  ASSUME UNCHANGED ledger, authority \subseteq authority', NEW b
  PROVE  /\ ChainBefore(b)' = ChainBefore(b)
         /\ AuthorityMatches(b) => AuthorityMatches(b)'
<1>1. ChainBefore(b)' = ChainBefore(b)
  BY DEF ChainBefore
<1> QED
  BY <1>1 DEF AuthorityMatches

\* The first commit of a bundle leaves the chain before it as it is.
LEMMA ChainBeforeMember ==
  ASSUME ledger \in Seq(Op), NEW o \in Op, NEW b, PathOf[o] \in Paths(b),
         ledger' = Append(ledger, o)
  PROVE  ChainBefore(b)' = ChainBefore(b)
<1> DEFINE n == Len(ledger)
           before == {i \in 1 .. Len(ledger) :
                        \A j \in 1 .. i : PathOf[ledger[j]] \notin Paths(b)}
           after == {i \in 1 .. Len(ledger') :
                        \A j \in 1 .. i : PathOf[ledger'[j]] \notin Paths(b)}
<1>1. /\ n \in Nat /\ Len(ledger') = n + 1
      /\ \A i \in 1 .. n : ledger'[i] = ledger[i] /\ ledger[i] \in Op
      /\ ledger'[n + 1] = o
  OBVIOUS
<1>2. n + 1 \notin after
  BY <1>1
<1>3. ASSUME NEW i \in 1 .. n PROVE i \in before <=> i \in after
  BY <1>1, <1>3
<1>4. after = before
  BY <1>1, <1>2, <1>3
<1>5. IsFiniteSet(1 .. n) /\ Cardinality(1 .. n) = IF 1 > n THEN 0 ELSE n - 1 + 1
  BY <1>1, FS_Interval
<1>6. Cardinality(before) \in Nat /\ Cardinality(before) <= n
  <2> HIDE DEF n
  <2>1. Cardinality(1 .. n) = n
    BY <1>1, <1>5
  <2>2. before \subseteq 1 .. n
    BY DEF n
  <2> QED
    BY <1>5, <2>1, <2>2, FS_Subset, FS_CardinalityType
<1> DEFINE k == Cardinality(before)
<1>7. SubSeq(ledger', 1, k) = SubSeq(ledger, 1, k)
  <2>1. k \in Nat /\ k <= n
    BY <1>6
  <2> HIDE DEF k
  <2> QED
    BY <1>1, <2>1
<1>8. ChainBefore(b) = SubSeq(ledger, 1, Cardinality(before))
  BY DEF ChainBefore
<1>9. ChainBefore(b)' = SubSeq(ledger', 1, Cardinality(after))
  BY DEF ChainBefore, Paths
<1> QED
  BY <1>4, <1>7, <1>8, <1>9

-----------------------------------------------------------------------------
\* Committed operations stay committed, so a bundle that is whole stays whole.
LEMMA CommittedStays ==
  ASSUME MaxLoss = 0, Inv, [Next]_vars
  PROVE  /\ Committed \subseteq Committed'
         /\ \A b : BundleComplete(b) => BundleComplete(b)'
<1>1. TypeOK /\ Inv'
  BY NextTypeOK, NextDiskInv, NextCallInv, NextRecoveryInv, NextStepInv DEF Inv
<1>2. CASE Link /\ file.kind = "commit"
  <2>1. Committed' = Committed \union {file.op}
    BY <1>1, <1>2, CommittedAfter DEF Link, Inv, CallInv, Installing, OnOp, TypeOK
  <2> QED
    BY <2>1, <1>1 DEF Inv, DiskInv, BundleComplete
<1>3. CASE UNCHANGED ledger
  <2>1. Committed' = Committed
    BY <1>3, CommittedSame
  <2> QED
    BY <2>1, <1>1 DEF Inv, DiskInv, BundleComplete
<1>4. (Link /\ file.kind = "commit") \/ UNCHANGED ledger
  BY <1>1, StoreSteps, NoLoss DEF disk, Link, Discard
<1> QED
  BY <1>2, <1>3, <1>4

\* The receipt of a publication is the only intent that is not recorded, and
\* its path was promised to nobody else.
LEMMA LinkReceipt ==
  ASSUME MaxLoss = 0, Inv, ReopenInv, Link, file.kind = "receipt"
  PROVE  ClaimInv'
<1> DEFINE o == file.op
<1>1. /\ TypeOK /\ DiskInv /\ ClaimInv /\ ProgressInv /\ OnOp /\ AtOp /\ o \in Op
      /\ PathOf[o] \in Path /\ o = Head(queue) /\ content[PathOf[o]] = NoOp
      /\ Pending \subseteq {o}
  BY PathAssumption DEF Link, Inv, CallInv, ReopenInv, ProgressInv, Installing, OnOp, AtOp
<1>2. /\ receipts' = receipts \union {o}
      /\ UNCHANGED <<content, ledger, bundles, authority>>
  BY DEF Link
<1>3. Committed' = Committed /\ BundleOps' = BundleOps
      /\ \A b : BundleComplete(b)' <=> BundleComplete(b)
  BY <1>2, CommittedSame DEF BundleOps, BundleComplete
<1>4. Pending' \subseteq {o}
  BY <1>1, <1>2, <1>3 DEF Pending
<1>5. o \notin Committed /\ o # NoOp
  BY <1>1, SentinelAssumption DEF DiskInv
<1>6. ASSUME NEW r \in receipts, PathOf[r] = PathOf[o] PROVE r = o
  <2>1. r \notin Committed
    BY <1>1, <1>6, SentinelAssumption DEF DiskInv, TypeOK
  <2> QED
    BY <1>1, <2>1 DEF Pending
<1>7. ASSUME NEW b \in bundles PROVE BundleComplete(b) \/ o \in Elements(Members[b])
  <2>1. CASE job = "publish"
    BY <1>1, <2>1 DEF ProgressInv
  <2>2. CASE job = "bundle"
    <3>1. PICK c \in bundles : UnderWay(c)
      BY <1>1, <2>2 DEF ProgressInv
    <3>2. queue # <<>> /\ queue \in Seq(Op)
      BY <1>1 DEF Inv, CallInv, OnOp, TypeOK
    <3>3. Head(queue) \in Elements(queue)
      BY <3>2 DEF Elements
    <3> QED
      BY <1>1, <3>1, <3>3 DEF UnderWay
  <2>3. CASE job = "recover"
    <3>1. o \in BundleOps
      BY <1>1, <2>3 DEF Inv, RecoveryInv, Recovering, Installing, OnOp
    <3>2. PICK c \in bundles : o \in Elements(Members[c])
      BY <3>1 DEF BundleOps
    <3>3. ~BundleComplete(c)
      BY <1>5, <3>2 DEF BundleComplete
    <3> QED
      BY <1>1, <3>2, <3>3 DEF ClaimInv
  <2> QED
    BY <1>1, <2>1, <2>2, <2>3 DEF TypeOK
<1>8. ASSUME NEW x \in BundleOps, PathOf[x] = PathOf[o] PROVE x = o
  <2>1. PICK b \in bundles : x \in Elements(Members[b])
    BY DEF BundleOps
  <2>2. x # NoOp
    BY <1>1, BundleOpsInOp, SentinelAssumption
  <2>3. ~BundleComplete(b)
    BY <1>1, <1>8, <2>1, <2>2 DEF BundleComplete
  <2>4. o \in BundleOps
    BY <1>7, <2>3 DEF BundleOps
  <2> QED
    BY <1>1, <1>8, <2>4 DEF ClaimInv
<1> HIDE DEF o
<1>9. \A r, s \in receipts' : PathOf[r] = PathOf[s] => r = s
  BY <1>1, <1>2, <1>6 DEF ClaimInv
<1>10. \A x \in BundleOps' : \A r \in receipts' \union BundleOps' :
         PathOf[r] = PathOf[x] => r = x
  BY <1>1, <1>2, <1>3, <1>8 DEF ClaimInv
<1>11. \A b, c \in bundles' : BundleComplete(b)' \/ BundleComplete(c)' \/ b = c
  BY <1>1, <1>2, <1>3 DEF ClaimInv
<1>12. \A b \in bundles' : BundleComplete(b)' \/ Pending' \subseteq Elements(Members[b])
  BY <1>2, <1>3, <1>4, <1>7
<1>13. \A b \in bundles' \cap Authorized : BundleComplete(b)' \/ AuthorityMatches(b)'
  BY <1>1, <1>2, <1>3, AuthorityStays DEF ClaimInv
<1> QED
  BY <1>4, <1>9, <1>10, <1>11, <1>12, <1>13 DEF ClaimInv

\* A bundle receipt is written over nothing unfinished, and its preflight showed
\* that nobody else claims the paths of the members.
LEMMA LinkBundle ==
  ASSUME MaxLoss = 0, Inv, ReopenInv, Link, file.kind = "bundle"
  PROVE  ClaimInv'
<1> DEFINE n == file.bundle
<1>1. /\ TypeOK /\ ClaimInv /\ n \in Bundle /\ Starting(n) /\ PreflightAccepts(n)
      /\ Pending = {}
      /\ \A b \in bundles : BundleComplete(b)
      /\ n \in Authorized => AuthorityMatches(n)
  BY DEF Link, Inv, CallInv, ReopenInv, ProgressInv, Installing, OnOp, Starting
<1>2. /\ bundles' = bundles \union {n}
      /\ UNCHANGED <<receipts, content, ledger, authority>>
  BY <1>1 DEF Link
<1>3. /\ Committed' = Committed /\ Pending' = {}
      /\ BundleOps' = BundleOps \union Elements(Members[n])
      /\ \A b : BundleComplete(b)' <=> BundleComplete(b)
  BY <1>1, <1>2, CommittedSame DEF BundleOps, BundleComplete, Pending
<1> HIDE DEF n
<1>4. \A x, y \in Elements(Members[n]) : PathOf[x] = PathOf[y] => x = y
  BY <1>1, BundleAssumption DEF Elements
<1>5. ASSUME NEW x \in Elements(Members[n]), NEW r \in receipts, PathOf[r] = PathOf[x]
      PROVE  r = x
  BY <1>1, <1>5 DEF PreflightAccepts
<1>6. ASSUME NEW x \in Elements(Members[n]), NEW y \in BundleOps, PathOf[y] = PathOf[x]
      PROVE  y = x
  <2>1. PICK b \in bundles : y \in Elements(Members[b])
    BY DEF BundleOps
  <2>2. PathOf[y] \in Paths(n)
    BY <1>6 DEF Paths
  <2>3. y \in Elements(Members[n])
    BY <1>1, <2>1, <2>2 DEF PreflightAccepts
  <2> QED
    BY <1>4, <1>6, <2>3
<1>7. \A x \in BundleOps' : \A r \in receipts' \union BundleOps' :
         PathOf[r] = PathOf[x] => r = x
  BY <1>1, <1>2, <1>3, <1>4, <1>5, <1>6 DEF ClaimInv
<1>8. \A b, c \in bundles' : BundleComplete(b)' \/ BundleComplete(c)' \/ b = c
  BY <1>1, <1>2, <1>3
<1>9. \A b \in bundles' \cap Authorized : BundleComplete(b)' \/ AuthorityMatches(b)'
  BY <1>1, <1>2, <1>3, AuthorityStays DEF ClaimInv
<1> QED
  BY <1>1, <1>2, <1>3, <1>7, <1>8, <1>9 DEF ClaimInv

\* What is committed is the one intent there was: a member of every unfinished
\* bundle, whose authority receipt it leaves the right one.
LEMMA LinkCommit ==
  ASSUME MaxLoss = 0, Inv, ReopenInv, [Next]_vars, Link, file.kind = "commit"
  PROVE  ClaimInv'
<1> DEFINE o == file.op
<1>1. /\ TypeOK /\ DiskInv /\ ClaimInv /\ o \in Op /\ PathOf[o] \in Path
      /\ content[PathOf[o]] = o /\ o \notin Committed
  BY PathAssumption DEF Link, Inv, CallInv, ReopenInv, Installing, OnOp
<1>2. ledger' = Append(ledger, o) /\ UNCHANGED <<receipts, content, bundles, authority>>
  BY DEF Link
<1>3. Committed' = Committed \union {o} /\ BundleOps' = BundleOps
  BY <1>1, <1>2, CommittedAfter DEF TypeOK, BundleOps
<1>4. o \in Pending
  BY <1>1, SentinelAssumption DEF DiskInv, Pending
<1>5. \A b : BundleComplete(b) => BundleComplete(b)'
  BY CommittedStays
<1> HIDE DEF o
<1>6. Pending' \subseteq Pending
  BY <1>2, <1>3 DEF Pending
<1>7. ASSUME NEW b \in bundles, b \in Authorized PROVE BundleComplete(b)' \/ AuthorityMatches(b)'
  <2>1. CASE BundleComplete(b)
    BY <1>5, <2>1
  <2>2. CASE ~BundleComplete(b)
    <3>1. AuthorityMatches(b) /\ o \in Elements(Members[b])
      BY <1>1, <1>4, <1>7, <2>2 DEF ClaimInv
    <3>2. PathOf[o] \in Paths(b)
      BY <3>1 DEF Paths
    <3>3. ChainBefore(b)' = ChainBefore(b)
      BY <1>1, <1>2, <3>2, ChainBeforeMember DEF TypeOK
    <3> QED
      BY <1>2, <3>1, <3>3 DEF AuthorityMatches
  <2> QED
    BY <2>1, <2>2
<1>8. /\ \A r, s \in receipts' : PathOf[r] = PathOf[s] => r = s
      /\ \A r, s \in Pending' : r = s
      /\ \A x \in BundleOps' : \A r \in receipts' \union BundleOps' :
           PathOf[r] = PathOf[x] => r = x
  BY <1>1, <1>2, <1>3, <1>6 DEF ClaimInv
<1>9. \A b, c \in bundles' : BundleComplete(b)' \/ BundleComplete(c)' \/ b = c
  BY <1>1, <1>2, <1>5 DEF ClaimInv
<1>10. \A b \in bundles' : BundleComplete(b)' \/ Pending' \subseteq Elements(Members[b])
  BY <1>1, <1>2, <1>5, <1>6 DEF ClaimInv
<1> QED
  BY <1>2, <1>7, <1>8, <1>9, <1>10 DEF ClaimInv

\* Every other step promises nothing new.
LEMMA NextClaimInv ==
  ASSUME MaxLoss = 0, Inv, ReopenInv, [Next]_vars
  PROVE  ClaimInv'
<1>1. TypeOK /\ ClaimInv /\ CallInv /\ \A b : BundleComplete(b) => BundleComplete(b)'
  BY CommittedStays DEF Inv, ReopenInv
<1>2. ASSUME receipts' \subseteq receipts, UNCHANGED <<ledger, bundles>>,
             authority \subseteq authority'
      PROVE  ClaimInv'
  <2>1. /\ Committed' = Committed /\ BundleOps' = BundleOps
        /\ Pending' \subseteq Pending
    BY <1>2, CommittedSame DEF BundleOps, Pending
  <2>2. /\ \A r, s \in receipts' : PathOf[r] = PathOf[s] => r = s
        /\ \A r, s \in Pending' : r = s
        /\ \A x \in BundleOps' : \A r \in receipts' \union BundleOps' :
             PathOf[r] = PathOf[x] => r = x
    BY <1>1, <1>2, <2>1 DEF ClaimInv
  <2>3. /\ \A b, c \in bundles' : BundleComplete(b)' \/ BundleComplete(c)' \/ b = c
        /\ \A b \in bundles' : BundleComplete(b)' \/ Pending' \subseteq Elements(Members[b])
    BY <1>1, <1>2, <2>1 DEF ClaimInv
  <2>4. \A b \in bundles' \cap Authorized : BundleComplete(b)' \/ AuthorityMatches(b)'
    BY <1>1, <1>2, AuthorityStays DEF ClaimInv
  <2> QED
    BY <2>2, <2>3, <2>4 DEF ClaimInv
<1>3. CASE Link
  <2>1. CASE file.kind \in {"target", "authority"}
    BY <1>2, <1>3, <2>1 DEF Link
  <2>2. file.kind \in Kind
    BY <1>1 DEF TypeOK, File
  <2> QED
    BY <1>3, <2>1, <2>2, LinkReceipt, LinkBundle, LinkCommit DEF Kind
<1> QED
  BY <1>1, <1>2, <1>3, StoreSteps, NoLoss DEF disk, Discard

-----------------------------------------------------------------------------
\* A queue is its first member and the rest.
LEMMA HeadAndTail ==
  ASSUME NEW S, NEW q \in Seq(S), q # <<>>
  PROVE  /\ Head(q) \in Elements(q)
         /\ Elements(q) = {Head(q)} \union Elements(Tail(q))
<1>1. Len(q) \in Nat /\ Len(q) >= 1 /\ Len(Tail(q)) = Len(q) - 1 /\ Head(q) = q[1]
  OBVIOUS
<1>2. \A i \in 1 .. Len(Tail(q)) : Tail(q)[i] = q[i + 1]
  OBVIOUS
<1>3. Elements(Tail(q)) \subseteq Elements(q)
  BY <1>1, <1>2 DEF Elements
<1>4. ASSUME NEW i \in 1 .. Len(q) PROVE q[i] \in {Head(q)} \union Elements(Tail(q))
  <2>1. CASE i = 1
    BY <1>1, <2>1
  <2>2. CASE i # 1
    <3>1. i - 1 \in 1 .. Len(Tail(q)) /\ Tail(q)[i - 1] = q[i]
      BY <1>1, <1>2, <2>2
    <3> QED
      BY <3>1 DEF Elements
  <2> QED
    BY <2>1, <2>2
<1>5. Head(q) \in Elements(q)
  BY <1>1 DEF Elements
<1>6. Elements(q) \subseteq {Head(q)} \union Elements(Tail(q))
  BY <1>4 DEF Elements
<1> QED
  BY <1>3, <1>5, <1>6

\* While the disk is as it was, what is unfinished is as it was.
LEMMA UnfinishedSame ==
  ASSUME UNCHANGED disk
  PROVE  /\ Committed' = Committed /\ Pending' = Pending /\ BundleOps' = BundleOps
         /\ \A b : BundleComplete(b)' <=> BundleComplete(b)
         /\ \A b : AuthorityMatches(b)' <=> AuthorityMatches(b)
         /\ \A b : PreflightAccepts(b)' <=> PreflightAccepts(b)
         /\ \A b : ChainBefore(b)' = ChainBefore(b)
<1>1. Committed' = Committed
  BY CommittedSame DEF disk
<1>2. \A b : ChainBefore(b)' = ChainBefore(b)
  BY DEF disk, ChainBefore
<1>3. \A o : DurablyCompleted(o)' <=> DurablyCompleted(o)
  BY <1>1 DEF disk, DurablyCompleted
<1>4. ChainValid' <=> ChainValid
  BY <1>1 DEF disk, ChainValid
<1>5. \A b : PreflightAccepts(b)' <=> PreflightAccepts(b)
  BY <1>3, <1>4 DEF disk, PreflightAccepts
<1>6. \A b : BundleComplete(b)' <=> BundleComplete(b)
  BY <1>1 DEF disk, BundleComplete
<1>7. \A b : AuthorityMatches(b)' <=> AuthorityMatches(b)
  BY <1>2 DEF disk, AuthorityMatches
<1> QED
  BY <1>1, <1>2, <1>5, <1>6, <1>7 DEF disk, Pending, BundleOps

\* When a member is committed the call goes on with the next, and after the last
\* nothing is unfinished.
LEMMA NextMember ==
  ASSUME Inv, ReopenInv, AtOp, Head(queue) \in Committed,
         UNCHANGED <<disk, torn, job, file, dirty>>, queue' = Tail(queue),
         step' = IF Tail(queue) # <<>> THEN "begin"
                 ELSE IF job = "recover" THEN "resume" ELSE "idle"
  PROVE  ProgressInv'
<1>1. /\ TypeOK /\ ProgressInv /\ queue # <<>> /\ queue \in Seq(Op)
      /\ Pending = {}
  BY DEF Inv, TypeOK, CallInv, ReopenInv, ProgressInv, AtOp, OnOp, Installing, Pending
<1>2. Elements(queue) = {Head(queue)} \union Elements(Tail(queue))
  BY <1>1, HeadAndTail
<1>3. /\ Committed' = Committed /\ Pending' = {}
      /\ \A b : BundleComplete(b)' <=> BundleComplete(b)
  BY <1>1, UnfinishedSame
<1>4. bundles' = bundles /\ torn' = {} /\ ~Installing' /\ ~OnOp'
  BY <1>1 DEF disk, ProgressInv, Installing, OnOp
<1>5. ASSUME NEW b \in bundles, UnderWay(b) PROVE UnderWay(b)'
  <2>1. Elements(queue)' = Elements(Tail(queue))
    OBVIOUS
  <2> QED
    BY <1>2, <1>3, <1>4, <1>5, <2>1 DEF UnderWay
<1>6. ASSUME step' = "idle" PROVE Settled'
  <2>1. Tail(queue) = <<>> /\ job # "recover"
    BY <1>6
  <2>2. Elements(Tail(queue)) = {}
    BY <2>1 DEF Elements
  <2>3. ASSUME NEW b \in bundles, UnderWay(b), NEW c \in bundles PROVE BundleComplete(c)
    <3>1. Elements(Members[b]) \subseteq Committed
      BY <1>2, <2>2, <2>3 DEF UnderWay
    <3> QED
      BY <2>3, <3>1, CompleteWhenCommitted DEF UnderWay
  <2>4. \A c \in bundles : BundleComplete(c)
    BY <1>1, <2>1, <2>3 DEF ProgressInv, TypeOK
  <2> QED
    BY <1>3, <1>4, <2>4 DEF Settled
<1>7. AtOp' => step' = "begin"
  BY <1>4 DEF AtOp
<1>8. step' = "begin" => AtOp
  OBVIOUS
<1>9. AtOp' /\ job' = "publish" => \A b \in bundles' : BundleComplete(b)'
  BY <1>1, <1>3, <1>4 DEF ProgressInv
<1>10. AtOp' /\ job' = "bundle" => \E b \in bundles' : UnderWay(b)'
  BY <1>1, <1>4, <1>5 DEF ProgressInv
<1> QED
  BY <1>3, <1>4, <1>6, <1>9, <1>10 DEF ProgressInv

\* A call that goes on with the same member leaves what is unfinished alone.
LEMMA SameMember ==
  ASSUME Inv, ReopenInv, AtOp, UNCHANGED <<disk, torn, job, queue>>,
         step' \in {"write", "link"}, file'.op = Head(queue),
         file'.kind \in {"receipt", "target", "commit"},
         file'.kind = "receipt" => content[PathOf[Head(queue)]] = NoOp
  PROVE  ProgressInv'
<1>1. ProgressInv
  BY DEF ReopenInv
<1>2. /\ Committed' = Committed /\ Pending' = Pending
      /\ \A b : BundleComplete(b)' <=> BundleComplete(b)
  BY UnfinishedSame
<1>3. bundles' = bundles /\ content' = content /\ torn' = {} /\ queue' = queue /\ OnOp'
  BY <1>1 DEF disk, ProgressInv, OnOp, Installing
<1>4. \A b : UnderWay(b) => UnderWay(b)'
  BY <1>2, <1>3 DEF UnderWay
<1> QED
  BY <1>1, <1>2, <1>3, <1>4 DEF ProgressInv

\* The publication of one member begins.
LEMMA BeginProgress ==
  ASSUME Inv, ReopenInv, Begin
  PROVE  ProgressInv'
<1> DEFINE o == Head(queue)
<1>1. AtOp /\ queue # <<>> /\ o \in Op /\ UNCHANGED <<disk, torn, job, dirty>>
  BY DEF Begin, AtOp, Inv, CallInv, TypeOK, temps, bounds
<1>2. CASE content[PathOf[o]] = o /\ o \in Committed
  <2>1. /\ file' = file /\ queue' = Tail(queue)
        /\ step' = IF Tail(queue) # <<>> THEN "begin"
                   ELSE IF job = "recover" THEN "resume" ELSE "idle"
    BY <1>1, <1>2, SentinelAssumption DEF Begin
  <2> QED
    BY <1>1, <1>2, <2>1, NextMember
<1>3. CASE content[PathOf[o]] = o /\ o \notin Committed
  <2>1. file' = CommitFile(o) /\ step' = "write" /\ queue' = queue
    BY <1>1, <1>3, SentinelAssumption DEF Begin
  <2> QED
    BY <1>1, <2>1, SameMember DEF CommitFile
<1>4. CASE content[PathOf[o]] = NoOp
  <2>1. /\ file' = OpFile(IF o \in receipts THEN "target" ELSE "receipt", o)
        /\ step' = "write" /\ queue' = queue
    BY <1>1, <1>4, SentinelAssumption DEF Begin
  <2> QED
    BY <1>1, <1>4, <2>1, SameMember DEF OpFile
<1> QED
  BY <1>2, <1>3, <1>4 DEF Begin

\* A temporary is written.
LEMMA WriteProgress ==
  ASSUME Inv, ReopenInv, WriteTemp
  PROVE  ProgressInv'
<1>1. /\ UNCHANGED <<disk, torn, job, file, queue, dirty>> /\ step = "write"
      /\ step' = "link" /\ ProgressInv /\ Installing
  BY DEF WriteTemp, bounds, ReopenInv, Installing
<1>2. CASE OnOp
  <2>1. AtOp /\ file.kind \in {"receipt", "target", "commit"} /\ file.op = Head(queue)
    BY <1>1, <1>2 DEF AtOp, OnOp, ProgressInv
  <2> QED
    BY <1>1, <1>2, <2>1, SameMember DEF ProgressInv
<1>3. CASE ~OnOp
  <2>1. job = "bundle" /\ Starting(file.bundle) /\ ~OnOp' /\ Installing' /\ ~AtOp'
    BY <1>1, <1>3 DEF ProgressInv, OnOp, AtOp, Installing
  <2>2. Starting(file.bundle)'
    BY <1>1, <2>1, UnfinishedSame DEF Starting, disk
  <2> QED
    BY <1>1, <2>1, <2>2 DEF ProgressInv
<1> QED
  BY <1>2, <1>3

\* A file of one operation, or a receipt of the bundle that starts, is installed.
LEMMA LinkProgress ==
  ASSUME MaxLoss = 0, Inv, ReopenInv, [Next]_vars, Link
  PROVE  ProgressInv'
<1>1. /\ UNCHANGED <<torn, job, file, queue, dirty>> /\ step = "link"
      /\ step' = "unlink" /\ ProgressInv /\ Installing /\ TypeOK /\ CallInv
  BY DEF Link, temps, bounds, ReopenInv, Installing, Inv
<1>2. Committed \subseteq Committed' /\ \A b : BundleComplete(b) => BundleComplete(b)'
  BY CommittedStays
<1>3. CASE OnOp
  <2>1. AtOp /\ OnOp' /\ file.op = Head(queue) /\ Pending \subseteq {Head(queue)}
    BY <1>1, <1>3 DEF AtOp, OnOp, ProgressInv, Installing
  <2>2. /\ bundles' = bundles
        /\ receipts' \subseteq receipts \union {file.op}
    BY <1>3 DEF Link, OnOp
  <2>3. Pending' \subseteq {Head(queue')}
    BY <1>1, <1>2, <2>1, <2>2 DEF Pending
  <2>4. \A b : UnderWay(b) => UnderWay(b)'
    BY <1>1, <1>2, <2>2 DEF UnderWay
  <2> QED
    BY <1>1, <1>2, <2>1, <2>2, <2>3, <2>4 DEF ProgressInv
<1>4. CASE ~OnOp
  <2>0. PICK b \in Bundle : b = file.bundle
    BY <1>1, <1>4 DEF CallInv, TypeOK
  <2>1. /\ job = "bundle" /\ Starting(b)
        /\ file.kind \in {"bundle", "authority"}
        /\ ~OnOp' /\ Installing' /\ ~AtOp'
    BY <1>1, <1>4, <2>0 DEF ProgressInv, OnOp, AtOp, Installing, CallInv, TypeOK, File, Kind
  <2>2. /\ UNCHANGED <<receipts, content, ledger>>
        /\ bundles' = IF file.kind = "bundle" THEN bundles \union {b} ELSE bundles
        /\ authority' = IF file.kind = "authority"
                        THEN authority \union {[bundle |-> b, chain |-> file.chain]}
                        ELSE authority
    BY <2>0, <2>1 DEF Link
  <2>3. Committed' = Committed /\ Pending' = Pending
    BY <2>2, CommittedSame DEF Pending
  <2>4. \A other \in bundles' \ {b} : BundleComplete(other)'
    BY <1>2, <2>1, <2>2 DEF Starting
  <2>5. file.kind = "authority" => PreflightAccepts(b)' /\ (b \in bundles' => BundleComplete(b)')
    <3>1. ASSUME file.kind = "authority"
          PROVE  UNCHANGED <<receipts, content, ledger, bundles>>
      BY <2>2, <3>1
    <3>2. ASSUME file.kind = "authority" PROVE PreflightAccepts(b)' <=> PreflightAccepts(b)
      BY <3>1, <3>2, <2>3 DEF PreflightAccepts, ChainValid, DurablyCompleted
    <3> QED
      BY <1>2, <2>1, <3>1, <3>2 DEF Starting
  <2>6. b \in Authorized => AuthorityMatches(b)'
    <3>1. authority \subseteq authority' /\ ledger' = ledger
      BY <2>2
    <3>2. /\ ChainBefore(b)' = ChainBefore(b)
          /\ AuthorityMatches(b) => AuthorityMatches(b)'
      BY <3>1, AuthorityStays
    <3>3. CASE file.kind = "bundle"
      BY <2>1, <3>2, <3>3 DEF Starting
    <3>4. CASE file.kind = "authority"
      BY <1>1, <2>1, <2>2, <3>2, <3>4 DEF Starting, AuthorityMatches
    <3> QED
      BY <2>1, <3>3, <3>4
  <2>7. file.kind = "bundle" => b \in bundles'
    BY <2>2
  <2>8. Starting(file.bundle)'
    BY <1>1, <2>0, <2>1, <2>3, <2>4, <2>5, <2>6, <2>7 DEF Starting
  <2> QED
    BY <1>1, <2>1, <2>8 DEF ProgressInv
<1> QED
  BY <1>3, <1>4

\* A bundle whose receipts are written goes on with its first member.
LEMMA MembersFollow ==
  ASSUME Inv, ReopenInv, NEW b \in bundles, Pending = {},
         \A other \in bundles \ {b} : BundleComplete(other),
         UNCHANGED <<disk, torn>>, job' = "bundle", queue' = Members[b],
         step' = "begin"
  PROVE  ProgressInv'
<1>1. Pending' = {} /\ bundles' = bundles /\ \A c : BundleComplete(c)' <=> BundleComplete(c)
  BY UnfinishedSame DEF disk
<1>2. UnderWay(b)' /\ torn' = {} /\ ~Installing' /\ ~OnOp'
  BY <1>1 DEF UnderWay, ReopenInv, ProgressInv, Installing, OnOp
<1> QED
  BY <1>1, <1>2 DEF ProgressInv

\* A bundle's receipts are about to be written.
LEMMA BundleStarts ==
  ASSUME Inv, ReopenInv, NEW b \in Bundle, Settled, PreflightAccepts(b),
         UNCHANGED <<disk, torn>>, job' = "bundle", queue' = Members[b],
         step' = "write",
         \/ file' = AuthorityFile(b)
         \/ file' = BundleFile(b) /\ (b \in Authorized => AuthorityMatches(b))
  PROVE  ProgressInv'
<1>1. /\ file'.bundle = b /\ file'.kind \in {"authority", "bundle"}
      /\ file'.kind = "authority" => file'.chain = ChainBefore(b)
      /\ file'.kind = "bundle" => (b \in Authorized => AuthorityMatches(b))
  BY DEF AuthorityFile, BundleFile
<1>2. Starting(b)'
  BY <1>1, UnfinishedSame DEF Starting, Settled, disk
<1>3. Installing' /\ ~OnOp' /\ ~AtOp' /\ torn' = {}
  BY <1>1 DEF Installing, OnOp, AtOp, ReopenInv, ProgressInv
<1>4. Starting(file.bundle)'
  BY <1>1, <1>2 DEF Starting
<1> QED
  BY <1>3, <1>4 DEF ProgressInv

\* The temporary goes, and the call goes on.
LEMMA UnlinkProgress ==
  ASSUME Inv, ReopenInv, Unlink
  PROVE  ProgressInv'
<1>1. /\ UNCHANGED <<disk, torn, job, dirty>> /\ step = "unlink"
      /\ ProgressInv /\ Installing /\ TypeOK /\ CallInv
  BY DEF Unlink, bounds, ReopenInv, Installing, Inv
<1>2. CASE OnOp
  <2>1. AtOp /\ file.op = Head(queue) /\ file.kind \in {"receipt", "target", "commit"}
    BY <1>1, <1>2 DEF AtOp, OnOp, ProgressInv
  <2>2. CASE file.kind = "receipt" \/ (file.kind = "target" /\ file.op \notin Committed)
    <3>1. /\ file' \in {OpFile("target", file.op), CommitFile(file.op)}
          /\ step' = "write" /\ queue' = queue
      BY <2>1, <2>2 DEF Unlink
    <3> QED
      BY <1>1, <2>1, <3>1, SameMember DEF OpFile, CommitFile
  <2>3. CASE file.kind = "commit" \/ (file.kind = "target" /\ file.op \in Committed)
    <3>1. Head(queue) \in Committed
      BY <1>1, <2>1, <2>3 DEF CallInv, Installing
    <3>2. /\ file' = file /\ queue' = Tail(queue)
          /\ step' = IF Tail(queue) # <<>> THEN "begin"
                     ELSE IF job = "recover" THEN "resume" ELSE "idle"
      BY <2>3 DEF Unlink
    <3> QED
      BY <1>1, <2>1, <3>1, <3>2, NextMember
  <2> QED
    BY <2>1, <2>2, <2>3
<1>3. CASE ~OnOp
  <2> DEFINE b == file.bundle
  <2>1. /\ job = "bundle" /\ Starting(b) /\ b \in Bundle
        /\ file.kind \in {"bundle", "authority"}
    BY <1>1, <1>3 DEF ProgressInv, OnOp, CallInv, TypeOK, File, Kind
  <2>2. CASE file.kind = "authority" /\ b \notin bundles
    <3>1. file' = BundleFile(b) /\ step' = "write" /\ queue' = queue
      BY <2>2 DEF Unlink
    <3>2. Settled /\ PreflightAccepts(b) /\ (b \in Authorized => AuthorityMatches(b))
      BY <1>1, <2>1, <2>2 DEF Starting, Settled
    <3> QED
      BY <1>1, <2>1, <3>1, <3>2, BundleStarts DEF Starting
  <2>3. CASE file.kind = "bundle" \/ (file.kind = "authority" /\ b \in bundles)
    <3>1. step' = "begin" /\ queue' = queue
      BY <2>3 DEF Unlink
    <3>2. b \in bundles
      BY <1>1, <2>1, <2>3 DEF Starting
    <3> QED
      BY <1>1, <2>1, <3>1, <3>2, MembersFollow DEF Starting
  <2> QED
    BY <2>1, <2>2, <2>3
<1> QED
  BY <1>2, <1>3

\* A call starts when nothing is unfinished.
LEMMA StartProgress ==
  ASSUME RecoverFirst, Inv, ReopenInv, MayStart,
         (\E o \in Op : Publish(o)) \/ (\E b \in Bundle : PublishBundle(b))
  PROVE  ProgressInv'
<1>1. Settled /\ torn = {}
  BY DEF MayStart, ReopenInv, ProgressInv, Inv, TypeOK
<1>2. ASSUME NEW o \in Op, Publish(o) PROVE ProgressInv'
  <2>1. /\ UNCHANGED <<disk, torn>> /\ step' = "begin" /\ job' = "publish"
    BY <1>2 DEF Publish, temps
  <2>2. /\ Pending' = {} /\ bundles' = bundles
        /\ \A b : BundleComplete(b)' <=> BundleComplete(b)
    BY <1>1, <2>1, UnfinishedSame DEF disk, Settled
  <2> QED
    BY <1>1, <2>1, <2>2 DEF ProgressInv, Settled, Installing, OnOp
<1>3. ASSUME NEW b \in Bundle, PublishBundle(b) PROVE ProgressInv'
  <2>1. /\ UNCHANGED <<disk, torn>> /\ PreflightAccepts(b) /\ job' = "bundle"
        /\ queue' = Members[b]
        /\ (b \in Authorized /\ HasAuthority(b)) => AuthorityMatches(b)
    BY <1>3 DEF PublishBundle, temps
  <2>2. \/ step' = "write" /\ file' = AuthorityFile(b)
        \/ step' = "write" /\ file' = BundleFile(b) /\ (b \in Authorized => HasAuthority(b))
        \/ step' = "begin" /\ b \in bundles
    BY <1>3 DEF PublishBundle
  <2> QED
    BY <1>1, <2>1, <2>2, BundleStarts, MembersFollow DEF Settled
<1> QED
  BY <1>2, <1>3

\* Recovery repairs the one publication that is unfinished, and then the members
\* that are missing one by one.
LEMMA RecoveryProgress ==
  ASSUME Inv, ReopenInv,
         \E o \in Op : CommitPublished(o) \/ InstallPlanned(o) \/ FillBundle(o)
  PROVE  ProgressInv'
<1>1. PICK o \in Op : CommitPublished(o) \/ InstallPlanned(o) \/ FillBundle(o)
  OBVIOUS
<1>2. /\ UNCHANGED <<disk, torn>> /\ queue' = <<o>> /\ Head(<<o>>) = o
      /\ step' \in {"begin", "write", "link"} /\ job' = job
      /\ step = "resume" /\ job = "recover"
      /\ ClaimInv /\ PlanInv /\ Recovering
  BY <1>1 DEF CommitPublished, InstallPlanned, FillBundle, PlanDone, temps, Inv, StepInv,
              Recovering, ReopenInv
<1>3. Pending' \subseteq {o}
  <2>1. CASE CommitPublished(o) \/ InstallPlanned(o)
    <3>1. o \in Pending
      BY <1>2, <2>1 DEF CommitPublished, InstallPlanned, PlanInv
    <3> QED
      BY <1>2, <3>1, UnfinishedSame DEF ClaimInv
  <2>2. CASE FillBundle(o)
    <3>1. \A r \in Pending : r \in Op
      BY DEF Inv, TypeOK, Pending
    <3>2. Pending = {}
      BY <1>2, <2>2, <3>1 DEF FillBundle, PlanDone, PlanInv
    <3> QED
      BY <1>2, <3>2, UnfinishedSame
  <2> QED
    BY <1>1, <2>1, <2>2
<1>4. step' # "begin" => file'.op = o /\ file'.kind \in {"target", "commit"}
  BY <1>1 DEF CommitPublished, InstallPlanned, FillBundle, OpFile, CommitFile
<1> QED
  BY <1>2, <1>3, <1>4 DEF ReopenInv, ProgressInv, Installing, OnOp, AtOp

\* A recovery that ends leaves nothing unfinished.
LEMMA RecoveredSettled ==
  ASSUME Inv, ReopenInv, PlanDone, Missing = {}
  PROVE  Settled
<1>1. /\ TypeOK /\ DiskInv /\ step = "resume" /\ Recovering /\ PlanInv /\ ClaimInv
  BY DEF Inv, PlanDone, StepInv, Recovering, ReopenInv
<1>2. Pending = {}
  BY <1>1 DEF PlanInv, PlanDone, Pending, TypeOK
<1>3. ASSUME NEW b \in bundles, NEW o \in Elements(Members[b]) PROVE o \in Committed
  <2>1. o \in BundleOps /\ o \in Op /\ PathOf[o] \in Path
    BY <1>1, BundleOpsInOp, PathAssumption
  <2>2. content[PathOf[o]] # NoOp
    BY <2>1 DEF Missing, BundleOps
  <2> DEFINE r == content[PathOf[o]]
  <2>3. r \in receipts /\ PathOf[r] = PathOf[o]
    BY <1>1, <2>1, <2>2 DEF DiskInv
  <2> HIDE DEF r
  <2>4. r = o
    BY <1>1, <2>1, <2>3 DEF ClaimInv
  <2> QED
    BY <1>2, <2>3, <2>4 DEF Pending
<1> QED
  BY <1>2, <1>3, CompleteWhenCommitted DEF Settled

\* Every step leaves behind what load-run can deal with.
LEMMA NextProgressInv ==
  ASSUME MaxLoss = 0, RecoverFirst, ~Tears, Inv, ReopenInv, [Next]_vars
  PROVE  ProgressInv'
<1>1. TypeOK /\ ProgressInv /\ torn = {}
  BY DEF Inv, ReopenInv, ProgressInv
<1>2. CASE step' = "resume" \/ (step' = "idle" /\ dirty')
  <2>1. torn' = {}
    BY <1>1, <1>2, NoLoss DEF Next, Progress, Publish, PublishBundle, Recover, Begin,
       BeginThrows, WriteTemp, WriteThrows, Link, LinkThrows, Unlink, CommitPublished,
       InstallPlanned, Discard, FillBundle, Clean, Recovered, Crash, CrashInWrite,
       Throw, vars, temps
  <2> QED
    BY <1>2, <2>1 DEF ProgressInv, AtOp, OnOp, Installing
<1>3. CASE UNCHANGED vars
  <2>1. \A b : /\ BundleComplete(b)' <=> BundleComplete(b)
               /\ UnderWay(b)' <=> UnderWay(b)
               /\ Starting(b)' <=> Starting(b)
    BY <1>3, UnfinishedSame DEF vars, disk, UnderWay, Starting
  <2>2. Starting(file.bundle)' <=> Starting(file.bundle)
    BY <1>3, UnfinishedSame DEF vars, disk, Starting
  <2> QED
    BY <1>1, <1>3, <2>1, <2>2, UnfinishedSame
       DEF vars, disk, temps, bounds, ProgressInv, Settled, AtOp, OnOp, Installing
<1>4. ASSUME Recovered PROVE ProgressInv'
  <2>1. UNCHANGED <<disk, torn>> /\ step' = "idle" /\ Settled
    BY <1>4, RecoveredSettled DEF Recovered, temps
  <2>2. Settled'
    BY <2>1, UnfinishedSame DEF Settled, disk
  <2> QED
    BY <1>1, <2>1, <2>2 DEF ProgressInv, AtOp, OnOp, Installing
<1>5. ASSUME (\E o \in Op : Publish(o)) \/ (\E b \in Bundle : PublishBundle(b))
      PROVE  ProgressInv'
  <2>1. MayStart
    BY <1>5 DEF Publish, PublishBundle
  <2> QED
    BY <1>5, <2>1, StartProgress
<1>6. ASSUME NEW o \in Op, Discard(o) PROVE step' = "resume"
  BY <1>6 DEF Discard
<1>7. ASSUME NEW f \in temp, Clean(f) PROVE step' = "resume"
  BY <1>7 DEF Clean, PlanDone
<1>8. BeginThrows \/ WriteThrows \/ LinkThrows \/ Crash => step' = "idle" /\ dirty'
  BY DEF BeginThrows, WriteThrows, LinkThrows, Crash, Throw
<1>9. Recover => step' = "resume"
  BY DEF Recover
<1>10. Begin \/ WriteTemp \/ Link \/ Unlink => ProgressInv'
  BY BeginProgress, WriteProgress, LinkProgress, UnlinkProgress
<1>11. ASSUME NEW o \in Op, CommitPublished(o) \/ InstallPlanned(o) \/ FillBundle(o)
       PROVE  ProgressInv'
  BY <1>11, RecoveryProgress
<1>12. CASE Progress
  BY <1>2, <1>4, <1>6, <1>7, <1>8, <1>10, <1>11, <1>12 DEF Progress
<1>13. ~CrashInWrite /\ \A p \in Path : ~Lose(p)
  BY <1>1, NoLoss DEF CrashInWrite
<1> QED
  BY <1>2, <1>3, <1>5, <1>8, <1>9, <1>12, <1>13 DEF Next

-----------------------------------------------------------------------------
\* Recovery plans a repair for each intent that is not recorded, and for those
\* only.
LEMMA RecoverPlansPending ==
  ASSUME MaxLoss = 0, Inv, ReopenInv, Recover
  PROVE  PlanInv'
<1>1. /\ TypeOK /\ DiskInv /\ ClaimInv /\ torn = {}
      /\ \A o \in Op : Classify(o) # "conflict"
      /\ UNCHANGED disk
      /\ plan' = [o \in Op |-> Classify(o)]
  BY DEF Recover, Inv, ReopenInv, ProgressInv, RecoveryAccepts
<1>2. ASSUME NEW o \in Op, o \notin Pending PROVE Classify(o) = "complete"
  <2>1. o \in Committed => content[PathOf[o]] = o
    BY <1>1 DEF DiskInv
  <2>2. CASE o \notin receipts
    BY <2>2 DEF Classify
  <2>3. CASE o \in receipts /\ o \in Committed
    BY <2>1, <2>3, SentinelAssumption DEF Classify
  <2> QED
    BY <1>2, <2>2, <2>3 DEF Pending
<1>3. ASSUME NEW o \in Pending
      PROVE  Classify(o) # "complete" /\ Classify(o) # "restore"
  <2>1. o \in receipts /\ o \notin Committed /\ content[PathOf[o]] \in {NoOp, o}
    BY FreeOrOwn, <1>1 DEF Pending
  <2>2. CASE content[PathOf[o]] = o
    BY <2>1, <2>2 DEF Classify
  <2>3. CASE content[PathOf[o]] = NoOp /\ o # NoOp
    BY <1>1, <2>1, <2>3 DEF Classify
  <2>4. o # NoOp
    BY <1>1, <2>1, SentinelAssumption DEF TypeOK
  <2> QED
    BY <2>1, <2>2, <2>3, <2>4
<1>4. Pending \subseteq Op
  BY <1>1 DEF TypeOK, Pending
<1>5. \A o \in Op : plan'[o] = Classify(o)
  BY <1>1
<1> QED
  BY <1>1, <1>2, <1>3, <1>4, <1>5, UnfinishedSame DEF PlanInv

\* ... and goes through it.
LEMMA NextPlanInv ==
  ASSUME MaxLoss = 0, Inv, ReopenInv, [Next]_vars
  PROVE  PlanInv'
<1>1. TypeOK /\ PlanInv /\ ClaimInv /\ ProgressInv /\ CallInv /\ RecoveryInv /\ DiskInv
  BY DEF Inv, ReopenInv
<1>2. CASE ~Recovering'
  BY <1>2 DEF PlanInv
<1>3. CASE UNCHANGED vars
  BY <1>1, <1>3, UnfinishedSame DEF vars, disk, PlanInv, Recovering
<1>4. CASE Recover
  BY <1>4, RecoverPlansPending
<1> SUFFICES ASSUME Recovering', ~Recover, ~UNCHANGED vars PROVE PlanInv'
  BY <1>2, <1>3, <1>4
<1>5. /\ Recovering
      /\ \/ Begin \/ WriteTemp \/ Link \/ Unlink
         \/ \E o \in Op : CommitPublished(o) \/ InstallPlanned(o)
         \/ \E o \in Op : Discard(o) \/ FillBundle(o)
         \/ \E f \in temp : Clean(f)
  BY RecoverySteps
<1>6. \A o \in Op : plan[o] # "complete" => o \in Pending /\ plan[o] # "restore"
  BY <1>1, <1>5 DEF PlanInv
<1>7. CASE Begin \/ Unlink
  <2>1. AtOp /\ UNCHANGED <<disk, plan>> /\ step \in {"begin", "unlink"}
    BY <1>1, <1>5, <1>7 DEF Begin, Unlink, AtOp, RecoveryInv, Recovering, Installing
  <2>2. step' = "resume" => Head(queue) \in Committed
    <3>1. CASE Begin
      BY <3>1 DEF Begin
    <3>2. CASE Unlink
      BY <1>1, <1>5, <3>2 DEF Unlink, CallInv, RecoveryInv, Recovering, Installing, OnOp
    <3> QED
      BY <1>7, <3>1, <3>2
  <2>3. step' = "resume" => Pending = {}
    BY <1>1, <2>1, <2>2 DEF ProgressInv, Pending
  <2> QED
    BY <1>6, <2>1, <2>3, UnfinishedSame DEF PlanInv
<1>8. CASE WriteTemp
  BY <1>6, <1>8, UnfinishedSame DEF WriteTemp, PlanInv
<1>9. CASE Link
  <2>1. /\ plan' = plan /\ step' = "unlink"
        /\ file.op \in Op /\ plan[file.op] = "complete" /\ receipts \subseteq receipts'
    BY <1>1, <1>5, <1>9 DEF Link, RecoveryInv, Recovering, Installing, OnOp, CallInv
  <2>2. Committed' \subseteq Committed \union {file.op}
    <3>1. CASE file.kind = "commit"
      BY <1>1, <1>9, <2>1, <3>1, CommittedAfter DEF Link, TypeOK
    <3>2. CASE file.kind # "commit"
      BY <1>9, <3>2, CommittedSame DEF Link
    <3> QED
      BY <3>1, <3>2
  <2>3. \A o \in Pending : o = file.op \/ o \in Pending'
    BY <2>1, <2>2 DEF Pending
  <2> QED
    BY <1>6, <2>1, <2>3 DEF PlanInv
<1>10. ASSUME NEW o \in Op, CommitPublished(o) \/ InstallPlanned(o) PROVE PlanInv'
  <2>1. UNCHANGED disk /\ step' # "resume"
    BY <1>10 DEF CommitPublished, InstallPlanned
  <2>2. \A x \in Op : plan'[x] = IF x = o THEN "complete" ELSE plan[x]
    BY <1>1, <1>10 DEF CommitPublished, InstallPlanned, Done, TypeOK
  <2> QED
    BY <1>6, <2>1, <2>2, UnfinishedSame DEF PlanInv
<1>11. ASSUME NEW o \in Op, Discard(o) PROVE PlanInv'
  <2>1. /\ receipts' = receipts \ {o} /\ UNCHANGED ledger /\ step = "resume"
        /\ plan[o] = "discard"
    BY <1>11 DEF Discard
  <2>2. \A x \in Op : plan'[x] = IF x = o THEN "complete" ELSE plan[x]
    BY <1>1, <1>11 DEF Discard, Done, TypeOK
  <2>3. Pending' = Pending \ {o}
    BY <2>1, CommittedSame DEF Pending
  <2>4. \A x \in Pending : x \in Op /\ plan[x] # "complete"
    BY <1>1, <1>5, <2>1 DEF PlanInv, Pending, TypeOK
  <2> QED
    BY <1>6, <2>2, <2>3, <2>4 DEF PlanInv
<1>12. ASSUME NEW o \in Op, FillBundle(o) PROVE PlanInv'
  BY <1>6, <1>12, UnfinishedSame DEF FillBundle, PlanInv
<1>13. ASSUME NEW f \in temp, Clean(f) PROVE PlanInv'
  BY <1>1, <1>5, <1>6, <1>13, UnfinishedSame DEF Clean, PlanDone, PlanInv
<1> QED
  BY <1>5, <1>7, <1>8, <1>9, <1>10, <1>11, <1>12, <1>13

-----------------------------------------------------------------------------
\* What reopening needs is all there.
LEMMA ReopenAccepts ==
  ASSUME Inv, ReopenInv
  PROVE  RecoveryAccepts
<1>1. /\ TypeOK /\ DiskInv /\ ClaimInv /\ torn = {} /\ ChainValid
  BY ChainBacked DEF Inv, ReopenInv, ProgressInv
<1>2. ASSUME NEW o \in Op PROVE Classify(o) # "conflict"
  <2>1. CASE o \in receipts
    BY <1>1, <2>1, FreeOrOwn DEF Classify
  <2>2. CASE o \notin receipts
    BY <2>2 DEF Classify
  <2> QED
    BY <2>1, <2>2
<1>3. ASSUME NEW b \in bundles PROVE PreflightAccepts(b)
  <2>1. /\ BundleOps \subseteq Op
        /\ \A c \in bundles : Elements(Members[c]) \subseteq BundleOps
    BY <1>1, BundleOpsInOp
  <2>2. ASSUME NEW c \in bundles \ {b}, NEW o \in Elements(Members[c]), PathOf[o] \in Paths(b)
        PROVE  o \in Elements(Members[b]) /\ DurablyCompleted(o)
    <3>1. PICK x \in Elements(Members[b]) : PathOf[o] = PathOf[x]
      BY <2>2 DEF Paths
    <3>2. o = x
      BY <1>1, <2>1, <2>2, <3>1 DEF ClaimInv
    <3>3. BundleComplete(b) \/ BundleComplete(c)
      BY <1>1, <2>2 DEF ClaimInv
    <3> QED
      BY <1>1, <2>2, <3>2, <3>3 DEF BundleComplete, DurablyCompleted, ChainValid
  <2>3. ASSUME NEW o \in Elements(Members[b])
        PROVE  /\ \A r \in receipts : PathOf[r] = PathOf[o] => r = o
               /\ content[PathOf[o]] \in {NoOp, o}
               /\ content[PathOf[o]] = o => o \in receipts
    <3>1. o \in BundleOps /\ o \in Op /\ o # NoOp /\ PathOf[o] \in Path
      BY <2>1, PathAssumption, SentinelAssumption
    <3>2. \A r \in receipts : PathOf[r] = PathOf[o] => r = o
      BY <1>1, <3>1 DEF ClaimInv
    <3> QED
      BY <1>1, <3>1, <3>2 DEF DiskInv
  <2> QED
    BY <1>1, <2>2, <2>3 DEF PreflightAccepts
<1>4. ASSUME NEW o \in Op, NEW r \in Op, Classify(o) = "commit", Classify(r) = "commit"
      PROVE  o = r
  <2>1. /\ content[PathOf[o]] = o /\ o \notin Committed
        /\ content[PathOf[r]] = r /\ r \notin Committed
    BY <1>4 DEF Classify
  <2>2. PathOf[o] \in Uncommitted /\ PathOf[r] \in Uncommitted
    BY <2>1, PathAssumption, SentinelAssumption DEF Uncommitted
  <2> QED
    BY <1>1, <2>1, <2>2 DEF DiskInv
<1>5. \A b \in bundles : BundleComplete(b) \/ b \notin Authorized \/ AuthorityMatches(b)
  BY <1>1 DEF ClaimInv
<1> QED
  BY <1>1, <1>2, <1>3, <1>4, <1>5 DEF RecoveryAccepts, Ambiguous

\* Callers that reopen the Run after every interruption, and never leave an
\* incomplete temporary, are never refused: whatever was interrupted, load-run
\* accepts what it finds.
THEOREM AlwaysReopens ==
  MaxLoss = 0 /\ RecoverFirst /\ ~Tears => (Spec => []LoadAccepts)
<1> SUFFICES ASSUME MaxLoss = 0, RecoverFirst, ~Tears PROVE Spec => []LoadAccepts
  OBVIOUS
<1>1. Init => ReopenInv
  BY DEF Init, ReopenInv, ClaimInv, ProgressInv, PlanInv, Settled, Pending, BundleOps,
         AtOp, OnOp, Installing, Recovering
<1>2. Inv /\ ReopenInv /\ [Next]_vars => ReopenInv'
  BY NextClaimInv, NextProgressInv, NextPlanInv DEF ReopenInv
<1>3. Inv /\ ReopenInv => LoadAccepts
  BY ReopenAccepts DEF LoadAccepts
<1>4. Spec => []Inv
  BY Invariance
<1> QED
  BY <1>1, <1>2, <1>3, <1>4, PTL DEF Spec
=============================================================================
