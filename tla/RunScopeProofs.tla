--------------------------- MODULE RunScopeProofs ---------------------------
(***************************************************************************)
(* For any texts, bounds and interruptions, and whatever callers start     *)
(* next: nothing is published under a Scope that awaits confirmation, and  *)
(* the Scope of the Manifest never goes back, by load-run from an older    *)
(* checkpoint either (IInv).                                               *)
(*                                                                         *)
(* For callers that run load-run after an interrupted call and checkpoint  *)
(* before they correct a Scope (SInv): load-run accepts every Run, gives   *)
(* an interrupted call its whole effect or none, and what is durable       *)
(* implements ScopeGate.                                                   *)
(***************************************************************************)
EXTENDS RunScope, FiniteSetTheorems, WellFoundedInduction, TLAPS

\* A Manifest as far as its Scope is concerned: with its fields, valid or not.
Loose ==
  [status : Status \union {None}, before : Status \union {None},
   proposal : Decision, confirmation : Decision \union {None},
   plan : Artifact \union {None}, refs : SUBSET Artifact,
   active : SUBSET Revision, completed : SUBSET Revision,
   pending : SUBSET Artifact, rejected : SUBSET Artifact, applied : SUBSET Artifact]

\* The decisions a Manifest is bound to are on record in D.
Backed(m, D) ==
  /\ m.proposal \in Proposals(D)
  /\ m.confirmation # None =>
       m.confirmation \in Confirmations(D) /\ m.confirmation.rev = m.proposal.rev

\* A Manifest that may replace the current one: its Scope is no earlier.
Follows(m) ==
  /\ manifest.proposal.rev <= m.proposal.rev
  /\ manifest.proposal.rev = m.proposal.rev =>
       /\ m.proposal = manifest.proposal
       /\ manifest.confirmation \in {None, m.confirmation}

Good(m, D) == m \in Loose /\ Backed(m, D) /\ Follows(m)

\* The durable writes a call may have before it, each with what makes it right.
Queued ==
  \/ todo = <<>>
  \/ \E m : todo = <<Put("opened", m)>>
  \/ \E m : todo = <<Index(m), Put("opened", m)>> /\ Good(m, log)
  \/ \E m : todo = <<Index(m)>> /\ Good(m, log)
  \/ \E d \in Decision : \E m : todo = Record(d, m) /\ Good(m, log \union {d})
  \/ \E d \in receipts : \E m : todo = <<Put("line", d), Index(m)>> /\ Good(m, log \union {d})
  \/ \E a \in Artifact : \E m :
       /\ todo = <<Put("formal", a), Index(m)>>
       /\ Good(m, log) /\ LatestConfirmation(log) # None
  \/ \E m : todo = <<Put("snapshot", m)>>

OnDisk ==
  /\ receipts \subseteq Decision /\ log \subseteq receipts /\ IsFiniteSet(receipts)
  /\ ledger \in Seq(Artifact)
  /\ manifest \in Loose /\ Backed(manifest, log)

IInv == OnDisk /\ Queued

-----------------------------------------------------------------------------
LEMMA LooseFields ==
  ASSUME NEW m \in Loose
  PROVE  /\ m.status \in Status \union {None} /\ m.before \in Status \union {None}
         /\ m.proposal \in Decision /\ m.confirmation \in Decision \union {None}
         /\ m.plan \in Artifact \union {None} /\ m.refs \subseteq Artifact
         /\ m.active \subseteq Revision /\ m.completed \subseteq Revision
         /\ m.pending \subseteq Artifact /\ m.rejected \subseteq Artifact
         /\ m.applied \subseteq Artifact
BY DEF Loose

LEMMA ValidIsLoose == ASSUME NEW m, Valid(m) PROVE m \in Loose
BY DEF Valid, ManifestType, Loose

LEMMA DecisionFields ==
  ASSUME NEW d \in Decision
  PROVE  d.rev \in Nat /\ d.rev \in Revision /\ d.text \in Text /\ d.stale \subseteq Artifact
BY BoundAssumption DEF Decision, Revision

\* A decision is a decision of D or of a larger set alike.
LEMMA BackedGrows ==
  ASSUME NEW m, NEW D, NEW E, D \subseteq E, Backed(m, D)
  PROVE  Backed(m, E)
BY DEF Backed, Proposals, Confirmations

\* In a valid history the latest proposal is one of it, no other has its revision
\* or a later one, and the latest confirmation is the one of that revision.
LEMMA LatestOfHistory ==
  ASSUME NEW D, D \subseteq Decision, IsFiniteSet(D), HistoryValid(D), NEW q \in Proposals(D)
  PROVE  /\ LatestProposal(D) \in Proposals(D)
         /\ q.rev <= LatestProposal(D).rev
         /\ q.rev = LatestProposal(D).rev => q = LatestProposal(D)
         /\ LatestConfirmation(D) # None =>
              /\ LatestConfirmation(D) \in Confirmations(D)
              /\ LatestConfirmation(D).rev = LatestProposal(D).rev
         /\ \A c \in Confirmations(D) :
              c.rev = LatestProposal(D).rev => c = LatestConfirmation(D)
<1> DEFINE P == Proposals(D)
           last == Cardinality(P)
<1>1. P \subseteq D /\ IsFiniteSet(P) /\ last \in Nat
  BY FS_Subset, FS_CardinalityType DEF Proposals
<1>2. {p.rev : p \in P} = 1 .. last
  BY DEF HistoryValid
<1>3. \A p, r \in P : p.rev = r.rev => p = r
  <2> DEFINE f == [p \in P |-> p.rev]
  <2>1. f \in Surjection(P, 1 .. last)
    BY <1>2 DEF Surjection
  <2>2. Cardinality(1 .. last) = last /\ IsFiniteSet(1 .. last)
    BY <1>1, FS_Interval
  <2>3. f \in Injection(P, 1 .. last)
    BY <1>1, <2>1, <2>2, FS_SurjSameCardinalityImpliesInj
  <2> QED
    BY <2>3 DEF Injection, IsInjective
<1>4. \A p \in P : p.rev \in 1 .. last
  BY <1>2
<1>5. PICK p \in P : p.rev = last
  <2>1. last \in 1 .. last
    BY <1>1, <1>4
  <2> QED
    BY <1>2, <2>1
<1>6. LatestProposal(D) \in P /\ \A r \in P : r.rev <= LatestProposal(D).rev
  <2>1. \A r \in P : r.rev <= p.rev
    BY <1>4, <1>5
  <2> QED
    BY <2>1 DEF LatestProposal
<1>7. \A c \in Confirmations(D) : c.rev = LatestProposal(D).rev =>
        /\ c = LatestConfirmation(D)
  BY DEF LatestConfirmation, HistoryValid
<1>8. LatestConfirmation(D) # None =>
        LatestConfirmation(D) \in {c \in Confirmations(D) : c.rev = LatestProposal(D).rev}
  BY DEF LatestConfirmation
<1> QED
  BY <1>3, <1>6, <1>7, <1>8

-----------------------------------------------------------------------------
LEMMA InitIInv == Init => IInv
<1> SUFFICES ASSUME Init PROVE IInv
  OBVIOUS
<1>1. PICK text \in Text : log = {Proposal(1, text)} /\ manifest = FirstManifest(Proposal(1, text))
  BY DEF Init
<1>2. Proposal(1, text) \in Decision
  BY BoundAssumption DEF Proposal, Decision, Revision
<1>3. IsFiniteSet(receipts)
  BY <1>1, FS_Singleton DEF Init
<1>4. manifest \in Loose
  BY <1>1, <1>2 DEF FirstManifest, Loose, Status
<1>5. Backed(manifest, log)
  BY <1>1 DEF Backed, FirstManifest, Proposals, Proposal
<1> QED
  BY <1>1, <1>2, <1>3, <1>4, <1>5 DEF IInv, OnDisk, Queued, Init

\* A Manifest that keeps the Scope decisions of the current one.
LEMMA SameScope ==
  ASSUME IInv, NEW m \in Loose,
         m.proposal = manifest.proposal, m.confirmation = manifest.confirmation
  PROVE  Good(m, log)
BY LooseFields, DecisionFields DEF Good, Backed, Follows, IInv, OnDisk

LEMMA WithStatus ==
  ASSUME NEW p \in Loose, NEW s \in Status \union {None}, NEW b \in Status \union {None}
  PROVE  /\ [p EXCEPT !.status = s, !.before = b] \in Loose
         /\ [p EXCEPT !.status = s, !.before = b].proposal = p.proposal
         /\ [p EXCEPT !.status = s, !.before = b].confirmation = p.confirmation
BY DEF Loose

LEMMA ApplySameScope ==
  ASSUME NEW n \in Loose, NEW a \in Artifact, NEW pre \in BOOLEAN
  PROVE  /\ Apply(n, a, pre) \in Loose
         /\ Apply(n, a, pre).proposal = n.proposal
         /\ Apply(n, a, pre).confirmation = n.confirmation
<1>1. /\ Project(n, a) \in Loose
      /\ Project(n, a).proposal = n.proposal /\ Project(n, a).confirmation = n.confirmation
  <2>1. a.kind \in Kind /\ a.scope \in Revision
    BY DEF Artifact
  <2>2. CASE a.kind = "plan"
    BY <2>1, <2>2 DEF Project, Loose, Status, Researching
  <2>3. CASE a.kind = "dispatch"
    BY <2>1, <2>3 DEF Project, Loose, Status, Researching
  <2>4. CASE a.kind = "result"
    BY <2>1, <2>4 DEF Project, Loose
  <2>5. CASE a.kind \notin {"plan", "dispatch", "result"}
    BY <2>1, <2>5 DEF Project, Loose
  <2> QED
    BY <2>2, <2>3, <2>4, <2>5
<1> DEFINE p == Project(n, a)
<1>2. p \in Loose /\ p.proposal = n.proposal /\ p.confirmation = n.confirmation
  BY <1>1
<1>3. \/ Apply(n, a, pre) = p
      \/ Apply(n, a, pre) = [p EXCEPT !.status = n.status, !.before = n.before]
  BY DEF Apply
<1> HIDE DEF p
<1>4. n.status \in Status \union {None} /\ n.before \in Status \union {None}
  BY LooseFields
<1> DEFINE q == [p EXCEPT !.status = n.status, !.before = n.before]
<1>5. q \in Loose /\ q.proposal = p.proposal /\ q.confirmation = p.confirmation
  BY <1>2, <1>4, WithStatus
<1> HIDE DEF q
<1>6. Apply(n, a, pre) = p \/ Apply(n, a, pre) = q
  BY <1>3 DEF q
<1> QED
  BY <1>2, <1>5, <1>6

-----------------------------------------------------------------------------
LEMMA ProposeKeepsIInv ==
  ASSUME IInv, NEW text \in Text, ProposeScope(text)
  PROVE  IInv'
<1>1. manifest \in Loose /\ Backed(manifest, log)
  BY DEF IInv, OnDisk
<1> PICK p : p = Proposal(manifest.proposal.rev + 1, text)
  OBVIOUS
<1> PICK m : m = Proposed(p)
  OBVIOUS
<1>2. p \in Decision /\ p.type = "proposal" /\ p.rev = manifest.proposal.rev + 1
  BY <1>1, LooseFields, DecisionFields, BoundAssumption
     DEF ProposeScope, Proposal, Decision, Revision
<1>3. todo' = Record(p, m) /\ UNCHANGED disk
  BY DEF ProposeScope, Begin
<1>4. m \in Loose /\ m.proposal = p /\ m.confirmation = None
  BY <1>1, <1>2, LooseFields DEF Proposed, Loose, Status
<1>5. Backed(m, log \union {p})
  BY <1>2, <1>4 DEF Backed, Proposals
<1>6. Follows(m)
  BY <1>1, <1>2, <1>4, LooseFields, DecisionFields DEF Follows
<1>7. Good(m, log \union {p})'
  BY <1>3, <1>4, <1>5, <1>6 DEF Good, Follows, disk
<1> QED
  BY <1>2, <1>3, <1>7 DEF IInv, OnDisk, Queued, disk

LEMMA ConfirmKeepsIInv ==
  ASSUME IInv, ConfirmScope
  PROVE  IInv'
<1>1. /\ manifest \in Loose /\ Backed(manifest, log) /\ ledger \in Seq(Artifact)
      /\ manifest.proposal \in Decision
  BY LooseFields DEF IInv, OnDisk
<1> PICK c : c = Confirmation(manifest.proposal, Superseded)
  OBVIOUS
<1> PICK m : m = Confirmed(c)
  OBVIOUS
<1>2. c \in Decision /\ c.type = "confirmation" /\ c.rev = manifest.proposal.rev
  <2>1. ToSet(ledger) \subseteq Artifact
    BY <1>1 DEF ToSet
  <2>2. Superseded \subseteq Artifact
    BY <2>1 DEF Superseded
  <2> QED
    BY <1>1, <2>2, DecisionFields DEF Confirmation, Decision
<1>3. todo' = Record(c, m) /\ UNCHANGED disk /\ manifest.status = Waiting
  BY DEF ConfirmScope, Begin
<1>4. m \in Loose /\ m.proposal = manifest.proposal /\ m.confirmation = c
  <2>1. c.stale \subseteq Artifact
    BY <1>2, DecisionFields
  <2>2. CASE c.rev = 1
    <3>1. m = [manifest EXCEPT !.status = "created", !.before = None, !.confirmation = c]
      BY <1>1, <2>2 DEF Confirmed, Loose
    <3> QED
      BY <1>1, <1>2, <3>1 DEF Loose, Status
  <2>3. CASE c.rev # 1
    <3>1. m = [manifest EXCEPT !.status = Unclear, !.confirmation = c, !.pending = {},
                 !.rejected = @ \union manifest.pending, !.refs = @ \ c.stale]
      BY <1>1, <2>3 DEF Confirmed, Loose
    <3>2. /\ manifest.rejected \union manifest.pending \subseteq Artifact
          /\ manifest.refs \ c.stale \subseteq Artifact
      BY <1>1, LooseFields
    <3>3. /\ Unclear \in Status \union {None} /\ c \in Decision \union {None}
          /\ {} \subseteq Artifact
      BY <1>2 DEF Status
    <3> QED
      BY <1>1, <3>1, <3>2, <3>3 DEF Loose
  <2> QED
    BY <2>2, <2>3
<1>5. Backed(m, log \union {c})
  BY <1>1, <1>2, <1>4 DEF Backed, Proposals, Confirmations
<1>6. manifest.confirmation = None
  BY <1>3 DEF ConfirmScope, MayStart, Bound
<1>7. Follows(m)
  BY <1>1, <1>4, <1>6, DecisionFields DEF Follows
<1>8. Good(m, log \union {c})'
  BY <1>3, <1>4, <1>5, <1>7 DEF Good, Follows, disk
<1> QED
  BY <1>2, <1>3, <1>8 DEF IInv, OnDisk, Queued, disk

LEMMA PublishKeepsIInv ==
  ASSUME IInv, NEW a \in Artifact, Publish(a)
  PROVE  IInv'
<1>1. manifest \in Loose
  BY DEF IInv, OnDisk
<1> PICK m : m = Apply(manifest, a, TRUE)
  OBVIOUS
<1>2. /\ \/ todo' = <<Index(m)>>
         \/ todo' = <<Put("formal", a), Index(m)>>
      /\ UNCHANGED disk
      /\ LatestConfirmation(log) # None
  <2>1. /\ Bound(manifest, log) /\ a.kind \in Allows
        /\ \/ todo' = <<Index(m)>>
           \/ todo' = <<Put("formal", a), Index(m)>>
        /\ UNCHANGED disk
    BY DEF Publish, MayStart, Begin
  <2>2. manifest.status # Waiting
    <3>1. manifest.status = Waiting => Allows = {}
      BY DEF Allows, Waiting, Unclear
    <3> QED
      BY <2>1, <3>1
  <2> QED
    BY <2>1, <2>2 DEF Bound
<1>3. Good(m, log)
  BY <1>1, ApplySameScope, SameScope
<1>4. Good(m, log)'
  BY <1>2, <1>3 DEF Good, Follows, disk
<1> QED
  BY <1>2, <1>4 DEF IInv, OnDisk, Queued, disk

LEMMA CheckpointKeepsIInv == ASSUME IInv, Checkpoint PROVE IInv'
<1> PICK m : m = manifest
  OBVIOUS
<1>1. todo' = <<Put("snapshot", m)>> /\ UNCHANGED disk
  BY DEF Checkpoint, Begin
<1> QED
  BY <1>1 DEF IInv, OnDisk, Queued, disk

LEMMA ReconcileKeepsIInv == ASSUME IInv, ReconcilePlan PROVE IInv'
<1>1. manifest \in Loose /\ Backed(manifest, log) /\ ledger \in Seq(Artifact)
  BY DEF IInv, OnDisk
<1> PICK rev : rev = manifest.proposal.rev
  OBVIOUS
<1> PICK r : r = Make("revision", rev)
  OBVIOUS
<1> PICK a : a = Make("adaptation", rev)
  OBVIOUS
<1>2. r \in Artifact /\ a \in Artifact
  BY <1>1, LooseFields, DecisionFields DEF Make, Artifact, Kind
<1>3. manifest' = [manifest EXCEPT !.status = manifest.before, !.before = None, !.plan = r,
              !.refs = @ \union {r}, !.pending = @ \ {a}, !.applied = @ \union {a}]
  BY DEF ReconcilePlan
<1>4. /\ manifest' \in Loose
      /\ manifest'.proposal = manifest.proposal /\ manifest'.confirmation = manifest.confirmation
  BY <1>1, <1>2, <1>3, LooseFields DEF Loose
<1>5. /\ ledger' = Append(ledger, r) /\ UNCHANGED <<receipts, log, todo>> /\ todo = <<>>
  BY DEF ReconcilePlan, MayStart, Idle
<1>6. OnDisk'
  <2>1. ledger' \in Seq(Artifact)
    BY <1>1, <1>2, <1>5
  <2>2. Backed(manifest, log)'
    BY <1>1, <1>4, <1>5 DEF Backed
  <2> QED
    BY <1>4, <1>5, <2>1, <2>2 DEF IInv, OnDisk
<1> QED
  BY <1>5, <1>6 DEF IInv, Queued

\* What load-run restores is bound to the latest decision on record, and follows
\* whatever Manifest it replaces.
LEMMA RecoveryIsGood ==
  ASSUME IInv, NEW m \in Recovery
  PROVE  m \in Loose /\ Backed(m, Repaired) /\ Follows(m)
<1>1. Valid(m) /\ Bound(m, Repaired)
  BY DEF Recovery
<1>2. /\ Repaired = receipts /\ log \subseteq Repaired
      /\ Repaired \subseteq Decision /\ IsFiniteSet(Repaired)
  BY DEF IInv, OnDisk, Repaired
<1>3. /\ HistoryValid(Repaired) /\ m.proposal = LatestProposal(Repaired)
      /\ m.confirmation = LatestConfirmation(Repaired)
  BY <1>1 DEF Bound
<1>4. Backed(manifest, Repaired)
  BY <1>2, BackedGrows DEF IInv, OnDisk
<1>5. /\ manifest.proposal \in Proposals(Repaired)
      /\ manifest.confirmation # None =>
           /\ manifest.confirmation \in Confirmations(Repaired)
           /\ manifest.confirmation.rev = manifest.proposal.rev
  BY <1>4 DEF Backed
<1> HIDE DEF Repaired
<1>6. Backed(m, Repaired)
  BY <1>2, <1>3, <1>5, LatestOfHistory DEF Backed
<1>7. Follows(m)
  BY <1>2, <1>3, <1>5, LatestOfHistory DEF Follows
<1> QED
  BY <1>1, <1>6, <1>7, ValidIsLoose

LEMMA LoadKeepsIInv == ASSUME IInv, Load PROVE IInv'
<1>1. log' = Repaired /\ UNCHANGED <<receipts, ledger, snapshot, manifest>> /\ todo = <<>>
  BY DEF Load, Idle
<1>2. Repaired = receipts
  BY DEF Repaired, IInv, OnDisk
<1>3. OnDisk'
  BY <1>1, <1>2, BackedGrows DEF IInv, OnDisk
<1>4. Queued'
  <2>1. CASE \E m \in Recovery : todo' = <<Index(m), Put("opened", m)>>
    <3> PICK m \in Recovery : todo' = <<Index(m), Put("opened", m)>>
      BY <2>1
    <3>1. m \in Loose /\ Backed(m, Repaired) /\ Follows(m)
      BY RecoveryIsGood
    <3>2. Good(m, log)'
      BY <1>1, <3>1 DEF Good, Follows
    <3> QED
      BY <3>2 DEF Queued
  <2>2. CASE UNCHANGED todo
    BY <1>1, <2>2 DEF Queued
  <2> QED
    BY <2>1, <2>2 DEF Load
<1> QED
  BY <1>3, <1>4 DEF IInv

LEMMA WriteKeepsIInv ==
  ASSUME IInv, Write
  PROVE  /\ IInv'
         /\ ledger' # ledger => LatestConfirmation(log) # None
         /\ manifest' # manifest => \E m : manifest' = m /\ Follows(m)
<1> DEFINE w == Head(todo)
<1>1. /\ todo # <<>> /\ todo' = Tail(todo)
      /\ receipts' = IF w.write = "receipt" THEN receipts \union {w.value} ELSE receipts
      /\ log' = IF w.write = "line" THEN log \union {w.value} ELSE log
      /\ ledger' = IF w.write = "formal" THEN Append(ledger, w.value) ELSE ledger
      /\ manifest' = IF w.write = "manifest" THEN w.value ELSE manifest
  BY DEF Write, Idle
<1>2. /\ receipts \subseteq Decision /\ log \subseteq receipts /\ IsFiniteSet(receipts)
      /\ ledger \in Seq(Artifact) /\ manifest \in Loose /\ Backed(manifest, log)
  BY DEF IInv, OnDisk
<1>3. CASE \E m : todo = <<Put("opened", m)>> \/ todo = <<Put("snapshot", m)>>
  <2>1. UNCHANGED <<receipts, log, ledger, manifest>> /\ todo' = <<>>
    BY <1>1, <1>3 DEF Put
  <2> QED
    BY <1>2, <2>1 DEF IInv, OnDisk, Queued
<1>4. CASE \E m : /\ \/ todo = <<Index(m), Put("opened", m)>>
                    \/ todo = <<Index(m)>>
                 /\ Good(m, log)
  <2> PICK m : /\ \/ todo = <<Index(m), Put("opened", m)>>
                  \/ todo = <<Index(m)>>
               /\ Good(m, log)
    BY <1>4
  <2>1. /\ UNCHANGED <<receipts, log, ledger>> /\ manifest' = m
        /\ todo' = <<>> \/ todo' = <<Put("opened", m)>>
    <3>1. CASE todo = <<Index(m), Put("opened", m)>>
      BY <1>1, <3>1 DEF Put, Index
    <3>2. CASE todo = <<Index(m)>>
      BY <1>1, <3>2 DEF Put, Index
    <3> QED
      BY <3>1, <3>2
  <2>2. OnDisk'
    BY <1>2, <2>1 DEF OnDisk, Good
  <2>3. Follows(m)
    BY DEF Good
  <2> QED
    BY <2>1, <2>2, <2>3 DEF IInv, Queued
<1>5. CASE \E d \in Decision : \E m : todo = Record(d, m) /\ Good(m, log \union {d})
  <2> PICK d \in Decision : \E m : todo = Record(d, m) /\ Good(m, log \union {d})
    BY <1>5
  <2> PICK m : todo = Record(d, m) /\ Good(m, log \union {d})
    OBVIOUS
  <2>1. /\ UNCHANGED <<log, ledger, manifest>> /\ receipts' = receipts \union {d}
        /\ todo' = <<Put("line", d), Index(m)>>
    BY <1>1 DEF Record, Put, Index
  <2>2. OnDisk'
    BY <1>2, <2>1, FS_AddElement DEF OnDisk
  <2>3. Good(m, log \union {d})'
    BY <2>1 DEF Good, Follows
  <2> QED
    BY <2>1, <2>2, <2>3 DEF IInv, Queued
<1>6. CASE \E d \in receipts : \E m :
             todo = <<Put("line", d), Index(m)>> /\ Good(m, log \union {d})
  <2> PICK d \in receipts :
        \E m : todo = <<Put("line", d), Index(m)>> /\ Good(m, log \union {d})
    BY <1>6
  <2> PICK m : todo = <<Put("line", d), Index(m)>> /\ Good(m, log \union {d})
    OBVIOUS
  <2>1. /\ UNCHANGED <<receipts, ledger, manifest>> /\ log' = log \union {d}
        /\ todo' = <<Index(m)>>
    BY <1>1 DEF Put, Index
  <2>2. Backed(manifest, log \union {d})
    BY <1>2, BackedGrows
  <2>3. OnDisk'
    BY <1>2, <2>1, <2>2 DEF OnDisk, Backed
  <2>4. Good(m, log)'
    BY <2>1 DEF Good, Follows
  <2> QED
    BY <2>1, <2>3, <2>4 DEF IInv, Queued
<1>7. CASE \E a \in Artifact : \E m :
             /\ todo = <<Put("formal", a), Index(m)>>
             /\ Good(m, log) /\ LatestConfirmation(log) # None
  <2> PICK a \in Artifact : \E m :
             /\ todo = <<Put("formal", a), Index(m)>>
             /\ Good(m, log) /\ LatestConfirmation(log) # None
    BY <1>7
  <2> PICK m : /\ todo = <<Put("formal", a), Index(m)>>
               /\ Good(m, log) /\ LatestConfirmation(log) # None
    OBVIOUS
  <2>1. /\ UNCHANGED <<receipts, log, manifest>> /\ ledger' = Append(ledger, a)
        /\ todo' = <<Index(m)>>
    BY <1>1 DEF Put, Index
  <2>2. ledger' \in Seq(Artifact)
    BY <1>2, <2>1
  <2>3. OnDisk'
    BY <1>2, <2>1, <2>2 DEF OnDisk
  <2>4. Good(m, log)'
    BY <2>1 DEF Good, Follows
  <2> QED
    BY <2>1, <2>3, <2>4 DEF IInv, Queued
<1> QED
  BY <1>1, <1>3, <1>4, <1>5, <1>6, <1>7 DEF IInv, Queued

LEMMA CrashKeepsIInv == ASSUME IInv, Crash PROVE IInv'
BY DEF IInv, OnDisk, Queued, Crash, disk

LEMMA StutterKeepsIInv == ASSUME IInv, UNCHANGED vars PROVE IInv'
<1>1. UNCHANGED <<receipts, log, ledger, manifest, todo>>
  BY DEF vars, disk
<1>2. OnDisk'
  BY <1>1 DEF IInv, OnDisk
<1>3. Queued'
  BY <1>1 DEF IInv, Queued, Good, Follows
<1> QED
  BY <1>2, <1>3 DEF IInv

LEMMA NextKeepsIInv == IInv /\ [Next]_vars => IInv'
<1> SUFFICES ASSUME IInv, [Next]_vars PROVE IInv'
  OBVIOUS
<1> QED
  BY ProposeKeepsIInv, ConfirmKeepsIInv, PublishKeepsIInv, CheckpointKeepsIInv,
     ReconcileKeepsIInv, LoadKeepsIInv, WriteKeepsIInv, CrashKeepsIInv, StutterKeepsIInv
     DEF Next

LEMMA Inductive == Spec => []IInv
<1> QED
  BY InitIInv, NextKeepsIInv, PTL DEF Spec

\* Only a write of the call in progress and the Plan that reconciles a Scope touch
\* the Manifest or the published Artifacts.
LEMMA OtherStepsKeep ==
  ASSUME [Next]_vars, ~Write, ~ReconcilePlan
  PROVE  manifest' = manifest /\ ledger' = ledger
BY DEF Next, ProposeScope, ConfirmScope, Publish, Checkpoint, Load, Crash, Begin, disk, vars

LEMMA ReconcileKeepsScope ==
  ASSUME IInv, ReconcilePlan
  PROVE  /\ manifest'.proposal = manifest.proposal
         /\ manifest'.confirmation = manifest.confirmation
         /\ LatestConfirmation(log) # None
<1>1. manifest \in Loose
  BY DEF IInv, OnDisk
<1>2. Bound(manifest, log) /\ manifest.status # Waiting
  BY DEF ReconcilePlan, MayStart, Waiting, Unclear
<1>3. /\ manifest'.proposal = manifest.proposal
      /\ manifest'.confirmation = manifest.confirmation
  BY <1>1 DEF ReconcilePlan, Loose
<1> QED
  BY <1>2, <1>3 DEF Bound

LEMMA StepNeverReverts ==
  ASSUME IInv, [Next]_vars
  PROVE  /\ manifest.proposal.rev <= manifest'.proposal.rev
         /\ manifest.proposal.rev = manifest'.proposal.rev =>
              /\ manifest'.proposal = manifest.proposal
              /\ manifest.confirmation \in {None, manifest'.confirmation}
<1>1. manifest.proposal.rev \in Nat
  BY LooseFields, DecisionFields DEF IInv, OnDisk
<1>2. CASE manifest' = manifest
  BY <1>1, <1>2
<1>3. CASE manifest' # manifest /\ Write
  <2> PICK m : manifest' = m /\ Follows(m)
    BY <1>3, WriteKeepsIInv
  <2> QED
    BY DEF Follows
<1>4. CASE ReconcilePlan
  BY <1>1, <1>4, ReconcileKeepsScope
<1> QED
  BY <1>2, <1>3, <1>4, OtherStepsKeep

\* The Scope of the Manifest never goes back to an earlier decision: an interrupted
\* call, a load-run from a checkpoint made before the latest decisions and callers
\* that skip load-run included (run-store.ts L1617, L10561).
THEOREM ScopeOnlyAdvances == Spec => ScopeNeverReverts
<1>1. IInv /\ [Next]_vars =>
        [/\ manifest.proposal.rev <= manifest'.proposal.rev
         /\ manifest.proposal.rev = manifest'.proposal.rev =>
              /\ manifest'.proposal = manifest.proposal
              /\ manifest.confirmation \in {None, manifest'.confirmation}]_vars
  BY StepNeverReverts
<1> QED
  BY <1>1, Inductive, PTL DEF Spec, ScopeNeverReverts

\* Nothing is published while the latest Scope decision on record is a proposal,
\* one whose call died before it reached the Manifest included.
THEOREM NothingPublishedUnconfirmed == Spec => UnconfirmedBlocks
<1>1. IInv /\ [Next]_vars => [ledger' # ledger => LatestConfirmation(log) # None]_vars
  BY WriteKeepsIInv, ReconcileKeepsScope, OtherStepsKeep
<1> QED
  BY <1>1, Inductive, PTL DEF Spec, UnconfirmedBlocks

-----------------------------------------------------------------------------
(***************************************************************************)
(* What load-run restores.  It starts from the snapshot S, binds it to the *)
(* decisions D and replays the Artifacts L the snapshot does not know.     *)
(***************************************************************************)

\* Formation the latest confirmation in D superseded.
StaleOf(D) ==
  IF LatestProposal(D).rev > 1 /\ LatestConfirmation(D) # None
  THEN LatestConfirmation(D).stale ELSE {}

\* A Manifest but for its references, which no other field depends on.
Core(m) == [m EXCEPT !.refs = {}]

\* What a Manifest says by itself: research is under the Plan of the Scope, and what
\* goes on after a correction is what went on before it.
Sane(m) ==
  /\ Valid(m)
  /\ m.status \in Researching => m.plan # None /\ m.plan.scope = m.proposal.rev
  /\ m.status = "created" => m.plan = None
  /\ m.before # None =>
       IF m.plan = None THEN m.before = "created" ELSE m.before \in Researching
  /\ m.status = Waiting /\ m.before = None => m.plan = None /\ m.proposal.rev = 1
  /\ m.proposal.rev = 1 => m.before = None

\* load-run from snapshot S replays a.
New(a, D, S) == a \notin S.refs \union StaleOf(D)
NoNew(kinds, D, L, S) == \A k \in 1 .. Len(L) : New(L[k], D, S) => L[k].kind \notin kinds

\* The status b to resume says no more than the snapshot S does.
BeforeFits(b, D, S) ==
  \/ b = None \/ b = S.before
  \/ S.proposal # LatestProposal(D) /\ S.status \notin {Waiting, Unclear}

\* The references of m are what is published but for what corrections superseded.
Formed(D, L, m) ==
  /\ m.refs \subseteq ToSet(L) /\ m.refs \intersect StaleOf(D) = {}
  /\ \A a \in ToSet(L) : a \in m.refs \/ \E c \in Confirmations(D) : a \in c.stale
  /\ \A a \in ToSet(L) : a.kind = "formation" =>
       a.scope <= m.proposal.rev /\ (m.status = Waiting => a.scope < m.proposal.rev)
  /\ \A c \in Confirmations(D) : \A a \in c.stale :
       a \in ToSet(L) /\ a.kind = "formation" /\ a.scope < c.rev

PlanIn(L) == {k \in DOMAIN L : L[k].kind \in {"plan", "revision"}}
PlanOf(L) == IF PlanIn(L) = {} THEN 0 ELSE L[Max(PlanIn(L))].scope

\* A snapshot load-run may start from.
Fits(D, L, S) ==
  /\ Sane(S) /\ Backed(S, D)
  /\ S.status = Waiting => LatestProposal(D).rev = 1
  /\ S.refs \subseteq ToSet(L)

\* f leads from S over the Artifacts of L to m.
Leads(f, D, L, S, m) ==
  /\ f[0] = Core(Rebind(S, D))
  /\ \A k \in 1 .. Len(L) :
       f[k] = IF New(L[k], D, S) THEN Core(Apply(f[k - 1], L[k], TRUE)) ELSE f[k - 1]
  /\ \A k \in 0 .. Len(L) : Valid(f[k])
  /\ f[Len(L)] = Core(m)

\* load-run restores m from the decisions D, the Artifacts L and the snapshot S.
Whole(D, L, S, m) ==
  /\ Sane(m)
  /\ HistoryValid(D) /\ m.proposal = LatestProposal(D) /\ m.confirmation = LatestConfirmation(D)
  /\ Formed(D, L, m) /\ Fits(D, L, S)
  /\ PlanOf(L) = IF m.plan = None THEN 0 ELSE m.plan.scope
  /\ \E f : Leads(f, D, L, S, m)
  /\ BeforeFits(m.before, D, S)
  /\ m.plan # None /\ m.status = Unclear => NoNew({"plan"}, D, L, S)
  /\ m.status = Waiting => NoNew(Kind \ {"formation"}, D, L, S)

\* It does so with the Manifest o on disk.
Recoverable(D, L, S, m, o) ==
  /\ Whole(D, L, S, m)
  /\ BeforeFits(o.before, D, S)
  /\ \/ o.plan = None
     \/ o.proposal.rev = LatestProposal(D).rev /\ o.status # Unclear
     \/ NoNew({"plan"}, D, L, S)

-----------------------------------------------------------------------------
LEMMA NatStep ==
  ASSUME NEW T, 0 \in T, NEW N \in Nat, \A n \in 0 .. N : n \in T /\ n < N => n + 1 \in T
  PROVE  \A n \in 0 .. N : n \in T
<1> SUFFICES ASSUME NEW x \in 0 .. N, x \notin T PROVE FALSE
  OBVIOUS
<1> DEFINE R == OpToRel(<, Nat)
           U == {n \in 0 .. N : n \notin T}
<1>1. IsWellFoundedOn(R, Nat)
  BY NatLessThanWellFounded
<1>2. U \subseteq Nat /\ U # {}
  OBVIOUS
<1> HIDE DEF U, R
<1>3. PICK y \in U : \A z \in U : ~(<<z, y>> \in R)
  BY <1>1, <1>2, WFMin
<1>4. y \in 0 .. N /\ y \notin T /\ y # 0
  BY DEF U
<1>5. <<y - 1, y>> \in R
  <2>1. y - 1 \in Nat /\ y \in Nat /\ y - 1 < y
    BY <1>4
  <2>2. R = {ss \in Nat \X Nat : ss[1] < ss[2]}
    BY DEF R, OpToRel
  <2> QED
    BY <2>1, <2>2
<1>6. y - 1 \notin U
  BY <1>3, <1>5
<1> QED
  BY <1>4, <1>6 DEF U

-----------------------------------------------------------------------------
WithRefs(m, R) == [m EXCEPT !.refs = R]

LEMMA SameFields ==
  ASSUME NEW m \in Loose, NEW n \in Loose,
         m.status = n.status, m.before = n.before, m.proposal = n.proposal,
         m.confirmation = n.confirmation, m.plan = n.plan, m.refs = n.refs,
         m.active = n.active, m.completed = n.completed, m.pending = n.pending,
         m.rejected = n.rejected, m.applied = n.applied
  PROVE  m = n
BY DEF Loose

LEMMA RefsFields ==
  ASSUME NEW m \in Loose, NEW R \in SUBSET Artifact
  PROVE  LET n == WithRefs(m, R) IN
         /\ n \in Loose /\ n.refs = R
         /\ n.status = m.status /\ n.before = m.before /\ n.proposal = m.proposal
         /\ n.confirmation = m.confirmation /\ n.plan = m.plan /\ n.active = m.active
         /\ n.completed = m.completed /\ n.pending = m.pending /\ n.rejected = m.rejected
         /\ n.applied = m.applied
BY DEF WithRefs, Loose

\* A valid Manifest is a loose one with a status that fits.
LEMMA ValidFields ==
  ASSUME NEW m \in Loose
  PROVE  Valid(m) <=> /\ m.status # None
                      /\ m.status = Unclear => m.before # None
                      /\ m.status \notin {Unclear, Waiting} => m.before = None
                      /\ m.status = Waiting <=> m.confirmation = None
<1>1. m \in ManifestType <=> m.status # None
  BY NoneAssumption DEF ManifestType, Loose
<1> QED
  BY <1>1 DEF Valid

LEMMA RefsValid ==
  ASSUME NEW m \in Loose, Valid(m), NEW R \in SUBSET Artifact
  PROVE  Valid(WithRefs(m, R))
BY RefsFields, ValidFields

\* n is what the Artifact a makes of the Manifest m, field by field.
Applied(m, a, n) ==
  LET plan == a.kind = "plan" /\ m.plan = None
      free == m.status # Unclear \/ plan
  IN  /\ n \in Loose
      /\ n.status = IF ~free THEN m.status ELSE IF plan THEN "planned"
                    ELSE IF a.kind = "dispatch" THEN "researching" ELSE m.status
      /\ n.before = IF free /\ plan THEN None ELSE m.before
      /\ n.proposal = m.proposal /\ n.confirmation = m.confirmation
      /\ n.plan = IF plan THEN a ELSE m.plan
      /\ n.refs = m.refs \union {a}
      /\ n.active = IF a.kind = "dispatch" THEN m.active \union {a.scope}
                    ELSE IF a.kind = "result" THEN m.active \ {a.scope} ELSE m.active
      /\ n.completed = IF a.kind = "dispatch" THEN m.completed \ {a.scope}
                       ELSE IF a.kind = "result" THEN m.completed \union {a.scope}
                       ELSE m.completed
      /\ n.pending = IF a.kind = "adaptation" /\ a \notin m.rejected \union m.applied
                     THEN m.pending \union {a} ELSE m.pending
      /\ n.rejected = m.rejected /\ n.applied = m.applied

LEMMA ApplyFields ==
  ASSUME NEW m \in Loose, NEW a \in Artifact
  PROVE  Applied(m, a, Apply(m, a, TRUE))
<1> DEFINE plan == a.kind = "plan" /\ m.plan = None
           p == Project(m, a)
<1>1. /\ p.status = IF plan THEN "planned"
                    ELSE IF a.kind = "dispatch" THEN "researching" ELSE m.status
      /\ p.before = IF plan THEN None ELSE m.before
      /\ p.plan = IF plan THEN a ELSE m.plan
      /\ p.refs = m.refs \union {a}
      /\ p.active = IF a.kind = "dispatch" THEN m.active \union {a.scope}
                    ELSE IF a.kind = "result" THEN m.active \ {a.scope} ELSE m.active
      /\ p.completed = IF a.kind = "dispatch" THEN m.completed \ {a.scope}
                       ELSE IF a.kind = "result" THEN m.completed \union {a.scope}
                       ELSE m.completed
      /\ p.pending = IF a.kind = "adaptation" /\ a \notin m.rejected \union m.applied
                     THEN m.pending \union {a} ELSE m.pending
      /\ p.rejected = m.rejected /\ p.applied = m.applied
  <2>1. CASE plan
    BY <2>1 DEF Project, Loose
  <2>2. CASE a.kind = "dispatch"
    BY <2>2 DEF Project, Loose
  <2>3. CASE a.kind = "result"
    BY <2>3 DEF Project, Loose
  <2>4. CASE a.kind = "adaptation" /\ a \notin m.rejected \union m.applied
    BY <2>4 DEF Project, Loose
  <2>5. CASE /\ ~plan /\ a.kind \notin {"dispatch", "result"}
             /\ ~(a.kind = "adaptation" /\ a \notin m.rejected \union m.applied)
    BY <2>5 DEF Project, Loose
  <2> QED
    BY <2>1, <2>2, <2>3, <2>4, <2>5
<1>2. /\ p.status \in Status \union {None} /\ p.before \in Status \union {None}
      /\ DOMAIN p = DOMAIN m
  <2>1. plan \/ a.kind \in {"dispatch", "result"}
        \/ (a.kind = "adaptation" /\ a \notin m.rejected \union m.applied)
        \/ (/\ ~plan /\ a.kind \notin {"dispatch", "result"}
             /\ ~(a.kind = "adaptation" /\ a \notin m.rejected \union m.applied))
    OBVIOUS
  <2>2. m.status \in Status \union {None} /\ m.before \in Status \union {None}
    BY LooseFields
  <2>3. DOMAIN p = DOMAIN m
    BY DEF Project
  <2> QED
    BY <1>1, <2>2, <2>3 DEF Status, Researching
<1>3. Apply(m, a, TRUE) \in Loose
  BY ApplySameScope
<1>4. Apply(m, a, TRUE) = IF m.status = Unclear /\ ~(m.plan = None /\ a.kind = "plan")
                         THEN [p EXCEPT !.status = m.status, !.before = m.before] ELSE p
  BY DEF Apply
<1>5. Apply(m, a, TRUE).proposal = m.proposal /\ Apply(m, a, TRUE).confirmation = m.confirmation
  BY ApplySameScope
<1>6. DOMAIN m = {"status", "before", "proposal", "confirmation", "plan", "refs", "active",
                  "completed", "pending", "rejected", "applied"}
  BY DEF Loose
<1> HIDE DEF p, plan
<1> DEFINE q == [p EXCEPT !.status = m.status, !.before = m.before]
<1>7. /\ q.status = m.status /\ q.before = m.before /\ q.plan = p.plan /\ q.refs = p.refs
      /\ q.active = p.active /\ q.completed = p.completed /\ q.pending = p.pending
      /\ q.rejected = p.rejected /\ q.applied = p.applied
  BY <1>2, <1>6
<1>8. CASE Apply(m, a, TRUE) = q /\ m.status = Unclear /\ ~(m.plan = None /\ a.kind = "plan")
  BY <1>1, <1>3, <1>5, <1>7, <1>8 DEF plan, Applied
<1>9. CASE Apply(m, a, TRUE) = p /\ ~(m.status = Unclear /\ ~(m.plan = None /\ a.kind = "plan"))
  BY <1>1, <1>3, <1>5, <1>9 DEF plan, Applied
<1> QED
  BY <1>4, <1>8, <1>9

\* m and n differ in their references only.
Alike(m, n) ==
  /\ m.status = n.status /\ m.before = n.before /\ m.proposal = n.proposal
  /\ m.confirmation = n.confirmation /\ m.plan = n.plan /\ m.active = n.active
  /\ m.completed = n.completed /\ m.pending = n.pending /\ m.rejected = n.rejected
  /\ m.applied = n.applied

LEMMA AlikeSame ==
  ASSUME NEW m \in Loose, NEW n \in Loose, Alike(m, n), m.refs = n.refs
  PROVE  m = n
BY SameFields DEF Alike

LEMMA AlikeRefs ==
  ASSUME NEW m \in Loose, NEW R \in SUBSET Artifact
  PROVE  WithRefs(m, R) \in Loose /\ WithRefs(m, R).refs = R /\ Alike(WithRefs(m, R), m)
BY RefsFields DEF Alike

LEMMA CoreFields ==
  ASSUME NEW m \in Loose
  PROVE  /\ Core(m) = WithRefs(m, {}) /\ Core(m) \in Loose /\ Core(m).refs = {}
         /\ Alike(Core(m), m)
<1>1. Core(m) = WithRefs(m, {})
  BY DEF Core, WithRefs
<1> QED
  BY <1>1, AlikeRefs

LEMMA AlikeCore ==
  ASSUME NEW m \in Loose, NEW n \in Loose
  PROVE  Alike(m, n) <=> Core(m) = Core(n)
<1>1. Alike(Core(m), m) /\ Alike(Core(n), n)
  BY CoreFields
<1>2. ASSUME Core(m) = Core(n) PROVE Alike(m, n)
  BY <1>1, <1>2 DEF Alike
<1>3. ASSUME Alike(m, n) PROVE Core(m) = Core(n)
  <2>1. Core(m) \in Loose /\ Core(n) \in Loose /\ Core(m).refs = Core(n).refs
    BY CoreFields
  <2>2. Alike(Core(m), Core(n))
    BY <1>1, <1>3 DEF Alike
  <2> QED
    BY <2>1, <2>2, AlikeSame
<1> QED
  BY <1>2, <1>3

LEMMA WithRefsOf ==
  ASSUME NEW m \in Loose, NEW n \in Loose, Alike(m, n)
  PROVE  n = WithRefs(m, n.refs)
<1>1. n.refs \in SUBSET Artifact
  BY LooseFields
<1>2. WithRefs(m, n.refs) \in Loose /\ WithRefs(m, n.refs).refs = n.refs /\ Alike(WithRefs(m, n.refs), m)
  BY <1>1, AlikeRefs
<1>3. Alike(WithRefs(m, n.refs), n)
  BY <1>2 DEF Alike
<1> QED
  BY <1>2, <1>3, AlikeSame

LEMMA CoreTwice ==
  ASSUME NEW m \in Loose, NEW R \in SUBSET Artifact
  PROVE  /\ Core(WithRefs(m, R)) = Core(m) /\ WithRefs(Core(m), R) = WithRefs(m, R)
         /\ WithRefs(m, m.refs) = m /\ Core(Core(m)) = Core(m)
BY DEF Core, WithRefs, Loose

LEMMA ApplyAlike ==
  ASSUME NEW m \in Loose, NEW n \in Loose, Alike(m, n), NEW a \in Artifact
  PROVE  Alike(Apply(m, a, TRUE), Apply(n, a, TRUE))
<1>1. PICK x : x = Apply(m, a, TRUE)
  OBVIOUS
<1>2. PICK y : y = Apply(n, a, TRUE)
  OBVIOUS
<1>3. Applied(m, a, x) /\ Applied(n, a, y)
  BY <1>1, <1>2, ApplyFields
<1>4. /\ x.status = y.status /\ x.before = y.before /\ x.proposal = y.proposal
      /\ x.confirmation = y.confirmation /\ x.plan = y.plan
  BY <1>3 DEF Applied, Alike
<1>5. /\ x.active = y.active /\ x.completed = y.completed /\ x.pending = y.pending
      /\ x.rejected = y.rejected /\ x.applied = y.applied
  BY <1>3 DEF Applied, Alike
<1> QED
  BY <1>1, <1>2, <1>4, <1>5 DEF Alike

LEMMA ApplyWithRefs ==
  ASSUME NEW m \in Loose, NEW a \in Artifact, NEW R \in SUBSET Artifact, a \in R
  PROVE  Apply(WithRefs(m, R), a, TRUE) = WithRefs(Core(Apply(m, a, TRUE)), R)
<1> DEFINE x == Apply(WithRefs(m, R), a, TRUE)
           y == Apply(m, a, TRUE)
<1>1. /\ WithRefs(m, R) \in Loose /\ WithRefs(m, R).refs = R
      /\ Alike(WithRefs(m, R), m)
  BY AlikeRefs
<1>2. x \in Loose /\ y \in Loose /\ Alike(x, y) /\ x.refs = R
  <2>1. Alike(x, y)
    BY <1>1, ApplyAlike
  <2>2. x \in Loose /\ y \in Loose
    BY <1>1, ApplySameScope
  <2>3. x.refs = WithRefs(m, R).refs \union {a}
    BY <1>1, ApplyFields DEF Applied
  <2> QED
    BY <1>1, <2>1, <2>2, <2>3
<1>3. Core(y) \in Loose /\ Alike(Core(y), x)
  BY <1>2, CoreFields DEF Alike
<1> HIDE DEF x, y
<1>4. x = WithRefs(Core(y), R)
  BY <1>2, <1>3, WithRefsOf
<1> QED
  BY <1>4 DEF x, y

LEMMA ApplyCore ==
  ASSUME NEW m \in Loose, NEW a \in Artifact
  PROVE  Core(Apply(Core(m), a, TRUE)) = Core(Apply(m, a, TRUE))
<1>1. Core(m) \in Loose /\ Alike(Core(m), m)
  BY CoreFields
<1>2. Apply(Core(m), a, TRUE) \in Loose /\ Apply(m, a, TRUE) \in Loose
  BY <1>1, ApplySameScope
<1>3. Alike(Apply(Core(m), a, TRUE), Apply(m, a, TRUE))
  BY <1>1, ApplyAlike
<1> QED
  BY <1>2, <1>3, AlikeCore

LEMMA ApplyAnyway ==
  ASSUME NEW m, NEW a, NEW pre \in BOOLEAN, a.kind # "plan" \/ pre
  PROVE  Apply(m, a, pre) = Apply(m, a, TRUE)
BY DEF Apply

LEMMA ApplyFormation ==
  ASSUME NEW m \in Loose, NEW a \in Artifact, a.kind = "formation"
  PROVE  Core(Apply(m, a, TRUE)) = Core(m)
<1> DEFINE y == Apply(m, a, TRUE)
<1>1. y \in Loose
  BY ApplySameScope
<1>2. Alike(y, m)
  BY ApplyFields DEF Applied, Alike
<1> QED
  BY <1>1, <1>2, AlikeCore

\* n is what load-run makes of the snapshot S, field by field.
BoundTo(D, S, n) ==
  LET p == LatestProposal(D)
      c == LatestConfirmation(D)
      lost == IF c # None /\ c # S.confirmation /\ p.rev > 1 THEN S.pending ELSE {}
  IN  /\ n \in Loose
      /\ n.status = IF c = None THEN Waiting ELSE IF c = S.confirmation THEN S.status
                    ELSE IF p.rev = 1 THEN "created" ELSE Unclear
      /\ n.before = IF c # None /\ p.rev = 1 THEN None
                    ELSE IF p = S.proposal THEN S.before
                    ELSE IF S.status \notin {Waiting, Unclear} THEN S.status
                    ELSE IF S.before # None THEN S.before
                    ELSE IF S.plan = None THEN "created" ELSE None
      /\ n.proposal = p /\ n.confirmation = c
      /\ n.plan = S.plan /\ n.refs = S.refs /\ n.active = S.active
      /\ n.completed = S.completed /\ n.applied = S.applied
      /\ n.pending = S.pending \ lost /\ n.rejected = S.rejected \union lost

LEMMA RebindFields ==
  ASSUME NEW S \in Loose, NEW D, LatestProposal(D) \in Decision,
         LatestConfirmation(D) \in Decision \union {None}
  PROVE  BoundTo(D, S, Rebind(S, D))
<1> DEFINE p == LatestProposal(D)
           c == LatestConfirmation(D)
           lost == IF c # None /\ c # S.confirmation /\ p.rev > 1 THEN S.pending ELSE {}
           status == IF c = None THEN Waiting ELSE IF c = S.confirmation THEN S.status
                     ELSE IF p.rev = 1 THEN "created" ELSE Unclear
           before == IF c # None /\ p.rev = 1 THEN None
                     ELSE IF p = S.proposal THEN S.before
                     ELSE IF S.status \notin {Waiting, Unclear} THEN S.status
                     ELSE IF S.before # None THEN S.before
                     ELSE IF S.plan = None THEN "created" ELSE None
<1>1. Rebind(S, D) = [S EXCEPT !.status = status, !.before = before, !.proposal = p,
                        !.confirmation = c, !.pending = @ \ lost, !.rejected = @ \union lost]
  BY DEF Rebind
<1>2. status \in Status \union {None} /\ before \in Status \union {None} /\ lost \subseteq Artifact
  BY LooseFields DEF Status
<1> HIDE DEF p, c, lost, status, before
<1> DEFINE n == [S EXCEPT !.status = status, !.before = before, !.proposal = p,
                        !.confirmation = c, !.pending = @ \ lost, !.rejected = @ \union lost]
<1>4. S.pending \ lost \subseteq Artifact /\ S.rejected \union lost \subseteq Artifact
  BY <1>2, LooseFields
<1>3. /\ n \in Loose /\ n.status = status /\ n.before = before /\ n.proposal = p
      /\ n.confirmation = c /\ n.pending = S.pending \ lost /\ n.rejected = S.rejected \union lost
      /\ n.plan = S.plan /\ n.refs = S.refs /\ n.active = S.active
      /\ n.completed = S.completed /\ n.applied = S.applied
  BY <1>2, <1>4 DEF Loose, p, c
<1> HIDE DEF n
<1>5. Rebind(S, D) = n
  BY <1>1 DEF n
<1> QED
  BY <1>3, <1>5 DEF p, c, lost, status, before, BoundTo

-----------------------------------------------------------------------------
\* The decision d may come next in the history D.
NextDecision(d, D) ==
  /\ HistoryValid(D)
  /\ IF d.type = "proposal"
     THEN LatestConfirmation(D) # None /\ d.rev = LatestProposal(D).rev + 1
     ELSE /\ LatestConfirmation(D) = None
          /\ d.rev = LatestProposal(D).rev /\ d.text = LatestProposal(D).text

LEMMA LatestRev ==
  ASSUME NEW D, D \subseteq Decision, IsFiniteSet(D), HistoryValid(D), Proposals(D) # {}
  PROVE  /\ LatestProposal(D).rev = Cardinality(Proposals(D))
         /\ Cardinality(Proposals(D)) \in Nat \ {0}
<1> DEFINE P == Proposals(D)
           last == Cardinality(P)
<1>1. P \subseteq D /\ IsFiniteSet(P) /\ last \in Nat
  BY FS_Subset, FS_CardinalityType DEF Proposals
<1>2. {p.rev : p \in P} = 1 .. last
  BY DEF HistoryValid
<1>3. LatestProposal(D) \in P /\ \A q \in P : q.rev <= LatestProposal(D).rev
  BY LatestOfHistory
<1>4. LatestProposal(D).rev \in 1 .. last
  BY <1>2, <1>3
<1>5. PICK p \in P : p.rev = last
  BY <1>1, <1>2, <1>4
<1>6. last <= LatestProposal(D).rev
  BY <1>3, <1>5
<1> QED
  BY <1>1, <1>4, <1>6

LEMMA HistoryGrows ==
  ASSUME NEW D, D \subseteq Decision, IsFiniteSet(D), Proposals(D) # {},
         NEW d \in Decision, NextDecision(d, D)
  PROVE  /\ HistoryValid(D \union {d})
         /\ D \union {d} \subseteq Decision /\ IsFiniteSet(D \union {d})
         /\ LatestProposal(D \union {d}) = IF d.type = "proposal" THEN d ELSE LatestProposal(D)
         /\ LatestConfirmation(D \union {d}) = IF d.type = "proposal" THEN None ELSE d
         /\ Proposals(D) \subseteq Proposals(D \union {d})
<1> DEFINE E == D \union {d}
           P == Proposals(D)
           last == Cardinality(P)
<1>1. HistoryValid(D) /\ LatestProposal(D).rev = last /\ last \in Nat \ {0}
  BY LatestRev DEF NextDecision
<1>2. E \subseteq Decision /\ IsFiniteSet(E) /\ IsFiniteSet(P) /\ P \subseteq Decision
  BY FS_AddElement, FS_Subset DEF Proposals
<1>3. /\ {p.rev : p \in P} = 1 .. last
      /\ \A c \in Confirmations(D) : \E p \in P : c.rev = p.rev /\ c.text = p.text
      /\ \A b, c \in Confirmations(D) : b.rev = c.rev => b = c
      /\ \A p \in P : p.rev < last => \E c \in Confirmations(D) : c.rev = p.rev
  BY <1>1 DEF HistoryValid
<1>4. \A p \in P : p.rev \in 1 .. last
  BY <1>3
<1>5. /\ LatestProposal(D) \in P
      /\ LatestConfirmation(D) # None =>
           LatestConfirmation(D) \in Confirmations(D) /\ LatestConfirmation(D).rev = last
      /\ \A c \in Confirmations(D) : c.rev = last => c = LatestConfirmation(D)
  BY <1>1, LatestOfHistory
<1>6. CASE d.type = "proposal"
  <2>1. Proposals(E) = P \union {d} /\ Confirmations(E) = Confirmations(D)
    BY <1>6 DEF Proposals, Confirmations
  <2>2. d.rev = last + 1 /\ LatestConfirmation(D) # None
    BY <1>1, <1>6 DEF NextDecision
  <2>3. d \notin P
    BY <1>1, <1>4, <2>2
  <2>4. Cardinality(P \union {d}) = last + 1
    BY <1>2, <2>3, FS_AddElement
  <2>5. {p.rev : p \in P \union {d}} = 1 .. last + 1
    <3>1. {p.rev : p \in P \union {d}} = {p.rev : p \in P} \union {d.rev}
      OBVIOUS
    <3>2. 1 .. last + 1 = (1 .. last) \union {last + 1}
      BY <1>1
    <3> QED
      BY <1>3, <2>2, <3>1, <3>2
  <2>6. \A p \in P \union {d} : p.rev < last + 1 => \E c \in Confirmations(D) : c.rev = p.rev
    <3> SUFFICES ASSUME NEW p \in P, p.rev < last + 1
                 PROVE  \E c \in Confirmations(D) : c.rev = p.rev
      BY <1>1, <2>2
    <3>1. CASE p.rev < last
      BY <1>3, <3>1
    <3>2. CASE p.rev = last
      BY <1>5, <2>2, <3>2
    <3> QED
      BY <1>1, <1>4, <3>1, <3>2
  <2>7. HistoryValid(E)
    <3>1. \A c \in Confirmations(D) : \E p \in P \union {d} : c.rev = p.rev /\ c.text = p.text
      BY <1>3
    <3>2. {q.rev : q \in Proposals(E)} = 1 .. Cardinality(Proposals(E))
      BY <2>1, <2>4, <2>5, Zenon
    <3>3. \A q \in Proposals(E) : q.rev < Cardinality(Proposals(E)) =>
            \E c \in Confirmations(E) : c.rev = q.rev
      BY <2>1, <2>4, <2>6, Zenon
    <3>4. \A b, c \in Confirmations(E) : b.rev = c.rev => b = c
      BY <1>3, <2>1, Zenon
    <3>5. \A c \in Confirmations(E) : \E q \in Proposals(E) : c.rev = q.rev /\ c.text = q.text
      BY <2>1, <3>1, Zenon
    <3> HIDE DEF E, P, last
    <3> QED
      BY <3>2, <3>3, <3>4, <3>5, Zenon DEF HistoryValid
  <2>8. LatestProposal(E) \in P \union {d} /\ d.rev <= LatestProposal(E).rev
        /\ (d.rev = LatestProposal(E).rev => d = LatestProposal(E))
        /\ (LatestConfirmation(E) # None => LatestConfirmation(E) \in Confirmations(D)
              /\ LatestConfirmation(E).rev = LatestProposal(E).rev)
    BY <1>2, <2>1, <2>7, LatestOfHistory
  <2>9. LatestProposal(E) = d
    <3>1. LatestProposal(E) \notin P
      BY <1>1, <1>4, <2>2, <2>8
    <3> QED
      BY <2>8, <3>1
  <2>10. LatestConfirmation(E) = None
    <3> SUFFICES ASSUME LatestConfirmation(E) # None PROVE FALSE
      OBVIOUS
    <3>1. PICK p \in P : p.rev = LatestConfirmation(E).rev
      BY <1>3, <2>8
    <3> QED
      BY <1>1, <1>4, <2>2, <2>8, <2>9, <3>1
  <2> QED
    BY <1>2, <1>6, <2>1, <2>7, <2>9, <2>10
<1>7. CASE d.type # "proposal"
  <2>1. d.type = "confirmation"
    BY <1>7 DEF Decision
  <2>2. Proposals(E) = P /\ Confirmations(E) = Confirmations(D) \union {d}
    BY <2>1 DEF Proposals, Confirmations
  <2>3. d.rev = last /\ d.text = LatestProposal(D).text /\ LatestConfirmation(D) = None
    BY <1>1, <1>7 DEF NextDecision
  <2>4. \A c \in Confirmations(D) : c.rev # d.rev
    BY <1>2, <1>5, <2>3, NoneAssumption DEF Confirmations
  <2>5. HistoryValid(E)
    <3>1. \A c \in Confirmations(E) : \E p \in P : c.rev = p.rev /\ c.text = p.text
      BY <1>1, <1>3, <1>5, <2>2, <2>3
    <3>2. \A b, c \in Confirmations(E) : b.rev = c.rev => b = c
      BY <1>3, <2>2, <2>4
    <3>3. \A p \in P : p.rev < last => \E c \in Confirmations(E) : c.rev = p.rev
      BY <1>3, <2>2
    <3> QED
      BY <1>3, <2>2, <3>1, <3>2, <3>3 DEF HistoryValid
  <2>6. LatestProposal(E) = LatestProposal(D)
    BY <2>2 DEF LatestProposal
  <2>7. LatestConfirmation(E) = d
    BY <1>1, <1>2, <1>5, <2>2, <2>3, <2>5, <2>6, LatestOfHistory
  <2> QED
    BY <1>2, <1>7, <2>2, <2>5, <2>6, <2>7
<1> QED
  BY <1>6, <1>7

-----------------------------------------------------------------------------
\* Formation only is left to replay.
OnlyFormation(D, L, S) == \A k \in 1 .. Len(L) : New(L[k], D, S) => L[k].kind = "formation"

\* Formation moves nothing, ...
LEMMA FormationLeads ==
  ASSUME NEW D, NEW L \in Seq(Artifact), NEW S \in Loose, NEW m \in Loose, Valid(m),
         Rebind(S, D) \in Loose, Alike(Rebind(S, D), m), OnlyFormation(D, L, S)
  PROVE  \E f : Leads(f, D, L, S, m)
<1> DEFINE c == Core(Rebind(S, D))
           f == [k \in 0 .. Len(L) |-> c]
<1>1. c = Core(m) /\ Valid(c) /\ c \in Loose
  BY AlikeCore, CoreFields, RefsValid
<1>2. Core(c) = c
  <2>1. Core(Core(m)) = Core(m)
    BY CoreTwice
  <2> QED
    BY <1>1, <2>1
<1>3. Len(L) \in Nat
  OBVIOUS
<1>4. ASSUME NEW k \in 1 .. Len(L)
      PROVE  f[k] = IF New(L[k], D, S) THEN Core(Apply(f[k - 1], L[k], TRUE)) ELSE f[k - 1]
  <2>1. f[k] = c /\ f[k - 1] = c
    BY <1>3, <1>4
  <2>2. L[k] \in Artifact
    BY <1>4
  <2>3. New(L[k], D, S) => Core(Apply(c, L[k], TRUE)) = c
    <3>1. New(L[k], D, S) => L[k].kind = "formation"
      BY <1>4 DEF OnlyFormation
    <3> HIDE DEF c
    <3> QED
      BY <1>1, <1>2, <2>2, <3>1, ApplyFormation
  <2> HIDE DEF f, c
  <2> QED
    BY <2>1, <2>3
<1>5. f[0] = c /\ f[Len(L)] = c /\ \A k \in 0 .. Len(L) : f[k] = c
  BY <1>3
<1> HIDE DEF f
<1> QED
  BY <1>1, <1>4, <1>5 DEF Leads

\* ... so the snapshot and the Manifest say the same then.
LEMMA FormationStays ==
  ASSUME NEW D, NEW L \in Seq(Artifact), NEW S \in Loose, NEW m \in Loose,
         Rebind(S, D) \in Loose, OnlyFormation(D, L, S), NEW f, Leads(f, D, L, S, m)
  PROVE  Alike(Rebind(S, D), m)
<1> DEFINE c == Core(Rebind(S, D))
           T == {k \in 0 .. Len(L) : f[k] = c}
<1>1. c \in Loose /\ Core(c) = c
  BY CoreFields, CoreTwice, LooseFields
<1>2. Len(L) \in Nat /\ f[0] = c
  BY DEF Leads
<1>3. \A n \in 0 .. Len(L) : n \in T /\ n < Len(L) => n + 1 \in T
  <2> SUFFICES ASSUME NEW n \in 0 .. Len(L), f[n] = c, n < Len(L)
               PROVE  f[n + 1] = c
    BY <1>2
  <2>1. n + 1 \in 1 .. Len(L) /\ (n + 1) - 1 = n
    BY <1>2
  <2>2. f[n + 1] = IF New(L[n + 1], D, S) THEN Core(Apply(f[n], L[n + 1], TRUE)) ELSE f[n]
    BY <2>1 DEF Leads
  <2>3. L[n + 1] \in Artifact
    BY <2>1
  <2>4. New(L[n + 1], D, S) => L[n + 1].kind = "formation"
    BY <2>1 DEF OnlyFormation
  <2> HIDE DEF c
  <2> QED
    BY <1>1, <2>2, <2>3, <2>4, ApplyFormation
<1>4. 0 \in T
  BY <1>2
<1>5. \A n \in 0 .. Len(L) : n \in T
  <2> HIDE DEF T
  <2> QED
    BY ONLY <1>2, <1>3, <1>4, NatStep
<1>6. c = Core(m)
  BY <1>2, <1>5 DEF Leads
<1> QED
  BY <1>6, AlikeCore

-----------------------------------------------------------------------------
LEMMA LatestTypes ==
  ASSUME NEW D, D \subseteq Decision, IsFiniteSet(D), HistoryValid(D), Proposals(D) # {}
  PROVE  /\ LatestProposal(D) \in Proposals(D) /\ LatestProposal(D) \in Decision
         /\ LatestConfirmation(D) \in Decision \union {None}
         /\ LatestConfirmation(D) # None =>
              /\ LatestConfirmation(D) \in Confirmations(D)
              /\ LatestConfirmation(D).rev = LatestProposal(D).rev
<1>1. PICK q \in Proposals(D) : TRUE
  OBVIOUS
<1> QED
  BY <1>1, LatestOfHistory DEF Proposals, Confirmations

LEMMA StaleFields ==
  ASSUME NEW D, D \subseteq Decision, IsFiniteSet(D), HistoryValid(D), Proposals(D) # {},
         NEW L, NEW m, Formed(D, L, m), NEW a \in StaleOf(D)
  PROVE  a \in ToSet(L) /\ a.kind = "formation" /\ a.scope < LatestProposal(D).rev
BY LatestTypes DEF StaleOf, Formed

LEMMA InList ==
  ASSUME NEW L \in Seq(Artifact)
  PROVE  /\ Len(L) \in Nat /\ ToSet(L) \subseteq Artifact
         /\ \A k \in 1 .. Len(L) : L[k] \in ToSet(L) /\ L[k] \in Artifact
         /\ \A a \in ToSet(L) : \E k \in 1 .. Len(L) : a = L[k]
BY DEF ToSet

LEMMA ListGrows ==
  ASSUME NEW L \in Seq(Artifact), NEW a \in Artifact
  PROVE  /\ Append(L, a) \in Seq(Artifact) /\ Len(Append(L, a)) = Len(L) + 1
         /\ ToSet(Append(L, a)) = ToSet(L) \union {a}
         /\ Append(L, a)[Len(L) + 1] = a
         /\ \A k \in 1 .. Len(L) : Append(L, a)[k] = L[k]
<1>1. /\ Append(L, a) \in Seq(Artifact) /\ Len(Append(L, a)) = Len(L) + 1
      /\ Append(L, a)[Len(L) + 1] = a
      /\ \A k \in 1 .. Len(L) : Append(L, a)[k] = L[k]
  OBVIOUS
<1>2. ToSet(Append(L, a)) \subseteq ToSet(L) \union {a}
  <2> SUFFICES ASSUME NEW x \in ToSet(Append(L, a)) PROVE x \in ToSet(L) \union {a}
    OBVIOUS
  <2>1. PICK k \in 1 .. Len(L) + 1 : x = Append(L, a)[k]
    BY <1>1, InList
  <2>2. CASE k = Len(L) + 1
    BY <1>1, <2>1, <2>2
  <2>3. CASE k \in 1 .. Len(L)
    BY <1>1, <2>1, <2>3, InList
  <2> QED
    BY <2>1, <2>2, <2>3, InList
<1>3. ToSet(L) \subseteq ToSet(Append(L, a))
  <2> SUFFICES ASSUME NEW x \in ToSet(L) PROVE x \in ToSet(Append(L, a))
    OBVIOUS
  <2>1. PICK k \in 1 .. Len(L) : x = L[k]
    BY InList
  <2>2. k \in 1 .. Len(Append(L, a)) /\ x = Append(L, a)[k]
    BY <1>1, <2>1, InList
  <2> QED
    BY <1>1, <2>2, InList
<1>4. a \in ToSet(Append(L, a))
  <2>1. Len(L) + 1 \in 1 .. Len(Append(L, a))
    BY <1>1, InList
  <2> QED
    BY <1>1, <2>1, InList
<1> QED
  BY <1>1, <1>2, <1>3, <1>4

\* The Manifest knows all that is published but for superseded formation.
LEMMA MissingIsFormation ==
  ASSUME NEW D, NEW E, NEW L \in Seq(Artifact), NEW m, Formed(D, L, m)
  PROVE  /\ OnlyFormation(E, L, m)
         /\ \A K : "formation" \notin K => NoNew(K, E, L, m)
<1>1. ASSUME NEW k \in 1 .. Len(L), New(L[k], E, m) PROVE L[k].kind = "formation"
  <2>1. L[k] \in ToSet(L) /\ L[k] \notin m.refs
    BY <1>1, InList DEF New
  <2> QED
    BY <2>1 DEF Formed
<1> QED
  BY <1>1 DEF OnlyFormation, NoNew

LEMMA RebindOwn ==
  ASSUME NEW D, D \subseteq Decision, IsFiniteSet(D), HistoryValid(D), Proposals(D) # {},
         NEW m, Sane(m), m.proposal = LatestProposal(D), m.confirmation = LatestConfirmation(D),
         m.status # Waiting
  PROVE  m \in Loose /\ Rebind(m, D) \in Loose /\ Alike(Rebind(m, D), m)
<1>1. m \in Loose /\ m.confirmation # None
  BY ValidIsLoose DEF Sane, Valid
<1>2. BoundTo(D, m, Rebind(m, D))
  BY <1>1, LatestTypes, RebindFields
<1>3. PICK n : n = Rebind(m, D)
  OBVIOUS
<1>4. BoundTo(D, m, n)
  BY <1>2, <1>3
<1>5. n \in Loose /\ n.status = m.status /\ n.proposal = m.proposal /\ n.plan = m.plan
      /\ n.confirmation = m.confirmation /\ n.active = m.active /\ n.completed = m.completed
      /\ n.applied = m.applied
  BY <1>1, <1>4 DEF BoundTo
<1>6. n.before = m.before
  BY <1>1, <1>4 DEF BoundTo, Sane
<1>7. n.pending = m.pending /\ n.rejected = m.rejected
  BY <1>1, <1>4 DEF BoundTo
<1> QED
  BY <1>1, <1>3, <1>5, <1>6, <1>7 DEF Alike

\* load-run restores a Manifest from itself.
LEMMA OwnSnapshot ==
  ASSUME NEW D, D \subseteq Decision, IsFiniteSet(D), HistoryValid(D), Proposals(D) # {},
         NEW L \in Seq(Artifact), NEW m, Sane(m), Formed(D, L, m), Backed(m, D),
         m.proposal = LatestProposal(D), m.confirmation = LatestConfirmation(D),
         m.status # Waiting, PlanOf(L) = IF m.plan = None THEN 0 ELSE m.plan.scope
  PROVE  Whole(D, L, m, m)
<1>1. m \in Loose /\ Rebind(m, D) \in Loose /\ Alike(Rebind(m, D), m)
  BY RebindOwn
<1>2. Valid(m)
  BY DEF Sane
<1>3. /\ OnlyFormation(D, L, m) /\ NoNew({"plan"}, D, L, m)
  BY MissingIsFormation
<1>4. \E f : Leads(f, D, L, m, m)
  BY <1>1, <1>2, <1>3, FormationLeads
<1>5. Fits(D, L, m)
  BY DEF Fits, Formed
<1> QED
  BY <1>3, <1>4, <1>5 DEF Whole, BeforeFits

LEMMA WholeTypes ==
  ASSUME NEW D, D \subseteq Decision, IsFiniteSet(D), NEW L, NEW S, NEW m, Whole(D, L, S, m)
  PROVE  /\ HistoryValid(D) /\ Proposals(D) # {} /\ Backed(m, D)
         /\ Sane(m) /\ m \in Loose /\ Valid(m) /\ Sane(S) /\ S \in Loose /\ Backed(S, D)
         /\ Rebind(S, D) \in Loose /\ BoundTo(D, S, Rebind(S, D))
         /\ LatestProposal(D) \in Decision /\ LatestConfirmation(D) \in Decision \union {None}
<1>1. /\ HistoryValid(D) /\ Sane(m) /\ Sane(S) /\ Backed(S, D)
      /\ m.proposal = LatestProposal(D) /\ m.confirmation = LatestConfirmation(D)
  BY DEF Whole, Fits
<1>2. Proposals(D) # {}
  BY <1>1 DEF Backed
<1>3. m \in Loose /\ Valid(m) /\ S \in Loose
  BY <1>1, ValidIsLoose DEF Sane
<1>4. BoundTo(D, S, Rebind(S, D)) /\ Backed(m, D)
  BY <1>1, <1>2, <1>3, LatestTypes, RebindFields DEF Backed
<1>5. Rebind(S, D) \in Loose
  BY <1>4 DEF BoundTo
<1> QED
  BY <1>1, <1>2, <1>3, <1>4, <1>5, LatestTypes

\* A checkpoint of the Manifest serves load-run as well.
LEMMA CheckpointServes ==
  ASSUME NEW D, D \subseteq Decision, IsFiniteSet(D), NEW L \in Seq(Artifact),
         NEW S, NEW m, Whole(D, L, S, m), m.status # Waiting
  PROVE  Whole(D, L, m, m)
BY WholeTypes, OwnSnapshot DEF Whole

\* Formation that a correction superseded may come back.
LEMMA WholeWithRefs ==
  ASSUME NEW D, D \subseteq Decision, IsFiniteSet(D), NEW L \in Seq(Artifact),
         NEW S, NEW m, Whole(D, L, S, m)
  PROVE  Whole(D, L, S, WithRefs(m, ToSet(L) \ StaleOf(D)))
<1>1. PICK R : R = ToSet(L) \ StaleOf(D)
  OBVIOUS
<1>2. R \in SUBSET Artifact
  BY <1>1, InList
<1>3. PICK n : n = WithRefs(m, R)
  OBVIOUS
<1>4. m \in Loose /\ n \in Loose /\ Valid(n) /\ n.refs = R /\ Alike(n, m)
  BY <1>2, <1>3, WholeTypes, AlikeRefs, RefsValid
<1>5. Sane(n)
  BY <1>4 DEF Whole, Sane, Alike
<1>6. Formed(D, L, n)
  <2>1. \A a \in ToSet(L) : a \in R \/ \E c \in Confirmations(D) : a \in c.stale
    BY <1>1, WholeTypes, LatestTypes DEF StaleOf
  <2>2. Formed(D, L, m)
    BY DEF Whole
  <2> QED
    BY <1>1, <1>4, <2>1, <2>2 DEF Formed, Alike
<1>7. Core(n) = Core(m)
  BY <1>4, AlikeCore
<1>8. \E f : Leads(f, D, L, S, n)
  BY <1>7 DEF Whole, Leads
<1> QED
  BY <1>1, <1>3, <1>4, <1>5, <1>6, <1>8 DEF Whole, Alike

\* Whole is all load-run needs from a Manifest on disk too.
LEMMA WholeIsRecoverable ==
  ASSUME NEW D, NEW L, NEW S, NEW m, Whole(D, L, S, m)
  PROVE  Recoverable(D, L, S, m, m)
BY DEF Whole, Recoverable

-----------------------------------------------------------------------------
\* load-run changes nothing but superseded formation in the Manifest on disk.
Steady == receipts = log /\ Whole(receipts, ledger, snapshot, manifest)

\* m is what the last call begun left or found.
Near(m) == \E g \in goal : Restores(m, g)

\* At most one decision has its receipt and no line.
Logged ==
  \/ receipts = log
  \/ \E d \in receipts : receipts = log \union {d} /\ NextDecision(d, log)

\* What a is published under.
Permitted(a) ==
  /\ manifest.status # Waiting
  /\ a.kind # "revision"
  /\ a.kind = "plan" => a.scope = manifest.proposal.rev
  /\ a.kind = "dispatch" => manifest.status \in Researching /\ a.scope = manifest.proposal.rev

\* What is durable between two calls, ...
HeldIdle ==
  /\ todo = <<>> /\ Logged
  /\ \E m : Recoverable(receipts, ledger, snapshot, m, manifest) /\ Near(m)
  /\ ~dirty => Steady /\ Near(manifest)

\* ... before each write of load-run, ...
HeldLoad ==
  \/ \E m : todo = <<Put("opened", m)>> /\ Steady /\ Near(manifest)
  \/ \E m :
       /\ \/ todo = <<Index(m), Put("opened", m)>>
          \/ todo = <<Index(m)>> /\ ~dirty
       /\ receipts = log
       /\ Recoverable(receipts, ledger, snapshot, m, manifest) /\ Near(m)

\* ... of a Scope decision, ...
HeldDecision ==
  /\ ~dirty
  /\ \E d \in Decision : \E m \in goal :
       \/ /\ todo = Record(d, m)
          /\ Steady /\ manifest \in goal
          /\ NextDecision(d, log)
          /\ Recoverable(receipts \union {d}, ledger, snapshot, m, manifest)
       \/ /\ todo = <<Put("line", d), Index(m)>>
          /\ receipts = log \union {d} /\ NextDecision(d, log)
          /\ Recoverable(receipts, ledger, snapshot, m, manifest)

\* ... of a publication and of a checkpoint.
HeldOther ==
  /\ ~dirty /\ Steady
  /\ \/ \E a \in Artifact : \E m \in goal :
          /\ todo = <<Put("formal", a), Index(m)>>
          /\ manifest \in goal /\ Permitted(a)
          /\ Recoverable(receipts, Append(ledger, a), snapshot, m, manifest)
     \/ /\ todo = <<Put("snapshot", manifest)>>
        /\ Near(manifest) /\ manifest.status # Waiting

Held == HeldIdle \/ HeldLoad \/ HeldDecision \/ HeldOther

SInv ==
  /\ IInv /\ Held
  /\ Sane(manifest) /\ \A g \in goal : Sane(g)

-----------------------------------------------------------------------------
\* A call starts from a Run load-run would leave as it is.
LEMMA StartsSteady ==
  ASSUME SInv, RecoverFirst, MayStart
  PROVE  /\ ~dirty /\ Steady /\ todo = <<>> /\ Bound(manifest, log)
         /\ receipts \subseteq Decision /\ IsFiniteSet(receipts) /\ ledger \in Seq(Artifact)
         /\ manifest \in Loose
<1>1. todo = <<>> /\ ~dirty /\ Bound(manifest, log)
  BY DEF MayStart, Idle
<1>2. Steady
  <2>1. CASE HeldIdle
    BY <1>1, <2>1 DEF HeldIdle
  <2>2. CASE HeldLoad
    BY <1>1, <2>2 DEF HeldLoad
  <2>3. CASE HeldDecision
    BY <1>1, <2>3 DEF HeldDecision, Record
  <2>4. CASE HeldOther
    BY <2>4 DEF HeldOther
  <2> QED
    BY <2>1, <2>2, <2>3, <2>4 DEF SInv, Held
<1> QED
  BY <1>1, <1>2 DEF SInv, IInv, OnDisk

LEMMA ProposedFields ==
  ASSUME NEW p \in Decision, manifest \in Loose
  PROVE  /\ Proposed(p) \in Loose /\ Proposed(p).status = Waiting
         /\ Proposed(p).before = IF manifest.status = Unclear THEN manifest.before ELSE manifest.status
         /\ Proposed(p).proposal = p /\ Proposed(p).confirmation = None
         /\ Proposed(p).plan = manifest.plan /\ Proposed(p).refs = manifest.refs
         /\ Proposed(p).active = manifest.active /\ Proposed(p).completed = manifest.completed
         /\ Proposed(p).pending = manifest.pending /\ Proposed(p).rejected = manifest.rejected
         /\ Proposed(p).applied = manifest.applied
<1> PICK b : b = IF manifest.status = Unclear THEN manifest.before ELSE manifest.status
  OBVIOUS
<1>1. b \in Status \union {None} /\ Waiting \in Status
  BY LooseFields DEF Status
<1>2. Proposed(p) = [manifest EXCEPT !.status = Waiting, !.before = b, !.proposal = p,
                                     !.confirmation = None]
  BY DEF Proposed
<1> QED
  BY <1>1, <1>2 DEF Loose

\* What an Artifact was made for is a revision.
LEMMA ArtifactFields ==
  ASSUME NEW a \in Artifact
  PROVE  a.scope \in Revision /\ a.scope \in Nat \ {0} /\ a.kind \in Kind
BY BoundAssumption DEF Artifact, Revision

\* A proposal whose call dies once it is on record is found again.
LEMMA ProposedWhole ==
  ASSUME IInv, Steady, snapshot = manifest, manifest.status # Waiting,
         NEW p \in Decision, p.type = "proposal", NextDecision(p, log)
  PROVE  /\ Recoverable(receipts \union {p}, ledger, snapshot, Proposed(p), manifest)
         /\ Sane(Proposed(p))
<1> PICK D : D = receipts
  OBVIOUS
<1> PICK E : E = receipts \union {p}
  OBVIOUS
<1> PICK L : L = ledger
  OBVIOUS
<1> PICK m : m = Proposed(p)
  OBVIOUS
<1>1. /\ Whole(D, L, manifest, manifest) /\ D \subseteq Decision /\ IsFiniteSet(D)
      /\ L \in Seq(Artifact) /\ NextDecision(p, D) /\ E = D \union {p}
  BY DEF Steady, IInv, OnDisk
<1>2. /\ HistoryValid(D) /\ Proposals(D) # {} /\ manifest \in Loose /\ Sane(manifest)
      /\ Valid(manifest) /\ Backed(manifest, D) /\ Formed(D, L, manifest)
      /\ manifest.proposal = LatestProposal(D) /\ LatestProposal(D) \in Decision
      /\ PlanOf(L) = IF manifest.plan = None THEN 0 ELSE manifest.plan.scope
  BY <1>1, WholeTypes DEF Whole
<1>3. /\ HistoryValid(E) /\ E \subseteq Decision /\ IsFiniteSet(E)
      /\ LatestProposal(E) = p /\ LatestConfirmation(E) = None /\ Proposals(E) # {}
  <2>1. /\ HistoryValid(D \union {p})
        /\ D \union {p} \subseteq Decision /\ IsFiniteSet(D \union {p})
        /\ LatestProposal(D \union {p}) = p /\ LatestConfirmation(D \union {p}) = None
        /\ Proposals(D) \subseteq Proposals(D \union {p})
    BY <1>1, <1>2, HistoryGrows
  <2> QED
    BY <1>1, <1>2, <2>1
<1>4. p.rev = manifest.proposal.rev + 1 /\ manifest.proposal.rev \in Nat \ {0}
  BY <1>1, <1>2, DecisionFields DEF NextDecision, Revision
<1>5. /\ m \in Loose /\ m.status = Waiting
      /\ m.before = IF manifest.status = Unclear THEN manifest.before ELSE manifest.status
      /\ m.proposal = p /\ m.confirmation = None
      /\ m.plan = manifest.plan /\ m.refs = manifest.refs
      /\ m.active = manifest.active /\ m.completed = manifest.completed
      /\ m.pending = manifest.pending /\ m.rejected = manifest.rejected
      /\ m.applied = manifest.applied
  BY <1>2, ProposedFields
<1>6. m.before # None /\ manifest.status \in Status
  BY <1>2, <1>5, NoneAssumption DEF Valid, ManifestType
<1>7. Sane(m)
  <2>1. Valid(m)
    BY <1>5, ValidFields, NoneAssumption DEF Waiting, Unclear, Status
  <2>2. IF m.plan = None THEN m.before = "created" ELSE m.before \in Researching
    BY <1>2, <1>5, <1>6 DEF Sane, Valid, Status
  <2> QED
    BY <1>4, <1>5, <1>6, <2>1, <2>2 DEF Sane, Waiting, Researching
<1>8. Formed(E, L, m)
  <2>1. StaleOf(E) = {} /\ Confirmations(E) = Confirmations(D)
    BY <1>1, <1>3 DEF StaleOf, Confirmations
  <2>2. \A a \in ToSet(L) : a.kind = "formation" => a.scope < p.rev
    <3>1. \A a \in ToSet(L) : a.scope \in Nat
      BY <1>1, InList, ArtifactFields
    <3>2. \A a \in ToSet(L) : a.kind = "formation" => a.scope <= manifest.proposal.rev
      BY <1>2 DEF Formed
    <3> QED
      BY <1>4, <3>1, <3>2
  <2>3. \A a \in ToSet(L) : a.kind = "formation" => a.scope <= p.rev
    <3>1. \A a \in ToSet(L) : a.scope \in Nat
      BY <1>1, InList, ArtifactFields
    <3> QED
      BY <1>4, <2>2, <3>1
  <2> QED
    BY <1>2, <1>5, <2>1, <2>2, <2>3 DEF Formed
<1>9. Fits(E, L, manifest)
  BY <1>1, <1>2, BackedGrows DEF Fits, Formed
<1>10. /\ OnlyFormation(E, L, manifest)
       /\ NoNew(Kind \ {"formation"}, E, L, manifest) /\ NoNew({"plan"}, E, L, manifest)
  BY <1>1, <1>2, MissingIsFormation
<1>11. Rebind(manifest, E) \in Loose /\ Alike(Rebind(manifest, E), m)
  <2>1. BoundTo(E, manifest, Rebind(manifest, E))
    BY <1>2, <1>3, RebindFields
  <2>2. PICK n : n = Rebind(manifest, E)
    OBVIOUS
  <2>3. BoundTo(E, manifest, n) /\ p # manifest.proposal
    BY <1>4, <2>1, <2>2
  <2>4. /\ n \in Loose /\ n.status = Waiting /\ n.proposal = p /\ n.confirmation = None
        /\ n.plan = manifest.plan /\ n.active = manifest.active
        /\ n.completed = manifest.completed /\ n.applied = manifest.applied
    BY <1>3, <2>3 DEF BoundTo
  <2>5. n.before = m.before
    BY <1>2, <1>3, <1>5, <2>3 DEF BoundTo, Valid
  <2>6. n.pending = manifest.pending /\ n.rejected = manifest.rejected
    BY <1>3, <2>3 DEF BoundTo
  <2> QED
    BY <1>5, <2>2, <2>4, <2>5, <2>6 DEF Alike
<1>12. \E f : Leads(f, E, L, manifest, m)
  BY <1>1, <1>2, <1>5, <1>7, <1>10, <1>11, FormationLeads DEF Sane
<1>13. BeforeFits(m.before, E, manifest)
  BY <1>2, <1>3, <1>4, <1>5 DEF BeforeFits
<1>14. Whole(E, L, manifest, m)
  BY <1>2, <1>3, <1>5, <1>7, <1>8, <1>9, <1>10, <1>12, <1>13 DEF Whole, Waiting, Unclear
<1>15. Recoverable(E, L, manifest, m, manifest)
  BY <1>10, <1>14 DEF Recoverable, BeforeFits
<1> QED
  BY <1>7, <1>15

LEMMA ConfirmedFields ==
  ASSUME NEW c \in Decision, manifest \in Loose
  PROVE  LET m == Confirmed(c)  first == c.rev = 1 IN
         /\ m \in Loose /\ m.status = IF first THEN "created" ELSE Unclear
         /\ m.before = IF first THEN None ELSE manifest.before
         /\ m.proposal = manifest.proposal /\ m.confirmation = c
         /\ m.plan = manifest.plan
         /\ m.refs = IF first THEN manifest.refs ELSE manifest.refs \ c.stale
         /\ m.active = manifest.active /\ m.completed = manifest.completed
         /\ m.pending = IF first THEN manifest.pending ELSE {}
         /\ m.rejected = IF first THEN manifest.rejected
                         ELSE manifest.rejected \union manifest.pending
         /\ m.applied = manifest.applied
<1> DEFINE first == c.rev = 1
<1> PICK s : s = IF first THEN "created" ELSE Unclear
  OBVIOUS
<1> PICK b : b = IF first THEN None ELSE manifest.before
  OBVIOUS
<1> PICK q : q = IF first THEN manifest.pending ELSE {}
  OBVIOUS
<1> PICK j : j = IF first THEN manifest.rejected ELSE manifest.rejected \union manifest.pending
  OBVIOUS
<1> PICK r : r = IF first THEN manifest.refs ELSE manifest.refs \ c.stale
  OBVIOUS
<1>1. /\ s \in Status \union {None} /\ b \in Status \union {None} /\ q \subseteq Artifact
      /\ j \subseteq Artifact /\ r \subseteq Artifact
  BY LooseFields DEF Status
<1>2. Confirmed(c) = [manifest EXCEPT !.status = s, !.before = b, !.confirmation = c,
                        !.pending = q, !.rejected = j, !.refs = r]
  BY DEF Confirmed
<1> HIDE DEF first
<1>3. PICK m : m = Confirmed(c)
  OBVIOUS
<1>4. /\ m \in Loose /\ m.status = s /\ m.before = b /\ m.proposal = manifest.proposal
      /\ m.confirmation = c /\ m.plan = manifest.plan /\ m.refs = r
      /\ m.active = manifest.active /\ m.completed = manifest.completed
      /\ m.pending = q /\ m.rejected = j /\ m.applied = manifest.applied
  <2> PICK n : n = manifest
    OBVIOUS
  <2>1. n \in Loose /\ m = [n EXCEPT !.status = s, !.before = b, !.confirmation = c,
                               !.pending = q, !.rejected = j, !.refs = r]
    BY <1>2, <1>3
  <2> QED
    BY ONLY <1>1, <2>1, c \in Decision, n = manifest DEF Loose
<1> QED
  BY <1>3, <1>4 DEF first

\* A confirmation whose call dies once it is on record is found again.
LEMMA ConfirmedWhole ==
  ASSUME IInv, Steady, manifest.status = Waiting,
         NEW c \in Decision, c = Confirmation(manifest.proposal, Superseded)
  PROVE  /\ NextDecision(c, log)
         /\ Recoverable(receipts \union {c}, ledger, snapshot, Confirmed(c), manifest)
         /\ Sane(Confirmed(c))
<1> PICK D : D = receipts
  OBVIOUS
<1> PICK E : E = receipts \union {c}
  OBVIOUS
<1> PICK L : L = ledger
  OBVIOUS
<1> PICK S : S = snapshot
  OBVIOUS
<1> PICK m : m = Confirmed(c)
  OBVIOUS
<1>1. /\ Whole(D, L, S, manifest) /\ D \subseteq Decision /\ IsFiniteSet(D)
      /\ L \in Seq(Artifact) /\ E = D \union {c} /\ log = D
  BY DEF Steady, IInv, OnDisk
<1>2. /\ HistoryValid(D) /\ Proposals(D) # {} /\ manifest \in Loose /\ Sane(manifest)
      /\ Valid(manifest) /\ Formed(D, L, manifest) /\ Sane(S) /\ S \in Loose /\ Backed(S, D)
      /\ manifest.proposal = LatestProposal(D) /\ manifest.confirmation = LatestConfirmation(D)
      /\ LatestProposal(D) \in Decision /\ Fits(D, L, S)
      /\ PlanOf(L) = IF manifest.plan = None THEN 0 ELSE manifest.plan.scope
  BY <1>1, WholeTypes DEF Whole
<1>3. LatestConfirmation(D) = None
  BY <1>2 DEF Valid
<1>4. /\ c.type = "confirmation" /\ c.rev = manifest.proposal.rev
      /\ c.text = manifest.proposal.text /\ c.stale = Superseded /\ c # None
  BY NoneAssumption DEF Confirmation
<1>5. NextDecision(c, D)
  BY <1>2, <1>3, <1>4 DEF NextDecision
<1>6. /\ HistoryValid(E) /\ E \subseteq Decision /\ IsFiniteSet(E)
      /\ LatestProposal(E) = LatestProposal(D) /\ LatestConfirmation(E) = c
      /\ Proposals(E) # {}
  <2>1. /\ HistoryValid(D \union {c})
        /\ D \union {c} \subseteq Decision /\ IsFiniteSet(D \union {c})
        /\ LatestProposal(D \union {c}) = IF c.type = "proposal" THEN c ELSE LatestProposal(D)
        /\ LatestConfirmation(D \union {c}) = IF c.type = "proposal" THEN None ELSE c
        /\ Proposals(D) \subseteq Proposals(D \union {c})
    BY <1>1, <1>2, <1>5, HistoryGrows
  <2>2. c.type # "proposal"
    BY <1>4
  <2> QED
    BY <1>1, <1>2, <2>1, <2>2
<1> PICK rev : rev = manifest.proposal.rev
  OBVIOUS
<1>7. rev \in Nat \ {0}
  BY <1>2, DecisionFields DEF Revision
<1>8. /\ m \in Loose /\ m.status = IF rev = 1 THEN "created" ELSE Unclear
      /\ m.before = IF rev = 1 THEN None ELSE manifest.before
      /\ m.proposal = manifest.proposal /\ m.confirmation = c
      /\ m.plan = manifest.plan
      /\ m.refs = IF rev = 1 THEN manifest.refs ELSE manifest.refs \ c.stale
      /\ m.active = manifest.active /\ m.completed = manifest.completed
      /\ m.pending = IF rev = 1 THEN manifest.pending ELSE {}
      /\ m.rejected = IF rev = 1 THEN manifest.rejected
                      ELSE manifest.rejected \union manifest.pending
      /\ m.applied = manifest.applied
  BY <1>2, <1>4, ConfirmedFields
<1>9. rev = 1 <=> manifest.before = None
  BY <1>2 DEF Sane
<1>10. Sane(m)
  <2>1. Valid(m)
    BY <1>4, <1>8, <1>9, ValidFields, NoneAssumption DEF Waiting, Unclear, Status
  <2>2. rev = 1 => m.plan = None
    BY <1>2, <1>8, <1>9 DEF Sane
  <2>3. m.before # None =>
          IF m.plan = None THEN m.before = "created" ELSE m.before \in Researching
    BY <1>2, <1>8 DEF Sane
  <2> QED
    BY <1>8, <2>1, <2>2, <2>3 DEF Sane, Waiting, Unclear, Researching
<1>11. \A a \in c.stale : a \in ToSet(L) /\ a.kind = "formation" /\ a.scope < rev
  BY <1>2, <1>4 DEF Superseded, Formed
<1>12. Formed(E, L, m)
  <2>1. StaleOf(E) = IF rev > 1 THEN c.stale ELSE {}
    BY <1>2, <1>4, <1>6 DEF StaleOf
  <2>2. Confirmations(E) = Confirmations(D) \union {c}
    BY <1>1, <1>4 DEF Confirmations
  <2>3. m.refs = manifest.refs \ StaleOf(E)
    BY <1>7, <1>8, <2>1
  <2>4. StaleOf(E) \subseteq c.stale
    BY <2>1
  <2>5. \A a \in ToSet(L) : a \in m.refs \/ \E e \in Confirmations(E) : a \in e.stale
    BY <1>2, <2>2, <2>3, <2>4 DEF Formed
  <2>6. \A a \in ToSet(L) : a.kind = "formation" => a.scope <= rev
    BY <1>2 DEF Formed
  <2>7. \A e \in Confirmations(E) : \A a \in e.stale :
          a \in ToSet(L) /\ a.kind = "formation" /\ a.scope < e.rev
    BY <1>2, <1>4, <1>11, <2>2 DEF Formed
  <2>8. m.refs \subseteq ToSet(L) /\ m.refs \intersect StaleOf(E) = {}
    BY <1>2, <2>3 DEF Formed
  <2> QED
    BY <1>8, <2>5, <2>6, <2>7, <2>8 DEF Formed, Waiting, Unclear
<1>13. Fits(E, L, S)
  BY <1>1, <1>2, <1>6, BackedGrows DEF Fits
<1>14. OnlyFormation(D, L, S) /\ OnlyFormation(E, L, S) /\ NoNew({"plan"}, E, L, S)
  <2>1. NoNew(Kind \ {"formation"}, D, L, S)
    BY <1>1 DEF Whole
  <2>2. OnlyFormation(D, L, S)
    BY <1>1, <2>1, InList DEF NoNew, OnlyFormation, Artifact
  <2>3. StaleOf(D) = {}
    BY <1>3 DEF StaleOf
  <2>4. \A a : New(a, E, S) => New(a, D, S)
    BY <2>3 DEF New
  <2>5. OnlyFormation(E, L, S)
    BY <2>2, <2>4 DEF OnlyFormation
  <2>6. NoNew({"plan"}, E, L, S)
    BY <2>5 DEF OnlyFormation, NoNew
  <2> QED
    BY <2>2, <2>5, <2>6
<1>15. Alike(Rebind(S, D), manifest)
  BY <1>1, <1>2, <1>14, WholeTypes, FormationStays DEF Whole
<1>16. c # S.confirmation
  <2>1. c \notin Confirmations(D)
    BY <1>1, <1>2, <1>3, <1>4, LatestOfHistory
  <2> QED
    BY <1>2, <1>4, <2>1 DEF Backed
<1>17. Rebind(S, E) \in Loose /\ Alike(Rebind(S, E), m)
  <2>1. BoundTo(E, S, Rebind(S, E)) /\ BoundTo(D, S, Rebind(S, D))
    BY <1>1, <1>2, <1>6, LatestTypes, RebindFields
  <2>2. PICK n : n = Rebind(S, E)
    OBVIOUS
  <2>3. PICK o : o = Rebind(S, D)
    OBVIOUS
  <2>4. BoundTo(E, S, n) /\ BoundTo(D, S, o) /\ Alike(o, manifest)
    BY <1>15, <2>1, <2>2, <2>3
  <2>5. /\ n \in Loose /\ n.status = m.status /\ n.proposal = m.proposal /\ n.confirmation = c
        /\ n.plan = S.plan /\ n.active = S.active
        /\ n.completed = S.completed /\ n.applied = S.applied
    BY <1>2, <1>4, <1>6, <1>8, <1>16, <2>4 DEF BoundTo
  <2>6. /\ o.plan = S.plan /\ o.active = S.active
        /\ o.completed = S.completed /\ o.applied = S.applied
        /\ o.pending = S.pending /\ o.rejected = S.rejected
    BY <1>3, <2>4 DEF BoundTo
  <2>7. n.before = m.before
    <3>1. CASE rev = 1
      BY <1>2, <1>4, <1>6, <1>8, <2>4, <3>1 DEF BoundTo
    <3>2. CASE rev # 1
      <4>1. n.before = o.before
        BY <1>2, <1>3, <1>6, <2>4, <3>2 DEF BoundTo
      <4> QED
        BY <1>8, <2>4, <3>2, <4>1 DEF Alike
    <3> QED
      BY <3>1, <3>2
  <2>8. n.pending = m.pending /\ n.rejected = m.rejected
    <3>1. /\ n.pending = S.pending \ (IF rev > 1 THEN S.pending ELSE {})
          /\ n.rejected = S.rejected \union (IF rev > 1 THEN S.pending ELSE {})
      BY <1>2, <1>4, <1>6, <1>16, <2>4 DEF BoundTo
    <3>2. manifest.pending = S.pending /\ manifest.rejected = S.rejected
      BY <2>4, <2>6 DEF Alike
    <3> QED
      BY <1>7, <1>8, <3>1, <3>2
  <2> QED
    BY <1>8, <2>2, <2>4, <2>5, <2>6, <2>7, <2>8 DEF Alike
<1>18. \E f : Leads(f, E, L, S, m)
  BY <1>1, <1>2, <1>8, <1>10, <1>14, <1>17, FormationLeads DEF Sane
<1>19. BeforeFits(m.before, E, S) /\ BeforeFits(manifest.before, E, S)
  BY <1>1, <1>6, <1>8 DEF Whole, BeforeFits
<1>20. Whole(E, L, S, m)
  BY <1>2, <1>6, <1>8, <1>10, <1>12, <1>13, <1>14, <1>18, <1>19 DEF Whole, Waiting, Unclear
<1>21. Recoverable(E, L, S, m, manifest)
  BY <1>14, <1>19, <1>20 DEF Recoverable
<1> QED
  BY <1>1, <1>5, <1>10, <1>21

\* The largest of some of the numbers up to n.
LEMMA MaxOfInterval ==
  ASSUME NEW n \in Nat, NEW U, U \subseteq 0 .. n, U # {}
  PROVE  Max(U) \in U /\ \A k \in U : k <= Max(U)
<1> SUFFICES \E x \in U : \A k \in U : x >= k
  <2>1. Max(U) = CHOOSE x \in U : \A k \in U : x >= k
    BY DEF Max
  <2>2. ASSUME \E x \in U : \A k \in U : x >= k
        PROVE  Max(U) \in U /\ \A k \in U : Max(U) >= k
    BY <2>1, <2>2
  <2> QED
    BY <2>2
<1> SUFFICES ASSUME \A x \in U : \E k \in U : k > x PROVE FALSE
  BY DEF Max
<1> DEFINE T == {i \in 0 .. n : \E k \in U : k >= i}
<1>1. 0 \in T
  <2> PICK k \in U : TRUE
    OBVIOUS
  <2>1. k >= 0 /\ 0 \in 0 .. n
    OBVIOUS
  <2> QED
    BY <2>1
<1>2. \A i \in 0 .. n : i \in T /\ i < n => i + 1 \in T
  <2> SUFFICES ASSUME NEW i \in 0 .. n, i < n, NEW k \in U, k >= i PROVE i + 1 \in T
    OBVIOUS
  <2>1. PICK j \in U : j > k
    OBVIOUS
  <2> QED
    BY <2>1
<1>3. \A i \in 0 .. n : i \in T
  <2> HIDE DEF T
  <2> QED
    BY ONLY <1>1, <1>2, NatStep
<1>4. PICK k \in U : k >= n
  BY <1>3
<1>5. PICK j \in U : j > k
  OBVIOUS
<1> QED
  BY <1>4, <1>5

LEMMA PlanOfGrows ==
  ASSUME NEW L \in Seq(Artifact), NEW a \in Artifact
  PROVE  PlanOf(Append(L, a)) = IF a.kind \in {"plan", "revision"} THEN a.scope ELSE PlanOf(L)
<1> PICK M : M = Append(L, a)
  OBVIOUS
<1>1. /\ Len(L) \in Nat /\ Len(M) = Len(L) + 1 /\ M[Len(L) + 1] = a
      /\ \A k \in 1 .. Len(L) : M[k] = L[k]
      /\ DOMAIN M = 1 .. Len(L) + 1 /\ DOMAIN L = 1 .. Len(L)
  BY ListGrows, InList
<1>2. CASE a.kind \in {"plan", "revision"}
  <2>1. Len(L) + 1 \in PlanIn(M) /\ \A k \in PlanIn(M) : k <= Len(L) + 1
    BY <1>1, <1>2 DEF PlanIn
  <2>2. \A x \in PlanIn(M) : (\A k \in PlanIn(M) : k <= x) => x = Len(L) + 1
    <3> SUFFICES ASSUME NEW x \in PlanIn(M), \A k \in PlanIn(M) : k <= x PROVE x = Len(L) + 1
      OBVIOUS
    <3>1. x \in 1 .. Len(L) + 1
      BY <1>1 DEF PlanIn
    <3> QED
      BY <1>1, <2>1, <3>1
  <2>3. Max(PlanIn(M)) = Len(L) + 1
    <3>1. Max(PlanIn(M)) = CHOOSE x \in PlanIn(M) : \A k \in PlanIn(M) : x >= k
      BY DEF Max
    <3>2. \A x \in PlanIn(M) : (\A k \in PlanIn(M) : x >= k) <=> (\A k \in PlanIn(M) : k <= x)
      BY <1>1 DEF PlanIn
    <3> QED
      BY <2>1, <2>2, <3>1, <3>2
  <2> QED
    BY <1>1, <1>2, <2>1, <2>3 DEF PlanOf
<1>3. CASE a.kind \notin {"plan", "revision"}
  <2>1. PlanIn(M) = PlanIn(L)
    <3>1. \A k \in 1 .. Len(L) + 1 : k \in PlanIn(M) <=> k \in PlanIn(L)
      BY <1>1, <1>3 DEF PlanIn
    <3>2. PlanIn(M) \subseteq 1 .. Len(L) + 1 /\ PlanIn(L) \subseteq 1 .. Len(L) + 1
      BY <1>1 DEF PlanIn
    <3> QED
      BY <3>1, <3>2
  <2>2. CASE PlanIn(L) = {}
    BY <1>3, <2>1, <2>2 DEF PlanOf
  <2>3. CASE PlanIn(L) # {}
    <3>1. Max(PlanIn(L)) \in PlanIn(L)
      <4>1. PlanIn(L) \subseteq 0 .. Len(L)
        BY <1>1 DEF PlanIn
      <4> QED
        BY <1>1, <2>3, <4>1, MaxOfInterval
    <3>2. M[Max(PlanIn(L))] = L[Max(PlanIn(L))]
      BY <1>1, <3>1 DEF PlanIn
    <3> QED
      BY <1>3, <2>1, <2>3, <3>2 DEF PlanOf
  <2> QED
    BY <2>2, <2>3
<1> QED
  BY <1>2, <1>3

\* What is published is new, and fits the status and the Scope.
LEMMA PublishStarts ==
  ASSUME IInv, Steady, Bound(manifest, log), NEW a \in Artifact,
         a.kind \in Allows, Ready(a), a \notin manifest.refs
  PROVE  /\ a \notin ToSet(ledger) /\ Permitted(a)
         /\ a.kind = "formation" => a.scope = manifest.proposal.rev
         /\ a.kind = "plan" => manifest.plan = None
         /\ a.kind = "dispatch" => manifest.plan # None
         /\ manifest.status = Unclear /\ manifest.plan # None => a.kind = "adaptation"
<1>1. /\ Sane(manifest) /\ Valid(manifest) /\ manifest \in Loose
      /\ Formed(receipts, ledger, manifest)
      /\ manifest.proposal = LatestProposal(receipts) /\ HistoryValid(receipts)
      /\ Proposals(receipts) # {} /\ receipts \subseteq Decision /\ IsFiniteSet(receipts)
  BY WholeTypes DEF IInv, OnDisk, Steady, Whole
<1>2. manifest.status # Waiting /\ a.kind # "revision"
  <2>1. manifest.status = Waiting => Allows = {}
    BY DEF Allows, Waiting, Unclear
  <2>2. "revision" \notin Allows
    BY DEF Allows
  <2> QED
    BY <2>1, <2>2
<1>3. manifest.status = Unclear /\ manifest.plan # None => a.kind = "adaptation"
  BY DEF Allows, Waiting, Unclear
<1>4. /\ a.kind = "formation" => a.scope = manifest.proposal.rev
      /\ a.kind = "plan" => manifest.plan = None /\ a.scope = manifest.proposal.rev
      /\ a.kind = "dispatch" => manifest.plan # None /\ a.scope = manifest.plan.scope
  BY DEF Ready
<1>5. a.kind = "dispatch" => manifest.status \in Researching /\ a.scope = manifest.proposal.rev
  <2> SUFFICES ASSUME a.kind = "dispatch"
               PROVE  manifest.status \in Researching /\ a.scope = manifest.proposal.rev
    OBVIOUS
  <2>1. manifest.status # Unclear
    BY <1>3, <1>4
  <2>2. manifest.status # "created" /\ manifest.status \in Status
    BY <1>1, <1>4 DEF Sane, Valid, ManifestType
  <2> QED
    BY <1>1, <1>2, <1>4, <2>1, <2>2 DEF Status, Sane
<1>6. a \notin ToSet(ledger)
  <2> SUFFICES ASSUME a \in ToSet(ledger) PROVE FALSE
    OBVIOUS
  <2>1. PICK c \in Confirmations(receipts) : a \in c.stale
    BY <1>1 DEF Formed
  <2>2. a.kind = "formation" /\ a.scope < c.rev
    BY <1>1, <2>1 DEF Formed
  <2>3. PICK p \in Proposals(receipts) : p.rev = c.rev
    BY <1>1 DEF HistoryValid
  <2>4. p.rev <= manifest.proposal.rev
    BY <1>1, LatestOfHistory
  <2>5. p.rev \in Nat /\ manifest.proposal.rev \in Nat
    BY <1>1, DecisionFields, LatestTypes DEF Proposals
  <2> QED
    BY <1>4, <2>2, <2>3, <2>4, <2>5
<1> QED
  BY <1>2, <1>3, <1>4, <1>5, <1>6 DEF Permitted

LEMMA AppliedSane ==
  ASSUME NEW o \in Loose, NEW m, NEW a \in Artifact, Applied(o, a, m), Sane(o), o.status # Waiting,
         a.kind = "plan" => o.plan = None /\ a.scope = o.proposal.rev,
         a.kind = "dispatch" => o.plan # None /\ o.status \in Researching,
         o.status = Unclear /\ o.plan # None => a.kind = "adaptation"
  PROVE  /\ Sane(m) /\ m.status # Waiting /\ m.before \in {None, o.before}
         /\ m.status = Unclear => o.status = Unclear /\ a.kind # "plan"
<1>1. m \in Loose /\ m.proposal = o.proposal /\ m.confirmation = o.confirmation
  BY DEF Applied
<1>2. Valid(o) /\ o.confirmation # None
  BY DEF Sane, Valid
<1>3. CASE a.kind = "plan"
  <2>1. m.status = "planned" /\ m.before = None /\ m.plan = a
    BY <1>3 DEF Applied
  <2>2. Valid(m)
    BY <1>1, <1>2, <2>1, ValidFields, NoneAssumption DEF Waiting, Unclear, Status, Researching
  <2>3. a # None
    BY NoneAssumption
  <2> QED
    BY <1>1, <1>3, <2>1, <2>2, <2>3 DEF Sane, Waiting, Unclear, Researching
<1>4. CASE a.kind = "dispatch"
  <2>1. m.status = "researching" /\ m.before = o.before /\ m.plan = o.plan
    BY <1>4 DEF Applied, Unclear, Researching
  <2>2. o.before = None
    BY <1>2, <1>4 DEF Valid, Researching, Waiting, Unclear
  <2>3. Valid(m)
    BY <1>1, <1>2, <2>1, <2>2, ValidFields, NoneAssumption DEF Waiting, Unclear, Status, Researching
  <2> QED
    BY <1>1, <1>4, <2>1, <2>2, <2>3 DEF Sane, Waiting, Unclear, Researching
<1>5. CASE a.kind \notin {"plan", "dispatch"}
  <2>1. m.status = o.status /\ m.before = o.before /\ m.plan = o.plan
    BY <1>5 DEF Applied
  <2>2. Valid(m)
    BY <1>1, <1>2, <2>1, ValidFields
  <2> QED
    BY <1>1, <1>5, <2>1, <2>2 DEF Sane
<1> QED
  BY <1>3, <1>4, <1>5

\* A publication whose call dies before the Manifest is found again.
LEMMA PublishedWhole ==
  ASSUME IInv, Steady, Bound(manifest, log), NEW a \in Artifact,
         a.kind \in Allows, Ready(a), a \notin manifest.refs
  PROVE  /\ Recoverable(receipts, Append(ledger, a), snapshot, Apply(manifest, a, TRUE), manifest)
         /\ Sane(Apply(manifest, a, TRUE))
<1> PICK D : D = receipts
  OBVIOUS
<1> PICK L : L = ledger
  OBVIOUS
<1> PICK M : M = Append(ledger, a)
  OBVIOUS
<1> PICK S : S = snapshot
  OBVIOUS
<1> PICK m : m = Apply(manifest, a, TRUE)
  OBVIOUS
<1>1. /\ Whole(D, L, S, manifest) /\ D \subseteq Decision /\ IsFiniteSet(D)
      /\ L \in Seq(Artifact) /\ M = Append(L, a)
  BY DEF Steady, IInv, OnDisk
<1>2. /\ HistoryValid(D) /\ Proposals(D) # {} /\ manifest \in Loose /\ Sane(manifest)
      /\ Formed(D, L, manifest) /\ Fits(D, L, S) /\ Valid(manifest)
      /\ manifest.proposal = LatestProposal(D) /\ manifest.confirmation = LatestConfirmation(D)
      /\ BeforeFits(manifest.before, D, S)
      /\ PlanOf(L) = IF manifest.plan = None THEN 0 ELSE manifest.plan.scope
      /\ manifest.plan # None /\ manifest.status = Unclear => NoNew({"plan"}, D, L, S)
  BY <1>1, WholeTypes DEF Whole
<1>3. /\ a \notin ToSet(L) /\ Permitted(a)
      /\ a.kind = "formation" => a.scope = manifest.proposal.rev
      /\ a.kind = "plan" => manifest.plan = None
      /\ a.kind = "dispatch" => manifest.plan # None
      /\ manifest.status = Unclear /\ manifest.plan # None => a.kind = "adaptation"
  BY PublishStarts
<1>4. Applied(manifest, a, m)
  BY <1>2, ApplyFields
<1>5. /\ m \in Loose /\ m.proposal = manifest.proposal /\ m.confirmation = manifest.confirmation
      /\ m.refs = manifest.refs \union {a}
      /\ m.plan = IF a.kind = "plan" THEN a ELSE manifest.plan
  BY <1>3, <1>4 DEF Applied
<1>6. /\ Sane(m) /\ m.status # Waiting /\ m.before \in {None, manifest.before}
      /\ m.status = Unclear => manifest.status = Unclear /\ a.kind # "plan"
  BY <1>2, <1>3, <1>4, AppliedSane DEF Permitted
<1>7. /\ Len(L) \in Nat /\ M \in Seq(Artifact) /\ Len(M) = Len(L) + 1
      /\ ToSet(M) = ToSet(L) \union {a} /\ M[Len(L) + 1] = a
      /\ \A k \in 1 .. Len(L) : M[k] = L[k]
  BY <1>1, ListGrows, InList
<1>8. a \notin StaleOf(D)
  BY <1>1, <1>2, <1>3, StaleFields
<1>9. Formed(D, M, m)
  <2>1. \A b \in ToSet(M) : b.kind = "formation" => b.scope <= m.proposal.rev
    <3>1. \A b \in ToSet(L) : b.kind = "formation" => b.scope <= m.proposal.rev
      BY <1>2, <1>5 DEF Formed
    <3>2. a.kind = "formation" => a.scope <= m.proposal.rev
      <4>1. m.proposal \in Decision
        BY <1>5, LooseFields
      <4>2. m.proposal.rev \in Nat
        BY <4>1, DecisionFields
      <4>3. a.kind = "formation" => a.scope = m.proposal.rev
        BY <1>3, <1>5
      <4>4. \A r \in Nat : r <= r
        OBVIOUS
      <4>5. m.proposal.rev <= m.proposal.rev
        BY <4>2, <4>4
      <4> QED
        BY ONLY <4>3, <4>5
    <3> QED
      BY <1>7, <3>1, <3>2
  <2> QED
    BY <1>2, <1>5, <1>6, <1>7, <1>8, <2>1 DEF Formed
<1>10. Fits(D, M, S)
  BY <1>2, <1>7 DEF Fits
<1>11. PlanOf(M) = IF m.plan = None THEN 0 ELSE m.plan.scope
  BY <1>1, <1>2, <1>3, <1>5, NoneAssumption, PlanOfGrows DEF Permitted
<1>12. New(a, D, S)
  BY <1>2, <1>3, <1>8 DEF New, Fits
<1>13. \E f : Leads(f, D, M, S, m)
  <2>1. PICK f : Leads(f, D, L, S, manifest)
    BY <1>1 DEF Whole
  <2>2. PICK g : g = [k \in 0 .. Len(M) |-> IF k = Len(M) THEN Core(m) ELSE f[k]]
    OBVIOUS
  <2>3. /\ g[Len(M)] = Core(m)
        /\ \A k \in 0 .. Len(L) : g[k] = f[k]
    BY <1>7, <2>2
  <2>4. /\ f[0] = Core(Rebind(S, D)) /\ f[Len(L)] = Core(manifest)
        /\ \A k \in 1 .. Len(L) :
             f[k] = IF New(L[k], D, S) THEN Core(Apply(f[k - 1], L[k], TRUE)) ELSE f[k - 1]
        /\ \A k \in 0 .. Len(L) : Valid(f[k])
    BY <2>1 DEF Leads
  <2>5. Core(m) = Core(Apply(Core(manifest), a, TRUE))
    BY <1>2, ApplyCore
  <2>6. ASSUME NEW k \in 1 .. Len(M)
        PROVE  g[k] = IF New(M[k], D, S) THEN Core(Apply(g[k - 1], M[k], TRUE)) ELSE g[k - 1]
    <3>1. CASE k = Len(M)
      <4>1. k - 1 = Len(L) /\ Len(L) \in 0 .. Len(L) /\ k = Len(L) + 1
        BY <1>7, <3>1
      <4>2. g[k - 1] = Core(manifest)
        BY <2>3, <2>4, <4>1
      <4>3. M[k] = a /\ g[k] = Core(m)
        BY <1>7, <2>3, <3>1, <4>1
      <4> QED
        BY <1>12, <2>5, <4>2, <4>3
    <3>2. CASE k \in 1 .. Len(L)
      <4>1. g[k] = f[k] /\ g[k - 1] = f[k - 1] /\ M[k] = L[k]
        BY <1>7, <2>3, <3>2
      <4>2. f[k] = IF New(L[k], D, S) THEN Core(Apply(f[k - 1], L[k], TRUE)) ELSE f[k - 1]
        BY <2>4, <3>2
      <4> QED
        BY <4>1, <4>2
    <3>3. k = Len(M) \/ k \in 1 .. Len(L)
      BY <1>7
    <3> QED
      BY <3>1, <3>2, <3>3
  <2>7. ASSUME NEW k \in 0 .. Len(M) PROVE Valid(g[k])
    <3>1. Valid(Core(m))
      BY <1>5, <1>6, CoreFields, RefsValid DEF Sane
    <3>2. k = Len(M) \/ k \in 0 .. Len(L)
      BY <1>7
    <3> QED
      BY <2>3, <2>4, <3>1, <3>2
  <2>8. g[0] = Core(Rebind(S, D))
    BY <1>7, <2>3, <2>4
  <2> QED
    BY <2>3, <2>6, <2>7, <2>8 DEF Leads
<1>14. NoNew({"plan"}, D, L, S) /\ a.kind # "plan" => NoNew({"plan"}, D, M, S)
  BY <1>7 DEF NoNew
<1>15. BeforeFits(m.before, D, S)
  BY <1>2, <1>6 DEF BeforeFits
<1>16. m.plan # None /\ m.status = Unclear => NoNew({"plan"}, D, M, S)
  BY <1>2, <1>5, <1>6, <1>14
<1>17. Whole(D, M, S, m)
  BY <1>2, <1>5, <1>6, <1>9, <1>10, <1>11, <1>13, <1>15, <1>16 DEF Whole
<1>18. manifest.plan # None /\ manifest.status = Unclear => NoNew({"plan"}, D, M, S)
  BY <1>2, <1>3, <1>14
<1> QED
  BY <1>2, <1>6, <1>17, <1>18 DEF Recoverable

\* The Plan that reconciles a Scope leaves a Manifest that is its own checkpoint.
LEMMA ReconciledWhole ==
  ASSUME IInv, Steady, ReconcilePlan
  PROVE  /\ Sane(manifest') /\ Whole(receipts, ledger', manifest', manifest')
         /\ snapshot' = manifest' /\ goal' = {manifest, manifest'}
         /\ UNCHANGED <<receipts, log, todo, dirty>>
<1> PICK D : D = receipts
  OBVIOUS
<1> PICK L : L = ledger
  OBVIOUS
<1> PICK r : r = Make("revision", manifest.proposal.rev)
  OBVIOUS
<1> PICK a : a = Make("adaptation", manifest.proposal.rev)
  OBVIOUS
<1> PICK m : m = manifest'
  OBVIOUS
<1>1. /\ Whole(D, L, snapshot, manifest) /\ D \subseteq Decision /\ IsFiniteSet(D)
      /\ L \in Seq(Artifact)
  BY DEF Steady, IInv, OnDisk
<1>2. /\ HistoryValid(D) /\ Proposals(D) # {} /\ manifest \in Loose /\ Sane(manifest)
      /\ Formed(D, L, manifest) /\ Valid(manifest) /\ Backed(manifest, D)
      /\ manifest.proposal = LatestProposal(D) /\ manifest.confirmation = LatestConfirmation(D)
  BY <1>1, WholeTypes DEF Whole
<1>3. /\ manifest' = [manifest EXCEPT !.status = manifest.before, !.before = None, !.plan = r,
                        !.refs = @ \union {r}, !.pending = @ \ {a}, !.applied = @ \union {a}]
      /\ snapshot' = manifest' /\ ledger' = Append(L, r) /\ goal' = {manifest, manifest'}
      /\ UNCHANGED <<receipts, log, todo, dirty>>
      /\ manifest.status = Unclear /\ manifest.plan # None
  BY DEF ReconcilePlan, bounds
<1>4. r \in Artifact /\ a \in Artifact /\ r.kind = "revision" /\ r.scope = manifest.proposal.rev
  BY <1>2, LooseFields, DecisionFields DEF Make, Artifact, Kind
<1>5. /\ m \in Loose /\ m.status = manifest.before /\ m.before = None /\ m.plan = r
      /\ m.refs = manifest.refs \union {r}
      /\ m.proposal = manifest.proposal /\ m.confirmation = manifest.confirmation
  BY <1>2, <1>3, <1>4, LooseFields DEF Loose
<1>6. manifest.before # None /\ manifest.confirmation # None
  BY <1>2, <1>3 DEF Valid, Waiting, Unclear
<1>7. m.status \in Researching /\ m.plan # None
  BY <1>2, <1>3, <1>4, <1>5, <1>6, NoneAssumption DEF Sane
<1>8. Sane(m)
  <2>1. Valid(m)
    BY <1>5, <1>6, <1>7, ValidFields, NoneAssumption DEF Researching, Waiting, Unclear, Status
  <2> QED
    BY <1>4, <1>5, <1>7, <2>1 DEF Sane, Researching, Waiting, Unclear
<1> PICK M : M = Append(L, r)
  OBVIOUS
<1>9. M \in Seq(Artifact) /\ ToSet(M) = ToSet(L) \union {r}
  BY <1>1, <1>4, ListGrows
<1>10. PlanOf(M) = r.scope
  BY <1>1, <1>4, PlanOfGrows
<1>11. r \notin StaleOf(D)
  BY <1>1, <1>2, <1>4, StaleFields
<1>12. Formed(D, M, m)
  <2>1. m.status # Waiting
    BY <1>7 DEF Researching, Waiting
  <2> QED
    BY <1>2, <1>4, <1>5, <1>9, <1>11, <2>1 DEF Formed
<1>13. Backed(m, D)
  BY <1>2, <1>5 DEF Backed
<1>14. Whole(D, M, m, m)
  BY <1>1, <1>2, <1>5, <1>7, <1>8, <1>9, <1>10, <1>12, <1>13, OwnSnapshot
     DEF Researching, Waiting
<1> QED
  BY <1>3, <1>8, <1>14

-----------------------------------------------------------------------------
\* The Manifest load-run starts from, with the references of all that is published.
LEMMA ReboundFields ==
  ASSUME IInv, NEW m, Recoverable(receipts, ledger, snapshot, m, manifest)
  PROVE  /\ Repaired = receipts
         /\ Rebound = WithRefs(Rebind(snapshot, receipts), ToSet(ledger))
         /\ Stale = StaleOf(receipts)
         /\ \A a \in Artifact : New(a, receipts, snapshot) =>
              ((\E k \in 1 .. Len(ledger) : a = ledger[k]) => a.kind # "plan" \/ PrePlanAllowed)
<1> PICK D : D = receipts
  OBVIOUS
<1> PICK S : S = snapshot
  OBVIOUS
<1>1. Repaired = D /\ D \subseteq Decision /\ IsFiniteSet(D) /\ ledger \in Seq(Artifact)
  BY DEF IInv, OnDisk, Repaired
<1>2. /\ Whole(D, ledger, S, m) /\ BeforeFits(manifest.before, D, S)
      /\ manifest.before \in Status \union {None}
  BY LooseFields DEF Recoverable, IInv, OnDisk
<1>3. /\ S \in Loose /\ BoundTo(D, S, Rebind(S, D)) /\ Rebind(S, D) \in Loose
      /\ LatestProposal(D) \in Decision /\ LatestConfirmation(D) \in Decision \union {None}
      /\ S.refs \subseteq ToSet(ledger) /\ ToSet(ledger) \in SUBSET Artifact
  BY <1>1, <1>2, WholeTypes, InList DEF Whole, Fits
<1> PICK b : b = IF manifest.before # None THEN manifest.before ELSE S.before
  OBVIOUS
<1> PICK n : n = [S EXCEPT !.before = b, !.refs = S.refs \union ToSet(ledger)]
  OBVIOUS
<1>4. b \in Status \union {None}
  BY <1>2, <1>3, LooseFields
<1>5. /\ n \in Loose /\ n.before = b /\ n.refs = ToSet(ledger)
      /\ n.status = S.status /\ n.proposal = S.proposal /\ n.confirmation = S.confirmation
      /\ n.plan = S.plan /\ n.active = S.active /\ n.completed = S.completed
      /\ n.pending = S.pending /\ n.rejected = S.rejected /\ n.applied = S.applied
  BY <1>3, <1>4 DEF Loose
<1>6. Rebound = Rebind(n, D)
  BY <1>1, <1>3 DEF Rebound
<1>7. BoundTo(D, n, Rebound)
  BY <1>3, <1>5, <1>6, RebindFields
<1>8. PICK x : x = Rebind(S, D)
  OBVIOUS
<1>9. PICK y : y = Rebound
  OBVIOUS
<1>10. BoundTo(D, S, x) /\ BoundTo(D, n, y)
  BY <1>3, <1>7, <1>8, <1>9
<1>11. /\ x \in Loose /\ y \in Loose /\ x.status = y.status
       /\ x.proposal = y.proposal /\ x.confirmation = y.confirmation /\ x.plan = y.plan
       /\ x.active = y.active /\ x.completed = y.completed /\ x.applied = y.applied
       /\ y.refs = ToSet(ledger)
       /\ y.proposal = LatestProposal(D) /\ y.confirmation = LatestConfirmation(D)
  BY <1>5, <1>10 DEF BoundTo
<1>12. x.pending = y.pending /\ x.rejected = y.rejected
  BY <1>5, <1>10 DEF BoundTo
<1>13. x.before = y.before
  BY <1>2, <1>5, <1>10 DEF BoundTo, BeforeFits
<1>14. y = WithRefs(x, ToSet(ledger))
  BY <1>11, <1>12, <1>13, WithRefsOf DEF Alike
<1>15. Stale = StaleOf(D)
  BY <1>9, <1>11 DEF Stale, StaleOf
<1>16. \A a \in Artifact : New(a, D, S) =>
         ((\E k \in 1 .. Len(ledger) : a = ledger[k]) => a.kind # "plan" \/ PrePlanAllowed)
  <2>1. \/ manifest.plan = None
        \/ manifest.proposal.rev = LatestProposal(D).rev /\ manifest.status # Unclear
        \/ NoNew({"plan"}, D, ledger, S)
    BY DEF Recoverable
  <2> QED
    BY <1>9, <1>11, <2>1 DEF PrePlanAllowed, NoNew
<1> QED
  BY <1>1, <1>8, <1>9, <1>14, <1>15, <1>16

\* What load-run restores.
LEMMA RecoveryIs ==
  ASSUME IInv, NEW m, Recoverable(receipts, ledger, snapshot, m, manifest)
  PROVE  Recovery = {WithRefs(m, ToSet(ledger) \ StaleOf(receipts))}
<1> PICK D : D = receipts
  OBVIOUS
<1> PICK L : L = ledger
  OBVIOUS
<1> PICK S : S = snapshot
  OBVIOUS
<1> PICK R : R = ToSet(ledger) \ StaleOf(receipts)
  OBVIOUS
<1>1. /\ Repaired = D /\ Rebound = WithRefs(Rebind(S, D), ToSet(L)) /\ Stale = StaleOf(D)
      /\ \A a \in Artifact : New(a, D, S) =>
           ((\E k \in 1 .. Len(L) : a = L[k]) => a.kind # "plan" \/ PrePlanAllowed)
  BY ReboundFields
<1>2. /\ Whole(D, L, S, m) /\ D \subseteq Decision /\ IsFiniteSet(D) /\ L \in Seq(Artifact)
  BY DEF Recoverable, IInv, OnDisk
<1>3. /\ Rebind(S, D) \in Loose /\ m \in Loose /\ Valid(m) /\ HistoryValid(D)
      /\ m.proposal = LatestProposal(D) /\ m.confirmation = LatestConfirmation(D)
      /\ ToSet(L) \in SUBSET Artifact /\ R \in SUBSET Artifact /\ Len(L) \in Nat
  BY <1>2, WholeTypes, InList DEF Whole
<1>4. PICK f : Leads(f, D, L, S, m)
  BY <1>2 DEF Whole
<1>5. /\ f[0] = Core(Rebind(S, D)) /\ f[Len(L)] = Core(m)
      /\ \A k \in 1 .. Len(L) :
           f[k] = IF New(L[k], D, S) THEN Core(Apply(f[k - 1], L[k], TRUE)) ELSE f[k - 1]
      /\ \A k \in 0 .. Len(L) : Valid(f[k]) /\ f[k] \in Loose
  BY <1>4, ValidIsLoose DEF Leads
<1>6. [Rebound EXCEPT !.refs = @ \ Stale] = WithRefs(f[0], R)
  <2> PICK b : b = Rebind(S, D)
    OBVIOUS
  <2>1. WithRefs(Core(b), R) = WithRefs(b, R)
    BY <1>3, CoreTwice
  <2>2. WithRefs(b, ToSet(L)) \in Loose /\ WithRefs(b, ToSet(L)).refs = ToSet(L)
    BY <1>3, AlikeRefs
  <2>3. [WithRefs(b, ToSet(L)) EXCEPT !.refs = @ \ Stale] = WithRefs(b, R)
    BY <1>1, <1>3 DEF WithRefs, Loose
  <2> QED
    BY <1>1, <1>5, <2>1, <2>3
<1>7. ASSUME NEW k \in 1 .. Len(L)
      PROVE  Replay({WithRefs(f[k - 1], R)}, L[k]) = {WithRefs(f[k], R)}
  <2>1. /\ f[k] = IF New(L[k], D, S) THEN Core(Apply(f[k - 1], L[k], TRUE)) ELSE f[k - 1]
        /\ f[k] \in Loose /\ Valid(f[k]) /\ f[k - 1] \in Loose
    <3>1. k \in 0 .. Len(L) /\ k - 1 \in 0 .. Len(L)
      BY <1>3
    <3> QED
      BY <1>5, <3>1
  <2>2. L[k] \in Artifact /\ L[k] \in ToSet(L)
    BY <1>2, InList
  <2>3. CASE ~New(L[k], D, S)
    <3>1. L[k] \in S.refs \union Stale
      BY <1>1, <2>3 DEF New
    <3> QED
      BY <2>1, <2>3, <3>1 DEF Replay
  <2>4. CASE New(L[k], D, S)
    <3>1. L[k] \notin S.refs \union Stale /\ L[k] \in R
      BY <1>1, <2>2, <2>4 DEF New
    <3>2. Replay({WithRefs(f[k - 1], R)}, L[k])
            = {n \in {Apply(WithRefs(f[k - 1], R), L[k], PrePlanAllowed)} : Valid(n)}
      BY <3>1 DEF Replay
    <3>3. L[k].kind # "plan" \/ PrePlanAllowed
      BY <1>1, <2>2, <2>4
    <3>4. Apply(WithRefs(f[k - 1], R), L[k], PrePlanAllowed) = Apply(WithRefs(f[k - 1], R), L[k], TRUE)
      <4>1. PrePlanAllowed \in BOOLEAN
        BY DEF PrePlanAllowed
      <4> QED
        BY <3>3, <4>1, ApplyAnyway
    <3>5. Apply(WithRefs(f[k - 1], R), L[k], TRUE) = WithRefs(Core(Apply(f[k - 1], L[k], TRUE)), R)
      BY <1>3, <2>1, <2>2, <3>1, ApplyWithRefs
    <3>6. Apply(WithRefs(f[k - 1], R), L[k], PrePlanAllowed) = WithRefs(f[k], R)
      BY <2>1, <2>4, <3>4, <3>5
    <3>7. Valid(WithRefs(f[k], R))
      BY <1>3, <2>1, RefsValid
    <3> QED
      BY <3>2, <3>6, <3>7
  <2> QED
    BY <2>3, <2>4
<1>8. Projected[Len(L)] = {WithRefs(f[Len(L)], R)}
  <2> PICK N : N = Len(L)
    OBVIOUS
  <2> PICK first : first = {[Rebound EXCEPT !.refs = @ \ Stale]}
    OBVIOUS
  <2> DEFINE Step(g) == [k \in 0 .. N |->
                           IF k = 0 THEN first ELSE Replay(g[k - 1], L[k])]
             G == [k \in 0 .. N |-> {WithRefs(f[k], R)}]
  <2>1. G = Step(G)
    <3>1. ASSUME NEW k \in 0 .. N
          PROVE  {WithRefs(f[k], R)} = IF k = 0 THEN first ELSE Replay(G[k - 1], L[k])
      <4>1. CASE k = 0
        BY <1>6, <4>1
      <4>2. CASE k # 0
        <5>1. k \in 1 .. N /\ k - 1 \in 0 .. N
          BY <1>3, <4>2
        <5>2. G[k - 1] = {WithRefs(f[k - 1], R)}
          BY <5>1
        <5> QED
          BY <1>7, <4>2, <5>1, <5>2
      <4> QED
        BY <4>1, <4>2
    <3> QED
      BY <3>1
  <2>2. Projected = CHOOSE g : g = Step(g)
    BY DEF Projected
  <2> HIDE DEF G
  <2>3. Projected = Step(Projected)
    BY <2>1, <2>2
  <2> PICK P : P = Projected
    OBVIOUS
  <2>4. P = [k \in 0 .. N |-> IF k = 0 THEN first ELSE Replay(P[k - 1], L[k])]
    BY <2>3
  <2>5. N \in Nat /\ 0 \in 0 .. N /\ N \in 0 .. N /\ \A k \in 1 .. N : k \in 0 .. N /\ k # 0
    BY <1>3
  <2>6. P[0] = first /\ \A k \in 1 .. N : P[k] = Replay(P[k - 1], L[k])
    BY <2>4, <2>5
  <2> DEFINE T == {k \in 0 .. N : P[k] = {WithRefs(f[k], R)}}
  <2>7. 0 \in T
    BY <1>6, <2>5, <2>6
  <2>8. \A n \in 0 .. N : n \in T /\ n < N => n + 1 \in T
    <3> SUFFICES ASSUME NEW n \in 0 .. N, n \in T, n < N PROVE n + 1 \in T
      OBVIOUS
    <3>1. n + 1 \in 1 .. N /\ (n + 1) - 1 = n /\ n + 1 \in 0 .. N
      BY <2>5
    <3>2. P[n] = {WithRefs(f[n], R)}
      OBVIOUS
    <3>3. P[n + 1] = Replay({WithRefs(f[n], R)}, L[n + 1])
      BY <2>6, <3>1, <3>2
    <3>4. Replay({WithRefs(f[(n + 1) - 1], R)}, L[n + 1]) = {WithRefs(f[n + 1], R)}
      BY <1>7, <3>1
    <3>5. P[n + 1] = {WithRefs(f[n + 1], R)}
      BY <3>1, <3>3, <3>4
    <3> QED
      BY <3>1, <3>5
  <2>9. \A n \in 0 .. N : n \in T
    <3> HIDE DEF T
    <3> QED
      BY ONLY <2>5, <2>7, <2>8, NatStep
  <2> QED
    BY <2>5, <2>9
<1>9. WithRefs(f[Len(L)], R) = WithRefs(m, R)
  BY <1>3, <1>5, CoreTwice
<1> PICK n : n = WithRefs(m, R)
  OBVIOUS
<1>10. n \in Loose /\ Valid(n) /\ Alike(n, m)
  BY <1>3, AlikeRefs, RefsValid
<1>11. Bound(n, D)
  BY <1>3, <1>10 DEF Bound, Alike, Valid
<1> QED
  BY <1>1, <1>3, <1>8, <1>9, <1>10, <1>11 DEF Recovery

-----------------------------------------------------------------------------
LEMMA NearSelf ==
  ASSUME NEW m \in goal, m \in Loose
  PROVE  Near(m)
BY DEF Near, Restores, Loose

\* Formation load-run brings back was superseded by an earlier correction.
LEMMA NearRefs ==
  ASSUME IInv, NEW m, Whole(receipts, ledger, snapshot, m), NEW g, Restores(m, g), g \in Loose
  PROVE  Restores(WithRefs(m, ToSet(ledger) \ StaleOf(receipts)), g)
<1> PICK D : D = receipts
  OBVIOUS
<1> PICK R : R = ToSet(ledger) \ StaleOf(receipts)
  OBVIOUS
<1>1. /\ Repaired = D /\ D \subseteq Decision /\ IsFiniteSet(D) /\ ledger \in Seq(Artifact)
  BY DEF IInv, OnDisk, Repaired
<1>2. /\ HistoryValid(D) /\ Proposals(D) # {} /\ m \in Loose /\ Formed(D, ledger, m)
  BY <1>1, WholeTypes DEF Whole
<1>3. R \in SUBSET Artifact
  BY <1>1, InList
<1>4. m.refs \subseteq R
  BY <1>2 DEF Formed
<1>5. R \subseteq m.refs \union Withdrawn
  <2> SUFFICES ASSUME NEW a \in R, a \notin m.refs PROVE a \in Withdrawn
    OBVIOUS
  <2>1. a \in ToSet(ledger) /\ a \notin StaleOf(D)
    OBVIOUS
  <2>2. PICK c \in Confirmations(D) : a \in c.stale
    BY <1>2, <2>1 DEF Formed
  <2>3. PICK p \in Proposals(D) : p.rev = c.rev
    BY <1>2 DEF HistoryValid
  <2>4. p.rev <= LatestProposal(D).rev /\ (c.rev = LatestProposal(D).rev => c = LatestConfirmation(D))
    BY <1>1, <1>2, LatestOfHistory
  <2>5. /\ c.rev \in Nat \ {0} /\ LatestProposal(D).rev \in Nat
    BY <1>1, <1>2, LatestTypes, DecisionFields DEF Confirmations, Revision
  <2>6. a \in Artifact /\ a.scope < c.rev /\ a.scope \in Nat \ {0}
    <3>1. a \in Artifact /\ a.scope < c.rev
      BY <1>2, <1>3, <2>2 DEF Formed
    <3> QED
      BY <3>1, BoundAssumption DEF Artifact, Revision
  <2>7. c.rev < LatestProposal(D).rev
    <3>1. CASE c.rev = LatestProposal(D).rev
      <4>1. c = LatestConfirmation(D) /\ c # None /\ LatestProposal(D).rev > 1
        BY <1>1, <2>4, <2>5, <2>6, <3>1, NoneAssumption DEF Confirmations
      <4>2. StaleOf(D) = c.stale
        BY <4>1 DEF StaleOf
      <4> QED
        BY <2>1, <2>2, <4>2
    <3> QED
      BY <2>3, <2>4, <2>5, <3>1
  <2> QED
    BY <1>1, <2>2, <2>7 DEF Withdrawn
<1>6. PICK n : n = WithRefs(m, R)
  OBVIOUS
<1>7. n \in Loose /\ n.refs = R
  BY <1>2, <1>3, <1>6, AlikeRefs
<1>8. n = [g EXCEPT !.refs = n.refs]
  BY <1>2, <1>3, <1>6, <1>7 DEF Restores, WithRefs, Loose
<1>9. g.refs \subseteq R /\ R \subseteq g.refs \union Withdrawn
  BY <1>4, <1>5 DEF Restores
<1> QED
  BY <1>6, <1>7, <1>8, <1>9 DEF Restores

LEMMA SteadyIsHeld ==
  ASSUME Steady, Near(manifest), todo = <<>>
  PROVE  Held
BY WholeIsRecoverable DEF Held, HeldIdle, Steady, Logged

LEMMA InitSInv == Init => SInv
<1> SUFFICES ASSUME Init PROVE SInv
  OBVIOUS
<1>1. PICK text \in Text :
        log = {Proposal(1, text)} /\ manifest = FirstManifest(Proposal(1, text))
  BY DEF Init
<1> PICK p : p = Proposal(1, text)
  OBVIOUS
<1> PICK D : D = receipts
  OBVIOUS
<1>2. /\ p \in Decision /\ p.type = "proposal" /\ p.rev = 1
  BY BoundAssumption DEF Proposal, Decision, Revision
<1>3. /\ receipts = log /\ D = {p} /\ ledger = <<>> /\ snapshot = manifest
      /\ todo = <<>> /\ goal = {manifest}
  BY <1>1 DEF Init
<1>4. IInv
  BY InitIInv
<1>5. D \subseteq Decision /\ IsFiniteSet(D) /\ Proposals(D) = {p} /\ Confirmations(D) = {}
  BY <1>2, <1>3, <1>4 DEF Proposals, Confirmations, IInv, OnDisk
<1>6. HistoryValid(D)
  <2>1. Cardinality(Proposals(D)) = 1
    BY <1>5, FS_Singleton
  <2>2. {q.rev : q \in Proposals(D)} = 1 .. 1
    BY <1>2, <1>5
  <2> QED
    BY <1>2, <1>5, <2>1, <2>2 DEF HistoryValid
<1>7. LatestProposal(D) = p /\ LatestConfirmation(D) = None /\ StaleOf(D) = {}
  BY <1>5, <1>6, LatestTypes DEF StaleOf
<1>8. /\ manifest \in Loose /\ manifest.status = Waiting /\ manifest.before = None
      /\ manifest.proposal = p /\ manifest.confirmation = None /\ manifest.plan = None
      /\ manifest.refs = {}
  BY <1>1, <1>4 DEF FirstManifest, IInv, OnDisk
<1>9. Sane(manifest)
  <2>1. Valid(manifest)
    BY <1>8, ValidFields, NoneAssumption DEF Waiting, Unclear, Status
  <2> QED
    BY <1>2, <1>8, <2>1 DEF Sane, Waiting, Researching
<1>10. ToSet(ledger) = {} /\ ledger \in Seq(Artifact) /\ Len(ledger) = 0
  BY <1>3 DEF ToSet
<1>11. Formed(D, ledger, manifest)
  BY <1>5, <1>7, <1>8, <1>10 DEF Formed
<1>12. Fits(D, ledger, manifest)
  BY <1>2, <1>5, <1>7, <1>8, <1>9, <1>10 DEF Fits, Backed
<1>13. PlanOf(ledger) = 0
  BY <1>3 DEF PlanOf, PlanIn
<1>14. OnlyFormation(D, ledger, manifest) /\ \A K : NoNew(K, D, ledger, manifest)
  BY <1>10 DEF OnlyFormation, NoNew
<1>15. Rebind(manifest, D) \in Loose /\ Alike(Rebind(manifest, D), manifest)
  <2>1. BoundTo(D, manifest, Rebind(manifest, D))
    BY <1>2, <1>7, <1>8, RebindFields
  <2>2. PICK n : n = Rebind(manifest, D)
    OBVIOUS
  <2>3. BoundTo(D, manifest, n)
    BY <2>1, <2>2
  <2> QED
    BY <1>7, <1>8, <2>2, <2>3 DEF BoundTo, Alike
<1>16. \E f : Leads(f, D, ledger, manifest, manifest)
  BY <1>8, <1>9, <1>10, <1>14, <1>15, FormationLeads DEF Sane
<1>17. Whole(D, ledger, manifest, manifest)
  BY <1>6, <1>7, <1>8, <1>9, <1>11, <1>12, <1>13, <1>14, <1>16
     DEF Whole, BeforeFits, Waiting, Unclear
<1>18. Steady /\ Near(manifest)
  BY <1>3, <1>8, <1>17, NearSelf DEF Steady
<1> QED
  BY <1>3, <1>4, <1>9, <1>18, SteadyIsHeld DEF SInv

-----------------------------------------------------------------------------
LEMMA ProposeKeepsSInv ==
  ASSUME SInv, RecoverFirst, CheckpointFirst, NEW text \in Text, ProposeScope(text)
  PROVE  SInv'
<1>1. IInv /\ IInv' /\ Sane(manifest)
  BY ProposeKeepsIInv DEF SInv
<1> PICK p : p = Proposal(manifest.proposal.rev + 1, text)
  OBVIOUS
<1> PICK m : m = Proposed(p)
  OBVIOUS
<1>2. /\ MayStart /\ manifest.status # Waiting /\ snapshot = manifest
      /\ p.rev <= MaxRevision /\ todo' = Record(p, m) /\ goal' = {manifest, m}
      /\ UNCHANGED <<disk, dirty>>
  BY DEF ProposeScope, Begin, bounds
<1>3. /\ ~dirty /\ Steady /\ Bound(manifest, log) /\ manifest \in Loose
  BY <1>2, StartsSteady
<1>4. p \in Decision /\ p.type = "proposal" /\ p.rev = manifest.proposal.rev + 1
  BY <1>2, <1>3, LooseFields, DecisionFields, BoundAssumption
     DEF Proposal, Decision, Revision
<1>5. NextDecision(p, log)
  BY <1>2, <1>3, <1>4 DEF NextDecision, Bound
<1>6. Recoverable(receipts \union {p}, ledger, snapshot, m, manifest) /\ Sane(m)
  BY <1>1, <1>2, <1>3, <1>4, <1>5, ProposedWhole
<1>7. UNCHANGED <<receipts, log, ledger, snapshot, manifest>>
  BY <1>2 DEF disk
<1>8. Steady'
  BY <1>3, <1>7 DEF Steady
<1>9. HeldDecision'
  BY <1>2, <1>3, <1>4, <1>5, <1>6, <1>7, <1>8 DEF HeldDecision
<1> QED
  BY <1>1, <1>2, <1>6, <1>7, <1>9 DEF SInv, Held

LEMMA ConfirmKeepsSInv ==
  ASSUME SInv, RecoverFirst, ConfirmScope
  PROVE  SInv'
<1>1. IInv /\ IInv' /\ Sane(manifest)
  BY ConfirmKeepsIInv DEF SInv
<1> PICK c : c = Confirmation(manifest.proposal, Superseded)
  OBVIOUS
<1> PICK m : m = Confirmed(c)
  OBVIOUS
<1>2. /\ MayStart /\ manifest.status = Waiting
      /\ todo' = Record(c, m) /\ goal' = {manifest, m}
      /\ UNCHANGED <<disk, dirty>>
  BY DEF ConfirmScope, Begin, bounds
<1>3. /\ ~dirty /\ Steady /\ Bound(manifest, log) /\ manifest \in Loose /\ ledger \in Seq(Artifact)
  BY <1>2, StartsSteady
<1>4. c \in Decision
  <2>1. Superseded \subseteq Artifact
    BY <1>3, InList DEF Superseded
  <2>2. manifest.proposal \in Decision
    BY <1>3, LooseFields
  <2> QED
    BY <2>1, <2>2, DecisionFields DEF Confirmation, Decision
<1>5. /\ NextDecision(c, log) /\ Sane(m)
      /\ Recoverable(receipts \union {c}, ledger, snapshot, m, manifest)
  BY <1>1, <1>2, <1>3, <1>4, ConfirmedWhole
<1>6. UNCHANGED <<receipts, log, ledger, snapshot, manifest>>
  BY <1>2 DEF disk
<1>7. Steady'
  BY <1>3, <1>6 DEF Steady
<1>8. HeldDecision'
  BY <1>2, <1>3, <1>4, <1>5, <1>6, <1>7 DEF HeldDecision
<1> QED
  BY <1>1, <1>2, <1>5, <1>6, <1>8 DEF SInv, Held

LEMMA PublishKeepsSInv ==
  ASSUME SInv, RecoverFirst, NEW a \in Artifact, Publish(a)
  PROVE  SInv'
<1>1. IInv /\ IInv' /\ Sane(manifest)
  BY PublishKeepsIInv DEF SInv
<1> PICK m : m = Apply(manifest, a, TRUE)
  OBVIOUS
<1>2. /\ MayStart /\ a.kind \in Allows /\ Ready(a) /\ a \notin manifest.refs
      /\ todo' = IF a \in ToSet(ledger) THEN <<Index(m)>> ELSE <<Put("formal", a), Index(m)>>
      /\ goal' = {manifest, m} /\ UNCHANGED <<disk, dirty>>
  BY DEF Publish, Begin, bounds
<1>3. /\ ~dirty /\ Steady /\ Bound(manifest, log)
  BY <1>2, StartsSteady
<1>4. a \notin ToSet(ledger) /\ Permitted(a)
  BY <1>1, <1>2, <1>3, PublishStarts
<1>5. Recoverable(receipts, Append(ledger, a), snapshot, m, manifest) /\ Sane(m)
  BY <1>1, <1>2, <1>3, PublishedWhole
<1>6. UNCHANGED <<receipts, log, ledger, snapshot, manifest>>
  BY <1>2 DEF disk
<1>7. Steady' /\ Permitted(a)'
  BY <1>3, <1>4, <1>6 DEF Steady, Permitted
<1>8. HeldOther'
  BY <1>2, <1>3, <1>4, <1>5, <1>6, <1>7 DEF HeldOther
<1> QED
  BY <1>1, <1>2, <1>5, <1>6, <1>8 DEF SInv, Held

LEMMA CheckpointKeepsSInv ==
  ASSUME SInv, RecoverFirst, Checkpoint
  PROVE  SInv'
<1>1. IInv /\ IInv' /\ Sane(manifest)
  BY CheckpointKeepsIInv DEF SInv
<1>2. /\ MayStart /\ manifest.status # Waiting
      /\ todo' = <<Put("snapshot", manifest)>> /\ goal' = {manifest, manifest}
      /\ UNCHANGED <<disk, dirty>>
  BY DEF Checkpoint, Begin, bounds
<1>3. /\ ~dirty /\ Steady /\ manifest \in Loose
  BY <1>2, StartsSteady
<1>4. UNCHANGED <<receipts, log, ledger, snapshot, manifest>>
  BY <1>2 DEF disk
<1>5. Steady' /\ Near(manifest)'
  BY <1>2, <1>3, <1>4 DEF Steady, Near, Restores, Loose
<1>6. HeldOther'
  BY <1>2, <1>3, <1>4, <1>5 DEF HeldOther
<1> QED
  BY <1>1, <1>2, <1>4, <1>6 DEF SInv, Held

LEMMA ReconcileKeepsSInv ==
  ASSUME SInv, RecoverFirst, ReconcilePlan
  PROVE  SInv'
<1>1. IInv /\ IInv' /\ Sane(manifest)
  BY ReconcileKeepsIInv DEF SInv
<1>2. /\ ~dirty /\ Steady /\ todo = <<>>
  BY StartsSteady DEF ReconcilePlan
<1>3. /\ Sane(manifest') /\ Whole(receipts, ledger', manifest', manifest')
      /\ snapshot' = manifest' /\ goal' = {manifest, manifest'}
      /\ UNCHANGED <<receipts, log, todo, dirty>>
  BY <1>1, <1>2, ReconciledWhole
<1>4. Steady'
  BY <1>2, <1>3 DEF Steady
<1>5. manifest' \in Loose
  BY <1>1 DEF IInv, OnDisk
<1>6. Near(manifest)'
  <2>1. Restores(manifest', manifest')
    BY <1>5 DEF Restores, Loose
  <2> QED
    BY <1>3, <2>1 DEF Near, Restores
<1>7. Recoverable(receipts', ledger', snapshot', manifest', manifest')
  BY <1>3, WholeIsRecoverable
<1>8. todo' = <<>> /\ Logged'
  BY <1>2, <1>3 DEF Logged, Steady
<1>9. HeldIdle'
  BY <1>4, <1>6, <1>7, <1>8 DEF HeldIdle
<1> QED
  BY <1>1, <1>3, <1>9 DEF SInv, Held

LEMMA LoadKeepsSInv == ASSUME SInv, Load PROVE SInv'
<1>1. IInv /\ IInv' /\ Sane(manifest)
  BY LoadKeepsIInv DEF SInv
<1>2. /\ todo = <<>> /\ log' = Repaired
      /\ UNCHANGED <<receipts, ledger, snapshot, manifest, dirty, goal>>
  BY DEF Load, Idle, bounds
<1>3. PICK m : Recoverable(receipts, ledger, snapshot, m, manifest) /\ Near(m)
  <2>1. CASE HeldIdle
    BY <2>1 DEF HeldIdle
  <2>2. CASE HeldLoad
    BY <1>2, <2>2 DEF HeldLoad
  <2>3. CASE HeldDecision
    BY <1>2, <2>3 DEF HeldDecision, Record
  <2>4. CASE HeldOther
    BY <1>2, <2>4 DEF HeldOther
  <2> QED
    BY <2>1, <2>2, <2>3, <2>4 DEF SInv, Held
<1>4. PICK n : n = WithRefs(m, ToSet(ledger) \ StaleOf(receipts))
  OBVIOUS
<1>5. Recovery = {n} /\ Repaired = receipts
  BY <1>1, <1>3, <1>4, RecoveryIs, ReboundFields
<1>6. todo' = <<Index(n), Put("opened", n)>>
  BY <1>5 DEF Load
<1>7. Whole(receipts, ledger, snapshot, m) /\ Whole(receipts, ledger, snapshot, n)
  BY <1>1, <1>3, <1>4, WholeWithRefs DEF Recoverable, IInv, OnDisk
<1>8. Recoverable(receipts, ledger, snapshot, n, manifest)
  BY <1>3, <1>7 DEF Recoverable
<1>9. PICK g \in goal : Restores(m, g)
  BY <1>3 DEF Near
<1>10. g \in Loose
  BY ValidIsLoose DEF SInv, Sane
<1>11. Restores(n, g)
  BY <1>1, <1>4, <1>7, <1>9, <1>10, NearRefs
<1>12. Near(n)'
  <2>1. Withdrawn' = Withdrawn
    BY <1>1, <1>2, <1>5 DEF Withdrawn, Repaired, IInv, OnDisk
  <2> QED
    BY <1>2, <1>9, <1>11, <2>1 DEF Near, Restores
<1>13. HeldLoad'
  BY <1>2, <1>5, <1>6, <1>8, <1>12 DEF HeldLoad
<1> QED
  BY <1>1, <1>2, <1>13 DEF SInv, Held

\* What a queued write is.
LEMMA WriteOf ==
  ASSUME NEW write, NEW value
  PROVE  /\ Put(write, value).write = write /\ Put(write, value).value = value
         /\ Index(value).write = "manifest" /\ Index(value).value = value
BY DEF Put, Index

LEMMA WriteKeepsSInv == ASSUME SInv, Write PROVE SInv'
<1> DEFINE w == Head(todo)
<1>1. /\ todo # <<>> /\ todo' = Tail(todo) /\ goal' = goal
      /\ receipts' = IF w.write = "receipt" THEN receipts \union {w.value} ELSE receipts
      /\ log' = IF w.write = "line" THEN log \union {w.value} ELSE log
      /\ ledger' = IF w.write = "formal" THEN Append(ledger, w.value) ELSE ledger
      /\ snapshot' = IF w.write = "snapshot" THEN w.value ELSE snapshot
      /\ manifest' = IF w.write = "manifest" THEN w.value ELSE manifest
      /\ dirty' = IF w.write = "opened" THEN FALSE ELSE dirty
  BY DEF Write, Idle
<1>2. /\ IInv /\ IInv' /\ Sane(manifest) /\ \A g \in goal : Sane(g) /\ g \in Loose
  BY WriteKeepsIInv, ValidIsLoose DEF SInv, Sane
<1>3. Repaired = receipts /\ Repaired' = receipts'
  BY <1>2 DEF Repaired, IInv, OnDisk
<1>4. \A m : Near(m) /\ receipts' = receipts => Near(m)'
  BY <1>1, <1>3 DEF Near, Restores, Withdrawn
<1>5. CASE \E m : todo = <<Put("opened", m)>> /\ Steady /\ Near(manifest)
  <2>1. UNCHANGED <<receipts, log, ledger, snapshot, manifest>> /\ todo' = <<>>
    BY <1>1, <1>5 DEF Put
  <2>2. Steady' /\ Near(manifest)'
    BY <1>4, <1>5, <2>1 DEF Steady
  <2>3. Held'
    BY <2>1, <2>2, WholeIsRecoverable DEF Held, HeldIdle, Steady, Logged
  <2> QED
    BY <1>1, <1>2, <2>1, <2>3 DEF SInv
<1>6. CASE \E m : /\ \/ todo = <<Index(m), Put("opened", m)>>
                     \/ todo = <<Index(m)>> /\ ~dirty
                  /\ receipts = log
                  /\ Recoverable(receipts, ledger, snapshot, m, manifest) /\ Near(m)
  <2> PICK m : /\ \/ todo = <<Index(m), Put("opened", m)>>
                  \/ todo = <<Index(m)>> /\ ~dirty
               /\ receipts = log
               /\ Recoverable(receipts, ledger, snapshot, m, manifest) /\ Near(m)
    BY <1>6
  <2>1. /\ UNCHANGED <<receipts, log, ledger, snapshot>> /\ manifest' = m /\ dirty' = dirty
        /\ todo' = <<Put("opened", m)>> \/ todo' = <<>>
    <3>1. CASE todo = <<Index(m), Put("opened", m)>>
      <4>1. w = Index(m) /\ Tail(todo) = <<Put("opened", m)>>
        BY <3>1
      <4> QED
        BY <1>1, <4>1, WriteOf
    <3>2. CASE todo = <<Index(m)>>
      <4>1. w = Index(m) /\ Tail(todo) = <<>>
        BY <3>2
      <4> QED
        BY <1>1, <4>1, WriteOf
    <3> QED
      BY <3>1, <3>2
  <2>2. Steady' /\ Near(manifest)' /\ Sane(manifest')
    BY <1>4, <2>1 DEF Steady, Recoverable, Whole
  <2>3. Held'
    <3>1. CASE todo' = <<>>
      BY <2>2, <3>1, WholeIsRecoverable DEF Held, HeldIdle, Steady, Logged
    <3>2. CASE todo' = <<Put("opened", m)>>
      BY <2>2, <3>2 DEF Held, HeldLoad
    <3> QED
      BY <2>1, <3>1, <3>2
  <2> QED
    BY <1>1, <1>2, <2>2, <2>3 DEF SInv
<1>7. CASE ~dirty /\ \E d \in Decision : \E m \in goal :
             /\ todo = Record(d, m)
             /\ Steady /\ manifest \in goal
             /\ NextDecision(d, log)
             /\ Recoverable(receipts \union {d}, ledger, snapshot, m, manifest)
  <2> PICK d \in Decision : \E m \in goal :
             /\ todo = Record(d, m)
             /\ Steady /\ manifest \in goal
             /\ NextDecision(d, log)
             /\ Recoverable(receipts \union {d}, ledger, snapshot, m, manifest)
    BY <1>7
  <2> PICK m \in goal :
             /\ todo = Record(d, m)
             /\ Steady /\ manifest \in goal
             /\ NextDecision(d, log)
             /\ Recoverable(receipts \union {d}, ledger, snapshot, m, manifest)
    OBVIOUS
  <2>1. /\ UNCHANGED <<log, ledger, snapshot, manifest, dirty>> /\ receipts' = receipts \union {d}
        /\ todo' = <<Put("line", d), Index(m)>>
    <3>1. w = Put("receipt", d) /\ Tail(todo) = <<Put("line", d), Index(m)>>
      BY DEF Record
    <3>2. w.write = "receipt" /\ w.value = d
      BY <3>1, WriteOf
    <3> HIDE DEF w
    <3> QED
      BY <1>1, <3>1, <3>2
  <2>2. HeldDecision'
    <3>1. receipts' = log' \union {d} /\ NextDecision(d, log')
      BY <2>1 DEF Steady
    <3>2. Recoverable(receipts', ledger', snapshot', m, manifest')
      BY <2>1
    <3>3. ~dirty' /\ goal' = goal /\ todo' = <<Put("line", d), Index(m)>>
      <4>1. goal' = goal
        BY <1>1
      <4>2. ~dirty /\ dirty' = dirty
        BY <1>7, <2>1
      <4> QED
        BY ONLY <2>1, <4>1, <4>2
    <3>4. d \in Decision /\ m \in goal'
      BY <3>3
    <3> QED
      BY <3>1, <3>2, <3>3, <3>4 DEF HeldDecision
  <2> QED
    BY <1>1, <1>2, <2>1, <2>2 DEF SInv, Held
<1>8. CASE ~dirty /\ \E d \in Decision : \E m \in goal :
             /\ todo = <<Put("line", d), Index(m)>>
             /\ receipts = log \union {d} /\ NextDecision(d, log)
             /\ Recoverable(receipts, ledger, snapshot, m, manifest)
  <2> PICK d \in Decision : \E m \in goal :
             /\ todo = <<Put("line", d), Index(m)>>
             /\ receipts = log \union {d} /\ NextDecision(d, log)
             /\ Recoverable(receipts, ledger, snapshot, m, manifest)
    BY <1>8
  <2> PICK m \in goal :
             /\ todo = <<Put("line", d), Index(m)>>
             /\ receipts = log \union {d} /\ NextDecision(d, log)
             /\ Recoverable(receipts, ledger, snapshot, m, manifest)
    OBVIOUS
  <2>1. /\ UNCHANGED <<receipts, ledger, snapshot, manifest, dirty>> /\ log' = log \union {d}
        /\ todo' = <<Index(m)>>
    <3>1. w = Put("line", d) /\ Tail(todo) = <<Index(m)>>
      OBVIOUS
    <3>2. w.write = "line" /\ w.value = d
      BY <3>1, WriteOf
    <3> HIDE DEF w
    <3> QED
      BY <1>1, <3>1, <3>2
  <2>2. Near(m)'
    BY <1>2, <1>4, <2>1, NearSelf
  <2>3. HeldLoad'
    BY <1>8, <2>1, <2>2 DEF HeldLoad
  <2> QED
    BY <1>1, <1>2, <2>1, <2>3 DEF SInv, Held
<1>9. CASE ~dirty /\ Steady /\ \E a \in Artifact : \E m \in goal :
             /\ todo = <<Put("formal", a), Index(m)>>
             /\ manifest \in goal /\ Permitted(a)
             /\ Recoverable(receipts, Append(ledger, a), snapshot, m, manifest)
  <2> PICK a \in Artifact : \E m \in goal :
             /\ todo = <<Put("formal", a), Index(m)>>
             /\ manifest \in goal /\ Permitted(a)
             /\ Recoverable(receipts, Append(ledger, a), snapshot, m, manifest)
    BY <1>9
  <2> PICK m \in goal :
             /\ todo = <<Put("formal", a), Index(m)>>
             /\ manifest \in goal /\ Permitted(a)
             /\ Recoverable(receipts, Append(ledger, a), snapshot, m, manifest)
    OBVIOUS
  <2>1. /\ UNCHANGED <<receipts, log, snapshot, manifest, dirty>> /\ ledger' = Append(ledger, a)
        /\ todo' = <<Index(m)>>
    <3>1. w = Put("formal", a) /\ Tail(todo) = <<Index(m)>>
      OBVIOUS
    <3>2. w.write = "formal" /\ w.value = a
      BY <3>1, WriteOf
    <3> HIDE DEF w
    <3> QED
      BY <1>1, <3>1, <3>2
  <2>2. Near(m)'
    BY <1>2, <1>4, <2>1, NearSelf
  <2>3. HeldLoad'
    BY <1>9, <2>1, <2>2 DEF HeldLoad, Steady
  <2> QED
    BY <1>1, <1>2, <2>1, <2>3 DEF SInv, Held
<1>10. CASE ~dirty /\ Steady /\ todo = <<Put("snapshot", manifest)>> /\ Near(manifest)
             /\ manifest.status # Waiting
  <2>1. /\ UNCHANGED <<receipts, log, ledger, manifest>> /\ snapshot' = manifest
        /\ todo' = <<>>
    BY <1>1, <1>10 DEF Put
  <2>2. Whole(receipts, ledger, manifest, manifest)
    BY <1>2, <1>10, CheckpointServes DEF Steady, IInv, OnDisk
  <2>3. Steady' /\ Near(manifest)'
    BY <1>4, <1>10, <2>1, <2>2 DEF Steady
  <2>4. Held'
    BY <2>1, <2>3, WholeIsRecoverable DEF Held, HeldIdle, Steady, Logged
  <2> QED
    BY <1>1, <1>2, <2>1, <2>4 DEF SInv
<1> QED
  <2>1. CASE HeldIdle
    BY <1>1, <2>1 DEF HeldIdle
  <2>2. CASE HeldLoad
    BY <1>5, <1>6, <2>2 DEF HeldLoad
  <2>3. CASE HeldDecision
    BY <1>7, <1>8, <2>3 DEF HeldDecision
  <2>4. CASE HeldOther
    BY <1>9, <1>10, <2>4 DEF HeldOther
  <2> QED
    BY <2>1, <2>2, <2>3, <2>4 DEF SInv, Held

\* Wherever a call dies, load-run finds a Manifest near what it left or found.
LEMMA CrashKeepsSInv == ASSUME SInv, Crash PROVE SInv'
<1>1. IInv /\ IInv' /\ Sane(manifest) /\ \A g \in goal : Sane(g) /\ g \in Loose
  BY CrashKeepsIInv, ValidIsLoose DEF SInv, Sane
<1>2. /\ todo # <<>> /\ todo' = <<>> /\ dirty' = TRUE
      /\ UNCHANGED <<receipts, log, ledger, snapshot, manifest, goal>>
  BY DEF Crash, Idle, disk
<1>3. \A m : Near(m) => Near(m)'
  BY <1>2 DEF Near, Restores, Withdrawn, Repaired
<1>4. Logged /\ \E m : Recoverable(receipts, ledger, snapshot, m, manifest) /\ Near(m)
  <2>1. CASE Steady /\ Near(manifest)
    BY <2>1, WholeIsRecoverable DEF Steady, Logged
  <2>2. CASE Steady /\ manifest \in goal
    BY <1>1, <2>1, <2>2, NearSelf
  <2>3. CASE HeldLoad
    BY <2>1, <2>3 DEF HeldLoad, Logged
  <2>4. CASE HeldDecision
    <3> PICK d \in Decision, m \in goal :
          \/ Steady /\ manifest \in goal
          \/ /\ receipts = log \union {d} /\ NextDecision(d, log)
             /\ Recoverable(receipts, ledger, snapshot, m, manifest)
      BY <2>4 DEF HeldDecision
    <3>1. Near(m)
      BY <1>1, NearSelf
    <3> QED
      BY <2>2, <3>1 DEF Logged
  <2>5. CASE HeldOther
    BY <2>1, <2>2, <2>5 DEF HeldOther
  <2>6. ~HeldIdle
    BY <1>2 DEF HeldIdle
  <2> QED
    BY <2>3, <2>4, <2>5, <2>6 DEF SInv, Held
<1>5. HeldIdle'
  BY <1>2, <1>3, <1>4 DEF HeldIdle, Logged
<1> QED
  BY <1>1, <1>2, <1>5 DEF SInv, Held

LEMMA StutterKeepsSInv == ASSUME SInv, UNCHANGED vars PROVE SInv'
<1>1. UNCHANGED <<receipts, log, ledger, snapshot, manifest, todo, dirty, goal>>
  BY DEF vars, disk, bounds
<1>2. IInv'
  BY StutterKeepsIInv DEF SInv
<1>3. (Steady <=> Steady') /\ (Logged <=> Logged') /\ \A m : Near(m) <=> Near(m)'
  BY <1>1 DEF Steady, Logged, Near, Restores, Withdrawn, Repaired
<1>4. HeldIdle => HeldIdle'
  BY <1>1, <1>3 DEF HeldIdle
<1>5. HeldLoad => HeldLoad'
  BY <1>1, <1>3 DEF HeldLoad
<1>6. HeldDecision => HeldDecision'
  BY <1>1, <1>3 DEF HeldDecision
<1>7. HeldOther => HeldOther'
  BY <1>1, <1>3 DEF HeldOther, Permitted
<1> QED
  BY <1>1, <1>2, <1>4, <1>5, <1>6, <1>7 DEF SInv, Held

LEMMA NextKeepsSInv ==
  ASSUME RecoverFirst, CheckpointFirst
  PROVE  SInv /\ [Next]_vars => SInv'
<1> SUFFICES ASSUME SInv, [Next]_vars PROVE SInv'
  OBVIOUS
<1> QED
  BY ProposeKeepsSInv, ConfirmKeepsSInv, PublishKeepsSInv, CheckpointKeepsSInv,
     ReconcileKeepsSInv, LoadKeepsSInv, WriteKeepsSInv, CrashKeepsSInv, StutterKeepsSInv
     DEF Next

LEMMA SteadyInductive == ASSUME RecoverFirst, CheckpointFirst PROVE Spec => []SInv
<1>1. SInv /\ [Next]_vars => SInv'
  BY NextKeepsSInv
<1> QED
  BY <1>1, InitSInv, PTL DEF Spec

-----------------------------------------------------------------------------
LEMMA IdleIsHeld == ASSUME SInv, Idle PROVE HeldIdle
<1>1. todo = <<>>
  BY DEF Idle
<1>2. ~HeldLoad
  BY <1>1 DEF HeldLoad
<1>3. ~HeldDecision
  BY <1>1 DEF HeldDecision, Record
<1>4. ~HeldOther
  BY <1>1 DEF HeldOther
<1> QED
  BY <1>2, <1>3, <1>4 DEF SInv, Held

LEMMA SInvAccepts == SInv => LoadAccepts
<1> SUFFICES ASSUME SInv, Idle PROVE Recovery # {}
  BY DEF LoadAccepts
<1>1. PICK m : Recoverable(receipts, ledger, snapshot, m, manifest)
  BY IdleIsHeld DEF HeldIdle
<1> QED
  BY <1>1, RecoveryIs DEF SInv

LEMMA SInvRestores == SInv => LoadRestores
<1> SUFFICES ASSUME SInv, Idle, NEW n \in Recovery
             PROVE  \E g \in IF dirty THEN goal ELSE {manifest} : Restores(n, g)
  BY DEF LoadRestores
<1>1. IInv /\ manifest \in Loose /\ \A g \in goal : g \in Loose
  BY ValidIsLoose DEF SInv, Sane
<1>2. CASE dirty
  <2>1. PICK m : Recoverable(receipts, ledger, snapshot, m, manifest) /\ Near(m)
    BY IdleIsHeld DEF HeldIdle
  <2>2. n = WithRefs(m, ToSet(ledger) \ StaleOf(receipts))
    BY <1>1, <2>1, RecoveryIs
  <2>3. PICK g \in goal : Restores(m, g)
    BY <2>1 DEF Near
  <2>4. Restores(n, g)
    BY <1>1, <2>1, <2>2, <2>3, NearRefs DEF Recoverable
  <2> QED
    BY <1>2, <2>4
<1>3. CASE ~dirty
  <2>1. Whole(receipts, ledger, snapshot, manifest)
    BY <1>3, IdleIsHeld DEF HeldIdle, Steady
  <2>2. n = WithRefs(manifest, ToSet(ledger) \ StaleOf(receipts))
    BY <1>1, <2>1, RecoveryIs, WholeIsRecoverable
  <2>3. Restores(manifest, manifest)
    BY <1>1 DEF Restores, Loose
  <2>4. Restores(n, manifest)
    BY <1>1, <2>1, <2>2, <2>3, NearRefs
  <2> QED
    BY <1>3, <2>4
<1> QED
  BY <1>2, <1>3

\* load-run accepts every Run whose callers run it after an interruption and
\* checkpoint before they correct a Scope, wherever each call died and however
\* many corrections followed (run-store.ts L10561-10576).
THEOREM LoadRunAccepts == ASSUME RecoverFirst, CheckpointFirst PROVE Spec => []LoadAccepts
<1>1. Spec => []SInv
  BY SteadyInductive
<1> QED
  BY <1>1, SInvAccepts, PTL

\* load-run gives an interrupted call its whole effect or none, and leaves any other
\* Run as it is, but for formation superseded before the latest correction.
THEOREM LoadRunRestores == ASSUME RecoverFirst, CheckpointFirst PROVE Spec => []LoadRestores
<1>1. Spec => []SInv
  BY SteadyInductive
<1> QED
  BY <1>1, SInvRestores, PTL

\* No Manifest says research while its Plan was made for another Scope than the one
\* it is bound to, through corrections, interruptions and load-run (operations.md L64).
THEOREM ResearchIsReconciled ==
  ASSUME RecoverFirst, CheckpointFirst
  PROVE  Spec => []NoUnreconciledResearch
<1>1. Spec => []SInv
  BY SteadyInductive
<1>2. SInv => NoUnreconciledResearch
  BY DEF SInv, Sane, NoUnreconciledResearch
<1> QED
  BY <1>1, <1>2, PTL

\* What a call has still to write is of a known kind.
LEMMA QueuedWrites ==
  ASSUME Queued, NEW w \in ToSet(todo)
  PROVE  w.write \in {"receipt", "line", "formal", "snapshot", "manifest", "opened"}
<1>1. PICK k \in DOMAIN todo : w = todo[k]
  BY DEF ToSet
<1>2. CASE todo = <<>> \/ \E m : todo = <<Put("opened", m)>> \/ todo = <<Put("snapshot", m)>>
                                 \/ todo = <<Index(m)>>
  BY <1>1, <1>2 DEF Put, Index
<1>3. CASE \E m : todo = <<Index(m), Put("opened", m)>>
  BY <1>1, <1>3 DEF Put, Index
<1>4. CASE \E d, m : todo = <<Put("line", d), Index(m)>> \/ todo = <<Put("formal", d), Index(m)>>
  BY <1>1, <1>4 DEF Put, Index
<1>5. CASE \E d, m : todo = Record(d, m)
  BY <1>1, <1>5 DEF Record, Put, Index
<1> QED
  BY <1>2, <1>3, <1>4, <1>5 DEF Queued

Counted == dirty \in BOOLEAN /\ crashes \in 0 .. MaxCrash

LEMMA CountedAlways == Spec => []Counted
<1>1. Init => Counted
  <2>1. 0 \in 0 .. MaxCrash
    BY BoundAssumption
  <2>2. Init => dirty = FALSE /\ crashes = 0
    BY DEF Init
  <2> QED
    BY <2>1, <2>2 DEF Counted
<1>2. Counted /\ [Next]_vars => Counted'
  <2> SUFFICES ASSUME Counted, [Next]_vars PROVE Counted'
    OBVIOUS
  <2>1. MaxCrash \in Nat
    BY BoundAssumption
  <2>2. CASE Crash
    BY <2>1, <2>2 DEF Counted, Crash
  <2>3. CASE Write
    BY <2>3 DEF Counted, Write
  <2>4. CASE UNCHANGED <<dirty, crashes>>
    BY <2>4 DEF Counted
  <2>5. Crash \/ Write \/ UNCHANGED <<dirty, crashes>>
    BY DEF Next, ProposeScope, ConfirmScope, Publish, Begin, Checkpoint,
       ReconcilePlan, Load, bounds, vars
  <2> QED
    BY <2>2, <2>3, <2>4, <2>5
<1> QED
  BY <1>1, <1>2, PTL DEF Spec

\* Every Manifest on disk and every one a call writes is valid against its schema.
THEOREM TypeCorrect == ASSUME RecoverFirst, CheckpointFirst PROVE Spec => []TypeOK
<1>1. Spec => []SInv /\ []Counted
  BY SteadyInductive, CountedAlways
<1>2. SInv /\ Counted => TypeOK
  <2> SUFFICES ASSUME SInv, Counted PROVE TypeOK
    OBVIOUS
  <2>1. Sane(snapshot)
    <3>1. (\E D, L, m : Whole(D, L, snapshot, m))
      BY DEF SInv, Held, HeldIdle, HeldLoad, HeldDecision, HeldOther, Steady, Recoverable
    <3> QED
      BY <3>1 DEF Whole, Fits
  <2>2. \A m \in {manifest, snapshot} \union goal : Valid(m)
    BY <2>1 DEF SInv, Sane
  <2> QED
    BY <2>2, QueuedWrites DEF SInv, IInv, OnDisk, Counted, TypeOK
<1> QED
  BY <1>1, <1>2, PTL

-----------------------------------------------------------------------------
LEMMA MaxIs ==
  ASSUME NEW n \in Nat, NEW U, U \subseteq 0 .. n, NEW x \in U, \A k \in U : k <= x
  PROVE  Max(U) = x
<1>1. Max(U) \in U /\ \A k \in U : k <= Max(U)
  BY MaxOfInterval
<1>2. PICK y : y = Max(U)
  OBVIOUS
<1>3. y \in U /\ \A k \in U : k <= y
  BY <1>1, <1>2
<1>4. y <= x /\ x <= y
  BY <1>3
<1>5. y \in 0 .. n /\ x \in 0 .. n
  BY <1>3
<1>6. y \in Nat /\ x \in Nat
  BY <1>5
<1>7. y = x
  BY <1>4, <1>6
<1> QED
  BY <1>2, <1>7

\* The latest revision proposed and the latest one confirmed.
LEMMA GateOfHistory ==
  ASSUME NEW D, D \subseteq Decision, IsFiniteSet(D), HistoryValid(D), Proposals(D) # {}
  PROVE  LET rev == LatestProposal(D).rev IN
         /\ rev \in Nat \ {0}
         /\ Max({d.rev : d \in Proposals(D)}) = rev
         /\ Max({0} \union {d.rev : d \in Confirmations(D)})
              = IF LatestConfirmation(D) = None THEN rev - 1 ELSE rev
<1> PICK rev : rev = LatestProposal(D).rev
  OBVIOUS
<1> PICK U : U = {d.rev : d \in Proposals(D)}
  OBVIOUS
<1> PICK V : V = {0} \union {d.rev : d \in Confirmations(D)}
  OBVIOUS
<1>1. /\ \A d \in D : d.rev \in 1 .. MaxRevision
      /\ Proposals(D) \subseteq D /\ Confirmations(D) \subseteq D /\ MaxRevision \in Nat
  BY DecisionFields, BoundAssumption DEF Proposals, Confirmations, Revision
<1>2. /\ LatestProposal(D) \in Proposals(D)
      /\ \A p \in Proposals(D) : p.rev <= rev
      /\ LatestConfirmation(D) # None =>
           LatestConfirmation(D) \in Confirmations(D) /\ LatestConfirmation(D).rev = rev
      /\ \A c \in Confirmations(D) : c.rev = rev => c = LatestConfirmation(D)
  BY LatestOfHistory
<1>3. rev = Cardinality(Proposals(D)) /\ rev \in Nat \ {0}
  BY LatestRev
<1>4. Max(U) = rev
  <2>1. U \subseteq 0 .. MaxRevision /\ rev \in U
    BY <1>1, <1>2
  <2>2. \A k \in U : k <= rev
    BY <1>2
  <2> QED
    BY <1>1, <2>1, <2>2, MaxIs
<1>5. V \subseteq 0 .. MaxRevision
  BY <1>1
<1>6. \A c \in Confirmations(D) : c.rev <= rev /\ c.rev \in Nat
  <2> SUFFICES ASSUME NEW c \in Confirmations(D) PROVE c.rev <= rev /\ c.rev \in Nat
    OBVIOUS
  <2>1. PICK p \in Proposals(D) : c.rev = p.rev
    BY DEF HistoryValid
  <2> QED
    BY <1>1, <1>2, <2>1
<1>7. CASE LatestConfirmation(D) # None
  <2>1. rev \in V /\ \A k \in V : k <= rev
    BY <1>2, <1>3, <1>6, <1>7
  <2>2. Max(V) = rev
    BY <1>1, <1>5, <2>1, MaxIs
  <2> QED
    BY <1>3, <1>4, <1>7, <2>2
<1>8. CASE LatestConfirmation(D) = None
  <2>1. \A c \in Confirmations(D) : c.rev # rev
    BY <1>1, <1>2, <1>8, NoneAssumption
  <2>2. \A k \in V : k <= rev - 1
    BY <1>3, <1>6, <2>1
  <2>3. rev - 1 \in V
    <3>1. CASE rev = 1
      BY <3>1
    <3>2. CASE rev > 1
      <4>1. rev - 1 \in 1 .. Cardinality(Proposals(D))
        BY <1>3, <3>2
      <4>2. rev - 1 \in {d.rev : d \in Proposals(D)}
        BY <4>1 DEF HistoryValid
      <4>3. PICK p \in Proposals(D) : p.rev = rev - 1
        BY <4>2
      <4>4. PICK c \in Confirmations(D) : c.rev = p.rev
        BY <1>3, <4>3 DEF HistoryValid
      <4> QED
        BY <4>3, <4>4
    <3> QED
      BY <1>3, <3>1, <3>2
  <2>4. Max(V) = rev - 1
    BY <1>1, <1>5, <2>2, <2>3, MaxIs
  <2> QED
    BY <1>3, <1>4, <1>8, <2>4
<1> QED
  BY <1>7, <1>8

LEMMA LogIsValid ==
  ASSUME SInv
  PROVE  /\ HistoryValid(log) /\ log \subseteq Decision /\ IsFiniteSet(log)
         /\ Proposals(log) # {}
<1>1. log \subseteq Decision /\ IsFiniteSet(log) /\ Proposals(log) # {}
  BY FS_Subset DEF SInv, IInv, OnDisk, Backed
<1>2. Logged \/ \E d : NextDecision(d, log)
  BY DEF SInv, Held, HeldIdle, HeldLoad, HeldDecision, HeldOther, Steady, Logged
<1>3. (\E L, S, m : Whole(receipts, L, S, m)) \/ \E d : NextDecision(d, log)
  BY DEF SInv, Held, HeldIdle, HeldLoad, HeldDecision, HeldOther, Steady, Recoverable
<1>4. HistoryValid(log)
  BY <1>2, <1>3 DEF Logged, NextDecision, Whole
<1> QED
  BY <1>1, <1>4

\* The decisions durable in the log grow by the next one at a time, ...
LEMMA LogSteps ==
  ASSUME RecoverFirst, CheckpointFirst, SInv, [Next]_vars
  PROVE  \/ log' = log
         \/ /\ ledger' = ledger
            /\ \E d \in Decision : log' = log \union {d} /\ NextDecision(d, log)
<1>1. CASE Write
  <2> SUFFICES ASSUME log' # log
               PROVE  /\ ledger' = ledger
                      /\ \E d \in Decision : log' = log \union {d} /\ NextDecision(d, log)
    OBVIOUS
  <2>1. /\ todo # <<>> /\ Head(todo).write = "line" /\ log' = log \union {Head(todo).value}
        /\ ledger' = ledger
    BY <1>1 DEF Write, Idle
  <2>2. ~HeldIdle /\ ~HeldLoad /\ ~HeldOther
    BY <2>1 DEF HeldIdle, HeldLoad, HeldOther, Put, Index
  <2>3. PICK d \in Decision, m \in goal :
           \/ todo = Record(d, m)
           \/ todo = <<Put("line", d), Index(m)>> /\ NextDecision(d, log)
    BY <2>2 DEF SInv, Held, HeldDecision
  <2>4. todo = <<Put("line", d), Index(m)>> /\ NextDecision(d, log)
    BY <2>1, <2>3 DEF Record, Put
  <2> QED
    BY <2>1, <2>4 DEF Put
<1>2. CASE Load
  <2>1. HeldIdle /\ log' = Repaired /\ ledger' = ledger
    BY <1>2, IdleIsHeld DEF Load
  <2>2. Repaired = receipts /\ receipts \subseteq Decision
    BY DEF SInv, IInv, OnDisk, Repaired
  <2> QED
    BY <2>1, <2>2 DEF HeldIdle, Logged
<1>3. CASE ~Write /\ ~Load
  BY <1>3 DEF Next, ProposeScope, ConfirmScope, Publish, Checkpoint, ReconcilePlan, Crash,
     Begin, disk, vars
<1> QED
  BY <1>1, <1>2, <1>3

\* ... and so do the Artifacts published under them.
LEMMA LedgerSteps ==
  ASSUME RecoverFirst, CheckpointFirst, SInv, [Next]_vars, log' = log
  PROVE  \/ ledger' = ledger
         \/ /\ LatestConfirmation(log) # None
            /\ \E a \in Artifact :
                 /\ ledger' = Append(ledger, a)
                 /\ a.kind \in {"plan", "revision"} => a.scope = LatestProposal(log).rev
                 /\ a.kind = "dispatch" =>
                      /\ a.scope = LatestProposal(log).rev
                      /\ PlanOf(ledger) = LatestProposal(log).rev
<1>1. CASE Write
  <2> SUFFICES ASSUME ledger' # ledger
               PROVE  /\ LatestConfirmation(log) # None
                      /\ \E a \in Artifact :
                           /\ ledger' = Append(ledger, a)
                           /\ a.kind \in {"plan", "revision"} => a.scope = LatestProposal(log).rev
                           /\ a.kind = "dispatch" =>
                                /\ a.scope = LatestProposal(log).rev
                                /\ PlanOf(ledger) = LatestProposal(log).rev
    OBVIOUS
  <2>1. /\ todo # <<>> /\ Head(todo).write = "formal" /\ ledger' = Append(ledger, Head(todo).value)
    BY <1>1 DEF Write, Idle
  <2>2. ~HeldIdle /\ ~HeldLoad /\ ~HeldDecision
    <3>1. \A m, n : Head(<<Put("opened", m)>>) = Put("opened", m)
                   /\ Head(<<Index(m), n>>) = Index(m) /\ Head(<<Index(m)>>) = Index(m)
                   /\ Head(<<Put("line", m), n>>) = Put("line", m)
                   /\ Head(Record(m, n)) = Put("receipt", m)
      BY DEF Record
    <3>2. ~HeldIdle
      BY <2>1 DEF HeldIdle
    <3>3. ~HeldLoad
      BY <2>1, <3>1, WriteOf DEF HeldLoad
    <3>4. ~HeldDecision
      <4> SUFFICES ASSUME HeldDecision PROVE FALSE
        OBVIOUS
      <4>1. PICK d, m : todo = Record(d, m) \/ todo = <<Put("line", d), Index(m)>>
        BY DEF HeldDecision
      <4>2. Head(todo) = Put("receipt", d) \/ Head(todo) = Put("line", d)
        BY <3>1, <4>1
      <4>3. Head(todo).write # "formal"
        BY <4>2, WriteOf
      <4> QED
        BY <2>1, <4>3
    <3> QED
      BY <3>2, <3>3, <3>4
  <2>3. todo # <<Put("snapshot", manifest)>>
    <3> SUFFICES ASSUME todo = <<Put("snapshot", manifest)>> PROVE FALSE
      OBVIOUS
    <3>1. Head(todo) = Put("snapshot", manifest)
      OBVIOUS
    <3>2. Head(todo).write = "snapshot"
      BY <3>1, WriteOf
    <3> QED
      BY <2>1, <3>2
  <2>4. PICK a \in Artifact, m \in goal :
           todo = <<Put("formal", a), Index(m)>> /\ Permitted(a) /\ Steady
    <3>1. HeldOther
      BY <2>2 DEF SInv, Held
    <3> QED
      BY <2>3, <3>1 DEF HeldOther
  <2>5. /\ manifest.proposal = LatestProposal(log) /\ manifest.confirmation = LatestConfirmation(log)
        /\ PlanOf(ledger) = IF manifest.plan = None THEN 0 ELSE manifest.plan.scope
        /\ Sane(manifest) /\ manifest.status # Waiting
    BY <2>4 DEF Steady, Whole, Permitted
  <2>6. LatestConfirmation(log) # None
    BY <2>5 DEF Sane, Valid
  <2>7. ledger' = Append(ledger, a)
    BY <2>1, <2>4 DEF Put
  <2> QED
    BY <2>4, <2>5, <2>6, <2>7 DEF Permitted, Sane
<1>2. CASE ReconcilePlan
  <2>1. /\ Steady /\ manifest \in Loose /\ Bound(manifest, log)
    BY <1>2, StartsSteady DEF ReconcilePlan
  <2>2. PICK r : r = Make("revision", manifest.proposal.rev)
    OBVIOUS
  <2>3. ledger' = Append(ledger, r) /\ r.kind = "revision" /\ r.scope = manifest.proposal.rev
    BY <1>2, <2>2 DEF ReconcilePlan, Make
  <2>4. r \in Artifact
    BY <2>1, <2>2, LooseFields, DecisionFields DEF Make, Artifact, Kind
  <2>5. LatestConfirmation(log) # None
    BY <1>2, <2>1 DEF ReconcilePlan, Bound, Waiting, Unclear
  <2> QED
    BY <2>1, <2>3, <2>4, <2>5 DEF Bound
<1>3. CASE ~Write /\ ~ReconcilePlan
  BY <1>3, OtherStepsKeep
<1> QED
  BY <1>1, <1>2, <1>3

LEMMA LatestPlanIs == LatestPlan = PlanOf(ledger)
BY DEF LatestPlan, PlanAt, PlanOf, PlanIn

\* What is durable keeps the promise of the gate: research under a confirmed and
\* reconciled Scope, one revision open at a time, wherever calls die (operations.md L64).
THEOREM KeepsGate == ASSUME RecoverFirst, CheckpointFirst PROVE Spec => ImplementsGate
<1> DEFINE proposed == Max({d.rev : d \in Proposals(log)})
           confirmed == Max({0} \union {d.rev : d \in Confirmations(log)})
           researched == {a.scope : a \in {b \in ToSet(ledger) : b.kind = "dispatch"}}
<1>1. ASSUME Init PROVE Gate!Init
  <2>1. SInv /\ HistoryValid(log) /\ log \subseteq Decision /\ IsFiniteSet(log)
        /\ Proposals(log) # {}
    BY <1>1, InitSInv, LogIsValid
  <2>2. PICK p : log = {p} /\ p.type = "proposal" /\ p.rev = 1
    <3>1. PICK text \in Text : log = {Proposal(1, text)}
      BY <1>1 DEF Init
    <3>2. Proposal(1, text).type = "proposal" /\ Proposal(1, text).rev = 1
      BY DEF Proposal
    <3> QED
      BY <3>1, <3>2
  <2>3. Proposals(log) = {p} /\ Confirmations(log) = {}
    BY <2>2 DEF Proposals, Confirmations
  <2>4. LatestProposal(log) = p /\ LatestConfirmation(log) = None
    BY <2>1, <2>3, LatestTypes
  <2>5. /\ proposed = LatestProposal(log).rev
        /\ confirmed = IF LatestConfirmation(log) = None THEN LatestProposal(log).rev - 1
                       ELSE LatestProposal(log).rev
    BY <2>1, GateOfHistory
  <2>6. ledger = <<>> /\ ToSet(ledger) = {}
    BY <1>1 DEF Init, ToSet
  <2>7. LatestPlan = 0 /\ researched = {}
    BY <2>6 DEF LatestPlan, PlanAt
  <2>8. LatestProposal(log).rev = 1
    BY <2>2, <2>4
  <2>9. 1 - 1 = 0
    OBVIOUS
  <2> HIDE DEF proposed, confirmed, researched
  <2>10. proposed = 1 /\ confirmed = 0
    BY <2>4, <2>5, <2>8, <2>9
  <2> QED
    BY <2>7, <2>10 DEF Gate!Init, proposed, confirmed, researched
<1>2. ASSUME SInv, SInv', [Next]_vars PROVE [Gate!Next]_Gate!vars
  <2> PICK rev : rev = LatestProposal(log).rev
    OBVIOUS
  <2>1. /\ HistoryValid(log) /\ log \subseteq Decision /\ IsFiniteSet(log) /\ Proposals(log) # {}
        /\ ledger \in Seq(Artifact)
    BY <1>2, LogIsValid DEF SInv, IInv, OnDisk
  <2>2. /\ rev \in Nat \ {0} /\ proposed = rev
        /\ confirmed = IF LatestConfirmation(log) = None THEN rev - 1 ELSE rev
    BY <2>1, GateOfHistory
  <2>3. CASE log' = log /\ ledger' = ledger
    <3>1. proposed' = proposed /\ confirmed' = confirmed /\ LatestPlan' = LatestPlan
          /\ researched' = researched
      BY <2>3 DEF LatestPlan, PlanAt, Proposals, Confirmations
    <3> QED
      BY <3>1 DEF Gate!vars
  <2>4. CASE ledger' = ledger /\ \E d \in Decision : log' = log \union {d} /\ NextDecision(d, log)
    <3> PICK d \in Decision : log' = log \union {d} /\ NextDecision(d, log)
      BY <2>4
    <3> PICK E : E = log \union {d}
      OBVIOUS
    <3>1. LatestPlan' = LatestPlan /\ researched' = researched
      BY <2>4 DEF LatestPlan, PlanAt
    <3>2. /\ HistoryValid(E) /\ E \subseteq Decision /\ IsFiniteSet(E) /\ Proposals(E) # {}
          /\ LatestProposal(E) = IF d.type = "proposal" THEN d ELSE LatestProposal(log)
          /\ LatestConfirmation(E) = IF d.type = "proposal" THEN None ELSE d
      BY <2>1, HistoryGrows
    <3>3. /\ proposed' = LatestProposal(E).rev
          /\ confirmed' = IF LatestConfirmation(E) = None THEN LatestProposal(E).rev - 1
                          ELSE LatestProposal(E).rev
      <4>1. /\ Max({e.rev : e \in Proposals(E)}) = LatestProposal(E).rev
            /\ Max({0} \union {e.rev : e \in Confirmations(E)})
                 = IF LatestConfirmation(E) = None THEN LatestProposal(E).rev - 1
                   ELSE LatestProposal(E).rev
        BY <3>2, GateOfHistory
      <4>2. log' = E
        OBVIOUS
      <4>3. Proposals(log)' = Proposals(E) /\ Confirmations(log)' = Confirmations(E)
        BY <4>2 DEF Proposals, Confirmations
      <4> QED
        BY <4>1, <4>3
    <3>4. CASE d.type = "proposal"
      <4>1. LatestConfirmation(log) # None /\ d.rev = rev + 1
        BY <3>4 DEF NextDecision
      <4>2. proposed' = proposed + 1 /\ confirmed' = confirmed /\ confirmed = proposed
        BY <2>2, <3>2, <3>3, <3>4, <4>1
      <4> HIDE DEF proposed, confirmed, researched
      <4> QED
        BY <3>1, <4>2 DEF Gate!Next, Gate!Propose, Gate!Settled, proposed, confirmed, researched
    <3>5. CASE d.type # "proposal"
      <4>1. LatestConfirmation(log) = None /\ d # None
        BY <3>5, NoneAssumption DEF NextDecision
      <4>2. proposed' = proposed /\ confirmed' = proposed /\ confirmed # proposed
        BY <2>2, <3>2, <3>3, <3>5, <4>1
      <4> HIDE DEF proposed, confirmed, researched
      <4> QED
        BY <3>1, <4>2 DEF Gate!Next, Gate!Confirm, Gate!Settled, proposed, confirmed, researched
    <3> QED
      BY <3>4, <3>5
  <2>5. CASE /\ log' = log /\ LatestConfirmation(log) # None
             /\ \E a \in Artifact :
                  /\ ledger' = Append(ledger, a)
                  /\ a.kind \in {"plan", "revision"} => a.scope = rev
                  /\ a.kind = "dispatch" => a.scope = rev /\ PlanOf(ledger) = rev
    <3> PICK a \in Artifact :
          /\ ledger' = Append(ledger, a)
          /\ a.kind \in {"plan", "revision"} => a.scope = rev
          /\ a.kind = "dispatch" => a.scope = rev /\ PlanOf(ledger) = rev
      BY <2>5
    <3>1. proposed' = proposed /\ confirmed' = confirmed /\ confirmed = rev /\ proposed = rev
      BY <2>2, <2>5 DEF Proposals, Confirmations
    <3>2. /\ LatestPlan = PlanOf(ledger)
          /\ LatestPlan' = IF a.kind \in {"plan", "revision"} THEN rev ELSE LatestPlan
      <4>1. PlanOf(Append(ledger, a)) = IF a.kind \in {"plan", "revision"} THEN a.scope ELSE PlanOf(ledger)
        BY <2>1, PlanOfGrows
      <4>2. LatestPlan' = PlanOf(Append(ledger, a))
        BY DEF LatestPlan, PlanAt, PlanOf, PlanIn
      <4> QED
        BY <4>1, <4>2, LatestPlanIs
    <3>3. researched' = researched \union (IF a.kind = "dispatch" THEN {a.scope} ELSE {})
      <4>1. ToSet(ledger)' = ToSet(ledger) \union {a}
        BY <2>1, ListGrows DEF ToSet
      <4> QED
        BY <4>1
    <3> HIDE DEF proposed, confirmed, researched
    <3>4. CASE a.kind \in {"plan", "revision"}
      <4>1. LatestPlan' = confirmed /\ researched' = researched
        BY <3>1, <3>2, <3>3, <3>4
      <4> QED
        BY <3>1, <4>1 DEF Gate!Next, Gate!Plan, Gate!Settled, proposed, confirmed, researched
    <3>5. CASE a.kind = "dispatch"
      <4>1. LatestPlan' = LatestPlan /\ LatestPlan = confirmed
            /\ researched' = researched \union {confirmed}
        BY <3>1, <3>2, <3>3, <3>5
      <4> QED
        BY <3>1, <4>1 DEF Gate!Next, Gate!Research, Gate!Settled, proposed, confirmed, researched
    <3>6. CASE a.kind \notin {"plan", "revision", "dispatch"}
      <4>1. LatestPlan' = LatestPlan /\ researched' = researched
        BY <3>2, <3>3, <3>6
      <4> QED
        BY <3>1, <4>1 DEF Gate!vars, proposed, confirmed, researched
    <3> QED
      BY <3>4, <3>5, <3>6
  <2> QED
    BY <1>2, <2>3, <2>4, <2>5, LogSteps, LedgerSteps
<1>3. Spec => []SInv
  BY SteadyInductive
<1> QED
  BY <1>1, <1>2, <1>3, PTL DEF Spec, ImplementsGate, Gate!Spec
=============================================================================
