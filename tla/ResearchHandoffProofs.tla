------------------------ MODULE ResearchHandoffProofs ------------------------
(***************************************************************************)
(* Theorems about ResearchHandoff, in four layers: what a call has done    *)
(* when it has come to a step; what is whole, and what load-run has left   *)
(* to do; and, for callers that run load-run after an interrupted call,    *)
(* which intents can still be begun, and, until the Scope is corrected a   *)
(* second time, what the Manifest and a rebuilt one would agree on.        *)
(***************************************************************************)
EXTENDS ResearchHandoff, TLAPS

Capture == {"import", "check", "publish", "link", "index"}

StepsOf(op) ==
  CASE op = "create" -> Capture
    [] op = "repeat" -> Capture \ {"check"}
    [] op = "load" -> {"evidence", "artifacts", "handoffs", "import", "publish", "link", "manifest"}
    [] op = "read" -> {"append"}
    [] op = "scope" -> {"decided"}
    [] op \in {"idle", "refused"} -> {"idle"}

Op == {"create", "repeat", "load", "read", "scope", "idle", "refused"}
Call == [op : Op, of : Handoff \union {None}, at : UNION {StepsOf(op) : op \in Op},
         todo : SUBSET Handoff]

\* What the call in progress has done so far.
CallOK ==
  /\ call \in Call /\ call.at \in StepsOf(call.op)
  /\ call.op = "idle" => call = Idle
  /\ call.at \in Capture => call.of \in Handoff /\ intents[call.of] # None
  /\ call.at \in Capture \ {"import"} => Imported(call.of)
  /\ call.at \in {"import", "check", "publish"} => artifact[call.of] # "published"
  /\ call.at = "link" => artifact[call.of] = "prepared"
  /\ call.at = "index" => artifact[call.of] = "published"
  /\ call.op = "read" => call.of \in Handoff /\ artifact[call.of] = "published"
  /\ \A h \in call.todo : intents[h] # None

\* The Artifact of a handoff comes after its Evidence.
ImportsFirst == \A h \in Handoff : artifact[h] # "none" => Imported(h)

\* Scope revisions and Plans only go up; what is awaiting confirmation is new.
Ordered ==
  /\ run.revision <= decided.revision
  /\ run.revision = decided.revision /\ ~decided.confirmed => run.status = "waiting"
  /\ \A h \in Handoff : intents[h] # None =>
       /\ intents[h].revision <= run.revision /\ intents[h].plan <= run.plan
       /\ run.status = "waiting" => intents[h].revision < run.revision

\* A superseded handoff was formed before the first Plan of an earlier Scope.
StaleIsOld ==
  \A h \in Handoff \intersect stale :
    /\ intents[h] # None
    /\ intents[h].plan = 0 /\ intents[h].revision < decided.revision

Base == TypeOK /\ CallOK /\ ImportsFirst /\ Ordered /\ StaleIsOld

-----------------------------------------------------------------------------
Whole(h) == Complete(h) \/ Untouched(h)
Busy(h) == h = call.of /\ call.at \in {"import", "publish", "link"}

\* A Run that was not cut short holds nothing unfinished but the work of its call.
CleanIsWhole ==
  ~dirty /\ call.op \notin {"load", "refused"} =>
    \A h \in Handoff : Whole(h) \/ (h = call.of /\ call.op \in {"create", "repeat"})

\* What load-run has completed: receipts first, then handoff after handoff.
LoadProgress ==
  call.op = "load" =>
    /\ call.at # "evidence" =>
         \A i \in Item : evidence[i] = "prepared" => call.at = "import" /\ i \in ItemsOf[call.of]
    /\ call.at \notin {"evidence", "artifacts"} =>
         \A h \in Handoff :
           /\ artifact[h] = "prepared" => h = call.of /\ call.at = "link"
           /\ h \in call.todo \/ Busy(h) \/ Durable(h) \/ Untouched(h)
    /\ call.at = "manifest" => call.todo = {}

Progressing == CleanIsWhole /\ LoadProgress

-----------------------------------------------------------------------------
Matches(h) ==
  /\ intents[h] # None
  /\ intents[h].revision = run.revision /\ intents[h].plan = run.plan
  /\ run.status = "open"

\* An intent under a Plan that could still be begun.
Live(h) == Untouched(h) /\ Matches(h) /\ run.plan > 0

\* Such an intent is of an interrupted call, at a Scope nobody has replaced, and
\* load-run will come to it.
LiveIsPending ==
  \A h \in Handoff : Live(h) =>
    /\ dirty \/ (call.op = "create" /\ call.of = h)
    /\ Bound \/ (call.op = "scope" /\ dirty)
    /\ call.op = "load" /\ call.at \notin {"evidence", "artifacts"} =>
         h \in call.todo \/ (h = call.of /\ call.at \in {"import", "publish"})

\* What is being begun is of the Scope and the Plan of the Run.
BegunIsCurrent ==
  call.at \in {"import", "check", "publish"} /\ Untouched(call.of) =>
    /\ intents[call.of].revision = decided.revision
    /\ intents[call.of].plan = run.plan

\* A handoff without Evidence that is not in the Manifest could still be begun.
BareIsKnown ==
  run.plan > 0 /\ run.status = "open" =>
    \A h \in Handoff : artifact[h] # "none" /\ ItemsOf[h] = {} => Complete(h) \/ Matches(h)

\* Nothing is captured while a report is written.
ReportIsLast ==
  run.status = "reporting" =>
    /\ \A h \in Handoff : Whole(h)
    /\ call.at \notin {"import", "check", "publish", "link"}

Loaded == LiveIsPending /\ BegunIsCurrent /\ BareIsKnown /\ ReportIsLast

-----------------------------------------------------------------------------
LEMMA CallSteps ==
  ASSUME CallOK
  PROVE  /\ call.op = "create" => call.at \in Capture
         /\ call.op = "repeat" => call.at \in Capture \ {"check"}
         /\ call.op = "load" => call.at \in {"evidence", "artifacts", "handoffs", "import",
                                             "publish", "link", "manifest"}
         /\ call.op = "read" => call.at = "append"
         /\ call.op = "scope" => call.at = "decided"
         /\ call.op \in {"idle", "refused"} => call.at = "idle"
         /\ call.op \in Op /\ call.of \in Handoff \union {None} /\ call.todo \subseteq Handoff
         /\ call = [op |-> call.op, of |-> call.of, at |-> call.at, todo |-> call.todo]
BY DEF CallOK, StepsOf, Call, Op, Capture

LEMMA CallShape ==
  ASSUME NEW op \in Op, NEW of \in Handoff \union {None}, NEW at \in StepsOf(op),
         NEW todo \in SUBSET Handoff
  PROVE  [op |-> op, of |-> of, at |-> at, todo |-> todo] \in Call
BY DEF Call

LEMMA GoShape ==
  ASSUME CallOK, NEW at \in StepsOf(call.op), Go(at)
  PROVE  /\ call' \in Call /\ call'.at = at /\ call'.op = call.op
         /\ call'.of = call.of /\ call'.todo = call.todo
<1>1. call' = [op |-> call.op, of |-> call.of, at |-> at, todo |-> call.todo]
  BY CallSteps DEF Go
<1> QED  BY <1>1, CallSteps, CallShape

LEMMA BaseInit == Init => Base
<1> SUFFICES ASSUME Init PROVE Base
  OBVIOUS
<1> USE HandoffAssumption, BoundAssumption
<1>1. TypeOK
  <2>1. /\ 1 \in Revision
        /\ run \in [revision : Revision, status : Status, plan : 0 .. MaxPlan]
        /\ decided \in [revision : Revision, confirmed : BOOLEAN]
    BY DEF Init, Revision, Status
  <2>2. \A h \in Handoff : Untouched(h)
    BY DEF Init, Untouched, Doc
  <2>5. NoUse \in [of : SUBSET Handoff, plan : 0 .. MaxPlan]
    BY DEF NoUse
  <2>6. binds \in [Target -> [of : SUBSET Handoff, plan : 0 .. MaxPlan]]
    BY <2>5 DEF Init
  <2>3. first = None /\ crashes \in 0 .. MaxCrash /\ call.of = None /\ call.todo = {}
    BY DEF Init, Idle, Doing
  <2>7. dirty \in BOOLEAN
    BY DEF Init
  <2>4. /\ intents \in [Handoff -> Intent \union {None}]
        /\ evidence \in [Item -> {"none", "prepared", "recorded"}]
        /\ artifact \in [Doc -> {"none", "prepared", "published"}]
        /\ \A h \in Handoff : reading[h] = "none"
        /\ reading \in [Handoff -> {"none", "prepared", "logged"}]
        /\ tracked = {} /\ stale = {}
    BY DEF Init
  <2> QED  BY <2>1, <2>2, <2>3, <2>4, <2>6, <2>7 DEF TypeOK
<1>2. CallOK
  BY DEF Init, CallOK, Call, Op, StepsOf, Idle, Doing, Capture
<1>3. ImportsFirst /\ Ordered /\ StaleIsOld
  BY DEF Init, ImportsFirst, Ordered, StaleIsOld, Doc
<1> QED  BY <1>1, <1>2, <1>3 DEF Base

LEMMA PrepareItemBase ==
  ASSUME Base, NEW i \in Item, PrepareItem(i)
  PROVE  Base'
<1> USE HandoffAssumption DEF manifest, scope, store, uses
<1>0. /\ CallOK /\ TypeOK /\ ImportsFirst /\ Ordered /\ StaleIsOld
      /\ call.of \in Handoff /\ intents[call.of] # None
  BY DEF Base, PrepareItem, CallOK, Capture
<1>1. \A h \in Handoff : ~Untouched(h)' => ~Untouched(h) \/ h = call.of
  BY <1>0 DEF PrepareItem, Untouched, TypeOK
<1>2. TypeOK'
  BY <1>0, <1>1 DEF PrepareItem, TypeOK, Published
<1>3. \A h \in Handoff : Imported(h) => Imported(h)'
  BY <1>0 DEF PrepareItem, Imported, Recorded, TypeOK
<1>4. CallOK'
  BY <1>0, <1>3 DEF PrepareItem, CallOK
<1>5. ImportsFirst' /\ Ordered' /\ StaleIsOld'
  BY <1>0, <1>3 DEF PrepareItem, ImportsFirst, Ordered, StaleIsOld
<1> QED  BY <1>2, <1>4, <1>5 DEF Base

LEMMA RecordItemBase ==
  ASSUME Base, NEW i \in Item, RecordItem(i)
  PROVE  Base'
<1> USE HandoffAssumption DEF manifest, scope, store, uses
<1>0. CallOK /\ TypeOK /\ ImportsFirst /\ Ordered /\ StaleIsOld
  BY DEF Base
<1>1. \A h \in Handoff : ~Untouched(h)' => ~Untouched(h)
  BY <1>0 DEF RecordItem, Untouched, TypeOK
<1>2. TypeOK'
  BY <1>0, <1>1 DEF RecordItem, TypeOK, Published
<1>3. \A h \in Handoff : Imported(h) => Imported(h)'
  BY <1>0 DEF RecordItem, Imported, Recorded, TypeOK
<1>4. CallOK'
  BY <1>0, <1>3 DEF RecordItem, CallOK
<1>5. ImportsFirst' /\ Ordered' /\ StaleIsOld'
  BY <1>0, <1>3 DEF RecordItem, ImportsFirst, Ordered, StaleIsOld
<1> QED  BY <1>2, <1>4, <1>5 DEF Base

\* Steps that change nothing but the call.
LEMMA CallOnlyBase ==
  ASSUME Base, UNCHANGED <<manifest, scope, store, uses>>, CallOK',
         dirty' \in BOOLEAN, crashes' \in 0 .. MaxCrash
  PROVE  Base'
<1> USE DEF manifest, scope, store, uses
<1>1. CallOK' => call'.of \in Handoff \union {None} /\ call'.todo \subseteq Handoff
  BY DEF CallOK, Call
<1>2. TypeOK'
  BY <1>1 DEF Base, TypeOK, Published, Untouched
<1>3. ImportsFirst' /\ Ordered' /\ StaleIsOld'
  BY DEF Base, ImportsFirst, Imported, Recorded, Ordered, StaleIsOld
<1> QED  BY <1>2, <1>3 DEF Base

LEMMA GoBase ==
  ASSUME Base, Imports \/ Check \/ PublishRefused
  PROVE  Base'
<1> USE DEF manifest, scope, store, uses
<1>0. CallOK /\ dirty \in BOOLEAN /\ crashes \in 0 .. MaxCrash
  BY DEF Base, TypeOK
<1>1. UNCHANGED <<manifest, scope, store, uses, crashes>> /\ dirty' \in BOOLEAN
  BY <1>0 DEF Imports, Check, PublishRefused, Abort
<1>2. CallOK'
  <2>1. CASE Imports
    <3> DEFINE at == IF call.op = "create" THEN "check" ELSE "publish"
    <3>1. at \in StepsOf(call.op) /\ Go(at)
      BY <1>0, <2>1, CallSteps DEF Imports, StepsOf, Capture, Op
    <3>2. /\ call' \in Call /\ call'.at = at /\ call'.op = call.op
          /\ call'.of = call.of /\ call'.todo = call.todo
      BY <1>0, <3>1, GoShape
    <3> QED
      BY <1>0, <2>1, <3>1, <3>2, CallSteps DEF Imports, CallOK, Capture, Imported, Recorded
  <2>2. CASE Check /\ Go("publish")
    <3>1. "publish" \in StepsOf(call.op)
      BY <1>0, <2>2, CallSteps DEF Check, StepsOf, Capture, Op
    <3>2. /\ call' \in Call /\ call'.at = "publish" /\ call'.op = call.op
          /\ call'.of = call.of /\ call'.todo = call.todo
      BY <1>0, <2>2, <3>1, GoShape
    <3> QED
      BY <1>0, <2>2, <3>1, <3>2, CallSteps DEF Check, CallOK, Capture, Imported, Recorded
  <2>4. CASE Check /\ Abort
    BY <1>0, <2>4 DEF Check, Abort, Idle, Doing, CallOK, Capture, StepsOf, Op, Call
  <2>3. CASE PublishRefused
    BY <1>0, <2>3 DEF PublishRefused, Abort, Idle, Doing, CallOK, Capture, StepsOf, Op, Call
  <2> QED  BY <2>1, <2>2, <2>3, <2>4 DEF Check
<1> QED  BY <1>0, <1>1, <1>2, CallOnlyBase

LEMMA PrepareBase ==
  ASSUME Base, Prepare
  PROVE  Base'
<1> USE HandoffAssumption DEF manifest, scope, store, uses
<1>0. /\ CallOK /\ TypeOK /\ ImportsFirst /\ Ordered /\ StaleIsOld
      /\ call.of \in Handoff /\ intents[call.of] # None /\ Imported(call.of)
      /\ artifact[call.of] # "published"
  BY DEF Base, Prepare, CallOK, Capture
<1>1. Published' = Published /\ \A h \in Handoff : ~Untouched(h)' => ~Untouched(h) \/ h = call.of
  BY <1>0 DEF Prepare, Published, Untouched, TypeOK, Doc
<1>2. CallOK'
  <2> DEFINE at == "link"
  <2>1. at \in StepsOf(call.op) /\ Go(at)
    BY <1>0, CallSteps DEF Prepare, StepsOf, Capture, Op
  <2>2. /\ call' \in Call /\ call'.at = at /\ call'.op = call.op
        /\ call'.of = call.of /\ call'.todo = call.todo
    BY <1>0, <2>1, GoShape
  <2> QED
    BY <1>0, <2>1, <2>2, CallSteps
       DEF Prepare, CallOK, Capture, Imported, Recorded, TypeOK, Doc
<1>3. TypeOK'
  BY <1>0, <1>1, <1>2 DEF Prepare, TypeOK, CallOK, Call, Doc, Published
<1>4. ImportsFirst' /\ Ordered' /\ StaleIsOld'
  BY <1>0 DEF Prepare, ImportsFirst, Imported, Recorded, Ordered, StaleIsOld, TypeOK, Doc
<1> QED  BY <1>2, <1>3, <1>4 DEF Base

LEMMA PublishBase ==
  ASSUME Base, Publish
  PROVE  Base'
<1> USE HandoffAssumption DEF manifest, scope, store, uses
<1>0. /\ CallOK /\ TypeOK /\ ImportsFirst /\ Ordered /\ StaleIsOld
      /\ call.of \in Handoff /\ intents[call.of] # None /\ Imported(call.of)
  BY DEF Base, Publish, CallOK, Capture
<1>1. /\ Published \subseteq Published'
      /\ \A h \in Handoff : ~Untouched(h)' => ~Untouched(h) \/ h = call.of
  BY <1>0 DEF Publish, Published, Untouched, TypeOK, Doc
<1>2. CallOK'
  <2> DEFINE at == IF call.op = "load" THEN "handoffs" ELSE "index"
  <2>1. at \in StepsOf(call.op) /\ Go(at)
    BY <1>0, CallSteps DEF Publish, StepsOf, Capture, Op
  <2>2. /\ call' \in Call /\ call'.at = at /\ call'.op = call.op
        /\ call'.of = call.of /\ call'.todo = call.todo
    BY <1>0, <2>1, GoShape
  <2> QED
    BY <1>0, <2>1, <2>2, CallSteps
       DEF Publish, CallOK, Capture, Imported, Recorded, TypeOK, Doc
<1>3. TypeOK'
  BY <1>0, <1>1, <1>2 DEF Publish, TypeOK, CallOK, Call, Doc, Published
<1>4. ImportsFirst' /\ Ordered' /\ StaleIsOld'
  BY <1>0 DEF Publish, ImportsFirst, Imported, Recorded, Ordered, StaleIsOld, TypeOK, Doc
<1> QED  BY <1>2, <1>3, <1>4 DEF Base

LEMMA IndexBase ==
  ASSUME Base, Index
  PROVE  Base'
<1> USE HandoffAssumption DEF manifest, scope, store, uses
<1>0. /\ CallOK /\ TypeOK /\ ImportsFirst /\ Ordered /\ StaleIsOld
      /\ call.of \in Handoff /\ artifact[call.of] = "published"
  BY DEF Base, Index, CallOK, Capture
<1>1. CallOK'
  BY <1>0 DEF Index, Done, Idle, Doing, CallOK, Capture, StepsOf, Op, Call
<1>2. TypeOK'
  BY <1>0, <1>1 DEF Index, Done, TypeOK, CallOK, Call, Doc, Published, Untouched, scope, store, uses
<1>3. ImportsFirst' /\ Ordered' /\ StaleIsOld'
  BY <1>0 DEF Index, Done, ImportsFirst, Imported, Recorded, Ordered, StaleIsOld, scope, store, uses
<1> QED  BY <1>1, <1>2, <1>3 DEF Base
LEMMA DoingShape ==
  ASSUME NEW op \in Op, NEW h \in Handoff \union {None}, NEW at \in StepsOf(op)
  PROVE  /\ Doing(op, h, at) \in Call
         /\ Doing(op, h, at).op = op /\ Doing(op, h, at).of = h
         /\ Doing(op, h, at).at = at /\ Doing(op, h, at).todo = {}
BY CallShape DEF Doing

LEMMA CreateBase ==
  ASSUME Base, NEW h \in Handoff, Create(h)
  PROVE  Base'
<1> USE HandoffAssumption, BoundAssumption DEF manifest, scope, store, uses
<1>0. CallOK /\ TypeOK /\ ImportsFirst /\ Ordered /\ StaleIsOld
  BY DEF Base
<1>1. intents'[h] = [revision |-> run.revision, scope |-> BoundFrame, plan |-> run.plan]
  BY <1>0 DEF Create, TypeOK
<1>2. /\ BoundFrame \in Revision /\ run.revision \in Revision /\ run.plan \in 0 .. MaxPlan
      /\ run.revision \in Nat /\ run.plan \in Nat
  BY <1>0 DEF Create, BoundFrame, TypeOK, PrePlan, Revision
<1>3. intents'[h] \in Intent /\ intents'[h] # None
  BY <1>1, <1>2, IntentAssumption DEF Intent
<1>4. artifact[h] = "none" /\ \A g \in Handoff : g # h => intents'[g] = intents[g]
  BY <1>0 DEF Create, TypeOK, Untouched
<1>5. /\ call' \in Call /\ call'.op = "create" /\ call'.of = h /\ call'.at = "import"
      /\ call'.todo = {}
  BY DoingShape DEF Create, Op, StepsOf, Capture
<1>6. CallOK'
  BY <1>3, <1>4, <1>5 DEF Create, CallOK, Capture, StepsOf
<1>7. TypeOK'
  BY <1>0, <1>3, <1>4, <1>5 DEF Create, TypeOK, Untouched, Published
<1>8. ImportsFirst' /\ StaleIsOld'
  BY <1>0, <1>4 DEF Create, ImportsFirst, Imported, Recorded, StaleIsOld
<1>9. Ordered'
  BY <1>0, <1>1, <1>2, <1>4 DEF Create, Ordered
<1> QED  BY <1>6, <1>7, <1>8, <1>9 DEF Base

LEMMA RepeatBase ==
  ASSUME Base, NEW h \in Handoff, Repeat(h)
  PROVE  Base'
<1> USE DEF manifest, scope, store, uses
<1>0. CallOK /\ TypeOK /\ ImportsFirst
  BY DEF Base
<1>1. PICK at \in {"import", "index"} :
        /\ call' = Doing("repeat", h, at)
        /\ at = "index" => Durable(h)
        /\ at = "import" => artifact[h] # "published"
  BY <1>0 DEF Repeat, Durable, ImportsFirst
<1>2. /\ call' \in Call /\ call'.op = "repeat" /\ call'.of = h /\ call'.at = at
      /\ call'.todo = {}
  BY <1>1, DoingShape DEF Op, StepsOf, Capture
<1>3. CallOK'
  BY <1>1, <1>2 DEF Repeat, CallOK, Capture, StepsOf, Durable, Imported, Recorded
<1> QED  BY <1>0, <1>3, CallOnlyBase DEF Repeat, TypeOK

LEMMA ReadBase ==
  ASSUME Base, NEW h \in Handoff, Read(h)
  PROVE  Base'
<1> USE DEF manifest, scope, store, uses
<1>0. CallOK /\ TypeOK /\ ImportsFirst /\ Ordered /\ StaleIsOld
  BY DEF Base
<1>1. /\ call' \in Call /\ call'.op = "read" /\ call'.of = h /\ call'.at = "append"
      /\ call'.todo = {}
  BY DoingShape DEF Read, Op, StepsOf
<1>2. CallOK'
  BY <1>1 DEF Read, CallOK, Capture, StepsOf, Readable
<1>3. TypeOK'
  BY <1>0, <1>1 DEF Read, Readable, TypeOK, Untouched, Published
<1>4. ImportsFirst' /\ Ordered' /\ StaleIsOld'
  BY <1>0 DEF Read, ImportsFirst, Imported, Recorded, Ordered, StaleIsOld
<1> QED  BY <1>2, <1>3, <1>4 DEF Base

LEMMA IdleOK ==
  ASSUME call' = Idle \/ call' = Refused
  PROVE  CallOK'
BY DEF Idle, Refused, Doing, CallOK, Call, Op, StepsOf, Capture

LEMMA AppendBase ==
  ASSUME Base, Append
  PROVE  Base'
<1> USE DEF manifest, scope, store, uses
<1>0. /\ CallOK /\ TypeOK /\ ImportsFirst /\ Ordered /\ StaleIsOld
      /\ call.of \in Handoff /\ artifact[call.of] = "published"
  BY DEF Base, Append, CallOK
<1>1. CallOK'
  BY IdleOK DEF Append, Done
<1>2. TypeOK'
  BY <1>0, <1>1 DEF Append, Done, TypeOK, CallOK, Call, Untouched, Published
<1>3. ImportsFirst' /\ Ordered' /\ StaleIsOld'
  BY <1>0 DEF Append, Done, ImportsFirst, Imported, Recorded, Ordered, StaleIsOld
<1> QED  BY <1>1, <1>2, <1>3 DEF Base

-----------------------------------------------------------------------------
\* A document that is no handoff is published.
LEMMA ReleaseBase ==
  ASSUME Base, call = Idle, NEW d \in Revision \union Target, Release(d),
         UNCHANGED <<run, decided, stale, intents, evidence, reading, call, dirty, crashes>>,
         first' \in Revision \union {None},
         binds' \in [Target -> [of : SUBSET Handoff, plan : 0 .. MaxPlan]]
  PROVE  Base'
<1> USE HandoffAssumption
<1>0. CallOK /\ TypeOK /\ ImportsFirst /\ Ordered /\ StaleIsOld
  BY DEF Base
<1>1. \A h \in Handoff : artifact'[h] = artifact[h]
  BY <1>0 DEF Release, TypeOK, Doc
<1>2. CallOK'
  BY IdleOK
<1>3. artifact' \in [Doc -> {"none", "prepared", "published"}] /\ artifact'[d] = "published"
  BY <1>0 DEF Release, TypeOK, Doc
<1>4. tracked' \subseteq Doc /\ tracked' \subseteq Published'
  BY <1>0, <1>3 DEF Release, TypeOK, Doc, Published
<1>5. TypeOK'
  BY <1>0, <1>1, <1>3, <1>4 DEF TypeOK, Untouched
<1>6. ImportsFirst' /\ Ordered' /\ StaleIsOld'
  BY <1>0, <1>1 DEF ImportsFirst, Imported, Recorded, Ordered, StaleIsOld
<1> QED  BY <1>2, <1>5, <1>6 DEF Base

LEMMA FormBase ==
  ASSUME Base, FormScope \/ \E t \in Target : Form(t)
  PROVE  Base'
<1>0. TypeOK
  BY DEF Base
<1>1. CASE FormScope
  <2>1. run.revision \in Revision /\ first' \in Revision \union {None}
    BY <1>0, <1>1 DEF FormScope, TypeOK
  <2> QED  BY <1>0, <1>1, <2>1, ReleaseBase DEF FormScope, MayPublish, MayStart, uses, TypeOK
<1>2. CASE \E t \in Target : Form(t)
  <2>1. PICK t \in Target : Form(t)
    BY <1>2
  <2>2. ReadFor(t, tracked) \in SUBSET Handoff /\ run.plan \in 0 .. MaxPlan
    BY <1>0 DEF ReadFor, TypeOK
  <2>3. binds' \in [Target -> [of : SUBSET Handoff, plan : 0 .. MaxPlan]]
    BY <1>0, <2>1, <2>2 DEF Form, TypeOK
  <2> QED  BY <1>0, <2>1, <2>3, ReleaseBase DEF Form, MayPublish, MayStart, scope, TypeOK
<1> QED  BY <1>1, <1>2

\* The Manifest moves to another Scope status or Plan.
LEMMA RunBase ==
  ASSUME Base, UNCHANGED <<tracked, scope, store, uses, dirty, crashes>>, CallOK',
         run' \in [revision : Revision, status : Status, plan : 0 .. MaxPlan],
         run'.revision = run.revision, run'.plan >= run.plan,
         run'.status = "waiting" <=> run.status = "waiting"
  PROVE  Base'
<1> USE BoundAssumption DEF scope, store, uses
<1>0. TypeOK /\ ImportsFirst /\ Ordered /\ StaleIsOld
  BY DEF Base
<1>1. TypeOK'
  BY <1>0 DEF TypeOK, CallOK, Call, Untouched, Published
<1>2. ImportsFirst' /\ StaleIsOld'
  BY <1>0 DEF ImportsFirst, Imported, Recorded, StaleIsOld
<1>3. \A h \in Handoff : intents[h] # None => intents[h].plan \in Nat /\ intents[h].revision \in Nat
  BY <1>0 DEF TypeOK, Intent, Revision
<1>4. Ordered'
  BY <1>0, <1>3 DEF Ordered, TypeOK, Revision
<1> QED  BY <1>1, <1>2, <1>4 DEF Base

LEMMA PlanBase ==
  ASSUME Base, FirstPlan \/ RevisePlan \/ Close
  PROVE  Base'
<1> USE BoundAssumption
<1>0. CallOK /\ TypeOK
  BY DEF Base
<1>1. UNCHANGED <<tracked, scope, store, uses, call, dirty, crashes>> /\ call = Idle
  BY DEF FirstPlan, RevisePlan, Close, MayPublish, MayStart
<1>2. /\ run' \in [revision : Revision, status : Status, plan : 0 .. MaxPlan]
      /\ run'.revision = run.revision /\ run'.plan >= run.plan
      /\ run'.status # "waiting" /\ run.status # "waiting"
  <2>0. run \in [revision : Revision, status : Status, plan : 0 .. MaxPlan]
    BY <1>0 DEF TypeOK
  <2>1. CASE FirstPlan
    <3>1. /\ run' = [run EXCEPT !.plan = 1, !.status = "open"]
          /\ 1 >= run.plan /\ 1 \in 0 .. MaxPlan /\ run.status # "waiting"
      BY <2>1 DEF FirstPlan, MayPublish
    <3> QED  BY <2>0, <3>1 DEF Status
  <2>2. CASE RevisePlan
    <3>1. /\ run' = [run EXCEPT !.plan = run.plan + 1, !.status = "open"]
          /\ run.plan + 1 \in 0 .. MaxPlan /\ run.status # "waiting"
          /\ run.plan + 1 >= run.plan
      BY <2>0, <2>2 DEF RevisePlan, MayPublish
    <3> QED  BY <2>0, <3>1 DEF Status
  <2>3. CASE Close
    BY <2>0, <2>3 DEF Close, Status
  <2> QED  BY <2>1, <2>2, <2>3
<1> QED  BY <1>1, <1>2, RunBase, IdleOK

-----------------------------------------------------------------------------
LEMMA ProposeBase ==
  ASSUME Base, ProposeScope
  PROVE  Base'
<1> USE BoundAssumption DEF manifest, store, uses
<1>0. CallOK /\ TypeOK /\ ImportsFirst /\ Ordered /\ StaleIsOld
  BY DEF Base
<1>1. /\ call' \in Call /\ call'.op = "scope" /\ call'.of = None /\ call'.at = "decided"
      /\ call'.todo = {}
  BY DoingShape DEF ProposeScope, Op, StepsOf
<1>2. CallOK'
  BY <1>1 DEF CallOK, Capture, StepsOf
<1>3. /\ decided' \in [revision : Revision, confirmed : BOOLEAN]
      /\ decided'.revision = run.revision + 1
  BY <1>0 DEF ProposeScope, TypeOK, Revision
<1>4. TypeOK'
  BY <1>0, <1>1, <1>3 DEF ProposeScope, TypeOK, Untouched, Published
<1>5. ImportsFirst' /\ StaleIsOld'
  BY <1>0 DEF ProposeScope, ImportsFirst, Imported, Recorded, StaleIsOld
<1>6. Ordered'
  BY <1>0, <1>3 DEF ProposeScope, Ordered, TypeOK, Revision
<1> QED  BY <1>2, <1>4, <1>5, <1>6 DEF Base

LEMMA ConfirmBase ==
  ASSUME Base, ConfirmScope
  PROVE  Base'
<1> USE HandoffAssumption DEF manifest, store, uses
<1>0. CallOK /\ TypeOK /\ ImportsFirst /\ Ordered /\ StaleIsOld
  BY DEF Base
<1>1. /\ call' \in Call /\ call'.op = "scope" /\ call'.of = None /\ call'.at = "decided"
      /\ call'.todo = {}
  BY DoingShape DEF ConfirmScope, Op, StepsOf
<1>2. CallOK'
  BY <1>1 DEF CallOK, Capture, StepsOf
<1>3. /\ decided' \in [revision : Revision, confirmed : BOOLEAN]
      /\ decided'.revision = decided.revision /\ decided'.confirmed
  BY <1>0 DEF ConfirmScope, TypeOK
<1>4. stale' \subseteq Published
  BY DEF ConfirmScope, PrePlanFormation
<1>5. TypeOK'
  BY <1>0, <1>1, <1>3, <1>4 DEF ConfirmScope, TypeOK, Untouched, Published
<1>6. \A h \in Handoff \intersect stale' :
        intents[h] # None /\ intents[h].plan = 0
  BY <1>0 DEF ConfirmScope, PrePlanFormation, Published, TypeOK, Untouched
<1>7. StaleIsOld'
  BY <1>0, <1>3, <1>6 DEF ConfirmScope, StaleIsOld, Ordered, Bound, MayRevise
<1>8. ImportsFirst' /\ Ordered'
  BY <1>0, <1>3 DEF ConfirmScope, ImportsFirst, Imported, Recorded, Ordered
<1> QED  BY <1>2, <1>5, <1>7, <1>8 DEF Base

\* The Manifest is bound to the latest Scope decision.
LEMMA ReboundOK ==
  ASSUME TypeOK, Ordered
  PROVE  /\ Rebound \in [revision : Revision, status : Status, plan : 0 .. MaxPlan]
         /\ Rebound.revision = decided.revision /\ Rebound.plan = run.plan
         /\ ~decided.confirmed => Rebound.status = "waiting"
         /\ Rebound.status = "waiting" =>
              \A h \in Handoff : intents[h] # None => intents[h].revision < decided.revision
         /\ Bound => Rebound = run
         /\ ~Bound => Rebound.status \in {"waiting", "unclear"}
<1> USE BoundAssumption
<1>1. Rebound \in [revision : Revision, status : Status, plan : 0 .. MaxPlan]
  BY DEF TypeOK, Rebound, Status
<1>2. CASE Bound
  BY <1>1, <1>2 DEF Rebound, Bound, Ordered
<1>3. CASE ~Bound
  <2>1. /\ Rebound.revision = decided.revision /\ Rebound.plan = run.plan
        /\ Rebound.status = IF decided.confirmed THEN "unclear" ELSE "waiting"
    BY <1>3 DEF Rebound, TypeOK
  <2>2. ~decided.confirmed => run.revision < decided.revision
    BY <1>3 DEF Bound, Ordered, TypeOK, Revision
  <2>3. \A h \in Handoff : intents[h] # None => intents[h].revision \in Nat
    BY DEF TypeOK, Intent, Revision
  <2> QED  BY <1>1, <1>3, <2>1, <2>2, <2>3 DEF Ordered, TypeOK, Revision
<1> QED  BY <1>2, <1>3

LEMMA ReboundBase ==
  ASSUME Base, run' = Rebound, tracked' \subseteq Published,
         UNCHANGED <<scope, store, uses, crashes>>, call' = Idle, dirty' \in BOOLEAN
  PROVE  Base'
<1> USE BoundAssumption DEF scope, store, uses
<1>0. CallOK /\ TypeOK /\ ImportsFirst /\ Ordered /\ StaleIsOld
  BY DEF Base
<1>1. /\ run' \in [revision : Revision, status : Status, plan : 0 .. MaxPlan]
      /\ run'.revision = decided.revision /\ run'.plan = run.plan
      /\ ~decided.confirmed => run'.status = "waiting"
      /\ run'.status = "waiting" =>
           \A h \in Handoff : intents[h] # None => intents[h].revision < decided.revision
  BY <1>0, ReboundOK
<1>2. CallOK'
  BY IdleOK
<1>3. TypeOK'
  BY <1>0, <1>1, <1>2 DEF TypeOK, CallOK, Call, Untouched, Published
<1>4. ImportsFirst' /\ StaleIsOld'
  BY <1>0 DEF ImportsFirst, Imported, Recorded, StaleIsOld
<1>5. \A h \in Handoff : intents[h] # None => intents[h].revision \in Nat
  BY <1>0 DEF TypeOK, Intent, Revision
<1>6. Ordered'
  BY <1>0, <1>1, <1>5 DEF Ordered, TypeOK, Revision
<1> QED  BY <1>2, <1>3, <1>4, <1>6 DEF Base

LEMMA IndexScopeBase ==
  ASSUME Base, IndexScope
  PROVE  Base'
BY ReboundBase DEF Base, IndexScope, Done, TypeOK

-----------------------------------------------------------------------------
LEMMA LoadStartBase ==
  ASSUME Base, LoadStart
  PROVE  Base'
<1>1. /\ call' \in Call /\ call'.op = "load" /\ call'.of = None /\ call'.at = "evidence"
      /\ call'.todo = {}
  BY DoingShape DEF LoadStart, Op, StepsOf
<1>2. CallOK'
  BY <1>1 DEF CallOK, Capture, StepsOf
<1> QED  BY <1>2, CallOnlyBase DEF LoadStart, Base, TypeOK

LEMMA LoadEvidenceBase ==
  ASSUME Base, LoadEvidence
  PROVE  Base'
<1> USE HandoffAssumption DEF manifest, scope, store, uses
<1>0. CallOK /\ TypeOK /\ ImportsFirst /\ Ordered /\ StaleIsOld /\ call.op = "load"
  BY CallSteps DEF Base, LoadEvidence, Capture, Op
<1>1. "artifacts" \in StepsOf(call.op)
  BY <1>0 DEF StepsOf
<1>2. /\ call' \in Call /\ call'.at = "artifacts" /\ call'.op = call.op
      /\ call'.of = call.of /\ call'.todo = call.todo
  BY <1>0, <1>1, GoShape DEF LoadEvidence
<1>3. CallOK'
  BY <1>0, <1>1, <1>2 DEF LoadEvidence, CallOK, Capture
<1>4. \A h \in Handoff : Untouched(h)' <=> Untouched(h)
  BY <1>0 DEF LoadEvidence, Untouched, TypeOK
<1>5. TypeOK'
  BY <1>0, <1>2, <1>4 DEF LoadEvidence, TypeOK, Published
<1>6. \A h \in Handoff : Imported(h) => Imported(h)'
  BY <1>0 DEF LoadEvidence, Imported, Recorded, TypeOK
<1>7. ImportsFirst' /\ Ordered' /\ StaleIsOld'
  BY <1>0, <1>6 DEF LoadEvidence, ImportsFirst, Ordered, StaleIsOld
<1> QED  BY <1>3, <1>5, <1>7 DEF Base

LEMMA LoadArtifactsBase ==
  ASSUME Base, LoadArtifacts
  PROVE  Base'
<1> USE HandoffAssumption DEF manifest, scope, store, uses
<1>0. CallOK /\ TypeOK /\ ImportsFirst /\ Ordered /\ StaleIsOld /\ call.op = "load"
  BY CallSteps DEF Base, LoadArtifacts, Capture, Op
<1>1. call' = [op |-> "load", of |-> call.of, at |-> "handoffs",
               todo |-> {h \in Handoff : intents[h] # None}]
  BY <1>0, CallSteps DEF LoadArtifacts
<1>2. call' \in Call
  BY <1>0, <1>1, CallSteps, CallShape DEF StepsOf, Op
<1>3. CallOK'
  <2>1. /\ call'.op = "load" /\ call'.at = "handoffs"
        /\ call'.todo = {h \in Handoff : intents[h] # None}
    BY <1>1
  <2>2. intents' = intents
    BY DEF LoadArtifacts
  <2> QED  BY <1>2, <2>1, <2>2 DEF CallOK, Capture, StepsOf
<1>4. \A h \in Handoff : Untouched(h)' <=> Untouched(h)
  BY <1>0 DEF LoadArtifacts, Untouched, TypeOK, Doc
<1>5. Published \subseteq Published'
  BY <1>0 DEF LoadArtifacts, Published, TypeOK
<1>6. TypeOK'
  <2>1. artifact' \in [Doc -> {"none", "prepared", "published"}]
    BY <1>0 DEF LoadArtifacts, TypeOK
  <2>2. tracked' \subseteq Published'
    BY <1>0, <1>5 DEF LoadArtifacts, TypeOK
  <2>3. \A h \in Handoff : reading'[h] # "none" => artifact'[h] = "published"
    BY <1>0 DEF LoadArtifacts, TypeOK, Doc
  <2> QED  BY <1>0, <1>2, <1>4, <2>1, <2>2, <2>3 DEF LoadArtifacts, TypeOK, Call
<1>7. ImportsFirst' /\ Ordered' /\ StaleIsOld'
  BY <1>0 DEF LoadArtifacts, ImportsFirst, Imported, Recorded, Ordered, StaleIsOld, TypeOK, Doc
<1> QED  BY <1>3, <1>6, <1>7 DEF Base

LEMMA ReplayBase ==
  ASSUME Base, NEW h \in Handoff, Replay(h)
  PROVE  Base'
<1> USE DEF manifest, scope, store, uses
<1>0. CallOK /\ TypeOK /\ ImportsFirst /\ call.op = "load" /\ intents[h] # None
  BY CallSteps DEF Base, Replay, Capture, Op, CallOK
<1>1. CASE ~Durable(h) /\ Replayable(h)
  <2>1. call' = [op |-> "load", of |-> h, at |-> "import", todo |-> call.todo \ {h}]
    BY <1>0, <1>1, CallSteps DEF Replay
  <2>2. call' \in Call
    BY <1>0, <2>1, CallSteps, CallShape DEF StepsOf, Op
  <2>3. artifact[h] # "published"
    BY <1>0, <1>1 DEF ImportsFirst, Durable
  <2>4. CallOK'
    BY <1>0, <2>1, <2>2, <2>3 DEF Replay, CallOK, Capture, StepsOf
  <2> QED  BY <1>0, <2>4, CallOnlyBase DEF Replay, TypeOK
<1>2. CASE ~(~Durable(h) /\ Replayable(h))
  <2>1. call' = [op |-> "load", of |-> call.of, at |-> "handoffs", todo |-> call.todo \ {h}]
    BY <1>0, <1>2, CallSteps DEF Replay
  <2>2. call' \in Call
    BY <1>0, <2>1, CallSteps, CallShape DEF StepsOf, Op
  <2>3. CallOK'
    <3>1. /\ call'.op = "load" /\ call'.at = "handoffs"
          /\ call'.todo = call.todo \ {h}
      BY <2>1
    <3>2. intents' = intents /\ \A g \in call.todo : intents[g] # None
      BY <1>0 DEF Replay, CallOK
    <3> QED  BY <2>2, <3>1, <3>2 DEF CallOK, Capture, StepsOf
  <2> QED  BY <1>0, <2>3, CallOnlyBase DEF Replay, TypeOK
<1> QED  BY <1>1, <1>2

LEMMA LoadLogsBase ==
  ASSUME Base, LoadLogs
  PROVE  Base'
<1> USE DEF manifest, scope, store, uses
<1>0. CallOK /\ TypeOK /\ ImportsFirst /\ Ordered /\ StaleIsOld /\ call.op = "load"
  BY CallSteps DEF Base, LoadLogs, Capture, Op
<1>1. "manifest" \in StepsOf(call.op)
  BY <1>0 DEF StepsOf
<1>2. /\ call' \in Call /\ call'.at = "manifest" /\ call'.op = call.op
      /\ call'.of = call.of /\ call'.todo = call.todo
  BY <1>0, <1>1, GoShape DEF LoadLogs
<1>3. CallOK'
  BY <1>0, <1>1, <1>2 DEF LoadLogs, CallOK, Capture
<1>4. TypeOK'
  BY <1>0, <1>2 DEF LoadLogs, TypeOK, Published, Untouched
<1>5. ImportsFirst' /\ Ordered' /\ StaleIsOld'
  BY <1>0 DEF LoadLogs, ImportsFirst, Imported, Recorded, Ordered, StaleIsOld
<1> QED  BY <1>3, <1>4, <1>5 DEF Base

LEMMA LoadEndBase ==
  ASSUME Base, Load \/ LoadRefused \/ Crash
  PROVE  Base'
<1> USE BoundAssumption
<1>0. TypeOK
  BY DEF Base
<1>1. CASE Load
  <2>1. dirty' \in BOOLEAN /\ tracked' \subseteq Published
    BY <1>1 DEF Load
  <2> QED  BY <1>1, <2>1, ReboundBase DEF Load
<1>2. CASE LoadRefused
  <2>1. CallOK'
    BY <1>2, IdleOK DEF LoadRefused
  <2> QED  BY <1>0, <1>2, <2>1, CallOnlyBase DEF LoadRefused, TypeOK
<1>3. CASE Crash
  <2>1. CallOK' /\ dirty' \in BOOLEAN /\ crashes' \in 0 .. MaxCrash
    BY <1>0, <1>3, IdleOK DEF Crash, Abort, TypeOK
  <2> QED  BY <1>3, <2>1, CallOnlyBase DEF Crash
<1> QED  BY <1>1, <1>2, <1>3

LEMMA BaseStep ==
  ASSUME Base, [Next]_vars
  PROVE  Base'
<1>1. CASE Capturing
  BY <1>1, PrepareItemBase, RecordItemBase, GoBase, PrepareBase, PublishBase, IndexBase
     DEF Capturing
<1>2. CASE Loading
  BY <1>2, LoadEvidenceBase, LoadArtifactsBase, ReplayBase, LoadLogsBase, LoadEndBase DEF Loading
<1>3. CASE \E h \in Handoff : Create(h) \/ Repeat(h) \/ Read(h)
  BY <1>3, CreateBase, RepeatBase, ReadBase
<1>4. CASE FormScope \/ (\E t \in Target : Form(t)) \/ FirstPlan \/ RevisePlan \/ Close
  BY <1>4, FormBase, PlanBase
<1>5. CASE ProposeScope \/ ConfirmScope \/ IndexScope \/ Append \/ LoadStart \/ Crash
  BY <1>5, ProposeBase, ConfirmBase, IndexScopeBase, AppendBase, LoadStartBase, LoadEndBase
<1>6. CASE UNCHANGED vars
  BY <1>6 DEF vars, manifest, scope, store, uses, Base, TypeOK, CallOK, ImportsFirst, Imported,
              Recorded, Ordered, StaleIsOld, Untouched, Published
<1> QED  BY <1>1, <1>2, <1>3, <1>4, <1>5, <1>6 DEF Next, Progress

LEMMA BaseAlways == Spec => []Base
<1>1. Base /\ [Next]_vars => Base'
  BY BaseStep
<1> QED  BY BaseInit, <1>1, PTL DEF Spec

\* Types; only what is published is in the Manifest or is read, and nothing is
\* done for a handoff without an intent.
THEOREM TypeCorrect == Spec => []TypeOK
<1>1. Base => TypeOK
  BY DEF Base
<1> QED  BY BaseAlways, <1>1, PTL

-----------------------------------------------------------------------------
\* What a handoff consists of is as it was.
Kept(h) ==
  /\ intents'[h] = intents[h] /\ artifact'[h] = artifact[h]
  /\ \A i \in ItemsOf[h] : evidence'[i] = evidence[i]

LEMMA KeptStore ==
  ASSUME NEW h \in Handoff, Kept(h)
  PROVE  (Durable(h)' <=> Durable(h)) /\ (Untouched(h)' <=> Untouched(h))
BY DEF Kept, Durable, Untouched, Imported, Recorded

LEMMA KeptWhole ==
  ASSUME NEW h \in Handoff, Kept(h), run'.revision = run.revision,
         h \in tracked => h \in tracked', Whole(h)
  PROVE  Whole(h)'
BY KeptStore DEF Kept, Whole, Complete

LEMMA AllKept ==
  ASSUME UNCHANGED store
  PROVE  \A h \in Handoff : Kept(h)
BY DEF store, Kept

\* A capture disturbs no handoff but its own.
LEMMA CaptureKeeps ==
  ASSUME Base, Capturing
  PROVE  /\ call.of \in Handoff /\ call.at \in Capture
         /\ \A h \in Handoff \ {call.of} : Kept(h)
         /\ run' = run /\ stale' = stale /\ decided' = decided /\ tracked \subseteq tracked'
         /\ intents' = intents
<1> USE HandoffAssumption DEF manifest, scope, store, uses
<1>0. TypeOK /\ CallOK
  BY DEF Base
<1>1. call.at \in Capture
  BY DEF Capturing, PrepareItem, RecordItem, Imports, Check, Prepare, PublishRefused, Publish,
         Index, Capture
<1>2. call.of \in Handoff
  BY <1>0, <1>1 DEF CallOK
<1>3. CASE \E i \in Item : PrepareItem(i) \/ RecordItem(i)
  <2>1. PICK i \in Item : PrepareItem(i) \/ RecordItem(i)
    BY <1>3
  <2>2. \A j \in Item : j # i => evidence'[j] = evidence[j]
    BY <1>0, <2>1 DEF PrepareItem, RecordItem, TypeOK
  <2>3. \A h \in Handoff \ {call.of} : i \notin ItemsOf[h]
    BY <1>2, <2>1 DEF PrepareItem, RecordItem
  <2> QED  BY <1>1, <1>2, <2>1, <2>2, <2>3 DEF PrepareItem, RecordItem, Kept
<1>4. CASE Imports \/ Check \/ PublishRefused \/ Index
  BY <1>1, <1>2, <1>4 DEF Imports, Check, PublishRefused, Index, Kept
<1>5. CASE Prepare \/ Publish
  BY <1>0, <1>1, <1>2, <1>5 DEF Prepare, Publish, Kept, TypeOK, Doc
<1> QED  BY <1>3, <1>4, <1>5 DEF Capturing

\* What a capture makes of its call.
LEMMA CaptureCall ==
  ASSUME CallOK, Capturing
  PROVE  \/ call' = Idle /\ (Index \/ dirty')
         \/ /\ call'.op = call.op /\ call'.of = call.of /\ call'.todo = call.todo
            /\ dirty' = dirty
<1>1. call = [op |-> call.op, of |-> call.of, at |-> call.at, todo |-> call.todo]
  BY CallSteps
<1>2. CASE Imports \/ Prepare \/ Publish \/ (Check /\ Go("publish") /\ UNCHANGED dirty)
  BY <1>1, <1>2 DEF Imports, Prepare, Publish, Go
<1>3. CASE (Check /\ Abort) \/ PublishRefused \/ Index
  BY <1>3 DEF PublishRefused, Index, Abort, Done
<1>4. CASE \E i \in Item : PrepareItem(i) \/ RecordItem(i)
  BY <1>4 DEF PrepareItem, RecordItem
<1> QED  BY <1>2, <1>3, <1>4 DEF Capturing, Check

LEMMA IdleShape ==
  /\ Idle.op = "idle" /\ Idle.of = None /\ Idle.at = "idle" /\ Idle.todo = {}
  /\ Refused.op = "refused" /\ Refused.at = "idle"
BY DEF Idle, Refused, Doing

LEMMA CaptureClean ==
  ASSUME Base, CleanIsWhole, Capturing
  PROVE  CleanIsWhole'
<1>0. CallOK
  BY DEF Base
<1>1. /\ call.of \in Handoff
      /\ \A h \in Handoff \ {call.of} : Kept(h)
      /\ run' = run /\ tracked \subseteq tracked'
  BY CaptureKeeps
<1>2. \A h \in Handoff \ {call.of} : Whole(h) => Whole(h)'
  BY <1>1, KeptWhole
<1>3. CASE Index
  <2>1. \A h \in Handoff : h = call.of => Whole(h)'
    BY <1>0, <1>1, <1>3
       DEF Index, CallOK, Capture, Whole, Complete, Durable, Imported, Recorded, store
  <2>2. call.op \in {"create", "repeat"} /\ dirty' = dirty
    BY <1>3 DEF Index, Done
  <2> SUFFICES ASSUME ~dirty, NEW h \in Handoff
               PROVE  Whole(h)'
    BY <2>2 DEF CleanIsWhole
  <2>3. Whole(h) \/ h = call.of
    BY <2>2 DEF CleanIsWhole
  <2> QED  BY <1>2, <2>1, <2>3
<1>4. CASE ~Index
  <2>1. \/ dirty'
        \/ call'.op = call.op /\ call'.of = call.of /\ dirty' = dirty
    BY <1>0, <1>4, CaptureCall
  <2>2. CASE dirty'
    BY <2>2 DEF CleanIsWhole
  <2>3. CASE call'.op = call.op /\ call'.of = call.of /\ dirty' = dirty
    <3> SUFFICES ASSUME ~dirty, call.op \notin {"load", "refused"}, NEW h \in Handoff
                 PROVE  Whole(h)' \/ (h = call.of /\ call.op \in {"create", "repeat"})
      BY <2>3 DEF CleanIsWhole
    <3>1. Whole(h) \/ (h = call.of /\ call.op \in {"create", "repeat"})
      BY DEF CleanIsWhole
    <3>2. CASE h = call.of
      <4>1. call.op \in {"create", "repeat"}
        BY <1>0, <1>1, CallSteps, CaptureKeeps DEF Capture, Op
      <4> QED  BY <3>2, <4>1
    <3> QED  BY <1>2, <3>1, <3>2
  <2> QED  BY <2>1, <2>2, <2>3
<1> QED  BY <1>3, <1>4

\* The steps that leave a clean Run whole because they disturb nothing.
LEMMA QuietClean ==
  ASSUME CleanIsWhole, call.op \notin {"create", "repeat", "load", "refused"},
         \A h \in Handoff : Kept(h), run'.revision = run.revision, tracked \subseteq tracked',
         dirty' = dirty \/ dirty'
  PROVE  CleanIsWhole'
BY KeptWhole DEF CleanIsWhole

LEMMA CallClean ==
  ASSUME Base, CleanIsWhole, NEW h \in Handoff, Create(h) \/ Repeat(h) \/ Read(h)
  PROVE  CleanIsWhole'
<1>0. TypeOK
  BY DEF Base
<1>1. call.op = "idle"
  BY IdleShape DEF Create, Repeat, Read, MayStart
<1>2. CASE Create(h)
  <2>1. \A g \in Handoff \ {h} : Kept(g)
    BY <1>0, <1>2 DEF Create, Kept, TypeOK
  <2>2. /\ call'.op = "create" /\ call'.of = h /\ dirty' = dirty
        /\ run' = run /\ tracked' = tracked
    BY <1>2 DEF Create, Doing, manifest
  <2> QED  BY <1>1, <2>1, <2>2, KeptWhole DEF CleanIsWhole
<1>3. CASE Repeat(h) \/ Read(h)
  BY <1>1, <1>3, QuietClean DEF Repeat, Read, Kept, store, manifest
<1> QED  BY <1>2, <1>3

LEMMA DocumentClean ==
  ASSUME Base, CleanIsWhole,
         FormScope \/ (\E t \in Target : Form(t)) \/ FirstPlan \/ RevisePlan \/ Close
  PROVE  CleanIsWhole'
<1> USE HandoffAssumption
<1>0. TypeOK
  BY DEF Base
<1>1. call.op = "idle" /\ dirty' = dirty
  BY IdleShape DEF FormScope, Form, FirstPlan, RevisePlan, Close, MayPublish, MayStart
<1>2. CASE FormScope \/ \E t \in Target : Form(t)
  <2>1. PICK d \in Revision \union Target : Release(d) /\ UNCHANGED <<run, intents, evidence>>
    BY <1>0, <1>2 DEF FormScope, Form, TypeOK
  <2>2. tracked \subseteq tracked' /\ \A h \in Handoff : Kept(h)
    BY <1>0, <2>1 DEF Release, Kept, TypeOK, Doc
  <2> QED  BY <1>1, <2>1, <2>2, QuietClean
<1>3. CASE FirstPlan \/ RevisePlan \/ Close
  <2>1. run'.revision = run.revision /\ tracked' = tracked
    BY <1>0, <1>3 DEF FirstPlan, RevisePlan, Close, TypeOK
  <2> QED  BY <1>1, <1>3, <2>1, AllKept, QuietClean DEF FirstPlan, RevisePlan, Close
<1> QED  BY <1>2, <1>3

\* A Manifest bound to the latest Scope loses only handoffs of earlier Scopes.
LEMMA ReboundWhole ==
  ASSUME Base, run' = Rebound, UNCHANGED <<store, stale, decided>>,
         NEW h \in Handoff, Complete(h) \/ (Durable(h) /\ h \in tracked'),
         h \in tracked => h \in tracked' \/ h \in stale
  PROVE  Complete(h)'
<1>0. TypeOK /\ Ordered /\ StaleIsOld
  BY DEF Base
<1>1. run'.revision = decided.revision
  BY <1>0, ReboundOK
<1>2. Durable(h)' /\ intents' = intents
  BY KeptStore, AllKept DEF Complete, store
<1>3. h \in stale => intents[h].plan = 0 /\ intents[h].revision < decided.revision
  BY <1>0 DEF StaleIsOld
<1>4. CASE h \in tracked' \/ h \in stale
  BY <1>1, <1>2, <1>3, <1>4 DEF Complete
<1>5. CASE intents[h].plan = 0 /\ intents[h].revision < run.revision
  <2>1. intents[h] # None
    BY <1>0, <1>5 DEF Complete, Durable, TypeOK, Untouched
  <2>2. intents[h].revision \in Nat /\ run.revision \in Nat /\ decided.revision \in Nat
    BY <1>0, <2>1, BoundAssumption DEF TypeOK, Intent, Revision
  <2>3. intents[h].revision < decided.revision
    BY <1>0, <1>5, <2>2 DEF Ordered
  <2> QED  BY <1>1, <1>2, <1>5, <2>3 DEF Complete
<1> QED  BY <1>4, <1>5 DEF Complete

LEMMA ScopeClean ==
  ASSUME Base, CleanIsWhole, ProposeScope \/ ConfirmScope \/ IndexScope \/ Append
  PROVE  CleanIsWhole'
<1>1. CASE ProposeScope \/ ConfirmScope \/ Append
  BY <1>1, IdleShape, AllKept, QuietClean
     DEF ProposeScope, ConfirmScope, MayRevise, Append, manifest, Done
<1>2. CASE IndexScope
  <2>1. call.op = "scope" /\ dirty' = dirty /\ run' = Rebound /\ tracked' = tracked \ stale
    BY <1>2 DEF IndexScope, Done
  <2>2. \A h \in Handoff : Complete(h) => Complete(h)'
    <3> SUFFICES ASSUME NEW h \in Handoff, Complete(h)
                 PROVE  Complete(h)'
      OBVIOUS
    <3>1. UNCHANGED <<store, stale, decided>> /\ (h \in tracked => h \in tracked' \/ h \in stale)
      BY <1>2, <2>1 DEF IndexScope, scope
    <3> QED  BY <2>1, <3>1, ReboundWhole
  <2>3. \A h \in Handoff : Untouched(h) => Untouched(h)'
    BY <1>2, AllKept, KeptStore DEF IndexScope
  <2> QED  BY <2>1, <2>2, <2>3 DEF CleanIsWhole, Whole
<1> QED  BY <1>1, <1>2

LEMMA LoadClean ==
  ASSUME Base, Progressing, Loading \/ LoadStart \/ Crash
  PROVE  CleanIsWhole'
<1>0. CallOK /\ TypeOK
  BY DEF Base
<1>1. CASE Crash
  BY <1>1 DEF Crash, Abort, CleanIsWhole
<1>2. CASE LoadStart
  BY <1>2 DEF LoadStart, Doing, CleanIsWhole
<1>3. CASE Loading /\ ~Load
  <2>1. call.op = "load"
    BY <1>0, <1>3, CallSteps
       DEF Loading, LoadEvidence, LoadArtifacts, Replay, LoadLogs, LoadRefused, Capture, Op
  <2>2. call'.op \in {"load", "refused"}
    <3>1. CASE LoadRefused
      BY <3>1, IdleShape DEF LoadRefused
    <3>2. CASE ~LoadRefused
      BY <1>0, <1>3, <2>1, <3>2, CallSteps
         DEF Loading, LoadEvidence, LoadArtifacts, Replay, LoadLogs, Go
    <3> QED  BY <3>1, <3>2
  <2> QED  BY <2>2 DEF CleanIsWhole
<1>4. CASE Load
  <2>1. call.op = "load" /\ call.at = "manifest"
    BY <1>0, <1>4, CallSteps DEF Load, Capture, Op
  <2>2. \A h \in Handoff : Durable(h) \/ Untouched(h)
    BY <2>1 DEF Progressing, LoadProgress, Busy
  <2>3. \A h \in Handoff : Durable(h) => Complete(h)'
    <3> SUFFICES ASSUME NEW h \in Handoff, Durable(h)
                 PROVE  Complete(h)'
      OBVIOUS
    <3>1. h \in Published
      BY DEF Durable, Published, Doc
    <3>2. /\ run' = Rebound /\ UNCHANGED <<store, stale, decided>>
          /\ tracked' = Published \ stale
      BY <1>4 DEF Load, scope
    <3>3. CASE h \in tracked'
      BY <3>2, <3>3, ReboundWhole
    <3>4. CASE h \in stale
      <4>1. run'.revision = decided.revision
        BY <3>2, ReboundOK DEF Base
      <4>2. Durable(h)' /\ intents' = intents
        BY <3>2, KeptStore, AllKept DEF store
      <4> QED  BY <3>4, <4>1, <4>2 DEF Complete, Base, StaleIsOld
    <3> QED  BY <3>1, <3>2, <3>3, <3>4
  <2>4. \A h \in Handoff : Untouched(h) => Untouched(h)'
    BY <1>4, AllKept, KeptStore DEF Load
  <2> QED  BY <2>2, <2>3, <2>4 DEF CleanIsWhole, Whole
<1> QED  BY <1>1, <1>2, <1>3, <1>4

-----------------------------------------------------------------------------
\* load-run at work on a handoff.
LEMMA CaptureLoad ==
  ASSUME Base, LoadProgress, Capturing
  PROVE  LoadProgress'
<1> USE HandoffAssumption
<1>0. TypeOK /\ CallOK
  BY DEF Base
<1>1. CASE call.op # "load"
  BY <1>0, <1>1, CaptureCall, IdleShape DEF LoadProgress
<1>2. CASE call.op = "load"
  <2>0. /\ call.at \in {"import", "publish", "link"} /\ call.of \in Handoff
        /\ \A h \in Handoff \ {call.of} : Kept(h)
    BY <1>0, <1>2, CallSteps, CaptureKeeps DEF Capture
  <2>1. \A h \in Handoff \ {call.of} :
          /\ artifact[h] # "prepared" /\ artifact'[h] # "prepared"
          /\ h \in call.todo \/ Durable(h)' \/ Untouched(h)'
    BY <1>2, <2>0, KeptStore DEF LoadProgress, Busy, Kept
  <2>2. CASE \E i \in Item : PrepareItem(i) \/ RecordItem(i)
    <3>1. PICK i \in Item : PrepareItem(i) \/ RecordItem(i)
      BY <2>2
    <3>2. /\ call.at = "import" /\ call' = call /\ artifact' = artifact /\ i \in ItemsOf[call.of]
          /\ \A j \in Item : j # i => evidence'[j] = evidence[j]
      BY <1>0, <3>1 DEF PrepareItem, RecordItem, TypeOK
    <3>3. \A j \in Item : evidence'[j] = "prepared" => j \in ItemsOf[call.of]
      BY <1>2, <3>2 DEF LoadProgress
    <3>4. artifact[call.of] # "prepared"
      BY <1>2, <2>0, <3>2 DEF LoadProgress
    <3> QED  BY <2>0, <2>1, <3>2, <3>3, <3>4 DEF LoadProgress, Busy
  <2>3. CASE Imports
    <3>1. /\ call'.at = "publish" /\ call'.of = call.of /\ call'.todo = call.todo
          /\ artifact' = artifact /\ evidence' = evidence
      BY <1>0, <1>2, <2>3, CallSteps DEF Imports, Go, store
    <3>2. \A i \in Item : evidence[i] # "prepared"
      BY <1>0, <1>2, <2>3 DEF Imports, Imported, Recorded, LoadProgress, TypeOK
    <3>3. artifact[call.of] # "prepared"
      BY <1>2, <2>0, <2>3 DEF Imports, LoadProgress
    <3> QED  BY <2>0, <2>1, <3>1, <3>2, <3>3 DEF LoadProgress, Busy
  <2>4. CASE Prepare
    <3>1. /\ call'.at = "link" /\ call'.of = call.of /\ call'.todo = call.todo
          /\ evidence' = evidence
      BY <1>0, <1>2, <2>4, CallSteps DEF Prepare, Go
    <3>2. \A i \in Item : evidence[i] # "prepared"
      BY <1>2, <2>4 DEF Prepare, LoadProgress
    <3> QED  BY <2>0, <2>1, <3>1, <3>2 DEF LoadProgress, Busy
  <2>5. CASE Publish
    <3>1. /\ call'.at = "handoffs" /\ call'.of = call.of /\ call'.todo = call.todo
          /\ evidence' = evidence
      BY <1>0, <1>2, <2>5, CallSteps DEF Publish, Go
    <3>2. \A i \in Item : evidence[i] # "prepared"
      BY <1>2, <2>5 DEF Publish, LoadProgress
    <3>3. \A h \in Handoff : h = call.of => artifact'[h] = "published" /\ Durable(h)'
      BY <1>0, <2>0, <2>5
         DEF Publish, CallOK, Capture, TypeOK, Doc, Durable, Imported, Recorded
    <3> QED  BY <2>0, <2>1, <3>1, <3>2, <3>3 DEF LoadProgress, Busy
  <2> QED
    BY <1>2, <2>0, <2>2, <2>3, <2>4, <2>5 DEF Capturing, Check, PublishRefused, Index
<1> QED  BY <1>1, <1>2

LEMMA LoadingLoad ==
  ASSUME Base, LoadProgress, Loading
  PROVE  LoadProgress'
<1> USE HandoffAssumption
<1>0. TypeOK /\ CallOK
  BY DEF Base
<1>1. CASE Load \/ LoadRefused
  BY <1>1, IdleShape DEF Load, LoadRefused, LoadProgress
<1>2. CASE LoadEvidence
  <2>1. call.op = "load"
    BY <1>0, <1>2, CallSteps DEF LoadEvidence, Capture, Op
  <2>2. call'.at = "artifacts" /\ \A i \in Item : evidence'[i] # "prepared"
    BY <1>0, <1>2, CallSteps DEF LoadEvidence, Go, TypeOK
  <2> QED  BY <2>2 DEF LoadProgress
<1>3. CASE LoadArtifacts
  <2>1. call.op = "load"
    BY <1>0, <1>3, CallSteps DEF LoadArtifacts, Capture, Op
  <2>2. /\ call'.at = "handoffs" /\ evidence' = evidence /\ intents' = intents
        /\ call'.todo = {h \in Handoff : intents[h] # None}
    BY <1>0, <1>3, CallSteps DEF LoadArtifacts
  <2>3. \A i \in Item : evidence[i] # "prepared"
    BY <1>3, <2>1 DEF LoadArtifacts, LoadProgress
  <2>4. \A h \in Handoff : artifact'[h] # "prepared" /\ (Untouched(h) => Untouched(h)')
    BY <1>0, <1>3 DEF LoadArtifacts, TypeOK, Doc, Untouched
  <2>5. \A h \in Handoff : h \in call'.todo \/ Untouched(h)'
    BY <1>0, <2>2, <2>4 DEF TypeOK
  <2> QED  BY <2>2, <2>3, <2>4, <2>5 DEF LoadProgress
<1>4. CASE \E h \in Handoff : Replay(h)
  <2>1. PICK h \in Handoff : Replay(h)
    BY <1>4
  <2>2. call.op = "load" /\ call.at = "handoffs" /\ h \in call.todo
    BY <1>0, <2>1, CallSteps DEF Replay, Capture, Op
  <2>3. /\ \A i \in Item : evidence[i] # "prepared"
        /\ \A g \in Handoff : artifact[g] # "prepared"
        /\ \A g \in Handoff : g \in call.todo \/ Durable(g) \/ Untouched(g)
    BY <2>2 DEF LoadProgress, Busy
  <2>4. /\ \A g \in Handoff : Kept(g) /\ evidence' = evidence /\ artifact' = artifact
        /\ call'.todo = call.todo \ {h}
        /\ \/ call'.at = "import" /\ call'.of = h
           \/ call'.at = "handoffs" /\ (Durable(h) \/ ~Started(h))
    BY <1>0, <2>1, AllKept, CallSteps DEF Replay, store, Replayable
  <2>5. Durable(h) \/ ~Started(h) => Durable(h)' \/ Untouched(h)'
    <3>1. ~Started(h) => Untouched(h)
      BY <1>0, <2>3 DEF Started, Recorded, Untouched, TypeOK, Doc
    <3> QED  BY <2>4, <3>1, KeptStore
  <2>6. \A g \in Handoff : g \in call.todo \/ Durable(g)' \/ Untouched(g)'
    BY <2>3, <2>4, KeptStore
  <2> QED  BY <2>3, <2>4, <2>5, <2>6 DEF LoadProgress, Busy
<1>5. CASE LoadLogs
  <2>1. /\ call.op = "load" /\ call.at = "handoffs" /\ call.todo = {}
        /\ call'.at = "manifest" /\ call'.of = call.of /\ call'.todo = {}
        /\ evidence' = evidence /\ artifact' = artifact
    BY <1>0, <1>5, CallSteps DEF LoadLogs, Go, Capture, Op, store
  <2>2. \A h \in Handoff : Durable(h)' \/ Untouched(h)'
    BY <1>5, <2>1, AllKept, KeptStore DEF LoadProgress, Busy, LoadLogs
  <2> QED  BY <2>1, <2>2 DEF LoadProgress
<1> QED  BY <1>1, <1>2, <1>3, <1>4, <1>5 DEF Loading

LEMMA ProgressStep ==
  ASSUME Base, Progressing, [Next]_vars
  PROVE  Progressing'
<1>0. CallOK
  BY DEF Base
<1>1. CASE Capturing
  BY <1>1, CaptureClean, CaptureLoad DEF Progressing
<1>2. CASE Loading
  BY <1>2, LoadClean, LoadingLoad DEF Progressing
<1>3. CASE \E h \in Handoff : Create(h) \/ Repeat(h) \/ Read(h)
  <2>1. LoadProgress'
    BY <1>3 DEF Create, Repeat, Read, Doing, LoadProgress
  <2> QED  BY <1>3, <2>1, CallClean DEF Progressing
<1>4. CASE FormScope \/ (\E t \in Target : Form(t)) \/ FirstPlan \/ RevisePlan \/ Close
  <2>1. LoadProgress'
    BY <1>4, IdleShape
       DEF FormScope, Form, FirstPlan, RevisePlan, Close, MayPublish, MayStart, LoadProgress
  <2> QED  BY <1>4, <2>1, DocumentClean DEF Progressing
<1>5. CASE ProposeScope \/ ConfirmScope \/ IndexScope \/ Append
  <2>1. LoadProgress'
    BY <1>5, IdleShape DEF ProposeScope, ConfirmScope, IndexScope, Append, Done, Doing, LoadProgress
  <2> QED  BY <1>5, <2>1, ScopeClean DEF Progressing
<1>6. CASE LoadStart \/ Crash
  <2>1. LoadProgress'
    BY <1>6, IdleShape DEF LoadStart, Crash, Abort, Doing, LoadProgress
  <2> QED  BY <1>6, <2>1, LoadClean DEF Progressing
<1>7. CASE UNCHANGED vars
  BY <1>7
     DEF vars, manifest, scope, store, uses, Progressing, CleanIsWhole, LoadProgress, Busy, Whole,
         Complete, Durable, Imported, Recorded, Untouched
<1> QED  BY <1>1, <1>2, <1>3, <1>4, <1>5, <1>6, <1>7 DEF Next, Progress

LEMMA ProgressAlways == Spec => []Progressing
<1>1. Init => Progressing
  BY IdleShape, HandoffAssumption
     DEF Init, Progressing, CleanIsWhole, LoadProgress, Whole, Untouched, Doc
<1>2. Base /\ Progressing /\ [Next]_vars => Progressing'
  BY ProgressStep
<1> QED  BY BaseAlways, <1>1, <1>2, PTL DEF Spec

\* Once load-run has finished, a handoff is in the Run as a whole or has left
\* nothing but its intent, whatever interrupted the calls before.
THEOREM WholeWhenOpen == Spec => []WholeOnceOpen
<1>1. Progressing => WholeOnceOpen
  BY IdleShape DEF Progressing, CleanIsWhole, Whole, WholeOnceOpen
<1> QED  BY ProgressAlways, <1>1, PTL

-----------------------------------------------------------------------------
LEMMA KeptRun ==
  ASSUME NEW h \in Handoff, Kept(h), run' = run
  PROVE  /\ Live(h)' <=> Live(h)
         /\ Matches(h)' <=> Matches(h)
         /\ (h \in tracked => h \in tracked') /\ Complete(h) => Complete(h)'
BY KeptStore DEF Live, Matches, Complete, Kept

\* Steps that neither capture anything nor move the Manifest.
LEMMA QuietLoaded ==
  ASSUME BareIsKnown, ReportIsLast, \A h \in Handoff : Kept(h),
         run' = run, tracked \subseteq tracked',
         call'.at \notin {"import", "check", "publish", "link"}
  PROVE  BegunIsCurrent' /\ BareIsKnown' /\ ReportIsLast'
<1>1. BegunIsCurrent'
  BY DEF BegunIsCurrent
<1>2. \A h \in Handoff : /\ Complete(h) => Complete(h)'
                         /\ Matches(h) => Matches(h)'
                         /\ Whole(h) => Whole(h)'
  BY KeptRun, KeptWhole
<1>3. BareIsKnown'
  BY <1>2 DEF BareIsKnown, Kept
<1>4. ReportIsLast'
  BY <1>2 DEF ReportIsLast
<1> QED  BY <1>1, <1>3, <1>4

LEMMA CaptureLoaded ==
  ASSUME Base, Loaded, Capturing
  PROVE  Loaded'
<1> USE HandoffAssumption
<1>0. TypeOK /\ CallOK /\ Ordered /\ LiveIsPending /\ BegunIsCurrent /\ BareIsKnown /\ ReportIsLast
  BY DEF Base, Loaded
<1>1. /\ call.of \in Handoff /\ call.at \in Capture
      /\ \A h \in Handoff \ {call.of} : Kept(h)
      /\ run' = run /\ decided' = decided /\ tracked \subseteq tracked'
      /\ intents' = intents
  BY CaptureKeeps
<1>2. \A h \in Handoff : Untouched(h)' => Untouched(h)
  <2>1. CASE \E i \in Item : PrepareItem(i) \/ RecordItem(i)
    <3>1. PICK i \in Item : PrepareItem(i) \/ RecordItem(i)
      BY <2>1
    <3>2. /\ artifact' = artifact /\ evidence'[i] # "none"
          /\ \A j \in Item : j # i => evidence'[j] = evidence[j]
      BY <1>0, <3>1 DEF PrepareItem, RecordItem, TypeOK
    <3> QED  BY <3>2 DEF Untouched
  <2>2. CASE Imports \/ Check \/ PublishRefused \/ Index
    BY <2>2 DEF Imports, Check, PublishRefused, Index, store, Untouched
  <2>3. CASE Prepare \/ Publish
    BY <1>0, <1>1, <2>3 DEF Prepare, Publish, Untouched, TypeOK, Doc
  <2> QED  BY <2>1, <2>2, <2>3 DEF Capturing
<1>3. \A h \in Handoff : Live(h)' => Live(h)
  BY <1>1, <1>2 DEF Live, Matches
<1>4. (Bound <=> Bound') /\ call.op # "scope"
  BY <1>0, <1>1, CallSteps DEF Bound, Capture
<1>5. \A h \in Handoff : h = call.of /\ call.at \in {"link", "index"} => ~Untouched(h)
  BY <1>0 DEF CallOK, Capture, Untouched
<1>6. \/ call' = Idle /\ (Index \/ dirty')
      \/ /\ call'.op = call.op /\ call'.of = call.of /\ call'.todo = call.todo
         /\ dirty' = dirty
  BY <1>0, CaptureCall
<1>7. call'.at \in {"import", "check", "publish"} =>
        /\ call.at \in {"import", "check", "publish"} /\ call'.of = call.of
        /\ call.op = "load" => call.at \in {"import", "publish"}
  <2>1. CASE \E i \in Item : PrepareItem(i) \/ RecordItem(i)
    BY <1>0, <2>1, CallSteps DEF PrepareItem, RecordItem
  <2>2. CASE Imports \/ Check
    BY <1>0, <2>2, CallSteps, IdleShape DEF Imports, Check, Go, Abort, Op
  <2>3. CASE Prepare \/ Publish \/ Index \/ PublishRefused
    BY <1>0, <2>3, CallSteps, IdleShape
       DEF Prepare, Publish, Index, PublishRefused, Go, Abort, Done
  <2> QED  BY <2>1, <2>2, <2>3 DEF Capturing
<1>8. LiveIsPending'
  <2> SUFFICES ASSUME NEW h \in Handoff, Live(h)'
               PROVE  /\ dirty' \/ (call'.op = "create" /\ call'.of = h)
                      /\ Bound'
                      /\ call'.op = "load" /\ call'.at \notin {"evidence", "artifacts"} =>
                           \/ h \in call'.todo
                           \/ h = call'.of /\ call'.at \in {"import", "publish"}
    BY DEF LiveIsPending
  <2>1. Live(h) /\ Bound /\ Untouched(h)
    BY <1>0, <1>3, <1>4 DEF LiveIsPending, Live
  <2>2. dirty \/ (call.op = "create" /\ call.of = h)
    BY <1>0, <2>1 DEF LiveIsPending
  <2>3. Index => dirty' = dirty /\ h # call.of
    BY <1>5, <2>1 DEF Index, Done
  <2>4. call'.op = "load" /\ h \notin call'.todo => call.op = "load" /\ h \notin call.todo
    BY <1>6, IdleShape
  <2>5. call.op = "load" /\ h \notin call.todo => h = call.of /\ call.at \in {"import", "publish"}
    BY <1>0, <1>1, <2>1 DEF LiveIsPending, Capture
  <2>6. call'.op = "load" /\ h \notin call'.todo =>
          h = call'.of /\ call'.at \in {"import", "publish"}
    <3> SUFFICES ASSUME call'.op = "load", h \notin call'.todo
                 PROVE  h = call'.of /\ call'.at \in {"import", "publish"}
      OBVIOUS
    <3>1. /\ call.op = "load" /\ h = call.of /\ call.at \in {"import", "publish"}
          /\ call'.of = call.of
      BY <1>6, <2>4, <2>5, IdleShape
    <3>2. ~Prepare
      BY <1>0, <1>1, <1>2, <2>1, <3>1 DEF Prepare, Live, Untouched, TypeOK, Doc
    <3>3. CASE \E i \in Item : PrepareItem(i) \/ RecordItem(i)
      BY <3>1, <3>3 DEF PrepareItem, RecordItem
    <3>4. CASE Imports
      BY <1>0, <3>1, <3>4, CallSteps DEF Imports, Go
    <3> QED
      BY <3>1, <3>2, <3>3, <3>4 DEF Capturing, Check, PublishRefused, Publish, Index
  <2> QED  BY <1>4, <1>6, <2>1, <2>2, <2>3, <2>6
<1>9. BegunIsCurrent'
  BY <1>0, <1>1, <1>2, <1>7 DEF BegunIsCurrent
<1>10. BareIsKnown'
  <2> SUFFICES ASSUME run.plan > 0, run.status = "open", NEW h \in Handoff,
                      artifact'[h] # "none", ItemsOf[h] = {}
               PROVE  Complete(h)' \/ Matches(h)'
    BY <1>1 DEF BareIsKnown
  <2>1. Matches(h) <=> Matches(h)'
    BY <1>1 DEF Matches
  <2>2. CASE artifact[h] = "none"
    <3>1. Prepare /\ h = call.of
      BY <1>0, <1>1, <2>2
         DEF Capturing, PrepareItem, RecordItem, Imports, Check, PublishRefused, Index, Publish,
             store, Kept, CallOK, Capture
    <3>2. Untouched(h)
      BY <2>2 DEF Untouched
    <3>3. intents[h].revision = decided.revision /\ intents[h].plan = run.plan /\ intents[h] # None
      BY <1>0, <3>1, <3>2 DEF BegunIsCurrent, Prepare, CallOK, Capture
    <3>4. intents[h].revision = run.revision
      <4>1. intents[h].revision <= run.revision /\ run.revision <= decided.revision
        BY <1>0, <3>3 DEF Ordered
      <4>2. run.revision \in Nat /\ decided.revision \in Nat
        BY <1>0, BoundAssumption DEF TypeOK, Revision
      <4> QED  BY <3>3, <4>1, <4>2
    <3> QED  BY <2>1, <3>3, <3>4 DEF Matches
  <2>3. CASE artifact[h] # "none" /\ Complete(h)
    <3>1. artifact[h] = "published"
      BY <2>3 DEF Complete, Durable
    <3>2. artifact'[h] = "published"
      BY <1>0, <1>1, <3>1
         DEF Capturing, PrepareItem, RecordItem, Imports, Check, PublishRefused, Index, Publish,
             Prepare, store, Kept, CallOK, Capture, TypeOK, Doc
    <3> QED  BY <1>1, <2>3, <3>2 DEF Complete, Durable, Imported, Recorded
  <2>4. CASE artifact[h] # "none" /\ ~Complete(h)
    BY <1>0, <2>1, <2>4 DEF BareIsKnown
  <2> QED  BY <2>2, <2>3, <2>4
<1>11. ReportIsLast'
  <2> SUFFICES ASSUME run.status = "reporting"
               PROVE  /\ \A h \in Handoff : Whole(h)'
                      /\ call'.at \notin {"import", "check", "publish", "link"}
    BY <1>1 DEF ReportIsLast
  <2>1. Index
    BY <1>0 DEF ReportIsLast, Capturing, PrepareItem, RecordItem, Imports, Check, Prepare,
                PublishRefused, Publish
  <2>2. \A h \in Handoff : Kept(h)
    BY <2>1, AllKept DEF Index
  <2> QED  BY <1>0, <1>1, <2>1, <2>2, KeptWhole, IdleShape DEF ReportIsLast, Index, Done
<1> QED  BY <1>8, <1>9, <1>10, <1>11 DEF Loaded

-----------------------------------------------------------------------------
LEMMA CallLoaded ==
  ASSUME RecoverFirst, Base, Loaded, NEW h \in Handoff, Create(h) \/ Repeat(h) \/ Read(h)
  PROVE  Loaded'
<1>0. /\ TypeOK /\ Ordered /\ LiveIsPending /\ BareIsKnown /\ ReportIsLast
      /\ call.op = "idle"
  BY IdleShape DEF Base, Loaded, Create, Repeat, Read, MayStart
<1>1. \A g \in Handoff : Live(g) => dirty /\ Bound
  BY <1>0 DEF LiveIsPending
<1>2. CASE Create(h)
  <2>1. \A g \in Handoff \ {h} : Kept(g)
    BY <1>0, <1>2 DEF Create, Kept, TypeOK
  <2>2. /\ call'.op = "create" /\ call'.of = h /\ call'.at = "import" /\ ~dirty
        /\ run' = run /\ tracked' = tracked /\ decided' = decided /\ artifact' = artifact
        /\ intents'[h].revision = decided.revision /\ intents'[h].plan = run.plan
        /\ Bound /\ run.status # "reporting" /\ artifact[h] = "none"
    BY <1>0, <1>2 DEF Create, Doing, MayStart, Bound, manifest, scope, TypeOK, Untouched
  <2>3. \A g \in Handoff : Live(g)' => g = h
    BY <1>1, <2>1, <2>2, KeptRun
  <2>4. LiveIsPending'
    BY <2>2, <2>3 DEF LiveIsPending, Bound
  <2>5. BegunIsCurrent' /\ ReportIsLast'
    BY <2>2 DEF BegunIsCurrent, ReportIsLast
  <2>6. BareIsKnown'
    BY <1>0, <2>1, <2>2, KeptRun DEF BareIsKnown
  <2> QED  BY <2>4, <2>5, <2>6 DEF Loaded
<1>3. CASE Repeat(h)
  <2>1. /\ \A g \in Handoff : Kept(g)
        /\ run' = run /\ tracked' = tracked /\ decided' = decided /\ dirty' = dirty
        /\ call'.op = "repeat" /\ call'.of = h /\ call'.at \in {"import", "index"}
        /\ call'.at = "import" => ~Durable(h) /\ Replayable(h)
        /\ Bound /\ intents[h] # None
    BY <1>3, AllKept DEF Repeat, Doing, manifest, scope
  <2>2. LiveIsPending'
    BY <1>1, <2>1, KeptRun DEF LiveIsPending, Bound
  <2>3. call'.at = "import" /\ Untouched(h) => Applicable(h)
    BY <2>1 DEF Replayable, Started, Untouched, Recorded
  <2>4. Applicable(h) => /\ intents[h].revision = run.revision /\ intents[h].plan = run.plan
                         /\ run.status # "reporting"
    BY DEF Applicable, PrePlanApplicable, SameScope
  <2>5. BegunIsCurrent'
    BY <2>1, <2>3, <2>4, KeptStore DEF BegunIsCurrent, Bound, Kept
  <2>6. BareIsKnown'
    BY <1>0, <2>1, KeptRun DEF BareIsKnown, Kept
  <2>7. ReportIsLast'
    BY <1>0, <2>1, <2>3, <2>4, KeptWhole DEF ReportIsLast, Whole, Complete
  <2> QED  BY <2>2, <2>5, <2>6, <2>7 DEF Loaded
<1>4. CASE Read(h)
  <2>1. /\ \A g \in Handoff : Kept(g)
        /\ run' = run /\ tracked' = tracked /\ decided' = decided /\ dirty' = dirty
        /\ call'.op = "read" /\ call'.at = "append"
    BY <1>4, AllKept DEF Read, Doing, manifest, scope
  <2>2. LiveIsPending'
    BY <1>1, <2>1, KeptRun DEF LiveIsPending, Bound
  <2> QED  BY <1>0, <2>1, <2>2, QuietLoaded DEF Loaded
<1> QED  BY <1>2, <1>3, <1>4

LEMMA DocumentLoaded ==
  ASSUME RecoverFirst, Base, Progressing, Loaded,
         FormScope \/ (\E t \in Target : Form(t)) \/ FirstPlan \/ RevisePlan
  PROVE  Loaded'
<1> USE HandoffAssumption, BoundAssumption
<1>0. /\ TypeOK /\ Ordered /\ LiveIsPending /\ BareIsKnown /\ ReportIsLast /\ CleanIsWhole
      /\ call.op = "idle" /\ call.at = "idle" /\ call' = call /\ ~dirty
  BY IdleShape
     DEF Base, Progressing, Loaded, FormScope, Form, FirstPlan, RevisePlan, MayPublish, MayStart
<1>1. \A h \in Handoff : ~Live(h) /\ Whole(h)
  BY <1>0 DEF LiveIsPending, CleanIsWhole
<1>2. CASE FormScope \/ \E t \in Target : Form(t)
  <2>1. PICK d \in Revision \union Target : Release(d) /\ UNCHANGED <<run, intents, evidence>>
    BY <1>0, <1>2 DEF FormScope, Form, TypeOK
  <2>2. tracked \subseteq tracked' /\ \A h \in Handoff : Kept(h)
    BY <1>0, <2>1 DEF Release, Kept, TypeOK, Doc
  <2>3. LiveIsPending'
    BY <1>1, <2>1, <2>2, KeptRun DEF LiveIsPending
  <2> QED  BY <1>0, <2>1, <2>2, <2>3, QuietLoaded DEF Loaded
<1>3. CASE FirstPlan \/ RevisePlan
  <2>1. /\ run'.revision = run.revision /\ run'.plan = run.plan + 1 /\ run'.status = "open"
        /\ tracked' = tracked /\ \A h \in Handoff : Kept(h)
    <3>1. UNCHANGED <<tracked, store>>
      BY <1>3 DEF FirstPlan, RevisePlan
    <3>2. CASE FirstPlan
      BY <1>0, <3>1, <3>2, AllKept DEF FirstPlan, TypeOK
    <3>3. CASE RevisePlan
      BY <1>0, <3>1, <3>3, AllKept DEF RevisePlan, TypeOK
    <3> QED  BY <1>3, <3>2, <3>3
  <2>2. \A h \in Handoff : ~Live(h)'
    <3>1. \A h \in Handoff :
            intents[h] # None => intents[h].plan \in Nat /\ intents[h].plan <= run.plan
      BY <1>0 DEF Ordered, TypeOK, Intent
    <3>2. run.plan \in Nat
      BY <1>0 DEF TypeOK
    <3> QED  BY <2>1, <3>1, <3>2 DEF Live, Matches, Kept
  <2>3. \A h \in Handoff : artifact'[h] # "none" => Complete(h)'
    BY <1>1, <2>1, KeptStore DEF Whole, Untouched, Kept, Complete
  <2> QED
    BY <1>0, <2>1, <2>2, <2>3
       DEF Loaded, LiveIsPending, BegunIsCurrent, BareIsKnown, ReportIsLast
<1> QED  BY <1>2, <1>3

\* A report is not written over a handoff that could still be completed.
LEMMA CloseLoaded ==
  ASSUME Base, Loaded, Close
  PROVE  Loaded'
<1> USE HandoffAssumption
<1>0. TypeOK /\ ImportsFirst /\ BareIsKnown
  BY DEF Base, Loaded
<1>1. /\ \A h \in Handoff : Kept(h)
      /\ run'.revision = run.revision /\ run'.status = "reporting" /\ tracked' = tracked
      /\ call'.at = "idle"
      /\ run.plan > 0 /\ run.status = "open"
  BY <1>0, AllKept, IdleShape DEF Close, TypeOK
<1>2. \A h \in Handoff : Whole(h)
  <2> SUFFICES ASSUME NEW h \in Handoff, ~Untouched(h)
               PROVE  Complete(h)
    BY DEF Whole
  <2>1. /\ intents[h] # None /\ ~Pending(h) /\ artifact[h] # "prepared"
        /\ \A i \in ItemsOf[h] : evidence[i] # "prepared"
    BY <1>0 DEF Close, Unfinished, TypeOK
  <2>2. CASE h \in tracked
    BY <1>0, <2>1, <2>2 DEF Pending, Complete, Durable, TypeOK, Published
  <2>3. CASE h \notin tracked
    <3>1. Recorded(h) = {} /\ ~Applicable(h)
      BY <2>1, <2>3 DEF Pending
    <3>2. \A i \in ItemsOf[h] : evidence[i] = "none"
      BY <1>0, <2>1, <3>1 DEF Recorded, TypeOK
    <3>3. artifact[h] # "none"
      BY <3>2 DEF Untouched
    <3>4. ItemsOf[h] = {}
      BY <1>0, <3>1, <3>3 DEF ImportsFirst, Imported
    <3>5. Complete(h) \/ Matches(h)
      BY <1>0, <1>1, <3>3, <3>4 DEF BareIsKnown
    <3>6. ~Matches(h)
      BY <1>1, <3>1 DEF Matches, Applicable, SameScope
    <3> QED  BY <3>5, <3>6
  <2> QED  BY <2>2, <2>3
<1>3. \A h \in Handoff : Whole(h)'
  BY <1>1, <1>2, KeptWhole
<1> QED
  BY <1>1, <1>3 DEF Loaded, LiveIsPending, BegunIsCurrent, BareIsKnown, ReportIsLast, Live, Matches

-----------------------------------------------------------------------------
\* The Manifest is bound to the latest Scope decision, in its call or by load-run.
LEMMA ReboundLoaded ==
  ASSUME Base, Loaded, run' = Rebound, UNCHANGED <<store, stale, decided>>,
         \A h \in Handoff : Live(h) => dirty' /\ Bound,
         tracked \subseteq tracked' \union stale, call' = Idle
  PROVE  Loaded'
<1>0. BareIsKnown /\ ReportIsLast /\ TypeOK /\ Ordered
  BY DEF Base, Loaded
<1>1. ~Bound => run'.status \in {"waiting", "unclear"}
  BY <1>0, ReboundOK
<1>2. Bound => run' = run
  BY <1>0, ReboundOK
<1>3. \A h \in Handoff : Kept(h) /\ (Complete(h) => Complete(h)')
  BY AllKept, ReboundWhole
<1>4. \A h \in Handoff : Untouched(h) => Untouched(h)'
  BY <1>3, KeptStore
<1>5. CASE Bound
  <2>1. LiveIsPending'
    BY <1>2, <1>3, <1>5, KeptRun, IdleShape DEF LiveIsPending, Bound
  <2>2. BegunIsCurrent'
    BY IdleShape DEF BegunIsCurrent
  <2>3. BareIsKnown'
    BY <1>0, <1>2, <1>3, <1>5, KeptRun DEF BareIsKnown, Kept
  <2>4. ReportIsLast'
    BY <1>0, <1>2, <1>3, <1>4, <1>5, IdleShape DEF ReportIsLast, Whole
  <2> QED  BY <2>1, <2>2, <2>3, <2>4 DEF Loaded
<1>6. CASE ~Bound
  <2>1. LiveIsPending' /\ BareIsKnown'
    BY <1>1, <1>6 DEF LiveIsPending, BareIsKnown, Live, Matches
  <2>2. BegunIsCurrent' /\ ReportIsLast'
    BY <1>1, <1>6, IdleShape DEF BegunIsCurrent, ReportIsLast
  <2> QED  BY <2>1, <2>2 DEF Loaded
<1> QED  BY <1>5, <1>6

LEMMA ScopeLoaded ==
  ASSUME Base, Loaded, ProposeScope \/ ConfirmScope \/ IndexScope \/ Append
  PROVE  Loaded'
<1>0. LiveIsPending /\ BareIsKnown /\ ReportIsLast /\ CallOK
  BY DEF Base, Loaded
<1>1. CASE ProposeScope \/ ConfirmScope
  <2>1. /\ \A h \in Handoff : Kept(h)
        /\ run' = run /\ tracked' = tracked /\ dirty' = dirty
        /\ call'.op = "scope" /\ call'.at = "decided" /\ call.op = "idle" /\ Bound
    BY <1>1, AllKept, IdleShape DEF ProposeScope, ConfirmScope, MayRevise, Doing, manifest
  <2>2. LiveIsPending'
    BY <1>0, <2>1, KeptRun DEF LiveIsPending
  <2> QED  BY <1>0, <2>1, <2>2, QuietLoaded DEF Loaded
<1>2. CASE IndexScope
  <2>1. /\ run' = Rebound /\ UNCHANGED <<store, stale, decided>> /\ dirty' = dirty
        /\ tracked \subseteq tracked' \union stale /\ call' = Idle /\ call.op = "scope"
    BY <1>2 DEF IndexScope, Done, scope
  <2>2. \A h \in Handoff : Live(h) => dirty
    BY <1>0, <2>1 DEF LiveIsPending
  <2>3. CASE Bound
    BY <2>1, <2>2, <2>3, ReboundLoaded
  <2>4. CASE ~Bound
    <3>1. Rebound.status \in {"waiting", "unclear"}
      BY <2>4, ReboundOK DEF Base
    <3> QED
      BY <2>1, <3>1, IdleShape
         DEF Loaded, LiveIsPending, BareIsKnown, BegunIsCurrent, ReportIsLast, Live, Matches
  <2> QED  BY <2>3, <2>4
<1>3. CASE Append
  <2>1. /\ \A h \in Handoff : Kept(h)
        /\ run' = run /\ decided' = decided /\ tracked' = tracked /\ dirty' = dirty
        /\ call' = Idle /\ call.op = "read"
    BY <1>3, AllKept DEF Append, Done, manifest, scope
  <2>2. LiveIsPending'
    BY <1>0, <2>1, KeptRun, IdleShape DEF LiveIsPending, Bound
  <2> QED  BY <1>0, <2>1, <2>2, QuietLoaded, IdleShape DEF Loaded
<1> QED  BY <1>1, <1>2, <1>3

\* load-run comes to every intent that could still be begun, at a bound Manifest.
LEMMA ReplayLoaded ==
  ASSUME Base, Progressing, Loaded, NEW h \in Handoff, Replay(h)
  PROVE  Loaded'
<1>0. TypeOK /\ CallOK /\ LiveIsPending /\ BareIsKnown /\ ReportIsLast
  BY DEF Base, Loaded
<1>1. /\ call.op = "load" /\ call.at = "handoffs" /\ h \in call.todo /\ intents[h] # None
      /\ ~Unresolved(h)
  BY <1>0, CallSteps DEF Replay, Capture, Op, CallOK
<1>2. /\ \A g \in Handoff : Kept(g)
      /\ run' = run /\ decided' = decided /\ tracked' = tracked /\ dirty' = dirty
      /\ call'.op = "load" /\ call'.todo = call.todo \ {h}
      /\ IF ~Durable(h) /\ Replayable(h)
         THEN call'.at = "import" /\ call'.of = h
         ELSE call'.at = "handoffs"
  BY <1>0, <1>1, AllKept, CallSteps DEF Replay, manifest, scope
<1>3. Live(h) => ~Durable(h) /\ Replayable(h)
  BY DEF Live, Matches, Untouched, Durable, Replayable, Applicable, SameScope
<1>4. LiveIsPending'
  <2> SUFFICES ASSUME NEW g \in Handoff, Live(g)'
               PROVE  /\ dirty' /\ Bound'
                      /\ g \in call'.todo \/ (g = call'.of /\ call'.at = "import")
    BY DEF LiveIsPending
  <2>1. Live(g)
    BY <1>2, KeptRun
  <2>2. dirty /\ Bound /\ g \in call.todo
    BY <1>0, <1>1, <2>1 DEF LiveIsPending
  <2> QED  BY <1>2, <1>3, <2>1, <2>2 DEF Bound
<1>5. ~Started(h) /\ Replayable(h) =>
        /\ intents[h].revision = decided.revision /\ intents[h].plan = run.plan
        /\ run.status # "reporting"
  <2> SUFFICES ASSUME ~Started(h), Applicable(h)
               PROVE  /\ intents[h].revision = decided.revision /\ intents[h].plan = run.plan
                      /\ run.status # "reporting"
    BY DEF Replayable
  <2>1. CASE PrePlanApplicable(h)
    BY <1>1, <2>1 DEF Unresolved, Bound, PrePlanApplicable, SameScope
  <2>2. CASE ~PrePlanApplicable(h)
    <3>1. /\ intents[h].plan > 0 /\ SameScope(h) /\ run.status # "unclear"
          /\ run.plan = intents[h].plan
      BY <2>2 DEF Applicable
    <3>2. run.status = "open"
      BY <1>0, <3>1 DEF SameScope, TypeOK, Status
    <3>3. CASE Untouched(h)
      <4>1. Live(h)
        BY <1>1, <3>1, <3>2, <3>3 DEF Live, Matches, SameScope
      <4>2. Bound
        BY <1>0, <1>1, <4>1 DEF LiveIsPending
      <4> QED  BY <3>1, <4>2 DEF Bound, SameScope
    <3>4. Untouched(h)
      BY <1>0, <1>1, HandoffAssumption
         DEF Progressing, LoadProgress, Started, Recorded, Untouched, TypeOK, Doc
    <3> QED  BY <3>3, <3>4
  <2> QED  BY <2>1, <2>2
<1>6. BegunIsCurrent'
  <2>1. Untouched(h)' => ~Started(h)
    BY <1>2, KeptStore DEF Untouched, Started, Recorded
  <2> QED  BY <1>2, <1>5, <2>1 DEF BegunIsCurrent, Kept
<1>7. BareIsKnown'
  BY <1>0, <1>2, KeptRun DEF BareIsKnown, Kept
<1>8. ReportIsLast'
  <2>1. Untouched(h) => ~Started(h)
    BY DEF Untouched, Started, Recorded
  <2> QED  BY <1>0, <1>2, <1>5, <2>1, KeptWhole DEF ReportIsLast, Whole, Complete
<1> QED  BY <1>4, <1>6, <1>7, <1>8 DEF Loaded

LEMMA LoadingLoaded ==
  ASSUME Base, Progressing, Loaded, Loading \/ LoadStart
  PROVE  Loaded'
<1> USE HandoffAssumption
<1>0. TypeOK /\ CallOK /\ LiveIsPending /\ BareIsKnown /\ ReportIsLast
  BY DEF Base, Loaded
<1>1. CASE \E h \in Handoff : Replay(h)
  BY <1>1, ReplayLoaded
<1>2. CASE Load
  <2>1. call.op = "load" /\ call.at = "manifest" /\ call.todo = {}
    BY <1>0, <1>2, CallSteps DEF Load, Capture, Op, Progressing, LoadProgress
  <2>2. \A h \in Handoff : ~Live(h)
    BY <1>0, <2>1 DEF LiveIsPending
  <2>3. tracked \subseteq tracked' \union stale
    BY <1>0, <1>2 DEF Load, TypeOK
  <2> QED  BY <1>2, <2>2, <2>3, ReboundLoaded DEF Load, scope
<1>3. CASE LoadLogs
  <2>1. /\ call.op = "load" /\ call.at = "handoffs" /\ call.todo = {}
        /\ call'.at = "manifest" /\ run' = run /\ tracked' = tracked
    BY <1>0, <1>3, CallSteps DEF LoadLogs, Go, Capture, Op, manifest
  <2>2. \A h \in Handoff : ~Live(h) /\ Kept(h)
    BY <1>0, <1>3, <2>1, AllKept DEF LiveIsPending, LoadLogs
  <2>3. LiveIsPending'
    BY <2>1, <2>2, KeptRun DEF LiveIsPending
  <2> QED  BY <1>0, <2>1, <2>2, <2>3, QuietLoaded DEF Loaded
<1>4. CASE LoadStart \/ LoadRefused
  <2>1. /\ \A h \in Handoff : Kept(h)
        /\ run' = run /\ decided' = decided /\ tracked' = tracked /\ dirty' = dirty
        /\ call.op \in {"idle", "refused", "load"}
        /\ \/ call'.op = "load" /\ call'.at = "evidence"
           \/ call'.op = "refused" /\ call'.at = "idle"
    BY <1>4, AllKept, IdleShape DEF LoadStart, LoadRefused, Doing, manifest, scope
  <2>2. LiveIsPending'
    BY <1>0, <2>1, KeptRun DEF LiveIsPending, Bound
  <2> QED  BY <1>0, <2>1, <2>2, QuietLoaded DEF Loaded
<1>5. CASE LoadEvidence \/ LoadArtifacts
  <2>1. /\ call.op = "load" /\ call'.op = "load" /\ run' = run /\ decided' = decided
        /\ tracked' = tracked /\ dirty' = dirty /\ intents' = intents
        /\ \/ call'.at = "artifacts"
           \/ call'.at = "handoffs" /\ call'.todo = {h \in Handoff : intents[h] # None}
    BY <1>0, <1>5, CallSteps DEF LoadEvidence, LoadArtifacts, Go, Capture, Op, manifest, scope
  <2>2. \A h \in Handoff : /\ Untouched(h)' <=> Untouched(h)
                           /\ artifact'[h] # "none" => artifact[h] # "none"
                           /\ artifact[h] = "published" => artifact'[h] = "published"
    <3>1. CASE LoadEvidence
      BY <1>0, <3>1 DEF LoadEvidence, Untouched, TypeOK
    <3>2. CASE LoadArtifacts
      BY <1>0, <3>2 DEF LoadArtifacts, Untouched, TypeOK, Doc
    <3> QED  BY <1>5, <3>1, <3>2
  <2>3. \A h \in Handoff : Imported(h) => Imported(h)'
    <3>1. CASE LoadEvidence
      BY <1>0, <3>1 DEF LoadEvidence, Imported, Recorded, TypeOK
    <3>2. CASE LoadArtifacts
      BY <3>2 DEF LoadArtifacts, Imported, Recorded
    <3> QED  BY <1>5, <3>1, <3>2
  <2>4. \A h \in Handoff : (Complete(h) => Complete(h)') /\ (Matches(h) <=> Matches(h)')
    BY <2>1, <2>2, <2>3 DEF Complete, Durable, Matches
  <2>5. \A h \in Handoff : Live(h)' => Live(h) /\ intents[h] # None
    BY <2>1, <2>2 DEF Live, Matches
  <2>6. LiveIsPending'
    BY <1>0, <2>1, <2>5 DEF LiveIsPending, Bound
  <2>7. BegunIsCurrent' /\ BareIsKnown'
    BY <1>0, <2>1, <2>2, <2>4 DEF BegunIsCurrent, BareIsKnown
  <2>8. ReportIsLast'
    BY <1>0, <2>1, <2>2, <2>4 DEF ReportIsLast, Whole
  <2> QED  BY <2>6, <2>7, <2>8 DEF Loaded
<1> QED  BY <1>1, <1>2, <1>3, <1>4, <1>5 DEF Loading

LEMMA CrashLoaded ==
  ASSUME RecoverFirst, Base, Loaded, Crash
  PROVE  Loaded'
<1>0. LiveIsPending /\ BareIsKnown /\ ReportIsLast
  BY DEF Loaded
<1>1. /\ \A h \in Handoff : Kept(h)
      /\ run' = run /\ decided' = decided /\ tracked' = tracked /\ dirty'
      /\ call' = Idle /\ (dirty => call.op # "scope")
  BY AllKept DEF Crash, Abort, manifest, scope
<1>2. LiveIsPending'
  BY <1>0, <1>1, KeptRun, IdleShape DEF LiveIsPending, Bound
<1> QED  BY <1>0, <1>1, <1>2, QuietLoaded, IdleShape DEF Loaded

LEMMA LoadedStep ==
  ASSUME RecoverFirst, Base, Progressing, Loaded, [Next]_vars
  PROVE  Loaded'
<1>1. CASE Capturing
  BY <1>1, CaptureLoaded
<1>2. CASE Loading \/ LoadStart
  BY <1>2, LoadingLoaded
<1>3. CASE \E h \in Handoff : Create(h) \/ Repeat(h) \/ Read(h)
  BY <1>3, CallLoaded
<1>4. CASE FormScope \/ (\E t \in Target : Form(t)) \/ FirstPlan \/ RevisePlan \/ Close
  BY <1>4, DocumentLoaded, CloseLoaded
<1>5. CASE ProposeScope \/ ConfirmScope \/ IndexScope \/ Append \/ Crash
  BY <1>5, ScopeLoaded, CrashLoaded
<1>6. CASE UNCHANGED vars
  BY <1>6
     DEF vars, manifest, scope, store, uses, Loaded, LiveIsPending, BegunIsCurrent, BareIsKnown,
         ReportIsLast, Live, Matches, Bound, Whole, Complete, Durable, Imported, Recorded, Untouched
<1> QED  BY <1>1, <1>2, <1>3, <1>4, <1>5, <1>6 DEF Next, Progress

LEMMA LoadedAlways == RecoverFirst => (Spec => []Loaded)
<1> SUFFICES ASSUME RecoverFirst PROVE Spec => []Loaded
  OBVIOUS
<1>1. Init => Loaded
  BY IdleShape, HandoffAssumption
     DEF Init, Loaded, LiveIsPending, BegunIsCurrent, BareIsKnown, ReportIsLast, Live, Matches, Doc
<1>2. Base /\ Progressing /\ Loaded /\ [Next]_vars => Loaded'
  BY LoadedStep
<1> QED  BY BaseAlways, ProgressAlways, <1>1, <1>2, PTL DEF Spec

\* A report is written over whole handoffs, whatever is reopened afterwards, where
\* callers run load-run after an interrupted call.
THEOREM ReportOverWhole == RecoverFirst => (Spec => []ReportSeesWhole)
<1> SUFFICES ASSUME RecoverFirst PROVE Spec => []ReportSeesWhole
  OBVIOUS
<1>1. Loaded => ReportSeesWhole
  BY DEF Loaded, ReportIsLast, Whole, ReportSeesWhole
<1> QED  BY LoadedAlways, <1>1, PTL

\* Only a capture at a step that is guarded begins a handoff.
LEMMA BeginsCurrent ==
  ASSUME Base, Base', Loaded, [Next]_vars, NEW h \in Handoff, Untouched(h), ~Untouched(h)'
  PROVE  intents[h].revision = decided.revision /\ intents[h].plan = run.plan
<1> USE HandoffAssumption
<1>0. TypeOK /\ CallOK /\ BegunIsCurrent
  BY DEF Base, Loaded
<1>1. ~UNCHANGED store
  BY AllKept, KeptStore
<1>2. CASE Capturing
  <2>1. h = call.of
    BY <1>2, CaptureKeeps, KeptStore
  <2>2. call.at \in {"import", "check", "publish"}
    <3>1. call.at \in Capture
      BY <1>2, CaptureKeeps
    <3>2. call.at \notin {"link", "index"}
      BY <1>0, <2>1 DEF CallOK, Capture, Untouched
    <3> QED  BY <3>1, <3>2 DEF Capture
  <2> QED  BY <1>0, <2>1, <2>2 DEF BegunIsCurrent
<1>3. CASE LoadEvidence \/ LoadArtifacts
  BY <1>0, <1>3 DEF LoadEvidence, LoadArtifacts, Untouched, TypeOK, Doc
<1>4. CASE \E g \in Handoff : Create(g)
  BY <1>4 DEF Create, Untouched
<1>5. CASE FormScope \/ \E t \in Target : Form(t)
  <2>1. PICK d \in Revision \union Target : Release(d) /\ evidence' = evidence
    BY <1>0, <1>5 DEF FormScope, Form, TypeOK
  <2> QED  BY <1>0, <2>1 DEF Release, Untouched, TypeOK, Doc
<1>6. Capturing \/ LoadEvidence \/ LoadArtifacts \/ (\E g \in Handoff : Create(g))
        \/ FormScope \/ \E t \in Target : Form(t)
  BY <1>1
     DEF Next, Progress, Loading, Repeat, Read, FirstPlan, RevisePlan, Close, ProposeScope,
         ConfirmScope, IndexScope, Append, LoadStart, Replay, LoadLogs, Load, LoadRefused, Crash,
         vars
<1> QED  BY <1>2, <1>3, <1>4, <1>5, <1>6

\* A handoff none of which is there is not begun once its Scope or its Plan has been
\* replaced, where callers run load-run after an interrupted call.
THEOREM StaleStaysOut == RecoverFirst => (Spec => StaleNeverStarts)
<1> SUFFICES ASSUME RecoverFirst PROVE Spec => StaleNeverStarts
  OBVIOUS
<1>1. ASSUME Base, Base', Loaded, [Next]_vars
      PROVE  [\A h \in Handoff :
                Untouched(h) /\ ~Untouched(h)' =>
                  /\ intents[h].revision = decided.revision
                  /\ intents[h].plan = run.plan]_vars
  BY <1>1, BeginsCurrent
<1> QED  BY BaseAlways, LoadedAlways, <1>1, PTL DEF Spec, StaleNeverStarts

-----------------------------------------------------------------------------
\* Before a second correction of the Scope (finding 1 of the README): what load-run
\* puts in the Manifest fits together, whenever it is called.
Early == decided.revision <= 2

Standing == Published \ stale

\* Only a correction before the first Plan supersedes anything, and then all there is;
\* what is not in the Manifest yet is a handoff.
StaleShape ==
  /\ stale \subseteq Published
  /\ stale # {} => decided.revision = 2 /\ decided.confirmed
  /\ decided.confirmed \/ decided.revision = 2
  /\ tracked \intersect stale # {} => run.plan = 0 /\ ~Bound /\ Published \subseteq stale
  /\ Standing \ tracked \subseteq Handoff
  /\ \A d \in Doc : artifact[d] = "prepared" => d \in Handoff
  /\ run.plan = 0 => Published \intersect Target \subseteq {Concept}

\* Nothing is captured while a Scope decision is not in the Manifest of a Run without
\* a Plan.
ScopeCalls ==
  /\ call.op = "scope" => ~Bound
  /\ run.plan = 0 /\ ~Bound => (\A h \in Handoff : Whole(h)) /\ call.at \notin Capture
  /\ call.op \in {"create", "repeat"} => call.of \notin stale

\* A handoff for the Concept names a ScopeFrame that stands.
PrePlanIntents ==
  \A h \in Handoff : intents[h] # None /\ intents[h].plan = 0 =>
    /\ intents[h].scope = intents[h].revision /\ ItemsOf[h] = {}
    /\ h \notin stale /\ (artifact[h] # "none" \/ intents[h].revision = decided.revision) =>
         intents[h].revision \in Standing
    /\ artifact[h] # "none" /\ h \notin tracked \union stale =>
         run.plan = 0 /\ intents[h].revision = run.revision

\* An intent before the first Plan that could still be begun.
Begins(h) == Untouched(h) /\ intents[h] # None /\ PrePlanApplicable(h)

PrePlanPending ==
  \A h \in Handoff : Begins(h) =>
    /\ Bound
    /\ dirty \/ (call.op = "create" /\ call.of = h)
    /\ call.op = "load" /\ call.at \notin {"evidence", "artifacts"} =>
         h \in call.todo \/ (h = call.of /\ call.at \in {"import", "publish"})

\* One handoff at most is neither whole nor beyond beginning.
Open(h) == ~Whole(h) \/ Begins(h) \/ Live(h)

OneOpen ==
  /\ \A g, h \in Handoff : Open(g) /\ Open(h) => g = h
  /\ call.at \in {"import", "check", "publish"} => Open(call.of)

\* A document names what was read for it.
Named ==
  \A t \in Target \intersect Standing :
    /\ binds[t].of = ReadFor(t, Standing)
    /\ \A h \in binds[t].of : Applies(h, binds[t].plan)

\* A handoff is read from the Manifest, before its document is formed.
Readings ==
  /\ \A h \in Handoff : reading[h] # "none" => h \in tracked \union stale
  /\ \A h \in Handoff : reading[h] = "prepared" =>
       /\ h \in tracked \ stale /\ TargetOf[h] \notin Standing
       /\ dirty \/ (call.op = "read" /\ call.of = h)
       /\ ~(call.op = "load" /\ call.at = "manifest")
  /\ \A g, h \in Handoff : reading[g] = "prepared" /\ reading[h] = "prepared" => g = h
  /\ call.op = "read" => reading[call.of] = "prepared"

RefusedIsMisbound == call.op = "refused" => \E h \in Handoff : Misbound(h)

Orderly ==
  /\ StaleShape /\ ScopeCalls /\ PrePlanIntents /\ PrePlanPending
  /\ OneOpen /\ Named /\ Readings /\ RefusedIsMisbound

-----------------------------------------------------------------------------
LEMMA EarlyBefore ==
  ASSUME Base, [Next]_vars, Early'
  PROVE  Early
<1>0. run.revision \in Nat /\ decided.revision \in Nat
  BY BoundAssumption DEF Base, TypeOK, Revision
<1>1. CASE ProposeScope
  BY <1>0, <1>1 DEF ProposeScope, MayRevise, Bound, Early
<1>2. CASE ConfirmScope
  <2>1. decided' = [decided EXCEPT !.confirmed = TRUE]
    BY <1>2 DEF ConfirmScope
  <2> QED  BY <2>1 DEF Early, Base, TypeOK
<1>3. CASE ~ProposeScope /\ ~ConfirmScope
  <2>1. decided' = decided
    BY <1>3
       DEF Next, Progress, Capturing, Loading, Create, Repeat, Read, Form, FormScope, FirstPlan,
           RevisePlan, Close, LoadStart, PrepareItem, RecordItem, Imports, Check, Prepare,
           PublishRefused, Publish, Index, Append, IndexScope, LoadEvidence, LoadArtifacts, Replay,
           LoadLogs, Load, LoadRefused, Crash, scope, vars
  <2> QED  BY <2>1 DEF Early
<1> QED  BY <1>1, <1>2, <1>3

\* A call that needs load-run first finds everything whole.
LEMMA StartsWhole ==
  ASSUME RecoverFirst, Base, Progressing, Loaded, Orderly, call = Idle, ~dirty
  PROVE  \A h \in Handoff : Whole(h) /\ ~Begins(h) /\ ~Live(h) /\ ~Open(h)
                            /\ reading[h] # "prepared"
<1>1. call.op = "idle"
  BY IdleShape
<1>2. \A h \in Handoff : Whole(h)
  BY <1>1 DEF Progressing, CleanIsWhole
<1>3. \A h \in Handoff : ~Begins(h) /\ ~Live(h)
  BY <1>1 DEF Orderly, PrePlanPending, Loaded, LiveIsPending
<1>4. \A h \in Handoff : reading[h] # "prepared"
  BY <1>1 DEF Orderly, Readings
<1> QED  BY <1>2, <1>3, <1>4 DEF Open

\* What was read for a document is the same in the Manifest and in what load-run
\* would put there.
LEMMA ReadsStand ==
  ASSUME Base, Orderly, tracked \intersect stale = {}, NEW t \in Target
  PROVE  ReadFor(t, Standing) = ReadFor(t, tracked)
<1>1. \A h \in Handoff : reading[h] = "logged" => h \in tracked \union stale
  BY DEF Orderly, Readings
<1>2. tracked \subseteq Published
  BY DEF Base, TypeOK
<1> QED  BY <1>1, <1>2 DEF ReadFor, Standing

\* What can still be begun or is not whole was so before.
LEMMA OpenBefore ==
  ASSUME NEW h \in Handoff, Open(h)', Kept(h), run' = run, tracked \subseteq tracked'
  PROVE  Open(h)
<1>1. Whole(h) => Whole(h)'
  BY KeptWhole
<1>2. Live(h)' => Live(h)
  BY KeptRun
<1>3. Begins(h)' => Begins(h)
  BY KeptStore DEF Begins, Kept, PrePlanApplicable, SameScope
<1> QED  BY <1>1, <1>2, <1>3 DEF Open

-----------------------------------------------------------------------------
LEMMA CaptureUntouched ==
  ASSUME Base, Capturing, NEW h \in Handoff, Untouched(h)'
  PROVE  Untouched(h)
<1> USE HandoffAssumption
<1>0. TypeOK /\ CallOK
  BY DEF Base
<1>1. CASE h # call.of
  BY <1>1, CaptureKeeps, KeptStore
<1>2. CASE h = call.of
  <2>1. CASE \E i \in Item : PrepareItem(i) \/ RecordItem(i)
    <3>1. PICK i \in Item : PrepareItem(i) \/ RecordItem(i)
      BY <2>1
    <3>2. /\ artifact' = artifact /\ evidence'[i] # "none"
          /\ \A j \in Item : j # i => evidence'[j] = evidence[j]
      BY <1>0, <3>1 DEF PrepareItem, RecordItem, TypeOK
    <3> QED  BY <3>2 DEF Untouched
  <2>2. CASE Imports \/ Check \/ PublishRefused \/ Index
    BY <2>2 DEF Imports, Check, PublishRefused, Index, store, Untouched
  <2>3. CASE Prepare \/ Publish
    BY <1>0, <2>3 DEF Prepare, Publish, Untouched, TypeOK, Doc
  <2> QED  BY <2>1, <2>2, <2>3 DEF Capturing
<1> QED  BY <1>1, <1>2

\* The next step of a capture.
LEMMA CaptureAt ==
  ASSUME Base, Capturing
  PROVE  /\ call'.at \in {"import", "check", "publish"} =>
              /\ call.at \in {"import", "check", "publish"} /\ call'.of = call.of
              /\ artifact' = artifact /\ tracked' = tracked
         /\ \/ call' = Idle /\ (Index \/ dirty')
            \/ /\ call'.op = call.op /\ call'.of = call.of /\ call'.todo = call.todo
               /\ dirty' = dirty
         /\ call.op \in {"create", "repeat", "load"} /\ call'.at # "manifest"
         /\ dirty => dirty'
         /\ call.op = "load" => call.at \in {"import", "publish", "link"}
<1>0. CallOK /\ TypeOK /\ call.at \in Capture
  BY CaptureKeeps DEF Base
<1>1. \/ call' = Idle /\ (Index \/ dirty')
      \/ /\ call'.op = call.op /\ call'.of = call.of /\ call'.todo = call.todo
         /\ dirty' = dirty
  BY <1>0, CaptureCall
<1>2. call.op \in {"create", "repeat", "load"}
  BY <1>0, CallSteps DEF Capture, Op
<1>3. /\ call'.at \in {"import", "check", "publish"} =>
           /\ call.at \in {"import", "check", "publish"} /\ call'.of = call.of
           /\ artifact' = artifact /\ tracked' = tracked
      /\ call'.at # "manifest"
  <2>1. CASE \E i \in Item : PrepareItem(i) \/ RecordItem(i)
    BY <1>0, <2>1, CallSteps DEF PrepareItem, RecordItem, manifest, Capture
  <2>2. CASE Imports \/ Check
    BY <1>0, <2>2, CallSteps, IdleShape DEF Imports, Check, Go, Abort, Op, manifest, store
  <2>3. CASE Prepare \/ Publish \/ Index \/ PublishRefused
    BY <1>0, <2>3, CallSteps, IdleShape
       DEF Prepare, Publish, Index, PublishRefused, Go, Abort, Done
  <2> QED  BY <2>1, <2>2, <2>3 DEF Capturing
<1>4. Index => dirty' = dirty
  BY DEF Index, Done
<1>5. call.op = "load" => call.at \in {"import", "publish", "link"}
  BY <1>0, CallSteps DEF Capture
<1> QED  BY <1>1, <1>2, <1>3, <1>4, <1>5

\* A handoff that could be begun before a step of a capture and after it.
LEMMA CapturePending ==
  ASSUME Base, Capturing, NEW h \in Handoff, Untouched(h)',
         dirty \/ (call.op = "create" /\ call.of = h),
         call.op = "load" => h \in call.todo \/ (h = call.of /\ call.at \in {"import", "publish"})
  PROVE  /\ dirty' \/ (call'.op = "create" /\ call'.of = h)
         /\ call'.op = "load" =>
              h \in call'.todo \/ (h = call'.of /\ call'.at \in {"import", "publish"})
<1> USE HandoffAssumption
<1>0. CallOK /\ TypeOK /\ call.of \in Handoff /\ call.at \in Capture /\ Untouched(h)
  BY CaptureKeeps, CaptureUntouched DEF Base
<1>1. h = call.of => call.at \notin {"link", "index"}
  BY <1>0 DEF CallOK, Capture, Untouched
<1>2. \/ call' = Idle /\ (Index \/ dirty')
      \/ /\ call'.op = call.op /\ call'.of = call.of /\ call'.todo = call.todo
         /\ dirty' = dirty
  BY <1>0, CaptureCall
<1>3. Index => dirty' = dirty /\ h # call.of
  BY <1>1 DEF Index, Done
<1>4. dirty' \/ (call'.op = "create" /\ call'.of = h)
  BY <1>2, <1>3
<1>5. ASSUME call'.op = "load", h \notin call'.todo
      PROVE  h = call'.of /\ call'.at \in {"import", "publish"}
  <2>1. /\ call.op = "load" /\ h = call.of /\ call.at \in {"import", "publish"}
        /\ call'.of = call.of
    BY <1>2, <1>5, IdleShape
  <2>2. ~Prepare
    BY <1>0, <2>1 DEF Prepare, Untouched, TypeOK, Doc
  <2>3. CASE \E i \in Item : PrepareItem(i) \/ RecordItem(i)
    BY <2>1, <2>3 DEF PrepareItem, RecordItem
  <2>4. CASE Imports
    BY <1>0, <2>1, <2>4, CallSteps DEF Imports, Go
  <2> QED
    BY <2>1, <2>2, <2>3, <2>4 DEF Capturing, Check, PublishRefused, Publish, Index
<1> QED  BY <1>4, <1>5

\* What a step of a capture does to the documents and the Manifest.
LEMMA CaptureStore ==
  ASSUME Base, Capturing
  PROVE  /\ UNCHANGED <<uses, scope, run, intents>>
         /\ \A d \in Doc \ {call.of} : artifact'[d] = artifact[d]
         /\ artifact'[call.of] \in {artifact[call.of], "prepared", "published"}
         /\ Published \subseteq Published' /\ Published' \subseteq Published \union {call.of}
         /\ tracked \subseteq tracked' /\ tracked' \subseteq tracked \union {call.of}
         /\ ~Index => tracked' = tracked
         /\ artifact'[call.of] # artifact[call.of] => Prepare \/ Publish
<1> USE HandoffAssumption
<1>0. CallOK /\ TypeOK /\ call.of \in Handoff /\ call.of \in Doc
  BY CaptureKeeps DEF Base, Doc
<1>1. CASE (\E i \in Item : PrepareItem(i) \/ RecordItem(i)) \/ Imports \/ Check \/ PublishRefused
  BY <1>1
     DEF PrepareItem, RecordItem, Imports, Check, PublishRefused, manifest, scope, store, uses,
         Published
<1>2. CASE Prepare \/ Publish
  <2>1. artifact[call.of] = "published" => Publish
    BY <1>0, <1>2 DEF Prepare, CallOK, Capture
  <2>2. /\ \A d \in Doc \ {call.of} : artifact'[d] = artifact[d]
        /\ artifact'[call.of] = IF call.at = "publish" THEN "prepared" ELSE "published"
    BY <1>0, <1>2 DEF Prepare, Publish, TypeOK
  <2>3. Published \subseteq Published' /\ Published' \subseteq Published \union {call.of}
    BY <1>0, <1>2, <2>1, <2>2 DEF Prepare, Publish, Published
  <2> QED
    BY <1>2, <2>2, <2>3 DEF Prepare, Publish, manifest, scope, uses
<1>3. CASE Index
  BY <1>3 DEF Index, Done, scope, store, uses, Published
<1> QED  BY <1>1, <1>2, <1>3 DEF Capturing

\* A capture is of a handoff no correction of the Scope has superseded.
LEMMA CaptureFresh ==
  ASSUME Base, Orderly, Capturing
  PROVE  /\ tracked \intersect stale = {} /\ call.of \notin stale
         /\ run.plan = 0 => Bound
<1>0. CallOK /\ TypeOK /\ call.of \in Handoff /\ call.at \in Capture
  BY CaptureKeeps DEF Base
<1>1. run.plan = 0 => Bound
  BY <1>0 DEF Orderly, ScopeCalls
<1>2. tracked \intersect stale = {}
  BY <1>1 DEF Orderly, StaleShape
<1>3. call.of \notin stale
  <2>1. CASE call.op \in {"create", "repeat"}
    BY <2>1 DEF Orderly, ScopeCalls
  <2>2. CASE call.op = "load"
    <3>1. artifact[call.of] # "published"
      BY <1>0, <2>2, CaptureAt DEF CallOK
    <3> QED  BY <3>1 DEF Orderly, StaleShape, Published
  <2> QED  BY <2>1, <2>2, CaptureAt
<1> QED  BY <1>1, <1>2, <1>3

LEMMA CaptureOpen ==
  ASSUME Base, Loaded, Orderly, Capturing
  PROVE  OneOpen'
<1> USE HandoffAssumption
<1>0. CallOK /\ TypeOK /\ call.of \in Handoff /\ call.at \in Capture
  BY CaptureKeeps DEF Base
<1>1. PICK c \in Handoff : c = call.of
  BY <1>0
<1>2. \A h \in Handoff : h # c /\ Open(h)' => Open(h)
  BY <1>1, CaptureKeeps, OpenBefore
<1>3. Open(c)' => Open(c)
  <2>1. CASE call.at \in {"import", "check", "publish"}
    BY <1>1, <2>1 DEF Orderly, OneOpen
  <2>2. CASE call.at = "link"
    BY <1>0, <1>1, <2>2 DEF CallOK, Open, Whole, Complete, Durable, Untouched
  <2>3. CASE call.at = "index"
    <3>1. Index
      BY <2>3
         DEF Capturing, PrepareItem, RecordItem, Imports, Check, Prepare, PublishRefused, Publish
    <3>2. artifact[c] = "published" /\ Imported(c) /\ c \in tracked' /\ Kept(c)
      BY <1>0, <1>1, <2>3, <3>1, AllKept DEF CallOK, Capture, Index
    <3>3. Complete(c)' /\ ~Untouched(c)'
      BY <3>2, KeptStore DEF Kept, Complete, Durable, Untouched
    <3> QED  BY <3>3 DEF Open, Whole, Begins, Live
  <2> QED  BY <1>0, <2>1, <2>2, <2>3 DEF Capture
<1>4. ASSUME call'.at \in {"import", "check", "publish"}
      PROVE  call'.of = c /\ Open(c)'
  <2>1. /\ call.at \in {"import", "check", "publish"} /\ call'.of = c
        /\ artifact' = artifact /\ tracked' = tracked /\ run' = run /\ intents' = intents
    BY <1>1, <1>4, CaptureAt, CaptureKeeps
  <2>2. artifact[c] # "published" /\ Open(c)
    BY <1>0, <1>1, <2>1 DEF CallOK, Orderly, OneOpen
  <2>3. CASE Untouched(c)'
    <3>1. Untouched(c)
      BY <2>3, CaptureUntouched
    <3>2. Begins(c) \/ Live(c)
      BY <2>2, <3>1 DEF Open, Whole
    <3>3. Begins(c)' \/ Live(c)'
      BY <2>1, <2>3, <3>2 DEF Begins, Live, Matches, PrePlanApplicable, SameScope
    <3> QED  BY <2>1, <3>3 DEF Open
  <2>4. CASE ~Untouched(c)'
    BY <2>1, <2>2, <2>4 DEF Open, Whole, Complete, Durable
  <2> QED  BY <2>3, <2>4
<1>5. \A g, h \in Handoff : Open(g)' /\ Open(h)' => g = h
  BY <1>2, <1>3 DEF Orderly, OneOpen
<1>6. call'.at \in {"import", "check", "publish"} => Open(call.of)'
  <2> SUFFICES ASSUME call'.at \in {"import", "check", "publish"}
               PROVE  Open(call.of)'
    OBVIOUS
  <2>1. call'.of = c /\ Open(c)'
    BY <1>4
  <2> QED
    BY <2>1
       DEF Open, Whole, Complete, Durable, Imported, Recorded, Untouched, Begins, Live, Matches,
           PrePlanApplicable, SameScope
<1> QED  BY <1>5, <1>6 DEF OneOpen

LEMMA CaptureOrderly ==
  ASSUME RecoverFirst, Base, Base', Progressing, Loaded, Orderly, Capturing
  PROVE  Orderly'
<1> USE HandoffAssumption
<1>0. CallOK /\ TypeOK /\ call.of \in Handoff /\ call.of \in Doc /\ call.at \in Capture /\ TypeOK'
  BY CaptureKeeps DEF Base, Doc
<1>1. /\ UNCHANGED <<uses, scope, run, intents>>
      /\ \A d \in Doc \ {call.of} : artifact'[d] = artifact[d]
      /\ Published \subseteq Published' /\ Published' \subseteq Published \union {call.of}
      /\ tracked \subseteq tracked' /\ tracked' \subseteq tracked \union {call.of}
  BY CaptureStore
<1>2. stale' = stale /\ decided' = decided /\ binds' = binds /\ reading' = reading
  BY <1>1 DEF scope, uses
<1>3. /\ tracked \intersect stale = {} /\ call.of \notin stale
      /\ run.plan = 0 => Bound
  BY CaptureFresh
<1>4. /\ \/ call' = Idle
         \/ /\ call'.op = call.op /\ call'.of = call.of /\ call'.todo = call.todo
      /\ call.op \in {"create", "repeat", "load"} /\ call'.at # "manifest"
      /\ dirty => dirty'
  BY CaptureAt
<1>5. Standing \subseteq Standing' /\ Standing' \subseteq Standing \union {call.of}
  BY <1>1, <1>2 DEF Standing
<1>6. StaleShape'
  <2>1. tracked' \intersect stale' = {}
    BY <1>1, <1>2, <1>3
  <2>2. /\ Standing' \ tracked' \subseteq Handoff
        /\ Published' \intersect Target = Published \intersect Target
    BY <1>0, <1>1, <1>5 DEF Orderly, StaleShape
  <2>3. \A d \in Doc : artifact'[d] = "prepared" => d \in Handoff
    BY <1>0, <1>1 DEF Orderly, StaleShape
  <2> QED  BY <1>1, <1>2, <2>1, <2>2, <2>3 DEF Orderly, StaleShape
<1>7. ScopeCalls'
  BY <1>1, <1>2, <1>3, <1>4, IdleShape DEF Orderly, ScopeCalls, Bound
<1>8. PrePlanIntents'
  <2> SUFFICES ASSUME NEW h \in Handoff, intents[h] # None, intents[h].plan = 0
               PROVE  /\ intents[h].scope = intents[h].revision /\ ItemsOf[h] = {}
                      /\ h \notin stale
                           /\ (artifact'[h] # "none" \/ intents[h].revision = decided.revision) =>
                             intents[h].revision \in Standing'
                      /\ artifact'[h] # "none" /\ h \notin tracked' \union stale =>
                           run.plan = 0 /\ intents[h].revision = run.revision
    BY <1>1, <1>2 DEF PrePlanIntents
  <2>1. /\ intents[h].scope = intents[h].revision /\ ItemsOf[h] = {}
        /\ h \notin stale /\ (artifact[h] # "none" \/ intents[h].revision = decided.revision) =>
             intents[h].revision \in Standing
        /\ artifact[h] # "none" /\ h \notin tracked \union stale =>
             run.plan = 0 /\ intents[h].revision = run.revision
    BY DEF Orderly, PrePlanIntents
  <2>2. CASE artifact[h] # "none" \/ artifact'[h] = "none"
    BY <1>1, <1>5, <2>1, <2>2
  <2>3. CASE artifact[h] = "none" /\ artifact'[h] # "none"
    <3>1. h = call.of /\ h \in Doc
      BY <1>1, <2>3 DEF Doc
    <3>2. call.at = "publish"
      BY <1>0, <2>3, <3>1, CaptureStore DEF Prepare, Publish, CallOK
    <3>3. Untouched(call.of)
      BY <2>1, <2>3, <3>1 DEF Untouched
    <3>4. intents[h].revision = decided.revision /\ run.plan = 0
      BY <3>1, <3>2, <3>3 DEF Loaded, BegunIsCurrent
    <3> QED  BY <1>3, <1>5, <2>1, <3>4 DEF Bound
  <2> QED  BY <2>2, <2>3
<1>9. PrePlanPending'
  <2> SUFFICES ASSUME NEW h \in Handoff, Begins(h)'
               PROVE  /\ Bound'
                      /\ dirty' \/ (call'.op = "create" /\ call'.of = h)
                      /\ call'.op = "load" =>
                           h \in call'.todo \/ (h = call'.of /\ call'.at \in {"import", "publish"})
    BY DEF PrePlanPending
  <2>1. Untouched(h)' /\ Untouched(h)
    BY CaptureUntouched DEF Begins
  <2>2. Begins(h)
    BY <1>1, <2>1 DEF Begins, PrePlanApplicable, SameScope
  <2>3. /\ Bound
        /\ dirty \/ (call.op = "create" /\ call.of = h)
        /\ call.op = "load" => h \in call.todo \/ (h = call.of /\ call.at \in {"import", "publish"})
    BY <1>0, <2>2 DEF Orderly, PrePlanPending, Capture
  <2> QED  BY <1>1, <1>2, <2>1, <2>3, CapturePending DEF Bound
<1>10. OneOpen'
  BY CaptureOpen
<1>11. Named'
  <2> SUFFICES ASSUME NEW t \in Target, t \in Standing'
               PROVE  /\ binds'[t].of = ReadFor(t, Standing)'
                      /\ \A h \in binds'[t].of : Applies(h, binds[t].plan)'
    BY <1>2 DEF Named
  <2>1. t \in Standing
    BY <1>0, <1>5
  <2>2. ReadFor(t, Standing)' = ReadFor(t, Standing)
    <3>1. \A h \in Handoff : reading[h] = "logged" => artifact[h] = "published"
      BY <1>0 DEF TypeOK
    <3>2. \A h \in Handoff : reading[h] = "logged" /\ h \in Standing' => h \in Standing
      BY <1>2, <3>1 DEF Standing, Published, Doc
    <3> QED  BY <1>2, <1>5, <3>2 DEF ReadFor
  <2> QED  BY <1>1, <1>2, <2>1, <2>2 DEF Orderly, Named, Applies
<1>12. Readings'
  <2>1. \A h \in Handoff : TargetOf[h] \notin Standing => TargetOf[h] \notin Standing'
    BY <1>0, <1>5
  <2>2. call'.op \notin {"read"} /\ ~(call'.op = "load" /\ call'.at = "manifest")
    BY <1>4, IdleShape
  <2>3. \A h \in Handoff : reading[h] = "prepared" => dirty'
    BY <1>4 DEF Orderly, Readings
  <2> QED  BY <1>1, <1>2, <2>1, <2>2, <2>3 DEF Orderly, Readings
<1>13. RefusedIsMisbound'
  BY <1>4, IdleShape DEF RefusedIsMisbound
<1> QED  BY <1>6, <1>7, <1>8, <1>9, <1>10, <1>11, <1>12, <1>13 DEF Orderly

-----------------------------------------------------------------------------
\* Where neither the documents nor the Manifest change, what is whole stays whole and
\* what can be begun stays so.
LEMMA StillShape ==
  ASSUME Orderly, UNCHANGED <<manifest, scope, store>>
  PROVE  /\ StaleShape' /\ PrePlanIntents'
         /\ Published' = Published /\ Standing' = Standing /\ (Bound' <=> Bound)
         /\ \A h \in Handoff : /\ Kept(h)
                               /\ Whole(h)' <=> Whole(h)
                               /\ Begins(h)' <=> Begins(h)
                               /\ Open(h)' <=> Open(h)
                               /\ Misbound(h)' <=> Misbound(h)
<1>1. /\ run' = run /\ tracked' = tracked /\ decided' = decided /\ stale' = stale
      /\ intents' = intents /\ artifact' = artifact
  BY DEF manifest, scope, store
<1>2. Published' = Published /\ Standing' = Standing /\ (Bound' <=> Bound)
  BY <1>1 DEF Published, Standing, Bound
<1>3. \A h \in Handoff : Kept(h) /\ (Durable(h)' <=> Durable(h)) /\ (Untouched(h)' <=> Untouched(h))
  BY AllKept, KeptStore
<1>4. \A h \in Handoff : /\ Whole(h)' <=> Whole(h)
                         /\ Begins(h)' <=> Begins(h)
                         /\ Live(h)' <=> Live(h)
                         /\ Misbound(h)' <=> Misbound(h)
  BY <1>1, <1>3
     DEF Whole, Complete, Begins, PrePlanApplicable, SameScope, Live, Matches, Misbound
<1>5. StaleShape'
  BY <1>1, <1>2 DEF Orderly, StaleShape
<1>6. PrePlanIntents'
  BY <1>1, <1>2 DEF Orderly, PrePlanIntents
<1> QED  BY <1>2, <1>3, <1>4, <1>5, <1>6 DEF Open

LEMMA StillNamed ==
  ASSUME Orderly, Standing' = Standing, binds' = binds, intents' = intents,
         \A h \in Handoff : reading'[h] = "logged" <=> reading[h] = "logged"
  PROVE  Named'
<1>1. \A t \in Target : ReadFor(t, Standing)' = ReadFor(t, Standing)
  BY DEF ReadFor
<1> QED  BY <1>1 DEF Orderly, Named, Applies

\* What load-run or a repeated call takes up is a handoff that is not done.
LEMMA ReplayOpens ==
  ASSUME TypeOK, NEW h \in Handoff, intents[h] # None, ~Durable(h), Replayable(h)
  PROVE  Open(h)
<1>1. CASE ~Untouched(h)
  BY <1>1 DEF Open, Whole, Complete
<1>2. CASE Untouched(h)
  <2>1. Applicable(h)
    BY <1>2 DEF Replayable, Started, Recorded, Untouched
  <2>2. CASE PrePlanApplicable(h)
    BY <1>2, <2>2 DEF Open, Begins
  <2>3. CASE ~PrePlanApplicable(h)
    <3>1. /\ intents[h].plan > 0 /\ SameScope(h) /\ run.status # "unclear"
          /\ run.plan = intents[h].plan
      BY <2>1, <2>3 DEF Applicable
    <3>2. run.status = "open"
      BY <3>1 DEF SameScope, TypeOK, Status
    <3> QED  BY <1>2, <3>1, <3>2 DEF Open, Live, Matches, SameScope
  <2> QED  BY <2>2, <2>3
<1> QED  BY <1>1, <1>2

LEMMA CreateOrderly ==
  ASSUME RecoverFirst, Base, Progressing, Loaded, Orderly, NEW h \in Handoff, Create(h)
  PROVE  Orderly'
<1> USE HandoffAssumption
<1>0. CallOK /\ TypeOK /\ call = Idle /\ ~dirty /\ Bound /\ h \in Doc
  BY DEF Base, Create, MayStart, Doc
<1>1. \A g \in Handoff : Whole(g) /\ ~Begins(g) /\ ~Live(g) /\ ~Open(g) /\ reading[g] # "prepared"
  BY <1>0, StartsWhole
<1>2. /\ run' = run /\ tracked' = tracked /\ decided' = decided /\ stale' = stale
      /\ artifact' = artifact /\ evidence' = evidence /\ binds' = binds /\ reading' = reading
      /\ \A g \in Handoff \ {h} : intents'[g] = intents[g]
      /\ intents'[h] = [revision |-> run.revision, scope |-> BoundFrame, plan |-> run.plan]
  BY <1>0 DEF Create, manifest, scope, uses, TypeOK
<1>3. call'.op = "create" /\ call'.of = h /\ call'.at = "import"
  BY DEF Create, Doing
<1>4. Untouched(h) /\ artifact[h] = "none"
  BY <1>0 DEF TypeOK, Create, Untouched
<1>5. /\ Published' = Published /\ Standing' = Standing /\ Bound'
      /\ h \notin Published /\ h \notin stale
  BY <1>0, <1>2, <1>4 DEF Published, Standing, Bound, Orderly, StaleShape
<1>6. \A g \in Handoff \ {h} : Kept(g) /\ ~Open(g)' /\ ~Begins(g)'
  <2>1. \A g \in Handoff \ {h} : Kept(g)
    BY <1>2 DEF Kept
  <2>2. \A g \in Handoff \ {h} : ~Open(g)'
    BY <1>1, <1>2, <2>1, OpenBefore
  <2> QED  BY <2>1, <2>2 DEF Open
<1>7. /\ run.plan = 0 => PrePlan(h)
      /\ run.plan > 0 => run.status = "open"
  BY DEF Create, PrePlan
<1>8. StaleShape'
  BY <1>2, <1>5 DEF Orderly, StaleShape, Bound
<1>9. ScopeCalls'
  BY <1>3, <1>5, <1>2 DEF ScopeCalls
<1>10. PrePlanIntents'
  <2> SUFFICES ASSUME NEW g \in Handoff, intents'[g] # None, intents'[g].plan = 0
               PROVE  /\ intents'[g].scope = intents'[g].revision /\ ItemsOf[g] = {}
                      /\ g \notin stale
                           /\ (artifact[g] # "none" \/ intents'[g].revision = decided.revision) =>
                             intents'[g].revision \in Standing
                      /\ artifact[g] # "none" /\ g \notin tracked \union stale =>
                           run.plan = 0 /\ intents'[g].revision = run.revision
    BY <1>2, <1>5 DEF PrePlanIntents
  <2>1. CASE g # h
    BY <1>2, <2>1 DEF Orderly, PrePlanIntents
  <2>2. CASE g = h
    <3>1. PrePlan(h) /\ run.plan = 0
      BY <1>2, <1>7, <2>2
    <3>2. run.revision \in Standing /\ BoundFrame = run.revision /\ ItemsOf[h] = {}
      BY <3>1 DEF PrePlan, CurrentFrame, Standing, BoundFrame
    <3> QED  BY <1>2, <1>4, <2>2, <3>1, <3>2
  <2> QED  BY <2>1, <2>2
<1>11. PrePlanPending'
  BY <1>3, <1>5, <1>6 DEF PrePlanPending
<1>12. Open(h)'
  <2>0. BoundFrame \in Revision
    BY <1>0, <1>7 DEF BoundFrame, TypeOK, Create, PrePlan
  <2>1. Untouched(h)' /\ intents'[h] # None /\ intents'[h].revision = run.revision
        /\ intents'[h].plan = run.plan
    <3>1. intents'[h] \in Intent
      BY <1>0, <1>2, <2>0 DEF Intent, TypeOK
    <3> QED  BY <1>2, <1>4, <3>1, IntentAssumption DEF Untouched
  <2>2. CASE run.plan = 0
    <3>1. Concept \notin tracked /\ run.status \in {"open", "unclear"}
      BY <1>7, <2>2 DEF PrePlan, Create
    <3>2. Begins(h)'
      BY <1>2, <2>1, <2>2, <3>1 DEF Begins, PrePlanApplicable, SameScope
    <3> QED  BY <3>2 DEF Open
  <2>3. CASE run.plan > 0
    <3>1. Live(h)'
      BY <1>2, <1>7, <2>1, <2>3 DEF Live, Matches
    <3> QED  BY <3>1 DEF Open
  <2> QED  BY <1>0, <2>2, <2>3, BoundAssumption DEF TypeOK
<1>13. OneOpen'
  <2>1. \A g \in Handoff : Open(g)' => g = h
    BY <1>6
  <2>2. Open(call.of)'
    BY <1>3, <1>12
       DEF Open, Whole, Complete, Durable, Imported, Recorded, Untouched, Begins, Live, Matches,
           PrePlanApplicable, SameScope
  <2> QED  BY <2>1, <2>2 DEF OneOpen
<1>14. Named'
  <2> SUFFICES ASSUME NEW t \in Target, t \in Standing
               PROVE  /\ binds[t].of = ReadFor(t, Standing)
                      /\ \A g \in binds[t].of : Applies(g, binds[t].plan)'
    BY <1>2, <1>5 DEF Named, ReadFor
  <2>1. /\ binds[t].of = ReadFor(t, Standing)
        /\ \A g \in binds[t].of : Applies(g, binds[t].plan)
    BY DEF Orderly, Named
  <2>2. h \notin binds[t].of /\ binds[t].of \subseteq Handoff
    BY <1>5, <2>1 DEF ReadFor, Standing
  <2> QED  BY <1>2, <2>1, <2>2 DEF Applies
<1>15. Readings'
  BY <1>1, <1>2, <1>3, <1>5 DEF Orderly, Readings
<1>16. RefusedIsMisbound'
  BY <1>3 DEF RefusedIsMisbound
<1> QED  BY <1>8, <1>9, <1>10, <1>11, <1>13, <1>14, <1>15, <1>16 DEF Orderly

LEMMA RepeatOrderly ==
  ASSUME RecoverFirst, Base, Orderly, NEW h \in Handoff, Repeat(h)
  PROVE  Orderly'
<1>0. TypeOK /\ call.op = "idle" /\ Bound /\ h \notin stale /\ intents[h] # None
  BY IdleShape DEF Base, Repeat
<1>1. /\ UNCHANGED <<manifest, scope, store, uses, dirty>>
      /\ call'.op = "repeat" /\ call'.of = h
      /\ call'.at = "import" => ~Durable(h) /\ Replayable(h)
      /\ call'.at \in {"import", "index"}
  BY DEF Repeat, Doing
<1>2. /\ StaleShape' /\ PrePlanIntents' /\ Standing' = Standing /\ (Bound' <=> Bound)
      /\ \A g \in Handoff : (Begins(g)' <=> Begins(g)) /\ (Open(g)' <=> Open(g))
  BY <1>1, StillShape
<1>3. ScopeCalls'
  BY <1>0, <1>1, <1>2 DEF ScopeCalls, manifest, scope
<1>4. PrePlanPending'
  BY <1>0, <1>1, <1>2 DEF Orderly, PrePlanPending
<1>5. OneOpen'
  <2>1. call'.at = "import" => Open(h)'
    BY <1>0, <1>1, <1>2, ReplayOpens
  <2>2. call'.at \in {"import", "check", "publish"} => Open(call.of)'
    BY <1>1, <2>1
       DEF Open, Whole, Complete, Durable, Imported, Recorded, Untouched, Begins, Live, Matches,
           PrePlanApplicable, SameScope
  <2> QED  BY <1>2, <2>2 DEF Orderly, OneOpen
<1>6. Named'
  BY <1>1, <1>2, StillNamed DEF uses, store
<1>7. Readings'
  BY <1>0, <1>1, <1>2 DEF Orderly, Readings, manifest, scope, uses
<1>8. RefusedIsMisbound'
  BY <1>1 DEF RefusedIsMisbound
<1> QED  BY <1>2, <1>3, <1>4, <1>5, <1>6, <1>7, <1>8 DEF Orderly

LEMMA ReadOrderly ==
  ASSUME RecoverFirst, Base, Progressing, Loaded, Orderly, NEW h \in Handoff, Read(h)
  PROVE  Orderly'
<1> USE HandoffAssumption
<1>0. TypeOK /\ Ordered /\ StaleIsOld /\ call = Idle /\ ~dirty /\ h \in Doc
  BY DEF Base, Read, MayStart, Doc
<1>1. \A g \in Handoff : Whole(g) /\ ~Begins(g) /\ ~Live(g) /\ ~Open(g) /\ reading[g] # "prepared"
  BY <1>0, StartsWhole
<1>2. /\ UNCHANGED <<manifest, scope, store, binds>>
      /\ \A g \in Handoff \ {h} : reading'[g] = reading[g]
      /\ reading'[h] = "prepared" /\ reading[h] # "logged"
      /\ call'.op = "read" /\ call'.of = h /\ call'.at = "append"
  BY <1>0 DEF Read, Doing, TypeOK
<1>3. /\ StaleShape' /\ PrePlanIntents' /\ Standing' = Standing /\ (Bound' <=> Bound)
      /\ \A g \in Handoff : /\ Begins(g)' <=> Begins(g)
                            /\ Open(g)' <=> Open(g)
                            /\ Whole(g)' <=> Whole(g)
  BY <1>2, StillShape
<1>4. artifact[h] = "published" /\ intents[h] # None /\ intents[h].revision = run.revision
      /\ TargetOf[h] \notin tracked
  BY <1>0 DEF Read, Readable, SameScope, TypeOK, Untouched
<1>5. h \in tracked
  <2>1. intents[h].revision \in Nat /\ run.revision \in Nat
    BY <1>0, <1>4, BoundAssumption DEF TypeOK, Intent, Revision
  <2>2. Complete(h)
    BY <1>1, <1>4 DEF Whole, Untouched
  <2> QED  BY <1>4, <2>1, <2>2 DEF Complete
<1>6. h \notin stale
  <2>1. intents[h].plan = 0 => decided.revision = run.revision
    BY DEF Read, Readable, Bound
  <2>2. run.revision \in Nat
    BY <1>0, BoundAssumption DEF TypeOK, Revision
  <2> QED  BY <1>0, <1>4, <2>1, <2>2 DEF StaleIsOld
<1>7. TargetOf[h] \notin Standing
  BY <1>4 DEF Orderly, StaleShape
<1>8. ScopeCalls'
  BY <1>1, <1>2, <1>3 DEF ScopeCalls, Capture
<1>9. PrePlanPending' /\ OneOpen' /\ RefusedIsMisbound'
  BY <1>1, <1>2, <1>3 DEF PrePlanPending, OneOpen, RefusedIsMisbound
<1>10. Named'
  BY <1>2, <1>3, StillNamed DEF store
<1>11. Readings'
  BY <1>1, <1>2, <1>3, <1>5, <1>6, <1>7 DEF Orderly, Readings, manifest, scope
<1> QED  BY <1>3, <1>8, <1>9, <1>10, <1>11 DEF Orderly

-----------------------------------------------------------------------------
\* A document is formed from what load-run would find as well.
LEMMA FormOrderly ==
  ASSUME RecoverFirst, Base, Progressing, Loaded, Orderly,
         FormScope \/ \E t \in Target : Form(t)
  PROVE  Orderly'
<1> USE HandoffAssumption
<1>0. TypeOK /\ call = Idle /\ ~dirty /\ Bound
  BY DEF Base, FormScope, Form, MayPublish, MayStart
<1>1. \A g \in Handoff : Whole(g) /\ ~Begins(g) /\ ~Live(g) /\ ~Open(g) /\ reading[g] # "prepared"
  BY <1>0, StartsWhole
<1>2. PICK d \in Revision \union Target :
        /\ Release(d)
        /\ UNCHANGED <<run, decided, stale, intents, evidence, reading, call, dirty>>
        /\ run.plan = 0 /\ d \in Target => d = Concept
        /\ \A t \in Target \ {d} : binds'[t] = binds[t]
        /\ d \in Target => /\ binds'[d].of = ReadFor(d, tracked)
                           /\ \A h \in binds'[d].of : Applies(h, binds'[d].plan)
  <2>1. CASE FormScope
    BY <1>0, <2>1 DEF FormScope, TypeOK, uses
  <2>2. CASE \E t \in Target : Form(t)
    <3>1. PICK t \in Target : Form(t)
      BY <2>2
    <3>2. binds'[t] = [of |-> ReadFor(t, tracked), plan |-> run.plan]
      BY <1>0, <3>1 DEF Form, TypeOK
    <3>3. \A u \in Target \ {t} : binds'[u] = binds[u]
      BY <1>0, <3>1 DEF Form, TypeOK
    <3>4. run.plan = 0 => t = Concept
      BY <3>1 DEF Form
    <3>5. \A h \in ReadFor(t, tracked) : Applies(h, run.plan)
      BY <3>1 DEF Form
    <3>6. Release(t) /\ UNCHANGED <<run, decided, stale, intents, evidence, reading, call, dirty>>
      BY <3>1 DEF Form, scope
    <3> QED  BY <3>2, <3>3, <3>4, <3>5, <3>6
  <2> QED  BY <1>0, <2>1, <2>2
<1>3. d \in Doc /\ d \notin Handoff /\ d \notin Published /\ d \notin stale
  BY <1>2 DEF Release, Doc, Published, Orderly, StaleShape
<1>4. /\ Published' = Published \union {d} /\ tracked' = tracked \union {d}
      /\ \A e \in Doc \ {d} : artifact'[e] = artifact[e]
      /\ artifact'[d] = "published"
  <2>1. artifact' = [artifact EXCEPT ![d] = "published"] /\ tracked' = tracked \union {d}
    BY <1>2 DEF Release
  <2> QED  BY <1>0, <1>3, <2>1 DEF Published, TypeOK
<1>5. Standing' = Standing \union {d} /\ tracked \intersect stale = {} /\ Bound'
  BY <1>0, <1>2, <1>3, <1>4 DEF Standing, Orderly, StaleShape, Bound
<1>6. \A h \in Handoff : Kept(h) /\ ~Open(h)' /\ ~Begins(h)'
  <2>1. \A h \in Handoff : Kept(h)
    BY <1>2, <1>3, <1>4 DEF Kept, Doc
  <2>2. \A h \in Handoff : ~Open(h)'
    BY <1>1, <1>2, <1>4, <2>1, OpenBefore
  <2> QED  BY <2>1, <2>2 DEF Open
<1>7. StaleShape'
  <2>1. Published' \intersect Target \subseteq (Published \intersect Target) \union {d}
    BY <1>4
  <2>2. run.plan = 0 => Published' \intersect Target \subseteq {Concept}
    BY <1>2, <1>4 DEF Orderly, StaleShape
  <2>3. \A e \in Doc : artifact'[e] = "prepared" => e \in Handoff
    BY <1>4 DEF Orderly, StaleShape
  <2>4. Standing' \ tracked' \subseteq Handoff /\ tracked' \intersect stale' = {}
    BY <1>2, <1>3, <1>4, <1>5 DEF Orderly, StaleShape
  <2> QED  BY <1>2, <1>4, <2>2, <2>3, <2>4 DEF Orderly, StaleShape
<1>8. ScopeCalls'
  BY <1>0, <1>2, <1>5, IdleShape DEF ScopeCalls
<1>9. PrePlanIntents'
  BY <1>2, <1>4, <1>5, <1>6 DEF Orderly, PrePlanIntents, Kept
<1>10. PrePlanPending' /\ OneOpen' /\ RefusedIsMisbound'
  BY <1>0, <1>2, <1>6, IdleShape DEF PrePlanPending, OneOpen, RefusedIsMisbound
<1>11. Named'
  <2> SUFFICES ASSUME NEW t \in Target, t \in Standing'
               PROVE  /\ binds'[t].of = ReadFor(t, Standing)'
                      /\ \A h \in binds'[t].of : Applies(h, binds'[t].plan)
    BY <1>2 DEF Named, Applies
  <2>1. ReadFor(t, Standing)' = ReadFor(t, Standing)
    BY <1>2, <1>3, <1>5 DEF ReadFor
  <2>2. CASE t = d
    BY <1>2, <1>5, <2>1, <2>2, ReadsStand
  <2>3. CASE t # d
    BY <1>2, <1>5, <2>1, <2>3 DEF Orderly, Named
  <2> QED  BY <2>2, <2>3
<1>12. Readings'
  BY <1>0, <1>1, <1>2, <1>4, IdleShape DEF Orderly, Readings
<1> QED  BY <1>7, <1>8, <1>9, <1>10, <1>11, <1>12 DEF Orderly

LEMMA PlanOrderly ==
  ASSUME RecoverFirst, Base, Progressing, Loaded, Loaded', Orderly,
         FirstPlan \/ RevisePlan \/ Close
  PROVE  Orderly'
<1> USE HandoffAssumption, BoundAssumption
<1>0. TypeOK /\ Ordered /\ call = Idle /\ Bound
  BY DEF Base, FirstPlan, RevisePlan, Close, MayPublish, MayStart
<1>1. /\ UNCHANGED <<tracked, scope, store, uses, call, dirty>>
      /\ run'.revision = run.revision /\ run'.plan > 0
      /\ run.status # "waiting" /\ run'.status \in {"open", "reporting"}
      /\ Close \/ run'.plan > run.plan
  <2>1. CASE FirstPlan
    BY <1>0, <2>1 DEF FirstPlan, MayPublish, TypeOK
  <2>2. CASE RevisePlan
    BY <1>0, <2>2 DEF RevisePlan, MayPublish, TypeOK
  <2>3. CASE Close
    BY <1>0, <2>3 DEF Close, TypeOK
  <2> QED  BY <2>1, <2>2, <2>3
<1>2. ~Close => FirstPlan \/ RevisePlan
  OBVIOUS
<1>3. /\ decided' = decided /\ stale' = stale /\ intents' = intents /\ artifact' = artifact
      /\ binds' = binds /\ reading' = reading
  BY <1>1 DEF scope, store, uses
<1>4. Published' = Published /\ Standing' = Standing /\ Bound' /\ tracked \intersect stale = {}
  BY <1>0, <1>1, <1>3 DEF Published, Standing, Bound, Orderly, StaleShape
<1>5. \A h \in Handoff : ~Open(h)'
  <2>1. \A h \in Handoff : Kept(h) /\ ~Begins(h)'
    BY <1>1, AllKept DEF Begins, PrePlanApplicable
  <2>2. CASE Close
    <3>1. run'.status = "reporting"
      BY <1>0, <2>2 DEF Close, TypeOK
    <3>2. \A h \in Handoff : Whole(h)' /\ ~Live(h)'
      BY <3>1 DEF Loaded, ReportIsLast, Live, Matches
    <3> QED  BY <2>1, <3>2 DEF Open
  <2>3. CASE ~Close
    <3>1. ~dirty
      BY <1>2, <2>3 DEF FirstPlan, RevisePlan, MayPublish, MayStart
    <3>2. \A h \in Handoff : Whole(h)
      BY <1>0, <3>1, StartsWhole
    <3>3. \A h \in Handoff : Whole(h)'
      BY <1>1, <2>1, <3>2, KeptWhole
    <3>4. \A h \in Handoff : ~Live(h)'
      <4> SUFFICES ASSUME NEW h \in Handoff, intents[h] # None, intents[h].plan = run'.plan
                   PROVE  FALSE
        BY <1>3 DEF Live, Matches
      <4>1. intents[h].plan \in Nat /\ run.plan \in Nat
        BY <1>0 DEF TypeOK, Intent
      <4>2. intents[h].plan <= run.plan
        BY <1>0 DEF Ordered
      <4> QED  BY <1>1, <2>3, <4>1, <4>2
    <3> QED  BY <2>1, <3>3, <3>4 DEF Open
  <2> QED  BY <2>2, <2>3
<1>6. StaleShape'
  BY <1>1, <1>3, <1>4 DEF Orderly, StaleShape
<1>7. ScopeCalls'
  BY <1>0, <1>1, <1>4, IdleShape DEF ScopeCalls
<1>8. PrePlanIntents'
  <2> SUFFICES ASSUME NEW h \in Handoff, intents[h] # None, intents[h].plan = 0,
                      artifact[h] # "none", h \notin tracked \union stale
               PROVE  FALSE
    BY <1>1, <1>3, <1>4 DEF Orderly, PrePlanIntents
  <2>1. run.plan = 0 /\ intents[h].revision = run.revision
    BY DEF Orderly, PrePlanIntents
  <2>2. FirstPlan
    BY <2>1 DEF RevisePlan, Close
  <2>3. Whole(h)
    BY <1>0, <2>2, StartsWhole DEF FirstPlan, MayPublish, MayStart
  <2>4. run.revision \in Nat
    BY <1>0 DEF TypeOK, Revision
  <2> QED  BY <2>1, <2>3, <2>4 DEF Whole, Complete, Untouched
<1>9. PrePlanPending' /\ OneOpen' /\ RefusedIsMisbound'
  BY <1>0, <1>1, <1>5, IdleShape
     DEF PrePlanPending, OneOpen, RefusedIsMisbound, Begins, PrePlanApplicable
<1>10. Named'
  BY <1>3, <1>4, StillNamed
<1>11. Readings'
  BY <1>1, <1>3, <1>4 DEF Orderly, Readings
<1> QED  BY <1>6, <1>7, <1>8, <1>9, <1>10, <1>11 DEF Orderly

-----------------------------------------------------------------------------
LEMMA ProposeOrderly ==
  ASSUME RecoverFirst, Base, Progressing, Loaded, Orderly, Early', ProposeScope
  PROVE  Orderly'
<1> USE BoundAssumption
<1>0. TypeOK /\ Ordered /\ call = Idle /\ Bound /\ (run.plan = 0 => ~dirty)
  BY DEF Base, ProposeScope, MayRevise, TypeOK
<1>1. /\ decided' = [revision |-> run.revision + 1, confirmed |-> FALSE] /\ stale' = {}
      /\ call'.op = "scope" /\ call'.of = None /\ call'.at = "decided"
      /\ UNCHANGED <<manifest, first, store, uses, dirty>>
  BY DEF ProposeScope, Doing
<1>2. run.revision = 1 /\ decided.revision = 1 /\ decided'.revision = 2 /\ ~decided'.confirmed
  BY <1>0, <1>1 DEF Early, Bound, TypeOK, Revision
<1>3. stale = {}
  BY <1>2 DEF Orderly, StaleShape
<1>4. run' = run /\ tracked' = tracked /\ intents' = intents /\ artifact' = artifact
      /\ binds' = binds /\ reading' = reading
  BY <1>1 DEF manifest, store, uses
<1>5. Published' = Published /\ Standing' = Standing /\ ~Bound'
  BY <1>1, <1>2, <1>3, <1>4 DEF Published, Standing, Bound
<1>6. \A h \in Handoff : /\ Whole(h)' <=> Whole(h)
                         /\ Begins(h)' <=> Begins(h)
                         /\ Live(h)' <=> Live(h)
  <2>1. \A h \in Handoff : /\ Kept(h)
                           /\ Durable(h)' <=> Durable(h)
                           /\ Untouched(h)' <=> Untouched(h)
    BY <1>1, AllKept, KeptStore
  <2> QED
    BY <1>4, <2>1 DEF Whole, Complete, Begins, PrePlanApplicable, SameScope, Live, Matches
<1>7. run.plan = 0 => \A h \in Handoff : Whole(h) /\ ~Begins(h)
  BY <1>0, StartsWhole
<1>8. StaleShape'
  BY <1>1, <1>2, <1>3, <1>4, <1>5 DEF Orderly, StaleShape
<1>9. ScopeCalls'
  BY <1>1, <1>4, <1>5, <1>6, <1>7 DEF ScopeCalls, Capture
<1>10. PrePlanIntents'
  <2>1. \A h \in Handoff : intents[h] # None => intents[h].revision # 2
    <3> SUFFICES ASSUME NEW h \in Handoff, intents[h] # None
                 PROVE  intents[h].revision # 2
      OBVIOUS
    <3>1. intents[h].revision \in Nat /\ intents[h].revision <= 1
      BY <1>0, <1>2 DEF Ordered, TypeOK, Intent, Revision
    <3> QED  BY <3>1
  <2> QED  BY <1>1, <1>2, <1>3, <1>4, <1>5, <2>1 DEF Orderly, PrePlanIntents
<1>11. PrePlanPending'
  BY <1>6, <1>7 DEF PrePlanPending, Begins, PrePlanApplicable
<1>12. OneOpen' /\ RefusedIsMisbound'
  BY <1>1, <1>6 DEF Orderly, OneOpen, Open, RefusedIsMisbound
<1>13. Named'
  BY <1>4, <1>5, StillNamed
<1>14. Readings'
  BY <1>0, <1>1, <1>3, <1>4, <1>5, IdleShape DEF Orderly, Readings
<1> QED  BY <1>8, <1>9, <1>10, <1>11, <1>12, <1>13, <1>14 DEF Orderly

LEMMA ConfirmOrderly ==
  ASSUME RecoverFirst, Base, Progressing, Loaded, Orderly, ConfirmScope
  PROVE  Orderly'
<1> USE HandoffAssumption, BoundAssumption
<1>0. /\ TypeOK /\ Ordered /\ call = Idle /\ Bound
      /\ run.status = "waiting" /\ (run.plan = 0 => ~dirty)
  BY DEF Base, ConfirmScope, MayRevise, TypeOK
<1>1. /\ decided'.revision = decided.revision /\ decided'.confirmed
      /\ stale' = IF run.plan = 0 THEN PrePlanFormation ELSE {}
      /\ call'.op = "scope" /\ call'.of = None /\ call'.at = "decided"
      /\ UNCHANGED <<manifest, first, store, uses, dirty>>
  BY <1>0 DEF ConfirmScope, Doing, TypeOK
<1>2. decided.revision = 2 /\ ~decided.confirmed /\ stale = {}
  BY <1>0 DEF Bound, Orderly, StaleShape
<1>3. run' = run /\ tracked' = tracked /\ intents' = intents /\ artifact' = artifact
      /\ binds' = binds /\ reading' = reading /\ Published' = Published
  BY <1>1 DEF manifest, store, uses, Published
<1>4. ~Bound'
  BY <1>0, <1>1, <1>3 DEF Bound
<1>5. \A h \in Handoff : /\ Whole(h)' <=> Whole(h)
                         /\ Live(h)' <=> Live(h)
                         /\ ~Begins(h) /\ ~Begins(h)'
  <2>1. \A h \in Handoff : /\ Kept(h)
                           /\ Durable(h)' <=> Durable(h)
                           /\ Untouched(h)' <=> Untouched(h)
    BY <1>1, AllKept, KeptStore
  <2> QED
    BY <1>0, <1>3, <2>1 DEF Whole, Complete, Begins, PrePlanApplicable, SameScope, Live, Matches
<1>6. run.plan = 0 => \A h \in Handoff : Whole(h) /\ reading[h] # "prepared"
  BY <1>0, StartsWhole
<1>7. run.plan = 0 => stale' = Published /\ Standing' = {}
  <2> SUFFICES ASSUME run.plan = 0 PROVE Published \subseteq PrePlanFormation
    BY <1>1, <1>3 DEF Standing, PrePlanFormation
  <2> SUFFICES ASSUME NEW d \in Published
               PROVE  \/ d \in Revision \union {Concept}
                      \/ d \in Handoff /\ intents[d].plan = 0
    BY DEF PrePlanFormation
  <2>1. CASE d \in Handoff
    <3>1. intents[d] # None
      BY <1>0, <2>1 DEF TypeOK, Untouched, Published
    <3>2. intents[d].plan \in Nat /\ intents[d].plan <= 0
      BY <1>0, <2>1, <3>1 DEF TypeOK, Intent, Ordered
    <3> QED  BY <2>1, <3>2
  <2>2. CASE d \in Target
    BY <2>2 DEF Orderly, StaleShape
  <2> QED  BY <2>1, <2>2 DEF Published, Doc
<1>8. run.plan # 0 => stale' = {} /\ Standing' = Standing
  BY <1>1, <1>2, <1>3 DEF Standing
<1>9. StaleShape'
  <2>1. CASE run.plan = 0
    BY <1>1, <1>2, <1>3, <1>4, <1>7, <2>1 DEF Orderly, StaleShape
  <2>2. CASE run.plan # 0
    BY <1>1, <1>2, <1>3, <1>8, <2>2 DEF Orderly, StaleShape
  <2> QED  BY <2>1, <2>2
<1>10. ScopeCalls'
  BY <1>1, <1>3, <1>4, <1>5, <1>6 DEF ScopeCalls, Capture
<1>11. PrePlanIntents'
  <2>1. CASE run.plan = 0
    <3>1. \A h \in Handoff : artifact[h] # "none" => h \in Published
      BY <1>6, <2>1 DEF Whole, Complete, Durable, Untouched, Published, Doc
    <3>2. \A h \in Handoff : intents[h] # None => intents[h].revision # decided.revision
      <4> SUFFICES ASSUME NEW h \in Handoff, intents[h] # None
                   PROVE  intents[h].revision # decided.revision
        OBVIOUS
      <4>1. intents[h].revision < run.revision /\ run.revision = 2 /\ intents[h].revision \in Nat
        BY <1>0, <1>2 DEF Ordered, Bound, TypeOK, Intent, Revision
      <4> QED  BY <1>2, <4>1
    <3> QED  BY <1>1, <1>3, <1>7, <2>1, <3>1, <3>2 DEF Orderly, PrePlanIntents
  <2>2. CASE run.plan # 0
    BY <1>1, <1>2, <1>3, <1>8, <2>2 DEF Orderly, PrePlanIntents
  <2> QED  BY <2>1, <2>2
<1>12. PrePlanPending' /\ OneOpen' /\ RefusedIsMisbound'
  BY <1>1, <1>5 DEF Orderly, PrePlanPending, OneOpen, Open, RefusedIsMisbound
<1>13. Named'
  <2>1. CASE run.plan = 0
    BY <1>7, <2>1 DEF Named
  <2>2. CASE run.plan # 0
    BY <1>3, <1>8, <2>2, StillNamed
  <2> QED  BY <2>1, <2>2
<1>14. Readings'
  <2>1. CASE run.plan = 0
    <3>1. \A h \in Handoff : reading[h] # "none" => h \in Published
      BY <1>0 DEF TypeOK, Published, Doc
    <3> QED  BY <1>1, <1>3, <1>6, <1>7, <2>1, <3>1 DEF Orderly, Readings
  <2>2. CASE run.plan # 0
    BY <1>0, <1>1, <1>2, <1>3, <1>8, <2>2, IdleShape DEF Orderly, Readings
  <2> QED  BY <2>1, <2>2
<1> QED  BY <1>9, <1>10, <1>11, <1>12, <1>13, <1>14 DEF Orderly

-----------------------------------------------------------------------------
\* The Manifest is bound to the latest Scope decision, in its call or by load-run.
LEMMA ReboundOrderly ==
  ASSUME Base, Loaded, Orderly, run' = Rebound,
         UNCHANGED <<scope, store, uses>>, call' = Idle,
         tracked \ stale \subseteq tracked', tracked' \subseteq Standing,
         \A h \in Handoff : Begins(h) \/ Live(h) => ~Bound,
         \A h \in Handoff : reading[h] = "prepared" => dirty'
  PROVE  Orderly'
<1> USE BoundAssumption
<1>0. TypeOK /\ Ordered /\ StaleIsOld
  BY DEF Base
<1>1. /\ decided' = decided /\ stale' = stale /\ intents' = intents /\ artifact' = artifact
      /\ binds' = binds /\ reading' = reading
  BY DEF scope, store, uses
<1>2. /\ run'.revision = decided.revision /\ run'.plan = run.plan
      /\ Bound => run' = run
      /\ ~Bound => run'.status \in {"waiting", "unclear"}
      /\ ~decided.confirmed => run'.status = "waiting"
  BY <1>0, ReboundOK
<1>3. Published' = Published /\ Standing' = Standing /\ tracked' \intersect stale = {}
  BY <1>1 DEF Published, Standing
<1>4. Bound'
  <2>1. CASE Bound
    BY <1>1, <1>2, <2>1 DEF Bound
  <2>2. CASE ~Bound
    <3>1. decided.confirmed => run'.status = "unclear"
      BY <1>0, <2>2 DEF Rebound, TypeOK
    <3> QED  BY <1>1, <1>2, <3>1 DEF Bound
  <2> QED  BY <2>1, <2>2
<1>5. \A h \in Handoff : Whole(h) => Whole(h)'
  <2> SUFFICES ASSUME NEW h \in Handoff, Whole(h)
               PROVE  Whole(h)'
    OBVIOUS
  <2>1. CASE Untouched(h)
    BY <2>1, AllKept, KeptStore DEF Whole
  <2>2. CASE Complete(h)
    <3>1. UNCHANGED <<store, stale, decided>> /\ (h \in tracked => h \in tracked' \/ h \in stale)
      BY <1>1
    <3> QED  BY <2>2, <3>1, ReboundWhole DEF Whole
  <2> QED  BY <2>1, <2>2 DEF Whole
<1>6. \A h \in Handoff : ~Begins(h)' /\ ~Live(h)'
  <2> SUFFICES ASSUME NEW h \in Handoff
               PROVE  ~Begins(h)' /\ ~Live(h)'
    OBVIOUS
  <2>1. Untouched(h)' <=> Untouched(h)
    BY AllKept, KeptStore
  <2>2. CASE Bound
    <3>1. tracked \subseteq tracked'
      BY <2>2 DEF Orderly, StaleShape
    <3> QED
      BY <1>1, <1>2, <2>1, <2>2, <3>1
         DEF Begins, PrePlanApplicable, SameScope, Live, Matches
  <2>3. CASE ~Bound
    <3>1. ~Live(h)'
      BY <1>2, <2>3 DEF Live, Matches
    <3>2. ASSUME intents[h] # None, intents[h].revision = decided.revision, decided.confirmed
          PROVE  FALSE
      <4>1. /\ intents[h].revision \in Nat /\ run.revision \in Nat /\ decided.revision \in Nat
            /\ intents[h].revision <= run.revision /\ run.revision <= decided.revision
            /\ run.status = "waiting" => intents[h].revision < run.revision
        BY <1>0, <3>2 DEF Ordered, TypeOK, Intent, Revision
      <4>2. decided.revision = run.revision /\ run.status # "waiting"
        BY <3>2, <4>1
      <4> QED  BY <2>3, <3>2, <4>2 DEF Bound
    <3>3. ~Begins(h)'
      BY <1>1, <1>2, <3>2 DEF Begins, PrePlanApplicable, SameScope
    <3> QED  BY <3>1, <3>3
  <2> QED  BY <2>2, <2>3
<1>7. StaleShape'
  BY <1>1, <1>2, <1>3 DEF Orderly, StaleShape, Standing
<1>8. ScopeCalls'
  BY <1>4, IdleShape DEF ScopeCalls
<1>9. PrePlanIntents'
  <2> SUFFICES ASSUME NEW h \in Handoff, intents[h] # None, intents[h].plan = 0,
                      artifact[h] # "none", h \notin tracked \union stale
               PROVE  run.plan = 0 /\ intents[h].revision = decided.revision
    BY <1>1, <1>2, <1>3 DEF Orderly, PrePlanIntents
  <2>1. run.plan = 0 /\ intents[h].revision = run.revision
    BY DEF Orderly, PrePlanIntents
  <2>2. CASE Bound
    BY <2>1, <2>2 DEF Bound
  <2>3. CASE ~Bound
    <3>1. Whole(h) /\ run.revision \in Nat
      BY <1>0, <2>1, <2>3 DEF Orderly, ScopeCalls, TypeOK, Revision
    <3> QED  BY <2>1, <3>1 DEF Whole, Complete, Untouched
  <2> QED  BY <2>2, <2>3
<1>10. PrePlanPending' /\ RefusedIsMisbound'
  BY <1>6, IdleShape DEF PrePlanPending, RefusedIsMisbound
<1>11. OneOpen'
  <2>1. \A h \in Handoff : Open(h)' => Open(h)
    BY <1>5, <1>6 DEF Open
  <2> QED  BY <2>1, IdleShape DEF Orderly, OneOpen
<1>12. Named'
  BY <1>1, <1>3, StillNamed
<1>13. Readings'
  BY <1>1, <1>3, IdleShape DEF Orderly, Readings
<1> QED  BY <1>7, <1>8, <1>9, <1>10, <1>11, <1>12, <1>13 DEF Orderly

LEMMA IndexScopeOrderly ==
  ASSUME Base, Loaded, Orderly, IndexScope
  PROVE  Orderly'
<1>1. /\ run' = Rebound /\ UNCHANGED <<scope, store, uses>> /\ call' = Idle
      /\ tracked' = tracked \ stale /\ dirty' = dirty /\ call.op = "scope" /\ ~Bound
  BY DEF IndexScope, Done, Orderly, ScopeCalls
<1>2. tracked \subseteq Published
  BY DEF Base, TypeOK
<1>3. \A h \in Handoff : reading[h] = "prepared" => dirty'
  BY <1>1 DEF Orderly, Readings
<1> QED  BY <1>1, <1>2, <1>3, ReboundOrderly DEF Standing

LEMMA LoadOrderly ==
  ASSUME Base, Progressing, Loaded, Orderly, Load
  PROVE  Orderly'
<1>1. /\ run' = Rebound /\ UNCHANGED <<scope, store, uses>> /\ call' = Idle
      /\ tracked' = Standing /\ call.at = "manifest"
  BY DEF Load, Standing
<1>2. call.op = "load" /\ call.todo = {}
  <2>1. call.op = "load"
    BY <1>1, CallSteps DEF Base, Capture, Op
  <2> QED  BY <1>1, <2>1 DEF Progressing, LoadProgress
<1>3. tracked \subseteq Published
  BY DEF Base, TypeOK
<1>4. \A h \in Handoff : ~Begins(h) /\ ~Live(h)
  BY <1>1, <1>2 DEF Orderly, PrePlanPending, Loaded, LiveIsPending
<1>5. \A h \in Handoff : reading[h] # "prepared"
  BY <1>1, <1>2 DEF Orderly, Readings
<1> QED  BY <1>1, <1>3, <1>4, <1>5, ReboundOrderly DEF Standing

-----------------------------------------------------------------------------
\* Steps that leave the documents and the Manifest alone and begin nothing.
LEMMA StillOrderly ==
  ASSUME Base, Orderly, UNCHANGED <<manifest, scope, store, binds>>,
         call.op # "create", dirty => dirty',
         call'.op \notin {"create", "repeat", "scope", "read"},
         call'.at \notin Capture,
         call'.op = "load" => call'.at = "evidence" \/ \A h \in Handoff : ~Begins(h),
         \A h \in Handoff : /\ reading'[h] = "none" <=> reading[h] = "none"
                            /\ reading[h] = "logged" => reading'[h] = "logged"
                            /\ reading'[h] = "prepared" =>
                                 dirty /\ ~(call'.op = "load" /\ call'.at = "manifest"),
         \A h \in Handoff : reading'[h] \in {"none", "prepared", "logged"},
         call'.op = "refused" => \E h \in Handoff : Misbound(h)
  PROVE  Orderly'
<1>0. TypeOK
  BY DEF Base
<1>1. /\ run' = run /\ tracked' = tracked /\ decided' = decided /\ stale' = stale
      /\ intents' = intents /\ binds' = binds
  BY DEF manifest, scope, store
<1>2. /\ StaleShape' /\ PrePlanIntents' /\ Standing' = Standing /\ (Bound' <=> Bound)
      /\ \A h \in Handoff : /\ Begins(h)' <=> Begins(h)
                            /\ Open(h)' <=> Open(h)
                            /\ Whole(h)' <=> Whole(h)
                            /\ Misbound(h)' <=> Misbound(h)
  BY StillShape
<1>3. ScopeCalls'
  BY <1>1, <1>2 DEF Orderly, ScopeCalls
<1>4. PrePlanPending'
  <2> SUFFICES ASSUME NEW h \in Handoff, Begins(h)
               PROVE  Bound /\ dirty' /\ (call'.op = "load" => call'.at = "evidence")
    BY <1>2 DEF PrePlanPending
  <2> QED  BY DEF Orderly, PrePlanPending
<1>5. OneOpen'
  BY <1>2 DEF Orderly, OneOpen, Capture
<1>6. Named'
  <2> SUFFICES ASSUME NEW t \in Target, t \in Standing
               PROVE  /\ binds[t].of = ReadFor(t, Standing)'
                      /\ \A h \in binds[t].of : Applies(h, binds[t].plan)
    BY <1>1, <1>2 DEF Named, Applies
  <2>1. \A h \in Handoff : TargetOf[h] = t => (reading'[h] = "logged" <=> reading[h] = "logged")
    <3>1. \A h \in Handoff : reading[h] = "prepared" => TargetOf[h] # t
      BY DEF Orderly, Readings
    <3> QED  BY <1>0, <3>1 DEF TypeOK
  <2>2. ReadFor(t, Standing)' = ReadFor(t, Standing)
    BY <1>2, <2>1 DEF ReadFor
  <2> QED  BY <2>2 DEF Orderly, Named
<1>7. Readings'
  <2>1. \A h \in Handoff : reading'[h] = "prepared" => reading[h] = "prepared"
    BY <1>0 DEF TypeOK
  <2> QED  BY <1>1, <1>2, <2>1 DEF Orderly, Readings
<1>8. RefusedIsMisbound'
  BY <1>2 DEF RefusedIsMisbound
<1> QED  BY <1>2, <1>3, <1>4, <1>5, <1>6, <1>7, <1>8 DEF Orderly

LEMMA AppendOrderly ==
  ASSUME Base, Orderly, Append
  PROVE  Orderly'
<1>0. TypeOK /\ CallOK
  BY DEF Base
<1>1. /\ call.op = "read" /\ call.of \in Handoff /\ call' = Idle /\ dirty' = dirty
      /\ reading' = [reading EXCEPT ![call.of] = "logged"]
      /\ UNCHANGED <<manifest, scope, store, binds>>
  BY <1>0 DEF Append, Done, CallOK
<1>2. reading[call.of] = "prepared"
  BY <1>1 DEF Orderly, Readings
<1>3. \A h \in Handoff : /\ reading'[h] = "none" <=> reading[h] = "none"
                         /\ reading[h] = "logged" => reading'[h] = "logged"
                         /\ reading'[h] # "prepared"
                         /\ reading'[h] \in {"none", "prepared", "logged"}
  <2>1. \A h \in Handoff : reading[h] = "prepared" => h = call.of
    BY <1>1, <1>2 DEF Orderly, Readings
  <2> QED  BY <1>0, <1>1, <1>2, <2>1 DEF TypeOK
<1> QED  BY <1>1, <1>3, StillOrderly, IdleShape DEF Capture

LEMMA LoadLogsOrderly ==
  ASSUME Base, Orderly, LoadLogs
  PROVE  Orderly'
<1>0. TypeOK /\ CallOK
  BY DEF Base
<1>1. /\ call.op = "load" /\ call.at = "handoffs" /\ call.todo = {}
      /\ call'.op = "load" /\ call'.at = "manifest" /\ dirty' = dirty
      /\ UNCHANGED <<manifest, scope, store, binds>>
  BY <1>0, CallSteps DEF LoadLogs, Go, Capture, Op
<1>2. \A h \in Handoff : /\ reading'[h] = "none" <=> reading[h] = "none"
                         /\ reading[h] = "logged" => reading'[h] = "logged"
                         /\ reading'[h] # "prepared"
                         /\ reading'[h] \in {"none", "prepared", "logged"}
  BY <1>0 DEF LoadLogs, TypeOK
<1>3. \A h \in Handoff : ~Begins(h)
  BY <1>1 DEF Orderly, PrePlanPending
<1> QED  BY <1>1, <1>2, <1>3, StillOrderly DEF Capture

LEMMA LoadStartOrderly ==
  ASSUME Base, Orderly, LoadStart \/ Crash
  PROVE  Orderly'
<1>0. TypeOK
  BY DEF Base
<1>1. /\ UNCHANGED <<manifest, scope, store, uses>> /\ (dirty => dirty')
      /\ \/ /\ call.op \in {"idle", "refused"}
            /\ call'.op = "load" /\ call'.at = "evidence"
         \/ Crash /\ call' = Idle /\ dirty'
  BY IdleShape DEF LoadStart, Crash, Abort, Doing
<1>2. CASE ~Crash
  <2>1. \A h \in Handoff : reading[h] = "prepared" => dirty
    BY <1>1, <1>2 DEF Orderly, Readings
  <2> QED  BY <1>0, <1>1, <1>2, <2>1, StillOrderly DEF uses, TypeOK, Capture
<1>3. CASE Crash
  <2>1. /\ run' = run /\ tracked' = tracked /\ decided' = decided /\ stale' = stale
        /\ intents' = intents /\ binds' = binds /\ reading' = reading /\ call' = Idle /\ dirty'
    BY <1>1, <1>3, IdleShape DEF Crash, Abort, manifest, scope, store, uses
  <2>2. /\ StaleShape' /\ PrePlanIntents' /\ Standing' = Standing /\ (Bound' <=> Bound)
        /\ \A h \in Handoff : /\ Begins(h)' <=> Begins(h)
                              /\ Open(h)' <=> Open(h)
                              /\ Whole(h)' <=> Whole(h)
    BY <1>1, StillShape
  <2>3. ScopeCalls'
    BY <2>1, <2>2, IdleShape DEF Orderly, ScopeCalls, Capture
  <2>4. PrePlanPending' /\ OneOpen' /\ RefusedIsMisbound'
    BY <2>1, <2>2, IdleShape DEF Orderly, PrePlanPending, OneOpen, RefusedIsMisbound
  <2>5. Named'
    BY <2>1, <2>2, StillNamed
  <2>6. Readings'
    BY <2>1, <2>2, IdleShape DEF Orderly, Readings
  <2> QED  BY <2>2, <2>3, <2>4, <2>5, <2>6 DEF Orderly
<1> QED  BY <1>2, <1>3

LEMMA LoadReceiptsOrderly ==
  ASSUME Base, Orderly, LoadEvidence \/ LoadArtifacts
  PROVE  Orderly'
<1> USE HandoffAssumption
<1>0. TypeOK /\ CallOK /\ ImportsFirst
  BY DEF Base
<1>1. /\ run' = run /\ tracked' = tracked /\ decided' = decided /\ stale' = stale
      /\ intents' = intents /\ binds' = binds /\ reading' = reading /\ dirty' = dirty
      /\ call.op = "load" /\ call'.op = "load"
      /\ \/ call'.at = "artifacts"
         \/ call'.at = "handoffs" /\ call'.todo = {h \in Handoff : intents[h] # None}
  BY <1>0, CallSteps
     DEF LoadEvidence, LoadArtifacts, Go, Capture, Op, manifest, scope, uses
<1>2. \A d \in Doc : /\ artifact'[d] = "none" <=> artifact[d] = "none"
                     /\ artifact[d] = "published" => artifact'[d] = "published"
                     /\ artifact'[d] = "published" => artifact[d] # "none"
                     /\ artifact'[d] = "prepared" => artifact[d] = "prepared"
  BY <1>0 DEF LoadEvidence, LoadArtifacts, TypeOK
<1>3. \A h \in Handoff : /\ Untouched(h)' <=> Untouched(h)
                         /\ Imported(h) => Imported(h)'
  <2>1. CASE LoadEvidence
    BY <1>0, <2>1 DEF LoadEvidence, Untouched, Imported, Recorded, TypeOK
  <2>2. CASE LoadArtifacts
    BY <1>0, <2>2 DEF LoadArtifacts, Untouched, Imported, Recorded, TypeOK, Doc
  <2> QED  BY <2>1, <2>2
<1>4. \A h \in Handoff : /\ Whole(h) => Whole(h)'
                         /\ Begins(h)' <=> Begins(h)
                         /\ Live(h)' <=> Live(h)
                         /\ Open(h)' => Open(h)
  <2>1. \A h \in Handoff : /\ Begins(h)' <=> Begins(h)
                           /\ Live(h)' <=> Live(h)
    BY <1>1, <1>3 DEF Begins, PrePlanApplicable, SameScope, Live, Matches
  <2>2. \A h \in Handoff : Whole(h) => Whole(h)'
    BY <1>1, <1>2, <1>3 DEF Whole, Complete, Durable, Doc
  <2> QED  BY <2>1, <2>2 DEF Open
<1>5. /\ Published \subseteq Published' /\ Published' \ Published \subseteq Handoff
      /\ Standing \subseteq Standing' /\ Standing' \ Standing \subseteq Handoff
  <2>1. \A d \in Doc : artifact[d] = "prepared" => d \in Handoff
    BY DEF Orderly, StaleShape
  <2>2. \A d \in Doc : artifact'[d] = "published" => artifact[d] = "published" \/ d \in Handoff
    BY <1>0, <1>2, <2>1 DEF TypeOK
  <2> QED  BY <1>1, <1>2, <2>2 DEF Published, Standing
<1>6. run.plan = 0 /\ ~Bound => Published' = Published
  <2> SUFFICES ASSUME run.plan = 0, ~Bound, NEW d \in Published', d \notin Published
               PROVE  FALSE
    BY <1>5
  <2>1. d \in Handoff /\ artifact[d] # "none" /\ artifact[d] # "published"
    BY <1>2, <1>5 DEF Published
  <2>2. Whole(d)
    BY <2>1 DEF Orderly, ScopeCalls
  <2> QED  BY <2>1, <2>2 DEF Whole, Complete, Durable, Untouched
<1>7. StaleShape'
  <2>1. tracked \intersect stale # {} => run.plan = 0 /\ ~Bound /\ Published' \subseteq stale
    BY <1>6 DEF Orderly, StaleShape
  <2>2. Published' \intersect Target = Published \intersect Target
    BY <1>5
  <2>3. Standing' \ tracked \subseteq Handoff
    BY <1>5 DEF Orderly, StaleShape
  <2> QED  BY <1>1, <1>2, <1>5, <2>1, <2>2, <2>3 DEF Orderly, StaleShape, Bound
<1>8. ScopeCalls'
  BY <1>1, <1>4 DEF Orderly, ScopeCalls, Bound, Capture
<1>9. PrePlanIntents'
  BY <1>1, <1>2, <1>5 DEF Orderly, PrePlanIntents, Doc
<1>10. PrePlanPending'
  <2> SUFFICES ASSUME NEW h \in Handoff, Begins(h)
               PROVE  /\ Bound' /\ dirty'
                      /\ call'.at \notin {"evidence", "artifacts"} => h \in call'.todo
    BY <1>4 DEF PrePlanPending
  <2> QED  BY <1>1 DEF Orderly, PrePlanPending, Begins, Bound
<1>11. OneOpen' /\ RefusedIsMisbound'
  BY <1>1, <1>4 DEF Orderly, OneOpen, RefusedIsMisbound
<1>12. Named'
  <2> SUFFICES ASSUME NEW t \in Target, t \in Standing'
               PROVE  /\ binds[t].of = ReadFor(t, Standing)'
                      /\ \A h \in binds[t].of : Applies(h, binds[t].plan)
    BY <1>1 DEF Named, Applies
  <2>1. t \in Standing
    BY <1>5
  <2>2. \A h \in Handoff : reading[h] = "logged" /\ h \in Standing' => h \in Standing
    <3>1. \A h \in Handoff : reading[h] = "logged" => artifact[h] = "published"
      BY <1>0 DEF TypeOK
    <3> QED  BY <1>1, <3>1 DEF Standing, Published, Doc
  <2>3. ReadFor(t, Standing)' = ReadFor(t, Standing)
    BY <1>1, <1>5, <2>2 DEF ReadFor
  <2> QED  BY <2>1, <2>3 DEF Orderly, Named
<1>13. Readings'
  <2>1. \A h \in Handoff : TargetOf[h] \notin Standing => TargetOf[h] \notin Standing'
    BY <1>5
  <2> QED  BY <1>1, <2>1 DEF Orderly, Readings
<1> QED  BY <1>7, <1>8, <1>9, <1>10, <1>11, <1>12, <1>13 DEF Orderly

\* load-run finds the ScopeFrame of every handoff that could still be begun.
LEMMA ReplayOrderly ==
  ASSUME Base, Orderly, NEW h \in Handoff, Replay(h)
  PROVE  Orderly'
<1>0. TypeOK /\ CallOK /\ call.op = "load" /\ call.at = "handoffs" /\ h \in call.todo
      /\ intents[h] # None /\ ~Unresolved(h)
  BY CallSteps DEF Base, Replay, Capture, Op, CallOK
<1>1. /\ UNCHANGED <<manifest, scope, store, uses, dirty>>
      /\ call'.op = "load" /\ call'.todo = call.todo \ {h}
      /\ IF ~Durable(h) /\ Replayable(h)
         THEN call'.at = "import" /\ call'.of = h
         ELSE call'.at = "handoffs"
  BY <1>0, CallSteps DEF Replay
<1>2. /\ StaleShape' /\ PrePlanIntents' /\ Standing' = Standing /\ (Bound' <=> Bound)
      /\ \A g \in Handoff : /\ Begins(g)' <=> Begins(g)
                            /\ Open(g)' <=> Open(g)
                            /\ Whole(g)' <=> Whole(g)
  BY <1>1, StillShape
<1>3. run.plan = 0 /\ ~Bound => call'.at = "handoffs"
  <2> SUFFICES ASSUME run.plan = 0, ~Bound, ~Durable(h), Replayable(h)
               PROVE  FALSE
    BY <1>1
  <2>1. Untouched(h)
    BY DEF Orderly, ScopeCalls, Whole, Complete
  <2>2. Applicable(h) /\ ~Started(h)
    BY <2>1 DEF Replayable, Started, Recorded, Untouched
  <2> QED  BY <1>0, <2>2 DEF Applicable, Unresolved
<1>4. ScopeCalls'
  BY <1>1, <1>2, <1>3 DEF Orderly, ScopeCalls, Capture, manifest
<1>5. Begins(h) => ~Durable(h) /\ Replayable(h)
  <2> SUFFICES ASSUME Begins(h)
               PROVE  ~Durable(h) /\ Applicable(h)
    BY DEF Replayable
  <2>1. artifact[h] = "none" /\ PrePlanApplicable(h) /\ Bound
    BY DEF Begins, Untouched, Orderly, PrePlanPending
  <2>2. /\ intents[h].plan = 0 /\ intents[h].revision = run.revision
        /\ run.revision = decided.revision
    BY <2>1 DEF PrePlanApplicable, SameScope, Bound
  <2>3. h \notin stale
    BY <2>1 DEF Orderly, StaleShape, Published
  <2>4. intents[h].scope = run.revision /\ run.revision \in Standing
    BY <1>0, <2>2, <2>3 DEF Orderly, PrePlanIntents
  <2> QED  BY <2>1, <2>4 DEF Applicable, CurrentFrame, Standing, Durable
<1>6. PrePlanPending'
  <2> SUFFICES ASSUME NEW g \in Handoff, Begins(g)
               PROVE  Bound /\ dirty /\ (g \in call'.todo \/ (g = call'.of /\ call'.at = "import"))
    BY <1>1, <1>2 DEF PrePlanPending
  <2>1. Bound /\ dirty /\ g \in call.todo
    BY <1>0 DEF Orderly, PrePlanPending
  <2> QED  BY <1>1, <1>5, <2>1
<1>7. OneOpen'
  <2>1. call'.at = "import" => call'.of = h /\ Open(h)'
    BY <1>0, <1>1, <1>2, ReplayOpens
  <2>2. call'.at \in {"import", "check", "publish"} => Open(call.of)'
    BY <1>1, <2>1
       DEF Open, Whole, Complete, Durable, Imported, Recorded, Untouched, Begins, Live, Matches,
           PrePlanApplicable, SameScope
  <2> QED  BY <1>2, <2>2 DEF Orderly, OneOpen
<1>8. Named'
  BY <1>1, <1>2, StillNamed DEF uses, store
<1>9. Readings'
  BY <1>0, <1>1, <1>2 DEF Orderly, Readings, manifest, scope, uses
<1>10. RefusedIsMisbound'
  BY <1>1 DEF RefusedIsMisbound
<1> QED  BY <1>2, <1>4, <1>6, <1>7, <1>8, <1>9, <1>10 DEF Orderly

-----------------------------------------------------------------------------
\* Without a handoff that names a superseded ScopeFrame the references are there.
LEMMA FrameStands ==
  ASSUME Base, Orderly, NEW h \in Handoff, intents[h] # None, ~Misbound(h),
         h \notin stale, artifact[h] # "none" \/ intents[h].revision = decided.revision
  PROVE  intents[h].scope \in tracked \union Standing
<1>1. CASE intents[h].plan = 0
  BY <1>1 DEF Orderly, PrePlanIntents
<1>2. CASE intents[h].plan # 0
  BY <1>2, BoundAssumption DEF Base, TypeOK, Intent, Misbound
<1> QED  BY <1>1, <1>2

LEMMA AdmittedUnlessMisbound ==
  ASSUME Base, Loaded, Orderly, call.at = "publish", \A h \in Handoff : ~Misbound(h)
  PROVE  Admitted
<1> USE HandoffAssumption
<1>0. TypeOK /\ CallOK /\ ImportsFirst
  BY DEF Base
<1>1. /\ call.of \in Handoff /\ intents[call.of] # None /\ Imported(call.of)
      /\ artifact[call.of] # "published" /\ call.at \in Capture
  BY <1>0 DEF CallOK, Capture
<1>2. tracked \intersect stale = {} /\ call.of \notin stale
  BY <1>1 DEF Orderly, StaleShape, ScopeCalls, Published
<1>3. \A s \in Revision : s \in tracked \union Standing => s \in tracked
  BY DEF Orderly, StaleShape
<1>4. ASSUME NEW h \in Handoff, h \in tracked \union {call.of}
      PROVE  intents[h].scope \in tracked /\ Imported(h)
  <2>1. intents[h] # None /\ h \notin stale /\ Imported(h)
    BY <1>0, <1>1, <1>2, <1>4 DEF TypeOK, Untouched, ImportsFirst, Published
  <2>2. intents[h].scope \in Revision
    BY <1>0, <2>1 DEF TypeOK, Intent
  <2>3. CASE artifact[h] # "none"
    BY <1>3, <2>1, <2>2, <2>3, FrameStands
  <2>4. CASE artifact[h] = "none"
    <3>1. h = call.of
      BY <1>0, <1>4, <2>4 DEF TypeOK, Published
    <3>2. CASE intents[h].plan = 0
      <4>1. Untouched(call.of)
        BY <2>1, <2>4, <3>1, <3>2 DEF Orderly, PrePlanIntents, Untouched
      <4>2. intents[h].revision = decided.revision
        BY <3>1, <4>1 DEF Loaded, BegunIsCurrent
      <4> QED  BY <1>3, <2>1, <2>2, <4>2, FrameStands
    <3>3. CASE intents[h].plan # 0
      BY <1>0, <2>1, <3>3, BoundAssumption DEF TypeOK, Intent, Misbound
    <3> QED  BY <3>2, <3>3
  <2> QED  BY <2>1, <2>3, <2>4
<1>5. ASSUME NEW t \in Target, t \in tracked \union {call.of}
      PROVE  /\ binds[t].of = ReadFor(t, tracked \union {call.of})
             /\ \A h \in binds[t].of : Applies(h, binds[t].plan)
  <2>1. t \in Standing
    BY <1>0, <1>1, <1>2, <1>5 DEF TypeOK, Standing
  <2>2. reading[call.of] = "none"
    BY <1>0, <1>1 DEF TypeOK
  <2>3. ReadFor(t, tracked \union {call.of}) = ReadFor(t, tracked)
    BY <2>2 DEF ReadFor
  <2> QED  BY <1>2, <2>1, <2>3, ReadsStand DEF Orderly, Named
<1> QED  BY <1>4, <1>5 DEF Admitted, Sound

LEMMA RebuildsUnlessMisbound ==
  ASSUME Base, Orderly, \A h \in Handoff : ~Misbound(h)
  PROVE  Sound(Standing)
<1> USE HandoffAssumption
<1>0. TypeOK /\ ImportsFirst
  BY DEF Base
<1>1. Standing # {} => tracked \subseteq Standing
  BY <1>0 DEF Orderly, StaleShape, Standing, TypeOK
<1>2. ASSUME NEW h \in Handoff, h \in Standing
      PROVE  intents[h].scope \in Standing /\ Imported(h)
  <2>1. intents[h] # None /\ h \notin stale /\ Imported(h) /\ artifact[h] # "none"
    BY <1>0, <1>2 DEF TypeOK, Untouched, ImportsFirst, Published, Standing
  <2> QED  BY <1>1, <1>2, <2>1, FrameStands
<1> QED  BY <1>2 DEF Sound, Orderly, Named

LEMMA RefusedOrderly ==
  ASSUME Base, Progressing, Loaded, Orderly, LoadRefused
  PROVE  Orderly'
<1>0. TypeOK /\ CallOK /\ call.op = "load" /\ LoadFails
  BY DEF Base, LoadRefused
<1>1. \E h \in Handoff : Misbound(h)
  <2> SUFFICES ASSUME \A h \in Handoff : ~Misbound(h)
               PROVE  FALSE
    OBVIOUS
  <2>1. ASSUME call.at = "handoffs", NEW h \in call.todo, Unresolved(h)
        PROVE  FALSE
    <3>1. /\ h \in Handoff /\ intents[h] # None /\ ~Bound /\ ~Started(h)
          /\ PrePlanApplicable(h)
      BY <1>0, <2>1 DEF CallOK, TypeOK, Unresolved
    <3>2. Whole(h)
      BY <3>1 DEF Orderly, ScopeCalls, PrePlanApplicable
    <3>3. Untouched(h)
      BY <3>1, <3>2 DEF Whole, Complete, Durable, Started
    <3> QED  BY <3>1, <3>3 DEF Begins, Orderly, PrePlanPending
  <2>2. ~(call.at = "publish" /\ ~Admitted)
    BY AdmittedUnlessMisbound
  <2>3. ~(call.at = "manifest" /\ ~Sound(Published \ stale))
    BY RebuildsUnlessMisbound DEF Standing
  <2> QED  BY <1>0, <2>1, <2>2, <2>3 DEF LoadFails
<1>2. /\ UNCHANGED <<manifest, scope, store, uses>> /\ dirty' = dirty
      /\ call'.op = "refused" /\ call'.at = "idle"
  BY IdleShape DEF LoadRefused
<1>3. \A h \in Handoff : reading[h] = "prepared" => dirty
  BY <1>0 DEF Orderly, Readings
<1> QED  BY <1>0, <1>1, <1>2, <1>3, StillOrderly DEF uses, TypeOK, Capture

LEMMA OrderlyStep ==
  ASSUME RecoverFirst, Base, Base', Progressing, Loaded, Loaded', Orderly, Early', [Next]_vars
  PROVE  Orderly'
<1>1. CASE Capturing
  BY <1>1, CaptureOrderly
<1>2. CASE Loading \/ LoadStart \/ Crash
  BY <1>2, LoadReceiptsOrderly, ReplayOrderly, LoadLogsOrderly, LoadOrderly, RefusedOrderly,
     LoadStartOrderly DEF Loading
<1>3. CASE \E h \in Handoff : Create(h) \/ Repeat(h) \/ Read(h)
  BY <1>3, CreateOrderly, RepeatOrderly, ReadOrderly
<1>4. CASE FormScope \/ (\E t \in Target : Form(t)) \/ FirstPlan \/ RevisePlan \/ Close
  BY <1>4, FormOrderly, PlanOrderly
<1>5. CASE ProposeScope \/ ConfirmScope \/ IndexScope \/ Append
  BY <1>5, ProposeOrderly, ConfirmOrderly, IndexScopeOrderly, AppendOrderly
<1>6. CASE UNCHANGED vars
  <2>1. /\ run' = run /\ tracked' = tracked /\ decided' = decided /\ stale' = stale
        /\ intents' = intents /\ binds' = binds /\ reading' = reading /\ call' = call
        /\ dirty' = dirty /\ UNCHANGED <<manifest, scope, store>>
    BY <1>6 DEF vars, manifest, scope, store, uses
  <2>2. /\ StaleShape' /\ PrePlanIntents' /\ Standing' = Standing /\ (Bound' <=> Bound)
        /\ \A h \in Handoff : /\ Begins(h)' <=> Begins(h)
                              /\ Open(h)' <=> Open(h)
                              /\ Whole(h)' <=> Whole(h)
                              /\ Misbound(h)' <=> Misbound(h)
    BY <2>1, StillShape
  <2>3. ScopeCalls' /\ PrePlanPending' /\ RefusedIsMisbound'
    BY <2>1, <2>2 DEF Orderly, ScopeCalls, PrePlanPending, RefusedIsMisbound
  <2>4. OneOpen'
    <3>1. call.at \in {"import", "check", "publish"} => Open(call.of)'
      BY <1>6
         DEF vars, manifest, scope, store, uses, Orderly, OneOpen, Open, Whole, Complete, Durable,
             Imported, Recorded, Untouched, Begins, Live, Matches, PrePlanApplicable, SameScope
    <3> QED  BY <2>1, <2>2, <3>1 DEF Orderly, OneOpen
  <2>5. Named'
    BY <2>1, <2>2, StillNamed
  <2>6. Readings'
    BY <2>1, <2>2 DEF Orderly, Readings
  <2> QED  BY <2>2, <2>3, <2>4, <2>5, <2>6 DEF Orderly
<1> QED  BY <1>1, <1>2, <1>3, <1>4, <1>5, <1>6 DEF Next, Progress

LEMMA OrderlyAlways == RecoverFirst => (Spec => [](Early => Orderly))
<1> SUFFICES ASSUME RecoverFirst PROVE Spec => [](Early => Orderly)
  OBVIOUS
<1>1. Init => Orderly
  <2> SUFFICES ASSUME Init PROVE Orderly
    OBVIOUS
  <2>1. /\ \A d \in Doc : artifact[d] = "none"
        /\ \A h \in Handoff : Untouched(h) /\ intents[h] = None /\ reading[h] = "none"
        /\ tracked = {} /\ stale = {} /\ decided.confirmed
        /\ call.op = "idle" /\ call.at = "idle"
    BY IdleShape, HandoffAssumption DEF Init, Untouched, Doc
  <2>2. Published = {} /\ Standing = {} /\ Bound
    BY <2>1 DEF Published, Standing, Init, Bound
  <2>3. StaleShape /\ ScopeCalls /\ PrePlanIntents /\ PrePlanPending
    BY <2>1, <2>2 DEF StaleShape, ScopeCalls, PrePlanIntents, PrePlanPending, Begins
  <2>4. OneOpen /\ Named /\ Readings /\ RefusedIsMisbound
    BY <2>1, <2>2
       DEF OneOpen, Open, Whole, Begins, Live, Matches, Named, Readings, RefusedIsMisbound
  <2> QED  BY <2>3, <2>4 DEF Orderly
<1>2. /\ Base /\ Base' /\ Progressing /\ Loaded /\ Loaded' /\ (Early => Orderly) /\ [Next]_vars
      => (Early => Orderly)'
  BY EarlyBefore, OrderlyStep
<1> QED  BY BaseAlways, ProgressAlways, LoadedAlways, <1>1, <1>2, PTL DEF Spec

\* Until the Scope is corrected a second time, load-run opens every Run but one whose
\* handoff names a superseded ScopeFrame, where callers run load-run after an
\* interrupted call.
THEOREM OpensUnlessMisbound ==
  RecoverFirst => (Spec => [](decided.revision <= 2 => LoadAccepts))
<1> SUFFICES ASSUME RecoverFirst PROVE Spec => [](decided.revision <= 2 => LoadAccepts)
  OBVIOUS
<1>1. (Early => Orderly) => (decided.revision <= 2 => LoadAccepts)
  BY IdleShape DEF Early, Orderly, RefusedIsMisbound, LoadAccepts
<1> QED  BY OrderlyAlways, <1>1, PTL

-----------------------------------------------------------------------------
\* What HandoffExchange sees.
Held == tracked \intersect Handoff
Logged == {h \in Handoff : reading[h] = "logged"}
Formed == [t \in Target |-> IF t \in tracked THEN binds[t].of ELSE None]

\* Most steps change nothing the Run has taken in, read or formed.
LEMMA ExchangeStill ==
  ASSUME tracked' \intersect (Handoff \union Target) = tracked \intersect (Handoff \union Target),
         \A h \in Handoff : reading'[h] = "logged" <=> reading[h] = "logged",
         binds' = binds
  PROVE  UNCHANGED <<Held, Logged, Formed>>
<1>1. Held' = Held /\ Logged' = Logged
  BY DEF Held, Logged
<1>2. \A t \in Target : t \in tracked' <=> t \in tracked
  OBVIOUS
<1>3. Formed' = Formed
  BY <1>2 DEF Formed
<1> QED  BY <1>1, <1>3

LEMMA ExchangeCapture ==
  ASSUME NEW h \in Handoff, h \notin tracked, UNCHANGED uses,
         tracked' \intersect (Handoff \union Target)
           = (tracked \intersect (Handoff \union Target)) \union {h}
  PROVE  Exchange!Next
<1> USE HandoffAssumption
<1>1. Held' = Held \union {h} /\ h \notin Held /\ Logged' = Logged
  BY DEF Held, Logged, uses
<1>2. \A t \in Target : t \in tracked' <=> t \in tracked
  OBVIOUS
<1>3. Formed' = Formed
  BY <1>2 DEF Formed, uses
<1>4. Exchange!Capture(h)
  BY <1>1, <1>3 DEF Exchange!Capture, Held, Logged, Formed
<1> QED  BY <1>4 DEF Exchange!Next

LEMMA ExchangeRead ==
  ASSUME Base, Orderly, NEW h \in Handoff, reading[h] = "prepared", reading'[h] = "logged",
         \A g \in Handoff \ {h} : reading'[g] = "logged" <=> reading[g] = "logged",
         tracked' = tracked, binds' = binds
  PROVE  Exchange!Next
<1>1. h \in tracked /\ h \notin stale /\ TargetOf[h] \notin Standing
  BY DEF Orderly, Readings
<1>2. tracked \subseteq Published /\ ~(Published \subseteq stale)
  BY <1>1 DEF Base, TypeOK
<1>3. tracked \intersect stale = {}
  BY <1>2 DEF Orderly, StaleShape
<1>4. \A t \in Target : TargetOf[h] = t => t \notin tracked
  BY <1>1, <1>2, <1>3 DEF Standing
<1>5. Held' = Held /\ h \in Held /\ Logged' = Logged \union {h} /\ Formed' = Formed
  BY <1>1 DEF Held, Logged, Formed
<1>6. \A t \in Target : TargetOf[h] = t => Formed[t] = None
  BY <1>4 DEF Formed
<1>7. Exchange!Read(h)
  BY <1>5, <1>6 DEF Exchange!Read, Held, Logged, Formed
<1> QED  BY <1>7 DEF Exchange!Next

LEMMA ExchangeForm ==
  ASSUME Base, NEW t \in Target, Form(t)
  PROVE  Exchange!Next
<1> USE HandoffAssumption
<1>0. TypeOK
  BY DEF Base
<1>1. /\ t \notin tracked /\ tracked' = tracked \union {t} /\ reading' = reading
      /\ binds'[t].of = ReadFor(t, tracked)
      /\ \A u \in Target \ {t} : binds'[u] = binds[u]
  <2>1. binds' = [binds EXCEPT ![t] = [of |-> ReadFor(t, tracked), plan |-> run.plan]]
    BY DEF Form
  <2>2. artifact[t] = "none" /\ tracked' = tracked \union {t} /\ reading' = reading
    BY DEF Form, Release
  <2>3. binds'[t] = [of |-> ReadFor(t, tracked), plan |-> run.plan]
    BY <1>0, <2>1 DEF TypeOK
  <2> QED  BY <1>0, <2>1, <2>2, <2>3 DEF TypeOK, Published
<1>2. Held' = Held /\ Logged' = Logged
  BY <1>1 DEF Held, Logged
<1>3. Formed[t] = None /\ Formed' = [Formed EXCEPT ![t] = ReadFor(t, tracked)]
  BY <1>1 DEF Formed
<1>4. {h \in Held \intersect Logged : TargetOf[h] = t} = ReadFor(t, tracked)
  BY DEF Held, Logged, ReadFor
<1>5. Exchange!Form(t)
  BY <1>2, <1>3, <1>4 DEF Exchange!Form, Exchange!For, Held, Logged, Formed
<1> QED  BY <1>5 DEF Exchange!Next

\* A correction of the Scope takes back all there is.
LEMMA ExchangeWithdraw ==
  ASSUME UNCHANGED uses, tracked' = {}
  PROVE  Exchange!Next \/ UNCHANGED <<Held, Logged, Formed>>
<1>1. Held' = {} /\ Logged' = Logged /\ Formed' = [t \in Target |-> None]
  BY DEF Held, Logged, Formed, uses
<1>2. PICK H \in SUBSET Handoff, T \in SUBSET Target :
        H = Held /\ T = tracked \intersect Target
  BY DEF Held
<1>3. Formed' = [t \in Target |-> IF t \in T THEN None ELSE Formed[t]]
  <2>1. \A t \in Target : (IF t \in T THEN None ELSE Formed[t]) = None
    BY <1>2 DEF Formed
  <2>2. [t \in Target |-> IF t \in T THEN None ELSE Formed[t]] = [t \in Target |-> None]
    BY ONLY <2>1
  <2> QED  BY <1>1, <2>2
<1>4. CASE H \union T = {}
  <2>1. \A t \in Target : t \notin tracked
    BY <1>2, <1>4
  <2>2. Formed = [t \in Target |-> None]
    BY <2>1 DEF Formed
  <2> QED  BY <1>1, <1>2, <1>4, <2>2
<1>5. CASE H \union T # {}
  <2>1. \A t \in Target : Formed[t] # None /\ Formed[t] \intersect H # {} => t \in T
    BY <1>2 DEF Formed
  <2>2. Held' = Held \ H
    BY <1>1, <1>2
  <2>3. Exchange!Withdraw(H, T)
    BY <1>1, <1>3, <1>5, <2>1, <2>2 DEF Exchange!Withdraw, Held, Logged, Formed
  <2>4. H \in SUBSET (tracked \intersect Handoff)
    BY <1>2 DEF Held
  <2> QED  BY <2>3, <2>4 DEF Exchange!Next
<1> QED  BY <1>4, <1>5

LEMMA ExchangeLoad ==
  ASSUME Base, Orderly, Load
  PROVE  Exchange!Next \/ UNCHANGED <<Held, Logged, Formed>>
<1> USE HandoffAssumption, BoundAssumption
<1>0. TypeOK /\ tracked' = Standing /\ UNCHANGED uses /\ tracked \subseteq Published
  BY DEF Base, TypeOK, Load, Standing
<1>1. CASE tracked \intersect stale # {}
  <2>1. tracked' = {}
    BY <1>0, <1>1 DEF Orderly, StaleShape, Standing
  <2> QED  BY <1>0, <2>1, ExchangeWithdraw
<1>2. CASE tracked \intersect stale = {}
  <2>1. tracked \subseteq Standing /\ Standing \ tracked \subseteq Handoff
    BY <1>0, <1>2 DEF Standing, Orderly, StaleShape
  <2>2. \A h \in Standing \ tracked : Open(h)
    <3> SUFFICES ASSUME NEW h \in Handoff, h \in Standing, h \notin tracked
                 PROVE  Open(h)
      BY <2>1
    <3>1. artifact[h] = "published" /\ intents[h] # None /\ h \notin stale
      BY <1>0 DEF Standing, Published, TypeOK, Untouched
    <3>2. intents[h].plan = 0 => intents[h].revision = run.revision
      BY <3>1 DEF Orderly, PrePlanIntents
    <3>3. run.revision \in Nat
      BY <1>0 DEF TypeOK, Revision
    <3> QED  BY <3>1, <3>2, <3>3 DEF Open, Whole, Complete, Untouched
  <2>3. CASE Standing \ tracked = {}
    <3>1. tracked' = tracked
      BY <1>0, <2>1, <2>3
    <3> QED  BY <1>0, <3>1, ExchangeStill DEF uses
  <2>4. CASE Standing \ tracked # {}
    <3>1. PICK h \in Handoff : h \in Standing /\ h \notin tracked
      BY <2>1, <2>4
    <3>2. \A g \in Standing \ tracked : g = h
      BY <2>1, <2>2, <3>1 DEF Orderly, OneOpen
    <3>3. tracked' = tracked \union {h}
      BY <1>0, <2>1, <3>1, <3>2
    <3> QED  BY <1>0, <3>1, <3>3, ExchangeCapture
  <2> QED  BY <2>3, <2>4
<1> QED  BY <1>1, <1>2

LEMMA ExchangeStep ==
  ASSUME Base, Orderly, [Next]_vars
  PROVE  Exchange!Next \/ UNCHANGED <<Held, Logged, Formed>>
<1> USE HandoffAssumption
<1>0. TypeOK /\ CallOK
  BY DEF Base
<1>1. CASE Index
  <2>1. tracked' = tracked \union {call.of} /\ call.of \in Handoff /\ UNCHANGED uses
    BY <1>0, <1>1 DEF Index, CallOK, Capture
  <2>2. CASE call.of \in tracked
    BY <2>1, <2>2, ExchangeStill DEF uses
  <2>3. CASE call.of \notin tracked
    BY <2>1, <2>3, ExchangeCapture
  <2> QED  BY <2>2, <2>3
<1>2. CASE Capturing /\ ~Index
  BY <1>0, <1>2, CaptureStore, ExchangeStill DEF Base, uses
<1>3. CASE \E h \in Handoff : Create(h) \/ Repeat(h)
  BY <1>3, ExchangeStill DEF Create, Repeat, manifest, uses
<1>4. CASE \E h \in Handoff : Read(h)
  <2>1. PICK h \in Handoff : Read(h)
    BY <1>4
  <2>2. \A g \in Handoff : reading'[g] = "logged" <=> reading[g] = "logged"
    BY <1>0, <2>1 DEF Read, TypeOK
  <2> QED  BY <2>1, <2>2, ExchangeStill DEF Read, manifest
<1>5. CASE \E t \in Target : Form(t)
  BY <1>5, ExchangeForm
<1>6. CASE FormScope
  <2>1. run.revision \in Revision /\ tracked' = tracked \union {run.revision}
    BY <1>0, <1>6 DEF FormScope, Release, TypeOK
  <2> QED  BY <1>6, <2>1, ExchangeStill DEF FormScope, uses
<1>7. CASE FirstPlan \/ RevisePlan \/ Close \/ ProposeScope \/ ConfirmScope \/ LoadStart \/ Crash
  BY <1>7, ExchangeStill
     DEF FirstPlan, RevisePlan, Close, ProposeScope, ConfirmScope, LoadStart, Crash, manifest, uses
<1>8. CASE LoadEvidence \/ LoadArtifacts \/ LoadRefused \/ \E h \in Handoff : Replay(h)
  BY <1>8, ExchangeStill DEF LoadEvidence, LoadArtifacts, LoadRefused, Replay, manifest, uses
<1>9. CASE Append
  <2>1. /\ call.of \in Handoff /\ tracked' = tracked /\ binds' = binds
        /\ reading' = [reading EXCEPT ![call.of] = "logged"] /\ reading[call.of] = "prepared"
    BY <1>0, <1>9 DEF Append, CallOK, manifest, Orderly, Readings
  <2>2. PICK h \in Handoff : h = call.of
    BY <2>1
  <2>3. reading'[h] = "logged" /\ \A g \in Handoff \ {h} : reading'[g] = reading[g]
    BY <1>0, <2>1, <2>2 DEF TypeOK
  <2> QED  BY <2>1, <2>2, <2>3, ExchangeRead
<1>10. CASE LoadLogs
  <2>1. /\ tracked' = tracked /\ binds' = binds
        /\ \A h \in Handoff : reading'[h] = IF reading[h] = "prepared" THEN "logged" ELSE reading[h]
    BY <1>10 DEF LoadLogs, manifest
  <2>2. CASE \E h \in Handoff : reading[h] = "prepared"
    <3>1. PICK h \in Handoff : reading[h] = "prepared"
      BY <2>2
    <3>2. \A g \in Handoff \ {h} : reading[g] # "prepared"
      BY <3>1 DEF Orderly, Readings
    <3>3. reading'[h] = "logged" /\ \A g \in Handoff \ {h} : reading'[g] = reading[g]
      BY <2>1, <3>1, <3>2
    <3> QED  BY <2>1, <3>1, <3>3, ExchangeRead
  <2>3. CASE ~\E h \in Handoff : reading[h] = "prepared"
    <3>1. \A h \in Handoff : reading'[h] = reading[h]
      BY <2>1, <2>3
    <3> QED  BY <2>1, <3>1, ExchangeStill
  <2> QED  BY <2>2, <2>3
<1>11. CASE Load
  BY <1>11, ExchangeLoad
<1>12. CASE IndexScope
  <2>1. tracked' = tracked \ stale /\ UNCHANGED uses /\ tracked \subseteq Published
    BY <1>0, <1>12 DEF IndexScope, TypeOK
  <2>2. CASE tracked \intersect stale = {}
    <3>1. tracked' = tracked
      BY <2>1, <2>2
    <3> QED  BY <2>1, <3>1, ExchangeStill DEF uses
  <2>3. CASE tracked \intersect stale # {}
    <3>1. tracked' = {}
      BY <2>1, <2>3 DEF Orderly, StaleShape
    <3> QED  BY <2>1, <3>1, ExchangeWithdraw
  <2> QED  BY <2>2, <2>3
<1>13. CASE UNCHANGED vars
  BY <1>13, ExchangeStill DEF vars, manifest, uses
<1> QED
  BY <1>1, <1>2, <1>3, <1>4, <1>5, <1>6, <1>7, <1>8, <1>9, <1>10, <1>11, <1>12, <1>13
     DEF Next, Progress, Loading

LEMMA ExchangeInit == Init => Exchange!Init
<1> SUFFICES ASSUME Init PROVE Exchange!Init
  OBVIOUS
<1>1. Held = {} /\ Logged = {} /\ Formed = [t \in Target |-> None]
  BY DEF Init, Held, Logged, Formed
<1> QED  BY <1>1 DEF Exchange!Init, Held, Logged, Formed

\* Until the Scope is corrected a second time, every step is one HandoffExchange
\* allows, where callers run load-run after an interrupted call.
THEOREM KeepsExchange ==
  RecoverFirst =>
    (Spec => /\ Exchange!Init
             /\ [][decided'.revision <= 2 => [Exchange!Next]_(Exchange!vars)]_vars)
<1> SUFFICES ASSUME RecoverFirst
             PROVE  Spec => /\ Exchange!Init
                            /\ [][decided'.revision <= 2 => [Exchange!Next]_(Exchange!vars)]_vars
  OBVIOUS
<1>1. Init => Exchange!Init
  BY ExchangeInit
<1>2. ASSUME Base, Early => Orderly, [Next]_vars
      PROVE  [decided'.revision <= 2 => [Exchange!Next]_(Exchange!vars)]_vars
  <2> SUFFICES ASSUME decided'.revision <= 2
               PROVE  Exchange!Next \/ UNCHANGED Exchange!vars
    OBVIOUS
  <2>1. Orderly
    BY <1>2, EarlyBefore DEF Early
  <2>2. Exchange!Next \/ UNCHANGED <<Held, Logged, Formed>>
    BY <1>2, <2>1, ExchangeStep
  <2> QED  BY <2>2 DEF Exchange!vars, Held, Logged, Formed
<1> QED  BY BaseAlways, OrderlyAlways, <1>1, <1>2, PTL DEF Spec

\* Whole, read before it is used, named by what was formed from it: over one
\* correction of the Scope.
THEOREM ImplementsOverOneCorrection ==
  RecoverFirst /\ MaxRevision <= 2 => (Spec => ImplementsExchange)
<1> SUFFICES ASSUME RecoverFirst, MaxRevision <= 2 PROVE Spec => ImplementsExchange
  OBVIOUS
<1>1. Init => Exchange!Init
  BY ExchangeInit
<1>2. ASSUME Base, Early => Orderly, [Next]_vars
      PROVE  [Exchange!Next]_(Exchange!vars)
  <2>1. Early
    BY <1>2, BoundAssumption DEF Base, TypeOK, Revision, Early
  <2>2. Exchange!Next \/ UNCHANGED <<Held, Logged, Formed>>
    BY <1>2, <2>1, ExchangeStep
  <2> QED  BY <2>2 DEF Exchange!vars, Held, Logged, Formed
<1> QED  BY BaseAlways, OrderlyAlways, <1>1, <1>2, PTL DEF Spec, ImplementsExchange, Exchange!Spec
=============================================================================
