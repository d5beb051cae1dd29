----------------------------- MODULE RunLineage -----------------------------
(***************************************************************************)
(* The lineage of Runs (run-store/run-store.ts create, load and            *)
(* resolveExecution; run-store/continuation-guard.ts): a Run is continued  *)
(* by a child or, once it has failed, replaced by a technical restart.     *)
(*                                                                         *)
(* The index is in files of the runs root, written by the creation of the  *)
(* successor and by load-run of a replacement; a creation holds the        *)
(* creation lock of its own Run id and that of the source it replaces,     *)
(* never the Run lock of its parent.  Locks are not waited for: a call     *)
(* that finds one taken throws.  A call may die, or fail, at any step.     *)
(*                                                                         *)
(* Run ids, modes and hashes are model values or left out; the locks are   *)
(* taken as RunLock describes them, its takeover race aside.               *)
(***************************************************************************)
CONSTANTS Run, Caller,
          Declared,  \* what the Run ids may be taken for, by one call or another
          None

ASSUME NoneAssumption == None \notin Run \union Caller

VARIABLES
  runs,      \* absent, open, or failed by record_runtime_failure
  parent,    \* parent_run_id in the Manifest of each Run
  cont,      \* .continuations/<parent>/<child>.json
  receipt,   \* .technical-restarts/sources/<source>/<replacement>.json
  proj,      \* .technical-restarts/replacements/<replacement>.json: its source
  call,      \* what each caller is doing
  declared,  \* what each Run id may be created as
  born       \* history: as what each Run was published

index == <<cont, receipt, proj>>
disk == <<runs, parent, index>>
aux == <<declared, born>>
vars == <<disk, call, aux>>

-----------------------------------------------------------------------------
State == {"none", "pending", "committed"}
Declaration == [how : {"root"}, of : {None}]
                 \union [how : {"continue", "restart"}, of : Run]

ASSUME DeclaredAssumption ==
  /\ Declared \subseteq [Run -> SUBSET Declaration]
  /\ \A may \in Declared : \A r \in Run : \A d \in may[r] : d.of # r

Doing(op, r, d, at) == [op |-> op, run |-> r, how |-> d.how, of |-> d.of, at |-> at]
NoDeclaration == [how |-> "root", of |-> None]
Idle == Doing("idle", None, NoDeclaration, "idle")
Dead == Doing("dead", None, NoDeclaration, "idle")

Steps(op) ==
  CASE op = "create" -> {"lock", "stage", "publish", "commit", "project", "load", "repair",
                         "replay"}
    [] op = "load" -> {"load", "repair"}
    [] op = "close" -> {"guard", "write"}

Call == UNION {{Doing(op, r, d, at) : r \in Run, d \in Declaration, at \in Steps(op)} :
                 op \in {"create", "load", "close"}}

Public(r) == runs[r] # "absent"

Init ==
  /\ declared \in Declared
  /\ runs \in [Run -> {"absent", "open", "failed"}]
  /\ \A r \in Run : Public(r) => NoDeclaration \in declared[r]
  /\ born = [r \in Run |-> NoDeclaration]
  /\ parent = [r \in Run |-> None]
  /\ cont = [s \in Run |-> [r \in Run |-> "none"]]
  /\ receipt = [s \in Run |-> [r \in Run |-> "none"]]
  /\ proj = [r \in Run |-> None]
  /\ call = [c \in Caller |-> Idle]

-----------------------------------------------------------------------------
\* assertRunIsCurrentContinuationLeaf: any entry, pending or committed, blocks.
Guard(r) == \A c \in Run : cont[r][c] = "none"

Sources(r) == {s \in Run : receipt[s][r] # "none"}
Listed(s) == {r \in Run : receipt[s][r] # "none"}
Replacements(s) == {r \in Run : receipt[s][r] = "committed"}

\* technicalRestartSourceForReplacement: no restart at all, or a closed one.
ProvenanceResolved(r) ==
  \/ Sources(r) = {} /\ proj[r] = None
  \/ \E s \in Run : Sources(r) = {s} /\ receipt[s][r] = "committed" /\ proj[r] = s

\* technicalRestartReplacements without issues.
ReplacementResolved(s) ==
  /\ Listed(s) = Replacements(s) /\ \A q, r \in Listed(s) : q = r
  /\ \A r \in Replacements(s) : Public(r) /\ parent[r] = None
  /\ \A r \in Run : proj[r] = s <=> r \in Replacements(s)

\* resolveExecution, where the Run is its own leaf.
Leaf(r) == ProvenanceResolved(r) /\ Guard(r) /\ ReplacementResolved(r)

Superseded(r) == Leaf(r) /\ Replacements(r) # {}

\* assertCurrentLeaf
CurrentLeaf(r) == Leaf(r) /\ ~Superseded(r)

\* Mutant: an id that a restart occupies is taken for a Run of another kind.
ReplayAcceptedForAnother(r, how) ==
  \/ Sources(r) = {} /\ proj[r] = None
  \/ \E s \in Run : /\ Sources(r) = {s}
                    /\ proj[r] = IF receipt[s][r] = "pending" THEN None ELSE s

\* technicalRestartReplayContextForReplacement: an id that a restart occupies is left to
\* restarts, of whichever source.
ReplayAccepted(r, how) ==
  /\ \/ Sources(r) = {} /\ proj[r] = None
     \/ \E s \in Run : /\ Sources(r) = {s}
                       /\ proj[r] = IF receipt[s][r] = "pending" THEN None ELSE s
  /\ how # "restart" => Sources(r) = {}

\* The creation locks and the Run lock call c holds.
Holds(c, r) ==
  \/ call[c].op = "create" /\ call[c].run = r /\ call[c].at # "lock"
  \/ /\ call[c].op = "create" /\ call[c].how = "restart" /\ call[c].of = r
     /\ call[c].at \in {"publish", "commit", "project"}
  \/ call[c].at = "repair" /\ r \in Sources(call[c].run)

HoldsRun(c, r) == call[c].run = r /\ call[c].at \in {"load", "repair", "write"}

Locked(r) == \E c \in Caller : Holds(c, r)
RunLocked(r) == \E c \in Caller : HoldsRun(c, r)

At(c, op, at) == call[c].op = op /\ call[c].at = at

Go(c, at) == call' = [call EXCEPT ![c].at = at]
End(c) == call' = [call EXCEPT ![c] = Idle]

Start(c, op, r, d, at) ==
  /\ call' = [call EXCEPT ![c] = Doing(op, r, d, at)]
  /\ UNCHANGED <<disk, aux>>

-----------------------------------------------------------------------------
\* create, before its lock: a continuation needs a leaf that still runs, a
\* technical restart a source whose failure is reported.
CreateStart(c, r, d) ==
  /\ call[c] = Idle /\ d \in declared[r]
  /\ d.how = "continue" => runs[d.of] = "open" /\ Leaf(d.of)
  /\ d.how = "restart" => runs[d.of] = "failed"
  /\ Start(c, "create", r, d, "lock")

Admitted(c) ==
  LET r == call[c].run IN
  /\ ~Locked(r)
  /\ IF Public(r) THEN ~RunLocked(r) ELSE ReplayAccepted(r, call[c].how)

\* Mutant: a continuation is registered only once it is public.
CreateLockUnregistered(c) ==
  /\ At(c, "create", "lock") /\ Admitted(c)
  /\ Go(c, IF Public(call[c].run) THEN "load"
           ELSE IF call[c].how = "restart" THEN "stage" ELSE "publish")
  /\ UNCHANGED <<disk, aux>>

\* A Run that exists is loaded, any other one staged.
CreateLock(c) ==
  /\ At(c, "create", "lock") /\ Admitted(c)
  /\ Go(c, IF Public(call[c].run) THEN "load"
           ELSE IF call[c].how = "root" THEN "publish" ELSE "stage")
  /\ UNCHANGED <<disk, aux>>

\* Mutant: the entry is not written as pending first.
RegisterCommitted(c) ==
  LET r == call[c].run  of == call[c].of IN
  /\ At(c, "create", "stage") /\ call[c].how = "continue"
  /\ cont' = [cont EXCEPT ![of][r] = "committed"]
  /\ Go(c, "publish")
  /\ UNCHANGED <<runs, parent, receipt, proj, aux>>

\* registerContinuation, before the child is public.
Register(c) ==
  LET r == call[c].run  of == call[c].of IN
  /\ At(c, "create", "stage") /\ call[c].how = "continue"
  /\ cont' = [cont EXCEPT ![of][r] = "pending"]
  /\ Go(c, "publish")
  /\ UNCHANGED <<runs, parent, receipt, proj, aux>>

\* Mutant: other replacements of the source are not looked for.
MayDeclareAnother(c) ==
  LET r == call[c].run  of == call[c].of IN
  ~Locked(of) /\ receipt[of][r] # "committed"

MayDeclare(c) ==
  LET r == call[c].run  of == call[c].of IN
  ~Locked(of) /\ Listed(of) \subseteq {r} /\ receipt[of][r] # "committed"

\* writeTechnicalRestartIndexEntry, pending, under the creation lock of the source.
Declare(c) ==
  LET r == call[c].run  of == call[c].of IN
  /\ At(c, "create", "stage") /\ call[c].how = "restart" /\ MayDeclare(c)
  /\ receipt' = [receipt EXCEPT ![of][r] = "pending"]
  /\ Go(c, "publish")
  /\ UNCHANGED <<runs, parent, cont, proj, aux>>

\* rename of the staged Run.
Publish(c) ==
  LET r == call[c].run IN
  /\ At(c, "create", "publish")
  /\ runs' = [runs EXCEPT ![r] = "open"]
  /\ parent' = [parent EXCEPT ![r] = IF call[c].how = "continue" THEN call[c].of ELSE None]
  /\ born' = [born EXCEPT ![r] = [how |-> call[c].how, of |-> call[c].of]]
  /\ IF call[c].how = "root" THEN End(c) ELSE Go(c, "commit")
  /\ UNCHANGED <<index, declared>>

\* Mutant: the receipt of a restart is removed as well.
PublishFailsForgetting(c) ==
  LET r == call[c].run  of == call[c].of IN
  /\ At(c, "create", "publish")
  /\ cont' = IF call[c].how = "continue" THEN [cont EXCEPT ![of][r] = "none"] ELSE cont
  /\ receipt' = IF call[c].how = "restart" THEN [receipt EXCEPT ![of][r] = "none"] ELSE receipt
  /\ End(c)
  /\ UNCHANGED <<runs, parent, proj, aux>>

\* The rename fails: what was registered for the child is removed.
PublishFails(c) ==
  LET r == call[c].run  of == call[c].of IN
  /\ At(c, "create", "publish")
  /\ cont' = IF call[c].how = "continue" THEN [cont EXCEPT ![of][r] = "none"] ELSE cont
  /\ End(c)
  /\ UNCHANGED <<runs, parent, receipt, proj, aux>>

Commit(c) ==
  LET r == call[c].run  of == call[c].of IN
  /\ At(c, "create", "commit")
  /\ \/ /\ call[c].how = "continue"
        /\ cont' = [cont EXCEPT ![of][r] = "committed"]
        /\ End(c) /\ UNCHANGED receipt
     \/ /\ call[c].how = "restart"
        /\ receipt' = [receipt EXCEPT ![of][r] = "committed"]
        /\ Go(c, "project") /\ UNCHANGED cont
  /\ UNCHANGED <<runs, parent, proj, aux>>

Project(c) ==
  LET r == call[c].run  of == call[c].of IN
  /\ At(c, "create", "project")
  /\ proj' = [proj EXCEPT ![r] = of]
  /\ End(c)
  /\ UNCHANGED <<runs, parent, cont, receipt, aux>>

-----------------------------------------------------------------------------
LoadStart(c, r) ==
  /\ call[c] = Idle /\ Public(r) /\ ~RunLocked(r)
  /\ Start(c, "load", r, NoDeclaration, "load")

\* What follows the repair: load-run resolves the Run, create compares it.
Reopened(c) == IF call[c].op = "create" THEN Go(c, "replay") ELSE End(c)

MayRepair(c) ==
  LET r == call[c].run IN
  \A s \in Run : Sources(r) = {s} => ~Locked(s) /\ Listed(s) = {r}

\* Mutant: a receipt that is still pending is left to create.
RepairCommittedOnly(c) ==
  LET r == call[c].run IN
  /\ call[c].at = "load" /\ MayRepair(c)
  /\ \/ (\A s \in Run : Sources(r) = {s} => receipt[s][r] = "pending") /\ Reopened(c)
     \/ (\E s \in Run : Sources(r) = {s} /\ receipt[s][r] = "committed") /\ Go(c, "repair")
  /\ UNCHANGED <<disk, aux>>

\* repairTechnicalRestartClosureForReplacement: the receipt, then the projection.
Repair(c) ==
  LET r == call[c].run IN
  /\ call[c].at = "load" /\ MayRepair(c)
  /\ \/ (\A s \in Run : Sources(r) # {s}) /\ Reopened(c) /\ UNCHANGED receipt
     \/ \E s \in Run : /\ Sources(r) = {s}
                       /\ receipt' = [receipt EXCEPT ![s][r] = "committed"]
                       /\ Go(c, "repair")
  /\ UNCHANGED <<runs, parent, cont, proj, aux>>

RepairProjection(c) ==
  LET r == call[c].run IN
  /\ call[c].at = "repair"
  /\ \E s \in Run : Sources(r) = {s} /\ proj' = [proj EXCEPT ![r] = s]
  /\ Reopened(c)
  /\ UNCHANGED <<runs, parent, cont, receipt, aux>>

\* What create compares of a Run that exists.
MayReplay(c) ==
  LET r == call[c].run  how == call[c].how IN
  /\ CurrentLeaf(r)
  /\ parent[r] = (IF how = "continue" THEN call[c].of ELSE None)
  /\ Sources(r) = (IF how = "restart" THEN {call[c].of} ELSE {})

\* An exact replay completes the continuation entry.
Replay(c) ==
  LET r == call[c].run  of == call[c].of IN
  /\ At(c, "create", "replay") /\ MayReplay(c)
  /\ cont' = IF call[c].how = "continue" THEN [cont EXCEPT ![of][r] = "committed"] ELSE cont
  /\ End(c)
  /\ UNCHANGED <<runs, parent, receipt, proj, aux>>

-----------------------------------------------------------------------------
\* apply-plan-revision of a record_runtime_failure decision, and its guards; other
\* writes of a Run leave its lineage alone.
CloseStart(c, r) ==
  /\ call[c] = Idle /\ runs[r] = "open" /\ CurrentLeaf(r)
  /\ Start(c, "close", r, NoDeclaration, "guard")

\* The publications of the closing operation look at the leaf once more.
MayClose(c) ==
  LET r == call[c].run IN ~RunLocked(r) /\ runs[r] = "open" /\ Guard(r)

CloseGuard(c) ==
  /\ At(c, "close", "guard") /\ MayClose(c)
  /\ Go(c, "write")
  /\ UNCHANGED <<disk, aux>>

CloseWrite(c) ==
  /\ At(c, "close", "write")
  /\ runs' = [runs EXCEPT ![call[c].run] = "failed"]
  /\ End(c)
  /\ UNCHANGED <<parent, index, aux>>

-----------------------------------------------------------------------------
Proceed(c) ==
  \/ CreateLock(c) \/ Register(c) \/ Declare(c) \/ Publish(c) \/ Commit(c) \/ Project(c)
  \/ Repair(c) \/ RepairProjection(c) \/ Replay(c)
  \/ CloseGuard(c) \/ CloseWrite(c)

\* A guard fails or a lock is taken: the call throws.
Throw(c) ==
  /\ \/ At(c, "create", "lock") /\ ~Admitted(c)
     \/ At(c, "create", "stage") /\ call[c].how = "restart" /\ ~MayDeclare(c)
     \/ call[c].at = "load" /\ ~MayRepair(c)
     \/ At(c, "create", "replay") /\ ~MayReplay(c)
     \/ At(c, "close", "guard") /\ ~MayClose(c)
  /\ End(c)
  /\ UNCHANGED <<disk, aux>>

\* The process dies, which frees its locks, and another one takes its place.
Crash(c) ==
  /\ call[c] \notin {Idle, Dead}
  /\ call' = [call EXCEPT ![c] = Dead]
  /\ UNCHANGED <<disk, aux>>

Again(c) ==
  /\ call[c] = Dead
  /\ End(c)
  /\ UNCHANGED <<disk, aux>>

CreateStarts(c) ==
  \E r \in Run : \E d \in Declaration : CreateStart(c, r, d)

Next ==
  \E c \in Caller :
    \/ CreateStarts(c)
    \/ \E r \in Run : LoadStart(c, r) \/ CloseStart(c, r)
    \/ Proceed(c) \/ Throw(c) \/ PublishFails(c) \/ Crash(c) \/ Again(c)

Spec == Init /\ [][Next]_vars

Incomplete(r) == Public(r) /\ \E s \in Run : Sources(r) = {s} /\ proj[r] # s

\* Calls go on by themselves, also after another call died; a replacement Run that is
\* incomplete is loaded again.
FairSpec ==
  /\ Spec
  /\ \A c \in Caller : WF_vars(Proceed(c) \/ Throw(c) \/ Again(c))
  /\ \A r \in Run : SF_vars(Incomplete(r) /\ \E c \in Caller : LoadStart(c, r))

-----------------------------------------------------------------------------
\* Types; each call is at a step of its operation.
TypeOK ==
  /\ runs \in [Run -> {"absent", "open", "failed"}]
  /\ parent \in [Run -> Run \union {None}]
  /\ cont \in [Run -> [Run -> State]] /\ receipt \in [Run -> [Run -> State]]
  /\ proj \in [Run -> Run \union {None}]
  /\ call \in [Caller -> Call \union {Idle, Dead}]
  /\ declared \in Declared /\ born \in [Run -> Declaration]

\* A Run is never public before the Run it succeeds is blocked by an entry of it,
\* wherever its creation failed or died (L3044-3050, L3080-3085).
PublicIsIndexed ==
  \A r \in Run : Public(r) =>
    /\ parent[r] # None => cont[parent[r]][r] # "none"
    /\ born[r].how = "restart" => receipt[born[r].of][r] # "none"

\* A committed entry names a Run that exists and succeeds that very Run: what
\* status-run reports as continued or superseded is (L3251-3272, L3338-3357).
CommittedIsPublic ==
  \A r, s \in Run :
    /\ cont[s][r] = "committed" => Public(r) /\ parent[r] = s
    /\ receipt[s][r] = "committed" => Public(r) /\ parent[r] = None

\* Creations that replace one source at the same time, of which some die, leave
\* entries of one replacement only (L2417-2463, L3080).
OneReplacement == \A s \in Run : \A q, r \in Listed(s) : q = r

\* A Run whose id one restart occupies is the replacement that restart declared, whoever
\* else asked for the id since, and from the projection on, by create or by load-run, both
\* Runs resolve (L2903-2936, L3737-3765, tests/g0.4-runtime.test.ts:7733, :7839).
ReplacementOpens ==
  \A r, s \in Run : Public(r) /\ Sources(r) = {s} =>
    /\ born[r] = [how |-> "restart", of |-> s]
    /\ proj[r] # None => ProvenanceResolved(r) /\ ReplacementResolved(s)

\* What is committed, and the provenance of a restart as soon as it is declared, is
\* never taken back, by the clean-up of a failed creation either (L3116-3128).
SuccessionIsFinal ==
  [][\A s, r \in Run :
       /\ cont[s][r] = "committed" => cont'[s][r] = "committed"
       /\ receipt[s][r] # "none" => receipt'[s][r] # "none"
       /\ proj[r] # None => proj'[r] = proj[r]]_vars

\* A Run that was continued goes on in its continuation: it is not closed as failed
\* behind it, nor continued after (docs/operations.md:82).
ContinuedStaysOpen ==
  \A p, r \in Run : cont[p][r] = "committed" => runs[p] = "open"

Quiet == <>[][\A c \in Caller : ~CreateStarts(c) /\ ~Crash(c)]_vars

\* Once no more creations start and no call dies, load-run completes the provenance of
\* every replacement of one source, wherever its creation died (L3737-3765).
RestartCompletes == Quiet => \A r \in Run : Incomplete(r) ~> ~Incomplete(r)
=============================================================================
