-------------------------- MODULE RunLineageProofs --------------------------
(***************************************************************************)
(* Theorems about RunLineage.  A creation holds the creation lock of its   *)
(* Run id from its admission to its last write, so the entries that name   *)
(* the Run are written by it alone until the Run is public; what load-run  *)
(* and an exact replay write afterwards only completes it.  The receipts of *)
(* a restart precede the rename and its projection follows the committed   *)
(* receipt, so a Run that one source lists is the replacement it declared. *)
(***************************************************************************)
EXTENDS RunLineage, TLAPS

Creates(c) == call[c].op = "create"
CreatesAt(c, ats) == Creates(c) /\ call[c].at \in ats
Past(c) == Creates(c) /\ call[c].at # "lock"

\* The creation lock: one creation of a Run at a time.
Exclusive ==
  \A c, d \in Caller : Past(c) /\ Past(d) /\ call[c].run = call[d].run => c = d

\* Before the rename the Run is hidden, after it it can be read.
VisibleTo(c) ==
  /\ CreatesAt(c, {"stage", "publish"}) => ~Public(call[c].run)
  /\ call[c].at \in {"commit", "project", "load", "repair", "replay", "guard", "write"} =>
       Public(call[c].run)

Visible == \A c \in Caller : VisibleTo(c)

\* What a creation has written when it has come to a step.
WrittenBy(c) ==
  LET r == call[c].run  of == call[c].of IN
  /\ CreatesAt(c, {"publish", "commit"}) /\ call[c].how = "continue" => cont[of][r] # "none"
  /\ CreatesAt(c, {"publish", "commit", "project"}) /\ call[c].how = "restart" =>
       receipt[of][r] # "none"
  /\ CreatesAt(c, {"stage", "publish", "commit"}) /\ call[c].how # "restart" =>
       Sources(r) = {}
  /\ CreatesAt(c, {"commit", "project"}) =>
       parent[r] = IF call[c].how = "continue" THEN of ELSE None
  /\ CreatesAt(c, {"stage", "commit"}) => call[c].how # "root"
  /\ CreatesAt(c, {"project"}) => call[c].how = "restart" /\ receipt[of][r] = "committed"
  /\ call[c].at = "repair" => \A s \in Run : receipt[s][r] # "pending"
  /\ CreatesAt(c, {"commit", "project"}) /\ call[c].how = "restart" => proj[r] \in {None, of}

Written == \A c \in Caller : WrittenBy(c)

\* The entries about a Run agree with it and with what it was published as.
Recorded(r) ==
  /\ Public(r) /\ parent[r] # None => cont[parent[r]][r] # "none" /\ Sources(r) = {}
  /\ Public(r) /\ born[r].how = "restart" => receipt[born[r].of][r] # "none"
  /\ Public(r) /\ Sources(r) # {} => born[r].how = "restart"
  /\ proj[r] # None => Public(r) /\ receipt[proj[r]][r] = "committed"
  /\ \A s \in Run :
       /\ cont[s][r] = "committed" => Public(r) /\ parent[r] = s
       /\ receipt[s][r] = "committed" => Public(r) /\ parent[r] = None

IInv == /\ TypeOK /\ Exclusive /\ Visible /\ Written
        /\ \A r \in Run : Recorded(r)
        /\ OneReplacement

-----------------------------------------------------------------------------
Ops == {"create", "load", "close"}

LEMMA CallShape ==
  ASSUME NEW k \in Call
  PROVE  /\ k.op \in Ops /\ k.run \in Run /\ k.at \in Steps(k.op)
         /\ k.how \in {"root", "continue", "restart"} /\ k.of \in Run \union {None}
         /\ k.how = "root" <=> k.of = None
         /\ k.how # "root" => k.of \in Run
         /\ k = Doing(k.op, k.run, [how |-> k.how, of |-> k.of], k.at)
<1>0. PICK op \in Ops : \E r \in Run, d \in Declaration, at \in Steps(op) : k = Doing(op, r, d, at)
  BY DEF Call, Ops
<1>1. PICK r \in Run, d \in Declaration, at \in Steps(op) : k = Doing(op, r, d, at)
  BY <1>0
<1>2. /\ d.how \in {"root", "continue", "restart"} /\ d.of \in Run \union {None}
      /\ d.how = "root" <=> d.of = None
      /\ d.how # "root" => d.of \in Run
  BY NoneAssumption DEF Declaration
<1>3. k = [op |-> op, run |-> r, how |-> d.how, of |-> d.of, at |-> at]
  BY <1>1 DEF Doing
<1> HIDE DEF Declaration
<1>4. k.op = op /\ k.run = r /\ k.how = d.how /\ k.of = d.of /\ k.at = at
  BY <1>3
<1>5. k = Doing(k.op, k.run, [how |-> k.how, of |-> k.of], k.at)
  BY <1>3, <1>4 DEF Doing
<1> QED BY <1>2, <1>4, <1>5

LEMMA CallMoves ==
  ASSUME NEW k \in Call, NEW at \in Steps(k.op)
  PROVE  [k EXCEPT !.at = at] \in Call
<1>0. PICK op \in Ops : \E r \in Run, d \in Declaration, a \in Steps(op) : k = Doing(op, r, d, a)
  BY DEF Call, Ops
<1>1. PICK r \in Run, d \in Declaration, a \in Steps(op) : k = Doing(op, r, d, a)
  BY <1>0
<1>2. [k EXCEPT !.at = at] = Doing(op, r, d, at)  BY <1>1 DEF Doing
<1>3. k.op = op  BY <1>1 DEF Doing
<1> QED BY <1>2, <1>3 DEF Call, Ops

LEMMA CallBegins ==
  ASSUME NEW op \in Ops, NEW r \in Run, NEW d \in Declaration, NEW at \in Steps(op)
  PROVE  Doing(op, r, d, at) \in Call
BY DEF Call, Ops

-----------------------------------------------------------------------------
\* How a step changes what its caller is doing.
Moved(c, at) ==
  /\ call' \in [Caller -> Call \union {Idle, Dead}]
  /\ \A d \in Caller \ {c} : call'[d] = call[d]
  /\ call'[c].op = call[c].op /\ call'[c].run = call[c].run
  /\ call'[c].how = call[c].how /\ call'[c].of = call[c].of
  /\ call'[c].at = at

Ended(c) ==
  /\ call' \in [Caller -> Call \union {Idle, Dead}]
  /\ \A d \in Caller \ {c} : call'[d] = call[d]
  /\ call'[c].op \notin Ops /\ call'[c].at = "idle"

Begun(c, op, r, d, at) ==
  /\ call' \in [Caller -> Call \union {Idle, Dead}]
  /\ \A e \in Caller \ {c} : call'[e] = call[e]
  /\ call'[c].op = op /\ call'[c].run = r
  /\ call'[c].how = d.how /\ call'[c].of = d.of
  /\ call'[c].at = at

LEMMA InCall ==
  ASSUME TypeOK, NEW c \in Caller, call[c].op \in Ops \/ call[c].at # "idle"
  PROVE  call[c] \in Call
BY DEF TypeOK, Idle, Dead, Doing, Ops, NoDeclaration

LEMMA GoMoves ==
  ASSUME TypeOK, NEW c \in Caller, NEW at, Go(c, at), call[c] \in Call,
         at \in Steps(call[c].op)
  PROVE  Moved(c, at)
<1>1. [call[c] EXCEPT !.at = at] \in Call  BY CallMoves
<1>2. call' = [call EXCEPT ![c] = [call[c] EXCEPT !.at = at]]  BY DEF Go
<1>3. /\ call \in [Caller -> Call \union {Idle, Dead}]
      /\ call[c] = [op |-> call[c].op, run |-> call[c].run, how |-> call[c].how,
                    of |-> call[c].of, at |-> call[c].at]
  BY CallShape DEF TypeOK, Doing
<1> HIDE DEF Call, Idle, Dead
<1>4. call'[c] = [call[c] EXCEPT !.at = at]  BY <1>2, <1>3
<1>5. call' \in [Caller -> Call \union {Idle, Dead}]  BY <1>1, <1>2, <1>3
<1>6. \A d \in Caller \ {c} : call'[d] = call[d]  BY <1>2, <1>3
<1>7. /\ call'[c].op = call[c].op /\ call'[c].run = call[c].run
      /\ call'[c].how = call[c].how /\ call'[c].of = call[c].of
      /\ call'[c].at = at
  BY <1>3, <1>4
<1> QED BY <1>5, <1>6, <1>7 DEF Moved

LEMMA StepEnds ==
  ASSUME TypeOK, NEW c \in Caller,
         call' = [call EXCEPT ![c] = Idle] \/ call' = [call EXCEPT ![c] = Dead]
  PROVE  Ended(c)
<1>1. Idle.op \notin Ops /\ Idle.at = "idle" /\ Dead.op \notin Ops /\ Dead.at = "idle"
  BY DEF Idle, Dead, Doing, Ops
<1>2. call \in [Caller -> Call \union {Idle, Dead}]  BY DEF TypeOK
<1> HIDE DEF Call, Idle, Dead
<1>3. call' \in [Caller -> Call \union {Idle, Dead}]  BY <1>2
<1>4. \A d \in Caller \ {c} : call'[d] = call[d]  BY <1>2
<1>5. call'[c] = Idle \/ call'[c] = Dead  BY <1>2
<1> QED BY <1>1, <1>3, <1>4, <1>5 DEF Ended

LEMMA StartBegins ==
  ASSUME TypeOK, NEW c \in Caller, NEW op \in Ops, NEW r \in Run, NEW d \in Declaration,
         NEW at \in Steps(op), Start(c, op, r, d, at)
  PROVE  Begun(c, op, r, d, at)
<1>1. Doing(op, r, d, at) \in Call  BY CallBegins
<1>2. call' = [call EXCEPT ![c] = Doing(op, r, d, at)]  BY DEF Start
<1>3. call \in [Caller -> Call \union {Idle, Dead}]  BY DEF TypeOK
<1> HIDE DEF Call, Idle, Dead, Declaration
<1>4. call' \in [Caller -> Call \union {Idle, Dead}]  BY <1>1, <1>2, <1>3
<1>5. \A e \in Caller \ {c} : call'[e] = call[e]  BY <1>2, <1>3
<1>6. call'[c] = Doing(op, r, d, at)  BY <1>2, <1>3
<1> QED BY <1>4, <1>5, <1>6 DEF Begun, Doing

-----------------------------------------------------------------------------
\* The index stays as it is and no Run appears.
SameFiles ==
  /\ runs' \in [Run -> {"absent", "open", "failed"}]
  /\ \A r \in Run : Public(r)' <=> Public(r)
  /\ UNCHANGED <<parent, cont, receipt, proj, declared, born>>

LEMMA Unchanged ==
  ASSUME IInv, UNCHANGED <<disk, aux>>
  PROVE  SameFiles
BY DEF IInv, TypeOK, SameFiles, disk, index, aux, Public

\* What a call has seen and written stays true while it and the files stay as they are.
LEMMA OthersKeep ==
  ASSUME IInv, SameFiles,
         NEW d \in Caller, call'[d] = call[d]
  PROVE  VisibleTo(d)' /\ WrittenBy(d)'
<1>1. VisibleTo(d) /\ WrittenBy(d)  BY DEF IInv, Visible, Written
<1>2. /\ UNCHANGED <<parent, cont, receipt, proj, declared, born>>
      /\ call[d] \in Call \union {Idle, Dead} /\ \A r \in Run : Public(r)' <=> Public(r)
  BY DEF SameFiles, IInv, TypeOK
<1>3. call[d].op \in Ops \/ call[d].at # "idle" => call[d].run \in Run
  BY InCall, CallShape DEF IInv
<1> HIDE DEF Call, Idle, Dead
<1>4. call[d].at # "idle" \/ Creates(d) => call[d].run \in Run  BY <1>3 DEF Creates, Ops
<1>5. CreatesAt(d, {"stage", "publish"})' <=> CreatesAt(d, {"stage", "publish"})
  BY DEF CreatesAt, Creates
<1>6. call[d].run \in Run => (Public(call[d].run)' <=> Public(call[d].run))
  <2> SUFFICES ASSUME call[d].run \in Run  PROVE Public(call[d].run)' <=> Public(call[d].run)
    OBVIOUS
  <2>1. PICK r \in Run : r = call[d].run  OBVIOUS
  <2>2. Public(call[d].run) <=> Public(r)  BY <2>1
  <2>3. Public(call[d].run)' <=> Public(r)'  BY <2>1 DEF Public
  <2> QED BY <1>2, <2>1, <2>2, <2>3
<1>7. VisibleTo(d)'  BY <1>1, <1>4, <1>5, <1>6 DEF VisibleTo, CreatesAt
<1>8. WrittenBy(d)'  BY <1>1, <1>2 DEF WrittenBy, CreatesAt, Creates, Sources
<1> QED BY <1>7, <1>8

LEMMA FilesKeep ==
  ASSUME IInv, SameFiles
  PROVE  /\ OneReplacement' /\ \A r \in Run : Recorded(r)'
         /\ runs' \in [Run -> {"absent", "open", "failed"}]
         /\ parent' \in [Run -> Run \union {None}]
         /\ cont' \in [Run -> [Run -> State]] /\ receipt' \in [Run -> [Run -> State]]
         /\ proj' \in [Run -> Run \union {None}]
         /\ declared' \in Declared /\ born' \in [Run -> Declaration]
<1>1. /\ UNCHANGED <<parent, cont, receipt, proj, declared, born>>
      /\ \A r \in Run : Public(r)' <=> Public(r)
  BY DEF SameFiles
<1>2. ASSUME NEW r \in Run  PROVE Recorded(r)'
  <2>1. Recorded(r)  BY DEF IInv
  <2> QED BY <1>1, <2>1 DEF Recorded, Sources
<1>3. OneReplacement'  BY <1>1 DEF IInv, OneReplacement, Listed
<1> QED BY <1>1, <1>2, <1>3 DEF IInv, TypeOK, SameFiles

LEMMA EndKeeps ==
  ASSUME IInv, NEW c \in Caller, Ended(c), SameFiles
  PROVE  IInv'
<1>1. TypeOK'  BY FilesKeep DEF Ended, TypeOK
<1>2. call'[c].op \notin Ops /\ call'[c].at = "idle"  BY DEF Ended
<1>3. \A d \in Caller : d # c => call'[d] = call[d]  BY DEF Ended
<1>4. Exclusive'  BY <1>2, <1>3 DEF IInv, Exclusive, Past, Creates, Ops
<1>7. VisibleTo(c)' /\ WrittenBy(c)'
  BY <1>2 DEF VisibleTo, WrittenBy, CreatesAt, Creates, Ops
<1>8. Visible' /\ Written'  BY <1>3, <1>7, OthersKeep DEF Visible, Written
<1> QED BY <1>1, <1>4, <1>8, FilesKeep DEF IInv

LEMMA BeginKeeps ==
  ASSUME IInv, SameFiles, NEW c \in Caller,
         NEW op \in Ops, NEW r \in Run, NEW d \in Declaration,
         NEW at \in {"lock", "load", "guard"}, Begun(c, op, r, d, at),
         op = "create" <=> at = "lock",
         at # "lock" => Public(r)
  PROVE  IInv'
<1>1. TypeOK'  BY FilesKeep DEF Begun, TypeOK
<1>2. /\ call'[c].op = op /\ call'[c].run = r /\ call'[c].at = at
      /\ call'[c].how = d.how /\ call'[c].of = d.of
      /\ \A e \in Caller : e # c => call'[e] = call[e]
  BY DEF Begun
<1>3. Exclusive'  BY <1>2 DEF IInv, Exclusive, Past, Creates
<1>6. VisibleTo(c)'
  <2>1. Public(r)' <=> Public(r)  BY DEF SameFiles
  <2> QED BY <1>2, <2>1 DEF VisibleTo, CreatesAt, Creates, Public
<1>7. WrittenBy(c)'  BY <1>2 DEF WrittenBy, CreatesAt, Creates
<1>8. Visible' /\ Written'  BY <1>2, <1>6, <1>7, OthersKeep DEF Visible, Written
<1> QED BY <1>1, <1>3, <1>8, FilesKeep DEF IInv

\* A call that goes on has the lock already, or takes it where nobody holds it.
LEMMA MoveKeeps ==
  ASSUME IInv, NEW c \in Caller, NEW at, Moved(c, at),
         Past(c) \/ call[c].op # "create" \/ ~Locked(call[c].run)
  PROVE  Exclusive'
<1>1. /\ call'[c].op = call[c].op /\ call'[c].run = call[c].run
      /\ call'[c].how = call[c].how /\ call'[c].of = call[c].of
      /\ \A d \in Caller : d # c => call'[d] = call[d]
  BY DEF Moved
<1>2. \A d \in Caller : Past(d) /\ call[d].run = call[c].run => Locked(call[c].run)
  BY DEF Locked, Holds, Past, Creates
<1> QED BY <1>1, <1>2 DEF IInv, Exclusive, Past, Creates

LEMMA MoveFilesKeep ==
  ASSUME IInv, SameFiles, NEW c \in Caller, NEW at, Moved(c, at),
         Past(c) \/ call[c].op # "create" \/ ~Locked(call[c].run),
         VisibleTo(c)', WrittenBy(c)'
  PROVE  IInv'
<1>1. TypeOK'  BY FilesKeep DEF Moved, TypeOK
<1>3. Exclusive'  BY MoveKeeps
<1>4. \A d \in Caller : d # c => call'[d] = call[d]  BY DEF Moved
<1>5. Visible' /\ Written'  BY <1>4, OthersKeep DEF Visible, Written
<1> QED BY <1>1, <1>3, <1>5, FilesKeep DEF IInv

-----------------------------------------------------------------------------
\* One lemma per action, in the order of the module.
LEMMA CallFields ==
  ASSUME IInv, NEW c \in Caller, call[c].op \in Ops \/ call[c].at # "idle"
  PROVE  /\ call[c] \in Call
         /\ call[c].op \in Ops /\ call[c].run \in Run /\ call[c].at \in Steps(call[c].op)
         /\ call[c].how \in {"root", "continue", "restart"}
         /\ call[c].how # "root" => call[c].of \in Run
BY InCall, CallShape DEF IInv

LEMMA CreateStartKeeps ==
  ASSUME IInv, NEW c \in Caller, NEW r \in Run, NEW d \in Declaration, CreateStart(c, r, d)
  PROVE  IInv'
<1>1. Start(c, "create", r, d, "lock")  BY DEF CreateStart
<1>2. "create" \in Ops /\ "lock" \in Steps("create") /\ TypeOK  BY DEF Ops, Steps, IInv
<1>3. Begun(c, "create", r, d, "lock")  BY <1>1, <1>2, StartBegins
<1>4. SameFiles  BY <1>1, Unchanged DEF Start
<1> QED BY <1>2, <1>3, <1>4, BeginKeeps

LEMMA LoadStartKeeps ==
  ASSUME IInv, NEW c \in Caller, NEW r \in Run, LoadStart(c, r)
  PROVE  IInv'
<1>1. Start(c, "load", r, NoDeclaration, "load") /\ Public(r)  BY DEF LoadStart
<1>2. "load" \in Ops /\ "load" \in Steps("load") /\ TypeOK /\ NoDeclaration \in Declaration
  BY DEF Ops, Steps, IInv, NoDeclaration, Declaration
<1>3. Begun(c, "load", r, NoDeclaration, "load")  BY <1>1, <1>2, StartBegins
<1>4. SameFiles  BY <1>1, Unchanged DEF Start
<1> QED BY <1>1, <1>2, <1>3, <1>4, BeginKeeps

LEMMA CloseStartKeeps ==
  ASSUME IInv, NEW c \in Caller, NEW r \in Run, CloseStart(c, r)
  PROVE  IInv'
<1>1. Start(c, "close", r, NoDeclaration, "guard") /\ Public(r)  BY DEF CloseStart, Public
<1>2. "close" \in Ops /\ "guard" \in Steps("close") /\ TypeOK /\ NoDeclaration \in Declaration
  BY DEF Ops, Steps, IInv, NoDeclaration, Declaration
<1>3. Begun(c, "close", r, NoDeclaration, "guard")  BY <1>1, <1>2, StartBegins
<1>4. SameFiles  BY <1>1, Unchanged DEF Start
<1> QED BY <1>1, <1>2, <1>3, <1>4, BeginKeeps

LEMMA StopKeeps ==
  ASSUME IInv, NEW c \in Caller, Throw(c) \/ Crash(c) \/ Again(c)
  PROVE  IInv'
<1>1. Ended(c)  BY StepEnds DEF Throw, Crash, Again, End, IInv
<1>2. SameFiles  BY Unchanged DEF Throw, Crash, Again
<1> QED BY <1>1, <1>2, EndKeeps

LEMMA CreateLockKeeps ==
  ASSUME IInv, NEW c \in Caller, CreateLock(c)
  PROVE  IInv'
<1> DEFINE r == call[c].run
           at == IF Public(r) THEN "load" ELSE IF call[c].how = "root" THEN "publish" ELSE "stage"
<1>1. call[c].op = "create" /\ call[c].at = "lock" /\ Go(c, at) /\ Admitted(c) /\ SameFiles
  BY Unchanged DEF CreateLock, At
<1>2. call[c] \in Call /\ r \in Run /\ TypeOK /\ at \in Steps(call[c].op)
  BY <1>1, CallFields DEF Ops, Steps, IInv
<1>3. PICK a : a = at  OBVIOUS
<1>4. Moved(c, a)  BY <1>1, <1>2, <1>3, GoMoves
<1>5. ~Locked(call[c].run)  BY <1>1 DEF Admitted
<1>6. PICK q \in Run : q = r  BY <1>2
<1>7. call'[c].run = q /\ call'[c].op = "create" /\ call'[c].how = call[c].how /\ call'[c].at = a
  BY <1>1, <1>4, <1>6 DEF Moved
<1>8. (Public(q)' <=> Public(q)) /\ receipt' = receipt  BY <1>1 DEF SameFiles
<1>9. VisibleTo(c)'
  BY <1>3, <1>6, <1>7, <1>8 DEF VisibleTo, CreatesAt, Creates, Public
<1>10. ~Public(q) /\ call[c].how # "restart" => Sources(q) = {}
  BY <1>1, <1>6 DEF Admitted, ReplayAccepted
<1>11. WrittenBy(c)'
  BY <1>3, <1>6, <1>7, <1>8, <1>10, <1>2, CallShape DEF WrittenBy, CreatesAt, Creates, Sources
<1> QED BY <1>1, <1>4, <1>5, <1>9, <1>11, MoveFilesKeep

LEMMA CloseGuardKeeps ==
  ASSUME IInv, NEW c \in Caller, CloseGuard(c)
  PROVE  IInv'
<1>1. call[c].op = "close" /\ call[c].at = "guard" /\ Go(c, "write") /\ SameFiles
  BY Unchanged DEF CloseGuard, At
<1>2. call[c] \in Call /\ call[c].run \in Run /\ TypeOK /\ "write" \in Steps(call[c].op)
  BY <1>1, CallFields DEF Ops, Steps, IInv
<1>3. Moved(c, "write")  BY <1>1, <1>2, GoMoves
<1>4. PICK q \in Run : q = call[c].run  BY <1>2
<1>5. call'[c].run = q /\ call'[c].op = "close" /\ call'[c].at = "write"
  BY <1>1, <1>3, <1>4 DEF Moved
<1>6. Public(q)'
  <2>1. Public(q)  BY <1>1, <1>4 DEF IInv, Visible, VisibleTo
  <2> QED BY <1>1, <2>1 DEF SameFiles
<1>7. VisibleTo(c)'  BY <1>5, <1>6 DEF VisibleTo, CreatesAt, Creates, Public
<1>8. WrittenBy(c)'  BY <1>5 DEF WrittenBy, CreatesAt, Creates
<1> QED BY <1>1, <1>3, <1>7, <1>8, MoveFilesKeep

LEMMA CloseWriteKeeps ==
  ASSUME IInv, NEW c \in Caller, CloseWrite(c)
  PROVE  IInv'
<1>1. Ended(c)  BY StepEnds DEF CloseWrite, End, IInv
<1>2. call[c].at = "write" /\ call[c].run \in Run  BY CallFields DEF CloseWrite, At
<1>3. PICK q \in Run : q = call[c].run  BY <1>2
<1>4. Public(q)  BY <1>2, <1>3 DEF IInv, Visible, VisibleTo
<1>5. runs' = [runs EXCEPT ![q] = "failed"] /\ UNCHANGED <<parent, index, declared, born>>
  BY <1>3 DEF CloseWrite, aux
<1>6. runs \in [Run -> {"absent", "open", "failed"}]  BY DEF IInv, TypeOK
<1>7. SameFiles  BY <1>4, <1>5, <1>6 DEF SameFiles, Public, index
<1> QED BY <1>1, <1>7, EndKeeps

\* What a repair has settled stays settled.
Settled(r) ==
  (\A s \in Run : receipt[s][r] # "pending") => \A s \in Run : receipt'[s][r] # "pending"

\* A step that writes the entries of one Run leaves those of the others alone.
Elsewhere(r) ==
  \A q \in Run \ {r} :
    /\ Public(q)' <=> Public(q)
    /\ parent'[q] = parent[q] /\ proj'[q] = proj[q] /\ born'[q] = born[q]
    /\ \A p \in Run : cont'[p][q] = cont[p][q] /\ receipt'[p][q] = receipt[p][q]

FilesTyped ==
  /\ runs \in [Run -> {"absent", "open", "failed"}]
  /\ parent \in [Run -> Run \union {None}]
  /\ cont \in [Run -> [Run -> State]] /\ receipt \in [Run -> [Run -> State]]
  /\ proj \in [Run -> Run \union {None}] /\ born \in [Run -> Declaration]

LEMMA BornOf ==
  ASSUME IInv, NEW r \in Run, born[r].how = "restart"
  PROVE  born[r].of \in Run /\ born[r] = [how |-> "restart", of |-> born[r].of]
<1>1. born[r] \in Declaration  BY DEF IInv, TypeOK
<1> QED BY <1>1 DEF Declaration

LEMMA RecordedElsewhere ==
  ASSUME IInv, NEW r \in Run, NEW q \in Run, q # r, Elsewhere(r)
  PROVE  Recorded(q)'
<1>1. /\ Public(q)' <=> Public(q)
      /\ parent'[q] = parent[q] /\ proj'[q] = proj[q] /\ born'[q] = born[q]
      /\ \A p \in Run : cont'[p][q] = cont[p][q] /\ receipt'[p][q] = receipt[p][q]
  BY DEF Elsewhere
<1>2. Recorded(q)  BY DEF IInv
<1>3. /\ parent[q] # None => parent[q] \in Run
      /\ proj[q] # None => proj[q] \in Run
      /\ born[q].how = "restart" => born[q].of \in Run
  BY BornOf DEF IInv, TypeOK
<1>4. Sources(q)' = Sources(q)  BY <1>1 DEF Sources
<1> QED BY <1>1, <1>2, <1>3, <1>4 DEF Recorded

LEMMA CallElsewhere ==
  ASSUME IInv, NEW r \in Run, Elsewhere(r), NEW d \in Caller, call'[d] = call[d],
         Past(d) => call[d].run # r,
         Public(r) => Public(r)' /\ Settled(r)
  PROVE  VisibleTo(d)' /\ WrittenBy(d)'
<1>1. VisibleTo(d) /\ WrittenBy(d)  BY DEF IInv, Visible, Written
<1>2. CASE call[d].op \notin Ops /\ call[d].at = "idle"
  BY <1>2 DEF VisibleTo, WrittenBy, CreatesAt, Creates, Ops
<1>3. CASE call[d].op \in Ops \/ call[d].at # "idle"
  <2>1. PICK q \in Run : q = call[d].run  BY <1>3, CallFields
  <2>2. q # r => /\ Public(q)' <=> Public(q)
                 /\ parent'[q] = parent[q] /\ proj'[q] = proj[q]
                 /\ \A p \in Run : cont'[p][q] = cont[p][q] /\ receipt'[p][q] = receipt[p][q]
    BY DEF Elsewhere
  <2>3. VisibleTo(d)'
    <3>1. CreatesAt(d, {"stage", "publish"})' => q # r /\ ~Public(q)
      BY <1>1, <2>1 DEF VisibleTo, CreatesAt, Creates, Past
    <3>2. call[d].at \in {"commit", "project", "load", "repair", "replay", "guard", "write"} =>
            Public(q)
      BY <1>1, <2>1 DEF VisibleTo
    <3> QED BY <2>1, <2>2, <3>1, <3>2 DEF VisibleTo, CreatesAt, Creates, Public
  <2>4. q # r => Sources(q)' = Sources(q)  BY <2>2 DEF Sources
  <2>5. CreatesAt(d, {"stage", "publish", "commit", "project"}) => q # r
    BY <2>1 DEF Past, CreatesAt, Creates
  <2>6. call[d].how # "root" => call[d].of \in Run  BY <1>3, CallFields
  <2>7. WrittenBy(d)'
    <3>1. CreatesAt(d, {"stage", "publish", "commit", "project"})' =>
             CreatesAt(d, {"stage", "publish", "commit", "project"})
      BY DEF CreatesAt, Creates
    <3>2. PICK of : of = call[d].of  OBVIOUS
    <3>3. CASE q # r
      <4>1. Sources(q) = {} => {s \in Run : receipt'[s][q] # "none"} = {}
        BY <2>4, <3>3 DEF Sources
      <4> QED BY <1>1, <2>1, <2>2, <2>6, <3>2, <3>3, <4>1
              DEF WrittenBy, CreatesAt, Creates, Sources
    <3>4. CASE q = r
      <4>1. call[d].at = "repair" => Public(r)  BY <1>1, <2>1, <3>4 DEF VisibleTo
      <4> QED BY <1>1, <2>1, <2>5, <3>1, <3>4, <4>1
              DEF WrittenBy, CreatesAt, Creates, Settled
    <3> QED BY <3>3, <3>4
  <2> QED BY <2>3, <2>7
<1> QED BY <1>2, <1>3

LEMMA WriteKeeps ==
  ASSUME IInv, NEW c \in Caller, NEW r \in Run, call[c].run = r,
         Past(c) \/ call[c].op # "create",
         Elsewhere(r), FilesTyped', declared' = declared,
         Public(r) => Public(r)' /\ Settled(r),
         Recorded(r)', OneReplacement',
         Ended(c) \/ \E at : Moved(c, at) /\ VisibleTo(c)' /\ WrittenBy(c)',
         \A d \in Caller \ {c} : Past(d) /\ call[d].run = r => VisibleTo(d)' /\ WrittenBy(d)'
  PROVE  IInv'
<1>1. \A q \in Run : Recorded(q)'  BY RecordedElsewhere
<1>2. \A d \in Caller : d # c => call'[d] = call[d]  BY DEF Ended, Moved
<1>3. \A d \in Caller : d # c => VisibleTo(d)' /\ WrittenBy(d)'  BY <1>2, CallElsewhere
<1>4. declared \in Declared  BY DEF IInv, TypeOK
<1>5. CASE Ended(c)
  <2>1. TypeOK'  BY <1>4, <1>5 DEF FilesTyped, TypeOK, Ended
  <2>2. call'[c].op \notin Ops /\ call'[c].at = "idle"  BY <1>5 DEF Ended
  <2>3. Exclusive'  BY <1>2, <2>2 DEF IInv, Exclusive, Past, Creates, Ops
  <2>5. VisibleTo(c)' /\ WrittenBy(c)'
    BY <2>2 DEF VisibleTo, WrittenBy, CreatesAt, Creates, Ops
  <2>6. Visible' /\ Written'  BY <1>3, <2>5 DEF Visible, Written
  <2> QED BY <1>1, <2>1, <2>3, <2>6 DEF IInv
<1>6. CASE \E at : Moved(c, at) /\ VisibleTo(c)' /\ WrittenBy(c)'
  <2>1. PICK at : Moved(c, at) /\ VisibleTo(c)' /\ WrittenBy(c)'  BY <1>6
  <2>2. TypeOK'  BY <1>4, <2>1 DEF FilesTyped, TypeOK, Moved
  <2>3. Exclusive'  BY <2>1, MoveKeeps
  <2>4. Visible' /\ Written'  BY <1>3, <2>1 DEF Visible, Written
  <2> QED BY <1>1, <2>2, <2>3, <2>4 DEF IInv
<1> QED BY <1>5, <1>6

LEMMA AloneInCreation ==
  ASSUME IInv, NEW c \in Caller, Past(c), NEW d \in Caller, Past(d), call[d].run = call[c].run
  PROVE  d = c
BY DEF IInv, Exclusive

LEMMA RegisterKeeps ==
  ASSUME IInv, NEW c \in Caller, Register(c)
  PROVE  IInv'
<1>1. /\ call[c].op = "create" /\ call[c].at = "stage" /\ call[c].how = "continue"
      /\ Go(c, "publish")
      /\ UNCHANGED <<runs, parent, receipt, proj, declared, born>>
  BY DEF Register, At, aux
<1>2. /\ call[c] \in Call /\ call[c].run \in Run /\ call[c].of \in Run /\ TypeOK
      /\ "publish" \in Steps(call[c].op)
  BY <1>1, CallFields DEF Ops, Steps, IInv
<1>3. Moved(c, "publish")  BY <1>1, <1>2, GoMoves
<1>4. PICK r \in Run, of \in Run : r = call[c].run /\ of = call[c].of  BY <1>2
<1>5. cont' = [cont EXCEPT ![of][r] = "pending"]  BY <1>4 DEF Register
<1>6. FilesTyped  BY DEF IInv, TypeOK, FilesTyped
<1>7. /\ cont' \in [Run -> [Run -> State]]
      /\ cont'[of][r] = "pending"
      /\ \A p, q \in Run : p # of \/ q # r => cont'[p][q] = cont[p][q]
  BY <1>5, <1>6 DEF State, FilesTyped
<1>8. FilesTyped' /\ Elsewhere(r)  BY <1>1, <1>6, <1>7 DEF FilesTyped, Elsewhere, Public
<1>9. ~Public(r) /\ Sources(r) = {} /\ Recorded(r)
  BY <1>1, <1>4 DEF IInv, Visible, VisibleTo, Written, WrittenBy, CreatesAt, Creates
<1>10. Recorded(r)'  BY <1>1, <1>7, <1>9 DEF Recorded, Public
<1>11. OneReplacement'  BY <1>1 DEF IInv, OneReplacement, Listed
<1>12. /\ call'[c].run = r /\ call'[c].of = of /\ call'[c].op = "create"
       /\ call'[c].how = "continue" /\ call'[c].at = "publish"
  BY <1>1, <1>3, <1>4 DEF Moved
<1>13. VisibleTo(c)'  BY <1>1, <1>9, <1>12 DEF VisibleTo, CreatesAt, Creates, Public
<1>14. WrittenBy(c)'  BY <1>1, <1>7, <1>9, <1>12 DEF WrittenBy, CreatesAt, Creates, Sources
<1>15. Past(c)  BY <1>1 DEF Past, Creates
<1> QED BY <1>1, <1>3, <1>4, <1>8, <1>9, <1>10, <1>11, <1>13, <1>14, <1>15, WriteKeeps, AloneInCreation

LEMMA DeclareKeeps ==
  ASSUME IInv, NEW c \in Caller, Declare(c)
  PROVE  IInv'
<1>1. /\ call[c].op = "create" /\ call[c].at = "stage" /\ call[c].how = "restart"
      /\ Go(c, "publish") /\ MayDeclare(c)
      /\ UNCHANGED <<runs, parent, cont, proj, declared, born>>
  BY DEF Declare, At, aux
<1>2. /\ call[c] \in Call /\ call[c].run \in Run /\ call[c].of \in Run /\ TypeOK
      /\ "publish" \in Steps(call[c].op)
  BY <1>1, CallFields DEF Ops, Steps, IInv
<1>3. Moved(c, "publish")  BY <1>1, <1>2, GoMoves
<1>4. PICK r \in Run, of \in Run : r = call[c].run /\ of = call[c].of  BY <1>2
<1>5. receipt' = [receipt EXCEPT ![of][r] = "pending"] /\ Listed(of) \subseteq {r}
  BY <1>1, <1>4 DEF Declare, MayDeclare
<1>6. FilesTyped  BY DEF IInv, TypeOK, FilesTyped
<1>7. /\ receipt' \in [Run -> [Run -> State]]
      /\ receipt'[of][r] = "pending"
      /\ \A p, q \in Run : p # of \/ q # r => receipt'[p][q] = receipt[p][q]
  BY <1>5, <1>6 DEF State, FilesTyped
<1>8. FilesTyped' /\ Elsewhere(r)  BY <1>1, <1>6, <1>7 DEF FilesTyped, Elsewhere, Public
<1>9. ~Public(r) /\ Recorded(r)
  BY <1>1, <1>4 DEF IInv, Visible, VisibleTo, CreatesAt, Creates
<1>11. Recorded(r)'  BY <1>1, <1>7, <1>9 DEF Recorded, Public
<1>12. OneReplacement'
  <2>1. Listed(of)' \subseteq {r}  BY <1>5, <1>7 DEF Listed
  <2>2. \A s \in Run : s # of => Listed(s)' = Listed(s)  BY <1>7 DEF Listed
  <2> QED BY <2>1, <2>2 DEF IInv, OneReplacement
<1>13. /\ call'[c].run = r /\ call'[c].of = of /\ call'[c].op = "create"
       /\ call'[c].how = "restart" /\ call'[c].at = "publish"
  BY <1>1, <1>3, <1>4 DEF Moved
<1>14. VisibleTo(c)'  BY <1>1, <1>9, <1>13 DEF VisibleTo, CreatesAt, Creates, Public
<1>15. WrittenBy(c)'  BY <1>7, <1>13 DEF WrittenBy, CreatesAt, Creates
<1>16. Past(c)  BY <1>1 DEF Past, Creates
<1> QED BY <1>1, <1>3, <1>4, <1>8, <1>9, <1>11, <1>12, <1>14, <1>15, <1>16, WriteKeeps, AloneInCreation

LEMMA PublishKeeps ==
  ASSUME IInv, NEW c \in Caller, Publish(c)
  PROVE  IInv'
<1> DEFINE how == call[c].how
<1>1. /\ call[c].op = "create" /\ call[c].at = "publish"
      /\ UNCHANGED <<cont, receipt, proj, declared>>
      /\ IF how = "root" THEN End(c) ELSE Go(c, "commit")
  BY DEF Publish, At, index, aux
<1>2. /\ call[c] \in Call /\ call[c].run \in Run /\ (how # "root" => call[c].of \in Run)
      /\ how \in {"root", "continue", "restart"} /\ TypeOK
      /\ "commit" \in Steps(call[c].op)
  BY <1>1, CallFields DEF Ops, Steps, IInv
<1>3. PICK r \in Run : r = call[c].run  BY <1>2
<1>4. PICK of : of = call[c].of  OBVIOUS
<1>5. /\ runs' = [runs EXCEPT ![r] = "open"]
      /\ parent' = [parent EXCEPT ![r] = IF how = "continue" THEN of ELSE None]
      /\ born' = [born EXCEPT ![r] = [how |-> how, of |-> of]]
  BY <1>3, <1>4 DEF Publish
<1>6. FilesTyped  BY DEF IInv, TypeOK, FilesTyped
<1>7. /\ FilesTyped' /\ Public(r)' /\ parent'[r] = (IF how = "continue" THEN of ELSE None)
      /\ \A q \in Run : q # r => /\ runs'[q] = runs[q] /\ parent'[q] = parent[q]
                                 /\ born'[q] = born[q]
  <2>1. [how |-> how, of |-> of] \in Declaration
    BY <1>2, <1>4, CallShape DEF Declaration
  <2> HIDE DEF Declaration
  <2> QED BY <1>1, <1>2, <1>4, <1>5, <1>6, <2>1 DEF FilesTyped, Public
<1>8. Elsewhere(r)  BY <1>1, <1>7 DEF Elsewhere, Public
<1>9. /\ ~Public(r) /\ Recorded(r)
      /\ how = "continue" => cont[of][r] # "none"
      /\ how = "restart" => receipt[of][r] # "none"
      /\ how # "restart" => Sources(r) = {}
  BY <1>1, <1>3, <1>4 DEF IInv, Visible, VisibleTo, Written, WrittenBy, CreatesAt, Creates
<1>10. born'[r] = [how |-> how, of |-> of]  BY <1>4, <1>5, <1>6 DEF FilesTyped
<1>11. Recorded(r)'
  <2>1. parent'[r] # None => cont'[parent'[r]][r] # "none" /\ {s \in Run : receipt'[s][r] # "none"} = {}
    BY <1>1, <1>7, <1>9 DEF Sources
  <2>2. /\ born'[r].how = "restart" => receipt'[born'[r].of][r] # "none"
        /\ {s \in Run : receipt'[s][r] # "none"} # {} => born'[r].how = "restart"
    BY <1>1, <1>9, <1>10 DEF Sources
  <2> QED BY <1>1, <1>7, <1>9, <2>1, <2>2 DEF Recorded, Sources
<1>12. OneReplacement'  BY <1>1 DEF IInv, OneReplacement, Listed
<1>13. Past(c)  BY <1>1 DEF Past, Creates
<1>14. CASE how = "root"
  <2>1. Ended(c)  BY <1>1, <1>2, <1>14, StepEnds DEF End
  <2> QED BY <1>1, <1>3, <1>7, <1>8, <1>9, <1>11, <1>12, <1>13, <2>1, WriteKeeps, AloneInCreation
<1>15. CASE how # "root"
  <2>1. Moved(c, "commit")  BY <1>1, <1>2, <1>15, GoMoves
  <2>2. /\ call'[c].run = r /\ call'[c].of = of /\ call'[c].op = "create"
        /\ call'[c].how = how /\ call'[c].at = "commit"
    BY <1>1, <1>3, <1>4, <2>1 DEF Moved
  <2>3. VisibleTo(c)'  BY <1>7, <2>2 DEF VisibleTo, CreatesAt, Creates, Public
  <2>4. proj[r] = None  BY <1>9 DEF Recorded
  <2>5. WrittenBy(c)'
    BY <1>1, <1>7, <1>9, <1>15, <2>2, <2>4 DEF WrittenBy, CreatesAt, Creates, Sources
  <2> QED BY <1>1, <1>3, <1>7, <1>8, <1>9, <1>11, <1>12, <1>13, <2>1, <2>3, <2>5, WriteKeeps,
             AloneInCreation
<1> QED BY <1>14, <1>15

LEMMA PublishFailsKeeps ==
  ASSUME IInv, NEW c \in Caller, PublishFails(c)
  PROVE  IInv'
<1>1. /\ call[c].op = "create" /\ call[c].at = "publish" /\ End(c)
      /\ UNCHANGED <<runs, parent, receipt, proj, declared, born>>
  BY DEF PublishFails, At, aux
<1>2. /\ call[c].run \in Run /\ (call[c].how # "root" => call[c].of \in Run) /\ TypeOK
  BY <1>1, CallFields DEF Ops, IInv
<1>3. PICK r \in Run : r = call[c].run  BY <1>2
<1>4. cont' = cont \/ \E of \in Run : cont' = [cont EXCEPT ![of][r] = "none"]
  BY <1>2, <1>3 DEF PublishFails
<1>5. FilesTyped  BY DEF IInv, TypeOK, FilesTyped
<1>6. /\ cont' \in [Run -> [Run -> State]]
      /\ \A p, q \in Run : q # r => cont'[p][q] = cont[p][q]
      /\ \A p \in Run : cont'[p][r] = "committed" => cont[p][r] = "committed"
  <2>1. cont \in [Run -> [Run -> State]]  BY <1>5 DEF FilesTyped
  <2>2. CASE cont' = cont  BY <2>1, <2>2
  <2>3. ASSUME NEW of \in Run, cont' = [cont EXCEPT ![of][r] = "none"]
        PROVE  /\ cont' \in [Run -> [Run -> State]]
               /\ \A p, q \in Run : q # r => cont'[p][q] = cont[p][q]
               /\ \A p \in Run : cont'[p][r] = "committed" => cont[p][r] = "committed"
    <3>1. /\ cont' \in [Run -> [Run -> State]] /\ cont'[of][r] = "none"
          /\ \A p, q \in Run : p # of \/ q # r => cont'[p][q] = cont[p][q]
      BY <2>1, <2>3 DEF State
    <3> QED BY <3>1
  <2> QED BY <1>4, <2>2, <2>3
<1>7. FilesTyped' /\ Elsewhere(r)  BY <1>1, <1>5, <1>6 DEF FilesTyped, Elsewhere, Public
<1>8. ~Public(r) /\ Recorded(r)
  BY <1>1, <1>3 DEF IInv, Visible, VisibleTo, CreatesAt, Creates
<1>9. Recorded(r)'  BY <1>1, <1>6, <1>8 DEF Recorded, Public
<1>10. OneReplacement'  BY <1>1 DEF IInv, OneReplacement, Listed
<1>11. Ended(c)  BY <1>1, <1>2, StepEnds DEF End
<1>12. Past(c)  BY <1>1 DEF Past, Creates
<1> QED BY <1>1, <1>3, <1>7, <1>8, <1>9, <1>10, <1>11, <1>12, WriteKeeps, AloneInCreation

LEMMA CommitKeeps ==
  ASSUME IInv, NEW c \in Caller, Commit(c)
  PROVE  IInv'
<1>1. /\ call[c].op = "create" /\ call[c].at = "commit"
      /\ UNCHANGED <<runs, parent, proj, declared, born>>
  BY DEF Commit, At, aux
<1>2. /\ call[c] \in Call /\ call[c].run \in Run /\ TypeOK
      /\ call[c].how # "root" => call[c].of \in Run
      /\ "project" \in Steps(call[c].op)
  BY <1>1, CallFields DEF Ops, Steps, IInv
<1>3. PICK r \in Run : r = call[c].run  BY <1>2
<1>4. PICK of : of = call[c].of  OBVIOUS
<1>5. FilesTyped  BY DEF IInv, TypeOK, FilesTyped
<1>6. /\ Public(r) /\ Recorded(r)
      /\ parent[r] = IF call[c].how = "continue" THEN of ELSE None
      /\ call[c].how = "restart" => receipt[of][r] # "none" /\ proj[r] \in {None, of}
      /\ call[c].how # "root"
  BY <1>1, <1>3, <1>4
  DEF IInv, Visible, VisibleTo, Written, WrittenBy, CreatesAt, Creates
<1>7. of \in Run  BY <1>2, <1>4, <1>6
<1>8. Past(c)  BY <1>1 DEF Past, Creates
<1>9. CASE call[c].how = "continue"
  <2>1. cont' = [cont EXCEPT ![of][r] = "committed"] /\ End(c) /\ UNCHANGED receipt
    BY <1>3, <1>4, <1>9 DEF Commit
  <2>2. /\ cont' \in [Run -> [Run -> State]]
        /\ cont'[of][r] = "committed"
        /\ \A p, q \in Run : p # of \/ q # r => cont'[p][q] = cont[p][q]
    BY <1>5, <1>7, <2>1 DEF State, FilesTyped
  <2>3. FilesTyped' /\ Elsewhere(r)  BY <1>1, <1>5, <2>1, <2>2 DEF FilesTyped, Elsewhere, Public
  <2>4. Recorded(r)'
    BY <1>1, <1>6, <1>7, <1>9, <2>1, <2>2 DEF Recorded, Public, Sources
  <2>5. OneReplacement'  BY <2>1 DEF IInv, OneReplacement, Listed
  <2>6. Ended(c)  BY <1>2, <2>1, StepEnds DEF End
  <2>7. Public(r)' /\ Settled(r)  BY <1>1, <1>6, <2>1 DEF Public, Settled
  <2> QED BY <1>1, <1>3, <1>8, <2>3, <2>4, <2>5, <2>6, <2>7, WriteKeeps, AloneInCreation
<1>10. CASE call[c].how = "restart"
  <2>1. receipt' = [receipt EXCEPT ![of][r] = "committed"] /\ Go(c, "project") /\ UNCHANGED cont
    BY <1>3, <1>4, <1>10 DEF Commit
  <2>2. /\ receipt' \in [Run -> [Run -> State]]
        /\ receipt'[of][r] = "committed"
        /\ \A p, q \in Run : p # of \/ q # r => receipt'[p][q] = receipt[p][q]
        /\ \A p, q \in Run : receipt'[p][q] # "none" <=> receipt[p][q] # "none"
    BY <1>5, <1>6, <1>7, <1>10, <2>1 DEF State, FilesTyped
  <2>3. FilesTyped' /\ Elsewhere(r)  BY <1>1, <1>5, <2>1, <2>2 DEF FilesTyped, Elsewhere, Public
  <2>4. Recorded(r)'
    <3>1. parent[r] = None  BY <1>6, <1>10
    <3>2. proj[r] # None => proj[r] = of  BY <1>6, <1>10
    <3> QED BY <1>1, <1>6, <1>7, <1>10, <2>1, <2>2, <3>1, <3>2 DEF Recorded, Public, Sources
  <2>5. OneReplacement'  BY <2>2 DEF IInv, OneReplacement, Listed
  <2>6. Moved(c, "project")  BY <1>2, <2>1, GoMoves
  <2>7. /\ call'[c].run = r /\ call'[c].of = of /\ call'[c].op = "create"
        /\ call'[c].how = "restart" /\ call'[c].at = "project"
    BY <1>1, <1>3, <1>4, <1>10, <2>6 DEF Moved
  <2>8. Public(r)' /\ Settled(r)
    <3>1. Settled(r)
      <4>1. \A p \in Run : receipt'[p][r] = receipt[p][r] \/ receipt'[p][r] = "committed"
        BY <2>2
      <4> QED BY <4>1 DEF Settled
    <3> QED BY <1>1, <1>6, <3>1 DEF Public
  <2>9. VisibleTo(c)'  BY <2>7, <2>8 DEF VisibleTo, CreatesAt, Creates, Public
  <2>10. WrittenBy(c)'
    BY <1>1, <1>6, <1>10, <2>2, <2>7 DEF WrittenBy, CreatesAt, Creates
  <2> QED BY <1>1, <1>3, <1>8, <2>3, <2>4, <2>5, <2>6, <2>8, <2>9, <2>10, WriteKeeps, AloneInCreation
<1> QED BY <1>9, <1>10 DEF Commit

LEMMA ProjectKeeps ==
  ASSUME IInv, NEW c \in Caller, Project(c)
  PROVE  IInv'
<1>1. /\ call[c].op = "create" /\ call[c].at = "project" /\ End(c)
      /\ UNCHANGED <<runs, parent, cont, receipt, declared, born>>
  BY DEF Project, At, aux
<1>2. /\ call[c].run \in Run /\ (call[c].how # "root" => call[c].of \in Run) /\ TypeOK
  BY <1>1, CallFields DEF Ops, IInv
<1>3. PICK r \in Run : r = call[c].run  BY <1>2
<1>4. PICK of : of = call[c].of  OBVIOUS
<1>5. FilesTyped  BY DEF IInv, TypeOK, FilesTyped
<1>6. Public(r) /\ Recorded(r) /\ call[c].how = "restart" /\ receipt[of][r] = "committed"
  BY <1>1, <1>3, <1>4 DEF IInv, Visible, VisibleTo, Written, WrittenBy, CreatesAt, Creates
<1>7. of \in Run  BY <1>2, <1>4, <1>6
<1>8. proj' = [proj EXCEPT ![r] = of]  BY <1>3, <1>4 DEF Project
<1>9. /\ proj' \in [Run -> Run \union {None}] /\ proj'[r] = of
      /\ \A q \in Run : q # r => proj'[q] = proj[q]
  BY <1>5, <1>7, <1>8 DEF FilesTyped
<1>10. FilesTyped' /\ Elsewhere(r)  BY <1>1, <1>5, <1>9 DEF FilesTyped, Elsewhere, Public
<1>11. Recorded(r)'  BY <1>1, <1>6, <1>9 DEF Recorded, Public, Sources
<1>12. OneReplacement'  BY <1>1 DEF IInv, OneReplacement, Listed
<1>13. Ended(c)  BY <1>1, <1>2, StepEnds DEF End
<1>14. Past(c) /\ Public(r)' /\ Settled(r)  BY <1>1, <1>6 DEF Past, Creates, Public, Settled
<1> QED BY <1>1, <1>3, <1>10, <1>11, <1>12, <1>13, <1>14, WriteKeeps, AloneInCreation

\* After the repair create goes on to compare the Run, load-run is done.
LEMMA ReopenedGoesOn ==
  ASSUME IInv, NEW c \in Caller, call[c].at \in {"load", "repair"}, Reopened(c),
         runs'[call[c].run] # "absent"
  PROVE  Ended(c) \/ (Moved(c, "replay") /\ VisibleTo(c)' /\ WrittenBy(c)' /\ Past(c))
<1>1. CASE call[c].op = "create"
  <2>1. Go(c, "replay") /\ call[c] \in Call /\ TypeOK /\ "replay" \in Steps(call[c].op)
    BY <1>1, CallFields DEF Reopened, Ops, Steps, IInv
  <2>2. Moved(c, "replay")  BY <2>1, GoMoves
  <2>3. call'[c].run = call[c].run /\ call'[c].at = "replay"  BY <2>2 DEF Moved
  <2>4. VisibleTo(c)' /\ WrittenBy(c)'
    BY <2>3 DEF VisibleTo, WrittenBy, CreatesAt, Creates, Public
  <2> QED BY <1>1, <2>2, <2>4 DEF Past, Creates
<1>2. CASE call[c].op # "create"
  BY <1>2, StepEnds DEF Reopened, End, IInv
<1> QED BY <1>1, <1>2

LEMMA RepairKeeps ==
  ASSUME IInv, NEW c \in Caller, Repair(c)
  PROVE  IInv'
<1>1. call[c].at = "load" /\ UNCHANGED <<runs, parent, cont, proj, declared, born>>
  BY DEF Repair, aux
<1>2. /\ call[c] \in Call /\ call[c].run \in Run /\ call[c].op \in Ops /\ TypeOK
      /\ call[c].at \in Steps(call[c].op)
  BY <1>1, CallFields DEF IInv
<1>3. PICK r \in Run : r = call[c].run  BY <1>2
<1>4. Public(r) /\ Public(r)' /\ runs'[call[c].run] # "absent" /\ Recorded(r)
  BY <1>1, <1>3 DEF IInv, Visible, VisibleTo, Public
<1>5. Past(c) \/ call[c].op # "create"  BY <1>1 DEF Past, Creates
<1>6. CASE Reopened(c) /\ UNCHANGED receipt
  <2>1. SameFiles  BY <1>1, <1>6 DEF IInv, TypeOK, SameFiles, Public
  <2>2. Ended(c) \/ (Moved(c, "replay") /\ VisibleTo(c)' /\ WrittenBy(c)' /\ Past(c))
    BY <1>1, <1>4, <1>6, ReopenedGoesOn
  <2> QED BY <2>1, <2>2, EndKeeps, MoveFilesKeep
<1>7. CASE \E s \in Run : /\ Sources(r) = {s}
                          /\ receipt' = [receipt EXCEPT ![s][r] = "committed"]
                          /\ Go(c, "repair")
  <2>1. PICK s \in Run : /\ Sources(r) = {s}
                         /\ receipt' = [receipt EXCEPT ![s][r] = "committed"]
                         /\ Go(c, "repair")
    BY <1>7
  <2>2. FilesTyped /\ receipt[s][r] # "none"
    <3>1. s \in Sources(r)  BY <2>1
    <3> QED BY <3>1 DEF IInv, TypeOK, FilesTyped, Sources
  <2>3. /\ receipt' \in [Run -> [Run -> State]]
        /\ receipt'[s][r] = "committed"
        /\ \A p, q \in Run : p # s \/ q # r => receipt'[p][q] = receipt[p][q]
        /\ \A p, q \in Run : receipt'[p][q] # "none" <=> receipt[p][q] # "none"
    BY <2>1, <2>2 DEF State, FilesTyped
  <2>4. FilesTyped' /\ Elsewhere(r)  BY <1>1, <2>2, <2>3 DEF FilesTyped, Elsewhere, Public
  <2>5. parent[r] = None  BY <1>4, <2>1 DEF Recorded
  <2>6. Sources(r)' = Sources(r)  BY <2>3 DEF Sources
  <2>7. \A p \in Run : receipt'[p][r] = "committed" => p = s
    BY <2>1, <2>3 DEF Sources
  <2>8. Recorded(r)'
    <3>1. /\ proj[r] # None => proj[r] \in Run
          /\ born[r].how = "restart" => born[r].of \in Run
      BY BornOf DEF IInv, TypeOK
    <3> QED BY <1>1, <1>4, <2>3, <2>5, <2>6, <2>7, <3>1 DEF Recorded, Public
  <2>9. OneReplacement'  BY <2>3 DEF IInv, OneReplacement, Listed
  <2>10. "repair" \in Steps(call[c].op)
    <3>1. CASE call[c].op = "create"  BY <3>1 DEF Steps
    <3>2. CASE call[c].op = "load"  BY <3>2 DEF Steps
    <3>3. CASE call[c].op = "close"
      <4>1. "load" \in Steps("close")  BY <1>1, <1>2, <3>3
      <4> QED BY <4>1 DEF Steps
    <3> QED BY <1>2, <3>1, <3>2, <3>3 DEF Ops
  <2>11. Moved(c, "repair")  BY <1>2, <2>1, <2>10, GoMoves
  <2>12. call'[c].run = r /\ call'[c].at = "repair"  BY <1>3, <2>11 DEF Moved
  <2>13. VisibleTo(c)' /\ WrittenBy(c)' /\ Settled(r)
    <3>1. \A p \in Run : receipt'[p][r] # "pending"
      <4>1. \A p \in Run : p # s => receipt[p][r] = "none"  BY <2>1 DEF Sources
      <4>2. \A p \in Run : p # s => receipt'[p][r] = "none"  BY <2>3, <4>1
      <4> QED BY <2>3, <4>2
    <3> QED BY <1>4, <2>12, <3>1 DEF VisibleTo, WrittenBy, CreatesAt, Creates, Public, Settled
  <2>14. ASSUME NEW d \in Caller \ {c}, Past(d), call[d].run = r
         PROVE  VisibleTo(d)' /\ WrittenBy(d)'
    <3>1. VisibleTo(d) /\ WrittenBy(d) /\ call'[d] = call[d]
      BY <2>11 DEF IInv, Visible, Written, Moved
    <3>2. VisibleTo(d)'
      BY <1>1, <2>14, <3>1 DEF VisibleTo, CreatesAt, Creates, Public
    <3>3. call[d].how # "root" => call[d].of \in Run
      BY <2>14, CallFields DEF Past, Creates, Ops
    <3>4. PICK of : of = call[d].of  OBVIOUS
    <3>5. Sources(r) = {} <=> {p \in Run : receipt'[p][r] # "none"} = {}  BY <2>6 DEF Sources
    <3>6. /\ (\A p \in Run : receipt[p][r] # "pending") => \A p \in Run : receipt'[p][r] # "pending"
          /\ of \in Run /\ receipt[of][r] = "committed" => receipt'[of][r] = "committed"
          /\ of \in Run /\ receipt[of][r] # "none" => receipt'[of][r] # "none"
      <4>1. \A p \in Run : receipt'[p][r] = receipt[p][r] \/ receipt'[p][r] = "committed"
        BY <2>3
      <4> QED BY <4>1
    <3>7. WrittenBy(d)'
      BY <1>1, <2>14, <3>1, <3>3, <3>4, <3>5, <3>6
      DEF WrittenBy, CreatesAt, Creates, Sources
    <3> QED BY <3>2, <3>7
  <2> QED BY <1>1, <1>3, <1>4, <1>5, <2>4, <2>8, <2>9, <2>11, <2>13, <2>14, WriteKeeps
<1> QED BY <1>3, <1>6, <1>7 DEF Repair

LEMMA RepairProjectionKeeps ==
  ASSUME IInv, NEW c \in Caller, RepairProjection(c)
  PROVE  IInv'
<1>1. /\ call[c].at = "repair" /\ Reopened(c)
      /\ UNCHANGED <<runs, parent, cont, receipt, declared, born>>
  BY DEF RepairProjection, aux
<1>2. call[c].run \in Run /\ call[c].op \in Ops /\ TypeOK
  BY <1>1, CallFields DEF IInv
<1>3. PICK r \in Run : r = call[c].run  BY <1>2
<1>4. Public(r) /\ Public(r)' /\ runs'[call[c].run] # "absent" /\ Recorded(r)
  BY <1>1, <1>3 DEF IInv, Visible, VisibleTo, Public
<1>5. Past(c) \/ call[c].op # "create"  BY <1>1 DEF Past, Creates
<1>6. PICK s \in Run : Sources(r) = {s} /\ proj' = [proj EXCEPT ![r] = s]
  BY <1>3 DEF RepairProjection
<1>7. FilesTyped /\ receipt[s][r] = "committed"
  <2>1. s \in Sources(r)  BY <1>6
  <2>2. receipt[s][r] # "pending"  BY <1>1, <1>3 DEF IInv, Written, WrittenBy
  <2> QED BY <2>1, <2>2 DEF IInv, TypeOK, FilesTyped, Sources, State
<1>8. /\ proj' \in [Run -> Run \union {None}] /\ proj'[r] = s
      /\ \A q \in Run : q # r => proj'[q] = proj[q]
  BY <1>6, <1>7 DEF FilesTyped
<1>9. FilesTyped' /\ Elsewhere(r)  BY <1>1, <1>7, <1>8 DEF FilesTyped, Elsewhere, Public
<1>10. Recorded(r)'  BY <1>1, <1>4, <1>7, <1>8 DEF Recorded, Public, Sources
<1>11. OneReplacement' /\ Settled(r)  BY <1>1 DEF IInv, OneReplacement, Listed, Settled
<1>12. Ended(c) \/ (Moved(c, "replay") /\ VisibleTo(c)' /\ WrittenBy(c)' /\ Past(c))
  BY <1>1, <1>4, ReopenedGoesOn
<1>13. ASSUME NEW d \in Caller \ {c}, Past(d), call[d].run = r
       PROVE  VisibleTo(d)' /\ WrittenBy(d)'
  <2>1. VisibleTo(d) /\ WrittenBy(d) /\ call'[d] = call[d]
    BY <1>12 DEF IInv, Visible, Written, Moved, Ended
  <2>2. VisibleTo(d)'
    BY <1>1, <1>13, <2>1 DEF VisibleTo, CreatesAt, Creates, Public
  <2>3. call[d].how # "root" => call[d].of \in Run
    BY <1>13, CallFields DEF Past, Creates, Ops
  <2>4. PICK of : of = call[d].of  OBVIOUS
  <2>5. of \in Run /\ receipt[of][r] # "none" => of = s  BY <1>6 DEF Sources
  <2>6. WrittenBy(d)'
    BY <1>1, <1>8, <1>13, <2>1, <2>3, <2>4, <2>5 DEF WrittenBy, CreatesAt, Creates, Sources
  <2> QED BY <2>2, <2>6
<1> QED BY <1>1, <1>3, <1>4, <1>5, <1>9, <1>10, <1>11, <1>12, <1>13, WriteKeeps

LEMMA ReplayKeeps ==
  ASSUME IInv, NEW c \in Caller, Replay(c)
  PROVE  IInv'
<1>1. /\ call[c].op = "create" /\ call[c].at = "replay" /\ MayReplay(c) /\ End(c)
      /\ UNCHANGED <<runs, parent, receipt, proj, declared, born>>
  BY DEF Replay, At, aux
<1>2. /\ call[c].run \in Run /\ (call[c].how # "root" => call[c].of \in Run) /\ TypeOK
  BY <1>1, CallFields DEF Ops, IInv
<1>3. PICK r \in Run : r = call[c].run  BY <1>2
<1>4. Public(r) /\ Recorded(r) /\ Past(c)
  BY <1>1, <1>3 DEF IInv, Visible, VisibleTo, Past, Creates
<1>5. cont' = cont \/ \E of \in Run : parent[r] = of /\ cont' = [cont EXCEPT ![of][r] = "committed"]
  BY <1>1, <1>2, <1>3 DEF Replay, MayReplay
<1>6. FilesTyped  BY DEF IInv, TypeOK, FilesTyped
<1>7. /\ cont' \in [Run -> [Run -> State]]
      /\ \A p, q \in Run : q # r => cont'[p][q] = cont[p][q]
      /\ \A p \in Run : cont'[p][r] = cont[p][r] \/ (cont'[p][r] = "committed" /\ parent[r] = p)
  <2>1. cont \in [Run -> [Run -> State]]  BY <1>6 DEF FilesTyped
  <2>2. CASE cont' = cont  BY <2>1, <2>2
  <2>3. ASSUME NEW of \in Run, parent[r] = of, cont' = [cont EXCEPT ![of][r] = "committed"]
        PROVE  /\ cont' \in [Run -> [Run -> State]]
               /\ \A p, q \in Run : q # r => cont'[p][q] = cont[p][q]
               /\ \A p \in Run : cont'[p][r] = cont[p][r] \/ (cont'[p][r] = "committed" /\ parent[r] = p)
    <3>1. /\ cont' \in [Run -> [Run -> State]] /\ cont'[of][r] = "committed"
          /\ \A p, q \in Run : p # of \/ q # r => cont'[p][q] = cont[p][q]
      BY <2>1, <2>3 DEF State
    <3> QED BY <2>3, <3>1
  <2> QED BY <1>5, <2>2, <2>3
<1>8. FilesTyped' /\ Elsewhere(r)  BY <1>1, <1>6, <1>7 DEF FilesTyped, Elsewhere, Public
<1>9. Recorded(r)'
  <2>1. parent[r] # None => parent[r] \in Run  BY <1>6 DEF FilesTyped
  <2> QED BY <1>1, <1>4, <1>7, <2>1 DEF Recorded, Public, Sources
<1>10. OneReplacement' /\ Public(r)' /\ Settled(r)
  BY <1>1, <1>4 DEF IInv, OneReplacement, Listed, Public, Settled
<1>11. Ended(c)  BY <1>1, <1>2, StepEnds DEF End
<1> QED BY <1>1, <1>3, <1>4, <1>8, <1>9, <1>10, <1>11, WriteKeeps, AloneInCreation

-----------------------------------------------------------------------------
LEMMA InitHolds == ASSUME Init PROVE IInv
<1>1. \A c \in Caller : call[c] = Idle  BY DEF Init
<1>2. Idle.op \notin Ops /\ Idle.at = "idle"  BY DEF Idle, Doing, Ops
<1>3. call \in [Caller -> Call \union {Idle, Dead}]
  <2> HIDE DEF Call, Idle, Dead
  <2> QED BY DEF Init
<1>4. TypeOK
  BY <1>3 DEF Init, TypeOK, State, NoDeclaration, Declaration
<1>5. Exclusive  BY <1>1, <1>2 DEF Exclusive, Past, Creates, Ops
<1>6. Visible /\ Written
  BY <1>1, <1>2 DEF Visible, Written, VisibleTo, WrittenBy, CreatesAt, Creates, Ops
<1>7. ASSUME NEW r \in Run  PROVE Recorded(r)
  <2>1. \A s \in Run : cont[s][r] = "none" /\ receipt[s][r] = "none"  BY DEF Init
  <2>2. parent[r] = None /\ proj[r] = None /\ born[r].how = "root"  BY DEF Init, NoDeclaration
  <2> QED BY <2>1, <2>2 DEF Recorded, Sources
<1>8. OneReplacement  BY DEF Init, OneReplacement, Listed
<1> QED BY <1>4, <1>5, <1>6, <1>7, <1>8 DEF IInv

LEMMA StepKeeps == ASSUME IInv, [Next]_vars PROVE IInv'
<1>1. CASE UNCHANGED vars
  <2>1. SameFiles /\ call' = call  BY <1>1, Unchanged DEF vars
  <2>2. TypeOK'  BY <2>1, FilesKeep DEF IInv, TypeOK
  <2>4. Exclusive'  BY <2>1 DEF IInv, Exclusive, Past, Creates
  <2>5. Visible' /\ Written'  BY <2>1, OthersKeep DEF Visible, Written
  <2> QED BY <2>1, <2>2, <2>4, <2>5, FilesKeep DEF IInv
<1>2. CASE Next
  <2>1. PICK c \in Caller :
          \/ CreateStarts(c)
          \/ \E r \in Run : LoadStart(c, r) \/ CloseStart(c, r)
          \/ Proceed(c) \/ Throw(c) \/ PublishFails(c) \/ Crash(c) \/ Again(c)
    BY <1>2 DEF Next
  <2>2. CASE CreateStarts(c)  BY <2>2, CreateStartKeeps DEF CreateStarts
  <2>3. CASE \E r \in Run : LoadStart(c, r) \/ CloseStart(c, r)
    BY <2>3, LoadStartKeeps, CloseStartKeeps
  <2>4. CASE Throw(c) \/ Crash(c) \/ Again(c)  BY <2>4, StopKeeps
  <2>5. CASE PublishFails(c)  BY <2>5, PublishFailsKeeps
  <2>6. CASE CreateLock(c)  BY <2>6, CreateLockKeeps
  <2>7. CASE Register(c)  BY <2>7, RegisterKeeps
  <2>8. CASE Declare(c)  BY <2>8, DeclareKeeps
  <2>9. CASE Publish(c)  BY <2>9, PublishKeeps
  <2>10. CASE Commit(c)  BY <2>10, CommitKeeps
  <2>11. CASE Project(c)  BY <2>11, ProjectKeeps
  <2>12. CASE Repair(c)  BY <2>12, RepairKeeps
  <2>13. CASE RepairProjection(c)  BY <2>13, RepairProjectionKeeps
  <2>14. CASE Replay(c)  BY <2>14, ReplayKeeps
  <2>15. CASE CloseGuard(c)  BY <2>15, CloseGuardKeeps
  <2>16. CASE CloseWrite(c)  BY <2>16, CloseWriteKeeps
  <2> QED BY <2>1, <2>2, <2>3, <2>4, <2>5, <2>6, <2>7, <2>8, <2>9, <2>10, <2>11, <2>12,
             <2>13, <2>14, <2>15, <2>16 DEF Proceed
<1> QED BY <1>1, <1>2

LEMMA AlwaysIInv == Spec => []IInv
<1>1. IInv /\ [Next]_vars => IInv'  BY StepKeeps
<1> QED BY InitHolds, <1>1, PTL DEF Spec

\* Types, for any number of Runs and callers.
THEOREM TypeCorrect == Spec => []TypeOK
<1>1. IInv => TypeOK  BY DEF IInv
<1> QED BY <1>1, AlwaysIInv, PTL

\* No Run is public before the Run it succeeds is blocked by an entry of it, wherever
\* its creation failed or died.
THEOREM NeverPublicUnindexed == Spec => []PublicIsIndexed
<1>1. IInv => PublicIsIndexed  BY DEF IInv, Recorded, PublicIsIndexed
<1> QED BY <1>1, AlwaysIInv, PTL

\* A committed entry names a Run that exists and succeeds that very Run.
THEOREM CommittedEntriesAreTrue == Spec => []CommittedIsPublic
<1>1. IInv => CommittedIsPublic  BY DEF IInv, Recorded, CommittedIsPublic
<1> QED BY <1>1, AlwaysIInv, PTL

\* However many creations race to replace a source, one Run replaces it.
THEOREM ReplacedOnce == Spec => []OneReplacement
<1>1. IInv => OneReplacement  BY DEF IInv
<1> QED BY <1>1, AlwaysIInv, PTL

\* Whoever else asked for its id, a Run that one source lists is the replacement which that
\* source's receipt declared, and from its projection on both Runs resolve.
THEOREM ReplacementResolves == Spec => []ReplacementOpens
<1>1. ASSUME IInv  PROVE ReplacementOpens
  <2> SUFFICES ASSUME NEW r \in Run, NEW s \in Run, Public(r), Sources(r) = {s}
               PROVE  /\ born[r] = [how |-> "restart", of |-> s]
                      /\ proj[r] # None => ProvenanceResolved(r) /\ ReplacementResolved(s)
    BY DEF ReplacementOpens
  <2>1. Recorded(r) /\ receipt[s][r] # "none"
    <3>1. s \in Sources(r)  OBVIOUS
    <3> QED BY <1>1, <3>1 DEF IInv, Sources
  <2>2. born[r] = [how |-> "restart", of |-> s]
    <3>1. born[r].how = "restart" /\ receipt[born[r].of][r] # "none"  BY <2>1 DEF Recorded
    <3>2. /\ born[r].of \in Run /\ born[r] = [how |-> "restart", of |-> born[r].of]
      BY <1>1, <3>1, BornOf
    <3>3. born[r].of \in Sources(r)  BY <3>1, <3>2 DEF Sources
    <3> QED BY <3>2, <3>3
  <2>3. ASSUME proj[r] # None  PROVE ProvenanceResolved(r) /\ ReplacementResolved(s)
    <3>1. proj[r] = s /\ receipt[s][r] = "committed" /\ parent[r] = None
      <4>1. proj[r] \in Run  BY <1>1, <2>3 DEF IInv, TypeOK
      <4>2. proj[r] \in Sources(r)  BY <2>1, <2>3, <4>1 DEF Recorded, Sources
      <4> QED BY <2>1, <2>3, <4>2 DEF Recorded
    <3>2. Listed(s) = {r}
      <4>1. r \in Listed(s)  BY <2>1 DEF Listed
      <4> QED BY <1>1, <4>1 DEF IInv, OneReplacement
    <3>3. Replacements(s) = {r}
      <4>1. Replacements(s) \subseteq Listed(s) /\ r \in Replacements(s)
        BY <3>1 DEF Replacements, Listed
      <4> QED BY <3>2, <4>1
    <3>4. ASSUME NEW q \in Run, proj[q] = s  PROVE q = r
      <4>1. receipt[s][q] # "none"  BY <1>1, <3>4, NoneAssumption DEF IInv, Recorded
      <4>2. q \in Listed(s)  BY <4>1 DEF Listed
      <4> QED BY <3>2, <4>2
    <3>5. ReplacementResolved(s)
      BY <3>1, <3>2, <3>3, <3>4 DEF ReplacementResolved
    <3> QED BY <3>1, <3>5 DEF ProvenanceResolved
  <2> QED BY <2>2, <2>3
<1> QED BY <1>1, AlwaysIInv, PTL

Final ==
  \A s, r \in Run :
    /\ cont[s][r] = "committed" => cont'[s][r] = "committed"
    /\ receipt[s][r] # "none" => receipt'[s][r] # "none"
    /\ proj[r] # None => proj'[r] = proj[r]

LEMMA EntriesFinal ==
  ASSUME IInv, NEW c \in Caller,
         \/ Register(c) \/ PublishFails(c) \/ Replay(c)
         \/ Commit(c) /\ call[c].how = "continue"
  PROVE  Final
<1>1. /\ call[c].op = "create" /\ UNCHANGED receipt /\ UNCHANGED proj
      /\ call[c].at \in {"stage", "publish", "replay", "commit"}
  BY DEF Register, PublishFails, Replay, Commit, At
<1>2. call[c].run \in Run /\ (call[c].how # "root" => call[c].of \in Run)
  BY <1>1, CallFields DEF Ops
<1>3. cont \in [Run -> [Run -> State]]  BY DEF IInv, TypeOK
<1>4. PICK r \in Run : r = call[c].run  BY <1>2
<1>5. CASE Register(c) \/ PublishFails(c)
  <2>1. ~Public(r)
    BY <1>1, <1>4, <1>5
    DEF IInv, Visible, VisibleTo, CreatesAt, Creates, Register, PublishFails, At
  <2>2. \A s \in Run : cont[s][r] # "committed"  BY <2>1 DEF IInv, Recorded
  <2>3. \/ cont' = cont
        \/ \E s \in Run : cont' = [cont EXCEPT ![s][r] = "pending"]
        \/ \E s \in Run : cont' = [cont EXCEPT ![s][r] = "none"]
    BY <1>2, <1>4, <1>5 DEF Register, PublishFails
  <2>4. ASSUME NEW s \in Run, NEW q \in Run, cont[s][q] = "committed"
        PROVE  cont'[s][q] = "committed"
    <3>1. q # r  BY <2>2, <2>4
    <3> QED BY <1>3, <2>3, <2>4, <3>1
  <2> QED BY <1>1, <2>4 DEF Final
<1>6. CASE Replay(c) \/ (Commit(c) /\ call[c].how = "continue")
  <2>1. cont' = cont \/ \E s \in Run : cont' = [cont EXCEPT ![s][r] = "committed"]
    BY <1>2, <1>4, <1>6 DEF Replay, Commit
  <2>2. ASSUME NEW s \in Run, NEW q \in Run, cont[s][q] = "committed"
        PROVE  cont'[s][q] = "committed"
    BY <1>3, <2>1, <2>2
  <2> QED BY <1>1, <2>2 DEF Final
<1> QED BY <1>5, <1>6

LEMMA ReceiptsFinal ==
  ASSUME IInv, NEW c \in Caller,
         Declare(c) \/ Repair(c) \/ (Commit(c) /\ call[c].how = "restart")
  PROVE  Final
<1>1. UNCHANGED proj /\ UNCHANGED cont  BY DEF Declare, Repair, Commit
<1>2. receipt \in [Run -> [Run -> State]]  BY DEF IInv, TypeOK
<1>3. call[c].run \in Run /\ (call[c].how # "root" => call[c].of \in Run)
  BY CallFields DEF Declare, Repair, Commit, At, Ops
<1>4. \/ receipt' = receipt
      \/ \E s, r \in Run : \E e \in {"pending", "committed"} :
           receipt' = [receipt EXCEPT ![s][r] = e]
  BY <1>3 DEF Declare, Repair, Commit
<1>5. ASSUME NEW s \in Run, NEW r \in Run, receipt[s][r] # "none"
      PROVE  receipt'[s][r] # "none"
  BY <1>2, <1>4, <1>5
<1> QED BY <1>1, <1>5 DEF Final

LEMMA ProjectionsFinal ==
  ASSUME IInv, NEW c \in Caller, Project(c) \/ RepairProjection(c)
  PROVE  Final
<1>1. UNCHANGED cont /\ UNCHANGED receipt  BY DEF Project, RepairProjection
<1>2. proj \in [Run -> Run \union {None}]  BY DEF IInv, TypeOK
<1>3. call[c].run \in Run /\ (call[c].how # "root" => call[c].of \in Run)
  BY CallFields DEF Project, RepairProjection, At, Ops
<1>4. PICK r \in Run : r = call[c].run  BY <1>3
<1>5. \E s \in Run : proj' = [proj EXCEPT ![r] = s] /\ proj[r] \in {None, s}
  <2>1. CASE Project(c)
    <3>1. proj[r] \in {None, call[c].of} /\ call[c].how = "restart"
      BY <1>4, <2>1 DEF IInv, Written, WrittenBy, CreatesAt, Creates, Project, At
    <3> QED BY <1>3, <1>4, <2>1, <3>1 DEF Project
  <2>2. CASE RepairProjection(c)
    <3>1. PICK s \in Run : Sources(r) = {s} /\ proj' = [proj EXCEPT ![r] = s]
      BY <1>4, <2>2 DEF RepairProjection
    <3>2. proj[r] # None => proj[r] \in Sources(r)
      BY <1>2 DEF IInv, Recorded, Sources
    <3> QED BY <3>1, <3>2
  <2> QED BY <2>1, <2>2
<1>6. ASSUME NEW q \in Run, proj[q] # None  PROVE proj'[q] = proj[q]
  BY <1>2, <1>5, <1>6
<1> QED BY <1>1, <1>6 DEF Final

\* What is committed, and the provenance of a restart once it is declared, is never
\* taken back.
THEOREM LineageIsFinal == Spec => SuccessionIsFinal
<1>1. ASSUME IInv, [Next]_vars  PROVE Final
  <2>1. CASE UNCHANGED index  BY <2>1 DEF index, Final
  <2>2. CASE Next
    <3>1. PICK c \in Caller :
            \/ CreateStarts(c)
            \/ \E r \in Run : LoadStart(c, r) \/ CloseStart(c, r)
            \/ Proceed(c) \/ Throw(c) \/ PublishFails(c) \/ Crash(c) \/ Again(c)
      BY <2>2 DEF Next
    <3>2. CASE \/ CreateStarts(c) \/ Throw(c) \/ Crash(c) \/ Again(c)
               \/ \E r \in Run : LoadStart(c, r) \/ CloseStart(c, r)
      BY <2>1, <3>2
      DEF CreateStarts, CreateStart, LoadStart, CloseStart, Start, Throw, Crash, Again, disk
    <3>3. CASE CreateLock(c) \/ Publish(c) \/ CloseGuard(c) \/ CloseWrite(c)
      BY <2>1, <3>3 DEF CreateLock, Publish, CloseGuard, CloseWrite, disk
    <3>4. CASE Register(c) \/ PublishFails(c) \/ Replay(c)  BY <1>1, <3>4, EntriesFinal
    <3>5. CASE Commit(c)
      <4>1. call[c].how = "continue" \/ call[c].how = "restart"  BY <3>5 DEF Commit
      <4> QED BY <1>1, <3>5, <4>1, EntriesFinal, ReceiptsFinal
    <3>6. CASE Declare(c) \/ Repair(c)  BY <1>1, <3>6, ReceiptsFinal
    <3>7. CASE Project(c) \/ RepairProjection(c)  BY <1>1, <3>7, ProjectionsFinal
    <3> QED BY <3>1, <3>2, <3>3, <3>4, <3>5, <3>6, <3>7 DEF Proceed
  <2> QED BY <1>1, <2>1, <2>2 DEF vars, disk
<1>2. Final =>
        \A s, r \in Run :
          /\ cont[s][r] = "committed" => cont'[s][r] = "committed"
          /\ receipt[s][r] # "none" => receipt'[s][r] # "none"
          /\ proj[r] # None => proj'[r] = proj[r]
  BY DEF Final
<1> QED BY <1>1, <1>2, AlwaysIInv, PTL DEF Spec, SuccessionIsFinal
=============================================================================
