---------------------------- MODULE RunLockProofs ----------------------------
(***************************************************************************)
(* For any number of callers and processes, crashes and reused pids: the   *)
(* lock excludes until a takeover removes the lock of a caller inside its  *)
(* action, and no takeover happens without a crash.                        *)
(***************************************************************************)
EXTENDS RunLock, TLAPS

\* A caller that still tries has attempts left: what bounds the loop counter.
AttemptsLeft ==
  \A c \in Caller : pc[c] \in {"link", "read", "remove"} => attempt[c] < Attempts

\* The lock file names the caller that believes it holds the lock.
HolderIsNamed == ~displaced => \A c \in Caller : Holding(c) => lock = c

\* Without a crash no lock is ever judged stale, so none is displaced.
NoTakeoverYet ==
  crashes = 0 =>
    /\ alive = Process
    /\ ~displaced
    /\ \A c \in Caller : pc[c] # "remove"

Inv == TypeOK /\ AttemptsLeft /\ HolderIsNamed /\ NoTakeoverYet

\* Before any call the lock is free and every process alive.
LEMMA InitInv == Init => Inv
<1> SUFFICES ASSUME Init PROVE Inv
  OBVIOUS
<1> USE ProcessOfAssumption, NoOwnerAssumption, MaxCrashAssumption DEF Init
<1>1. TypeOK
  <2>1. lock \in Caller \union {NoOwner} /\ alive \subseteq Process
    OBVIOUS
  <2>2. pc \in [Caller -> PC]
    BY DEF PC
  <2>3. attempt \in [Caller -> 0 .. Attempts] /\ crashes \in 0 .. MaxCrash
    BY DEF Attempts
  <2> QED
    BY <2>1, <2>2, <2>3 DEF TypeOK
<1>2. AttemptsLeft
  BY DEF AttemptsLeft
<1>3. HolderIsNamed
  BY DEF HolderIsNamed, Holding
<1>4. NoTakeoverYet
  BY DEF NoTakeoverYet
<1> QED
  BY <1>1, <1>2, <1>3, <1>4 DEF Inv

\* Every step keeps the types of the variables and the bound on the attempts.
LEMMA NextTypeOK ==
  TypeOK /\ AttemptsLeft /\ [Next]_vars => TypeOK' /\ AttemptsLeft'
<1> SUFFICES ASSUME TypeOK, AttemptsLeft, [Next]_vars
             PROVE  TypeOK' /\ AttemptsLeft'
  OBVIOUS
<1> USE ProcessOfAssumption, NoOwnerAssumption, MaxCrashAssumption
    DEF TypeOK, AttemptsLeft, PC, Move, Running, Attempts
<1>1. ASSUME NEW c \in Caller, Step(c) PROVE TypeOK' /\ AttemptsLeft'
  <2>1. CASE WriteOwner(c)
    BY <2>1 DEF WriteOwner
  <2>2. CASE Acquire(c)
    BY <2>2 DEF Acquire
  <2>3. CASE Occupied(c)
    BY <2>3 DEF Occupied
  <2>4. CASE ReadReleased(c)
    BY <2>4 DEF ReadReleased, AfterAttempt, NextAttempt
  <2>5. CASE ReadLive(c)
    BY <2>5 DEF ReadLive
  <2>6. CASE ReadStale(c)
    BY <2>6 DEF ReadStale
  <2>7. CASE RemoveStale(c)
    BY <2>7 DEF RemoveStale, AfterAttempt, NextAttempt
  <2>8. CASE ActionEnds(c)
    BY <2>8 DEF ActionEnds
  <2>9. CASE Release(c)
    BY <2>9 DEF Release
  <2>10. CASE Throw(c)
    BY <2>10 DEF Throw
  <2> QED
    BY <1>1, <2>1, <2>2, <2>3, <2>4, <2>5, <2>6, <2>7, <2>8, <2>9, <2>10 DEF Step
<1>2. ASSUME NEW p \in Process, Crash(p) PROVE TypeOK' /\ AttemptsLeft'
  BY <1>2 DEF Crash
<1>3. ASSUME NEW p \in Process, Reuse(p) PROVE TypeOK' /\ AttemptsLeft'
  BY <1>3 DEF Reuse
<1>4. CASE UNCHANGED vars
  BY <1>4 DEF vars
<1> QED
  BY <1>1, <1>2, <1>3, <1>4 DEF Next

\* Every step keeps the lock file naming its holder until a lock is displaced.
LEMMA NextHolderIsNamed ==
  TypeOK /\ HolderIsNamed /\ [Next]_vars => HolderIsNamed'
<1> SUFFICES ASSUME TypeOK, HolderIsNamed, [Next]_vars, ~displaced',
                    NEW d \in Caller, Holding(d)'
             PROVE  lock' = d
  BY DEF HolderIsNamed
<1> USE ProcessOfAssumption, NoOwnerAssumption
    DEF TypeOK, HolderIsNamed, Holding, Move, PC
<1>1. ASSUME NEW c \in Caller, Step(c) PROVE lock' = d
  <2>1. CASE WriteOwner(c)
    BY <2>1 DEF WriteOwner
  <2>2. CASE Acquire(c)
    BY <2>2 DEF Acquire
  <2>3. CASE Occupied(c)
    BY <2>3 DEF Occupied
  <2>4. CASE ReadReleased(c)
    BY <2>4 DEF ReadReleased, AfterAttempt
  <2>5. CASE ReadLive(c)
    BY <2>5 DEF ReadLive
  <2>6. CASE ReadStale(c)
    BY <2>6 DEF ReadStale
  <2>7. CASE RemoveStale(c)
    BY <2>7 DEF RemoveStale, AfterAttempt
  <2>8. CASE ActionEnds(c)
    BY <2>8 DEF ActionEnds
  <2>9. CASE Release(c)
    BY <2>9 DEF Release
  <2>10. CASE Throw(c)
    BY <2>10 DEF Throw
  <2> QED
    BY <1>1, <2>1, <2>2, <2>3, <2>4, <2>5, <2>6, <2>7, <2>8, <2>9, <2>10 DEF Step
<1>2. ASSUME NEW p \in Process, Crash(p) PROVE lock' = d
  BY <1>2 DEF Crash
<1>3. ASSUME NEW p \in Process, Reuse(p) PROVE lock' = d
  BY <1>3 DEF Reuse
<1>4. CASE UNCHANGED vars
  BY <1>4 DEF vars
<1> QED
  BY <1>1, <1>2, <1>3, <1>4 DEF Next

\* Only a crash makes an owner look dead, so no step takes a lock over before.
LEMMA NextNoTakeoverYet ==
  TypeOK /\ NoTakeoverYet /\ [Next]_vars => NoTakeoverYet'
<1> SUFFICES ASSUME TypeOK, NoTakeoverYet, [Next]_vars, crashes' = 0
             PROVE  alive' = Process /\ ~displaced' /\ \A d \in Caller : pc'[d] # "remove"
  BY DEF NoTakeoverYet
<1> USE ProcessOfAssumption, NoOwnerAssumption, MaxCrashAssumption
    DEF TypeOK, NoTakeoverYet, Move, PC
<1>1. ASSUME NEW c \in Caller, Step(c)
      PROVE  alive' = Process /\ ~displaced' /\ \A d \in Caller : pc'[d] # "remove"
  <2>1. CASE WriteOwner(c)
    BY <2>1 DEF WriteOwner
  <2>2. CASE Acquire(c)
    BY <2>2 DEF Acquire
  <2>3. CASE Occupied(c)
    BY <2>3 DEF Occupied
  <2>4. CASE ReadReleased(c)
    BY <2>4 DEF ReadReleased, AfterAttempt
  <2>5. CASE ReadLive(c)
    BY <2>5 DEF ReadLive
  <2>6. CASE ReadStale(c)
    BY <2>6 DEF ReadStale
  <2>7. CASE RemoveStale(c)
    BY <2>7 DEF RemoveStale
  <2>8. CASE ActionEnds(c)
    BY <2>8 DEF ActionEnds
  <2>9. CASE Release(c)
    BY <2>9 DEF Release
  <2>10. CASE Throw(c)
    BY <2>10 DEF Throw
  <2> QED
    BY <1>1, <2>1, <2>2, <2>3, <2>4, <2>5, <2>6, <2>7, <2>8, <2>9, <2>10 DEF Step
<1>2. ASSUME NEW p \in Process, Crash(p) PROVE FALSE
  BY <1>2 DEF Crash
<1>3. ASSUME NEW p \in Process, Reuse(p) PROVE FALSE
  BY <1>3 DEF Reuse
<1>4. CASE UNCHANGED vars
  BY <1>4 DEF vars
<1> QED
  BY <1>1, <1>2, <1>3, <1>4 DEF Next

\* The inductive invariant holds in every reachable state.
THEOREM Invariance == Spec => []Inv
<1>1. Inv /\ [Next]_vars => Inv'
  BY NextTypeOK, NextHolderIsNamed, NextNoTakeoverYet DEF Inv
<1> QED
  BY InitInv, <1>1, PTL DEF Spec

\* The variables of the lock protocol keep their types.
THEOREM TypeCorrect == Spec => []TypeOK
<1>1. Inv => TypeOK
  BY DEF Inv
<1> QED
  BY Invariance, <1>1, PTL

\* withLock excludes as long as no contender removed the lock of a caller inside
\* its action.
THEOREM Exclusion == Spec => []ExclusiveUnlessDisplaced
<1>1. Inv => ExclusiveUnlessDisplaced
  BY DEF Inv, HolderIsNamed, ExclusiveUnlessDisplaced, MutualExclusion
<1> QED
  BY Invariance, <1>1, PTL

\* Without a crash withLock excludes, however the calls interleave.
THEOREM CrashFreeExclusion == Spec => []TakeoverNeedsCrash
<1>1. Inv => TakeoverNeedsCrash
  BY DEF Inv, HolderIsNamed, NoTakeoverYet, TakeoverNeedsCrash, MutualExclusion
<1> QED
  BY Invariance, <1>1, PTL
=============================================================================
