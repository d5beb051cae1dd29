------------------------------- MODULE RunLock -------------------------------
(***************************************************************************)
(* The file lock every mutation of a Run is made under                     *)
(* (artifact-store/run-lock.ts).  withRunLock, withRunCreationLock and     *)
(* withReportLock are the same protocol on three lock files; the module    *)
(* models one lock file.                                                   *)
(*                                                                         *)
(* A caller is one call of withLock; several callers may live in one OS    *)
(* process, whose pid is all that the lock file says of its owner.  A      *)
(* caller is between two awaits at every value of pc, so callers of one    *)
(* process interleave as those of different processes do.                  *)
(***************************************************************************)
EXTENDS Integers, FiniteSets

CONSTANTS Caller,      \* calls of withLock
          Process,     \* operating-system processes
          NoOwner,     \* the lock file does not exist
          ProcessOf,   \* the process that makes a call
          MaxCrash     \* bound: crashes considered

ASSUME ProcessOfAssumption == ProcessOf \in [Caller -> Process]
ASSUME NoOwnerAssumption == NoOwner \notin Caller
ASSUME MaxCrashAssumption == MaxCrash \in Nat

VARIABLES lock,      \* the caller whose temporary file is linked as the lock
          pc,        \* where each caller is
          attempt,   \* the loop counter of withLock
          alive,     \* processes process.kill(pid, 0) finds
          crashes,   \* how many processes crashed so far
          displaced  \* history: a takeover removed the lock of a caller in its action

vars == <<lock, pc, attempt, alive, crashes, displaced>>

Attempts == 2

PC == {"idle", "link", "read", "remove", "action", "release", "throw", "dead"}

Init ==
  /\ lock = NoOwner
  /\ pc = [c \in Caller |-> "idle"]
  /\ attempt = [c \in Caller |-> 0]
  /\ alive = Process
  /\ crashes = 0
  /\ displaced = FALSE

\* Callers that believe they own the lock: acquired is true.
Holding(c) == pc[c] \in {"action", "release"}

Running(c) == ProcessOf[c] \in alive

Move(c, from, to) ==
  /\ Running(c)
  /\ pc[c] = from
  /\ pc' = [pc EXCEPT ![c] = to]

\* open(temporary, "wx"), write the owner, sync, close: the file that will be
\* linked is complete.  Its name is unique to the call, so it needs no state.
WriteOwner(c) ==
  /\ Move(c, "idle", "link")
  /\ attempt' = [attempt EXCEPT ![c] = 0]
  /\ UNCHANGED <<lock, alive, crashes, displaced>>

\* Mutant: rename instead of link, which replaces the lock of another caller.
AcquireReplacing(c) ==
  /\ Move(c, "link", "action")
  /\ lock' = c
  /\ UNCHANGED <<attempt, alive, crashes, displaced>>

\* link(temporary, filename) succeeds and the action is entered.
Acquire(c) ==
  /\ Move(c, "link", "action")
  /\ lock = NoOwner
  /\ lock' = c
  /\ UNCHANGED <<attempt, alive, crashes, displaced>>

\* link fails with EEXIST: removeStaleLock is called.
Occupied(c) ==
  /\ Move(c, "link", "read")
  /\ lock # NoOwner
  /\ UNCHANGED <<lock, attempt, alive, crashes, displaced>>

\* The loop counter goes up; the loop is left without the lock after Attempts.
AfterAttempt(c) == IF attempt[c] + 1 < Attempts THEN "link" ELSE "throw"

NextAttempt(c) == attempt' = [attempt EXCEPT ![c] = @ + 1]

\* ENOENT: the lock was released in between; removeStaleLock returns true.
ReadReleased(c) ==
  /\ Move(c, "read", AfterAttempt(c))
  /\ lock = NoOwner
  /\ NextAttempt(c)
  /\ UNCHANGED <<lock, alive, crashes, displaced>>

\* Mutant: a live owner is waited for instead of being reported.
ReadLiveSpins(c) ==
  /\ Move(c, "read", "link")
  /\ lock # NoOwner
  /\ ProcessOf[lock] \in alive
  /\ UNCHANGED <<lock, attempt, alive, crashes, displaced>>

\* The owner's pid exists: removeStaleLock returns false and withLock throws.
ReadLive(c) ==
  /\ Move(c, "read", "throw")
  /\ lock # NoOwner
  /\ ProcessOf[lock] \in alive
  /\ UNCHANGED <<lock, attempt, alive, crashes, displaced>>

\* Mutant: a stale lock is reported like a live one.
ReadStaleRefuses(c) ==
  /\ Move(c, "read", "throw")
  /\ lock # NoOwner
  /\ ProcessOf[lock] \notin alive
  /\ UNCHANGED <<lock, attempt, alive, crashes, displaced>>

\* The owner's pid does not exist: the lock is judged stale.
ReadStale(c) ==
  /\ Move(c, "read", "remove")
  /\ lock # NoOwner
  /\ ProcessOf[lock] \notin alive
  /\ UNCHANGED <<lock, attempt, alive, crashes, displaced>>

\* rm(filename, { force: true }): whatever file has that name now.
RemoveStale(c) ==
  /\ Move(c, "remove", AfterAttempt(c))
  /\ lock' = NoOwner
  /\ NextAttempt(c)
  /\ displaced' = (displaced \/ \E d \in Caller : lock = d /\ Holding(d))
  /\ UNCHANGED <<alive, crashes>>

\* The action returns or throws; finally is entered with acquired = true.
ActionEnds(c) ==
  /\ Move(c, "action", "release")
  /\ UNCHANGED <<lock, attempt, alive, crashes, displaced>>

\* finally: the lock file is removed without looking whose it is.
Release(c) ==
  /\ Move(c, "release", "idle")
  /\ lock' = NoOwner
  /\ UNCHANGED <<attempt, alive, crashes, displaced>>

\* finally of a call that never acquired: the lock file is left alone.
Throw(c) ==
  /\ Move(c, "throw", "idle")
  /\ UNCHANGED <<lock, attempt, alive, crashes, displaced>>

\* A process dies: its calls stop where they are, its files stay.
Crash(p) ==
  /\ p \in alive
  /\ crashes < MaxCrash
  /\ alive' = alive \ {p}
  /\ crashes' = crashes + 1
  /\ pc' = [c \in Caller |-> IF ProcessOf[c] = p THEN "dead" ELSE pc[c]]
  /\ UNCHANGED <<lock, attempt, displaced>>

\* The pid is given to a new process: a lock the old one left looks live.
Reuse(p) ==
  /\ p \notin alive
  /\ alive' = alive \union {p}
  /\ pc' = [c \in Caller |-> IF ProcessOf[c] = p THEN "idle" ELSE pc[c]]
  /\ UNCHANGED <<lock, attempt, crashes, displaced>>

Step(c) ==
  \/ WriteOwner(c)  \/ Acquire(c)    \/ Occupied(c)
  \/ ReadReleased(c) \/ ReadLive(c)  \/ ReadStale(c) \/ RemoveStale(c)
  \/ ActionEnds(c)  \/ Release(c)    \/ Throw(c)

Next ==
  \/ \E c \in Caller : Step(c)
  \/ \E p \in Process : Crash(p) \/ Reuse(p)

Spec == Init /\ [][Next]_vars

\* A process that is running takes the step its call is at; a call need not be
\* made (WriteOwner) and a crashed pid need not be reused.
Proceed(c) ==
  \/ Acquire(c) \/ Occupied(c)
  \/ ReadReleased(c) \/ ReadLive(c) \/ ReadStale(c) \/ RemoveStale(c)
  \/ ActionEnds(c) \/ Release(c) \/ Throw(c)

FairSpec == Spec /\ \A c \in Caller : WF_vars(Proceed(c))

-----------------------------------------------------------------------------
\* Type invariant: the lock file, the calls and the processes
\* range over what run-lock.ts writes.
TypeOK ==
  /\ lock \in Caller \union {NoOwner}
  /\ pc \in [Caller -> PC]
  /\ attempt \in [Caller -> 0 .. Attempts]
  /\ alive \subseteq Process
  /\ crashes \in 0 .. MaxCrash
  /\ displaced \in BOOLEAN

\* The promise of the message of run-lock.ts:65, "another writer owns the Run
\* operation": two callers never run an action under the lock at once.
MutualExclusion ==
  \A c, d \in Caller : Holding(c) /\ Holding(d) => c = d

\* The lock excludes as long as no contender has removed a lock other than the
\* one whose owner is dead: the gap between readFile and rm in removeStaleLock is
\* the only way to two writers, crashes and pid reuse included.
ExclusiveUnlessDisplaced == ~displaced => MutualExclusion

\* A lock is taken over only after a crash: with live processes only, however
\* their calls interleave, no removal ever hits a lock its caller did not own.
TakeoverNeedsCrash == crashes = 0 => MutualExclusion

\* A call ends: each caller that wrote its owner file gets the lock or an
\* error, or its process dies; two attempts bound the retries.
CallEnds ==
  \A c \in Caller : pc[c] = "link" ~> pc[c] \in {"action", "idle", "dead"}

\* A lock left by a dead process does not outlive the next call that contends
\* for it, unless its pid is given to a new process.
StaleLockGoes ==
  \A p \in Process : \A c \in Caller :
    (lock # NoOwner /\ p = ProcessOf[lock] /\ p \notin alive /\ pc[c] = "read")
      ~> (lock = NoOwner \/ ProcessOf[lock] # p \/ p \in alive \/ pc[c] = "dead")
=============================================================================
