--------------------------- MODULE JsonlLogProofs ---------------------------
(***************************************************************************)
(* The record log proved for any records and identities, any number of     *)
(* interrupted calls, incomplete lines and temporaries.                    *)
(***************************************************************************)
EXTENDS JsonlLog, TLAPS

InCall == step \in {"temp", "link", "unlink", "line"}

\* Receipts come first, and no identity is logged twice.
LogInv ==
  /\ Logged \subseteq receipts
  /\ \A i, j \in 1 .. Len(lines) : SameId(lines[i], lines[j]) => i = j
  /\ partial => dirty

\* The record being logged has no logged rival; its receipt precedes its line.
CallInv ==
  /\ InCall => \A s \in Logged : SameId(rec, s) => s = rec
  /\ step # "idle" => ~partial
  /\ step \in {"temp", "link"} => rec \notin receipts
  /\ step \in {"unlink", "line"} => rec \in receipts
  /\ step \in {"link", "unlink"} => rec \notin torn
  /\ step = "replay" => \A r, s \in receipts : SameId(r, s) => r = s

\* What callers gain that run load-run after an interruption: outside of one,
\* every receipt but that of the call in progress is logged, so no two claim
\* one identity.
FirstInv ==
  RecoverFirst =>
    /\ InCall => ~dirty
    /\ ~dirty => receipts \subseteq Logged \union {rec}
    /\ \A r, s \in receipts : SameId(r, s) => r = s
    /\ InCall => \A s \in receipts : SameId(rec, s) => s = rec

Inv == TypeOK /\ LogInv /\ CallInv /\ FirstInv

\* What an append does to the set of logged records.
LEMMA Appended ==
  ASSUME NEW S, NEW q \in Seq(S), NEW r \in S
  PROVE  /\ Append(q, r) \in Seq(S)
         /\ Len(Append(q, r)) = Len(q) + 1
         /\ \A i \in 1 .. Len(q) : Append(q, r)[i] = q[i]
         /\ Append(q, r)[Len(q) + 1] = r
         /\ {Append(q, r)[i] : i \in 1 .. Len(Append(q, r))} =
              {q[i] : i \in 1 .. Len(q)} \union {r}
<1>1. /\ Append(q, r) \in Seq(S)
      /\ Len(Append(q, r)) = Len(q) + 1
      /\ \A i \in 1 .. Len(q) : Append(q, r)[i] = q[i]
      /\ Append(q, r)[Len(q) + 1] = r
      /\ Len(q) \in Nat
  OBVIOUS
<1> QED
  BY <1>1

\* The log with one more record of a new identity keeps the log invariant.
LEMMA AppendKeeps ==
  ASSUME Inv, NEW r \in receipts, \A s \in Logged : ~SameId(r, s),
         lines' = Append(lines, r), receipts' = receipts
  PROVE  /\ lines' \in Seq(Record)
         /\ Logged' = Logged \union {r}
         /\ Logged' \subseteq receipts'
         /\ \A i, j \in 1 .. Len(lines') : SameId(lines'[i], lines'[j]) => i = j
<1>1. r \in Record /\ lines \in Seq(Record)
  BY DEF Inv, TypeOK
<1>2. /\ lines' \in Seq(Record)
      /\ Len(lines') = Len(lines) + 1 /\ Len(lines) \in Nat
      /\ \A i \in 1 .. Len(lines) : lines'[i] = lines[i]
      /\ lines'[Len(lines) + 1] = r
      /\ Logged' = Logged \union {r}
  BY <1>1, Appended DEF Logged
<1>3. \A i \in 1 .. Len(lines) : lines[i] \in Logged
  BY DEF Logged
<1>4. \A i, j \in 1 .. Len(lines') : SameId(lines'[i], lines'[j]) => i = j
  BY <1>2, <1>3 DEF Inv, LogInv, SameId
<1> QED
  BY <1>2, <1>4 DEF Inv, LogInv

\* Every step keeps the invariant.
LEMMA StepKeeps == Inv /\ [Next]_vars => Inv'
<1> SUFFICES ASSUME Inv, [Next]_vars PROVE Inv'
  OBVIOUS
<1> USE RecordAssumption, BoundAssumption
<1>0. TypeOK /\ LogInv /\ CallInv /\ FirstInv
  BY DEF Inv
<1>1. CASE UNCHANGED vars
  BY <1>0, <1>1 DEF vars, temps, call, bounds, Inv, TypeOK, LogInv, CallInv,
     FirstInv, InCall, Logged
<1>2. ASSUME NEW r \in Record, Start(r) PROVE Inv'
  BY <1>0, <1>2 DEF Start, MayStart, AppendAccepts, temps, bounds, Inv, TypeOK,
     LogInv, CallInv, FirstInv, InCall, Logged, Step, SameId
<1>3. ASSUME NEW r \in Record, Replay(r) PROVE Inv'
  <2>1. r \in receipts /\ \A s \in Logged : ~SameId(r, s)
    BY <1>3 DEF Replay, Unlogged
  <2>2. /\ lines' \in Seq(Record)
        /\ Logged' = Logged \union {r}
        /\ Logged' \subseteq receipts'
        /\ \A i, j \in 1 .. Len(lines') : SameId(lines'[i], lines'[j]) => i = j
    BY <1>0, <1>3, <2>1, AppendKeeps DEF Replay, Inv
  <2> QED
    BY <1>0, <1>3, <2>2 DEF Replay, temps, call, bounds, Inv, TypeOK, LogInv,
       CallInv, FirstInv, InCall, Step
<1>4. CASE WriteTemp
  BY <1>0, <1>4 DEF WriteTemp, bounds, Inv, TypeOK, LogInv, CallInv, FirstInv,
     InCall, Logged, Step
<1>5. CASE WriteThrows
  <2>1. TypeOK'
    BY <1>0, <1>5 DEF WriteThrows, Return, temps, bounds, TypeOK, Step
  <2>2. LogInv' /\ CallInv'
    BY <1>0, <1>5 DEF WriteThrows, Return, temps, bounds, LogInv, CallInv, InCall,
       Logged
  <2>3. FirstInv'
    <3>1. RecoverFirst => rec \notin receipts \/ rec \in Logged
      BY <1>0, <1>5 DEF WriteThrows, FirstInv, InCall, TypeOK, LogInv, CallInv
    <3> QED
      BY <1>0, <1>5, <3>1 DEF WriteThrows, Return, temps, bounds, FirstInv, InCall,
         Logged
  <2> QED
    BY <2>1, <2>2, <2>3 DEF Inv
<1>6. CASE Link
  BY <1>0, <1>6 DEF Link, temps, bounds, Inv, TypeOK, LogInv, CallInv, FirstInv,
     InCall, Logged, Step, SameId
<1>7. CASE Unlink
  BY <1>0, <1>7 DEF Unlink, bounds, Inv, TypeOK, LogInv, CallInv, FirstInv,
     InCall, Logged, Step
<1>8. CASE WriteLine
  <2>1. CASE rec \in Logged
    BY <1>0, <1>8, <2>1 DEF WriteLine, Return, temps, bounds, Inv, TypeOK, LogInv,
       CallInv, FirstInv, InCall, Logged, Step
  <2>2. CASE rec \notin Logged
    <3>1. rec \in receipts /\ \A s \in Logged : ~SameId(rec, s)
      BY <1>0, <1>8, <2>2 DEF WriteLine, CallInv, InCall
    <3>2. /\ lines' \in Seq(Record)
          /\ Logged' = Logged \union {rec}
          /\ Logged' \subseteq receipts'
          /\ \A i, j \in 1 .. Len(lines') : SameId(lines'[i], lines'[j]) => i = j
      BY <1>0, <1>8, <2>2, <3>1, AppendKeeps DEF WriteLine, Inv
    <3> QED
      BY <1>0, <1>8, <3>2 DEF WriteLine, Return, temps, bounds, Inv, TypeOK, LogInv,
         CallInv, FirstInv, InCall, Step
  <2> QED
    BY <2>1, <2>2
<1>9. CASE Repair
  BY <1>0, <1>9 DEF Repair, RepairAccepts, temps, call, bounds, Inv, TypeOK, LogInv,
     CallInv, FirstInv, InCall, Logged, Step
<1>10. CASE Repaired
  <2>1. receipts \subseteq Logged
    BY <1>0, <1>10 DEF Repaired, Unlogged, LogInv, CallInv
  <2>2. TypeOK'
    BY <1>0, <1>10 DEF Repaired, Return, temps, TypeOK, Step
  <2>3. LogInv' /\ CallInv'
    <3>1. partial' => dirty'
      BY <1>0, <1>10 DEF Repaired, CallInv, LogInv
    <3> QED
      BY <1>0, <1>10, <3>1 DEF Repaired, Return, temps, LogInv, CallInv, InCall, Logged,
         SameId
  <2>4. FirstInv'
    BY <1>0, <1>10, <2>1 DEF Repaired, Return, FirstInv, InCall, Logged
  <2> QED
    BY <2>2, <2>3, <2>4 DEF Inv
<1>11. CASE Crash
  BY <1>0, <1>11 DEF Crash, Interrupted, Return, temps, Inv, TypeOK, LogInv, CallInv,
     FirstInv, InCall, Logged, Step
<1>12. CASE CrashInLine
  BY <1>0, <1>12 DEF CrashInLine, Interrupted, Return, temps, Inv, TypeOK, LogInv,
     CallInv, FirstInv, InCall, Logged, Step
<1>13. CASE CrashInTemp
  BY <1>0, <1>13 DEF CrashInTemp, Interrupted, Return, Inv, TypeOK, LogInv,
     CallInv, FirstInv, InCall, Logged, Step
<1> QED
  BY <1>1, <1>2, <1>3, <1>4, <1>5, <1>6, <1>7, <1>8, <1>9, <1>10, <1>11, <1>12,
     <1>13 DEF Next

\* The invariant holds in every reachable state.
THEOREM Invariance == Spec => []Inv
<1>1. Init => Inv
  <2> SUFFICES ASSUME Init PROVE Inv
    OBVIOUS
  <2>1. TypeOK
    <3>1. lines \in Seq(Record)
      BY DEF Init
    <3>2. receipts \subseteq Record /\ temp \subseteq Record /\ torn \subseteq temp
      BY DEF Init
    <3>3. partial \in BOOLEAN /\ dirty \in BOOLEAN
      BY DEF Init
    <3>4. step \in Step /\ rec \in Record \union {NoRecord}
      BY DEF Init, Step
    <3>5. rec = NoRecord <=> step \in {"idle", "replay"}
      BY DEF Init
    <3>6. crashes \in 0 .. MaxCrash
      BY BoundAssumption DEF Init
    <3> QED
      BY <3>1, <3>2, <3>3, <3>4, <3>5, <3>6 DEF TypeOK
  <2>2. lines = <<>> /\ Logged = {}
    BY DEF Init, Logged
  <2>3. LogInv
    <3>1. \A i, j \in 1 .. Len(lines) : SameId(lines[i], lines[j]) => i = j
      BY <2>2
    <3> QED
      BY <2>2, <3>1 DEF Init, LogInv
  <2>4. CallInv
    BY <2>2 DEF Init, CallInv, InCall
  <2>5. FirstInv
    BY DEF Init, FirstInv, InCall
  <2> QED
    BY <2>1, <2>3, <2>4, <2>5 DEF Inv
<1> QED
  BY <1>1, StepKeeps, PTL DEF Spec

\* The files and the call in progress keep their types.
THEOREM TypeCorrect == Spec => []TypeOK
<1>1. Inv => TypeOK
  BY DEF Inv
<1> QED
  BY Invariance, <1>1, PTL

\* An incomplete line is only there between a death and the next load-run.
THEOREM TailIsFresh == Spec => []PartialOnlyWhenDirty
<1>1. Inv => PartialOnlyWhenDirty
  BY DEF Inv, LogInv, PartialOnlyWhenDirty
<1> QED
  BY Invariance, <1>1, PTL

\* Callers that run load-run after every interruption are never refused it.
THEOREM AlwaysReopens == RecoverFirst => (Spec => []LoadAccepts)
<1> SUFFICES ASSUME RecoverFirst PROVE Spec => []LoadAccepts
  OBVIOUS
<1>1. Inv => LoadAccepts
  BY DEF Inv, LogInv, FirstInv, LoadAccepts, RepairAccepts
<1> QED
  BY Invariance, <1>1, PTL

\* The files implement the abstract log.
THEOREM Implements == Spec => ImplementsLog
<1>1. Init => Log!Init
  BY DEF Init, Log!Init
<1>2. ASSUME Inv, [Next]_vars PROVE [Log!Next]_<<receipts, lines>>
  <2>0. TypeOK /\ CallInv
    BY <1>2 DEF Inv
  <2>1. ASSUME NEW r \in receipts, \A s \in Logged : ~SameId(r, s),
               lines' = Append(lines, r), receipts' = receipts
        PROVE Log!Next
    <3>1. r \in Record /\ \A i \in 1 .. Len(lines) : IdOf[lines[i]] # IdOf[r]
      BY <2>0, <2>1 DEF TypeOK, Logged, SameId
    <3>2. Log!Append1(r)
      BY <2>1, <3>1 DEF Log!Append1
    <3> QED
      BY <3>1, <3>2 DEF Log!Next
  <2>2. ASSUME NEW r \in Record, Replay(r) PROVE Log!Next
    BY <2>1, <2>2 DEF Replay, Unlogged
  <2>3. CASE WriteLine
    BY <2>0, <2>1, <2>3 DEF WriteLine, CallInv, InCall
  <2>4. CASE Link
    <3>1. rec \in Record
      BY <2>0, <2>4 DEF TypeOK, Link
    <3> QED
      BY <2>4, <3>1 DEF Link, Log!Next, Log!Intend
  <2>5. CASE UNCHANGED <<receipts, lines>>
    BY <2>5
  <2>6. \/ \E r \in Record : Replay(r)
        \/ WriteLine \/ Link
        \/ UNCHANGED <<receipts, lines>>
    BY <1>2 DEF Next, vars, Start, WriteTemp, WriteThrows, Unlink, Repair, Repaired,
       Crash, CrashInLine, CrashInTemp
  <2> QED
    BY <2>2, <2>3, <2>4, <2>5, <2>6
<1> QED
  BY Invariance, <1>1, <1>2, PTL DEF Spec, ImplementsLog, Log!Spec, Log!vars
=============================================================================
