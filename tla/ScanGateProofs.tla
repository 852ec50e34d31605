--------------------------- MODULE ScanGateProofs ---------------------------
(***************************************************************************)
(* Proofs about ScanGate, for every set of runs, every clock bound and     *)
(* every size of the direct queue.                                         *)
(***************************************************************************)
EXTENDS ScanGate, TLAPS, WellFoundedInduction, FiniteSetTheorems

\* Neither claim is inductive as it stands, for the same reason: `suppressed`
\* and `clobbered` are reset when a pass completes, so while the pass is
\* between its walks and its end they must not be what a run relies on.
RunKept(r) ==
    \/ PassAhead
    \/ pc \in {"due", "submit"} /\ r \in found
    \/ hostPaused \/ r \in lost
    \/ suppressed /\ pc \notin {"due", "submit", "deadline", "note"}

DeadlineKept(r) ==
    \/ NoteAhead
    \/ hostPaused
    \/ pc = "note" /\ OpensBy(horizon, until[r])
    \/ /\ pc # "note"
       /\ OpensBy(nextDue, until[r]) \/ suppressed \/ clobbered

Kept ==
    /\ \A r \in Run :
          status[r] = "running" /\ tick[r] = "none" /\ r \notin direct => RunKept(r)
    /\ \A r \in Run :
          status[r] = "waiting" /\ until[r] # NoTime => DeadlineKept(r)

-----------------------------------------------------------------------------
\* A non-empty set of naturals has a least element.
LEMMA LeastNatural ==
    ASSUME NEW T, T \subseteq Nat, T # {}
    PROVE  \E x \in T : \A y \in T : x <= y
<1>1. IsWellFoundedOn(OpToRel(<, Nat), Nat)
  BY NatLessThanWellFounded, Zenon
<1>2. \E x \in T : \A y \in T : ~ (<<y, x>> \in OpToRel(<, Nat))
  BY <1>1, WFMin, Zenon
<1>3. \A x \in T : \A y \in T :
         ~ (<<y, x>> \in OpToRel(<, Nat)) => ~(y < x)
  BY Zenon DEF OpToRel
<1>4. \E x \in T : \A y \in T : ~(y < x)
  BY <1>2, <1>3, Zenon
<1> QED
  BY <1>4, SMT

\* next_wait_deadline, as _note_next_due uses it: a time no later than the
\* deadline of any waiting run.
LEMMA NextWaitDeadlineIsLeast ==
    ASSUME TypeOK
    PROVE  /\ NextWaitDeadline \in Time
           /\ \A r \in Run : status[r] = "waiting" => NextWaitDeadline <= until[r]
<1>1. Deadlines \subseteq Nat /\ Deadlines \subseteq Time
  BY ScanAssumption DEF Deadlines, TypeOK, Time, NoTime
<1>2. CASE Deadlines = {}
  <2>1. \A r \in Run : status[r] # "waiting"
    BY <1>2 DEF Deadlines
  <2> QED
    BY <1>2, <2>1, ScanAssumption DEF NextWaitDeadline, Time, NoTime
<1>3. CASE Deadlines # {}
  <2>1. \E t \in Deadlines : \A s \in Deadlines : t <= s
    BY <1>1, <1>3, LeastNatural
  <2>2. /\ NextWaitDeadline \in Deadlines
        /\ \A s \in Deadlines : NextWaitDeadline <= s
    BY <1>3, <2>1 DEF NextWaitDeadline
  <2>3. \A r \in Run : status[r] = "waiting" => until[r] \in Deadlines
    BY DEF Deadlines
  <2> QED
    BY <1>1, <2>2, <2>3
<1> QED
  BY <1>2, <1>3

\* The guess behind a failed look at the deadlines is a time, at most one
\* idle interval away.
LEMMA SoonIsSoon ==
    ASSUME TypeOK
    PROVE  Soon \in Time /\ Soon <= clock + IdleInterval
BY ScanAssumption DEF Soon, TypeOK, Time, NoTime

\* _drain_direct_ticks keeps the types; a running run that is idle and not
\* queued behind it was so before, and lost then if it was, or its id was
\* dropped.
LEMMA DrainKeeps ==
    ASSUME TypeOK, NEW n \in Nat, DrainDirectTicks(n)
    PROVE  /\ direct' \in SUBSET (Run \cup StaleId)
           /\ tick' \in [Run -> TickPc]
           /\ lost' \in SUBSET Run
           /\ faults' \in Nat
           /\ \A r \in Run :
                 status[r] = "running" /\ tick'[r] = "none" /\ r \notin direct'
                    => \/ r \in lost'
                       \/ tick[r] = "none" /\ r \notin direct /\ r \notin lost
<1>1. CASE hostPaused
  BY <1>1, SMT DEF DrainDirectTicks, Budget, TypeOK
<1>2. CASE ~hostPaused
  <2> DEFINE Ids == {r \in direct \cap Run : status[r] = "running"}
  <2>1. PICK unread \in SUBSET Ids :
           /\ Budget(n + Cardinality(unread))
           /\ direct' = {}
           /\ Submit(Ids \ unread)
           /\ lost' = (lost \ Ids) \cup {r \in unread : tick[r] = "none"}
    BY <1>2 DEF DrainDirectTicks
  <2>2. unread \subseteq Run
    BY <2>1
  <2>3. Cardinality(unread) \in Nat
    BY <2>2, ScanAssumption, FS_Subset, FS_CardinalityType
  <2>4. faults' \in Nat
    BY <2>1, <2>3 DEF Budget, TypeOK
  <2>5. tick' \in [Run -> TickPc]
    BY <2>1 DEF Submit, TypeOK, TickPc
  <2>6. ASSUME NEW r \in Run, status[r] = "running", tick'[r] = "none",
               r \notin lost'
        PROVE  tick[r] = "none" /\ r \notin direct /\ r \notin lost
    <3>1. tick[r] = "none" /\ ~(r \in Ids \ unread)
      BY <2>1, <2>6 DEF Submit
    <3>2. r \notin Ids
      BY <2>1, <2>6, <3>1
    <3> QED
      BY <2>1, <2>6, <3>1, <3>2
  <2> QED
    BY <2>1, <2>2, <2>4, <2>5, <2>6 DEF TypeOK
<1> QED
  BY <1>1, <1>2

-----------------------------------------------------------------------------
\* Type correctness.

LEMMA TypeInit == Init => TypeOK
<1>1. 0 \in 0..MaxTime /\ 0 \in Nat /\ {0, NoTime} \subseteq Time
  BY ScanAssumption DEF Time, NoTime
<1>2. ASSUME Init PROVE status \in [Run -> Status] /\ until \in [Run -> Time]
  BY <1>1, <1>2 DEF Init, Status
<1> QED
  BY <1>1, <1>2 DEF Init, TypeOK, LoopPc, TickPc

LEMMA TypeStep == TypeOK /\ [Next]_vars => TypeOK'
<1> SUFFICES ASSUME TypeOK, [Next]_vars PROVE TypeOK'
  OBVIOUS
<1> USE ScanAssumption
<1>n. NoTime \in Time /\ 0..MaxTime \subseteq Time /\ Time \subseteq Nat
  BY DEF NoTime, Time
<1>1. CASE LoopDrain
  BY <1>1, DrainKeeps DEF LoopDrain, TypeOK, LoopPc, store, gate
<1>2. CASE ScanPassDue
  BY <1>2 DEF ScanPassDue, TypeOK, LoopPc, store, ticks, history
<1>3. CASE PassBegins
  BY <1>3 DEF PassBegins, Submit, TypeOK, LoopPc, TickPc, store, gate
<1>4. CASE ListRunning
  BY <1>4, DrainKeeps DEF ListRunning, TypeOK, LoopPc, store, gate
<1>5. CASE ListDue
  <2>1. PICK n \in {0, 1} : DrainDirectTicks(n)
    BY <1>5 DEF ListDue
  <2> QED
    BY <1>5, <2>1, DrainKeeps DEF ListDue, TypeOK, LoopPc, store, gate
<1>6. CASE SubmitFound
  BY <1>6 DEF SubmitFound, Submit, TypeOK, LoopPc, TickPc, store, gate
<1>7. CASE ReadNextDeadline
  <2>1. PICK n \in {0, 1} : DrainDirectTicks(n)
    BY <1>7 DEF ReadNextDeadline
  <2>2. horizon' \in Time /\ guessed' \in BOOLEAN
    BY <1>7, <1>n, NextWaitDeadlineIsLeast, SoonIsSoon DEF ReadNextDeadline
  <2> QED
    BY <1>7, <2>1, <2>2, DrainKeeps
       DEF ReadNextDeadline, TypeOK, LoopPc, store, gate
<1>8. CASE NoteNextDue
  BY <1>8, <1>n DEF NoteNextDue, TypeOK, LoopPc, store, ticks
<1>9. CASE LoopRedrain
  BY <1>9, DrainKeeps DEF LoopRedrain, TypeOK, LoopPc, store, gate
<1>10. CASE PassFails
  <2>1. faults' \in Nat
    BY <1>10 DEF PassFails, Budget, TypeOK
  <2> QED
    BY <1>10, <2>1 DEF PassFails, TypeOK, LoopPc, store, gate, ticks
<1>11. ASSUME NEW r \in Run, TickStep(r) PROVE TypeOK'
  <2>1. CASE TickSaves(r)
    BY <2>1, <1>n DEF TickSaves, TypeOK, Status, TickPc, pass, history
  <2>2. ASSUME NEW t \in 0..MaxTime, TickRecordsWait(r, t) PROVE TypeOK'
    BY <2>2, <1>n DEF TickRecordsWait, TypeOK, TickPc, store, gate, pass, history
  <2>3. CASE OnLedgerRecord(r)
    BY <2>3, <1>n DEF OnLedgerRecord, TypeOK, TickPc, store, pass
  <2>4. CASE TickSavesWait(r)
    BY <2>4, <1>n DEF TickSavesWait, TypeOK, Status, TickPc, pass, history
  <2>5. CASE TickSavesNothing(r)
    BY <2>5, <1>n DEF TickSavesNothing, TypeOK, TickPc, store, gate, pass, history
  <2>6. CASE TickUnresolved(r)
    BY <2>6 DEF TickUnresolved, TypeOK, TickPc, store, gate, pass, history
  <2>7. CASE TickDone(r)
    BY <2>7 DEF TickDone, TypeOK, TickPc, store, pass
  <2> QED
    BY <1>11, <2>1, <2>2, <2>3, <2>4, <2>5, <2>6, <2>7 DEF TickStep
<1>12. ASSUME NEW r \in Run, RunAppears(r) PROVE TypeOK'
  BY <1>12, <1>n DEF RunAppears, TypeOK, Status, pass, ticks, history
<1>13. ASSUME NEW i \in Run \cup StaleId, Nudge(i) PROVE TypeOK'
  BY <1>13 DEF Nudge, TypeOK, store, pass, ticks, history
<1>14. CASE HostPause
  BY <1>14 DEF HostPause, TypeOK, store, gate, pass, ticks, history
<1>15. CASE HostResume
  BY <1>15 DEF HostResume, TypeOK, store, pass, ticks, history
<1>16. CASE TimePasses
  BY <1>16 DEF TimePasses, TypeOK, store, gate, pass, ticks, history
<1>17. ASSUME NEW i \in Run \cup StaleId, QueueDirectTick(i)
       PROVE  TypeOK'
  BY <1>17 DEF QueueDirectTick, TypeOK, store, gate, pass, ticks, history
<1>18. CASE UNCHANGED vars
  BY <1>18 DEF vars, TypeOK, store, gate, pass, ticks, history
<1> QED
  BY <1>1, <1>2, <1>3, <1>4, <1>5, <1>6, <1>7, <1>8, <1>9, <1>10, <1>11,
     <1>12, <1>13, <1>14, <1>15, <1>16, <1>17, <1>18 DEF Next, LoopStep

(***************************************************************************)
(* Every variable of the scan gate keeps its type; `_next_due_epoch` and   *)
(* the deadline a pass notes are always times.                             *)
(***************************************************************************)
THEOREM TypeCorrect == Spec => []TypeOK
BY TypeInit, TypeStep, PTL DEF Spec

-----------------------------------------------------------------------------
\* Nothing is forgotten.

LEMMA KeptInit == Init => Kept
BY DEF Init, Kept, RunKept, DeadlineKept, PassAhead, NoteAhead

LEMMA KeptStep == TypeOK /\ Kept /\ [Next]_vars => Kept'
<1> SUFFICES ASSUME TypeOK, Kept, [Next]_vars PROVE Kept'
  OBVIOUS
<1> USE ScanAssumption DEF Kept, RunKept, DeadlineKept, PassAhead, NoteAhead, OpensBy
<1>t. /\ clock \in Nat /\ nextDue \in Nat /\ horizon \in Nat /\ NoTime \in Nat
      /\ \A r \in Run : until[r] \in Nat /\ goal[r] \in Nat /\ dueRead[r] \in Nat
  BY DEF TypeOK, Time, NoTime
<1>1. CASE LoopDrain
  BY <1>1, DrainKeeps DEF LoopDrain, store, gate
<1>2. CASE ScanPassDue
  BY <1>2, <1>t DEF ScanPassDue, store, ticks, history
<1>3. CASE PassBegins
  BY <1>3 DEF PassBegins, Submit, store, gate
<1>4. CASE ListRunning
  BY <1>4, DrainKeeps DEF ListRunning, store, gate
<1>5. CASE ListDue
  <2>1. PICK n \in {0, 1} : DrainDirectTicks(n)
    BY <1>5 DEF ListDue
  <2> QED
    BY <1>5, <2>1, DrainKeeps DEF ListDue, store, gate
<1>6. CASE SubmitFound
  BY <1>6 DEF SubmitFound, Submit, store, gate
<1>7. CASE ReadNextDeadline
  <2>1. PICK n \in {0, 1} : DrainDirectTicks(n)
    BY <1>7 DEF ReadNextDeadline
  <2>2. \A r \in Run : status[r] = "waiting" =>
           \/ horizon' <= until[r]
           \/ guessed' /\ horizon' <= clock + IdleInterval
    BY <1>7, NextWaitDeadlineIsLeast, SoonIsSoon DEF ReadNextDeadline
  <2> QED
    BY <1>7, <2>1, <2>2, DrainKeeps DEF ReadNextDeadline, store, gate
<1>8. CASE NoteNextDue
  <2>1. /\ pc = "note" /\ pc' = "redrain"
        /\ nextDue' = IF horizon <= clock THEN clock ELSE horizon
        /\ UNCHANGED <<clock, status, until, moved, force, direct, hostPaused,
                       found, guessed, tick, lost>>
    BY <1>8 DEF NoteNextDue, store, ticks
  <2>2. IdleInterval \in Nat
    OBVIOUS
  <2>3. ASSUME NEW r \in Run, status[r] = "running", tick[r] = "none",
               r \notin direct
        PROVE  RunKept(r)'
    BY <2>1, <2>3
  <2>4. ASSUME NEW r \in Run, status[r] = "waiting", until[r] # NoTime
        PROVE  DeadlineKept(r)'
    BY <2>1, <2>2, <2>4, <1>t
  <2> QED
    BY <2>1, <2>3, <2>4
<1>9. CASE LoopRedrain
  BY <1>9, DrainKeeps DEF LoopRedrain, store, gate
<1>10. CASE PassFails
  BY <1>10 DEF PassFails, store, gate, ticks
<1>11. ASSUME NEW r \in Run, TickStep(r) PROVE Kept'
  <2>1. CASE TickSaves(r)
    BY <2>1 DEF TickSaves
  <2>2. ASSUME NEW t \in 0..MaxTime, TickRecordsWait(r, t) PROVE Kept'
    BY <2>2 DEF TickRecordsWait, Ticks, TypeOK, store, gate, pass, history
  <2>3. CASE OnLedgerRecord(r)
    <3>1. /\ UNCHANGED <<clock, store, moved, force, direct, hostPaused, pass,
                         suppressed, lost>>
          /\ \A q \in Run : tick'[q] = "none" => tick[q] = "none"
          /\ nextDue' \in Nat
          /\ clobbered' \/ (~clobbered /\ ~(nextDue' > nextDue))
      BY <2>3, <1>t DEF OnLedgerRecord, TypeOK
    <3>2. clobbered => clobbered'
      BY <2>3 DEF OnLedgerRecord
    <3> QED
      BY <3>1, <3>2, <1>t DEF store, pass
  <2>4. CASE TickSavesWait(r)
    BY <2>4 DEF TickSavesWait
  <2>5. CASE TickSavesNothing(r)
    BY <2>5 DEF TickSavesNothing, TypeOK, store, gate, pass, history
  <2>6. CASE TickUnresolved(r)
    BY <2>6 DEF TickUnresolved, TypeOK, store, gate, pass, history
  <2>7. CASE TickDone(r)
    BY <2>7 DEF TickDone, TypeOK, store, pass
  <2> QED
    BY <1>11, <2>1, <2>2, <2>3, <2>4, <2>5, <2>6, <2>7 DEF TickStep
<1>12. ASSUME NEW r \in Run, RunAppears(r) PROVE Kept'
  BY <1>12 DEF RunAppears
<1>13. ASSUME NEW i \in Run \cup StaleId, Nudge(i) PROVE Kept'
  BY <1>13 DEF Nudge
<1>14. CASE HostPause
  BY <1>14 DEF HostPause
<1>15. CASE HostResume
  BY <1>15 DEF HostResume
<1>16. CASE TimePasses
  BY <1>16, <1>t DEF TimePasses, store, gate, pass, ticks, history
<1>17. ASSUME NEW i \in Run \cup StaleId, QueueDirectTick(i)
       PROVE  Kept'
  BY <1>17 DEF QueueDirectTick, store, gate, pass, ticks, history
<1>18. CASE UNCHANGED vars
  BY <1>18 DEF vars, store, gate, pass, ticks, history
<1> QED
  BY <1>1, <1>2, <1>3, <1>4, <1>5, <1>6, <1>7, <1>8, <1>9, <1>10, <1>11,
     <1>12, <1>13, <1>14, <1>15, <1>16, <1>17, <1>18 DEF Next, LoopStep

\* The inductive invariant of the two theorems below.
LEMMA Inductive == Spec => [](TypeOK /\ Kept)
<1>1. Init => TypeOK /\ Kept
  BY TypeInit, KeptInit
<1>2. TypeOK /\ Kept /\ [Next]_vars => (TypeOK /\ Kept)'
  BY TypeStep, KeptStep
<1> QED
  BY <1>1, <1>2, PTL DEF Spec

(***************************************************************************)
(* A running run that is neither in flight nor queued is found by a pass   *)
(* on its way, for every store and every order of ticks, nudges, outside   *)
(* writes and pauses; the exceptions are a host pause, a walk that raised  *)
(* and, for its own run only, an id dropped by a full queue or a raising   *)
(* load.                                                                   *)
(***************************************************************************)
THEOREM NoRunForgottenHolds == Spec => []NoRunForgotten
<1>1. TypeOK /\ Kept => NoRunForgotten
  BY DEF Kept, RunKept, NoRunForgotten
<1> QED
  BY <1>1, Inductive, PTL

(***************************************************************************)
(* The gate opens by time at or before every deadline in the store, or an  *)
(* idle interval from now when the look at the deadlines failed, or a pass *)
(* that will note it is on its way; the exceptions are a host pause, a     *)
(* walk that raised and the lost update of `_next_due_epoch`.              *)
(***************************************************************************)
THEOREM NoDeadlineSleptThroughHolds == Spec => []NoDeadlineSleptThrough
<1>1. TypeOK /\ Kept => NoDeadlineSleptThrough
  BY DEF Kept, DeadlineKept, NoDeadlineSleptThrough, OpensBy
<1> QED
  BY <1>1, Inductive, PTL
=============================================================================
