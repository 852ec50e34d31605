-------------------------- MODULE RunnerLockProofs --------------------------
(***************************************************************************)
(* Proofs about RunnerLock, for any number of runners, processes and runs  *)
(* and any number of loop errors.                                          *)
(***************************************************************************)
EXTENDS RunnerLock, TLAPS

\* Positions from the stored lock handle to its release.
OwningPc == {"clear", "enter", "loop", "drop", "unlink", "body", "drain",
             "release", "heal", "healrel"}

\* The worker writes the lock file, and runs the loop, under the kernel lock;
\* only a stop() that lets go takes the lock away underneath it.
WorkerOwns ==
    \A r \in Runner :
       /\ worker[r] = "stamp" => flock = r
       /\ worker[r] \in OwningPc => flock = r \/ StopLetGo(r)

\* The flag outlives the lock only between the two halves of a release; in the
\* worker's own the loop flag is down already.
FlagIsHonest ==
    \A r \in Runner :
       /\ r \in lockHeld => \/ flock = r
                           \/ stopper[r] \in {"drop", "unflag"}
                           \/ worker[r] \in {"unflag", "healunflag"}
       /\ worker[r] \in {"unflag", "healunflag"} => r \notin loopRunning
       /\ worker[r] \in {"drain", "release", "heal", "healrel"}
             => r \notin loopRunning

\* What stop() and the yield path establish on the way to their release.
DrainedOnTheWay ==
    \A r \in Runner :
       /\ stopper[r] \in {"drain", "release", "drop", "unflag", "ended", "held"}
             => r \in closed /\ queued[r] = {}
       /\ stopper[r] \in {"release", "drop", "unflag", "ended"} => ticking[r] = {}
       /\ worker[r] = "release" => LiveTicks(r) = {} \/ Stopping(r)

IInv == TypeOK /\ WorkerOwns /\ FlagIsHonest /\ DrainedOnTheWay /\ SoleTicker

-----------------------------------------------------------------------------
(* Type correctness.                                                       *)

USE ConstantsAssumption

\* A fresh set of processes is well typed.
LEMMA TypeInit == Init => TypeOK
BY DEF Init, TypeOK, WorkerPc, StopPc

\* Every step of the worker, of stop(), of a tick and of a dying process
\* keeps the type invariant.
LEMMA TypeStep == TypeOK /\ [Next]_vars => TypeOK'
<1> SUFFICES ASSUME TypeOK, [Next]_vars PROVE TypeOK'
  OBVIOUS
<1> USE DEF TypeOK, GoTo, files, flags, ticks, WorkerPc, StopPc
<1>1. ASSUME NEW r \in Runner, Start(r) PROVE TypeOK'
  BY <1>1 DEF Start
<1>2. ASSUME NEW r \in Runner, StopSeen(r) PROVE TypeOK'
  BY <1>2 DEF StopSeen
<1>3. ASSUME NEW r \in Runner, AcquireSingletonLock(r) PROVE TypeOK'
  BY <1>3 DEF AcquireSingletonLock
<1>4. ASSUME NEW r \in Runner, AcquireFails(r) PROVE TypeOK'
  BY <1>4 DEF AcquireFails
<1>5. ASSUME NEW r \in Runner, StampLockFile(r) PROVE TypeOK'
  BY <1>5 DEF StampLockFile
<1>6. ASSUME NEW r \in Runner, RequestTakeoverOnce(r) PROVE TypeOK'
  BY <1>6 DEF RequestTakeoverOnce
<1>7. ASSUME NEW r \in Runner, ClearTakeoverOnAcquire(r) PROVE TypeOK'
  BY <1>7 DEF ClearTakeoverOnAcquire
<1>8. ASSUME NEW r \in Runner, EnterLoop(r) PROVE TypeOK'
  BY <1>8 DEF EnterLoop
<1>9. ASSUME NEW r \in Runner, LoopTop(r) PROVE TypeOK'
  BY <1>9 DEF LoopTop
<1>10. ASSUME NEW r \in Runner, DropStaleRequest(r) PROVE TypeOK'
  BY <1>10 DEF DropStaleRequest
<1>11. ASSUME NEW r \in Runner, LoopBodyEnds(r) PROVE TypeOK'
  BY <1>11 DEF LoopBodyEnds
<1>12. ASSUME NEW r \in Runner, YieldDrainEnds(r) PROVE TypeOK'
  BY <1>12 DEF YieldDrainEnds
<1>13. ASSUME NEW r \in Runner, YieldRelease(r) PROVE TypeOK'
  BY <1>13 DEF YieldRelease, ReleaseSingletonLock
<1>14. ASSUME NEW r \in Runner, GraceEnds(r) PROVE TypeOK'
  BY <1>14 DEF GraceEnds
<1>15. ASSUME NEW r \in Runner, LoopError(r) PROVE TypeOK'
  BY <1>15 DEF LoopError
<1>16. ASSUME NEW r \in Runner, HealDrainEnds(r) PROVE TypeOK'
  BY <1>16 DEF HealDrainEnds
<1>17. ASSUME NEW r \in Runner, HealRelease(r) PROVE TypeOK'
  BY <1>17 DEF HealRelease, ReleaseSingletonLock
<1>18. ASSUME NEW r \in Runner, NEW x \in Run, SubmitTick(r, x) PROVE TypeOK'
  BY <1>18 DEF SubmitTick
<1>19. ASSUME NEW r \in Runner, NEW x \in Run, TickBegins(r, x) PROVE TypeOK'
  BY <1>19 DEF TickBegins
<1>20. ASSUME NEW r \in Runner, NEW x \in Run, TickEnds(r, x) PROVE TypeOK'
  BY <1>20 DEF TickEnds
<1>21. ASSUME NEW r \in Runner, StopBegin(r) PROVE TypeOK'
  BY <1>21 DEF StopBegin
<1>22. ASSUME NEW r \in Runner, StopJoinEnds(r) PROVE TypeOK'
  BY <1>22 DEF StopJoinEnds
<1>23. ASSUME NEW r \in Runner, StopShutdownExecutors(r) PROVE TypeOK'
  BY <1>23 DEF StopShutdownExecutors
<1>24. ASSUME NEW r \in Runner, StopDrainEnds(r) PROVE TypeOK'
  BY <1>24 DEF StopDrainEnds
<1>25. ASSUME NEW r \in Runner, StopRelease(r) PROVE TypeOK'
  BY <1>25 DEF StopRelease, ReleaseSingletonLock
<1>26. ASSUME NEW p \in Pid, Die(p) PROVE TypeOK'
  BY <1>26 DEF Die
<1>27. CASE UNCHANGED vars
  BY <1>27 DEF vars
<1>28. ASSUME NEW r \in Runner, WorkerClearsFlag(r) PROVE TypeOK'
  BY <1>28 DEF WorkerClearsFlag, ClearLockHeld
<1>29. ASSUME NEW r \in Runner, StopClearsFlags(r) PROVE TypeOK'
  BY <1>29 DEF StopClearsFlags, ClearLockHeld
<1> QED
  BY <1>1, <1>2, <1>3, <1>4, <1>5, <1>6, <1>7, <1>8, <1>9, <1>10, <1>11, <1>12, <1>13, <1>14, <1>15, <1>16, <1>17, <1>18, <1>19, <1>20, <1>21, <1>22, <1>23, <1>24, <1>25, <1>26, <1>27, <1>28, <1>29 DEF Next, WorkerStep, StopStep, TickStep

-----------------------------------------------------------------------------
(* The lock discipline.                                                    *)

Discipline == WorkerOwns /\ FlagIsHonest /\ DrainedOnTheWay /\ SoleTicker

\* Before any worker starts nobody owns, holds or ticks anything.
LEMMA DisciplineInit == Init => Discipline
BY DEF Init, Discipline, WorkerOwns, OwningPc, FlagIsHonest, DrainedOnTheWay,
       SoleTicker, LiveTicks, Stopping

\* Every step keeps the lock discipline: whoever lets go of the kernel lock
\* has no live ticks left, or is recorded as having abandoned them.
LEMMA DisciplineStep == TypeOK /\ Discipline /\ [Next]_vars => Discipline'
<1> SUFFICES ASSUME TypeOK, Discipline, [Next]_vars PROVE Discipline'
  OBVIOUS
<1> USE DEF TypeOK, Discipline, WorkerOwns, OwningPc, FlagIsHonest,
            DrainedOnTheWay, SoleTicker, LiveTicks, Stopping, StopLetGo, GoTo, files,
            flags, ticks
<1>1. ASSUME NEW r \in Runner, Start(r) PROVE Discipline'
  BY <1>1 DEF Start
<1>2. ASSUME NEW r \in Runner, StopSeen(r) PROVE Discipline'
  BY <1>2 DEF StopSeen
<1>3. ASSUME NEW r \in Runner, AcquireSingletonLock(r) PROVE Discipline'
  BY <1>3 DEF AcquireSingletonLock
<1>4. ASSUME NEW r \in Runner, AcquireFails(r) PROVE Discipline'
  BY <1>4 DEF AcquireFails
<1>5. ASSUME NEW r \in Runner, StampLockFile(r) PROVE Discipline'
  BY <1>5 DEF StampLockFile
<1>6. ASSUME NEW r \in Runner, RequestTakeoverOnce(r) PROVE Discipline'
  BY <1>6 DEF RequestTakeoverOnce
<1>7. ASSUME NEW r \in Runner, ClearTakeoverOnAcquire(r) PROVE Discipline'
  BY <1>7 DEF ClearTakeoverOnAcquire
<1>8. ASSUME NEW r \in Runner, EnterLoop(r) PROVE Discipline'
  BY <1>8 DEF EnterLoop
<1>9. ASSUME NEW r \in Runner, LoopTop(r) PROVE Discipline'
  BY <1>9 DEF LoopTop
<1>10. ASSUME NEW r \in Runner, DropStaleRequest(r) PROVE Discipline'
  BY <1>10 DEF DropStaleRequest
<1>11. ASSUME NEW r \in Runner, LoopBodyEnds(r) PROVE Discipline'
  BY <1>11 DEF LoopBodyEnds
<1>12. ASSUME NEW r \in Runner, YieldDrainEnds(r) PROVE Discipline'
  BY <1>12 DEF YieldDrainEnds, Inflight
<1>13. ASSUME NEW r \in Runner, YieldRelease(r) PROVE Discipline'
  BY <1>13 DEF YieldRelease, ReleaseSingletonLock
<1>14. ASSUME NEW r \in Runner, GraceEnds(r) PROVE Discipline'
  BY <1>14 DEF GraceEnds
<1>15. ASSUME NEW r \in Runner, LoopError(r) PROVE Discipline'
  BY <1>15 DEF LoopError
<1>16. ASSUME NEW r \in Runner, HealDrainEnds(r) PROVE Discipline'
  BY <1>16 DEF HealDrainEnds, Inflight
<1>17. ASSUME NEW r \in Runner, HealRelease(r) PROVE Discipline'
  BY <1>17 DEF HealRelease, ReleaseSingletonLock
<1>18. ASSUME NEW r \in Runner, NEW x \in Run, SubmitTick(r, x) PROVE Discipline'
  BY <1>18 DEF SubmitTick, Inflight
<1>19. ASSUME NEW r \in Runner, NEW x \in Run, TickBegins(r, x) PROVE Discipline'
  BY <1>19 DEF TickBegins
<1>20. ASSUME NEW r \in Runner, NEW x \in Run, TickEnds(r, x) PROVE Discipline'
  BY <1>20 DEF TickEnds
<1>21. ASSUME NEW r \in Runner, StopBegin(r) PROVE Discipline'
  BY <1>21 DEF StopBegin
<1>22. ASSUME NEW r \in Runner, StopJoinEnds(r) PROVE Discipline'
  BY <1>22 DEF StopJoinEnds
<1>23. ASSUME NEW r \in Runner, StopShutdownExecutors(r) PROVE Discipline'
  BY <1>23 DEF StopShutdownExecutors
<1>24. ASSUME NEW r \in Runner, StopDrainEnds(r) PROVE Discipline'
  BY <1>24 DEF StopDrainEnds, Inflight
<1>25. ASSUME NEW r \in Runner, StopRelease(r) PROVE Discipline'
  BY <1>25 DEF StopRelease, ReleaseSingletonLock
<1>26. ASSUME NEW p \in Pid, Die(p) PROVE Discipline'
  BY <1>26 DEF Die
<1>27. CASE UNCHANGED vars
  BY <1>27 DEF vars
<1>28. ASSUME NEW r \in Runner, WorkerClearsFlag(r) PROVE Discipline'
  BY <1>28 DEF WorkerClearsFlag, ClearLockHeld
<1>29. ASSUME NEW r \in Runner, StopClearsFlags(r) PROVE Discipline'
  BY <1>29 DEF StopClearsFlags, ClearLockHeld
<1> QED
  BY <1>1, <1>2, <1>3, <1>4, <1>5, <1>6, <1>7, <1>8, <1>9, <1>10, <1>11, <1>12, <1>13, <1>14, <1>15, <1>16, <1>17, <1>18, <1>19, <1>20, <1>21, <1>22, <1>23, <1>24, <1>25, <1>26, <1>27, <1>28, <1>29 DEF Next, WorkerStep, StopStep, TickStep

-----------------------------------------------------------------------------
(* Theorems.                                                               *)

\* The inductive invariant holds in every reachable state.
LEMMA Inductive == Spec => []IInv
<1>1. Init => IInv
  BY TypeInit, DisciplineInit DEF IInv, Discipline
<1>2. IInv /\ [Next]_vars => IInv'
  BY TypeStep, DisciplineStep DEF IInv, Discipline
<1> QED
  BY <1>1, <1>2, PTL DEF Spec

\* The state of _run, _loop, stop() and the files keeps its types.
THEOREM TypeCorrect == Spec => []TypeOK
<1>1. IInv => TypeOK
  BY DEF IInv
<1> QED
  BY <1>1, Inductive, PTL

\* However many processes share a data directory, a runner has queued or
\* executing ticks only while it owns the kernel lock, unless the bounded
\* drain of the crash handler or a stop() during a yield abandoned them.
THEOREM SoleTickerHolds == Spec => []SoleTicker
<1>1. IInv => SoleTicker
  BY DEF IInv
<1> QED
  BY <1>1, Inductive, PTL

\* The loop body of _loop runs under the kernel lock, except behind a stop()
\* that gave up waiting for the worker thread.
THEOREM BodyUnderLockHolds == Spec => []BodyUnderLock
<1>1. IInv => BodyUnderLock
  BY DEF IInv, WorkerOwns, OwningPc, BodyUnderLock, StopLetGo
<1> QED
  BY <1>1, Inductive, PTL

\* runner_status() says "active" only in the process that owns the lock, or
\* inside a stop() that has freed it and not yet cleared `_lock_held`.
THEOREM ActiveIsHonestHolds == Spec => []ActiveIsHonest
<1>1. IInv => ActiveIsHonest
  <2> SUFFICES ASSUME IInv, NEW r \in Runner, RunnerStatus(r) = "active"
               PROVE  flock = r \/ stopper[r] \in {"drop", "unflag"}
    BY DEF ActiveIsHonest
  <2>1. r \in lockHeld /\ r \in loopRunning
    BY DEF RunnerStatus
  <2> QED
    BY <2>1 DEF IInv, FlagIsHonest
<1> QED
  BY <1>1, Inductive, PTL
=============================================================================
