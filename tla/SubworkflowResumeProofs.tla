---------------------- MODULE SubworkflowResumeProofs -----------------------
(***************************************************************************)
(* Proofs about SubworkflowResume, for every number of children and every  *)
(* mixture of disturbances.                                                *)
(***************************************************************************)
EXTENDS SubworkflowResume, TLAPS

\* A child that was not started yet has no state, and nobody works on it.
FutureIsBlank ==
    /\ \A h \in Hop : h > hop => child[h] = "none" /\ childTick[h] = "none"
    /\ listed <= hop

\* Who waits, or is about to, waits for a child it started.
WaitIsForAChild == parent = "waiting" \/ parentTick = "save" => hop > 0

\* Whoever is about to resume a wait has seen its child ended; a child that
\* ended stays so.
ResumersAreRight ==
    /\ loop \in {"load", "resume"} => listed \in Hop
    /\ loop = "resume" => child[listed] = "ended"
    /\ \A h \in Hop : childTick[h] \in {"look", "resume"} => child[h] = "ended"

-----------------------------------------------------------------------------
\* Type correctness.

LEMMA TypeInit == Init => TypeOK
<1> SUFFICES ASSUME Init PROVE TypeOK
  OBVIOUS
<1>1. 0 \in 0..MaxHops /\ 0 \in Nat
  BY SubworkflowAssumption
<1> QED
  BY <1>1 DEF Init, TypeOK

\* An attempt to resume the wait for child h keeps the types it touches.
LEMMA ResumeTypes ==
    ASSUME NEW h, TypeOK,
           (TryResume(h) /\ UNCHANGED faults) \/ Refused(h)
    PROVE  /\ parent' \in {"running", "waiting", "ended"}
           /\ gate' \in BOOLEAN
           /\ gaveUp' \in BOOLEAN
           /\ faults' \in Nat
<1>1. parent' = parent \/ parent' = "running"
  BY DEF TryResume, ResumeWait, Refused
<1>2. gate' = gate \/ gate' = TRUE
  BY DEF TryResume, ResumeWait, Refused
<1>3. gaveUp' = FALSE \/ gaveUp' = (gaveUp \/ WaitsOn(h))
  BY DEF TryResume, ResumeWait, Refused
<1>4. (gaveUp \/ WaitsOn(h)) \in BOOLEAN
  BY Zenon
<1>5. faults' = faults \/ faults' = faults + 1
  BY DEF Refused, Fault
<1>6. faults \in Nat
  BY DEF TypeOK
<1>7. faults' \in Nat
  BY <1>5, <1>6
<1>8. gaveUp' \in BOOLEAN
  BY <1>3, <1>4, Zenon
<1> QED
  BY <1>1, <1>2, <1>7, <1>8, Zenon DEF TypeOK

LEMMA TypeStep == TypeOK /\ [Next]_vars => TypeOK'
<1> SUFFICES ASSUME TypeOK, [Next]_vars PROVE TypeOK'
  OBVIOUS
<1> USE SubworkflowAssumption DEF TypeOK
<1>1. CASE ParentTicks
  BY <1>1 DEF ParentTicks, runs
<1>2. CASE StartChild
  BY <1>2 DEF StartChild, Hop
<1>3. CASE SaveWait
  BY <1>3 DEF SaveWait
<1>4. CASE ParentEnds
  BY <1>4 DEF ParentEnds
<1>5. ASSUME NEW h \in Hop, ChildStep(h) PROVE TypeOK'
  <2>1. CASE ChildTicks(h)
    BY <2>1 DEF ChildTicks, runs
  <2>2. CASE ChildEnds(h)
    BY <2>2 DEF ChildEnds
  <2>3. CASE FindParent(h)
    <3>1. faults' \in Nat
      BY <2>3 DEF FindParent, Fault
    <3>2. /\ childTick' \in [Hop -> {"none", "step", "look", "resume"}]
          /\ UNCHANGED <<runs, paused, resolvable, parentTick, gate, loop,
                         listed, gaveUp, missed>>
      BY <2>3 DEF FindParent
    <3> QED
      BY <3>1, <3>2 DEF runs
  <2>4. CASE ResumeParent(h)
    <3>1. (TryResume(h) /\ UNCHANGED faults) \/ Refused(h)
      BY <2>4 DEF ResumeParent
    <3>2. /\ childTick' = [childTick EXCEPT ![h] = "none"]
          /\ UNCHANGED <<hop, child, paused, resolvable, parentTick, loop,
                         listed, missed>>
      BY <2>4 DEF ResumeParent
    <3>3. childTick' \in [Hop -> {"none", "step", "look", "resume"}]
      BY <3>2
    <3> HIDE DEF TypeOK
    <3>4. /\ parent' \in {"running", "waiting", "ended"}
          /\ gate' \in BOOLEAN /\ gaveUp' \in BOOLEAN /\ faults' \in Nat
      BY <3>1, ResumeTypes
    <3> QED
      BY <3>2, <3>3, <3>4 DEF TypeOK
  <2> QED
    BY <1>5, <2>1, <2>2, <2>3, <2>4 DEF ChildStep
<1>6. ASSUME NEW h \in Hop, CancelChild(h) PROVE TypeOK'
  BY <1>6 DEF CancelChild, Fault
<1>7. CASE ListWaiting
  <2>1. listed' \in 0..MaxHops /\ loop' \in {"idle", "load", "resume"}
    BY <1>7 DEF ListWaiting
  <2>2. gate' = FALSE /\ missed' = FALSE /\ UNCHANGED <<runs, paused, resolvable, parentTick,
                                     childTick, gaveUp, faults>>
    BY <1>7 DEF ListWaiting
  <2> QED
    BY <2>1, <2>2 DEF runs
<1>8. CASE LoadChild
  BY <1>8 DEF LoadChild, runs
<1>9. CASE RepairParent
  <2>1. (TryResume(listed) /\ UNCHANGED faults) \/ Refused(listed)
    BY <1>9 DEF RepairParent
  <2>2. /\ loop' = "idle"
        /\ UNCHANGED <<hop, child, paused, resolvable, parentTick, childTick,
                       listed, missed>>
    BY <1>9 DEF RepairParent
  <2> HIDE DEF TypeOK
  <2>3. /\ parent' \in {"running", "waiting", "ended"}
        /\ gate' \in BOOLEAN /\ gaveUp' \in BOOLEAN /\ faults' \in Nat
    BY <2>1, ResumeTypes
  <2> QED
    BY <2>2, <2>3 DEF TypeOK
<1>10. CASE PauseParent
  BY <1>10 DEF PauseParent, Fault, runs
<1>11. CASE UnpauseParent
  BY <1>11 DEF UnpauseParent, runs
<1>12. CASE UnloadWorkflow
  <2>1. faults' \in Nat
    BY <1>12 DEF UnloadWorkflow, Fault
  <2>2. resolvable' = FALSE /\ UNCHANGED <<runs, paused, parentTick, childTick,
                                           gate, loop, listed, gaveUp, missed>>
    BY <1>12 DEF UnloadWorkflow
  <2> QED
    BY <2>1, <2>2 DEF runs
<1>13. CASE LoadWorkflow
  BY <1>13 DEF LoadWorkflow, runs
<1>14. CASE Restart
  <2>1. faults' \in Nat /\ 0 \in 0..MaxHops
    BY <1>14 DEF Restart, Fault
  <2>2. /\ parentTick' = "none" /\ childTick' = [h \in Hop |-> "none"]
        /\ loop' = "idle" /\ listed' = 0 /\ gate' = TRUE /\ gaveUp' = FALSE
        /\ missed' = FALSE
        /\ UNCHANGED <<runs, paused, resolvable>>
    BY <1>14 DEF Restart
  <2> QED
    BY <2>1, <2>2 DEF runs
<1>15. CASE UNCHANGED vars
  BY <1>15 DEF vars, runs
<1>16. CASE ListRaises
  <2>1. faults' \in Nat /\ 0 \in 0..MaxHops
    BY <1>16 DEF ListRaises, Fault
  <2>2. /\ gate' = FALSE /\ listed' = 0 /\ missed' = TRUE
        /\ UNCHANGED <<runs, paused, resolvable, parentTick, childTick, loop,
                       gaveUp>>
    BY <1>16 DEF ListRaises
  <2> QED
    BY <2>1, <2>2 DEF runs
<1>17. CASE LoadRaises
  <2>1. faults' \in Nat
    BY <1>17 DEF LoadRaises, Fault
  <2>2. /\ loop' = "idle" /\ missed' = TRUE
        /\ UNCHANGED <<runs, paused, resolvable, parentTick, childTick, gate,
                       listed, gaveUp>>
    BY <1>17 DEF LoadRaises
  <2> QED
    BY <2>1, <2>2 DEF runs
<1> QED
  BY <1>1, <1>2, <1>3, <1>4, <1>5, <1>6, <1>7, <1>8, <1>9, <1>10, <1>11,
     <1>12, <1>13, <1>14, <1>15, <1>16, <1>17 DEF Next, ParentStep, LoopStep

(***************************************************************************)
(* Every variable keeps its type.                                          *)
(***************************************************************************)
THEOREM TypeCorrect == Spec => []TypeOK
BY TypeInit, TypeStep, PTL DEF Spec

-----------------------------------------------------------------------------
\* The inductive invariant.

Inv == TypeOK /\ FutureIsBlank /\ WaitIsForAChild /\ ResumersAreRight /\ NoParentStranded

LEMMA InvInit == Init => Inv
<1> SUFFICES ASSUME Init 
             PROVE  FutureIsBlank /\ WaitIsForAChild /\ ResumersAreRight /\ NoParentStranded
  BY TypeInit DEF Inv
<1> QED
  BY DEF Init, FutureIsBlank, WaitIsForAChild, ResumersAreRight, NoParentStranded, WaitsOn

\* What the two resume paths have in common: the wait for child h is resumed,
\* or it is gone, or the attempt is on record.
LEMMA ResumeOutcome ==
    ASSUME NEW h \in Hop, TryResume(h) \/ Refused(h)
    PROVE  /\ parent' = parent \/ (WaitsOn(h) /\ parent' = "running")
           /\ parent' = parent => gate' = gate /\ (gaveUp => gaveUp')
           /\ WaitsOn(h) /\ parent' = parent => gaveUp'
BY DEF TryResume, ResumeWait, Refused, WaitsOn

LEMMA InvStep == Inv /\ [Next]_vars => Inv'
<1> SUFFICES ASSUME Inv, [Next]_vars
             PROVE  FutureIsBlank' /\ WaitIsForAChild' /\ ResumersAreRight' /\ NoParentStranded'
  BY TypeStep DEF Inv
<1> USE SubworkflowAssumption
     DEF Inv, FutureIsBlank, WaitIsForAChild, ResumersAreRight, NoParentStranded, Attended, WaitsOn
<1>t. hop \in Nat /\ listed \in Nat /\ MaxHops \in Nat /\ Hop \subseteq Nat
  BY DEF TypeOK, Hop
<1>1. CASE ParentTicks
  BY <1>1 DEF ParentTicks, runs
<1>2. CASE StartChild
  <2>1. hop' = hop + 1 /\ hop + 1 \in Hop
    BY <1>2, <1>t DEF StartChild, Hop
  <2>2. /\ child[hop + 1] = "none" /\ childTick[hop + 1] = "none"
        /\ child' = [child EXCEPT ![hop + 1] = "running"]
        /\ listed <= hop /\ parent' = "running"
        /\ UNCHANGED <<childTick, loop, listed>>
    BY <1>2, <1>t, <2>1 DEF StartChild
  <2> QED
    BY <2>1, <2>2, <1>t DEF TypeOK
<1>3. CASE SaveWait
  BY <1>3 DEF SaveWait
<1>4. CASE ParentEnds
  BY <1>4 DEF ParentEnds
<1>5. ASSUME NEW h \in Hop, ChildStep(h)
      PROVE  FutureIsBlank' /\ WaitIsForAChild' /\ ResumersAreRight' /\ NoParentStranded'
  <2>1. CASE ChildTicks(h)
    BY <2>1, <1>t DEF ChildTicks, runs, TypeOK
  <2>2. CASE ChildEnds(h)
    BY <2>2, <1>t DEF ChildEnds, TypeOK
  <2>3. CASE FindParent(h)
    BY <2>3, <1>t DEF FindParent, runs, TypeOK
  <2>4. CASE ResumeParent(h)
    <3>1. TryResume(h) \/ Refused(h)
      BY <2>4 DEF ResumeParent
    <3>2. /\ childTick[h] = "resume"
          /\ childTick' = [childTick EXCEPT ![h] = "none"]
          /\ UNCHANGED <<hop, child, parentTick, loop, listed, missed>>
      BY <2>4 DEF ResumeParent
    <3>3. /\ parent' = parent \/ (WaitsOn(h) /\ parent' = "running")
          /\ parent' = parent => gate' = gate /\ (gaveUp => gaveUp')
          /\ WaitsOn(h) /\ parent' = parent => gaveUp'
      BY <3>1, ResumeOutcome
    <3> QED
      BY <3>2, <3>3, <1>t DEF TypeOK
  <2> QED
    BY <1>5, <2>1, <2>2, <2>3, <2>4 DEF ChildStep
<1>6. ASSUME NEW h \in Hop, CancelChild(h)
      PROVE  FutureIsBlank' /\ WaitIsForAChild' /\ ResumersAreRight' /\ NoParentStranded'
  BY <1>6, <1>t DEF CancelChild, TypeOK
<1>7. CASE ListWaiting
  <2>1. parent = "waiting" => hop \in Hop
    BY <1>t DEF TypeOK, Hop
  <2> QED
    BY <1>7, <1>t, <2>1 DEF ListWaiting, runs, Hop
<1>8. CASE LoadChild
  BY <1>8 DEF LoadChild, runs
<1>9. CASE RepairParent
  <2>1. listed \in Hop /\ (TryResume(listed) \/ Refused(listed))
    BY <1>9 DEF RepairParent
  <2>2. /\ loop' = "idle" /\ loop = "resume"
        /\ UNCHANGED <<hop, child, parentTick, childTick, listed, missed>>
    BY <1>9 DEF RepairParent
  <2>3. /\ parent' = parent \/ (WaitsOn(listed) /\ parent' = "running")
        /\ parent' = parent => gate' = gate /\ (gaveUp => gaveUp')
        /\ WaitsOn(listed) /\ parent' = parent => gaveUp'
    BY <2>1, ResumeOutcome
  <2> QED
    BY <2>2, <2>3
<1>10. CASE PauseParent
  BY <1>10 DEF PauseParent, runs
<1>11. CASE UnpauseParent
  BY <1>11 DEF UnpauseParent, runs
<1>12. CASE UnloadWorkflow
  BY <1>12 DEF UnloadWorkflow, runs
<1>13. CASE LoadWorkflow
  BY <1>13 DEF LoadWorkflow, runs
<1>14. CASE Restart
  BY <1>14, <1>t DEF Restart, runs
<1>15. CASE UNCHANGED vars
  BY <1>15 DEF vars, runs
<1>16. CASE ListRaises
  BY <1>16, <1>t DEF ListRaises, runs
<1>17. CASE LoadRaises
  BY <1>17 DEF LoadRaises, runs
<1> QED
  BY <1>1, <1>2, <1>3, <1>4, <1>5, <1>6, <1>7, <1>8, <1>9, <1>10, <1>11,
     <1>12, <1>13, <1>14, <1>15, <1>16, <1>17 DEF Next, ParentStep, LoopStep

(***************************************************************************)
(* For every number of children: a parent that waits for a child that      *)
(* ended has a repair pass on its way to it, or an attempt on it was       *)
(* refused, or the store raised under the last pass.                       *)
(***************************************************************************)
THEOREM NoParentStrandedHolds == Spec => []NoParentStranded
<1>1. Inv => NoParentStranded
  BY DEF Inv
<1> QED
  BY <1>1, InvInit, InvStep, PTL DEF Spec

(***************************************************************************)
(* For every number of children: a wait ends only when its own child did,  *)
(* whichever of the two paths gets there first and however late the other. *)
(***************************************************************************)
THEOREM ResumedByOwnChildHolds == Spec => ResumedByOwnChild
<1> DEFINE A == \A h \in Hop : WaitsOn(h) /\ parent' = "running" => child[h] = "ended"
<1>1. Inv /\ [Next]_vars => [A]_vars
  <2> SUFFICES ASSUME Inv, Next, NEW h \in Hop, WaitsOn(h), parent' = "running"
               PROVE  child[h] = "ended"
    OBVIOUS
  <2>1. parent = "waiting" /\ parent' # parent
    BY DEF WaitsOn
  <2>2. /\ ~ ParentStep /\ ~ ParentEnds /\ ~ ListWaiting /\ ~ LoadChild
        /\ ~ ListRaises /\ ~ LoadRaises
    BY <2>1 DEF ParentStep, ParentTicks, StartChild, SaveWait, ParentEnds,
                ListWaiting, LoadChild, ListRaises, LoadRaises, runs
  <2>3. /\ ~ PauseParent /\ ~ UnpauseParent /\ ~ UnloadWorkflow
        /\ ~ LoadWorkflow /\ ~ Restart
    BY <2>1 DEF PauseParent, UnpauseParent, UnloadWorkflow, LoadWorkflow,
                Restart, runs
  <2>4. ASSUME NEW g \in Hop, ChildStep(g) \/ CancelChild(g)
        PROVE  child[h] = "ended"
    <3>1. ResumeParent(g)
      BY <2>1, <2>4 DEF ChildStep, ChildTicks, ChildEnds, FindParent,
                        CancelChild, runs
    <3>2. childTick[g] = "resume" /\ (TryResume(g) \/ Refused(g))
      BY <3>1 DEF ResumeParent
    <3>3. WaitsOn(g)
      BY <3>2, <2>1, ResumeOutcome
    <3> QED
      BY <3>2, <3>3 DEF WaitsOn, Inv, ResumersAreRight
  <2>5. CASE RepairParent
    <3>1. listed \in Hop /\ child[listed] = "ended"
      BY <2>5 DEF RepairParent, Inv, ResumersAreRight
    <3>2. TryResume(listed) \/ Refused(listed)
      BY <2>5 DEF RepairParent
    <3>3. WaitsOn(listed)
      BY <3>1, <3>2, <2>1, ResumeOutcome
    <3> QED
      BY <3>1, <3>3 DEF WaitsOn
  <2> QED
    BY <2>2, <2>3, <2>4, <2>5 DEF Next, LoopStep
<1> QED
  BY <1>1, InvInit, InvStep, PTL DEF Spec, ResumedByOwnChild
=============================================================================
