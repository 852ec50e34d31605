------------------------- MODULE SubworkflowResume --------------------------
(***************************************************************************)
(* Parents and children (runner.py: _tick_run, _resume_subworkflow_parents,*)
(* _waiting_parents_for_child, _repair_terminal_subworkflow_waits).        *)
(*                                                                         *)
(* A parent run starts child runs one after the other and waits for each.  *)
(* When a child ends, the thread that ticked it resumes the parent; the    *)
(* loop's repair pass resumes parents that this missed: the process died   *)
(* in between, the child was cancelled, the wait was not saved yet.  The   *)
(* repair pass runs only when the scan gate opens (module ScanGate).  A    *)
(* running run is ticked some time: that is ScanGate's promise.            *)
(***************************************************************************)
EXTENDS Naturals

CONSTANTS
    MaxHops,       \* bound: children the parent starts
    Faults,        \* kinds of disturbance that happen
    MaxFaults      \* bound: how many of them

FaultKind == {"crash", "cancel", "pause", "unload", "refuse", "raise"}

ASSUME SubworkflowAssumption ==
    /\ MaxHops \in Nat
    /\ Faults \subseteq FaultKind
    /\ MaxFaults \in Nat

Hop == 1..MaxHops

VARIABLES
    parent,      \* status of the parent in the store
    hop,         \* child the parent started last (0: none yet)
    child,       \* status of each child in the store
    paused,      \* the parent is paused
    resolvable,  \* the parent's workflow can be resolved
    parentTick,  \* the parent's tick
    childTick,   \* each child's tick
    gate,        \* a scan pass is on its way
    loop,        \* where the loop's repair pass is
    listed,      \* child the listed parent waited for (0: it did not wait)
    gaveUp,      \* history: an attempt on the current wait failed
    missed,      \* history: the last pass raised before it tried the parent
    faults       \* disturbances so far

runs == <<parent, hop, child>>
vars == <<runs, paused, resolvable, parentTick, childTick, gate, loop, listed,
          gaveUp, missed, faults>>

TypeOK ==
    /\ parent \in {"running", "waiting", "ended"}
    /\ hop \in 0..MaxHops
    /\ child \in [Hop -> {"none", "running", "ended"}]
    /\ paused \in BOOLEAN
    /\ resolvable \in BOOLEAN
    /\ parentTick \in {"none", "step", "save"}
    /\ childTick \in [Hop -> {"none", "step", "look", "resume"}]
    /\ gate \in BOOLEAN
    /\ loop \in {"idle", "load", "resume"}
    /\ listed \in 0..MaxHops
    /\ gaveUp \in BOOLEAN
    /\ missed \in BOOLEAN
    /\ faults \in Nat

Init ==
    /\ parent = "running"
    /\ hop = 0
    /\ child = [h \in Hop |-> "none"]
    /\ paused = FALSE
    /\ resolvable = TRUE
    /\ parentTick = "none"
    /\ childTick = [h \in Hop |-> "none"]
    /\ gate = TRUE
    /\ loop = "idle"
    /\ listed = 0
    /\ gaveUp = FALSE
    /\ missed = FALSE
    /\ faults = 0

-----------------------------------------------------------------------------
Fault(kind) ==
    /\ kind \in Faults
    /\ faults < MaxFaults
    /\ faults' = faults + 1

\* The parent is parked on child h, under the wait key subworkflow:<h>.
WaitsOn(h) == parent = "waiting" /\ hop = h

\* Runtime.resume(max_steps=0) of the wait for child h (external): only the
\* wait with that key is resumed, a paused run refuses, and a wait that is
\* gone is a lost race.
ResumeWait(h) ==
    IF WaitsOn(h) /\ ~paused
    THEN parent' = "running" /\ gate' = TRUE /\ gaveUp' = FALSE
    ELSE /\ gaveUp' = (gaveUp \/ WaitsOn(h))
         /\ UNCHANGED <<parent, gate>>

\* runtime_and_workflow_for_run first: an unresolvable parent is skipped.
TryResume(h) ==
    IF resolvable THEN ResumeWait(h)
    ELSE gaveUp' = (gaveUp \/ WaitsOn(h)) /\ UNCHANGED <<parent, gate>>

\* The resume raises (the store refuses the save): logged, and left to the
\* repair pass.
Refused(h) ==
    /\ Fault("refuse")
    /\ gaveUp' = (gaveUp \/ WaitsOn(h))
    /\ UNCHANGED <<parent, gate>>

-----------------------------------------------------------------------------
(* Ticks of the parent.                                                    *)

ParentTicks ==
    /\ parent = "running" /\ ~paused /\ resolvable
    /\ parentTick = "none"
    /\ parentTick' = "step"
    /\ UNCHANGED <<runs, paused, resolvable, childTick, gate, loop, listed,
                   gaveUp, missed, faults>>

\* start_subworkflow (external) saves the child, running; the tick saves the
\* parent's wait afterwards.
StartChild ==
    /\ parentTick = "step"
    /\ parent = "running"
    /\ hop < MaxHops
    /\ hop' = hop + 1
    /\ child' = [child EXCEPT ![hop + 1] = "running"]
    /\ parentTick' = "save"
    /\ gate' = TRUE
    /\ UNCHANGED <<parent, paused, resolvable, childTick, loop, listed, gaveUp,
                   missed, faults>>

ParentEnds ==
    /\ parentTick = "step"
    /\ parent = "running"
    /\ parent' = "ended"
    /\ parentTick' = "none"
    /\ gate' = TRUE
    /\ UNCHANGED <<hop, child, paused, resolvable, childTick, loop, listed,
                   gaveUp, missed, faults>>

SaveWait ==
    /\ parentTick = "save"
    /\ parent' = "waiting"
    /\ parentTick' = "none"
    /\ gate' = TRUE
    /\ UNCHANGED <<hop, child, paused, resolvable, childTick, loop, listed,
                   gaveUp, missed, faults>>

-----------------------------------------------------------------------------
(* Ticks of a child.                                                       *)

ChildTicks(h) ==
    /\ child[h] = "running"
    /\ childTick[h] = "none"
    /\ childTick' = [childTick EXCEPT ![h] = "step"]
    /\ UNCHANGED <<runs, paused, resolvable, parentTick, gate, loop, listed,
                   gaveUp, missed, faults>>

\* The tick ends the child: completed, or failed by an exception.
ChildEnds(h) ==
    /\ childTick[h] = "step"
    /\ child' = [child EXCEPT ![h] = "ended"]
    /\ childTick' = [childTick EXCEPT ![h] = "look"]
    /\ gate' = TRUE
    /\ UNCHANGED <<parent, hop, paused, resolvable, parentTick, loop, listed,
                   gaveUp, missed, faults>>

\* _waiting_parents_for_child: the child's parent, if it waits for the child;
\* the scan behind it finds nobody else.  A store that raises is logged, and
\* the parent left to the repair pass.
FindParent(h) ==
    /\ childTick[h] = "look"
    /\ \/ /\ childTick' = [childTick EXCEPT
                             ![h] = IF WaitsOn(h) THEN "resume" ELSE "none"]
          /\ UNCHANGED faults
       \/ Fault("raise") /\ childTick' = [childTick EXCEPT ![h] = "none"]
    /\ UNCHANGED <<runs, paused, resolvable, parentTick, gate, loop, listed,
                   gaveUp, missed>>

ResumeParent(h) ==
    /\ childTick[h] = "resume"
    /\ childTick' = [childTick EXCEPT ![h] = "none"]
    /\ \/ TryResume(h) /\ UNCHANGED faults
       \/ Refused(h)
    /\ UNCHANGED <<hop, child, paused, resolvable, parentTick, loop, listed,
                   missed>>

-----------------------------------------------------------------------------
(* The loop: a pass lists the waiting runs and repairs.                    *)

ListWaiting ==
    /\ loop = "idle"
    /\ gate
    /\ gate' = FALSE
    /\ listed' = IF parent = "waiting" THEN hop ELSE 0
    /\ loop' = IF parent = "waiting" THEN "load" ELSE "idle"
    /\ missed' = FALSE
    /\ UNCHANGED <<runs, paused, resolvable, parentTick, childTick, gaveUp,
                   faults>>

\* A list of the store raises: the pass, which the gate will not bring again,
\* ends with nobody listed.
ListRaises ==
    /\ loop = "idle"
    /\ gate
    /\ Fault("raise")
    /\ gate' = FALSE
    /\ listed' = 0
    /\ missed' = TRUE
    /\ UNCHANGED <<runs, paused, resolvable, parentTick, childTick, loop, gaveUp>>

LoadChild ==
    /\ loop = "load"
    /\ loop' = IF child[listed] = "ended" THEN "resume" ELSE "idle"
    /\ UNCHANGED <<runs, paused, resolvable, parentTick, childTick, gate, listed,
                   gaveUp, missed, faults>>

\* The load of a child (this one, or one of another parent before it in the
\* list) raises: the rest of the repair pass is dropped.
LoadRaises ==
    /\ loop = "load"
    /\ Fault("raise")
    /\ loop' = "idle"
    /\ missed' = TRUE
    /\ UNCHANGED <<runs, paused, resolvable, parentTick, childTick, gate, listed,
                   gaveUp>>

\* Mutant: resumes the wait the parent has now, not the one that was listed.
RepairCurrentMutant ==
    /\ loop = "resume"
    /\ loop' = "idle"
    /\ \/ TryResume(hop) /\ UNCHANGED faults
       \/ Refused(hop)
    /\ UNCHANGED <<hop, child, paused, resolvable, parentTick, childTick, listed,
                   missed>>

RepairParent ==
    /\ loop = "resume"
    /\ loop' = "idle"
    /\ \/ TryResume(listed) /\ UNCHANGED faults
       \/ Refused(listed)
    /\ UNCHANGED <<hop, child, paused, resolvable, parentTick, childTick, listed,
                   missed>>

-----------------------------------------------------------------------------
(* Everybody else.                                                         *)

\* A cancel command ends a child, whether a tick is working on it or not.
CancelChild(h) ==
    /\ child[h] = "running"
    /\ Fault("cancel")
    /\ child' = [child EXCEPT ![h] = "ended"]
    /\ gate' = TRUE
    /\ UNCHANGED <<parent, hop, paused, resolvable, parentTick, childTick, loop,
                   listed, gaveUp, missed>>

PauseParent ==
    /\ parent # "ended"
    /\ parentTick = "none"
    /\ ~paused
    /\ Fault("pause")
    /\ paused' = TRUE
    /\ gate' = TRUE
    /\ UNCHANGED <<runs, resolvable, parentTick, childTick, loop, listed, gaveUp, missed>>

SilentUnpauseMutant ==
    /\ paused
    /\ paused' = FALSE
    /\ gaveUp' = FALSE
    /\ UNCHANGED <<runs, resolvable, parentTick, childTick, gate, loop, listed,
                   missed, faults>>

UnpauseParent ==
    /\ paused
    /\ paused' = FALSE
    /\ gate' = TRUE
    /\ gaveUp' = FALSE
    /\ UNCHANGED <<runs, resolvable, parentTick, childTick, loop, listed, missed,
                   faults>>

\* The parent's bundle goes away or comes back; no run file changes.
UnloadWorkflow ==
    /\ resolvable
    /\ Fault("unload")
    /\ resolvable' = FALSE
    /\ UNCHANGED <<runs, paused, parentTick, childTick, gate, loop, listed, gaveUp, missed>>

LoadWorkflow ==
    /\ ~resolvable
    /\ resolvable' = TRUE
    /\ UNCHANGED <<runs, paused, parentTick, childTick, gate, loop, listed,
                   gaveUp, missed, faults>>

\* Mutant: the first pass waits for a change.
UnforcedBootMutant ==
    /\ Fault("crash")
    /\ parentTick' = "none"
    /\ childTick' = [h \in Hop |-> "none"]
    /\ loop' = "idle"
    /\ listed' = 0
    /\ gate' = FALSE
    /\ gaveUp' = FALSE
    /\ missed' = FALSE
    /\ UNCHANGED <<runs, paused, resolvable>>

\* The process dies and starts again: threads are gone, the first pass is
\* forced.
Restart ==
    /\ Fault("crash")
    /\ parentTick' = "none"
    /\ childTick' = [h \in Hop |-> "none"]
    /\ loop' = "idle"
    /\ listed' = 0
    /\ gate' = TRUE
    /\ gaveUp' = FALSE
    /\ missed' = FALSE
    /\ UNCHANGED <<runs, paused, resolvable>>

-----------------------------------------------------------------------------
ParentStep == ParentTicks \/ StartChild \/ SaveWait

ChildStep(h) ==
    \/ ChildTicks(h)
    \/ ChildEnds(h)
    \/ FindParent(h)
    \/ ResumeParent(h)

LoopStep ==
    \/ ListWaiting \/ ListRaises
    \/ LoadChild \/ LoadRaises
    \/ RepairParent

Next ==
    \/ ParentStep
    \/ ParentEnds
    \/ \E h \in Hop : ChildStep(h) \/ CancelChild(h)
    \/ LoopStep
    \/ PauseParent
    \/ UnpauseParent
    \/ UnloadWorkflow
    \/ LoadWorkflow
    \/ Restart

Spec == Init /\ [][Next]_vars

(***************************************************************************)
(* Ticks proceed and the loop keeps looping.  Nothing makes an operator    *)
(* unpause the parent or reload its workflow.                              *)
(***************************************************************************)
FairSpec ==
    /\ Spec
    /\ WF_vars(ParentStep)
    /\ \A h \in Hop : WF_vars(ChildStep(h))
    /\ WF_vars(LoopStep)

-----------------------------------------------------------------------------
(* Properties.                                                             *)

(***************************************************************************)
(* A wait is resumed only by the end of its own child: an attempt that was *)
(* overtaken (listed, or found, before another path resumed the parent and *)
(* the parent went on to its next child) does nothing to the next wait.    *)
(***************************************************************************)
ResumedByOwnChild ==
    [][\A h \in Hop : WaitsOn(h) /\ parent' = "running" => child[h] = "ended"]_vars

\* A repair pass is on its way to the wait for child h.
Attended(h) ==
    \/ gate
    \/ loop \in {"load", "resume"} /\ listed = h

(***************************************************************************)
(* No parent is stranded on a child that ended: a repair pass is on its    *)
(* way to it, whatever becomes of the tick thread that ended the child.    *)
(* The exceptions: an attempt was refused (the parent is paused, its       *)
(* workflow cannot be resolved, or the resume raised), or the store raised *)
(* under the last pass, which nothing repeats until the store changes      *)
(* (the log says "will retry next poll").                                  *)
(***************************************************************************)
NoParentStranded ==
    \A h \in Hop :
       WaitsOn(h) /\ child[h] = "ended" => Attended(h) \/ gaveUp \/ missed

(***************************************************************************)
(* A parent whose child ended goes on, over restarts, cancelled children,  *)
(* pauses that end and waits that are saved late, unless it is paused, an  *)
(* attempt on its wait was refused or the last pass raised before it came  *)
(* to the parent.                                                          *)
(***************************************************************************)
ParentGoesOn ==
    \A h \in Hop :
       (WaitsOn(h) /\ child[h] = "ended")
          ~> (~WaitsOn(h) \/ paused \/ gaveUp \/ missed)
=============================================================================
