------------------------------ MODULE ScanGate ------------------------------
(***************************************************************************)
(* The scan gate of GatewayRunner (runner.py): when the loop looks for     *)
(* runs to tick.                                                           *)
(*                                                                         *)
(* A scheduling pass walks the whole run store, so it runs only when it    *)
(* was forced, when a wait deadline came, or when a probe finds the        *)
(* store's change token moved.  Between passes the loop serves the ids     *)
(* that in-process events queued.  Tick threads, request handlers, other   *)
(* processes and the clock work against it; none of them takes a lock      *)
(* around `_scan_force`, `_scan_fingerprint` or `_next_due_epoch`.         *)
(*                                                                         *)
(* The change token is compared for equality only: `moved` says that it    *)
(* differs from `_scan_fingerprint`.  All runs are the gateway's own and   *)
(* fit in run_scan_limit.                                                  *)
(***************************************************************************)
EXTENDS Naturals, FiniteSets

CONSTANTS
    Run,           \* runs of the store
    StaleId,       \* other ids that may be queued: gone or foreign runs
    MaxTime,       \* bound: the clock stops here
    DirectLimit,   \* most ids in `_direct_tick_ids` (10000)
    IdleInterval,  \* scan_gate_idle_interval_s
    MaxFaults      \* bound: walks, loads and looks at the store that raise

NoTime == MaxTime + 1      \* `_next_due_epoch` is None, a wait has no deadline

ASSUME ScanAssumption ==
    /\ IsFiniteSet(Run) /\ IsFiniteSet(StaleId)
    /\ MaxTime \in Nat
    /\ DirectLimit \in Nat
    /\ IdleInterval \in Nat \ {0}
    /\ MaxFaults \in Nat

VARIABLES
    clock,       \* wall clock
    status,      \* per run: status in the store
    until,       \* per run: deadline of its wait
    moved,       \* the change token differs from `_scan_fingerprint`
    force,       \* `_scan_force`
    nextDue,     \* `_next_due_epoch`
    direct,      \* `_direct_tick_ids`
    hostPaused,  \* host_control's pause
    pc,          \* position of the loop
    found,       \* runs the walks of this pass returned
    horizon,     \* deadline the pass is about to note
    guessed,     \* history: the look at the deadlines failed, a guess is noted
    tick,        \* per run: position of its tick, "none" when not in flight
    goal,        \* per run: deadline its tick is parking on
    dueRead,     \* per run: `_next_due_epoch` as its tick read it
    faults,      \* store calls that raised so far (bounded)
    suppressed,  \* history: a pass raised and none has completed since
    clobbered,   \* history: a tick moved `_next_due_epoch` back
    lost         \* history: running runs whose queued id was dropped (the
                 \* queue was full, the load raised), until submitted again

store == <<status, until>>
gate == <<moved, force, nextDue>>
history == <<suppressed, clobbered, lost>>
pass == <<pc, found, horizon, guessed>>
ticks == <<tick, goal, dueRead>>
vars == <<clock, store, gate, direct, hostPaused, pass, ticks, faults,
                   history>>

Time == 0..NoTime
Status == {"absent", "running", "waiting", "ended"}
LoopPc == {"drain", "gate", "pass", "running", "due", "submit",
           "deadline", "note", "redrain"}
TickPc == {"none", "run", "recording", "recorded", "ending", "unresolved"}

TypeOK ==
    /\ clock \in 0..MaxTime
    /\ status \in [Run -> Status]
    /\ until \in [Run -> Time]
    /\ moved \in BOOLEAN
    /\ force \in BOOLEAN
    /\ nextDue \in Time
    /\ direct \in SUBSET (Run \cup StaleId)
    /\ hostPaused \in BOOLEAN
    /\ pc \in LoopPc
    /\ found \in SUBSET Run
    /\ horizon \in Time
    /\ guessed \in BOOLEAN
    /\ tick \in [Run -> TickPc]
    /\ goal \in [Run -> Time]
    /\ dueRead \in [Run -> Time]
    /\ faults \in Nat
    /\ suppressed \in BOOLEAN
    /\ clobbered \in BOOLEAN
    /\ lost \in SUBSET Run

\* A restart: the store holds whatever it holds, the first pass is forced.
Init ==
    /\ clock = 0
    /\ status \in [Run -> {"absent", "running", "waiting"}]
    /\ until \in [Run -> {0, NoTime}]
    /\ \A r \in Run : status[r] # "waiting" => until[r] = NoTime
    /\ moved = TRUE
    /\ force = TRUE
    /\ nextDue = NoTime
    /\ direct = {}
    /\ hostPaused = FALSE
    /\ pc = "drain"
    /\ found = {}
    /\ horizon = NoTime
    /\ guessed = FALSE
    /\ tick = [r \in Run |-> "none"]
    /\ goal = [r \in Run |-> NoTime]
    /\ dueRead = [r \in Run |-> NoTime]
    /\ faults = 0
    /\ suppressed = FALSE
    /\ clobbered = FALSE
    /\ lost = {}

-----------------------------------------------------------------------------
Due(r) == status[r] = "waiting" /\ until[r] <= clock

Deadlines == {until[r] : r \in {q \in Run : status[q] = "waiting"}}

\* next_wait_deadline of the store (external): NoTime when nothing waits on
\* a deadline.
NextWaitDeadline ==
    IF Deadlines = {} THEN NoTime
    ELSE CHOOSE t \in Deadlines : \A s \in Deadlines : t <= s

\* _submit_tick: a run in flight is not submitted again.
Submit(S) ==
    tick' = [r \in Run |-> IF r \in S /\ tick[r] = "none" THEN "run" ELSE tick[r]]

Budget(n) == faults + n <= MaxFaults /\ faults' = faults + n

\* _drain_direct_ticks: while the host is paused the ids stay queued;
\* otherwise the set is emptied, and the ids are loaded one by one: those of
\* running runs are submitted, one whose load raises is dropped.  The step
\* this is part of has met `failed` other faults.
DrainDirectTicks(failed) ==
    IF hostPaused
    THEN Budget(failed) /\ UNCHANGED <<direct, tick, lost>>
    ELSE LET Ids == {r \in direct \cap Run : status[r] = "running"} IN
         \E unread \in SUBSET Ids :
            /\ Budget(failed + Cardinality(unread))
            /\ direct' = {}
            /\ Submit(Ids \ unread)
            /\ lost' = (lost \ Ids) \cup {r \in unread : tick[r] = "none"}

-----------------------------------------------------------------------------
(* The loop.                                                               *)

LoopDrain ==
    /\ pc = "drain"
    /\ pc' = "gate"
    /\ DrainDirectTicks(0)
    /\ UNCHANGED <<clock, store, gate, hostPaused, found, horizon, guessed,
                   goal, dueRead, suppressed, clobbered>>

\* _scan_pass_due: forced, due by time, or by a probe that finds the token
\* moved (it is captured before the pass).  A probe comes at most every
\* scan_gate_idle_interval_s, so an iteration may go without one.
ScanPassDue ==
    /\ pc = "gate"
    /\ \/ force /\ force' = FALSE /\ pc' = "pass" /\ UNCHANGED moved
       \/ /\ ~force /\ nextDue <= clock
          /\ pc' = "pass" /\ UNCHANGED <<force, moved>>
       \/ /\ ~force /\ nextDue > clock /\ moved
          /\ moved' = FALSE
          /\ pc' = "pass" /\ UNCHANGED force
       \/ /\ ~force /\ nextDue > clock
          /\ pc' = "drain" /\ UNCHANGED <<force, moved>>
    /\ UNCHANGED <<clock, store, nextDue, direct, hostPaused, found, horizon,
                   guessed, ticks, faults, history>>

\* _schedule_ticks returns at once while the host is paused.  Otherwise the
\* command lane goes first: any runs of the store may have been commanded
\* since the last pass, whatever their status.
PassBegins ==
    /\ pc = "pass"
    /\ IF hostPaused
       THEN pc' = "redrain" /\ UNCHANGED <<tick, lost>>
       ELSE /\ pc' = "running"
            /\ \E S \in SUBSET {r \in Run : status[r] # "absent"} :
                  Submit(S) /\ lost' = lost \ S
    /\ UNCHANGED <<clock, store, gate, direct, hostPaused, found, horizon,
                   guessed, goal, dueRead, faults, suppressed, clobbered>>

\* Walk of the running runs, then a drain.
ListRunning ==
    /\ pc = "running"
    /\ pc' = "due"
    /\ found' = {r \in Run : status[r] = "running"}
    /\ DrainDirectTicks(0)
    /\ UNCHANGED <<clock, store, gate, hostPaused, horizon, guessed, goal,
                   dueRead, suppressed, clobbered>>

\* Walk of the due waits, then a drain; a walk that raises finds none.
ListDue ==
    /\ pc = "due"
    /\ pc' = "submit"
    /\ \/ found' = found \cup {r \in Run : Due(r)} /\ DrainDirectTicks(0)
       \/ UNCHANGED found /\ DrainDirectTicks(1)
    /\ UNCHANGED <<clock, store, gate, hostPaused, horizon, guessed, goal,
                   dueRead, suppressed, clobbered>>

SubmitFound ==
    /\ pc = "submit"
    /\ pc' = "deadline"
    /\ Submit(found)
    /\ found' = {}
    /\ lost' = lost \ found
    /\ UNCHANGED <<clock, store, gate, direct, hostPaused, horizon, guessed,
                   goal, dueRead, suppressed, clobbered, faults>>

SoonIsNeverMutant == NoTime

\* scan_gate_idle_interval_s from now (the clock's last instant stands for all
\* later ones).
Soon == IF clock + IdleInterval <= MaxTime THEN clock + IdleInterval ELSE MaxTime

\* Walk of the waiting runs, a drain, and _note_next_due's look at the store:
\* when it raises, or answers with no time, the gate is to open soon.
ReadNextDeadline ==
    /\ pc = "deadline"
    /\ pc' = "note"
    /\ \/ guessed' = FALSE /\ horizon' = NextWaitDeadline /\ DrainDirectTicks(0)
       \/ guessed' = TRUE /\ horizon' = Soon /\ DrainDirectTicks(1)
    /\ UNCHANGED <<clock, store, gate, hostPaused, found, goal, dueRead,
                   suppressed, clobbered>>

\* _note_next_due: a deadline in the past is due now.
NoteNextDue ==
    /\ pc = "note"
    /\ pc' = "redrain"
    /\ nextDue' = IF horizon <= clock THEN clock ELSE horizon
    /\ horizon' = NoTime
    /\ suppressed' = FALSE
    /\ clobbered' = FALSE
    /\ UNCHANGED <<clock, store, moved, force, direct, hostPaused, found,
                   guessed, ticks, lost, faults>>

\* The drain behind the pass; then the loop sleeps and starts over.
LoopRedrain ==
    /\ pc = "redrain"
    /\ pc' = "drain"
    /\ DrainDirectTicks(0)
    /\ UNCHANGED <<clock, store, gate, hostPaused, found, horizon, guessed,
                   goal, dueRead, suppressed, clobbered>>

\* The walk of the running runs raises: the loop logs it and goes on.
PassFails ==
    /\ Budget(1)
    /\ pc = "running"
    /\ pc' = "drain"
    /\ suppressed' = TRUE
    /\ UNCHANGED <<clock, store, gate, direct, hostPaused, found, horizon,
                   guessed, ticks, clobbered, lost>>

-----------------------------------------------------------------------------
(* Tick threads.  Runtime.tick (external) saves the run, appends the       *)
(* record of a wait before it saves the wait, and does nothing for a run   *)
(* that is neither running nor due.                                        *)

Ticks(r) == tick[r] = "run" /\ (status[r] = "running" \/ Due(r))

\* The tick saves the run as still running, as ended (a tick that raised
\* saves FAILED), or as parked on an event.
TickSaves(r) ==
    /\ Ticks(r)
    /\ \E s \in {"running", "ended", "waiting"} :
          status' = [status EXCEPT ![r] = s]
    /\ until' = [until EXCEPT ![r] = NoTime]
    /\ moved' = TRUE
    /\ tick' = [tick EXCEPT ![r] = "ending"]
    /\ UNCHANGED <<clock, force, nextDue, direct, hostPaused, pass, goal,
                   dueRead, faults, history>>

\* The tick parks on a deadline: _on_ledger_record reads `_next_due_epoch`
\* on the tick's thread ...
TickRecordsWait(r, t) ==
    /\ Ticks(r)
    /\ t \in clock..MaxTime
    /\ goal' = [goal EXCEPT ![r] = t]
    /\ dueRead' = [dueRead EXCEPT ![r] = nextDue]
    /\ tick' = [tick EXCEPT ![r] = "recording"]
    /\ UNCHANGED <<clock, store, gate, direct, hostPaused, pass, faults,
                   history>>

\* ... writes it if the new deadline is earlier than what it read ...
OnLedgerRecord(r) ==
    /\ tick[r] = "recording"
    /\ nextDue' = IF goal[r] < dueRead[r] THEN goal[r] ELSE nextDue
    /\ clobbered' = (clobbered \/ nextDue' > nextDue)
    /\ dueRead' = [dueRead EXCEPT ![r] = NoTime]
    /\ tick' = [tick EXCEPT ![r] = "recorded"]
    /\ UNCHANGED <<clock, store, moved, force, direct, hostPaused, pass, goal,
                   suppressed, lost, faults>>

\* ... and the runtime saves the wait.
TickSavesWait(r) ==
    /\ tick[r] = "recorded"
    /\ status' = [status EXCEPT ![r] = "waiting"]
    /\ until' = [until EXCEPT ![r] = goal[r]]
    /\ goal' = [goal EXCEPT ![r] = NoTime]
    /\ moved' = TRUE
    /\ tick' = [tick EXCEPT ![r] = "ending"]
    /\ UNCHANGED <<clock, force, nextDue, direct, hostPaused, pass, dueRead,
                   faults, history>>

\* The tick ends without saving: nothing to do, the step gate is closed, the
\* effect was interrupted, or the promotion to FAILED failed too.
TickSavesNothing(r) ==
    /\ tick[r] \in {"run", "recorded"}
    /\ tick' = [tick EXCEPT ![r] = "ending"]
    /\ goal' = [goal EXCEPT ![r] = NoTime]
    /\ UNCHANGED <<clock, store, gate, direct, hostPaused, pass, dueRead,
                   faults, history>>

\* The run's workflow cannot be resolved: nothing is saved or recorded, and
\* `_resolution_failures` holds the run.
TickUnresolved(r) ==
    /\ tick[r] = "run"
    /\ tick' = [tick EXCEPT ![r] = "unresolved"]
    /\ UNCHANGED <<clock, store, gate, direct, hostPaused, pass, goal, dueRead,
                   faults, history>>

ForgetRunMutant(r) ==
    /\ tick[r] \in {"ending", "unresolved"}
    /\ tick' = [tick EXCEPT ![r] = "none"]
    /\ UNCHANGED <<clock, store, gate, direct, hostPaused, pass, goal, dueRead,
                   faults, history>>

\* The done callback: out of `_inflight`, then queued for another look if
\* there is room; an unresolvable run forces a pass instead.
TickDone(r) ==
    /\ tick[r] \in {"ending", "unresolved"}
    /\ tick' = [tick EXCEPT ![r] = "none"]
    /\ IF tick[r] = "unresolved"
       THEN force' = TRUE /\ UNCHANGED <<direct, lost>>
       ELSE /\ UNCHANGED force
            /\ IF Cardinality(direct) < DirectLimit
               THEN direct' = direct \cup {r} /\ UNCHANGED lost
               ELSE /\ lost' = IF status[r] = "running" THEN lost \cup {r} ELSE lost
                    /\ UNCHANGED direct
    /\ UNCHANGED <<clock, store, moved, nextDue, hostPaused, pass, goal, dueRead,
                   suppressed, clobbered, faults>>

-----------------------------------------------------------------------------
(* Everybody else.                                                         *)

\* A run is created, or its wait is resumed, by a request handler, a tick of
\* another run, or another process: the store changes.
RunAppears(r) ==
    /\ status[r] \in {"absent", "waiting"}
    /\ status' = [status EXCEPT ![r] = "running"]
    /\ until' = [until EXCEPT ![r] = NoTime]
    /\ moved' = TRUE
    /\ UNCHANGED <<clock, force, nextDue, direct, hostPaused, pass, ticks, faults,
                   history>>

\* nudge(run_id), and the end of a batch of commands.
Nudge(i) ==
    /\ force' = TRUE
    /\ direct' = IF Cardinality(direct) < DirectLimit
                 THEN direct \cup {i} ELSE direct
    /\ UNCHANGED <<clock, store, moved, nextDue, hostPaused, pass, ticks, faults,
                   history>>

\* _queue_direct_tick for another run's sake: a record that names a child, a
\* parent that was just resumed.
QueueDirectTick(i) ==
    /\ Cardinality(direct) < DirectLimit
    /\ direct' = direct \cup {i}
    /\ UNCHANGED <<clock, store, gate, hostPaused, pass, ticks, faults,
                   history>>

HostPause ==
    /\ ~hostPaused
    /\ hostPaused' = TRUE
    /\ UNCHANGED <<clock, store, gate, direct, pass, ticks, faults,
                   history>>

SilentResumeMutant ==
    /\ hostPaused
    /\ hostPaused' = FALSE
    /\ UNCHANGED <<clock, store, gate, direct, pass, ticks, faults,
                   history>>

\* host_control.resume, or maybe_reload on a pause file that is gone: every
\* runner is nudged.
HostResume ==
    /\ hostPaused
    /\ hostPaused' = FALSE
    /\ force' = TRUE
    /\ UNCHANGED <<clock, store, moved, nextDue, direct, pass, ticks, faults,
                   history>>

TimePasses ==
    /\ clock < MaxTime
    /\ clock' = clock + 1
    /\ UNCHANGED <<store, gate, direct, hostPaused, pass, ticks, faults,
                   history>>

-----------------------------------------------------------------------------
LoopStep ==
    \/ LoopDrain
    \/ ScanPassDue
    \/ PassBegins
    \/ ListRunning
    \/ ListDue
    \/ SubmitFound
    \/ ReadNextDeadline
    \/ NoteNextDue
    \/ LoopRedrain

\* What a tick does once its thread runs.
TickStep(r) ==
    \/ TickSaves(r)
    \/ \E t \in 0..MaxTime : TickRecordsWait(r, t)
    \/ OnLedgerRecord(r)
    \/ TickSavesWait(r)
    \/ TickSavesNothing(r)
    \/ TickUnresolved(r)
    \/ TickDone(r)

Next ==
    \/ LoopStep
    \/ PassFails
    \/ \E r \in Run : TickStep(r) \/ RunAppears(r)
    \/ \E i \in Run \cup StaleId : Nudge(i) \/ QueueDirectTick(i)
    \/ HostPause
    \/ HostResume
    \/ TimePasses

Spec == Init /\ [][Next]_vars

(***************************************************************************)
(* The loop thread keeps looping, it probes when it may (an iteration may  *)
(* not, the next interval will), every tick ends, and time passes.         *)
(***************************************************************************)
ProbeSeesChange == pc = "gate" /\ moved /\ ScanPassDue /\ pc' = "pass"

FairSpec ==
    /\ Spec
    /\ WF_vars(LoopStep)
    /\ SF_vars(ProbeSeesChange)
    /\ \A r \in Run : WF_vars(TickStep(r))
    /\ WF_vars(TimePasses)

-----------------------------------------------------------------------------
(* Properties.                                                             *)

\* A pass is on its way that has not yet looked for running runs, or for
\* deadlines.
PassAhead == force \/ moved \/ pc \in {"pass", "running"}
NoteAhead == PassAhead \/ pc \in {"due", "submit", "deadline"}

(***************************************************************************)
(* No running run is forgotten: it is in flight, queued, or the next look  *)
(* at the gate leads to a walk that finds it.  A host pause defers it (the *)
(* resume forces a pass).  What the code leaves open: a pass that raised,  *)
(* until one completes; and an id dropped by a full queue or a raising     *)
(* load, which costs its own run the time to the next walk, no other run   *)
(* and no longer.                                                          *)
(***************************************************************************)
NoRunForgotten ==
    \A r \in Run :
       status[r] = "running" /\ tick[r] = "none" /\ r \notin direct
          => \/ PassAhead
             \/ pc \in {"due", "submit"} /\ r \in found
             \/ hostPaused \/ suppressed \/ r \in lost

\* The gate opens by time at or before t; after a failed look at the
\* deadlines, no later than an idle interval from now.
OpensBy(due, t) ==
    \/ due <= t \/ due <= clock
    \/ guessed /\ due <= clock + IdleInterval

(***************************************************************************)
(* No deadline is slept through: the gate opens by time at or before every *)
(* deadline in the store (an idle interval later when the look at the      *)
(* deadlines failed), or a pass that will note it is on its way.  The      *)
(* exceptions are a host pause, a pass that raised, and a tick whose       *)
(* unlocked write moved `_next_due_epoch` back.                            *)
(***************************************************************************)
NoDeadlineSleptThrough ==
    \A r \in Run :
       status[r] = "waiting" /\ until[r] # NoTime
          => \/ OpensBy(IF pc = "note" THEN horizon ELSE nextDue, until[r])
             \/ NoteAhead
             \/ hostPaused \/ suppressed \/ clobbered

(***************************************************************************)
(* A run whose deadline has come, and a run that is running, gets a tick,  *)
(* unless the host is paused, a pass raised and none has completed since,  *)
(* or the run's queued id was dropped and no walk has come since.          *)
(***************************************************************************)
Runnable(r) == Due(r) \/ status[r] = "running"

RunnableIsTicked ==
    \A r \in Run :
       Runnable(r) ~> \/ ~Runnable(r) \/ tick[r] # "none"
                      \/ hostPaused \/ suppressed \/ r \in lost
=============================================================================
