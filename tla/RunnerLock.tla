----------------------------- MODULE RunnerLock -----------------------------
(***************************************************************************)
(* The singleton lock of GatewayRunner (runner.py): which of several       *)
(* gateway processes on one data directory ticks its runs.                 *)
(*                                                                         *)
(* Every GatewayRunner object has a worker thread (`_run` and `_loop`), a  *)
(* pool of tick threads, and at most one call of `stop()` on a thread of   *)
(* its own.  Processes share three things: the kernel lock on              *)
(* gateway_runner.lock, the pid written in that file, and the one-shot     *)
(* request file gateway_runner.takeover.  A step of the model is what one  *)
(* thread does between two moments at which another thread or process can  *)
(* interfere: one file-system operation, one flag under `_state_lock`, one *)
(* look at `_inflight`.  A bounded wait may end at any moment.             *)
(***************************************************************************)
EXTENDS Naturals

CONSTANTS
    Runner,        \* GatewayRunner objects, over all processes
    Pid,           \* process ids
    PidOf,         \* the process each runner lives in
    Run,           \* runs of the data directory
    NoRunner,      \* the kernel lock is free
    NoPid,         \* the lock file or the request file names nobody
    MaxLoopErrors  \* bound: failed acquisitions and exceptions of the loop

ASSUME ConstantsAssumption ==
    /\ PidOf \in [Runner -> Pid]
    /\ NoRunner \notin Runner
    /\ NoPid \notin Pid
    /\ MaxLoopErrors \in Nat

VARIABLES
    alive,        \* pids of live processes
    flock,        \* owner of the kernel lock
    stamp,        \* pid in gateway_runner.lock (survives its writer)
    request,      \* pid in gateway_runner.takeover
    worker,       \* position of each runner's worker thread
    stopper,      \* position of each runner's stop() call
    seen,         \* pid the takeover check of the worker read
    everHeld,     \* runners with `_lock_acquired_at` set
    asked,        \* runners with `_takeover_requested` set
    lockHeld,     \* runners with `_lock_held` set
    refused,      \* runners with `_lock_refused_flag` set
    loopRunning,  \* runners with `_loop_running` set
    closed,       \* runners whose executors are shut down
    queued,       \* per runner: ticks waiting for a pool thread
    ticking,      \* per runner: ticks executing on a pool thread
    leaked,       \* per runner: `_inflight` entries without a future
    loopErrors,   \* exceptions raised so far (bounded)
    abandoned     \* history: runners that let go of the lock with live ticks

files == <<stamp, request>>
flags == <<everHeld, asked, lockHeld, refused, loopRunning>>
ticks == <<queued, ticking, leaked>>
vars == <<alive, flock, stamp, request, worker, stopper, seen, everHeld, asked,
          lockHeld, refused, loopRunning, closed, queued, ticking, leaked,
          loopErrors, abandoned>>

WorkerPc == {"new", "try", "stamp", "ask", "clear", "enter", "loop", "drop",
             "unlink", "body", "drain", "release", "unflag", "grace", "heal",
             "healrel", "healunflag", "done", "dead"}
StopPc == {"none", "join", "shut", "drain", "release", "drop", "unflag",
           "ended", "held"}

TypeOK ==
    /\ alive \in SUBSET Pid
    /\ flock \in Runner \cup {NoRunner}
    /\ stamp \in Pid \cup {NoPid}
    /\ request \in Pid \cup {NoPid}
    /\ worker \in [Runner -> WorkerPc]
    /\ stopper \in [Runner -> StopPc]
    /\ seen \in [Runner -> Pid \cup {NoPid}]
    /\ everHeld \in SUBSET Runner
    /\ asked \in SUBSET Runner
    /\ lockHeld \in SUBSET Runner
    /\ refused \in SUBSET Runner
    /\ loopRunning \in SUBSET Runner
    /\ closed \in SUBSET Runner
    /\ queued \in [Runner -> SUBSET Run]
    /\ ticking \in [Runner -> SUBSET Run]
    /\ leaked \in [Runner -> SUBSET Run]
    /\ loopErrors \in Nat
    /\ abandoned \in SUBSET Runner

Init ==
    /\ alive = Pid
    /\ flock = NoRunner
    /\ stamp = NoPid
    /\ request = NoPid
    /\ worker = [r \in Runner |-> "new"]
    /\ stopper = [r \in Runner |-> "none"]
    /\ seen = [r \in Runner |-> NoPid]
    /\ everHeld = {} /\ asked = {} /\ lockHeld = {} /\ refused = {}
    /\ loopRunning = {} /\ closed = {}
    /\ queued = [r \in Runner |-> {}]
    /\ ticking = [r \in Runner |-> {}]
    /\ leaked = [r \in Runner |-> {}]
    /\ loopErrors = 0
    /\ abandoned = {}

-----------------------------------------------------------------------------
Stopping(r) == stopper[r] # "none"        \* `_stop` is set

\* Ticks that execute, or will when a pool thread is free.
LiveTicks(r) == queued[r] \cup ticking[r]

\* Keys of `_inflight`.
Inflight(r) == LiveTicks(r) \cup leaked[r]

GoTo(r, pc) == worker' = [worker EXCEPT ![r] = pc]

\* _release_singleton_lock, first half: only a runner whose lock handle is
\* stored lets go of the kernel lock; the handle is stored once the lock file
\* is stamped.
ReleaseSingletonLock(r) ==
    flock' = IF flock = r /\ worker[r] # "stamp" THEN NoRunner ELSE flock

FlagLeftSetMutant(r) == UNCHANGED lockHeld

\* Second half, under `_state_lock`: the flag goes after the lock is gone.
ClearLockHeld(r) == lockHeld' = lockHeld \ {r}

-----------------------------------------------------------------------------
(* The worker thread: acquisition and the takeover handshake.              *)

Start(r) ==
    /\ worker[r] = "new"
    /\ GoTo(r, "try")
    /\ UNCHANGED <<alive, flock, files, stopper, seen, flags, closed, ticks,
                   loopErrors, abandoned>>

StopSeen(r) ==
    /\ worker[r] \in {"try", "loop"}
    /\ Stopping(r)
    /\ GoTo(r, "done")
    /\ loopRunning' = loopRunning \ {r}
    /\ UNCHANGED <<alive, flock, files, stopper, seen, everHeld, asked,
                   lockHeld, refused, closed, ticks, loopErrors, abandoned>>

\* The attempt: the kernel lock is free and taken, or it is refused.
AcquireSingletonLock(r) ==
    /\ worker[r] = "try"
    /\ ~Stopping(r)
    /\ IF flock = NoRunner
       THEN /\ flock' = r
            /\ GoTo(r, "stamp")
            /\ UNCHANGED <<lockHeld, refused>>
       ELSE /\ GoTo(r, "ask")
            /\ lockHeld' = lockHeld \ {r}
            /\ refused' = refused \cup {r}
            /\ UNCHANGED flock
    /\ UNCHANGED <<alive, files, stopper, seen, everHeld, asked, loopRunning,
                   closed, ticks, loopErrors, abandoned>>

\* An I/O error of the attempt (the lock file cannot be opened) is a refusal.
AcquireFails(r) ==
    /\ worker[r] = "try"
    /\ ~Stopping(r)
    /\ loopErrors < MaxLoopErrors
    /\ loopErrors' = loopErrors + 1
    /\ GoTo(r, "ask")
    /\ lockHeld' = lockHeld \ {r}
    /\ refused' = refused \cup {r}
    /\ UNCHANGED <<alive, flock, files, stopper, seen, everHeld, asked,
                   loopRunning, closed, ticks, abandoned>>

StampLockFile(r) ==
    /\ worker[r] = "stamp"
    /\ stamp' = PidOf[r]
    /\ GoTo(r, "clear")
    /\ lockHeld' = lockHeld \cup {r}
    /\ refused' = refused \ {r}
    /\ everHeld' = everHeld \cup {r}
    /\ UNCHANGED <<alive, flock, request, stopper, seen, asked, loopRunning,
                   closed, ticks, loopErrors, abandoned>>

AskAgainMutant(r) ==
    /\ stamp # NoPid
    /\ stamp # PidOf[r]
    /\ stamp \in alive

\* A refused worker asks for a takeover at most once in its life, only if it
\* never held the lock and the pid in the lock file is another live process.
MayRequestTakeover(r) ==
    /\ stamp # NoPid
    /\ stamp # PidOf[r]
    /\ stamp \in alive
    /\ r \notin everHeld
    /\ r \notin asked

RequestTakeoverOnce(r) ==
    /\ worker[r] = "ask"
    /\ IF MayRequestTakeover(r)
       THEN request' = PidOf[r] /\ asked' = asked \cup {r}
       ELSE UNCHANGED <<request, asked>>
    /\ GoTo(r, "try")
    /\ UNCHANGED <<alive, flock, stamp, stopper, seen, everHeld, lockHeld,
                   refused, loopRunning, closed, ticks, loopErrors, abandoned>>

\* _clear_takeover_request(only_pid=None), right after the acquisition.
ClearTakeoverOnAcquire(r) ==
    /\ worker[r] = "clear"
    /\ request' = NoPid
    /\ GoTo(r, "enter")
    /\ UNCHANGED <<alive, flock, stamp, stopper, seen, flags, closed, ticks,
                   loopErrors, abandoned>>

-----------------------------------------------------------------------------
(* The worker thread: the loop under the lock.                             *)

EnterLoop(r) ==
    /\ worker[r] = "enter"
    /\ GoTo(r, "loop")
    /\ loopRunning' = loopRunning \cup {r}
    /\ UNCHANGED <<alive, flock, files, stopper, seen, everHeld, asked,
                   lockHeld, refused, closed, ticks, loopErrors, abandoned>>

\* _takeover_yield_requested: no request, an own or a dead one is not obeyed.
TakeoverYieldRequested(r) ==
    /\ request # NoPid
    /\ request # PidOf[r]
    /\ request \in alive

LoopTop(r) ==
    /\ worker[r] = "loop"
    /\ ~Stopping(r)
    /\ seen' = [seen EXCEPT ![r] = request]
    /\ IF request = NoPid
       THEN GoTo(r, "body") /\ UNCHANGED loopRunning
       ELSE IF TakeoverYieldRequested(r)
            THEN GoTo(r, "drain") /\ loopRunning' = loopRunning \ {r}
            ELSE GoTo(r, "drop") /\ UNCHANGED loopRunning
    /\ UNCHANGED <<alive, flock, files, stopper, everHeld, asked, lockHeld,
                   refused, closed, ticks, loopErrors, abandoned>>

\* _clear_takeover_request(only_pid=seen) reads the file again, and unlinks
\* whatever is there when it gets to it.
DropStaleRequest(r) ==
    /\ \/ /\ worker[r] = "drop"
          /\ GoTo(r, IF request \in {NoPid, seen[r]} THEN "unlink" ELSE "body")
          /\ UNCHANGED request
       \/ /\ worker[r] = "unlink"
          /\ GoTo(r, "body")
          /\ request' = NoPid
    /\ UNCHANGED <<alive, flock, stamp, stopper, seen, flags, closed, ticks,
                   loopErrors, abandoned>>

\* The rest of an iteration: commands, scans, the reaper, the user stream.
LoopBodyEnds(r) ==
    /\ worker[r] = "body"
    /\ GoTo(r, "loop")
    /\ UNCHANGED <<alive, flock, files, stopper, seen, flags, closed, ticks,
                   loopErrors, abandoned>>

\* The yield path: drain until nothing is in flight or `_stop` is set, then
\* release, then leave the requester time to acquire.
YieldDrainEnds(r) ==
    /\ worker[r] = "drain"
    /\ Inflight(r) = {} \/ Stopping(r)
    /\ GoTo(r, "release")
    /\ UNCHANGED <<alive, flock, files, stopper, seen, flags, closed, ticks,
                   loopErrors, abandoned>>

YieldRelease(r) ==
    /\ worker[r] = "release"
    /\ ReleaseSingletonLock(r)
    /\ abandoned' = IF Stopping(r) /\ LiveTicks(r) # {}
                    THEN abandoned \cup {r} ELSE abandoned
    /\ GoTo(r, "unflag")
    /\ UNCHANGED <<alive, files, stopper, seen, flags, closed, ticks,
                   loopErrors>>

\* Both releases of the worker end with the flag; its lock handle cannot
\* change between the two halves, no other thread stores one.
WorkerClearsFlag(r) ==
    /\ \/ worker[r] = "unflag" /\ GoTo(r, "grace")
       \/ worker[r] = "healunflag" /\ GoTo(r, "try")
    /\ ClearLockHeld(r)
    /\ UNCHANGED <<alive, flock, files, stopper, seen, everHeld, asked,
                   refused, loopRunning, closed, ticks, loopErrors, abandoned>>

GraceEnds(r) ==
    /\ worker[r] = "grace"
    /\ GoTo(r, "try")
    /\ UNCHANGED <<alive, flock, files, stopper, seen, flags, closed, ticks,
                   loopErrors, abandoned>>

\* An exception outside the guarded parts of an iteration: the cursor load on
\* entry, or the takeover check.
LoopError(r) ==
    /\ worker[r] \in {"enter", "loop"}
    /\ loopErrors < MaxLoopErrors
    /\ loopErrors' = loopErrors + 1
    /\ GoTo(r, "heal")
    /\ loopRunning' = loopRunning \ {r}
    /\ UNCHANGED <<alive, flock, files, stopper, seen, everHeld, asked,
                   lockHeld, refused, closed, ticks, abandoned>>

\* The handler drains for at most 10 s, releases either way and backs off.
HealDrainEnds(r) ==
    /\ worker[r] = "heal"
    /\ GoTo(r, "healrel")
    /\ UNCHANGED <<alive, flock, files, stopper, seen, flags, closed, ticks,
                   loopErrors, abandoned>>

HealIntoLoopMutant(r) ==
    /\ worker[r] = "healrel"
    /\ ReleaseSingletonLock(r)
    /\ abandoned' = IF LiveTicks(r) # {} THEN abandoned \cup {r} ELSE abandoned
    /\ GoTo(r, "enter")
    /\ UNCHANGED <<alive, files, stopper, seen, flags, closed, ticks,
                   loopErrors>>

HealLeaksLockMutant(r) ==
    /\ worker[r] = "healrel"
    /\ GoTo(r, "try")
    /\ UNCHANGED <<alive, flock, files, stopper, seen, flags, closed, ticks,
                   loopErrors, abandoned>>

HealRelease(r) ==
    /\ worker[r] = "healrel"
    /\ ReleaseSingletonLock(r)
    /\ abandoned' = IF LiveTicks(r) # {} THEN abandoned \cup {r} ELSE abandoned
    /\ GoTo(r, "healunflag")
    /\ UNCHANGED <<alive, files, stopper, seen, flags, closed, ticks,
                   loopErrors>>

-----------------------------------------------------------------------------
(* Ticks.                                                                  *)

\* _submit_tick: the key enters `_inflight` first; a pool that is shut down
\* refuses the task and the key stays.
SubmitTick(r, x) ==
    /\ worker[r] = "body"
    /\ x \notin Inflight(r)
    /\ IF r \in closed
       THEN leaked' = [leaked EXCEPT ![r] = @ \cup {x}] /\ UNCHANGED queued
       ELSE queued' = [queued EXCEPT ![r] = @ \cup {x}] /\ UNCHANGED leaked
    /\ UNCHANGED <<alive, flock, files, worker, stopper, seen, flags, closed,
                   ticking, loopErrors, abandoned>>

TickBegins(r, x) ==
    /\ x \in queued[r]
    /\ queued' = [queued EXCEPT ![r] = @ \ {x}]
    /\ ticking' = [ticking EXCEPT ![r] = @ \cup {x}]
    /\ UNCHANGED <<alive, flock, files, worker, stopper, seen, flags, closed,
                   leaked, loopErrors, abandoned>>

TickEnds(r, x) ==
    /\ x \in ticking[r]
    /\ ticking' = [ticking EXCEPT ![r] = @ \ {x}]
    /\ UNCHANGED <<alive, flock, files, worker, stopper, seen, flags, closed,
                   queued, leaked, loopErrors, abandoned>>

-----------------------------------------------------------------------------
(* stop(), on the thread that shuts the service down.                      *)

StopBegin(r) ==
    /\ stopper[r] = "none"
    /\ worker[r] \notin {"new", "dead"}
    /\ stopper' = [stopper EXCEPT ![r] = "join"]
    /\ UNCHANGED <<alive, flock, files, worker, seen, flags, closed, ticks,
                   loopErrors, abandoned>>

\* join(timeout_s): the worker ended, or five seconds passed.
StopJoinEnds(r) ==
    /\ stopper[r] = "join"
    /\ stopper' = [stopper EXCEPT ![r] = "shut"]
    /\ UNCHANGED <<alive, flock, files, worker, seen, flags, closed, ticks,
                   loopErrors, abandoned>>

\* shutdown(wait=False, cancel_futures=True): queued ticks are cancelled and
\* their done callbacks drop them from `_inflight`.
StopShutdownExecutors(r) ==
    /\ stopper[r] = "shut"
    /\ stopper' = [stopper EXCEPT ![r] = "drain"]
    /\ closed' = closed \cup {r}
    /\ queued' = [queued EXCEPT ![r] = {}]
    /\ UNCHANGED <<alive, flock, files, worker, seen, flags, ticking, leaked,
                   loopErrors, abandoned>>

StopReleasesAnywayMutant(r) ==
    /\ stopper[r] = "drain"
    /\ stopper' = [stopper EXCEPT ![r] = "release"]
    /\ UNCHANGED <<alive, flock, files, worker, seen, flags, closed, ticks,
                   loopErrors, abandoned>>

\* Drained, or the drain timed out: then the lock stays held on purpose.
StopDrainEnds(r) ==
    /\ stopper[r] = "drain"
    /\ IF Inflight(r) = {}
       THEN stopper' = [stopper EXCEPT ![r] = "release"]
            /\ UNCHANGED <<refused, loopRunning>>
       ELSE stopper' = [stopper EXCEPT ![r] = "held"]
            /\ refused' = refused \ {r}
            /\ loopRunning' = loopRunning \ {r}
    /\ UNCHANGED <<alive, flock, files, worker, seen, everHeld, asked,
                   lockHeld, closed, ticks, loopErrors, abandoned>>

\* The kernel lock is freed, then the handle forgotten: one that a worker
\* behind a timed-out join stored in between is closed as garbage, and its
\* kernel lock with it.
StopRelease(r) ==
    /\ \/ /\ stopper[r] = "release"
          /\ stopper' = [stopper EXCEPT ![r] = "drop"]
       \/ /\ stopper[r] = "drop"
          /\ stopper' = [stopper EXCEPT ![r] = "unflag"]
    /\ ReleaseSingletonLock(r)
    /\ UNCHANGED <<alive, files, worker, seen, flags, closed, ticks,
                   loopErrors, abandoned>>

StopClearsFlags(r) ==
    /\ stopper[r] = "unflag"
    /\ stopper' = [stopper EXCEPT ![r] = "ended"]
    /\ ClearLockHeld(r)
    /\ refused' = refused \ {r}
    /\ loopRunning' = loopRunning \ {r}
    /\ UNCHANGED <<alive, flock, files, worker, seen, everHeld, asked, closed,
                   ticks, loopErrors, abandoned>>

-----------------------------------------------------------------------------
(* The process dies: every thread in it ends, the kernel frees its lock,   *)
(* and the files keep its pid.                                             *)

Die(p) ==
    /\ p \in alive
    /\ alive' = alive \ {p}
    /\ LET Mine == {r \in Runner : PidOf[r] = p} IN
       /\ flock' = IF flock \in Mine THEN NoRunner ELSE flock
       /\ worker' = [r \in Runner |-> IF r \in Mine THEN "dead" ELSE worker[r]]
       /\ stopper' = [r \in Runner |-> IF r \in Mine THEN "none" ELSE stopper[r]]
       /\ queued' = [r \in Runner |-> IF r \in Mine THEN {} ELSE queued[r]]
       /\ ticking' = [r \in Runner |-> IF r \in Mine THEN {} ELSE ticking[r]]
       /\ leaked' = [r \in Runner |-> IF r \in Mine THEN {} ELSE leaked[r]]
       /\ lockHeld' = lockHeld \ Mine
       /\ refused' = refused \ Mine
       /\ loopRunning' = loopRunning \ Mine
       /\ abandoned' = abandoned \ Mine
    /\ UNCHANGED <<files, seen, everHeld, asked, closed, loopErrors>>

-----------------------------------------------------------------------------
WorkerStep(r) ==
    \/ StopSeen(r)
    \/ AcquireSingletonLock(r)
    \/ StampLockFile(r)
    \/ RequestTakeoverOnce(r)
    \/ ClearTakeoverOnAcquire(r)
    \/ EnterLoop(r)
    \/ LoopTop(r)
    \/ DropStaleRequest(r)
    \/ LoopBodyEnds(r)
    \/ YieldDrainEnds(r)
    \/ YieldRelease(r)
    \/ GraceEnds(r)
    \/ HealDrainEnds(r)
    \/ HealRelease(r)
    \/ WorkerClearsFlag(r)

StopStep(r) ==
    \/ StopJoinEnds(r)
    \/ StopShutdownExecutors(r)
    \/ StopDrainEnds(r)
    \/ StopRelease(r)
    \/ StopClearsFlags(r)

TickStep(r, x) ==
    \/ SubmitTick(r, x)
    \/ TickBegins(r, x)
    \/ TickEnds(r, x)

Next ==
    \/ \E r \in Runner :
          \/ Start(r)
          \/ WorkerStep(r)
          \/ AcquireFails(r)
          \/ LoopError(r)
          \/ StopBegin(r)
          \/ StopStep(r)
          \/ \E x \in Run : TickStep(r, x)
    \/ \E p \in Pid : Die(p)

Spec == Init /\ [][Next]_vars

(***************************************************************************)
(* A started worker thread and a started stop() keep running.  Nothing     *)
(* makes a tick end: a provider call without a timeout may hang for ever.  *)
(***************************************************************************)
FairSpec ==
    /\ Spec
    /\ \A r \in Runner : WF_vars(WorkerStep(r)) /\ WF_vars(StopStep(r))

-----------------------------------------------------------------------------
(* Properties.                                                             *)

\* `status` of runner_status(), for an enabled runner of a host that is not
\* paused (a heartbeat's age is not modelled: the two standby states are one).
RunnerStatus(r) ==
    IF r \in lockHeld /\ r \in loopRunning THEN "active"
    ELSE IF r \in refused THEN "standby" ELSE "inactive_or_starting"

(***************************************************************************)
(* A runner has ticks queued or executing only while it owns the kernel    *)
(* lock: stop() and the yield path drain before they release.  The two     *)
(* ways around it that the code leaves open are recorded in `abandoned`:   *)
(* the crash handler's bounded drain, and a yield whose drain a stop() cut *)
(* short.                                                                  *)
(***************************************************************************)
SoleTicker ==
    \A r \in Runner : LiveTicks(r) # {} => flock = r \/ r \in abandoned

\* stop() has begun to let go of the lock.
StopLetGo(r) == stopper[r] \in {"drop", "unflag", "ended"}

(***************************************************************************)
(* The loop body (which applies commands and submits ticks) runs only      *)
(* under the kernel lock, except behind a stop() whose join timed out.     *)
(***************************************************************************)
BodyUnderLock ==
    \A r \in Runner : worker[r] = "body" => flock = r \/ StopLetGo(r)

(***************************************************************************)
(* runner_status() says "active" only in the process that owns the kernel  *)
(* lock.  The exception is the stretch of stop() between the unlock and    *)
(* the write of `_lock_held`: behind a join that timed out the loop flag   *)
(* is still set there.  No worker path has such a stretch (`_loop` clears  *)
(* its flag before the release), and no returned stop() leaves one behind. *)
(***************************************************************************)
ActiveIsHonest ==
    \A r \in Runner :
       RunnerStatus(r) = "active" => flock = r \/ stopper[r] \in {"drop", "unflag"}

(***************************************************************************)
(* Takeover requests do not make ownership ping-pong: it settles on one    *)
(* runner (or on none, once all are stopped or dead).                      *)
(***************************************************************************)
OwnershipSettles ==
    \E h \in Runner \cup {NoRunner} : <>[](flock = h)

\* A live worker thread that nobody told to stop.
Contends(r) == worker[r] \notin {"new", "done", "dead"} /\ ~Stopping(r)

\* The lock is owned by a runner that waits for its own ticks, or whose stop()
\* is over: it kept the lock over wedged ticks, or the worker stored the lock
\* handle after stop() had let go, and nobody is left to release it.
HeldForTicks ==
    \E r \in Runner :
       /\ flock = r
       /\ \/ worker[r] = "drain" /\ Inflight(r) # {}
          \/ stopper[r] \in {"held", "ended"}

(***************************************************************************)
(* A data directory with a live, willing worker is not left unticked: some *)
(* runner enters the loop again, unless the lock is held for wedged ticks  *)
(* or by a runner that has stopped.                                        *)
(***************************************************************************)
DataDirIsTicked ==
    (\E r \in Runner : Contends(r))
       ~> \/ \E r \in Runner : worker[r] = "body"
          \/ HeldForTicks
          \/ \A r \in Runner : ~Contends(r)

(***************************************************************************)
(* The comment of the takeover handshake says "two concurrent tickers      *)
(* remain structurally impossible"; a stop() that cuts a yield's drain     *)
(* short makes them possible (see the findings).                           *)
(***************************************************************************)
NoConcurrentTicks ==
    \A r, q \in Runner : r # q => ticking[r] \cap ticking[q] = {}
=============================================================================
