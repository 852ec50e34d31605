--------------------------- MODULE HostLifecycle ----------------------------
(***************************************************************************)
(* The life of one `abstractgateway serve` process (host_control.py,       *)
(* cli.py, self_update.py, shutdown_drain.py): restart and shutdown        *)
(* requests, stop signals, the in-place update and what the process does   *)
(* when uvicorn's server.run() has ended.                                  *)
(*                                                                         *)
(* Request handlers, the update's threads, signals and the main thread     *)
(* interleave.  host_control's flags have one lock, the update job         *)
(* another; start_update reads the flags under neither.  LifeSpec is its   *)
(* specification, so that it can stand beside the pause file of the same   *)
(* host_control.                                                           *)
(***************************************************************************)

CONSTANT Restartable     \* register_server found that a relaunch can work

ASSUME LifecycleAssumption == Restartable \in BOOLEAN

VARIABLES
    main,         \* position of the main thread
    registered,   \* `_server` is set
    restartReq,   \* `_restart_requested`
    shutdownReq,  \* `_shutdown_requested`
    cleanExit,    \* `_clean_exit`
    shouldExit,   \* server.should_exit
    interrupted,  \* uvicorn holds a Ctrl-C to raise again when it has drained
    job,          \* state of the update job
    auto,         \* the job's thread will ask for a restart
    starter,      \* start_update: "none", or past its checks with the auto flag
    caller,       \* request past its checks, with `_state_lock`, or "none"
    asked,        \* history: the last request that was accepted
    overruled,    \* history: something stronger than a restart request happened
    raced         \* history: a restart and an update passed their checks
                  \* before either had left its mark for the other

requests == <<restartReq, shutdownReq, cleanExit>>
update == <<job, auto, starter>>
history == <<asked, overruled, raced>>
lifeVars == <<main, registered, requests, shouldExit, interrupted, update,
              caller, history>>

MainPc == {"serving", "returned", "closing", "last", "relaunched", "exited"}
Job == {"idle", "running", "succeeded", "unchanged", "failed"}
Starter == {"none", "manual", "auto"}
Caller == {"none", "restart", "shutdown"}

LifeTypeOK ==
    /\ main \in MainPc
    /\ registered \in BOOLEAN
    /\ restartReq \in BOOLEAN
    /\ shutdownReq \in BOOLEAN
    /\ cleanExit \in BOOLEAN
    /\ shouldExit \in BOOLEAN
    /\ interrupted \in BOOLEAN
    /\ job \in Job
    /\ auto \in BOOLEAN
    /\ starter \in Starter
    /\ caller \in Caller
    /\ asked \in {"none", "restart", "shutdown"}
    /\ overruled \in BOOLEAN
    /\ raced \in BOOLEAN

\* register_server clears the flags.
LifeInit ==
    /\ main = "serving"
    /\ registered = TRUE
    /\ restartReq = FALSE
    /\ shutdownReq = FALSE
    /\ cleanExit = FALSE
    /\ shouldExit = FALSE
    /\ interrupted = FALSE
    /\ job = "idle"
    /\ auto = FALSE
    /\ starter = "none"
    /\ caller = "none"
    /\ asked = "none"
    /\ overruled = FALSE
    /\ raced = FALSE

Ended == main \in {"relaunched", "exited"}

-----------------------------------------------------------------------------
(* Requests.                                                               *)

AnyJobMutant == registered /\ Restartable /\ ~shutdownReq

\* What request_restart refuses; its caller gets a HostControlError.
MayRestart ==
    /\ registered
    /\ Restartable
    /\ ~shutdownReq
    /\ job # "running"

\* A request has `_state_lock` from its checks to its return: the requests of
\* other threads, and the main thread's calls of host_control, wait.
StateLockFree == caller = "none"

\* POST /host/restart (a handler may still run while uvicorn drains): the
\* checks, the last of them the look at the update job ...
RestartChecks ==
    /\ main = "serving"
    /\ StateLockFree
    /\ MayRestart
    /\ caller' = "restart"
    /\ UNCHANGED <<main, registered, requests, shouldExit, interrupted, update,
                   history>>

\* ... then the flag, and the server is told to exit.
RestartAccepted ==
    /\ caller = "restart"
    /\ ~Ended
    /\ caller' = "none"
    /\ restartReq' = TRUE
    /\ shouldExit' = TRUE
    /\ asked' = "restart"
    /\ raced' = (raced \/ starter # "none")
    /\ UNCHANGED <<main, registered, shutdownReq, cleanExit, interrupted,
                   update, overruled>>

\* POST /host/shutdown: it wins over a restart that was accepted before.
ShutdownChecks ==
    /\ main = "serving"
    /\ StateLockFree
    /\ registered
    /\ job # "running"
    /\ caller' = "shutdown"
    /\ UNCHANGED <<main, registered, requests, shouldExit, interrupted, update,
                   history>>

ShutdownAccepted ==
    /\ caller = "shutdown"
    /\ ~Ended
    /\ caller' = "none"
    /\ shutdownReq' = TRUE
    /\ restartReq' = FALSE
    /\ shouldExit' = TRUE
    /\ asked' = "shutdown"
    /\ overruled' = TRUE
    /\ UNCHANGED <<main, registered, cleanExit, interrupted, update, raced>>

-----------------------------------------------------------------------------
(* The in-place update (self_update.py).                                   *)

\* start_update: no other update, no request on its way; an update that
\* restarts by itself needs a process that can.
StartUpdateChecks(kind) ==
    /\ main = "serving"
    /\ starter = "none"
    /\ job # "running"
    /\ kind = "auto" => registered /\ Restartable
    /\ ~restartReq /\ ~shutdownReq
    /\ starter' = kind
    /\ UNCHANGED <<main, registered, requests, shouldExit, interrupted, job,
                   auto, caller, history>>

\* ... then the job is marked running and its thread starts the installer.
UpdateStarts ==
    /\ starter # "none"
    /\ ~Ended
    /\ job' = "running"
    /\ auto' = (starter = "auto")
    /\ starter' = "none"
    /\ raced' = (raced \/ caller = "restart")
    /\ UNCHANGED <<main, registered, requests, shouldExit, interrupted, caller,
                   asked, overruled>>

\* The installer ended, or the watchdog killed it.
UpdateEnds ==
    /\ job = "running"
    /\ ~Ended
    /\ job' \in {"succeeded", "unchanged", "failed"}
    /\ auto' = (auto /\ job' = "succeeded")
    /\ UNCHANGED <<main, registered, requests, shouldExit, interrupted, starter,
                   caller, history>>

\* _work_and_restart calls request_restart on the job's thread; a refusal is
\* noted in the job.
AutoRestart ==
    /\ auto /\ job = "succeeded"
    /\ ~Ended
    /\ StateLockFree
    /\ auto' = FALSE
    /\ caller' = IF MayRestart THEN "restart" ELSE "none"
    /\ UNCHANGED <<main, registered, requests, shouldExit, interrupted, job,
                   starter, history>>

-----------------------------------------------------------------------------
(* Signals.                                                                *)

\* uvicorn takes the signal and drains; after the drain its re-raise lands on
\* a handler that does nothing.
Sigterm ==
    /\ main = "serving"
    /\ shouldExit' = TRUE
    /\ UNCHANGED <<main, registered, requests, interrupted, update, caller,
                   history>>

\* The previous handler is back once server.run() is over.
SigtermKills ==
    /\ main \in {"closing", "last"}
    /\ main' = "exited"
    /\ overruled' = TRUE
    /\ UNCHANGED <<registered, requests, shouldExit, interrupted, update,
                   caller, asked, raced>>

ClearRequests == StateLockFree /\ restartReq' = FALSE /\ shutdownReq' = FALSE

\* Ctrl-C: kept by uvicorn while it serves; a KeyboardInterrupt on the main
\* thread afterwards, which the CLI only catches before the clean mark.
Sigint ==
    /\ overruled' = TRUE
    /\ \/ /\ main = "serving"
          /\ interrupted' = TRUE
          /\ shouldExit' = TRUE
          /\ UNCHANGED <<main, restartReq, shutdownReq>>
       \/ /\ main = "returned"
          /\ ClearRequests
          /\ main' = "closing"
          /\ UNCHANGED <<interrupted, shouldExit>>
       \/ /\ main = "closing"
          /\ main' = "last"
          /\ UNCHANGED <<interrupted, shouldExit, restartReq, shutdownReq>>
       \/ /\ main = "last"
          /\ main' = "exited"
          /\ UNCHANGED <<interrupted, shouldExit, restartReq, shutdownReq>>
    /\ UNCHANGED <<registered, cleanExit, update, caller, asked, raced>>

-----------------------------------------------------------------------------
(* The main thread (cli.py).                                               *)

\* server.run() returns when uvicorn has drained, or raises the Ctrl-C.
ServerReturns ==
    /\ main = "serving"
    /\ shouldExit
    /\ IF interrupted
       THEN ClearRequests /\ main' = "closing"
       ELSE main' = "returned" /\ UNCHANGED <<restartReq, shutdownReq>>
    /\ UNCHANGED <<registered, cleanExit, shouldExit, interrupted, update,
                   caller, history>>

\* Any other exception out of server.run().
ServerRaises ==
    /\ main = "serving"
    /\ ClearRequests
    /\ main' = "closing"
    /\ overruled' = TRUE
    /\ UNCHANGED <<registered, cleanExit, shouldExit, interrupted, update,
                   caller, asked, raced>>

MarkNothingMutant ==
    /\ main = "returned"
    /\ StateLockFree
    /\ main' = "closing"
    /\ UNCHANGED <<registered, requests, shouldExit, interrupted, update,
                   caller, history>>

MarkCleanExit ==
    /\ main = "returned"
    /\ StateLockFree
    /\ cleanExit' = TRUE
    /\ main' = "closing"
    /\ UNCHANGED <<registered, restartReq, shutdownReq, shouldExit, interrupted,
                   update, caller, history>>

\* The tray is stopped and the server handle dropped.
UnregisterServer ==
    /\ main = "closing"
    /\ StateLockFree
    /\ registered' = FALSE
    /\ main' = "last"
    /\ UNCHANGED <<requests, shouldExit, interrupted, update, caller, history>>

RelaunchUncleanMutant == restartReq

ShouldRelaunch == restartReq /\ cleanExit

RelaunchOrExit ==
    /\ main = "last"
    /\ StateLockFree
    /\ main' = IF ShouldRelaunch THEN "relaunched" ELSE "exited"
    /\ UNCHANGED <<registered, requests, shouldExit, interrupted, update,
                   caller, history>>

\* The relaunch raised: it is reported and the process exits.
RelaunchFails ==
    /\ main = "last"
    /\ StateLockFree
    /\ ShouldRelaunch
    /\ main' = "exited"
    /\ overruled' = TRUE
    /\ UNCHANGED <<registered, requests, shouldExit, interrupted, update,
                   caller, asked, raced>>

-----------------------------------------------------------------------------
MainStep ==
    \/ ServerReturns
    \/ MarkCleanExit
    \/ UnregisterServer
    \/ RelaunchOrExit

RequestReturns == RestartAccepted \/ ShutdownAccepted

LifeNext ==
    \/ RestartChecks
    \/ ShutdownChecks
    \/ RequestReturns
    \/ \E kind \in {"manual", "auto"} : StartUpdateChecks(kind)
    \/ UpdateStarts
    \/ UpdateEnds
    \/ AutoRestart
    \/ Sigterm
    \/ SigtermKills
    \/ Sigint
    \/ MainStep
    \/ ServerRaises
    \/ RelaunchFails

LifeSpec == LifeInit /\ [][LifeNext]_lifeVars

(***************************************************************************)
(* The main thread keeps going: uvicorn's drain of a requested exit and    *)
(* the lifespan shutdown are bounded by timeouts.  A request that has the  *)
(* lock returns: it waits for nobody.                                      *)
(***************************************************************************)
LifeFairSpec ==
    LifeSpec /\ WF_lifeVars(MainStep) /\ WF_lifeVars(RequestReturns)

-----------------------------------------------------------------------------
(* Properties.                                                             *)

\* server.run() ended by Ctrl-C or by an exception.
UncleanEnd == main \in {"closing", "last"} /\ ~cleanExit

(***************************************************************************)
(* The process replaces itself only when a restart was the last request it *)
(* accepted and server.run() returned without a Ctrl-C or an exception.    *)
(***************************************************************************)
RelaunchWasAsked ==
    [][main' = "relaunched" /\ main # "relaunched"
          => asked = "restart" /\ ~UncleanEnd /\ ~interrupted]_lifeVars

(***************************************************************************)
(* An accepted restart comes about, unless a shutdown, a stop signal, an   *)
(* exception or a failed exec overruled it.                                *)
(***************************************************************************)
RestartHappens ==
    asked = "restart" ~> (main = "relaunched" \/ overruled)

(***************************************************************************)
(* The process does not replace itself while the installer runs (the       *)
(* docstring of set_update_job_probe: it would import half of a package).  *)
(* The one way there is in `raced`: the look of request_restart at the job *)
(* and its flag, the look of start_update at the flags and its mark, have  *)
(* no lock in common, and one pair falls into the other.                   *)
(***************************************************************************)
NoRelaunchMidInstall == main = "relaunched" /\ job = "running" => raced
=============================================================================
