----------------------------- MODULE PauseFile ------------------------------
(***************************************************************************)
(* Pausing a host (host_control.py): the in-memory pause flag of every     *)
(* gateway process on a data directory and the file gateway_paused.json    *)
(* that carries it over restarts and to the other processes.               *)
(*                                                                         *)
(* `_state_lock` makes the calls of one process take turns; between two    *)
(* file-system operations of a call another process may act.  A write puts *)
(* a complete file in place (tmp + replace), so a file that is there says  *)
(* "paused"; its signature (mtime_ns, size) is the number of the write.    *)
(* Only the process whose runner holds the singleton lock runs the loop    *)
(* that looks at the file again; a standby does not.                       *)
(***************************************************************************)
EXTENDS Naturals

CONSTANTS
    Proc,          \* gateway processes on the data directory
    Writer,        \* those that serve POST /host/pause and /host/resume
    NoProc,        \* nobody runs the loop
    MaxWrites,     \* bound: writes of the file
    MayFail        \* whether an operation on the file may fail

ASSUME PauseAssumption ==
    /\ Writer \subseteq Proc
    /\ NoProc \notin Proc
    /\ MaxWrites \in Nat
    /\ MayFail \in BOOLEAN

VARIABLES
    file,     \* signature of gateway_paused.json, 0 when it is absent
    writes,   \* writes so far
    paused,   \* per process: `_paused`
    seen,     \* per process: `_pause_file_seen`
    pc,       \* per process: where the call that holds `_state_lock` is
    ticker,   \* the process that runs the runner's loop
    nudged,   \* per process: the runners were told since execution stopped
    misread,  \* history: processes whose last load failed on a file
    failed,   \* history: a write, the stat after it or a removal failed
    overlap   \* history: pause and resume calls of two processes overlapped

vars == <<file, writes, paused, seen, pc, ticker, nudged, misread, failed,
          overlap>>

WritePc == {"write", "stat", "remove", "unlink"}
CallPc == {"off", "idle", "load", "read"} \cup WritePc

TypeOK ==
    /\ file \in 0..writes
    /\ writes \in 0..MaxWrites
    /\ paused \in [Proc -> BOOLEAN]
    /\ seen \in [Proc -> 0..writes]
    /\ pc \in [Proc -> CallPc]
    /\ ticker \in Proc \cup {NoProc}
    /\ nudged \in [Proc -> BOOLEAN]
    /\ misread \in SUBSET Proc
    /\ failed \in BOOLEAN
    /\ overlap \in BOOLEAN

Init ==
    /\ file = 0
    /\ writes = 0
    /\ paused = [p \in Proc |-> FALSE]
    /\ seen = [p \in Proc |-> 0]
    /\ pc = [p \in Proc |-> "off"]
    /\ ticker = NoProc
    /\ nudged = [p \in Proc |-> TRUE]
    /\ misread = {}
    /\ failed = FALSE
    /\ overlap = FALSE

-----------------------------------------------------------------------------
GoTo(p, label) == pc' = [pc EXCEPT ![p] = label]

SetPaused(p, b) == paused' = [paused EXCEPT ![p] = b]

\* configure, at boot: the signature is taken, then the file is read.
Configure(p) ==
    /\ pc[p] = "off"
    /\ GoTo(p, "load")
    /\ nudged' = [nudged EXCEPT ![p] = TRUE]
    /\ UNCHANGED <<file, writes, paused, seen, ticker, misread, failed,
                   overlap>>

\* The runner of p gets the singleton lock and runs the loop, or leaves it
\* (RunnerLock); it does not leave in the middle of a load.
EnterLoop(p) ==
    /\ ticker = NoProc
    /\ pc[p] \notin {"off", "load", "read"}
    /\ ticker' = p
    /\ UNCHANGED <<file, writes, paused, seen, pc, nudged, misread, failed,
                   overlap>>

LeaveLoop(p) ==
    /\ ticker = p
    /\ pc[p] \notin {"load", "read"}
    /\ ticker' = NoProc
    /\ UNCHANGED <<file, writes, paused, seen, pc, nudged, misread, failed,
                   overlap>>

AppearedOnlyMutant(p) ==
    /\ ticker = p
    /\ pc[p] = "idle"
    /\ file # seen[p] /\ file # 0
    /\ GoTo(p, "load")
    /\ UNCHANGED <<file, writes, paused, seen, ticker, nudged, misread, failed,
                   overlap>>

\* maybe_reload, from the runner's loop: nothing to do unless the signature
\* differs from the one seen (a stat that fails finds no file).
MaybeReload(p) ==
    /\ ticker = p
    /\ pc[p] = "idle"
    /\ file # seen[p] \/ (MayFail /\ seen[p] # 0)
    /\ GoTo(p, "load")
    /\ UNCHANGED <<file, writes, paused, seen, ticker, nudged, misread, failed,
                   overlap>>

KeepFlagMutant(p) ==
    /\ pc[p] = "load"
    /\ seen' = [seen EXCEPT ![p] = file]
    /\ misread' = misread \ {p}
    /\ GoTo(p, IF file = 0 THEN "idle" ELSE "read")
    /\ UNCHANGED <<file, writes, paused, ticker, nudged, failed, overlap>>

SilentReloadMutant(p) ==
    /\ pc[p] = "load"
    /\ seen' = [seen EXCEPT ![p] = file]
    /\ misread' = misread \ {p}
    /\ IF file = 0
       THEN SetPaused(p, FALSE) /\ GoTo(p, "idle")
       ELSE GoTo(p, "read") /\ UNCHANGED paused
    /\ UNCHANGED <<file, writes, ticker, nudged, failed, overlap>>

\* The load ends with the process not paused; its runners are told if it was.
LoadsNotPaused(p) ==
    /\ SetPaused(p, FALSE)
    /\ nudged' = [nudged EXCEPT ![p] = @ \/ paused[p]]
    /\ GoTo(p, "idle")

\* _load_from_disk takes the signature again; no file means not paused.
LoadSignature(p) ==
    /\ pc[p] = "load"
    /\ seen' = [seen EXCEPT ![p] = file]
    /\ misread' = misread \ {p}
    /\ IF file = 0 THEN LoadsNotPaused(p)
                   ELSE GoTo(p, "read") /\ UNCHANGED <<paused, nudged>>
    /\ UNCHANGED <<file, writes, ticker, failed, overlap>>

\* The read: a file removed since the signature was taken is unreadable and
\* counts as not paused.
LoadContent(p) ==
    /\ pc[p] = "read"
    /\ IF file = 0 THEN LoadsNotPaused(p)
                   ELSE /\ SetPaused(p, TRUE)
                        /\ nudged' = [nudged EXCEPT ![p] = FALSE]
                        /\ GoTo(p, "idle")
    /\ UNCHANGED <<file, writes, seen, ticker, misread, failed, overlap>>

\* The stat or the read of a file that is there fails: it counts as absent.
\* A signature taken before the failed read is kept.
LoadFails(p) ==
    /\ MayFail
    /\ file # 0
    /\ \/ pc[p] = "load" /\ seen' = [seen EXCEPT ![p] = 0]
       \/ pc[p] = "read" /\ UNCHANGED seen
    /\ LoadsNotPaused(p)
    /\ misread' = misread \cup {p}
    /\ UNCHANGED <<file, writes, ticker, failed, overlap>>

-----------------------------------------------------------------------------
(* pause() and resume().                                                   *)

\* The history notes a call that begins in the middle of another's.
NoteOverlap ==
    overlap' = (overlap \/ \E q \in Writer : pc[q] \in WritePc)

\* A pause while paused changes nothing.
Pause(p) ==
    /\ p \in Writer
    /\ pc[p] = "idle"
    /\ ~paused[p]
    /\ writes < MaxWrites
    /\ SetPaused(p, TRUE)
    /\ nudged' = [nudged EXCEPT ![p] = FALSE]
    /\ GoTo(p, "write")
    /\ NoteOverlap
    /\ misread' = misread \ {p}
    /\ UNCHANGED <<file, writes, seen, ticker, failed>>

ReplaceFile(p) ==
    /\ pc[p] = "write"
    /\ writes < MaxWrites
    /\ writes' = writes + 1
    /\ file' = writes + 1
    /\ GoTo(p, "stat")
    /\ UNCHANGED <<paused, seen, ticker, nudged, misread, failed, overlap>>

\* A stat that fails says that there is no file.
SignatureAfterWrite(p) ==
    /\ pc[p] = "stat"
    /\ \/ seen' = [seen EXCEPT ![p] = file] /\ UNCHANGED failed
       \/ MayFail /\ seen' = [seen EXCEPT ![p] = 0] /\ failed' = TRUE
    /\ GoTo(p, "idle")
    /\ UNCHANGED <<file, writes, paused, ticker, nudged, misread, overlap>>

Resume(p) ==
    /\ p \in Writer
    /\ pc[p] = "idle"
    /\ SetPaused(p, FALSE)
    /\ GoTo(p, "remove")
    /\ NoteOverlap
    /\ misread' = misread \ {p}
    /\ UNCHANGED <<file, writes, seen, ticker, nudged, failed>>

\* path.exists(), then path.unlink().  Every listener is told at the end.
RemoveFile(p) ==
    /\ \/ /\ pc[p] = "remove" /\ file # 0
          /\ GoTo(p, "unlink")
          /\ UNCHANGED <<file, seen, nudged>>
       \/ /\ \/ pc[p] = "remove" /\ file = 0
             \/ pc[p] = "unlink" /\ file # 0
          /\ file' = 0
          /\ seen' = [seen EXCEPT ![p] = 0]
          /\ nudged' = [nudged EXCEPT ![p] = TRUE]
          /\ GoTo(p, "idle")
    /\ UNCHANGED <<writes, paused, ticker, misread, failed, overlap>>

\* Another process removed the file in between: unlink raises.
UnlinkLost(p) ==
    /\ pc[p] = "unlink"
    /\ file = 0
    /\ nudged' = [nudged EXCEPT ![p] = TRUE]
    /\ GoTo(p, "idle")
    /\ UNCHANGED <<file, writes, paused, seen, ticker, misread, failed,
                   overlap>>

\* A write or a removal raises: the in-memory state rules, the call goes on.
PersistFails(p) ==
    /\ MayFail
    /\ pc[p] \in {"write", "remove", "unlink"}
    /\ failed' = TRUE
    /\ nudged' = [nudged EXCEPT ![p] = @ \/ pc[p] # "write"]
    /\ GoTo(p, "idle")
    /\ UNCHANGED <<file, writes, paused, seen, ticker, misread, overlap>>

\* The process ends, in the middle of a call or not.
Exit(p) ==
    /\ pc[p] # "off"
    /\ GoTo(p, "off")
    /\ SetPaused(p, FALSE)
    /\ seen' = [seen EXCEPT ![p] = 0]
    /\ nudged' = [nudged EXCEPT ![p] = TRUE]
    /\ misread' = misread \ {p}
    /\ ticker' = IF ticker = p THEN NoProc ELSE ticker
    /\ UNCHANGED <<file, writes, failed, overlap>>

-----------------------------------------------------------------------------
CallStep(p) ==
    \/ LoadSignature(p)
    \/ LoadContent(p)
    \/ ReplaceFile(p)
    \/ SignatureAfterWrite(p)
    \/ RemoveFile(p)
    \/ UnlinkLost(p)

Next ==
    \E p \in Proc :
       \/ Configure(p)
       \/ EnterLoop(p) \/ LeaveLoop(p)
       \/ MaybeReload(p)
       \/ Pause(p)
       \/ Resume(p)
       \/ CallStep(p)
       \/ LoadFails(p) \/ PersistFails(p)
       \/ Exit(p)

Spec == Init /\ [][Next]_vars

(***************************************************************************)
(* A call runs to its end, and the loop of the runner that holds the       *)
(* singleton lock looks at the file every couple of seconds; a resume in   *)
(* between may keep it from it once, never for ever (strong fairness).     *)
(* Nothing makes a standby look.                                           *)
(***************************************************************************)
FairSpec ==
    /\ Spec
    /\ \A p \in Proc : WF_vars(CallStep(p)) /\ SF_vars(MaybeReload(p))

-----------------------------------------------------------------------------
(* Properties.                                                             *)

\* p remembers the file's signature: no later maybe_reload would correct it.
UpToDate(p) == pc[p] = "idle" /\ seen[p] = file

FlagIsRight(p) == (paused[p] <=> file # 0) \/ failed \/ p \in misread

(***************************************************************************)
(* Who takes itself to be up to date is: its flag says what the file says, *)
(* in a process that only follows (the runner of a split layout) however   *)
(* the calls of the others interleave, in one that writes as long as the   *)
(* pause and resume calls of two processes never overlapped.  The          *)
(* exceptions are a call that failed to write the file (or to stat what it *)
(* wrote) or to remove it, and a process whose own last load               *)
(* failed on a file that was there: it keeps the signature of what it      *)
(* could not read and goes on as if nobody had paused.                     *)
(***************************************************************************)
FlagsAreRight ==
    \A p \in Proc :
       UpToDate(p) => FlagIsRight(p) \/ (p \in Writer /\ overlap)

(***************************************************************************)
(* Whoever may execute again has been told: a process whose pause ended,   *)
(* by its own resume or by the file's removal, has nudged its runners.     *)
(***************************************************************************)
ResumeIsHeard ==
    \A p \in Proc : pc[p] = "idle" /\ ~paused[p] => nudged[p]

(***************************************************************************)
(* A pause or a resume reaches the process that runs the loop, the one     *)
(* that ticks: its flag comes to agree with the file, unless it leaves the *)
(* loop again or an exception of FlagsAreRight applies to it.  A standby   *)
(* keeps what it knows until it runs the loop itself.                      *)
(***************************************************************************)
FileReachesTicker ==
    \A p \in Proc :
       ticker = p ~> \/ FlagIsRight(p) \/ ticker # p
                     \/ p \in Writer /\ overlap
=============================================================================
