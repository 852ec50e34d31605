---------------------------- MODULE CommandInbox ----------------------------
(***************************************************************************)
(* The durable command inbox (runner.py: _loop, _poll_commands,            *)
(* _apply_command, _apply_automation_command; automation_wait_resolver.py).*)
(*                                                                         *)
(* Clients append commands; the process that owns the runner lock polls    *)
(* them from its cursor, applies them one by one and saves the cursor      *)
(* after each.  An automation command leaves a decision in its ledger,     *)
(* keyed by command id; an applied revision may append one more command    *)
(* (the answer to a wait it now grants).  The inbox, the saved cursor and  *)
(* the ledgers survive a crash; a loop's own cursor does not.              *)
(***************************************************************************)
EXTENDS Naturals, Sequences

CONSTANTS
    Proc,          \* gateway processes on the data directory
    NoProc,        \* nobody owns the runner lock
    Client,        \* command ids that clients submit
    Automation,    \* those with an automation.* type
    Revise,        \* those of type automation.revise that grant a waiting run
    Answer,        \* the resume command id such a revision derives
    BatchLimit,    \* command_batch_limit
    Faults,        \* kinds of disturbance that happen
    MaxFaults      \* bound: how many of them

Cmd == Client \cup {Answer[c] : c \in Revise}

FaultKind == {"crash", "yield", "linger", "save", "record", "append"}

ASSUME InboxAssumption ==
    /\ NoProc \notin Proc
    /\ Automation \subseteq Client
    /\ Revise \subseteq Automation
    /\ Answer \in [Revise -> {Answer[c] : c \in Revise}]
    /\ \A c \in Revise : Answer[c] \notin Client
    /\ BatchLimit \in Nat \ {0}
    /\ Faults \subseteq FaultKind
    /\ MaxFaults \in Nat

VARIABLES
    inbox,     \* accepted commands, position = seq
    saved,     \* commands_cursor.json
    ledger,    \* decision recorded for each automation command
    owner,     \* process that owns the runner lock
    pc,        \* per process: where its loop is
    cur,       \* per process: the loop's cursor
    todo,      \* per process: last seq of the polled batch
    tried,     \* history: seqs applied at least once, whatever came of it
    lingered,  \* history: a stop() released the lock under a running loop
    faults     \* disturbances so far

vars == <<inbox, saved, ledger, owner, pc, cur, todo, tried, lingered, faults>>

Decision == {"none", "applied", "rejected", "error"}
LoopPc == {"out", "poll", "apply", "after", "save"}

TypeOK ==
    /\ inbox \in Seq(Cmd)
    /\ saved \in 0..Len(inbox)
    /\ ledger \in [Automation -> Decision]
    /\ owner \in Proc \cup {NoProc}
    /\ pc \in [Proc -> LoopPc]
    /\ cur \in [Proc -> Nat]
    /\ todo \in [Proc -> Nat]
    /\ \A p \in Proc :
          /\ pc[p] \in {"apply", "after", "save"}
                => cur[p] < todo[p] /\ todo[p] <= Len(inbox)
          /\ pc[p] = "poll" => cur[p] <= Len(inbox)
    /\ tried \in SUBSET (1..Len(inbox))
    /\ lingered \in BOOLEAN
    /\ faults \in Nat

Init ==
    /\ inbox = <<>>
    /\ saved = 0
    /\ ledger = [c \in Automation |-> "none"]
    /\ owner = NoProc
    /\ pc = [p \in Proc |-> "out"]
    /\ cur = [p \in Proc |-> 0]
    /\ todo = [p \in Proc |-> 0]
    /\ tried = {}
    /\ lingered = FALSE
    /\ faults = 0

-----------------------------------------------------------------------------
Accepted(c) == \E i \in 1..Len(inbox) : inbox[i] = c

\* Command the loop of p is at.
Current(p) == inbox[cur[p] + 1]

GoTo(p, label) == pc' = [pc EXCEPT ![p] = label]

Fault(kind) ==
    /\ kind \in Faults
    /\ faults < MaxFaults
    /\ faults' = faults + 1

\* CommandStore.append (external): a known command id is a duplicate and
\* leaves the inbox as it is.
AppendOnce(c) == inbox' = IF Accepted(c) THEN inbox ELSE Append(inbox, c)

\* POST /commands and the automation routes.
Submit(c) ==
    /\ AppendOnce(c)
    /\ UNCHANGED <<saved, ledger, owner, pc, cur, todo, tried, lingered, faults>>

-----------------------------------------------------------------------------
(* Owning the loop.                                                        *)

KeepOldCursorMutant(p) ==
    /\ pc[p] = "out"
    /\ owner = NoProc
    /\ owner' = p
    /\ GoTo(p, "poll")
    /\ UNCHANGED <<inbox, saved, ledger, cur, todo, tried, lingered, faults>>

\* The loop starts under the lock, from the saved cursor.
EnterLoop(p) ==
    /\ pc[p] = "out"
    /\ owner = NoProc
    /\ owner' = p
    /\ cur' = [cur EXCEPT ![p] = saved]
    /\ GoTo(p, "poll")
    /\ UNCHANGED <<inbox, saved, ledger, todo, tried, lingered, faults>>

\* A takeover request or stop() is seen at the top of an iteration.
LeaveLoop(p) ==
    /\ pc[p] = "poll"
    /\ owner = p
    /\ Fault("yield")
    /\ owner' = NoProc
    /\ GoTo(p, "out")
    /\ UNCHANGED <<inbox, saved, ledger, cur, todo, tried, lingered>>

\* stop() gives up waiting for the loop and releases the lock under it ...
LingerBehindStop(p) ==
    /\ pc[p] \in {"apply", "after", "save"}
    /\ owner = p
    /\ Fault("linger")
    /\ owner' = NoProc
    /\ lingered' = TRUE
    /\ UNCHANGED <<inbox, saved, ledger, pc, cur, todo, tried>>

\* ... and the loop ends when it next looks at `_stop`.
LingererEnds(p) ==
    /\ pc[p] = "poll"
    /\ owner # p
    /\ GoTo(p, "out")
    /\ UNCHANGED <<inbox, saved, ledger, owner, cur, todo, tried, lingered, faults>>

Crash(p) ==
    /\ pc[p] # "out"
    /\ Fault("crash")
    /\ owner' = IF owner = p THEN NoProc ELSE owner
    /\ GoTo(p, "out")
    /\ UNCHANGED <<inbox, saved, ledger, cur, todo, tried, lingered>>

-----------------------------------------------------------------------------
(* _poll_commands.                                                         *)

BatchEnd(p) ==
    IF cur[p] + BatchLimit < Len(inbox) THEN cur[p] + BatchLimit ELSE Len(inbox)

SkipOneMutant(p) ==
    /\ pc[p] = "poll"
    /\ owner = p
    /\ Len(inbox) > cur[p] + 1
    /\ todo' = [todo EXCEPT ![p] = BatchEnd(p)]
    /\ GoTo(p, "apply")
    /\ UNCHANGED <<inbox, saved, ledger, owner, cur, tried, lingered, faults>>

\* list_after: at most BatchLimit commands behind the cursor, if there are any.
Poll(p) ==
    /\ pc[p] = "poll"
    /\ owner = p
    /\ Len(inbox) > cur[p]
    /\ todo' = [todo EXCEPT ![p] = BatchEnd(p)]
    /\ GoTo(p, "apply")
    /\ UNCHANGED <<inbox, saved, ledger, owner, cur, tried, lingered, faults>>

Try(p) == tried' = tried \cup {cur[p] + 1}

\* A command about runs (or one that is malformed): it takes effect or
\* raises, and the loop goes on either way.
ApplyRunCommand(p) ==
    /\ pc[p] = "apply"
    /\ Current(p) \notin Automation
    /\ Try(p)
    /\ GoTo(p, "save")
    /\ UNCHANGED <<inbox, saved, ledger, owner, cur, todo, lingered, faults>>

\* apply_automation_command (external): one decision per command id; what
\* follows an applied revision is skipped for a duplicate.
ApplyAutomationCommand(p) ==
    /\ pc[p] = "apply"
    /\ Current(p) \in Automation
    /\ Try(p)
    /\ IF ledger[Current(p)] # "none"
       THEN GoTo(p, "save") /\ UNCHANGED ledger
       ELSE \E d \in {"applied", "rejected", "error"} :
               /\ ledger' = [ledger EXCEPT ![Current(p)] = d]
               /\ GoTo(p, IF d = "applied" /\ Current(p) \in Revise
                          THEN "after" ELSE "save")
    /\ UNCHANGED <<inbox, saved, owner, cur, todo, lingered, faults>>

SwallowedMutant(p) ==
    /\ pc[p] = "apply"
    /\ Current(p) \in Automation
    /\ ledger[Current(p)] = "none"
    /\ Fault("record")
    /\ Try(p)
    /\ GoTo(p, "save")
    /\ UNCHANGED <<inbox, saved, ledger, owner, cur, todo, lingered>>

\* Neither the decision nor the host's failure could be recorded: the cursor
\* stays and the command is retried at the next poll.
CommandNotRecorded(p) ==
    /\ pc[p] = "apply"
    /\ Current(p) \in Automation
    /\ ledger[Current(p)] = "none"
    /\ Fault("record")
    /\ Try(p)
    /\ GoTo(p, "poll")
    /\ UNCHANGED <<inbox, saved, ledger, owner, cur, todo, lingered>>

\* resolve_covered_waits: the answer is one more command of the inbox; a
\* failed append is logged and given up.
ResolveCoveredWaits(p) ==
    /\ pc[p] = "after"
    /\ \/ AppendOnce(Answer[Current(p)]) /\ UNCHANGED faults
       \/ Fault("append") /\ UNCHANGED inbox
    /\ GoTo(p, "save")
    /\ UNCHANGED <<saved, ledger, owner, cur, todo, tried, lingered>>

SaveBatchMutant(p) ==
    /\ pc[p] = "save"
    /\ cur' = [cur EXCEPT ![p] = todo[p]]
    /\ saved' = todo[p]
    /\ GoTo(p, "poll")
    /\ UNCHANGED <<inbox, ledger, owner, todo, tried, lingered, faults>>

JumpBatchMutant(p) ==
    /\ pc[p] = "save"
    /\ cur' = [cur EXCEPT ![p] = todo[p]]
    /\ saved' = cur[p] + 1
    /\ GoTo(p, "poll")
    /\ UNCHANGED <<inbox, ledger, owner, todo, tried, lingered, faults>>

\* The cursor moves past the command and is saved; a failed save is logged.
SaveCursor(p) ==
    /\ pc[p] = "save"
    /\ cur' = [cur EXCEPT ![p] = @ + 1]
    /\ \/ saved' = cur[p] + 1 /\ UNCHANGED faults
       \/ Fault("save") /\ UNCHANGED saved
    /\ GoTo(p, IF cur[p] + 1 < todo[p] THEN "apply" ELSE "poll")
    /\ UNCHANGED <<inbox, ledger, owner, todo, tried, lingered>>

-----------------------------------------------------------------------------
LoopStep(p) ==
    \/ EnterLoop(p)
    \/ LingererEnds(p)
    \/ Poll(p)
    \/ ApplyRunCommand(p)
    \/ ApplyAutomationCommand(p)
    \/ ResolveCoveredWaits(p)
    \/ SaveCursor(p)

Next ==
    \/ \E c \in Client : Submit(c)
    \/ \E p \in Proc :
          \/ LoopStep(p)
          \/ LeaveLoop(p)
          \/ LingerBehindStop(p)
          \/ Crash(p)
          \/ CommandNotRecorded(p)

Spec == Init /\ [][Next]_vars

(***************************************************************************)
(* A live gateway process keeps asking for the lock and keeps looping; the *)
(* bound on faults makes the disturbances end.                             *)
(***************************************************************************)
FairSpec == Spec /\ \A p \in Proc : WF_vars(LoopStep(p))

-----------------------------------------------------------------------------
(* Properties.                                                             *)

(***************************************************************************)
(* A restart never skips a command: everything at or below the saved       *)
(* cursor was applied at least once, over crashes, failed saves, retries,  *)
(* hand-overs and a loop that outlived its stop().                         *)
(***************************************************************************)
NoneSkipped == 1..saved \subseteq tried

(***************************************************************************)
(* "Accepted" is never followed by silence: an automation command the      *)
(* saved cursor has passed has a decision in its ledger, an error if need  *)
(* be.                                                                     *)
(***************************************************************************)
PassedIsAnswered ==
    \A i \in 1..saved : inbox[i] \in Automation => ledger[inbox[i]] # "none"

(***************************************************************************)
(* The saved cursor goes back only when a stop() has released the lock     *)
(* under a loop that was still applying commands; every other owner starts *)
(* from the saved cursor, so what was saved is not replayed.               *)
(***************************************************************************)
CursorNeverRegresses == [][saved' < saved => lingered]_vars

(***************************************************************************)
(* First applications happen in the order of acceptance, without gaps: the *)
(* inbox implements CommandLog.                                            *)
(***************************************************************************)
Log == INSTANCE CommandLog WITH log <- inbox, taken <- tried
ImplementsLog == Log!LogSpec

(***************************************************************************)
(* Every accepted command is applied some time, and every accepted         *)
(* automation command gets its decision.                                   *)
(***************************************************************************)
EveryCommandSettled ==
    \A c \in Cmd :
        Accepted(c) ~> /\ \E i \in tried : inbox[i] = c
                       /\ c \in Automation => ledger[c] # "none"
=============================================================================
