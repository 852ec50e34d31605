----------------------------- MODULE UserStream -----------------------------
(***************************************************************************)
(* What the runner writes to the event stream of its plane's owner:        *)
(* pointers to runs, the waits of runs parked on a person and the          *)
(* attention items of an automation (runner.py: _stream_run, _raise_wait,  *)
(* _rebuild_waits, _drain_user_stream; events_stream.py).                  *)
(*                                                                         *)
(* Tick threads save a run and then report it (_stream_run).  Ledger       *)
(* records queue waits and items for the loop thread, which raises them    *)
(* and, once per process, repairs what the previous process left out.  A   *)
(* wait is the pair of its run and of the number of its ledger record; it  *)
(* has a key, one per node that asks, which a later wait of the run may    *)
(* have again; keys are numbered in the order of their first use.          *)
(***************************************************************************)
EXTENDS Naturals, Sequences, FiniteSets

CONSTANTS
    Run,        \* root runs of the plane
    Loop,       \* the loop thread
    MaxWaits,   \* bound: waits of a run
    MaxItems,   \* bound: attention items of the automation
    MaxFaults   \* bound: crashes, appends, cancels and reads that raise

ASSUME StreamAssumption ==
    /\ Loop \notin Run
    /\ MaxWaits \in Nat /\ MaxItems \in Nat /\ MaxFaults \in Nat

VARIABLES
    run,        \* the run store
    hidden,     \* draft tests, which the listings hide
    ledger,     \* per run: the keys of its wait records
    items,      \* the ledger of the automation: items recorded
    stream,     \* the events of the stream, by kind
    disk,       \* the stream's state file: open_waits, attention_floor
    aged,       \* runs last saved before the window of the pointer repair
    post,       \* per thread: a call of _stream_run in progress
    queue,      \* _stream_queue
    open,       \* _open_waits: per run the open wait, 0 for none
    loop,       \* where the loop thread is
    rebuilt,    \* _user_stream_rebuilt
    history     \* what the properties refer to, and faults so far

diskVars == <<run, hidden, ledger, items, stream, disk, aged>>
memoryVars == <<post, queue, open, loop, rebuilt>>
vars == <<diskVars, memoryVars, history>>

Thread == Run \cup {Loop}
Wait == Run \X (1..MaxWaits)
Item == 1..MaxItems
NoneOpen == [r \in Run |-> 0]

\* step is the newest wait of the run; it waits on it when st is "waiting".
State == [st : {"running", "waiting", "ended", "gone"}, step : 0..MaxWaits]
NewRun == [st |-> "running", step |-> 0]
Over(s) == s.st \in {"ended", "gone"}

NoCall == [pc |-> "idle", run |-> {}, state |-> NewRun, pointer |-> FALSE]

\* Queued for the loop: a wait, or an item of the automation.
WaitEntry(r, n) == [run |-> {r}, n |-> n]
ItemEntry(i) == [run |-> {}, n |-> i]
Entry == [run : {{}} \cup {{r} : r \in Run}, n : Nat]

AtPoll == [pc |-> "poll", boot |-> FALSE, left |-> <<>>, todo |-> {},
           got |-> NewRun]

NoHistory ==
    [lost |-> FALSE,        \* an append raised, or a baseline skipped
                            \* something, since the process started
     unheard |-> {},        \* runs that ended without a report, and
     late |-> {},           \* waits raised behind the last report of their
                            \* run, and
     unlisted |-> {},       \* runs whose ledger the boot repair could not
                            \* read, since the process started
     ahead |-> {},          \* waits the boot repair raised while an older
                            \* one of the run was queued
     orphan |-> {},         \* waits raised that no state names
     unsent |-> {},         \* items whose append raised, or which the boot
                            \* repair did not reach when one raised
     base |-> 0,            \* items taken as the baseline
     faults |-> 0]

TypeOK ==
    /\ run \in [Run -> State]
    /\ hidden \subseteq Run
    /\ \A r \in Run : ledger[r] \in Seq(Nat) /\ Len(ledger[r]) <= MaxWaits
    /\ items \in 0..MaxItems
    /\ stream \in [used : BOOLEAN, started : SUBSET Run,
                   finished : SUBSET Run, raised : SUBSET Wait,
                   seen : SUBSET Wait, items : SUBSET Item]
    /\ disk \in [open : [Run -> 0..MaxWaits], stored : BOOLEAN,
                 floor : 0..MaxItems, floored : BOOLEAN]
    /\ aged \subseteq Run
    /\ post \in [Thread ->
                    [pc : {"idle", "tick", "park", "resolve", "pop",
                           "pointer"},
                     run : {{}} \cup {{r} : r \in Run},
                     state : State, pointer : BOOLEAN]]
    /\ queue \in Seq(Entry)
    /\ open \in [Run -> 0..MaxWaits]
    /\ loop.pc \in {"poll", "drain", "pointers", "attention",
                    "entry", "floor", "raise", "raiseNext", "keep", "check",
                    "load", "close", "missing"}
    /\ loop.boot \in BOOLEAN
    /\ loop.left \in Seq(Entry)
    /\ loop.todo \subseteq (Run \X (0..MaxWaits))
    /\ loop.got \in State
    /\ rebuilt \in BOOLEAN
    /\ history.unheard \subseteq Run /\ history.unlisted \subseteq Run
    /\ history.late \subseteq Wait /\ history.ahead \subseteq Wait
    /\ history.orphan \subseteq Wait
    /\ history.unsent \subseteq Item /\ history.faults \in 0..MaxFaults

Init ==
    /\ run = [r \in Run |-> NewRun]
    /\ hidden \in SUBSET Run
    /\ ledger = [r \in Run |-> <<>>]
    /\ items = 0
    /\ stream \in [used : BOOLEAN, started : {{}}, finished : {{}},
                   raised : {{}}, seen : {{}}, items : {{}}]
    /\ disk = [open |-> NoneOpen, stored |-> FALSE, floor |-> 0,
               floored |-> FALSE]
    /\ aged = {}
    /\ post = [t \in Thread |-> NoCall]
    /\ queue = <<>>
    /\ open = NoneOpen
    /\ loop = AtPoll
    /\ rebuilt = FALSE
    /\ history = NoHistory

-----------------------------------------------------------------------------
(* The stream (events_stream.py).  An id already present appends nothing,  *)
(* so that the stream is a set of events per kind; used stands for events  *)
(* of other writers.                                                       *)

Head0 == ~stream.used /\ stream.started = {} /\ stream.raised = {}
         /\ stream.items = {}

Raised(w) == stream' = [stream EXCEPT !.raised = @ \cup {w}]

Seen(w) == stream' = [stream EXCEPT !.seen = @ \cup {w}]

Pointers(states) ==
    stream' = [stream EXCEPT
        !.started = @ \cup {r \in DOMAIN states : states[r].st # "gone"},
        !.finished = @ \cup {r \in DOMAIN states : states[r].st = "ended"}]

\* An append raises: nothing is written.
AppendRaisesFor(unsent) ==
    /\ history.faults < MaxFaults
    /\ history' = [history EXCEPT !.lost = TRUE, !.faults = @ + 1,
                                  !.unsent = @ \cup unsent]
    /\ UNCHANGED stream

AppendRaises == AppendRaisesFor({})

KeyOf(r, n) == ledger[r][n]

\* The run as loaded is parked on a wait with the key of wait n.
StillWaitingOn(r, state, n) ==
    state.st = "waiting" /\ KeyOf(r, state.step) = KeyOf(r, n)

\* The newest record of the run with the key of wait n.  (A wait without a
\* key, of which no record is found, is left out.)
LatestWaitRecord(r, n) ==
    CHOOSE m \in DOMAIN ledger[r] :
        /\ KeyOf(r, m) = KeyOf(r, n)
        /\ \A o \in DOMAIN ledger[r] : KeyOf(r, o) = KeyOf(r, n) => o <= m

\* latest_wait_record returns nothing when the ledger cannot be read, and the
\* boot repair goes on to the next run.
LedgerUnreadable(r) ==
    /\ history.faults < MaxFaults
    /\ history' = [history EXCEPT !.unlisted = @ \cup {r}, !.faults = @ + 1]
    /\ UNCHANGED stream

\* _waits_lock, between two writes of its holder.
LockFree ==
    /\ \A t \in Thread : post[t].pc # "pop"
    /\ loop.pc \notin {"raiseNext", "keep", "floor"}

\* _save_open_waits, after the change of _open_waits it follows.
KeepOpen(r, n) ==
    /\ open' = [open EXCEPT ![r] = n]
    /\ disk' = [disk EXCEPT !.open = open', !.stored = TRUE]

-----------------------------------------------------------------------------
(* _stream_run, on the tick's thread or, after a cancel, on the loop's.    *)

StreamRun(t, r, state, pointer) ==
    post' = [post EXCEPT ![t] = [pc |-> "resolve", run |-> {r},
                                 state |-> state, pointer |-> pointer]]

Resolved(t) ==
    post' = [post EXCEPT ![t] = IF post[t].pointer
                                THEN [@ EXCEPT !.pc = "pointer"]
                                ELSE NoCall]

Resolve(t) ==
    /\ post[t].pc = "resolve"
    /\ \E r \in post[t].run :
          IF open[r] = 0 \/ StillWaitingOn(r, post[t].state, open[r])
          THEN Resolved(t) /\ UNCHANGED <<stream, history>>
          ELSE /\ LockFree
               /\ \/ /\ Seen(<<r, open[r]>>)
                     /\ post' = [post EXCEPT ![t].pc = "pop"]
                     /\ UNCHANGED history
                  \/ AppendRaises /\ Resolved(t)
    /\ UNCHANGED <<run, hidden, ledger, items, disk, aged, queue, open, loop,
                   rebuilt>>

Pop(t) ==
    /\ post[t].pc = "pop"
    /\ \E r \in post[t].run : KeepOpen(r, 0)
    /\ Resolved(t)
    /\ UNCHANGED <<run, hidden, ledger, items, stream, aged, queue, loop,
                   rebuilt, history>>

Pointer(t) ==
    /\ post[t].pc = "pointer"
    /\ \/ Pointers([r \in post[t].run |-> post[t].state]) /\ UNCHANGED history
       \/ AppendRaises
    /\ post' = [post EXCEPT ![t] = NoCall]
    /\ UNCHANGED <<run, hidden, ledger, items, disk, aged, queue, open, loop,
                   rebuilt>>

-----------------------------------------------------------------------------
(* Ticks.  The wait is recorded, which queues it, before it is saved; a    *)
(* run cancelled meanwhile stays ended.                                    *)

\* The keys the run used, and a new one.
Keys(r) == 1..(Cardinality({ledger[r][n] : n \in DOMAIN ledger[r]}) + 1)

TickPark(r, k) ==
    /\ post[r].pc = "tick"
    /\ Len(ledger[r]) < MaxWaits
    /\ ledger' = [ledger EXCEPT ![r] = Append(@, k)]
    /\ queue' = Append(queue, WaitEntry(r, Len(ledger[r]) + 1))
    /\ post' = [post EXCEPT ![r].pc = "park"]
    /\ UNCHANGED <<run, hidden, items, stream, disk, aged, open, loop,
                   rebuilt, history>>

TickSave(r, st) ==
    /\ post[r].pc = (IF st = "waiting" THEN "park" ELSE "tick")
    /\ LET saved == IF Over(run[r]) THEN run[r]
                    ELSE [st |-> st, step |-> Len(ledger[r])]
       IN  /\ run' = [run EXCEPT ![r] = saved]
           /\ StreamRun(r, r, saved, TRUE)
    /\ aged' = aged \ {r}
    /\ UNCHANGED <<hidden, ledger, items, stream, disk, queue, open, loop,
                   rebuilt, history>>

\* The workflow cannot be resolved for the last time: the run is saved as
\* failed and the tick returns before _stream_run.
TickUnresolved(r) ==
    /\ post[r].pc = "tick"
    /\ run' = [run EXCEPT ![r].st = IF @ = "running" THEN "ended" ELSE @]
    /\ history' = [history EXCEPT !.unheard = IF run[r].st = "running"
                                              THEN @ \cup {r} ELSE @]
    /\ post' = [post EXCEPT ![r] = NoCall]
    /\ aged' = aged \ {r}
    /\ UNCHANGED <<hidden, ledger, items, stream, disk, queue, open, loop,
                   rebuilt>>

\* A person answers, by a command or by an event.
Answer(r) ==
    /\ run[r].st = "waiting"
    /\ run' = [run EXCEPT ![r].st = "running"]
    /\ aged' = aged \ {r}
    /\ UNCHANGED <<hidden, ledger, items, stream, disk, memoryVars, history>>

\* The automation's controller records an attention item.
ItemRecorded ==
    /\ items < MaxItems
    /\ items' = items + 1
    /\ queue' = Append(queue, ItemEntry(items + 1))
    /\ UNCHANGED <<run, hidden, ledger, stream, disk, aged, post, open, loop,
                   rebuilt, history>>

\* Retention deletes a draft test that is over, its ledger first.  A purge
\* under way while the run still ticks (force, include_active) is left out.
Purge(r) ==
    /\ r \in hidden
    /\ run[r].st = "ended" /\ post[r].pc = "idle"
    /\ run' = [run EXCEPT ![r].st = "gone"]
    /\ UNCHANGED <<hidden, ledger, items, stream, disk, aged, memoryVars,
                   history>>

\* Another writer appends to the stream REBUILD_MARGIN_S after the run's
\* last save; it matters to runs whose end is not in the stream.
Ages(r) ==
    /\ run[r].st = "ended" /\ r \notin aged \cup stream.finished
    /\ aged' = aged \cup {r}
    /\ stream' = [stream EXCEPT !.used = TRUE]
    /\ UNCHANGED <<run, hidden, ledger, items, disk, memoryVars, history>>

-----------------------------------------------------------------------------
(* The loop thread: commands, then ticks, then the stream.                 *)

At(pc) == loop.pc = pc /\ post[Loop].pc = "idle"

Goto(pc) == loop' = [loop EXCEPT !.pc = pc]

\* Mutant: a cancelled run is not reported.
SilentCancelMutant(r) ==
    /\ At("poll")
    /\ ~Over(run[r])
    /\ run' = [run EXCEPT ![r].st = "ended"]
    /\ aged' = aged \ {r}
    /\ UNCHANGED <<hidden, ledger, items, stream, disk, post, queue, open,
                   loop, rebuilt, history>>

Cancel(r) ==
    /\ At("poll")
    /\ ~Over(run[r])
    /\ run' = [run EXCEPT ![r].st = "ended"]
    /\ StreamRun(Loop, r, run'[r], TRUE)
    /\ aged' = aged \ {r}
    /\ UNCHANGED <<hidden, ledger, items, stream, disk, queue, open, loop,
                   rebuilt, history>>

\* cancel_run raises on a descendant of the run, or the run cannot be loaded
\* again: it is over and nothing is reported.
CancelRaises(r) ==
    /\ At("poll")
    /\ ~Over(run[r])
    /\ history.faults < MaxFaults
    /\ run' = [run EXCEPT ![r].st = "ended"]
    /\ history' = [history EXCEPT !.unheard = @ \cup {r}, !.faults = @ + 1]
    /\ aged' = aged \ {r}
    /\ UNCHANGED <<hidden, ledger, items, stream, disk, memoryVars>>

\* The reaper of idle pollers cancels a run between two ticks and reports
\* nothing.  A run that waits for a time counts as running here, so that
\* the model may reap more runs than the code does.
Reap(r) ==
    /\ At("poll")
    /\ run[r].st = "running" /\ post[r].pc = "idle"
    /\ run' = [run EXCEPT ![r].st = "ended"]
    /\ history' = [history EXCEPT !.unheard = @ \cup {r}]
    /\ aged' = aged \ {r}
    /\ UNCHANGED <<hidden, ledger, items, stream, disk, memoryVars>>

\* _drain_direct_ticks, several times in a pass: a run that an event made
\* runnable is ticked again before the loop comes to the stream.
DirectTick(r) ==
    /\ At("poll")
    /\ run[r].st = "running" /\ post[r].pc = "idle"
    /\ post' = [post EXCEPT ![r] = [NoCall EXCEPT !.pc = "tick"]]
    /\ UNCHANGED <<diskVars, queue, open, loop, rebuilt, history>>

LoopSchedule ==
    /\ At("poll")
    /\ post' = [t \in Thread |->
                  IF t \in Run /\ post[t].pc = "idle"
                     /\ run[t].st = "running"
                  THEN [NoCall EXCEPT !.pc = "tick"] ELSE post[t]]
    /\ Goto("drain")
    /\ UNCHANGED <<diskVars, queue, open, rebuilt, history>>

\* _drain_user_stream: the boot repair once, whatever becomes of it; then
\* what the ledger hook queued.
LoopDrain ==
    /\ At("drain")
    /\ IF rebuilt
       THEN /\ loop' = IF queue = <<>> THEN AtPoll
                       ELSE [AtPoll EXCEPT !.pc = "entry", !.left = queue]
            /\ queue' = <<>>
       ELSE Goto("pointers") /\ UNCHANGED queue
    /\ rebuilt' = TRUE
    /\ UNCHANGED <<diskVars, post, open, history>>

\* The entry at hand.
N == Head(loop.left).n
Entering(kind) ==
    /\ At("entry") /\ loop.left # <<>>
    /\ kind = (IF Head(loop.left).run = {} THEN "item" ELSE "wait")

\* The end of an entry; what raises leaves the boot repair, or the entry.
NextEntry ==
    loop' = IF Len(loop.left) > 1 THEN [loop EXCEPT !.pc = "entry",
                                                    !.left = Tail(@)]
            ELSE IF loop.boot THEN [loop EXCEPT !.pc = "load", !.left = <<>>]
            ELSE AtPoll

Abandon == IF loop.boot THEN Goto("drain") ELSE NextEntry

\* Mutant: the floor is written first.
FloorFirstMutant ==
    /\ Entering("item") /\ LockFree
    /\ disk' = [disk EXCEPT !.floored = TRUE,
                            !.floor = IF N > @ THEN N ELSE @]
    /\ Goto("floor")
    /\ UNCHANGED <<run, hidden, ledger, items, stream, aged, post, queue,
                   open, rebuilt, history>>

\* record_attention_raised: the event, and behind it the floor.
RaiseItem ==
    /\ Entering("item") /\ LockFree
    /\ \/ /\ stream' = [stream EXCEPT !.items = @ \cup {N}]
          /\ IF N \in stream.items THEN NextEntry ELSE Goto("floor")
          /\ UNCHANGED history
       \/ AppendRaisesFor(IF loop.boot THEN N..items ELSE {N}) /\ Abandon
    /\ UNCHANGED <<run, hidden, ledger, items, disk, aged, post, queue, open,
                   rebuilt>>

RaiseFloor ==
    /\ At("floor")
    /\ disk' = [disk EXCEPT !.floored = TRUE,
                            !.floor = IF N > @ THEN N ELSE @]
    /\ NextEntry
    /\ UNCHANGED <<run, hidden, ledger, items, stream, aged, post, queue,
                   open, rebuilt, history>>

\* _raise_wait loads the run before it takes the lock.
RaiseLoad ==
    /\ Entering("wait")
    /\ \E r \in Head(loop.left).run :
          IF r \in hidden /\ run[r].st # "gone"
          THEN NextEntry
          ELSE loop' = [loop EXCEPT !.pc = "raise", !.got = run[r]]
    /\ UNCHANGED <<diskVars, post, queue, open, rebuilt, history>>

\* Mutant: the wait before is replaced without a word.
KeepsPreviousMutant ==
    /\ At("raise") /\ LockFree
    /\ \E r \in Head(loop.left).run : open[r] \notin {0, N}
    /\ Goto("raiseNext")
    /\ UNCHANGED <<run, hidden, ledger, items, stream, disk, aged, post,
                   queue, open, rebuilt, history>>

\* The run asked again: its last wait was answered.
RaiseClosesPrevious ==
    /\ At("raise") /\ LockFree
    /\ \E r \in Head(loop.left).run :
          /\ open[r] \notin {0, N}
          /\ \/ /\ Seen(<<r, open[r]>>)
                /\ Goto("raiseNext")
                /\ UNCHANGED history
             \/ AppendRaises /\ NextEntry
    /\ UNCHANGED <<run, hidden, ledger, items, disk, aged, post, queue, open,
                   rebuilt>>

RaiseWait ==
    /\ At("raise") \/ At("raiseNext")
    /\ \E r \in Head(loop.left).run :
          /\ loop.pc = "raise" => LockFree /\ open[r] \in {0, N}
          /\ \/ Raised(<<r, N>>) /\ Goto("keep") /\ UNCHANGED history
             \/ AppendRaises /\ NextEntry
    /\ UNCHANGED <<run, hidden, ledger, items, disk, aged, post, queue, open,
                   rebuilt>>

\* _open_waits and its file.  history notes a wait of a run that is over by
\* now although the copy that was loaded was not, and was reported already.
RaiseKeep ==
    /\ At("keep")
    /\ \E r \in Head(loop.left).run :
          /\ KeepOpen(r, N)
          /\ history' = [history EXCEPT
                           !.late = IF /\ Over(run[r]) /\ ~Over(loop.got)
                                       /\ post[r].pc # "resolve"
                                    THEN @ \cup {<<r, N>>} ELSE @,
                           !.orphan = @ \ {<<r, N>>}]
    /\ loop' = IF loop.boot
               THEN [loop EXCEPT !.pc = "missing", !.left = <<>>,
                                 !.got = NewRun]
               ELSE [loop EXCEPT !.pc = "check"]
    /\ UNCHANGED <<run, hidden, ledger, items, stream, aged, post, queue,
                   rebuilt>>

\* _close_missing_wait forgets the wait first.
CloseMissing(r, next, failed) ==
    \/ Seen(<<r, open[r]>>) /\ KeepOpen(r, 0) /\ next /\ UNCHANGED history
    \/ /\ AppendRaises
       /\ open' = [open EXCEPT ![r] = 0] /\ UNCHANGED disk
       /\ failed

\* Mutant: a run loaded before its wait was saved counts as past it.
RunningIsPastMutant ==
    /\ At("check")
    /\ \E r \in Head(loop.left).run :
          IF StillWaitingOn(r, loop.got, N) THEN UNCHANGED post
          ELSE StreamRun(Loop, r, loop.got, FALSE)
    /\ NextEntry
    /\ UNCHANGED <<diskVars, queue, open, rebuilt, history>>

\* A running run is left to its next tick.
RaiseCheck ==
    /\ At("check")
    /\ \E r \in Head(loop.left).run :
          LET closed == \/ loop.got.st = "ended"
                        \/ /\ loop.got.st = "waiting"
                           /\ ~StillWaitingOn(r, loop.got, N)
          IN  IF loop.got.st = "gone" /\ open[r] # 0
              THEN /\ LockFree
                   /\ CloseMissing(r, NextEntry, NextEntry)
                   /\ UNCHANGED post
              ELSE /\ IF closed THEN StreamRun(Loop, r, loop.got, FALSE)
                      ELSE UNCHANGED post
                   /\ NextEntry
                   /\ UNCHANGED <<stream, open, disk, history>>
    /\ UNCHANGED <<run, hidden, ledger, items, aged, queue, rebuilt>>

-----------------------------------------------------------------------------
(* The boot repair.                                                        *)

\* rebuild_run_pointers.
BootPointers ==
    /\ At("pointers")
    /\ \/ /\ Goto("attention")
          /\ IF Head0
             THEN /\ history' = [history EXCEPT
                        !.lost = @ \/ \E r \in Run : Over(run[r])]
                  /\ UNCHANGED stream
             ELSE /\ Pointers([r \in Run \ aged |-> run[r]])
                  /\ UNCHANGED history
       \/ ~Head0 /\ AppendRaisesFor(1..items) /\ Goto("drain")
    /\ UNCHANGED <<run, hidden, ledger, items, disk, aged, post, queue, open,
                   rebuilt>>

\* rebuild_attention.
BootAttention ==
    /\ At("attention")
    /\ IF disk.floored /\ items > disk.floor
       THEN loop' = [loop EXCEPT !.pc = "entry", !.boot = TRUE,
                        !.left = [i \in 1..(items - disk.floor) |->
                                    ItemEntry(disk.floor + i)]]
       ELSE Goto("load")
    /\ IF disk.floored
       THEN UNCHANGED <<disk, history>>
       ELSE /\ disk' = [disk EXCEPT !.floor = items, !.floored = TRUE]
            /\ history' = [history EXCEPT !.base = items]
    /\ UNCHANGED <<run, hidden, ledger, items, stream, aged, post, queue,
                   open, rebuilt>>

\* Mutant: what closed while the process was down is not looked at.
NoCloseMutant ==
    /\ At("load") /\ LockFree
    /\ open' = disk.open
    /\ loop' = [loop EXCEPT !.pc = "close", !.boot = TRUE, !.left = <<>>]
    /\ UNCHANGED <<diskVars, post, queue, rebuilt, history>>

\* _rebuild_waits: the open waits of the last process.
BootLoad ==
    /\ At("load") /\ LockFree
    /\ open' = disk.open
    /\ loop' = [loop EXCEPT !.pc = "close", !.boot = TRUE, !.left = <<>>,
                    !.todo = {<<r, 0>> : r \in {s \in Run :
                                                  disk.open[s] # 0}}]
    /\ UNCHANGED <<diskVars, post, queue, rebuilt, history>>

Done(w) == loop' = [loop EXCEPT !.todo = @ \ {w}]

BootClose(w) ==
    /\ At("close") /\ w \in loop.todo
    /\ LET r == w[1]
       IN  IF open[r] # 0 /\ (run[r].st = "gone" \/ r \in hidden)
           THEN /\ LockFree
                /\ CloseMissing(r, Done(w), Goto("drain"))
                /\ UNCHANGED post
           ELSE /\ Done(w)
                /\ StreamRun(Loop, r, run[r], FALSE)
                /\ UNCHANGED <<stream, open, disk, history>>
    /\ UNCHANGED <<run, hidden, ledger, items, aged, queue, rebuilt>>

\* Mutant: a stream that never kept an open wait counts as new.
NewStreamMutant ==
    /\ At("close") /\ loop.todo = {}
    /\ loop' = IF ~disk.stored THEN [loop EXCEPT !.pc = "drain"]
               ELSE [loop EXCEPT !.pc = "missing",
                       !.todo = {<<r, run[r].step>> :
                                   r \in {s \in Run : run[s].st = "waiting"}}]
    /\ UNCHANGED <<diskVars, post, queue, open, rebuilt, history>>

\* A new stream takes no history.
BootList ==
    /\ At("close") /\ loop.todo = {}
    /\ LET parked == {r \in Run : run[r].st = "waiting"}
       IN  IF Head0 /\ ~disk.stored
           THEN /\ history' = [history EXCEPT !.lost = @ \/ parked # {}]
                /\ Goto("drain")
           ELSE /\ loop' = [loop EXCEPT !.pc = "missing",
                               !.todo = {<<r, run[r].step>> : r \in parked}]
                /\ UNCHANGED history
    /\ UNCHANGED <<diskVars, post, queue, open, rebuilt>>

\* An older wait of the run is still in the queue.
Overtakes(r, n) ==
    \E i \in DOMAIN queue : queue[i].run = {r} /\ queue[i].n < n

\* Runs parked on a person without an open wait, as they were listed.
BootRaise(w) ==
    /\ At("missing") /\ w \in loop.todo
    /\ LET r == w[1]
           n == LatestWaitRecord(r, w[2])
       IN  IF open[r] # 0 \/ r \in hidden
           THEN Done(w) /\ UNCHANGED <<stream, history>>
           ELSE /\ LockFree
                /\ \/ /\ Raised(<<r, n>>)
                      /\ loop' = [loop EXCEPT
                                    !.pc = "keep", !.todo = @ \ {w},
                                    !.left = <<WaitEntry(r, n)>>,
                                    !.got = [st |-> "waiting",
                                             step |-> w[2]]]
                      /\ history' = [history EXCEPT
                            !.ahead = IF Overtakes(r, n)
                                      THEN @ \cup {<<r, n>>} ELSE @]
                   \/ AppendRaises /\ Goto("drain")
                   \/ LedgerUnreadable(r) /\ Done(w)
    /\ UNCHANGED <<run, hidden, ledger, items, disk, aged, post, queue, open,
                   rebuilt>>

BootDone ==
    /\ At("missing") /\ loop.todo = {}
    /\ Goto("drain")
    /\ UNCHANGED <<diskVars, post, queue, open, rebuilt, history>>

-----------------------------------------------------------------------------
(* The process dies and starts again; what was in memory is gone.          *)

Crash ==
    /\ history.faults < MaxFaults
    /\ post' = [t \in Thread |-> NoCall]
    /\ queue' = <<>>
    /\ open' = NoneOpen
    /\ loop' = AtPoll
    /\ rebuilt' = FALSE
    /\ history' = [history EXCEPT
                     !.lost = FALSE, !.unheard = {}, !.late = {},
                     !.unlisted = {},
                     !.orphan = @ \cup {w \in stream.raised \ stream.seen :
                                          disk.open[w[1]] # w[2]},
                     !.faults = @ + 1]
    /\ UNCHANGED diskVars

LoopStep ==
    \/ LoopSchedule \/ LoopDrain
    \/ RaiseItem \/ RaiseFloor \/ RaiseLoad \/ RaiseClosesPrevious
    \/ RaiseWait \/ RaiseKeep \/ RaiseCheck
    \/ BootPointers \/ BootAttention \/ BootLoad \/ BootList \/ BootDone
    \/ \E w \in loop.todo : BootClose(w) \/ BootRaise(w)

TickStep(r) ==
    \/ \E k \in Keys(r) : TickPark(r, k)
    \/ \E st \in {"running", "waiting", "ended"} : TickSave(r, st)
    \/ TickUnresolved(r)

StreamStep(t) == Resolve(t) \/ Pop(t) \/ Pointer(t)

Next ==
    \/ LoopStep
    \/ \E t \in Thread : StreamStep(t)
    \/ \E r \in Run : TickStep(r) \/ Answer(r) \/ Cancel(r) \/ Purge(r)
                      \/ Ages(r) \/ CancelRaises(r) \/ Reap(r)
                      \/ DirectTick(r)
    \/ ItemRecorded
    \/ Crash

Spec == Init /\ [][Next]_vars

\* Threads run: the loop loops, a tick ends, a report is finished.
Fairness ==
    /\ WF_vars(LoopStep)
    /\ \A r \in Run : WF_vars(TickStep(r))
    /\ \A t \in Thread : WF_vars(StreamStep(t))

FairSpec == Spec /\ Fairness

-----------------------------------------------------------------------------
(* What holds.                                                             *)

WaitsOn(r, n) == run[r].st = "waiting" /\ run[r].step = n

\* A badge is taken away only when its wait is over: no attention.seen is in
\* the stream for the wait that its run is parked on (_resolve_wait_if_closed
\* on a copy of the run that may be old, _raise_wait for the wait before).
\* The exception: at the first pass of a process the boot repair raises a
\* wait while an older one of its run is still queued; that one, raised
\* behind it, reports the newer one as answered.
SeenMeansClosed ==
    \A w \in stream.seen : ~WaitsOn(w[1], w[2]) \/ w \in history.ahead

\* A run shows one badge at a time: two waits of a run are both raised and
\* not seen only when a crash or an append that raised left the older one
\* behind (_open_waits holds one wait per run).
OneBadge ==
    \A w, x \in stream.raised \ (stream.seen \cup history.orphan) :
        w[1] = x[1] => w = x \/ history.lost

\* The runner holds an older wait of the run open that it has reported as
\* seen: the process died, or an append raised before it died, between
\* attention.seen and the save of open_waits.
StaleOpen(r, n) == open[r] \notin {0, n} /\ <<r, open[r]>> \in stream.seen

\* A run that parks on a person is announced: it leaves the wait, or a wait
\* with its key is raised and not seen, after a crash too (boot repair).
\* Not covered: draft tests, appends that raise, a ledger the repair could
\* not read, StaleOpen, and a wait that the repair raised ahead of an older
\* one (see SeenMeansClosed).
ParkedIsAnnounced ==
    \A r \in Run, n \in 1..MaxWaits :
        WaitsOn(r, n) ~>
            \/ ~WaitsOn(r, n)
            \/ \E m \in 1..n : /\ KeyOf(r, m) = KeyOf(r, n)
                               /\ <<r, m>> \in stream.raised \ stream.seen
            \/ r \in hidden \cup history.unlisted
            \/ history.lost \/ StaleOpen(r, n) \/ <<r, n>> \in history.ahead

\* A badge goes away: a wait that was raised and is over is seen, or another
\* wait of the run with its key carries on.  Not covered: appends that
\* raise, a run that ended without a report or whose wait was raised behind
\* its last report (until the next boot), a wait raised just before a crash.
ClosedIsSeen ==
    \A r \in Run, n \in 1..MaxWaits :
        (<<r, n>> \in stream.raised /\ ~WaitsOn(r, n)) ~>
            \/ <<r, n>> \in stream.seen \cup history.orphan \cup history.late
            \/ \E m \in n..MaxWaits :
                  WaitsOn(r, m) /\ KeyOf(r, m) = KeyOf(r, n)
            \/ history.lost \/ r \in history.unheard

\* Every attention item of an automation reaches the stream, whatever the
\* process dies between: the record, the event, the floor (which
\* record_attention_raised writes behind the event, so that the boot repair
\* finds what lies above it).  Not covered: an item whose append raised, or
\* which the repair did not reach when one raised, and items recorded before
\* the stream's first boot.
ItemArrives ==
    \A i \in Item :
        items >= i ~> \/ i \in stream.items \cup history.unsent
                      \/ i <= history.base

\* Every end of a run is announced, after a crash too unless the window of
\* the repair has passed or the run was deleted.  Not covered, until the
\* next boot: the three ends that report nothing (a workflow that cannot be
\* resolved, a cancel that raises, the reaper), and appends that raise.
EndIsAnnounced ==
    \A r \in Run :
        run[r].st = "ended" ~>
            \/ r \in stream.finished \cup history.unheard \cup aged
            \/ run[r].st = "gone" \/ history.lost
=============================================================================
