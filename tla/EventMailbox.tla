---------------------------- MODULE EventMailbox ----------------------------
(***************************************************************************)
(* Durable events (runner.py: emit_event, _apply_emit_event,               *)
(* _deliver_durable_event).                                                *)
(*                                                                         *)
(* An emitter first resumes the runs parked on the event, then appends the *)
(* event to the mailbox of every live run that declares it.  The append    *)
(* loads the run, extends its inbox and saves the whole run; a tick of the *)
(* same run works on a copy of its own and saves that.  Emitters are the   *)
(* runner's loop (commands) and the threads of the bridges.                *)
(***************************************************************************)
EXTENDS Naturals, Sequences, FiniteSets

CONSTANTS
    Run,        \* runs that listen to the mailbox
    Event,      \* event ids
    Emitter,    \* threads that emit
    Cap,        \* _EVENTS_INBOX_CAP
    MaxFaults   \* bound: crashes, failures and pauses that happen

ASSUME MailboxAssumption == Cap \in Nat \ {0} /\ MaxFaults \in Nat

VARIABLES
    store,      \* the saved runs
    tick,       \* the copy each run's tick works on
    emit,       \* each emitter's progress
    raced,      \* history: a save overwrote a change it had not loaded
    stranded,   \* history: entries appended to a run that was parked,
                \* with no event since that resumed it
    faults      \* disturbances so far

mailboxVars == <<store, tick, emit, raced, stranded, faults>>

NoRun == [status |-> "absent", visible |-> FALSE, declared |-> FALSE,
          paused |-> FALSE, inbox |-> <<>>, seq |-> 0, dropped |-> 0,
          read |-> 0, log |-> <<>>, woken |-> {}]

NoEmit == [pc |-> "idle", event |-> {}, left |-> {}, run |-> {},
           copy |-> NoRun, resumed |-> FALSE,
           appended |-> FALSE]

Entry == [event : Event, seq : Nat]

\* A run as the store keeps it.  log and woken are history: the events that
\* were ever appended to this copy of the run, and those that resumed it.
RunRecord ==
    [status : {"absent", "running", "waiting", "ended"},
     visible : BOOLEAN,          \* actor_id is "gateway": the loop ticks it
     declared : BOOLEAN,         \* vars.events_mailbox names the event
     paused : BOOLEAN,
     inbox : Seq(Entry),         \* vars.events_inbox
     seq : Nat,                  \* vars.events_inbox_seq
     dropped : Nat,              \* vars.events_inbox_dropped
     read : Nat,                 \* the reader's cursor over seq
     log : Seq(Event),
     woken : SUBSET Event]

EmitRecord ==
    [pc : {"idle", "list", "append", "save"},
     event : {{}} \cup {{e} : e \in Event},
     left : SUBSET Run,          \* candidates not looked at yet
     run : {{}} \cup {{r} : r \in Run},
     copy : RunRecord,           \* the run as loaded for the append
     resumed : BOOLEAN,          \* the counts, as far as callers use them
     appended : BOOLEAN]

MailboxTypeOK ==
    /\ store \in [Run -> RunRecord]
    /\ tick \in [Run -> RunRecord]
    /\ emit \in [Emitter -> EmitRecord]
    /\ raced \in BOOLEAN
    /\ stranded \subseteq (Run \X Nat)
    /\ faults \in Nat

MailboxInit ==
    /\ store = [r \in Run |-> NoRun]
    /\ tick = [r \in Run |-> NoRun]
    /\ emit = [e \in Emitter |-> NoEmit]
    /\ raced = FALSE
    /\ stranded = {}
    /\ faults = 0

Fault == faults < MaxFaults /\ faults' = faults + 1

Live(run) == run.status \in {"running", "waiting"}

Receivers == {r \in Run : Live(store[r]) /\ store[r].declared}

Holds(run, ev) == \E i \in 1..Len(run.inbox) : run.inbox[i].event = ev

\* RunStore.save writes the whole run: what another writer saved since the
\* copy was loaded is gone.
SaveRun(r, loaded, run) ==
    /\ store' = [store EXCEPT ![r] = run]
    /\ raced' = (raced \/ store[r] # loaded)

-----------------------------------------------------------------------------
(* Ticks (external): the listener declares its mailbox, drains the inbox   *)
(* past its cursor and parks on the event again, or ends (counted with the *)
(* disturbances).                                                          *)

TickLoad(r) ==
    /\ store[r].status = "running" /\ store[r].visible /\ ~store[r].paused
    /\ tick[r].status = "absent"
    /\ tick' = [tick EXCEPT ![r] = store[r]]
    /\ UNCHANGED <<store, emit, raced, stranded, faults>>

TickSave(r, end) ==
    /\ tick[r].status # "absent"
    /\ SaveRun(r, tick[r], [tick[r] EXCEPT !.read = tick[r].seq,
                                           !.declared = TRUE,
                                           !.status = end])
    /\ tick' = [tick EXCEPT ![r] = NoRun]
    /\ IF end = "ended" THEN Fault ELSE UNCHANGED faults
    /\ UNCHANGED <<emit, stranded>>

\* pause and resume commands of the operator.
PauseRun(r) ==
    /\ Fault
    /\ Live(store[r]) /\ ~store[r].paused
    /\ store' = [store EXCEPT ![r].paused = TRUE]
    /\ UNCHANGED <<tick, emit, raced, stranded>>

UnpauseRun(r) ==
    /\ store[r].paused
    /\ store' = [store EXCEPT ![r].paused = FALSE]
    /\ UNCHANGED <<tick, emit, raced, stranded, faults>>

-----------------------------------------------------------------------------
(* An emit.                                                                *)

\* Parked on the event, and not paused.
Parked == {r \in Run : store[r].status = "waiting" /\ ~store[r].paused}

NoWakeMutant(e, ev) ==
    /\ emit[e].pc = "idle"
    /\ emit' = [emit EXCEPT ![e] = [NoEmit EXCEPT !.pc = "list", !.event = {ev}]]
    /\ stranded' = {p \in stranded : p[1] \notin Parked}
    /\ UNCHANGED <<store, tick, raced, faults>>

\* Parked listeners are resumed; one that cannot be resolved or refuses is
\* skipped and stops nobody behind it.
EmitResume(e, ev) ==
    /\ emit[e].pc = "idle"
    /\ \E woken \in SUBSET Parked :
         /\ IF woken = Parked THEN UNCHANGED faults ELSE Fault
         /\ store' = [r \in Run |->
              IF r \in woken THEN [store[r] EXCEPT !.status = "running",
                                                  !.woken = @ \cup {ev}]
              ELSE store[r]]
         /\ emit' = [emit EXCEPT ![e] = [NoEmit EXCEPT !.pc = "list",
                                                       !.event = {ev},
                                                       !.resumed = woken # {}]]
         /\ stranded' = {p \in stranded : p[1] \notin woken}
    /\ UNCHANGED <<tick, raced>>

\* list_mailbox_runs: every live run that declares the mailbox.
EmitList(e) ==
    /\ emit[e].pc = "list"
    /\ emit' = [emit EXCEPT ![e].pc = "append", ![e].left = Receivers]
    /\ UNCHANGED <<store, tick, raced, stranded, faults>>

NoDedupMutant(e) ==
    /\ emit[e].pc = "append"
    /\ \E r \in emit[e].left :
         emit' = [emit EXCEPT ![e].left = @ \ {r}, ![e].pc = "save",
                              ![e].run = {r}, ![e].copy = store[r]]
    /\ UNCHANGED <<store, tick, raced, stranded, faults>>

\* The fresh copy of one candidate.  An event that its inbox still holds is
\* not appended again, and counts as received.
AppendLoad(e) ==
    /\ emit[e].pc = "append"
    /\ \E r \in emit[e].left, ev \in emit[e].event :
         emit' = IF Holds(store[r], ev)
                 THEN [emit EXCEPT ![e].left = @ \ {r}, ![e].appended = TRUE]
                 ELSE [emit EXCEPT ![e].left = @ \ {r}, ![e].pc = "save",
                                   ![e].run = {r}, ![e].copy = store[r]]
    /\ UNCHANGED <<store, tick, raced, stranded, faults>>

LateTrimMutant(run, ev) ==
    [run EXCEPT !.inbox = Append(SubSeq(@, IF Len(@) > Cap THEN 2 ELSE 1, Len(@)),
                                 [event |-> ev, seq |-> run.seq + 1]),
                !.seq = run.seq + 1,
                !.dropped = run.dropped + (IF Len(run.inbox) > Cap THEN 1 ELSE 0),
                !.log = Append(run.log, ev)]

\* The inbox keeps the Cap newest entries and counts the others.
Appended(run, ev) ==
    LET inbox == Append(run.inbox, [event |-> ev, seq |-> run.seq + 1])
        over  == IF Len(inbox) > Cap THEN Len(inbox) - Cap ELSE 0
    IN [run EXCEPT !.inbox = SubSeq(inbox, over + 1, Len(inbox)),
                   !.seq = run.seq + 1,
                   !.dropped = run.dropped + over,
                   !.log = Append(run.log, ev)]

AppendSave(e) ==
    /\ emit[e].pc = "save"
    /\ \E r \in emit[e].run, ev \in emit[e].event :
         LET run == Appended(emit[e].copy, ev) IN
         /\ SaveRun(r, emit[e].copy, run)
         /\ stranded' = IF run.status = "waiting"
                        THEN stranded \cup {<<r, run.seq>>}
                        ELSE stranded
    /\ emit' = [emit EXCEPT ![e].pc = "append", ![e].run = {},
                            ![e].copy = NoRun, ![e].appended = TRUE]
    /\ UNCHANGED <<tick, faults>>

\* The emit is over, and tells its caller whether anybody received the event.
EmitDone(e) == emit[e].pc = "append" /\ emit[e].left = {}

Delivered(e) == emit[e].resumed \/ emit[e].appended

EmitStep(e) == EmitList(e) \/ AppendLoad(e) \/ AppendSave(e)

-----------------------------------------------------------------------------
\* A durable event that arrives again is appended again only when Cap later
\* events have pushed it out of the inbox: whatever is re-sent, replayed or
\* overwritten, two entries of one event are more than Cap apart
\* (runner.py:2854, the bounded scan for event_id).
RepeatsAreFarApart ==
    \A r \in Run : \A i, j \in 1..Len(store[r].log) :
        i < j /\ store[r].log[i] = store[r].log[j] => j - i > Cap

\* What the reader of a mailbox relies on: its inbox is exactly the newest
\* part of what was appended, numbered without a gap up to events_inbox_seq,
\* and everything missing is counted (runner.py:2860-2878).
InboxIsTheTail ==
    \A r \in Run : LET run == store[r] IN
        /\ run.seq = Len(run.log)
        /\ run.dropped + Len(run.inbox) = run.seq
        /\ Len(run.inbox) <= Cap
        /\ \A i \in 1..Len(run.inbox) :
             run.inbox[i] = [event |-> run.log[run.dropped + i],
                             seq |-> run.dropped + i]
=============================================================================
