----------------------------- MODULE AgoraBridge ----------------------------
(***************************************************************************)
(* The bridge from an agora hub to the mailbox of a resident run           *)
(* (integrations/agora_bridge.py), on top of the runner's durable events   *)
(* (module EventMailbox).                                                  *)
(*                                                                         *)
(* The hub numbers the messages of each channel and serves all of them at  *)
(* every poll.  The bridge emits what lies past its cursor, in order; it   *)
(* saves the cursors after the batch.  At start it makes sure that a       *)
(* resident run exists.                                                    *)
(***************************************************************************)
EXTENDS EventMailbox

CONSTANTS
    Channel,      \* channels of the hub
    MaxSeq        \* bound: messages per channel

Message == Channel \X (1..MaxSeq)

ASSUME BridgeAssumption ==
    /\ MaxSeq \in Nat
    /\ Event = Message
    /\ Emitter = {"bridge"}

VARIABLES
    posted,     \* the hub: messages posted per channel
    saved,      \* the state file: cursor per channel
    cursors,    \* cursors in memory
    phase,      \* where the resident's thread is
    top,        \* the batch: newest message served per channel
    at,         \* the batch: position per channel
    failed,     \* the batch: channels with a failed delivery
    fresh,      \* the batch: something was delivered
    unseen,     \* the look before this start missed a live resident
    extra       \* history: residents started after such a look

looks == <<unseen, extra>>
bridgeVars == <<posted, saved, cursors, phase, top, at, failed, fresh, looks>>
vars == <<mailboxVars, bridgeVars>>

Cursor == [Channel -> 0..MaxSeq]

TypeOK ==
    /\ MailboxTypeOK
    /\ {posted, saved, cursors, top, at} \subseteq Cursor
    /\ phase \in {"down", "ensure", "seed", "poll", "batch", "deliver"}
    /\ failed \subseteq Channel
    /\ fresh \in BOOLEAN
    /\ unseen \in BOOLEAN
    /\ extra \subseteq Run

Zero == [c \in Channel |-> 0]

Init ==
    /\ MailboxInit
    /\ posted = Zero /\ saved = Zero /\ cursors = Zero
    /\ top = Zero /\ at = Zero
    /\ phase = "down"
    /\ failed = {} /\ fresh = FALSE
    /\ unseen = FALSE /\ extra = {}

-----------------------------------------------------------------------------
(* The hub (external).                                                     *)

\* Only a poll looks at the hub, so that messages are posted between polls.
Post(c) ==
    /\ phase = "poll" /\ posted[c] < MaxSeq
    /\ posted' = [posted EXCEPT ![c] = @ + 1]
    /\ UNCHANGED <<mailboxVars, saved, cursors, phase, top, at, failed, fresh,
                   looks>>

-----------------------------------------------------------------------------
(* Start.                                                                  *)

\* AgoraBridge.__init__ reads the state file; an unreadable one resets every
\* cursor.
LoadState ==
    /\ phase = "down"
    /\ \/ cursors' = saved /\ UNCHANGED faults
       \/ cursors' = Zero /\ Fault
    /\ phase' = "ensure"
    /\ UNCHANGED <<store, tick, emit, raced, stranded, posted, saved, top, at,
                   failed, fresh, looks>>

\* ensure_resident_runs: a live run that declares the mailbox is kept,
\* otherwise one is started, out of the loop's sight.  The look covers the
\* newest 1000 runs, and a store that raises counts as "absent".
EnsureResident ==
    /\ phase = "ensure"
    /\ \/ /\ Receivers # {}
          /\ phase' = "poll"
          /\ UNCHANGED <<store, faults, unseen>>
       \/ /\ \/ Receivers = {} /\ UNCHANGED faults
             \/ Receivers # {} /\ Fault
          /\ \/ \E r \in Run :
                  /\ store[r].status = "absent"
                  /\ store' = [store EXCEPT ![r].status = "running"]
                  /\ phase' = "seed"
                  /\ unseen' = (Receivers # {})
             \* no run started: the host refused, or the bound is reached
             \/ phase' = "poll" /\ UNCHANGED <<store, unseen>>
    /\ UNCHANGED <<tick, emit, raced, stranded, posted, saved, cursors, top, at,
                   failed, fresh, extra>>

SeedUndeclaredMutant ==
    /\ phase = "seed"
    /\ \E r \in Run : /\ store[r].status = "running" /\ ~store[r].visible
                      /\ store' = [store EXCEPT ![r].visible = TRUE]
                      /\ extra' = IF unseen THEN extra \cup {r} ELSE extra
    /\ phase' = "poll"
    /\ unseen' = FALSE
    /\ UNCHANGED <<tick, emit, raced, stranded, faults, posted, saved, cursors,
                   top, at, failed, fresh>>

\* One save declares the mailbox and shows the run to the loop; when it
\* fails the run stays as it is, and the bridge goes on.
SeedResident ==
    /\ phase = "seed"
    /\ \/ /\ \E r \in Run :
               /\ store[r].status = "running" /\ ~store[r].visible
               /\ store' = [store EXCEPT ![r].visible = TRUE,
                                         ![r].declared = TRUE]
               /\ extra' = IF unseen THEN extra \cup {r} ELSE extra
          /\ UNCHANGED faults
       \/ Fault /\ UNCHANGED <<store, extra>>
    /\ phase' = "poll"
    /\ unseen' = FALSE
    /\ UNCHANGED <<tick, emit, raced, stranded, posted, saved, cursors, top,
                   at, failed, fresh>>

-----------------------------------------------------------------------------
(* The resident's loop.                                                    *)

StaleLatchMutant ==
    /\ phase = "poll"
    /\ top' = posted
    /\ phase' = "batch"
    /\ UNCHANGED <<mailboxVars, posted, saved, cursors, at, failed, fresh, looks>>

\* A poll serves every message again, whatever was delivered before.
Poll ==
    /\ phase = "poll"
    /\ top' = posted /\ failed' = {}
    /\ phase' = "batch"
    /\ UNCHANGED <<mailboxVars, posted, saved, cursors, at, fresh, looks>>

NoLatchMutant(c) == {s \in (at[c] + 1)..top[c] : s > cursors[c]}

\* Messages of the batch still to deliver on channel c.  The loop takes them
\* as the hub serves them; that it serves a channel in the order of its
\* numbers is assumed of the hub (the bridge does not sort).
Unsent(c) == IF c \in failed THEN {}
             ELSE {s \in (at[c] + 1)..top[c] : s > cursors[c]}

\* _deliver: one message becomes one durable event with a stable id.
Deliver(c) ==
    /\ phase = "batch"
    /\ \E s \in Unsent(c) :
         /\ \A u \in Unsent(c) : s <= u
         /\ EmitResume("bridge", <<c, s>>)
         /\ at' = [at EXCEPT ![c] = s]
    /\ phase' = "deliver"
    /\ UNCHANGED <<posted, saved, cursors, top, failed, fresh, looks>>

Settle(c, ok) ==
    /\ emit' = [emit EXCEPT !["bridge"] = NoEmit]
    /\ phase' = "batch"
    /\ IF ok THEN /\ cursors' = [cursors EXCEPT ![c] = at[c]]
                  /\ fresh' = TRUE
                  /\ UNCHANGED failed
       ELSE failed' = failed \cup {c} /\ UNCHANGED <<cursors, fresh>>
    /\ UNCHANGED <<store, tick, raced, stranded, posted, saved, top, at, looks>>

BlindCursorMutant ==
    /\ phase = "deliver" /\ EmitDone("bridge")
    /\ \E c \in Channel : /\ emit["bridge"].event = {<<c, at[c]>>}
                          /\ Settle(c, TRUE)
    /\ UNCHANGED faults

\* The cursor passes a message that somebody received; with no receiver at
\* all the channel waits for the next poll.
Delivery ==
    /\ phase = "deliver" /\ EmitDone("bridge")
    /\ \E c \in Channel : /\ emit["bridge"].event = {<<c, at[c]>>}
                          /\ Settle(c, Delivered("bridge"))
    /\ UNCHANGED faults

\* The emit raises half-way (the store refuses a load or a save).
DeliveryRaises ==
    /\ phase = "deliver" /\ emit["bridge"].pc \in {"append", "save"}
    /\ Fault
    /\ \E c \in Channel : /\ emit["bridge"].event = {<<c, at[c]>>}
                          /\ Settle(c, FALSE)

\* The batch ends; _save_state swallows a failing write.
EndBatch ==
    /\ phase = "batch"
    /\ \A c \in Channel : Unsent(c) = {}
    /\ phase' = "poll"
    /\ \/ saved' = (IF fresh THEN cursors ELSE saved) /\ UNCHANGED faults
       \/ fresh /\ Fault /\ UNCHANGED saved
    /\ top' = Zero /\ at' = Zero /\ fresh' = FALSE
    /\ UNCHANGED <<store, tick, emit, raced, stranded, posted, cursors,
                   failed, looks>>

\* The process is gone: the store and the state file are what is left.
Down ==
    /\ Fault
    /\ phase' = "down"
    /\ emit' = [e \in Emitter |-> NoEmit]
    /\ tick' = [r \in Run |-> NoRun]
    /\ cursors' = Zero /\ top' = Zero /\ at' = Zero
    /\ failed' = {} /\ fresh' = FALSE /\ unseen' = FALSE
    /\ UNCHANGED <<store, raced, stranded, posted, extra>>

Crash == phase # "down" /\ Down /\ UNCHANGED saved

\* A graceful stop: the thread leaves between two messages and saves what it
\* has; ticks that outlast the drain are interrupted.
Stop ==
    /\ phase \in {"poll", "batch"}
    /\ Down
    /\ saved' = IF phase = "batch" /\ fresh THEN cursors ELSE saved

-----------------------------------------------------------------------------
RunnerStep ==
    /\ phase # "down"
    /\ \/ \E e \in Emitter : EmitStep(e)
       \/ \E r \in Run : \/ TickLoad(r)
                         \/ \E end \in {"waiting", "ended"} : TickSave(r, end)
                         \/ PauseRun(r)
                         \/ UnpauseRun(r)
    /\ UNCHANGED bridgeVars

BridgeStep ==
    \/ LoadState \/ EnsureResident \/ SeedResident \/ Poll \/ Delivery
    \/ EndBatch
    \/ \E c \in Channel : Deliver(c)

Next ==
    \/ RunnerStep \/ BridgeStep
    \/ DeliveryRaises \/ Stop \/ Crash
    \/ \E c \in Channel : Post(c)

Spec == Init /\ [][Next]_vars

\* The threads keep running; a tick is given to every run that can be ticked
\* (module ScanGate).
FairSpec ==
    /\ Spec
    /\ WF_vars(BridgeStep)
    /\ \A e \in Emitter :
         WF_vars(phase # "down" /\ EmitStep(e) /\ UNCHANGED bridgeVars)
    /\ \A r \in Run :
         WF_vars(/\ phase # "down"
                 /\ \/ TickLoad(r)
                    \/ \E end \in {"waiting", "ended"} : TickSave(r, end)
                 /\ UNCHANGED bridgeVars)

-----------------------------------------------------------------------------
(* Properties.                                                             *)

\* A run has message m in its mailbox's history, or was resumed with it.
Received(m) ==
    \E r \in Run : \/ m \in store[r].woken
                   \/ \E i \in 1..Len(store[r].log) : store[r].log[i] = m

\* The cursor never passes a message that no run received, over failed
\* deliveries, missing residents, restarts and lost state files: as long as
\* no save overwrote another one, each message up to the cursor reached a run
\* (agora_bridge.py:412, the held cursor; :444, the latch).
CursorBehindReceipt ==
    raced \/ \A c \in Channel : \A s \in 1..MaxSeq :
                 s <= saved[c] \/ s <= cursors[c] => Received(<<c, s>>)

\* Ordered delivery per channel or nothing: a message never reaches a run
\* before each older one of its channel has reached one, although deliveries
\* fail half-way, residents end and the bridge sends again whatever lies past
\* the saved cursor; what comes late is a repeat (agora_bridge.py:432 and
\* :444; a save that overwrites another one is the exception the runner
\* names, runner.py:2777).
ChannelOrderKept ==
    raced \/ \A c \in Channel : \A s \in 1..MaxSeq :
                 Received(<<c, s>>) => \A u \in 1..(s - 1) : Received(<<c, u>>)

\* Restarts never double-start: one live run at most has the mailbox, even
\* when the process dies inside the start (agora_bridge.py:341, the seeding
\* save; :310, the scan for a live run).  The exceptions: a save that
\* overwrites the end of a run brings it back, and a look that missed the
\* resident (:281, beyond the newest 1000 runs; :296, the store raised) adds
\* the one run it starts.
OneResident == raced \/ Cardinality(Receivers \ extra) <= 1

\* A message of the hub arrives in some mailbox, unless no run has one: a
\* failed delivery, a restart or a lost save of the cursors delays it only
\* (agora_bridge.py:450, the next poll retries from the failed message).
MessageArrives ==
    \A c \in Channel, s \in 1..MaxSeq :
        posted[c] >= s ~> Received(<<c, s>>) \/ raced \/ Receivers = {}

\* An entry reaches its reader: a running run that is not paused drains it,
\* and a parked run is resumed by the next event.  The exception is an entry
\* appended to a run that parked after the same emit looked for listeners,
\* was paused or refused: it waits for the next event (runner.py:2739, 2781).
EntryIsDrained ==
    \A r \in Run, n \in 1..MaxSeq :
        (store[r].visible /\ store[r].seq >= n)
            ~> (store[r].read >= n \/ store[r].status = "ended" \/ raced
                \/ store[r].paused \/ <<r, n>> \in stranded)
=============================================================================
