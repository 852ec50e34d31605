--------------------------- MODULE PushDispatcher ---------------------------
(***************************************************************************)
(* The push dispatcher of a plane (push/dispatcher.py), its outbox,        *)
(* cursor and device registry (push/store.py) and the routes that change   *)
(* what it reads (routes/push.py, service.push_forwarder_changed).         *)
(*                                                                         *)
(* The dispatcher reads the owner's event stream from its cursor, keeps    *)
(* one outbox row per alert and device and sends the due rows to the       *)
(* relay.  Between passes it waits for a wake (same process) or for a      *)
(* change token to move (split layout: the routes run elsewhere).  A token *)
(* is modelled by whether its file was written since it was captured.  One *)
(* process works on the data directory: a standby would start a dispatcher *)
(* of its own.                                                             *)
(***************************************************************************)
EXTENDS Naturals, Sequences, FiniteSets

CONSTANTS
    Device,     \* device ids of the plane's owner
    Phone,      \* those that are phones; the others are watches
    MaxAlerts,  \* bound: attention.raised events
    MaxChanges, \* bound: changes of the setting and of registrations
    MaxFaults   \* bound: crashes, passes, reads and starts that fail,
                \* answers that get lost

ASSUME PushAssumption ==
    /\ Phone \subseteq Device
    /\ {MaxAlerts, MaxChanges, MaxFaults} \subseteq Nat

VARIABLES
    stream,     \* events: [alert, seen], attention.raised or attention.seen
    setting,    \* an effective forwarder address is set
    devices,    \* devices.json
    pending,    \* second halves of requests: the cursor of a first
                \* registration, the notice of a changed setting
    cursor,     \* cursor.json: {} or {sequence}
    rows,       \* outbox.sqlite3: state of each (alert, device)
    split,      \* the routes run in another process
    cache,      \* _saved_cache: the saved setting as this process read it;
                \* a "bad" file counts as off until it is saved again
    wake,       \* the dispatcher's event
    moved,      \* files written since their token was captured
    d,          \* the dispatcher's thread
    history     \* what the properties refer to, changes and faults so far

vars == <<stream, setting, devices, pending, cursor, rows, split, cache,
          wake, moved, d, history>>

Alert == 1..MaxAlerts
Row == Alert \X Device

\* A queued row is due, waits for its next try, or is due and an hour old.
Queued == {"due", "later", "old"}

Event(a, s) == [alert |-> a, seen |-> s]
Top == Len(stream)
At(a, s) == {p \in 1..Top : stream[p] = Event(a, s)}

Idle(pc, relay) ==
    [pc |-> pc, stage |-> "loop", relay |-> relay, subscribed |-> FALSE,
     devices |-> {}, at |-> 0, to |-> 0, left |-> {}, down |-> FALSE,
     row |-> {}]

NoHistory ==
    [pushes |-> [r \in Row |-> 0],
     jumped |-> {},     \* alerts, and
     passed |-> {},     \* alerts whose answer a baseline jumped over
     quiet |-> {},      \* alerts raised while the address was off
     revived |-> {},    \* those among them that were there when a process
                        \* started with the address set
     deaf |-> FALSE,    \* the last start, or the last read of the address
                        \* that mattered, failed
     changes |-> 0, faults |-> 0]

TypeOK ==
    /\ stream \in Seq([alert : Alert, seen : BOOLEAN])
    /\ {setting, split, wake} \subseteq BOOLEAN
    /\ pending \subseteq {"device", "setting"}
    /\ devices \subseteq Device
    /\ cursor \in {{}} \cup {{n} : n \in 0..Top}
    /\ rows \in [Row -> Queued \cup {"none", "sent", "dropped"}]
    /\ cache \in {"none", "good", "bad"}
    /\ moved \subseteq {"setting", "devices", "stream"}
    /\ d.pc \in {"absent", "dead", "token", "resolve", "devices", "park",
                 "batch", "read", "send", "mark", "gone", "remove", "wait",
                 "idle"}
    /\ d.stage \in {"loop", "tick"}
    /\ {d.relay, d.subscribed, d.down} \subseteq BOOLEAN
    /\ d.devices \subseteq Device
    /\ d.at \in 0..d.to \cup {0} /\ d.to \in 0..Top
    /\ d.left \subseteq Row
    /\ d.row \subseteq Row /\ Cardinality(d.row) <= 1
    /\ history.pushes \in [Row -> Nat]

Init ==
    /\ stream = <<>>
    /\ setting \in BOOLEAN
    /\ devices \in SUBSET Device
    /\ pending = {}
    /\ cursor = (IF devices = {} THEN {} ELSE {0})
    /\ rows = [r \in Row |-> "none"]
    /\ split \in BOOLEAN
    /\ cache = "good"
    /\ wake = FALSE
    /\ moved = {}
    /\ d = Idle(IF setting \/ split THEN "token" ELSE "absent", setting)
    /\ history = NoHistory

Fault == history.faults < MaxFaults

\* The address as this process knows it, and what a read leaves behind.
Address == setting /\ cache # "bad"
Cached == IF cache = "none" THEN "good" ELSE cache

Failed(h) == [h EXCEPT !.deaf = TRUE, !.faults = @ + 1]

\* The cursor is set to the stream's head.  history keeps the alerts, and
\* the answers, that it jumps over.
Jumped(h) ==
    LET from == IF cursor = {} THEN 0 ELSE CHOOSE n \in cursor : TRUE
        over(s) == {a \in Alert : \E p \in At(a, s) : p > from}
    IN  [h EXCEPT !.jumped = @ \cup over(FALSE), !.passed = @ \cup over(TRUE)]

-----------------------------------------------------------------------------
(* What happens around the dispatcher.                                     *)

\* An append (module UserStream) calls the listeners of its own process.
Append1(event) ==
    /\ stream' = Append(stream, event)
    /\ moved' = moved \cup {"stream"}
    /\ \/ wake' = (wake \/ d.subscribed)
       \/ split /\ UNCHANGED wake
    /\ UNCHANGED <<setting, devices, pending, cursor, rows, split, cache, d>>

Raise(a) ==
    /\ At(a, FALSE) = {}
    /\ \A b \in 1..(a - 1) : At(b, FALSE) # {}
    /\ Append1(Event(a, FALSE))
    /\ history' = [history EXCEPT !.quiet = IF setting \/ d.relay THEN @
                                            ELSE @ \cup {a}]

Answer(a) ==
    /\ At(a, FALSE) # {} /\ At(a, TRUE) = {}
    /\ Append1(Event(a, TRUE))
    /\ UNCHANGED history

\* A retry comes due; an hour passes.
RowTime(r, age) ==
    /\ \/ rows[r] = "later" /\ age \in {"due", "old"}
       \/ rows[r] = "due" /\ age = "old"
    /\ rows' = [rows EXCEPT ![r] = age]
    /\ UNCHANGED <<stream, setting, devices, pending, cursor, split, cache,
                   wake, moved, d, history>>

Change ==
    /\ history.changes < MaxChanges
    /\ history' = [history EXCEPT !.changes = @ + 1]

Kick == wake' = (wake \/ (~split /\ d.pc # "absent"))

\* put_my_push_device: the registration, then, for the first one, the
\* cursor, then the kick.
PutDevice(v) ==
    /\ "device" \notin pending /\ Change
    /\ devices' = devices \cup {v}
    /\ moved' = moved \cup {"devices"}
    /\ IF devices = {} THEN /\ pending' = pending \cup {"device"}
                            /\ UNCHANGED wake
                       ELSE Kick /\ UNCHANGED pending
    /\ UNCHANGED <<stream, setting, cursor, rows, split, cache, d>>

PutBaseline ==
    /\ "device" \in pending
    /\ pending' = pending \ {"device"}
    /\ cursor' = {Top}
    /\ history' = Jumped(history)
    /\ Kick
    /\ UNCHANGED <<stream, setting, devices, rows, split, cache, moved, d>>

DeleteDevice(v) ==
    /\ v \in devices /\ Change
    /\ devices' = devices \ {v}
    /\ moved' = moved \cup {"devices"}
    /\ Kick
    /\ UNCHANGED <<stream, setting, pending, cursor, rows, split, cache, d>>

\* The settings route saves; push_forwarder_changed starts a dispatcher that
\* does not exist yet, or wakes it.
PutSetting(on) ==
    /\ "setting" \notin pending /\ Change
    /\ setting' = on
    /\ cache' = "none"
    /\ moved' = moved \cup {"setting"}
    /\ pending' = pending \cup {"setting"}
    /\ UNCHANGED <<stream, devices, cursor, rows, split, wake, d>>

ForwarderChanged ==
    /\ "setting" \in pending
    /\ pending' = pending \ {"setting"}
    /\ cache' = IF split THEN cache ELSE Cached
    /\ IF d.pc = "absent" /\ Address /\ ~split
       THEN /\ cursor' = {Top}
            /\ d' = Idle("token", TRUE)
            /\ history' = [Jumped(history) EXCEPT !.deaf = FALSE]
            /\ wake' = TRUE
       ELSE Kick /\ UNCHANGED <<cursor, d, history>>
    /\ UNCHANGED <<stream, setting, devices, rows, split, moved>>

\* The saved file cannot be read, or the start raises: before there is a
\* dispatcher, or for its thread, which nothing starts again.
ForwarderFails ==
    /\ "setting" \in pending /\ setting /\ ~split /\ Fault
    /\ pending' = pending \ {"setting"}
    /\ \/ /\ cache = "none" /\ cache' = "bad"
          /\ Kick
          /\ history' = Failed(history)
          /\ UNCHANGED <<cursor, d>>
       \/ /\ d.pc = "absent" /\ Address /\ cache' = Cached
          /\ history' = Failed(history)
          /\ UNCHANGED <<cursor, d, wake>>
       \/ /\ d.pc = "absent" /\ Address /\ cache' = Cached
          /\ cursor' = {Top}
          /\ d' = Idle("dead", FALSE)
          /\ history' = Failed(Jumped(history))
          /\ wake' = TRUE
    /\ UNCHANGED <<stream, setting, devices, rows, split, moved>>

\* The process dies and starts again, with what it reads of the setting and
\* what becomes of _start_push_dispatcher, which takes no baseline here.
Restart(on, pc) ==
    /\ Fault
    /\ on => setting
    /\ d' = IF on \/ split THEN Idle(pc, on /\ pc = "token")
            ELSE Idle("absent", FALSE)
    /\ cache' = IF on = setting THEN "good" ELSE "bad"
    /\ wake' = FALSE
    /\ pending' = IF split THEN pending ELSE {}
    /\ history' = [history EXCEPT
                     !.faults = @ + 1,
                     !.revived = IF d'.relay THEN @ \cup history.quiet ELSE @,
                     !.deaf = \/ on # setting
                              \/ (on \/ split) /\ pc # "token"]
    /\ UNCHANGED <<stream, setting, devices, cursor, rows, split, moved>>

-----------------------------------------------------------------------------
(* The dispatcher: _loop reads the setting and the registrations and       *)
(* parks, or makes a pass (tick), which reads them again.                  *)

Goto(pc) == d' = [d EXCEPT !.pc = pc]

SettingsToken ==
    /\ d.pc = "token"
    /\ moved' = moved \ {"setting"}
    /\ Goto("resolve")
    /\ UNCHANGED <<stream, setting, devices, pending, cursor, rows, split,
                   cache, wake, history>>

\* Behind refresh_relay: the token of the registrations, which _park takes
\* afresh when there is no address.
Resolved(on) ==
    /\ moved' = moved \ {"devices"}
    /\ d' = [d EXCEPT !.pc = IF on \/ d.stage = "tick" THEN "devices"
                             ELSE "park",
                      !.relay = on,
                      !.subscribed = @ /\ (on \/ d.stage = "tick")]

\* Mutant: turning the address on takes no baseline.
TurnOnNoBaselineMutant ==
    /\ d.pc = "resolve"
    /\ cache' = Cached
    /\ history' = [history EXCEPT !.deaf = setting /\ ~Address]
    /\ Resolved(Address)
    /\ UNCHANGED <<stream, setting, devices, pending, cursor, rows, split,
                   wake>>

RefreshRelay ==
    /\ d.pc = "resolve"
    /\ cache' = Cached
    /\ LET turnedOn == Address /\ ~d.relay
           before == IF turnedOn THEN Jumped(history) ELSE history
       IN  /\ cursor' = IF turnedOn THEN {Top} ELSE cursor
           /\ history' = [before EXCEPT !.deaf = setting /\ ~Address]
    /\ Resolved(Address)
    /\ UNCHANGED <<stream, setting, devices, pending, rows, split, wake>>

\* A file that cannot be read counts as off; what raises beyond that leaves
\* the address in use.
RefreshFails ==
    /\ d.pc = "resolve" /\ Fault
    /\ \/ cache = "none" /\ cache' = "bad" /\ Resolved(FALSE)
       \/ UNCHANGED cache /\ Resolved(d.relay)
    /\ history' = [history EXCEPT !.deaf = setting /\ ~d'.relay,
                                  !.faults = @ + 1]
    /\ UNCHANGED <<stream, setting, devices, pending, cursor, rows, split,
                   wake>>

\* _devices in _loop: park, or subscribe and capture the stream's token.
LoopDevices ==
    /\ d.pc = "devices" /\ d.stage = "loop"
    /\ IF devices = {}
       THEN /\ d' = [d EXCEPT !.pc = "park", !.subscribed = FALSE]
            /\ UNCHANGED moved
       ELSE /\ d' = [d EXCEPT !.pc = "token", !.stage = "tick",
                              !.subscribed = TRUE]
            /\ moved' = moved \ {"stream"}
    /\ UNCHANGED <<stream, setting, devices, pending, cursor, rows, split,
                   cache, wake, history>>

\* _devices in tick, and the cursor the pass starts from.
TickDevices ==
    /\ d.pc = "devices" /\ d.stage = "tick"
    /\ IF devices = {} \/ ~d.relay
       THEN Goto("idle") /\ UNCHANGED <<cursor, history>>
       ELSE IF cursor = {}
       THEN /\ cursor' = {Top}
            /\ history' = Jumped(history)
            /\ d' = [d EXCEPT !.pc = "batch", !.devices = devices, !.at = Top,
                              !.to = Top]
       ELSE /\ d' = [d EXCEPT !.pc = "batch", !.devices = devices,
                              !.at = CHOOSE n \in cursor : TRUE,
                              !.to = Top]
            /\ UNCHANGED <<cursor, history>>
    /\ UNCHANGED <<stream, setting, devices, pending, rows, split, cache,
                   wake, moved>>

\* alert_targets: phones first.
Targets == IF d.devices \cap Phone # {} THEN d.devices \cap Phone
           ELSE d.devices

Enqueue(a) ==
    [r \in Row |-> IF r[1] = a /\ r[2] \in Targets /\ rows[r] = "none"
                   THEN "due" ELSE rows[r]]

\* Mutant: a row that waits for its next try is left alone.
DropDueMutant(a) ==
    [r \in Row |-> IF r[1] = a /\ rows[r] \in {"due", "old"} THEN "dropped"
                   ELSE rows[r]]

DropSeen(a) ==
    [r \in Row |-> IF r[1] = a /\ rows[r] \in Queued THEN "dropped"
                   ELSE rows[r]]

\* Mutant: the cursor is saved when the batch is read.
CursorFirstMutant ==
    /\ d.pc = "batch"
    /\ d' = [d EXCEPT !.pc = "read", !.to = Top]
    /\ cursor' = {Top}
    /\ UNCHANGED <<stream, setting, devices, pending, rows, split, cache,
                   wake, moved, history>>

\* The events there are now (a full batch is followed by another one).
ReadBatch ==
    /\ d.pc = "batch"
    /\ d' = [d EXCEPT !.pc = "read", !.to = Top]
    /\ UNCHANGED <<stream, setting, devices, pending, cursor, rows, split,
                   cache, wake, moved, history>>

ReadEvent ==
    /\ d.pc = "read" /\ d.at < d.to
    /\ LET event == stream[d.at + 1]
       IN  rows' = IF event.seen THEN DropSeen(event.alert)
                   ELSE Enqueue(event.alert)
    /\ d' = [d EXCEPT !.at = @ + 1]
    /\ UNCHANGED <<stream, setting, devices, pending, cursor, split, cache,
                   wake, moved, history>>

\* The cursor is written once the batch is in the outbox; then the due rows
\* are listed.
WriteCursor ==
    /\ d.pc = "read" /\ d.at = d.to
    /\ cursor' = {d.at}
    /\ d' = [d EXCEPT !.pc = "send", !.down = FALSE,
                      !.left = {r \in Row : rows[r] \in {"due", "old"}}]
    /\ UNCHANGED <<stream, setting, devices, pending, rows, split, cache,
                   wake, moved, history>>

\* _record appends notification.sent or notification.failed.
Recorded(files) ==
    /\ moved' = moved \cup files \cup {"stream"}
    /\ wake' = (wake \/ d.subscribed)

Next1(r, pc) ==
    d' = [d EXCEPT !.pc = pc, !.left = @ \ {r}, !.row = {r}]

SendUnregistered(r) ==
    /\ d.pc = "send" /\ r \in d.left /\ r[2] \notin d.devices
    /\ rows' = [rows EXCEPT ![r] = "dropped"]
    /\ Next1(r, "send")
    /\ UNCHANGED <<stream, setting, devices, pending, cursor, split, cache,
                   wake, moved, history>>

\* The relay takes the alert; the row is not marked yet.
SendTaken(r) ==
    /\ d.pc = "send" /\ r \in d.left /\ r[2] \in d.devices /\ ~d.down
    /\ history' = [history EXCEPT !.pushes[r] = @ + 1]
    /\ Next1(r, "mark")
    /\ UNCHANGED <<stream, setting, devices, pending, cursor, rows, split,
                   cache, wake, moved>>

\* Mutant: a row whose device was removed meanwhile keeps its state.
MarkRegisteredMutant ==
    /\ d.pc = "mark"
    /\ rows' = [r \in Row |-> IF r \in d.row /\ r[2] \in devices THEN "sent"
                              ELSE rows[r]]
    /\ Recorded({"devices"})
    /\ Goto("send")
    /\ UNCHANGED <<stream, setting, devices, pending, cursor, split, cache,
                   history>>

Mark ==
    /\ d.pc = "mark"
    /\ rows' = [r \in Row |-> IF r \in d.row THEN "sent" ELSE rows[r]]
    /\ Recorded({"devices"})
    /\ Goto("send")
    /\ UNCHANGED <<stream, setting, devices, pending, cursor, split, cache,
                   history>>

\* The relay refuses the alert, or says that the token is gone.
SendRefused(r, gone) ==
    /\ d.pc = "send" /\ r \in d.left /\ r[2] \in d.devices /\ ~d.down
    /\ Fault
    /\ history' = [history EXCEPT !.faults = @ + 1]
    /\ rows' = [rows EXCEPT ![r] = "dropped"]
    /\ Recorded(IF gone THEN {} ELSE {"devices"})
    /\ Next1(r, IF gone THEN "gone" ELSE "send")
    /\ UNCHANGED <<stream, setting, devices, pending, cursor, split, cache>>

\* remove_if_gone compares with the last refresh, then removes.
Gone(refreshed) ==
    /\ d.pc = "gone"
    /\ Goto(IF refreshed THEN "send" ELSE "remove")
    /\ UNCHANGED <<stream, setting, devices, pending, cursor, rows, split,
                   cache, wake, moved, history>>

RemoveGone ==
    /\ d.pc = "remove"
    /\ devices' = {v \in devices : \A r \in d.row : r[2] # v}
    /\ moved' = moved \cup {"devices"}
    /\ Goto("send")
    /\ UNCHANGED <<stream, setting, pending, cursor, rows, split, cache,
                   wake, history>>

\* The relay does not answer, or already failed to in this pass; taken says
\* that it took the alert all the same.
SendRetry(r, taken) ==
    /\ d.pc = "send" /\ r \in d.left /\ r[2] \in d.devices
    /\ IF d.down THEN ~taken /\ UNCHANGED history
       ELSE /\ Fault
            /\ history' = [history EXCEPT !.faults = @ + 1,
                             !.pushes[r] = IF taken THEN @ + 1 ELSE @]
    /\ rows' = [rows EXCEPT ![r] = IF @ = "old" THEN "dropped" ELSE "later"]
    /\ IF rows[r] = "old" THEN Recorded({})
       ELSE /\ moved' \in {moved, moved \cup {"devices"}}
            /\ UNCHANGED wake
    /\ d' = [d EXCEPT !.left = @ \ {r}, !.down = TRUE]
    /\ UNCHANGED <<stream, setting, devices, pending, cursor, split, cache>>

\* Mutant: the tokens are taken when the wait starts.
LateTokenMutant ==
    /\ d.pc = "send" /\ d.left = {}
    /\ d' = [Idle("wait", d.relay) EXCEPT !.subscribed = d.subscribed,
                                          !.at = d.at, !.to = d.to]
    /\ moved' = {}
    /\ UNCHANGED <<stream, setting, devices, pending, cursor, rows, split,
                   cache, wake, history>>

PassDone ==
    /\ d.pc = "send" /\ d.left = {}
    /\ d' = [Idle("wait", d.relay) EXCEPT !.subscribed = d.subscribed,
                                          !.at = d.at, !.to = d.to]
    /\ UNCHANGED <<stream, setting, devices, pending, cursor, rows, split,
                   cache, wake, moved, history>>

Again == d' = [Idle("token", d.relay) EXCEPT !.subscribed = d.subscribed,
                                             !.at = d.at, !.to = d.to]

\* Something in the pass raises; the loop goes on after a while.
PassFails ==
    /\ Fault
    /\ d.pc \in {"batch", "read", "send", "mark"}
    /\ history' = [history EXCEPT !.faults = @ + 1]
    /\ Again
    /\ UNCHANGED <<stream, setting, devices, pending, cursor, rows, split,
                   cache, wake, moved>>

\* _park: without a timeout in the serve process, against the tokens in a
\* split runner.
Unpark ==
    /\ d.pc = "park"
    /\ \/ wake
       \/ split /\ moved \cap {"devices", "setting"} # {}
    /\ wake' = FALSE
    /\ Again
    /\ UNCHANGED <<stream, setting, devices, pending, cursor, rows, split,
                   cache, moved, history>>

\* _wait_active: a wake, a row that is due, or a token that moved.
WaitEnds ==
    /\ d.pc \in {"wait", "idle"}
    /\ \/ wake
       \/ moved # {}
       \/ d.pc = "wait" /\ \E r \in Row : rows[r] \in {"due", "old"}
    /\ wake' = FALSE
    /\ Again
    /\ UNCHANGED <<stream, setting, devices, pending, cursor, rows, split,
                   cache, moved, history>>

DispatcherStep ==
    \/ SettingsToken \/ RefreshRelay \/ LoopDevices \/ TickDevices
    \/ ReadBatch \/ ReadEvent \/ WriteCursor \/ Mark \/ RemoveGone \/ PassDone
    \/ Unpark \/ WaitEnds
    \/ \E b \in BOOLEAN : Gone(b)
    \/ \E r \in d.left : \/ SendUnregistered(r) \/ SendTaken(r)
                         \/ \E b \in BOOLEAN : SendRefused(r, b)
                                               \/ SendRetry(r, b)

RequestEnds == PutBaseline \/ ForwarderChanged

Next ==
    \/ DispatcherStep
    \/ PassFails \/ RefreshFails \/ ForwarderFails
    \/ \E a \in Alert : Raise(a) \/ Answer(a)
    \/ \E r \in Row, age \in {"due", "old"} : RowTime(r, age)
    \/ \E v \in Device : PutDevice(v) \/ DeleteDevice(v)
    \/ RequestEnds
    \/ \E on \in BOOLEAN : PutSetting(on)
    \/ \E on \in BOOLEAN, pc \in {"token", "absent", "dead"} : Restart(on, pc)

Spec == Init /\ [][Next]_vars

\* The thread runs, the clock moves and a request that began ends.
FairSpec ==
    /\ Spec
    /\ WF_vars(DispatcherStep)
    /\ WF_vars(RequestEnds)
    /\ \A r \in Row : WF_vars(\E age \in {"due", "old"} : RowTime(r, age))

-----------------------------------------------------------------------------
(* Properties.                                                             *)

\* The saved cursor never passes an alert that is not in the outbox: the
\* rows are committed first, so a crash between the two reads it again.
\* Only a baseline (a first registration, the address turned on) passes one.
CursorBehindRows ==
    \A a \in Alert :
        (\E n \in cursor : \E p \in At(a, FALSE) : p <= n)
            => a \in history.jumped \/ \E r \in Row : r[1] = a /\ rows[r] # "none"

\* No alert leaves once a pass has read its answer, whatever pass queued the
\* row and however often it was retried, unless a baseline passed the answer.
AnsweredNotPushed ==
    [][\A r \in Row : history'.pushes[r] > history.pushes[r]
         => r[1] \in history.passed \/ \A p \in At(r[1], TRUE) : p > d.at]_vars

\* The device is alerted twice only where a failure came between the relay
\* and the mark: replays of the cursor and passes that run again add nothing.
PushedOnce ==
    \A r \in Row : history.pushes[r] <= 1 + history.faults

\* What was raised while the address was off, and known to be off, is not
\* pushed when it is turned on (refresh_relay, turned_on), except after a
\* process has started with the address set and the alert still unread:
\* a start takes no baseline, and saving the address may have been cut short
\* by the end of the process.
QuietStaysQuiet ==
    \A r \in Row :
        r[1] \in history.quiet \ history.revived => history.pushes[r] = 0

\* The alert was seen, passed by a baseline, or its rows are done.
Settled(a) ==
    \/ At(a, TRUE) # {} \/ a \in history.jumped
    \/ /\ \E r \in Row : r[1] = a /\ rows[r] # "none"
       /\ \A r \in Row : r[1] = a => rows[r] \notin Queued

\* While an address is set and a device registered, an alert is pushed or
\* given up: no append, registration or setting change made while the thread
\* reads or goes to wait is slept through, in either layout.  Not covered: a
\* process that could not read the address or start the dispatcher, until it
\* reads it again or restarts.
AlertArrives ==
    \A a \in Alert :
        (At(a, FALSE) # {} /\ setting /\ devices # {})
            ~> (Settled(a) \/ ~setting \/ devices = {} \/ history.deaf)
=============================================================================
