------------------------ MODULE PushDispatcherProofs ------------------------
(***************************************************************************)
(* What PushDispatcher keeps for any number of alerts, devices, changes    *)
(* and faults: an alert the cursor has passed is in the outbox, a device   *)
(* is alerted once per failure at most beyond the first time, nothing      *)
(* raised while the address was off leaves when it is turned on, and       *)
(* nothing leaves whose answer was read.                                   *)
(***************************************************************************)
EXTENDS PushDispatcher, FiniteSetTheorems, TLAPS

RowState == Queued \cup {"none", "sent", "dropped"}

Pc == {"absent", "dead", "token", "resolve", "devices", "park", "batch",
       "read", "send", "mark", "gone", "remove", "wait", "idle"}

DState ==
    [pc : Pc, stage : {"loop", "tick"}, relay : BOOLEAN, subscribed : BOOLEAN,
     devices : SUBSET Device, at : Nat, to : Nat, left : SUBSET Row,
     down : BOOLEAN, row : SUBSET Row]

History ==
    [pushes : [Row -> Nat], jumped : SUBSET Alert, passed : SUBSET Alert,
     quiet : SUBSET Alert, revived : SUBSET Alert, deaf : BOOLEAN,
     changes : Nat, faults : Nat]

\* TypeOK without the flags and tokens, which no safety property reads, and
\* with the types of whole records.
CoreType ==
    /\ stream \in Seq([alert : Alert, seen : BOOLEAN])
    /\ devices \subseteq Device
    /\ cursor \subseteq 0..Top
    /\ \A m, n \in cursor : m = n
    /\ rows \in [Row -> RowState]
    /\ d \in DState
    /\ d.at <= d.to /\ d.to <= Top
    /\ \A q, r \in d.row : q = r
    /\ history \in History

\* The flags and tokens.
FlagType ==
    /\ setting \in BOOLEAN /\ split \in BOOLEAN /\ wake \in BOOLEAN
    /\ cache \in {"none", "good", "bad"}
    /\ pending \subseteq {"device", "setting"}
    /\ moved \subseteq {"setting", "devices", "stream"}

USE PushAssumption

LEMMA SeqElement ==
    ASSUME NEW S, NEW q \in Seq(S), NEW i \in 1..Len(q) PROVE q[i] \in S
OBVIOUS

LEMMA RowPair == \A r \in Row : r[1] \in Alert /\ r[2] \in Device
BY DEF Row

\* The cursor's value, as CHOOSE finds it.
LEMMA CursorValue ==
    ASSUME CoreType, cursor # {}
    PROVE  /\ (CHOOSE n \in cursor : TRUE) \in cursor
           /\ cursor = {CHOOSE n \in cursor : TRUE}
           /\ (CHOOSE n \in cursor : TRUE) \in 0..Top
BY DEF CoreType

\* What a baseline does to the history.
LEMMA JumpEffect ==
    ASSUME CoreType
    PROVE  LET h == Jumped(history) IN
           /\ h \in History
           /\ h.pushes = history.pushes /\ h.quiet = history.quiet
           /\ h.revived = history.revived
           /\ h.changes = history.changes /\ h.faults = history.faults
           /\ history.jumped \subseteq h.jumped
           /\ history.passed \subseteq h.passed
           /\ \A a \in Alert : \A p \in At(a, FALSE) :
                a \in h.jumped \/ \E n \in cursor : p <= n
           /\ \A a \in Alert : \A p \in At(a, TRUE) :
                a \in h.passed \/ \E n \in cursor : p <= n
<1> DEFINE from == IF cursor = {} THEN 0 ELSE CHOOSE n \in cursor : TRUE
           over(s) == {a \in Alert : \E p \in At(a, s) : p > from}
<1>1. Jumped(history) =
        [history EXCEPT !.jumped = @ \cup over(FALSE),
                        !.passed = @ \cup over(TRUE)]
  BY DEF Jumped
<1>2. \A s \in BOOLEAN, a \in Alert : \A p \in At(a, s) :
        a \in over(s) \/ \E n \in cursor : p <= n
  <2> SUFFICES ASSUME NEW s \in BOOLEAN, NEW a \in Alert, NEW p \in At(a, s),
                      a \notin over(s)
               PROVE  \E n \in cursor : p <= n
    OBVIOUS
  <2>1. p \in 1..Top /\ ~(p > from)
    BY DEF At
  <2>2. Top \in Nat
    BY DEF Top, CoreType
  <2>3. cursor # {}
    BY <2>1, <2>2
  <2> QED
    BY <2>1, <2>2, <2>3, CursorValue
<1>3. over(FALSE) \subseteq Alert /\ over(TRUE) \subseteq Alert
  OBVIOUS
<1> HIDE DEF over
<1> QED
  BY <1>1, <1>2, <1>3 DEF CoreType, History

\* Where the events of an alert are once one more event is appended.
LEMMA AtAppend ==
    ASSUME CoreType, NEW e \in [alert : Alert, seen : BOOLEAN],
           stream' = Append(stream, e)
    PROVE  /\ Top \in Nat /\ Top' = Top + 1
           /\ \A a : \A s \in BOOLEAN :
                /\ e = Event(a, s) => At(a, s)' = At(a, s) \cup {Top + 1}
                /\ e # Event(a, s) => At(a, s)' = At(a, s)
<1>1. Top \in Nat /\ Top' = Top + 1
  BY DEF CoreType, Top
<1>2. \A p \in 1..Top : stream'[p] = stream[p]
  BY DEF CoreType, Top
<1>3. stream'[Top + 1] = e
  BY DEF CoreType, Top
<1>4. ASSUME NEW a, NEW s \in BOOLEAN
      PROVE  /\ e = Event(a, s) => At(a, s)' = At(a, s) \cup {Top + 1}
             /\ e # Event(a, s) => At(a, s)' = At(a, s)
  <2>1. At(a, s)' = {p \in 1..(Top + 1) : stream'[p] = Event(a, s)}
    BY <1>1 DEF At, Event
  <2>2. 1..(Top + 1) = (1..Top) \cup {Top + 1}
    BY <1>1
  <2> QED
    BY <1>1, <1>2, <1>3, <2>1, <2>2 DEF At
<1> QED
  BY <1>1, <1>4

-----------------------------------------------------------------------------
LEMMA CoreTypeInit == Init => CoreType
<1> SUFFICES ASSUME Init PROVE CoreType
  OBVIOUS
<1>1. Len(stream) = 0 /\ stream \in Seq([alert : Alert, seen : BOOLEAN])
  BY DEF Init
<1>2. cursor \in {{}, {0}}
  BY DEF Init
<1>3. rows \in [Row -> RowState] /\ devices \subseteq Device
  BY DEF Init, RowState
<1>4. d \in DState /\ d.at = 0 /\ d.to = 0 /\ d.row = {}
  BY DEF Init, DState, Idle, Pc
<1>5. history \in History
  BY DEF Init, NoHistory, History
<1> QED
  BY <1>1, <1>2, <1>3, <1>4, <1>5 DEF CoreType, Top

\* The dispatcher's record keeps its type.
LEMMA DStateStep ==
    ASSUME CoreType, setting \in BOOLEAN, Next PROVE d' \in DState
<1>1. /\ d \in DState /\ Len(stream) \in Nat /\ devices \subseteq Device
      /\ rows \in [Row -> RowState]
  BY DEF CoreType
<1> USE <1>1 DEF DState, Pc
<1>2. CASE \/ SettingsToken \/ Mark \/ RemoveGone \/ \E b \in BOOLEAN : Gone(b)
  BY <1>2 DEF SettingsToken, Mark, RemoveGone, Gone, Goto
<1>3. ASSUME NEW on \in BOOLEAN, Resolved(on) PROVE d' \in DState
  <2> DEFINE s == d.subscribed /\ (on \/ d.stage = "tick")
  <2>1. d' = [d EXCEPT !.pc = IF on \/ d.stage = "tick" THEN "devices"
                              ELSE "park",
                       !.relay = on, !.subscribed = s]
    BY <1>3 DEF Resolved
  <2>2. s \in BOOLEAN
    OBVIOUS
  <2> HIDE DEF s
  <2> QED
    BY <2>1, <2>2
<1>4. CASE LoopDevices
  <2>1. \/ d' = [d EXCEPT !.pc = "park", !.subscribed = FALSE]
        \/ d' = [d EXCEPT !.pc = "token", !.stage = "tick", !.subscribed = TRUE]
    BY <1>4 DEF LoopDevices
  <2> QED
    BY <2>1
<1>5. CASE TickDevices
  <2>1. CASE cursor = {} \/ devices = {} \/ ~d.relay
    <3>1. \/ d' = [d EXCEPT !.pc = "idle"]
          \/ d' = [d EXCEPT !.pc = "batch", !.devices = devices,
                            !.at = Len(stream), !.to = Len(stream)]
      BY <1>5, <2>1 DEF TickDevices, Goto, Top
    <3> QED
      BY <3>1
  <2>2. CASE cursor # {} /\ devices # {} /\ d.relay
    <3> DEFINE c == CHOOSE n \in cursor : TRUE
    <3>1. c \in Nat
      BY <2>2, CursorValue DEF Top
    <3>2. d' = [d EXCEPT !.pc = "batch", !.devices = devices, !.at = c,
                         !.to = Len(stream)]
      BY <1>5, <2>2 DEF TickDevices, Top
    <3> HIDE DEF c
    <3> QED
      BY <3>1, <3>2
  <2> QED
    BY <2>1, <2>2
<1>6. CASE ReadBatch
  BY <1>6 DEF ReadBatch, Top
<1>7. CASE ReadEvent
  BY <1>7 DEF ReadEvent
<1>8. CASE WriteCursor
  BY <1>8 DEF WriteCursor
<1>9. CASE PassDone \/ PassFails \/ Unpark \/ WaitEnds
  BY <1>9 DEF PassDone, PassFails, Unpark, WaitEnds, Again, Idle
<1>10. ASSUME NEW r \in d.left, NEW b \in BOOLEAN,
              \/ SendUnregistered(r) \/ SendTaken(r) \/ SendRefused(r, b)
       PROVE  d' \in DState
  <2>1. PICK pc \in {"send", "mark", "gone"} :
          d' = [d EXCEPT !.pc = pc, !.left = d.left \ {r}, !.row = {r}]
    BY <1>10 DEF SendUnregistered, SendTaken, SendRefused, Next1
  <2> QED
    BY <2>1
<1>11. ASSUME NEW r \in d.left, NEW b \in BOOLEAN, SendRetry(r, b)
       PROVE  d' \in DState
  <2>1. d' = [d EXCEPT !.left = d.left \ {r}, !.down = TRUE]
    BY <1>11 DEF SendRetry
  <2> QED
    BY <2>1
<1>12. CASE ForwarderChanged \/ ForwarderFails
  <2>1. d' = d \/ d' = Idle("token", TRUE) \/ d' = Idle("dead", FALSE)
    BY <1>12 DEF ForwarderChanged, ForwarderFails
  <2>2. Idle("token", TRUE) \in DState /\ Idle("dead", FALSE) \in DState
    BY DEF Idle
  <2> QED
    BY <1>1, <2>1, <2>2
<1>13. ASSUME NEW on \in BOOLEAN, NEW pc \in {"token", "absent", "dead"},
              Restart(on, pc)
       PROVE  d' \in DState
  <2> DEFINE x == on /\ pc = "token"
  <2>1. d' = Idle(pc, x) \/ d' = Idle("absent", FALSE)
    BY <1>13 DEF Restart
  <2>2. x \in BOOLEAN
    OBVIOUS
  <2> HIDE DEF x
  <2>3. \A y \in BOOLEAN : Idle(pc, y) \in DState /\ Idle("absent", y) \in DState
    BY DEF Idle
  <2> HIDE DEF DState, Pc
  <2> QED
    BY <2>1, <2>2, <2>3
<1>14. CASE \/ PutBaseline
            \/ \E a \in Alert : Raise(a) \/ Answer(a)
            \/ \E r \in Row, age \in {"due", "old"} : RowTime(r, age)
            \/ \E v \in Device : PutDevice(v) \/ DeleteDevice(v)
            \/ \E on \in BOOLEAN : PutSetting(on)
  BY <1>14 DEF PutBaseline, Raise, Answer, Append1, RowTime, PutDevice,
               DeleteDevice, PutSetting
<1>15. CASE RefreshRelay \/ RefreshFails
  <2>1. Address \in BOOLEAN /\ d.relay \in BOOLEAN
    BY DEF Address
  <2>2. Resolved(Address) \/ Resolved(FALSE) \/ Resolved(d.relay)
    BY <1>15 DEF RefreshRelay, RefreshFails
  <2> QED
    BY <1>3, <2>1, <2>2, Zenon
<1> QED
  BY <1>2, <1>4, <1>5, <1>6, <1>7, <1>8, <1>9, <1>10, <1>11, <1>12,
     <1>13, <1>14, <1>15 DEF Next, DispatcherStep, RequestEnds

\* So does the history.
LEMMA HistoryStep ==
    ASSUME CoreType, setting \in BOOLEAN, Next PROVE history' \in History
<1>1. history \in History /\ d \in DState
  BY DEF CoreType
<1>2. Jumped(history) \in History
  BY JumpEffect
<1>3. CASE history' \in {history, Jumped(history)}
  BY <1>1, <1>2, <1>3
<1>4. CASE \E n \in Nat : history' = [history EXCEPT !.faults = n]
  BY <1>1, <1>4 DEF History
<1>5. CASE \E n \in Nat : history' = [history EXCEPT !.changes = n]
  BY <1>1, <1>5 DEF History
<1>6. ASSUME NEW on \in BOOLEAN, NEW pc \in {"token", "absent", "dead"},
             Restart(on, pc)
      PROVE  history' \in History
  <2> DEFINE v == IF d'.relay THEN history.revived \cup history.quiet
                  ELSE history.revived
             x == on # setting \/ ((on \/ split) /\ pc # "token")
  <2>1. history' = [history EXCEPT !.faults = history.faults + 1,
                      !.revived = v, !.deaf = x]
    BY <1>6 DEF Restart
  <2>2. history.faults + 1 \in Nat /\ v \subseteq Alert
    BY <1>1 DEF History
  <2>3. x \in BOOLEAN
    OBVIOUS
  <2> HIDE DEF v, x
  <2> QED
    BY <1>1, <2>1, <2>2, <2>3 DEF History
<1>7. ASSUME NEW r \in d.left, SendTaken(r) PROVE history' \in History
  BY <1>1, <1>7 DEF SendTaken, History, DState
<1>8. ASSUME NEW r \in d.left, NEW b \in BOOLEAN, SendRetry(r, b)
      PROVE  history' \in History
  <2>1. r \in Row
    BY <1>1 DEF DState
  <2>2. history.pushes[r] \in Nat
    BY <1>1, <2>1 DEF History
  <2> DEFINE n == IF b THEN history.pushes[r] + 1 ELSE history.pushes[r]
  <2>3. history.faults + 1 \in Nat /\ n \in Nat
    BY <1>1, <2>2 DEF History
  <2>4. \/ history' = history
        \/ history' = [history EXCEPT !.faults = history.faults + 1,
                         !.pushes = [history.pushes EXCEPT ![r] = n]]
    BY <1>8 DEF SendRetry
  <2>5. [history.pushes EXCEPT ![r] = n] \in [Row -> Nat]
    BY <1>1, <2>1, <2>3 DEF History
  <2> QED
    BY <1>1, <2>3, <2>4, <2>5 DEF History
<1>9. ASSUME NEW a \in Alert, Raise(a) PROVE history' \in History
  BY <1>1, <1>9 DEF Raise, History
<1>10. history.faults + 1 \in Nat /\ history.changes + 1 \in Nat
  BY <1>1 DEF History
<1>11. CASE \/ SettingsToken \/ LoopDevices \/ TickDevices
            \/ ReadBatch \/ ReadEvent \/ WriteCursor \/ Mark \/ RemoveGone
            \/ PassDone \/ Unpark \/ WaitEnds \/ \E b \in BOOLEAN : Gone(b)
            \/ \E r \in d.left : SendUnregistered(r)
            \/ PutBaseline
            \/ \E a \in Alert : Answer(a)
            \/ \E r \in Row, age \in {"due", "old"} : RowTime(r, age)
  BY <1>3, <1>11 DEF SettingsToken, LoopDevices, TickDevices,
       ReadBatch, ReadEvent, WriteCursor, Mark, RemoveGone, PassDone, Unpark,
       WaitEnds, Gone, SendUnregistered, PutBaseline, Answer, RowTime
<1>12. CASE PassFails \/ \E r \in d.left, b \in BOOLEAN : SendRefused(r, b)
  BY <1>4, <1>10, <1>12 DEF PassFails, SendRefused
<1>13. CASE \/ \E v \in Device : PutDevice(v) \/ DeleteDevice(v)
            \/ \E on \in BOOLEAN : PutSetting(on)
  BY <1>5, <1>10, <1>13 DEF PutDevice, DeleteDevice, PutSetting, Change
<1>14. ASSUME NEW h \in History, NEW x \in BOOLEAN, NEW n \in Nat,
              history' = [h EXCEPT !.deaf = x, !.faults = n]
       PROVE  history' \in History
  BY <1>14 DEF History
<1>15. CASE ForwarderChanged
  <2>1. \/ history' = history
        \/ history' = [Jumped(history) EXCEPT !.deaf = FALSE]
    BY <1>15 DEF ForwarderChanged
  <2> HIDE DEF Jumped
  <2> QED
    BY <1>1, <1>2, <2>1 DEF History
<1>16. CASE ForwarderFails
  <2>1. Jumped(history).faults = history.faults
    BY JumpEffect
  <2>2. \E h \in {history, Jumped(history)} :
          history' = [h EXCEPT !.deaf = TRUE, !.faults = h.faults + 1]
    BY <1>16 DEF ForwarderFails, Failed
  <2> QED
    BY <1>1, <1>2, <1>10, <1>14, <2>1, <2>2
<1>17. CASE RefreshRelay
  <2> DEFINE h == IF Address /\ ~d.relay THEN Jumped(history) ELSE history
             x == setting /\ ~Address
  <2>1. history' = [h EXCEPT !.deaf = x]
    BY <1>17 DEF RefreshRelay
  <2>2. h \in History
    BY <1>1, <1>2
  <2>3. x \in BOOLEAN
    BY DEF Address
  <2> HIDE DEF h, x
  <2> QED
    BY <2>1, <2>2, <2>3 DEF History
<1>18. CASE RefreshFails
  <2> DEFINE x == setting /\ ~d'.relay
  <2>1. history' = [history EXCEPT !.deaf = x, !.faults = history.faults + 1]
    BY <1>18 DEF RefreshFails
  <2>2. x \in BOOLEAN
    OBVIOUS
  <2> HIDE DEF x
  <2> QED
    BY <1>1, <1>10, <1>14, <2>1, <2>2
<1> QED
  BY <1>6, <1>7, <1>8, <1>9, <1>11, <1>12, <1>13, <1>15, <1>16, <1>17, <1>18
  DEF Next, DispatcherStep, RequestEnds

\* The outbox and the registrations keep theirs.
LEMMA OutboxStep ==
    ASSUME CoreType, Next
    PROVE  rows' \in [Row -> RowState] /\ devices' \subseteq Device
<1>1. /\ rows \in [Row -> RowState] /\ devices \subseteq Device
      /\ d.left \subseteq Row
  BY DEF CoreType, DState
<1> USE <1>1 DEF RowState, Queued
<1>2. CASE ReadEvent
  BY <1>2 DEF ReadEvent, DropSeen, Enqueue
<1>3. CASE Mark
  BY <1>3 DEF Mark
<1>4. ASSUME NEW r \in d.left, NEW b \in BOOLEAN,
             SendUnregistered(r) \/ SendTaken(r) \/ SendRefused(r, b)
      PROVE  rows' \in [Row -> RowState] /\ devices' = devices
  BY <1>4 DEF SendUnregistered, SendTaken, SendRefused
<1>5. ASSUME NEW r \in d.left, NEW b \in BOOLEAN, SendRetry(r, b)
      PROVE  rows' \in [Row -> RowState] /\ devices' = devices
  BY <1>5 DEF SendRetry
<1>6. ASSUME NEW r \in Row, NEW age \in {"due", "old"}, RowTime(r, age)
      PROVE  rows' \in [Row -> RowState] /\ devices' = devices
  BY <1>6 DEF RowTime
<1>7. CASE RemoveGone \/ \E v \in Device : PutDevice(v) \/ DeleteDevice(v)
  BY <1>7 DEF RemoveGone, PutDevice, DeleteDevice
<1>8. CASE \/ SettingsToken \/ RefreshRelay \/ LoopDevices \/ TickDevices
           \/ ReadBatch \/ WriteCursor \/ PassDone \/ Unpark \/ WaitEnds
           \/ \E b \in BOOLEAN : Gone(b)
           \/ PassFails \/ RefreshFails \/ ForwarderFails \/ RequestEnds
           \/ \E a \in Alert : Raise(a) \/ Answer(a)
           \/ \E on \in BOOLEAN : PutSetting(on)
           \/ \E on \in BOOLEAN, pc \in {"token", "absent", "dead"} :
                 Restart(on, pc)
  BY <1>8 DEF SettingsToken, RefreshRelay, LoopDevices, TickDevices, ReadBatch,
       WriteCursor, PassDone, Unpark, WaitEnds, Gone, PassFails, RequestEnds,
       RefreshFails, ForwarderFails, PutBaseline, ForwarderChanged, Restart, Raise, Answer, Append1,
       PutSetting
<1> QED
  BY <1>2, <1>3, <1>4, <1>5, <1>6, <1>7, <1>8 DEF Next, DispatcherStep

\* The stream, and the positions in it, stay in range.
Positions ==
    /\ stream \in Seq([alert : Alert, seen : BOOLEAN])
    /\ cursor \subseteq 0..Top
    /\ \A m, n \in cursor : m = n
    /\ d.at <= d.to /\ d.to <= Top
    /\ \A q, r \in d.row : q = r

LEMMA PositionsStep ==
    ASSUME CoreType, Next PROVE Positions'
<1>1. /\ Positions /\ d \in DState
      /\ d.at \in Nat /\ d.to \in Nat /\ Len(stream) \in Nat
  BY DEF CoreType, Positions, DState
<1> USE <1>1 DEF Positions, Top
<1>2. CASE \/ SettingsToken \/ LoopDevices \/ Mark \/ RemoveGone
           \/ \E b \in BOOLEAN : Gone(b)
           \/ \E r \in d.left, b \in BOOLEAN :
                 \/ SendUnregistered(r) \/ SendTaken(r) \/ SendRefused(r, b)
                 \/ SendRetry(r, b)
  <2>1. /\ stream' = stream /\ cursor' = cursor
        /\ d'.at = d.at /\ d'.to = d.to
        /\ d'.row = d.row \/ \E r : d'.row = {r}
    <3>1. CASE SettingsToken \/ Mark \/ RemoveGone \/ \E b \in BOOLEAN : Gone(b)
      BY <3>1 DEF SettingsToken, Mark, RemoveGone, Gone, Goto, DState
    <3>2. CASE LoopDevices
      BY <3>2 DEF LoopDevices, DState
    <3>3. ASSUME NEW r \in d.left, NEW b \in BOOLEAN,
                 SendUnregistered(r) \/ SendTaken(r) \/ SendRefused(r, b)
          PROVE  /\ stream' = stream /\ cursor' = cursor
                 /\ d'.at = d.at /\ d'.to = d.to /\ d'.row = {r}
      BY <3>3 DEF SendUnregistered, SendTaken, SendRefused, Next1, DState
    <3>4. ASSUME NEW r \in d.left, NEW b \in BOOLEAN, SendRetry(r, b)
          PROVE  /\ stream' = stream /\ cursor' = cursor
                 /\ d'.at = d.at /\ d'.to = d.to /\ d'.row = d.row
      BY <3>4 DEF SendRetry, DState
    <3> QED
      BY <1>2, <3>1, <3>2, <3>3, <3>4
  <2> QED
    BY <2>1
<1>3. CASE \/ PassDone \/ PassFails \/ Unpark \/ WaitEnds
           \/ \E on \in BOOLEAN, pc \in {"token", "absent", "dead"} :
                 Restart(on, pc)
  <2>1. /\ stream' = stream /\ cursor' = cursor /\ d'.row = {}
        /\ \/ d'.at = d.at /\ d'.to = d.to
           \/ d'.at = 0 /\ d'.to = 0
    <3>1. CASE PassDone
      BY <3>1 DEF PassDone, Idle
    <3>2. CASE PassFails \/ Unpark \/ WaitEnds
      BY <3>2 DEF PassFails, Unpark, WaitEnds, Again, Idle
    <3>3. CASE \E on \in BOOLEAN, pc \in {"token", "absent", "dead"} :
                 Restart(on, pc)
      BY <3>3 DEF Restart, Idle
    <3> QED
      BY <1>3, <3>1, <3>2, <3>3
  <2> QED
    BY <2>1
<1>4. CASE \/ PutBaseline \/ ForwarderChanged \/ RefreshRelay
           \/ RefreshFails \/ ForwarderFails
  <2>1. /\ stream' = stream /\ cursor' \in {cursor, {Len(stream)}}
        /\ \/ d'.at = d.at /\ d'.to = d.to /\ d'.row = d.row
           \/ d'.at = 0 /\ d'.to = 0 /\ d'.row = {}
    <3>1. CASE PutBaseline \/ RefreshRelay \/ RefreshFails
      BY <3>1 DEF PutBaseline, RefreshRelay, RefreshFails, Resolved, DState, Top
    <3>2. CASE ForwarderChanged \/ ForwarderFails
      BY <3>2 DEF ForwarderChanged, ForwarderFails, Idle, Top
    <3> QED
      BY <1>4, <3>1, <3>2
  <2>2. /\ d'.at <= d'.to /\ d'.to <= Len(stream')
        /\ \A q, r \in d'.row : q = r
    BY <2>1
  <2>3. cursor' \subseteq 0..Len(stream') /\ \A m, n \in cursor' : m = n
    BY <2>1
  <2> QED
    BY <2>1, <2>2, <2>3
<1>5. CASE TickDevices
  <2>1. CASE cursor # {}
    <3> DEFINE c == CHOOSE n \in cursor : TRUE
    <3>1. c \in 0..Len(stream)
      BY <2>1, CursorValue
    <3>2. /\ stream' = stream /\ cursor' = cursor /\ d'.row = d.row
          /\ \/ d'.at = d.at /\ d'.to = d.to
             \/ d'.at = c /\ d'.to = Len(stream)
      BY <1>5, <2>1 DEF TickDevices, Goto, DState
    <3> HIDE DEF c
    <3> QED
      BY <3>1, <3>2
  <2>2. CASE cursor = {}
    <3>1. /\ stream' = stream /\ cursor' \in {cursor, {Len(stream)}}
          /\ d'.row = d.row
          /\ \/ d'.at = d.at /\ d'.to = d.to
             \/ d'.at = Len(stream) /\ d'.to = Len(stream)
      BY <1>5, <2>2 DEF TickDevices, Goto, DState
    <3> QED
      BY <3>1
  <2> QED
    BY <2>1, <2>2
<1>6. CASE ReadBatch \/ ReadEvent \/ WriteCursor
  <2>1. /\ stream' = stream /\ cursor' \in {cursor, {d.at}} /\ d'.row = d.row
        /\ \/ d'.at = d.at /\ d'.to \in {d.to, Len(stream)}
           \/ d.at < d.to /\ d'.at = d.at + 1 /\ d'.to = d.to
    BY <1>6 DEF ReadBatch, ReadEvent, WriteCursor, DState
  <2> QED
    BY <2>1
<1>7. ASSUME NEW a \in Alert, Raise(a) \/ Answer(a) PROVE Positions'
  <2>1. /\ \E s \in BOOLEAN : stream' = Append(stream, Event(a, s))
        /\ cursor' = cursor /\ d' = d
    BY <1>7 DEF Raise, Answer, Append1
  <2>2. /\ stream' \in Seq([alert : Alert, seen : BOOLEAN])
        /\ Len(stream') = Len(stream) + 1
    BY <2>1 DEF Event
  <2> QED
    BY <2>1, <2>2
<1>8. CASE \/ \E r \in Row, age \in {"due", "old"} : RowTime(r, age)
           \/ \E v \in Device : PutDevice(v) \/ DeleteDevice(v)
           \/ \E on \in BOOLEAN : PutSetting(on)
  BY <1>8 DEF RowTime, PutDevice, DeleteDevice, PutSetting
<1> QED
  BY <1>2, <1>3, <1>4, <1>5, <1>6, <1>7, <1>8
  DEF Next, DispatcherStep, RequestEnds

LEMMA FlagTypeStep ==
    ASSUME FlagType, Next PROVE FlagType'
<1>1. setting' \in BOOLEAN /\ split' \in BOOLEAN
  BY DEF FlagType, Next, DispatcherStep, RequestEnds, SettingsToken,
       RefreshRelay, LoopDevices, TickDevices, ReadBatch, ReadEvent,
       WriteCursor, Mark, RemoveGone, PassDone, Unpark, WaitEnds, Gone,
       SendUnregistered, SendTaken, SendRefused, SendRetry, PassFails, Raise,
       Answer, Append1, RowTime, PutDevice, DeleteDevice, PutBaseline,
       ForwarderChanged, PutSetting, Restart, RefreshFails, ForwarderFails
<1>2. wake' \in BOOLEAN
  BY DEF FlagType, Next, DispatcherStep, RequestEnds, SettingsToken,
       RefreshRelay, LoopDevices, TickDevices, ReadBatch, ReadEvent,
       WriteCursor, Mark, RemoveGone, PassDone, Unpark, WaitEnds, Gone,
       SendUnregistered, SendTaken, SendRefused, SendRetry, PassFails, Raise,
       Answer, Append1, RowTime, PutDevice, DeleteDevice, PutBaseline,
       ForwarderChanged, PutSetting, Restart, RefreshFails, ForwarderFails,
       Kick, Recorded
<1>3. /\ pending' \subseteq {"device", "setting"}
      /\ moved' \subseteq {"setting", "devices", "stream"}
  BY DEF FlagType, Next, DispatcherStep, RequestEnds, SettingsToken,
       RefreshRelay, LoopDevices, TickDevices, ReadBatch, ReadEvent,
       WriteCursor, Mark, RemoveGone, PassDone, Unpark, WaitEnds, Gone,
       SendUnregistered, SendTaken, SendRefused, SendRetry, PassFails, Raise,
       Answer, Append1, RowTime, PutDevice, DeleteDevice, PutBaseline,
       ForwarderChanged, PutSetting, Restart, RefreshFails, ForwarderFails,
       Resolved, Recorded
<1>4. cache' \in {"none", "good", "bad"}
  BY DEF FlagType, Next, DispatcherStep, RequestEnds, SettingsToken,
       RefreshRelay, LoopDevices, TickDevices, ReadBatch, ReadEvent,
       WriteCursor, Mark, RemoveGone, PassDone, Unpark, WaitEnds, Gone,
       SendUnregistered, SendTaken, SendRefused, SendRetry, PassFails, Raise,
       Answer, Append1, RowTime, PutDevice, DeleteDevice, PutBaseline,
       ForwarderChanged, PutSetting, Restart, RefreshFails, ForwarderFails,
       Cached
<1> QED
  BY <1>1, <1>2, <1>3, <1>4 DEF FlagType

PushType == CoreType /\ FlagType

LEMMA PushTypeStep == PushType /\ [Next]_vars => PushType'
<1>1. CASE PushType /\ Next
  <2>1. CoreType /\ FlagType /\ setting \in BOOLEAN
    BY <1>1 DEF PushType, FlagType
  <2>2. Positions' /\ d' \in DState /\ history' \in History
        /\ rows' \in [Row -> RowState] /\ devices' \subseteq Device
    BY <1>1, <2>1, PositionsStep, DStateStep, HistoryStep, OutboxStep
  <2> QED
    BY <1>1, <2>1, <2>2, FlagTypeStep DEF PushType, CoreType, Positions
<1>2. CASE PushType /\ UNCHANGED vars
  BY <1>2 DEF PushType, CoreType, FlagType, vars, Top
<1> QED
  BY <1>1, <1>2

LEMMA PushTypeInit == Init => PushType
BY CoreTypeInit DEF Init, PushType, FlagType

(***************************************************************************)
(* Every variable keeps its type: the cursor and the positions of a pass   *)
(* stay inside the stream, and a pass marks one row at a time.             *)
(***************************************************************************)
THEOREM PushTypeCorrect == Spec => []TypeOK
<1>1. PushType => TypeOK
  <2> SUFFICES ASSUME PushType PROVE TypeOK
    OBVIOUS
  <2>1. d.row = {} \/ \E r : d.row = {r}
    BY DEF PushType, CoreType
  <2>2. Cardinality(d.row) <= 1
    <3>1. Cardinality({}) = 0
      BY FS_EmptySet
    <3>2. \A r : Cardinality({r}) = 1
      BY FS_Singleton
    <3>3. Cardinality(d.row) = 0 \/ Cardinality(d.row) = 1
      BY <2>1, <3>1, <3>2
    <3> QED
      BY <3>3
  <2>3. cursor \in {{}} \cup {{n} : n \in 0..Top}
    <3>1. CASE cursor = {}
      BY <3>1
    <3>2. ASSUME NEW n \in cursor PROVE cursor = {n} /\ n \in 0..Top
      BY DEF PushType, CoreType
    <3> QED
      BY <3>1, <3>2
  <2>4. /\ d.at \in 0..d.to \cup {0} /\ d.to \in 0..Top
    BY DEF PushType, CoreType, DState, Top
  <2>5. /\ {d.relay, d.subscribed, d.down} \subseteq BOOLEAN
        /\ d.pc \in Pc /\ d.stage \in {"loop", "tick"}
        /\ d.devices \subseteq Device /\ d.left \subseteq Row /\ d.row \subseteq Row
    BY DEF PushType, CoreType, DState
  <2>6. history.pushes \in [Row -> Nat]
    BY DEF PushType, CoreType, History
  <2>7. {setting, split, wake} \subseteq BOOLEAN
    BY DEF PushType, FlagType
  <2> QED
    BY <2>2, <2>3, <2>4, <2>5, <2>6, <2>7
    DEF TypeOK, PushType, CoreType, FlagType, RowState, Pc
<1> QED
  BY <1>1, PushTypeInit, PushTypeStep, PTL DEF Spec

-----------------------------------------------------------------------------
(* The inductive invariant.                                                *)

Passing == {"batch", "read", "send", "mark", "gone", "remove"}
Sending == {"send", "mark", "gone", "remove"}

\* An answer comes after what it answers.
StreamInOrder ==
    \A a \in Alert : \A q \in At(a, TRUE) :
        At(a, FALSE) # {} /\ \A p \in At(a, FALSE) : p < q

HasRow(a) == \E r \in Row : r[1] = a /\ rows[r] # "none"

\* Every alert up to position n is in the outbox, or a baseline passed it.
Covered(n) ==
    \A a \in Alert : (\E p \in At(a, FALSE) : p <= n)
                        => a \in history.jumped \/ HasRow(a)

\* The saved cursor, and the position a pass has reached, are covered; a
\* pass has a device to make rows for.
PassCovered ==
    /\ \A n \in cursor : Covered(n)
    /\ d.pc \in {"batch", "read"} => d.devices # {} /\ Covered(d.at)

\* A row stands for an alert that was raised, a push for a row.
RowsWereRaised ==
    \A r \in Row : /\ rows[r] # "none" => At(r[1], FALSE) # {}
                   /\ history.pushes[r] # 0 => rows[r] # "none"

\* What a pass still has to send is due, and is not the row it marks.
LeftIsDue ==
    /\ d.pc \notin Sending => d.left = {} /\ d.row = {}
    /\ d.pc = "mark" => \A r \in d.row : rows[r] # "none"
    /\ \A r \in d.left : r \notin d.row /\ rows[r] \in {"due", "old"}

\* A row still queued has been pushed by failures only, except the one
\* between the relay and its mark.
PushesAreFaults ==
    \A r \in Row :
        /\ history.pushes[r] <= 1 + history.faults
        /\ rows[r] \in Queued /\ ~(d.pc = "mark" /\ r \in d.row)
             => history.pushes[r] <= history.faults

\* Only a dispatcher that has an address makes a pass.
PassHasRelay == d.pc \in Passing => d.relay

\* The quiet alerts that no process has started over with the address set.
StillQuiet == history.quiet \ history.revived

\* Such an alert has no row, and once the dispatcher has an address both the
\* cursor and the pass are past it.
QuietIsPassed ==
    \A a \in StillQuiet :
        /\ At(a, FALSE) # {}
        /\ \A r \in Row : r[1] = a => rows[r] = "none"
        /\ \A p \in At(a, FALSE) :
             /\ d.relay => cursor # {} /\ \A n \in cursor : p <= n
             /\ d.pc \in Passing => p <= d.at

\* No queued row has its answer up to position n, unless a baseline passed
\* the answer.
Unanswered(n) ==
    \A r \in Row : rows[r] \in Queued /\ r[1] \notin history.passed
                     => \A p \in At(r[1], TRUE) : p > n

QueuedUnanswered ==
    /\ \A n \in cursor : Unanswered(n)
    /\ d.pc \in Passing => Unanswered(d.at)

\* The cursor is ahead of a pass only by a baseline, which has passed the
\* answers in between.
AheadIsPassed ==
    d.pc \in {"batch", "read"} =>
        \A n \in cursor, a \in Alert : \A p \in At(a, TRUE) :
            d.at < p /\ p <= n => a \in history.passed

PushInv ==
    /\ PushType
    /\ StreamInOrder
    /\ PassCovered
    /\ RowsWereRaised
    /\ LeftIsDue
    /\ PushesAreFaults
    /\ PassHasRelay
    /\ QuietIsPassed
    /\ QueuedUnanswered
    /\ AheadIsPassed

LEMMA PushInvInit == Init => PushInv
<1> SUFFICES ASSUME Init PROVE PushInv
  OBVIOUS
<1>1. PushType
  BY PushTypeInit
<1>2. \A a, s : At(a, s) = {}
  BY DEF Init, At, Top
<1>3. d.pc \in {"token", "absent"} /\ d.left = {} /\ d.row = {}
  BY DEF Init, Idle
<1>4. \A r \in Row : rows[r] = "none" /\ history.pushes[r] = 0
  BY DEF Init, NoHistory
<1>5. history.faults = 0 /\ StillQuiet = {}
  BY DEF Init, NoHistory, StillQuiet
<1>6. StreamInOrder /\ PassCovered /\ RowsWereRaised
  BY <1>2, <1>3, <1>4 DEF StreamInOrder, PassCovered, Covered, RowsWereRaised
<1>7. LeftIsDue /\ PushesAreFaults
  BY <1>3, <1>4, <1>5 DEF LeftIsDue, PushesAreFaults
<1>8. PassHasRelay /\ QuietIsPassed /\ QueuedUnanswered /\ AheadIsPassed
  BY <1>2, <1>3, <1>5
  DEF PassHasRelay, QuietIsPassed, StillQuiet, QueuedUnanswered, Unanswered,
      AheadIsPassed, Passing
<1> QED
  BY <1>1, <1>6, <1>7, <1>8 DEF PushInv

-----------------------------------------------------------------------------
(* What a step can be, as far as the invariant is concerned.               *)

\* A step outside of a pass, or one that ends it.
Rests ==
    /\ UNCHANGED <<stream, cursor, rows>>
    /\ history'.pushes = history.pushes
    /\ history'.jumped = history.jumped /\ history'.passed = history.passed
    /\ StillQuiet' \subseteq StillQuiet
    /\ history'.faults >= history.faults
    /\ \/ d' = d
       \/ /\ d'.pc \notin Passing /\ d'.left = {} /\ d'.row = {}
          /\ d.pc = "mark" => history'.faults > history.faults
          /\ d'.relay => d.relay \/ StillQuiet' = {}

\* A baseline.
Jumps ==
    /\ UNCHANGED <<stream, rows>>
    /\ cursor' = {Top}
    /\ LET h == Jumped(history)
       IN  /\ history'.pushes = h.pushes /\ history'.jumped = h.jumped
           /\ history'.passed = h.passed /\ history'.quiet = h.quiet
           /\ history'.revived = h.revived /\ history'.faults >= h.faults
    /\ \/ d' = d
       \/ /\ d.pc # "mark" /\ d'.left = {} /\ d'.row = {}
          /\ \/ d'.pc \notin Passing
             \/ d'.pc = "batch" /\ d'.devices # {} /\ d'.at = Top /\ d'.relay

\* A pass starts at the cursor, or reads on.
Begins ==
    /\ UNCHANGED <<stream, rows, cursor, history>>
    /\ d.pc # "mark" /\ d'.left = {} /\ d'.row = {} /\ d'.devices # {}
    /\ d.relay /\ d'.relay
    /\ \/ d'.pc = "batch" /\ d'.at \in cursor
       \/ d.pc = "batch" /\ d'.pc = "read" /\ d'.at = d.at

\* A device whose token is gone is removed.
Cleans ==
    /\ UNCHANGED <<stream, rows, cursor, history>>
    /\ d.pc \in {"gone", "remove"} /\ d'.pc \in {"send", "remove"}
    /\ d'.at = d.at /\ d'.left = d.left /\ d'.row = d.row /\ d'.relay = d.relay

LEMMA RestsKeep ==
    ASSUME PushInv, Rests, PushType' PROVE PushInv'
<1>1. \A a, s : At(a, s)' = At(a, s)
  BY DEF Rests, At, Top, Event
<1>2. /\ history.faults \in Nat /\ history'.faults \in Nat
      /\ history.pushes \in [Row -> Nat]
  BY DEF PushInv, PushType, CoreType, History
<1> USE DEF Rests, PushInv
<1>3. StreamInOrder' /\ PassCovered'
  BY <1>1 DEF StreamInOrder, PassCovered, Covered, HasRow, Passing
<1>4. RowsWereRaised' /\ LeftIsDue'
  BY <1>1 DEF RowsWereRaised, LeftIsDue, Passing
<1>5. PushesAreFaults'
  BY <1>2 DEF PushesAreFaults, Passing
<1>6. PassHasRelay' /\ QuietIsPassed'
  BY <1>1 DEF PassHasRelay, QuietIsPassed, StillQuiet
<1>7. QueuedUnanswered' /\ AheadIsPassed'
  BY <1>1 DEF QueuedUnanswered, Unanswered, AheadIsPassed, Passing
<1> QED
  BY <1>3, <1>4, <1>5, <1>6, <1>7

LEMMA JumpsKeep ==
    ASSUME PushInv, Jumps, PushType' PROVE PushInv'
<1>1. \A a, s : At(a, s)' = At(a, s)
  BY DEF Jumps, At, Top, Event
<1>2. /\ Top \in Nat /\ \A a, s : \A p \in At(a, s) : p \in Nat /\ p <= Top
      /\ \A n \in cursor : n \in Nat
      /\ d.at \in Nat /\ d'.at \in Nat
  BY DEF PushInv, PushType, CoreType, DState, At, Top
<1>3. CoreType
  BY DEF PushInv, PushType
<1>4. /\ history'.pushes = history.pushes /\ StillQuiet' = StillQuiet
      /\ history'.faults >= history.faults
      /\ history.jumped \subseteq history'.jumped
      /\ history.passed \subseteq history'.passed
      /\ \A a \in Alert : \A p \in At(a, FALSE) :
           a \in history'.jumped \/ \E n \in cursor : p <= n
      /\ \A a \in Alert : \A p \in At(a, TRUE) :
           a \in history'.passed \/ \E n \in cursor : p <= n
  BY <1>3, JumpEffect DEF Jumps, StillQuiet
<1> USE DEF PushInv
<1>5. /\ UNCHANGED <<stream, rows>> /\ cursor' = {Top}
      /\ \/ d' = d
         \/ /\ d.pc # "mark" /\ d'.left = {} /\ d'.row = {}
            /\ \/ d'.pc \notin Passing
               \/ d'.pc = "batch" /\ d'.devices # {} /\ d'.at = Top /\ d'.relay
  BY DEF Jumps
<1>6. \A a \in Alert : \A p \in At(a, FALSE) : a \in history'.jumped \/ HasRow(a)
  BY <1>4 DEF PassCovered, Covered
<1>7. StreamInOrder' /\ PassCovered'
  <2>1. \A a : HasRow(a)' = HasRow(a)
    BY <1>5 DEF HasRow
  <2>2. StreamInOrder'
    BY <1>1 DEF StreamInOrder
  <2>3. \A n : Covered(n)'
    BY <1>1, <1>6, <2>1 DEF Covered
  <2> QED
    BY <1>5, <2>2, <2>3 DEF PassCovered, Passing
<1>8. RowsWereRaised' /\ LeftIsDue'
  BY <1>1, <1>4, <1>5 DEF RowsWereRaised, LeftIsDue, Passing
<1>9. PushesAreFaults'
  <2>1. /\ history.faults \in Nat /\ history'.faults \in Nat
        /\ history.pushes \in [Row -> Nat]
    BY DEF PushType, CoreType, History
  <2> SUFFICES ASSUME NEW r \in Row
               PROVE  /\ history'.pushes[r] <= 1 + history'.faults
                      /\ rows'[r] \in Queued /\ ~(d'.pc = "mark" /\ r \in d'.row)
                           => history'.pushes[r] <= history'.faults
    BY DEF PushesAreFaults
  <2>2. /\ history.pushes[r] <= 1 + history.faults
        /\ rows[r] \in Queued /\ ~(d.pc = "mark" /\ r \in d.row)
             => history.pushes[r] <= history.faults
    BY DEF PushesAreFaults
  <2>3. d.pc = "mark" /\ r \in d.row => d'.pc = "mark" /\ r \in d'.row
    BY <1>5
  <2> QED
    BY <1>4, <1>5, <2>1, <2>2, <2>3
<1>10. PassHasRelay' /\ QuietIsPassed'
  <2>1. PassHasRelay'
    BY <1>5 DEF PassHasRelay, Passing
  <2>2. StillQuiet' = StillQuiet
    BY <1>4
  <2> QED
    BY <1>1, <1>2, <1>5, <2>1, <2>2 DEF QuietIsPassed
<1>11. \A r \in Row : rows[r] \in Queued /\ r[1] \notin history'.passed
                        => At(r[1], TRUE) = {}
  <2> SUFFICES ASSUME NEW r \in Row, rows[r] \in Queued,
                      r[1] \notin history'.passed, NEW p \in At(r[1], TRUE)
               PROVE  FALSE
    OBVIOUS
  <2>1. PICK n \in cursor : p <= n
    BY <1>4, RowPair
  <2>2. p > n
    BY <1>4, <2>1 DEF QueuedUnanswered, Unanswered
  <2>3. p \in Nat /\ n \in Nat
    BY <1>2
  <2> QED
    BY <2>1, <2>2, <2>3
<1>12. QueuedUnanswered'
  BY <1>1, <1>5, <1>11 DEF QueuedUnanswered, Unanswered
<1>13. AheadIsPassed'
  <2> SUFFICES ASSUME d'.pc \in {"batch", "read"}, NEW a \in Alert,
                      NEW p \in At(a, TRUE), d'.at < p, p <= Top
               PROVE  a \in history'.passed
    BY <1>1, <1>5 DEF AheadIsPassed
  <2>1. p \in Nat /\ Top \in Nat /\ d'.at \in Nat
    BY <1>2
  <2>2. d' = d
    BY <1>5, <2>1 DEF Passing
  <2> QED
    BY <1>4, <2>2 DEF AheadIsPassed
<1> QED
  BY <1>7, <1>8, <1>9, <1>10, <1>12, <1>13

LEMMA BeginsKeep ==
    ASSUME PushInv, Begins, PushType' PROVE PushInv'
<1>1. \A a, s : At(a, s)' = At(a, s)
  BY DEF Begins, At, Top, Event
<1>2. /\ \A n \in cursor : n \in Nat
      /\ d.relay \in BOOLEAN /\ \A m, n \in cursor : m = n
  BY DEF PushInv, PushType, CoreType, DState, Top
<1> USE DEF Begins, PushInv
<1>3. StreamInOrder' /\ PassCovered'
  BY <1>1 DEF StreamInOrder, PassCovered, Covered, HasRow
<1>4. RowsWereRaised' /\ LeftIsDue'
  BY <1>1 DEF RowsWereRaised, LeftIsDue, Passing
<1>5. PushesAreFaults'
  BY DEF PushesAreFaults
<1>6. PassHasRelay' /\ QuietIsPassed'
  BY <1>1 DEF PassHasRelay, QuietIsPassed, StillQuiet, Passing
<1>7. QueuedUnanswered'
  BY <1>1 DEF QueuedUnanswered, Unanswered, Passing
<1>8. AheadIsPassed'
  <2> SUFFICES ASSUME NEW n \in cursor, NEW a \in Alert, NEW p \in At(a, TRUE),
                      d'.at < p, p <= n
               PROVE  a \in history.passed
    BY <1>1 DEF AheadIsPassed
  <2>1. p \in Nat
    BY DEF PushType, CoreType, At, Top
  <2>2. d'.at \notin cursor
    BY <1>2, <2>1
  <2> QED
    BY <2>2 DEF AheadIsPassed
<1> QED
  BY <1>3, <1>4, <1>5, <1>6, <1>7, <1>8

LEMMA CleansKeep ==
    ASSUME PushInv, Cleans, PushType' PROVE PushInv'
<1>1. \A a, s : At(a, s)' = At(a, s)
  BY DEF Cleans, At, Top, Event
<1> USE DEF Cleans, PushInv
<1>2. StreamInOrder' /\ PassCovered' /\ RowsWereRaised'
  BY <1>1 DEF StreamInOrder, PassCovered, Covered, HasRow, RowsWereRaised
<1>3. LeftIsDue' /\ PushesAreFaults'
  BY DEF LeftIsDue, PushesAreFaults, Sending
<1>4. PassHasRelay' /\ QuietIsPassed'
  BY <1>1 DEF PassHasRelay, QuietIsPassed, StillQuiet, Passing
<1>5. QueuedUnanswered' /\ AheadIsPassed'
  BY <1>1 DEF QueuedUnanswered, Unanswered, AheadIsPassed, Passing
<1> QED
  BY <1>2, <1>3, <1>4, <1>5

\* A queued row gets older, waits for its next try or is given up.
Retries(r) ==
    /\ r \in Row /\ rows[r] \in Queued
    /\ \E x \in Queued \cup {"dropped"} :
         /\ rows' = [rows EXCEPT ![r] = x]
         /\ r \notin d'.left \/ x \in {"due", "old"}
    /\ UNCHANGED <<stream, cursor>>
    /\ d'.at = d.at /\ d'.relay = d.relay /\ d'.left \subseteq d.left
    /\ \/ d'.pc = d.pc
       \/ d.pc = "send" /\ d'.pc = "gone"
    /\ \/ d'.row = d.row
       \/ d'.row = {r} /\ r \notin d'.left /\ d.pc = "send"
    /\ d'.devices = d.devices
    /\ history'.jumped = history.jumped /\ history'.passed = history.passed
    /\ StillQuiet' = StillQuiet /\ history'.faults >= history.faults
    /\ \A q \in Row : q # r => history'.pushes[q] = history.pushes[q]
    /\ history'.pushes[r] + history.faults <= history.pushes[r] + history'.faults

LEMMA RetriesKeep ==
    ASSUME PushInv, PushType', NEW r, Retries(r) PROVE PushInv'
<1>1. \A a, s : At(a, s)' = At(a, s)
  BY DEF Retries, At, Top, Event
<1>2. /\ rows \in [Row -> RowState] /\ r \in Row
      /\ history.pushes \in [Row -> Nat] /\ history'.pushes \in [Row -> Nat]
      /\ history.faults \in Nat /\ history'.faults \in Nat
      /\ StillQuiet \subseteq Alert
  BY DEF PushInv, PushType, CoreType, History, Retries, StillQuiet
<1>3. /\ rows[r] \in Queued /\ rows'[r] \in Queued \cup {"dropped"}
      /\ r \notin d'.left \/ rows'[r] \in {"due", "old"}
      /\ \A q \in Row : q # r => rows'[q] = rows[q]
  BY <1>2 DEF Retries
<1>4. \A q \in Row : rows'[q] = "none" <=> rows[q] = "none"
  BY <1>3 DEF Queued
<1>5. \A q \in Row : rows'[q] \in Queued => rows[q] \in Queued
  BY <1>3
<1> USE DEF PushInv
<1>6. StreamInOrder' /\ PassCovered'
  <2>1. \A a : HasRow(a)' <=> HasRow(a)
    BY <1>4 DEF HasRow
  <2> QED
    BY <1>1, <2>1 DEF StreamInOrder, PassCovered, Covered, Retries
<1>7. RowsWereRaised'
  BY <1>1, <1>2, <1>3, <1>4 DEF RowsWereRaised, Retries, Queued
<1>8. LeftIsDue'
  <2>1. d.left \subseteq Row /\ d.row \subseteq Row
    BY DEF PushType, CoreType, DState
  <2>2. \A q \in d'.left : rows'[q] \in {"due", "old"}
    BY <1>3, <2>1 DEF LeftIsDue, Retries
  <2>3. \A q \in d'.left : q \notin d'.row
    BY DEF LeftIsDue, Retries
  <2>4. d'.pc \notin Sending => d'.left = {} /\ d'.row = {}
    BY DEF LeftIsDue, Retries, Sending
  <2>5. d'.pc = "mark" => \A q \in d'.row : rows'[q] # "none"
    BY <1>4, <2>1 DEF LeftIsDue, Retries
  <2> QED
    BY <2>2, <2>3, <2>4, <2>5 DEF LeftIsDue
<1>9. PushesAreFaults'
  <2> SUFFICES ASSUME NEW q \in Row
               PROVE  /\ history'.pushes[q] <= 1 + history'.faults
                      /\ rows'[q] \in Queued /\ ~(d'.pc = "mark" /\ q \in d'.row)
                           => history'.pushes[q] <= history'.faults
    BY DEF PushesAreFaults
  <2>1. history'.pushes[q] + history.faults <= history.pushes[q] + history'.faults
    BY <1>2 DEF Retries
  <2>2. /\ history.pushes[q] <= 1 + history.faults
        /\ rows[q] \in Queued /\ ~(d.pc = "mark" /\ q \in d.row)
             => history.pushes[q] <= history.faults
    BY DEF PushesAreFaults
  <2>3. d.pc = "mark" /\ q \in d.row => d'.pc = "mark" /\ q \in d'.row
    BY DEF Retries
  <2> QED
    BY <1>2, <1>5, <2>1, <2>2, <2>3
<1>10. PassHasRelay' /\ QuietIsPassed'
  BY <1>1, <1>4 DEF PassHasRelay, QuietIsPassed, StillQuiet, Passing, Retries
<1>11. QueuedUnanswered' /\ AheadIsPassed'
  BY <1>1, <1>5 DEF QueuedUnanswered, Unanswered, AheadIsPassed, Passing, Retries
<1> QED
  BY <1>6, <1>7, <1>8, <1>9, <1>10, <1>11

LEMMA ReadEventKeeps ==
    ASSUME PushInv, ReadEvent, PushType' PROVE PushInv'
<1>1. \A a, s : At(a, s)' = At(a, s)
  BY DEF ReadEvent, At, Top, Event
<1>2. /\ rows \in [Row -> RowState] /\ rows' \in [Row -> RowState]
      /\ d.at \in Nat /\ d.to \in Nat /\ d.to <= Top /\ Top \in Nat
      /\ d.devices \subseteq Device /\ cursor \subseteq Nat
  BY DEF PushInv, PushType, CoreType, DState, Top
<1>3. /\ UNCHANGED <<stream, cursor, history>>
      /\ d.pc = "read" /\ d.at < d.to
      /\ d' = [d EXCEPT !.at = d.at + 1]
  BY DEF ReadEvent
<1>k. PICK k \in 1..Top : k = d.at + 1
  BY <1>2, <1>3
<1>e. PICK e \in [alert : Alert, seen : BOOLEAN] : e = stream[k]
  <2>1. stream \in Seq([alert : Alert, seen : BOOLEAN]) /\ k \in 1..Len(stream)
    BY <1>k DEF PushInv, PushType, CoreType, Top
  <2>2. stream[k] \in [alert : Alert, seen : BOOLEAN]
    BY <2>1, SeqElement, Zenon
  <2> QED
    BY <2>2, Zenon
<1>4. d'.at = k /\ d'.pc = "read" /\ d'.devices = d.devices
      /\ d'.left = d.left /\ d'.row = d.row /\ d'.relay = d.relay
  BY <1>3, <1>k DEF PushInv, PushType, CoreType, DState
<1>5. /\ k \in Nat /\ d.at < k
      /\ \A n \in Nat : n <= k <=> n <= d.at \/ n = k
      /\ \A n \in Nat : d.at < n <=> n > k \/ n = k
  BY <1>2, <1>k
<1>6. /\ e.seen => rows' = DropSeen(e.alert)
      /\ ~e.seen => rows' = Enqueue(e.alert)
  BY <1>k, <1>e DEF ReadEvent
<1>7. \A a \in Alert, s \in BOOLEAN : k \in At(a, s) <=> e.alert = a /\ e.seen = s
  BY <1>k, <1>e DEF At, Event
<1>8. \A a : At(a, FALSE) \subseteq Nat /\ At(a, TRUE) \subseteq Nat
  <2>1. 1..Top \subseteq Nat
    BY <1>2
  <2> QED
    BY <2>1 DEF At
<1>9. d.left = {} /\ d.row = {}
  BY <1>3 DEF PushInv, LeftIsDue, Sending
<1>10. \A r \in Row : rows[r] # "none" => rows'[r] # "none"
  BY <1>2, <1>6 DEF DropSeen, Enqueue
<1>11. \A r \in Row : rows'[r] \in Queued /\ rows[r] \notin Queued
                        => rows[r] = "none" /\ ~e.seen /\ r[1] = e.alert
  BY <1>2, <1>6 DEF DropSeen, Enqueue, Queued
<1>12. e.seen => \A r \in Row : r[1] = e.alert => rows'[r] \notin Queued
  BY <1>6 DEF DropSeen, Queued
<1>13. \A r \in Row : rows'[r] # "none" /\ rows[r] = "none"
                        => ~e.seen /\ r[1] = e.alert
  <2>1. CASE e.seen
    BY <1>6, <2>1 DEF DropSeen, Queued
  <2>2. CASE ~e.seen
    BY <1>6, <2>2 DEF Enqueue
  <2> QED
    BY <2>1, <2>2
<1> USE DEF PushInv
<1>14. StreamInOrder'
  BY <1>1 DEF StreamInOrder
<1>15. PassCovered'
  <2>1. \A a : HasRow(a) => HasRow(a)'
    BY <1>10 DEF HasRow
  <2>2. \A n : Covered(n) => Covered(n)'
    BY <1>1, <1>3, <2>1 DEF Covered
  <2>3. d.devices # {} /\ Covered(d.at)
    BY <1>3 DEF PassCovered
  <2>4. ~e.seen => HasRow(e.alert)'
    <3> SUFFICES ASSUME ~e.seen PROVE HasRow(e.alert)'
      OBVIOUS
    <3>1. PICK v \in Targets : v \in Device
      BY <1>2, <2>3 DEF Targets
    <3>2. <<e.alert, v>> \in Row
      BY <3>1 DEF Row
    <3>3. rows'[<<e.alert, v>>] # "none"
      BY <1>2, <1>6, <3>1, <3>2 DEF Enqueue
    <3> QED
      BY <3>2, <3>3 DEF HasRow
  <2>5. Covered(k)'
    <3> SUFFICES ASSUME NEW a \in Alert, NEW p \in At(a, FALSE), p <= k
                 PROVE  a \in history.jumped \/ HasRow(a)'
      BY <1>1, <1>3 DEF Covered
    <3>1. CASE p <= d.at
      BY <2>1, <2>3, <3>1 DEF Covered
    <3>2. CASE ~(p <= d.at)
      <4>1. p = k
        BY <1>5, <1>8, <3>2
      <4>2. e.alert = a /\ e.seen = FALSE
        BY <1>7, <4>1
      <4> QED
        BY <2>4, <4>2
    <3> QED
      BY <3>1, <3>2
  <2> QED
    BY <1>3, <1>4, <2>2, <2>3, <2>5 DEF PassCovered
<1>16. RowsWereRaised'
  <2>1. ~e.seen => At(e.alert, FALSE) # {}
    BY <1>5, <1>7
  <2> QED
    BY <1>1, <1>3, <1>10, <1>13, <2>1 DEF RowsWereRaised
<1>17. LeftIsDue'
  BY <1>4, <1>9 DEF LeftIsDue
<1>18. PushesAreFaults'
  <2>1. history.pushes \in [Row -> Nat] /\ history.faults \in Nat
    BY DEF PushType, CoreType, History
  <2>2. \A r \in Row : rows[r] = "none" => history.pushes[r] = 0
    BY DEF RowsWereRaised
  <2> QED
    BY <1>3, <1>4, <1>11, <2>1, <2>2 DEF PushesAreFaults
<1>19. PassHasRelay'
  BY <1>3, <1>4 DEF PassHasRelay, Passing
<1>20. QuietIsPassed'
  <2>1. \A a \in StillQuiet : \A p \in At(a, FALSE) : p <= d.at
    BY <1>3 DEF QuietIsPassed, Passing
  <2>2. ~e.seen => e.alert \notin StillQuiet
    <3>1. ~(k <= d.at)
      BY <1>2, <1>5
    <3> QED
      BY <1>5, <1>7, <2>1, <3>1
  <2>3. \A a \in StillQuiet : \A p \in At(a, FALSE) : p <= k
    BY <1>5, <1>8, <2>1
  <2> QED
    BY <1>1, <1>3, <1>4, <1>13, <2>2, <2>3 DEF QuietIsPassed, StillQuiet
<1>21. \A p \in At(e.alert, TRUE) : ~e.seen => p > k
  BY <1>5, <1>7, <1>8 DEF StreamInOrder
<1>22. QueuedUnanswered'
  <2>1. \A r \in Row : rows'[r] \in Queued /\ r[1] \notin history.passed
                         => \A p \in At(r[1], TRUE) : p > k
    <3> SUFFICES ASSUME NEW r \in Row, rows'[r] \in Queued,
                        r[1] \notin history.passed, NEW p \in At(r[1], TRUE)
                 PROVE  p > k
      OBVIOUS
    <3>1. CASE rows[r] \in Queued
      <4>1. p > d.at
        BY <1>3, <3>1 DEF QueuedUnanswered, Unanswered, Passing
      <4>2. p # k
        BY <1>7, <1>12, RowPair
      <4> QED
        <5>1. p \in Nat /\ d.at < p
          BY <1>2, <1>8, <4>1
        <5> QED
          BY <1>5, <4>2, <5>1
    <3>2. CASE rows[r] \notin Queued
      BY <1>11, <1>21, <3>2
    <3> QED
      BY <3>1, <3>2
  <2>2. ASSUME NEW n \in cursor, NEW r \in Row, rows'[r] \in Queued,
               r[1] \notin history.passed, NEW p \in At(r[1], TRUE)
        PROVE  p > n
    <3>1. CASE rows[r] \in Queued
      BY <3>1, <2>2 DEF QueuedUnanswered, Unanswered
    <3>2. CASE rows[r] \notin Queued
      <4>1. d.at < p
        <5>1. p \in Nat /\ p > k
          BY <1>8, <2>1, <2>2
        <5> QED
          BY <1>5, <5>1
      <4>2. ~(p <= n)
        BY <1>3, <2>2, <4>1, RowPair DEF AheadIsPassed
      <4>3. p \in Nat /\ n \in Nat
        BY <1>2, <1>8
      <4> QED
        BY <4>2, <4>3
    <3> QED
      BY <3>1, <3>2
  <2> QED
    BY <1>1, <1>3, <1>4, <2>1, <2>2 DEF QueuedUnanswered, Unanswered
<1>23. AheadIsPassed'
  <2> SUFFICES ASSUME NEW n \in cursor, NEW a \in Alert, NEW p \in At(a, TRUE),
                      k < p, p <= n
               PROVE  a \in history.passed
    BY <1>1, <1>3, <1>4 DEF AheadIsPassed
  <2>1. p \in Nat
    BY <1>8
  <2>2. d.at < p
    BY <1>5, <2>1
  <2> QED
    BY <1>3, <2>2 DEF AheadIsPassed
<1> QED
  BY <1>14, <1>15, <1>16, <1>17, <1>18, <1>19, <1>20, <1>22, <1>23

LEMMA WriteCursorKeeps ==
    ASSUME PushInv, WriteCursor, PushType' PROVE PushInv'
<1>1. \A a, s : At(a, s)' = At(a, s)
  BY DEF WriteCursor, At, Top, Event
<1>2. /\ UNCHANGED <<stream, rows, history>>
      /\ d.pc = "read" /\ cursor' = {d.at}
      /\ d'.pc = "send" /\ d'.at = d.at /\ d'.relay = d.relay /\ d'.row = d.row
      /\ d'.left = {r \in Row : rows[r] \in {"due", "old"}}
  BY DEF WriteCursor, PushInv, PushType, CoreType, DState
<1>3. d.at \in Nat /\ d.relay
  BY <1>2 DEF PushInv, PushType, CoreType, DState, PassHasRelay, Passing
<1>4. d.row = {}
  BY <1>2 DEF PushInv, LeftIsDue, Sending
<1> USE DEF PushInv
<1>5. StreamInOrder' /\ PassCovered'
  <2>1. \A n : Covered(n)' <=> Covered(n)
    BY <1>1, <1>2 DEF Covered, HasRow
  <2>2. Covered(d.at)
    BY <1>2 DEF PassCovered
  <2> QED
    BY <1>1, <1>2, <2>1, <2>2 DEF StreamInOrder, PassCovered
<1>6. RowsWereRaised' /\ LeftIsDue' /\ PushesAreFaults'
  BY <1>1, <1>2, <1>4 DEF RowsWereRaised, LeftIsDue, PushesAreFaults, Sending
<1>7. PassHasRelay' /\ QuietIsPassed'
  BY <1>1, <1>2, <1>3 DEF PassHasRelay, QuietIsPassed, StillQuiet, Passing
<1>8. QueuedUnanswered' /\ AheadIsPassed'
  BY <1>1, <1>2 DEF QueuedUnanswered, Unanswered, AheadIsPassed, Passing
<1> QED
  BY <1>5, <1>6, <1>7, <1>8

LEMMA SendTakenKeeps ==
    ASSUME PushInv, NEW r \in d.left, SendTaken(r), PushType' PROVE PushInv'
<1>1. \A a, s : At(a, s)' = At(a, s)
  BY DEF SendTaken, At, Top, Event
<1>2. /\ d \in DState /\ r \in Row /\ history \in History
      /\ history.pushes \in [Row -> Nat] /\ history.faults \in Nat
  BY DEF PushInv, PushType, CoreType, DState, History
<1>3. /\ UNCHANGED <<stream, rows, cursor>>
      /\ d.pc = "send" /\ d'.pc = "mark" /\ d'.at = d.at /\ d'.relay = d.relay
      /\ d'.left = d.left \ {r} /\ d'.row = {r}
  BY <1>2 DEF SendTaken, Next1, DState
<1>4. /\ history'.pushes = [history.pushes EXCEPT ![r] = @ + 1]
      /\ history'.faults = history.faults /\ StillQuiet' = StillQuiet
      /\ history'.jumped = history.jumped /\ history'.passed = history.passed
  BY <1>2 DEF SendTaken, History, StillQuiet
<1>5. rows[r] \in Queued /\ rows[r] # "none"
  BY <1>2 DEF PushInv, LeftIsDue, Queued
<1> USE DEF PushInv
<1>6. StreamInOrder' /\ PassCovered'
  BY <1>1, <1>3, <1>4 DEF StreamInOrder, PassCovered, Covered, HasRow
<1>7. RowsWereRaised' /\ LeftIsDue'
  <2>1. LeftIsDue'
    BY <1>3, <1>5 DEF LeftIsDue, Sending
  <2>2. RowsWereRaised'
    BY <1>1, <1>2, <1>3, <1>4, <1>5 DEF RowsWereRaised
  <2> QED
    BY <2>1, <2>2
<1>8. PushesAreFaults'
  BY <1>2, <1>3, <1>4, <1>5 DEF PushesAreFaults
<1>9. PassHasRelay' /\ QuietIsPassed'
  BY <1>1, <1>3, <1>4 DEF PassHasRelay, QuietIsPassed, StillQuiet, Passing
<1>10. QueuedUnanswered' /\ AheadIsPassed'
  BY <1>1, <1>3, <1>4 DEF QueuedUnanswered, Unanswered, AheadIsPassed, Passing
<1> QED
  BY <1>6, <1>7, <1>8, <1>9, <1>10

LEMMA MarkKeeps ==
    ASSUME PushInv, Mark, PushType' PROVE PushInv'
<1>1. \A a, s : At(a, s)' = At(a, s)
  BY DEF Mark, At, Top, Event
<1>2. /\ UNCHANGED <<stream, cursor, history>>
      /\ d.pc = "mark" /\ d'.pc = "send" /\ d'.at = d.at /\ d'.relay = d.relay
      /\ d'.left = d.left /\ d'.row = d.row /\ d.row \subseteq Row
  BY DEF Mark, Goto, PushInv, PushType, CoreType, DState
<1>3. \A r \in Row : rows'[r] = IF r \in d.row THEN "sent" ELSE rows[r]
  BY DEF Mark
<1>4. \A r \in d.row : rows[r] # "none"
  BY <1>2 DEF PushInv, LeftIsDue
<1>5. \A r \in Row : (rows'[r] = "none") <=> (rows[r] = "none")
  BY <1>3, <1>4
<1>6. \A r \in Row : rows'[r] \in Queued => rows[r] \in Queued /\ r \notin d.row
  BY <1>3 DEF Queued
<1> USE DEF PushInv
<1>7. StreamInOrder' /\ PassCovered'
  <2>1. \A a : HasRow(a)' <=> HasRow(a)
    BY <1>5 DEF HasRow
  <2> QED
    BY <1>1, <1>2, <2>1 DEF StreamInOrder, PassCovered, Covered
<1>8. RowsWereRaised' /\ LeftIsDue'
  <2>1. d.left \subseteq Row
    BY DEF PushType, CoreType, DState
  <2> QED
    BY <1>1, <1>2, <1>3, <1>5, <2>1 DEF RowsWereRaised, LeftIsDue, Sending
<1>9. PushesAreFaults'
  BY <1>2, <1>6 DEF PushesAreFaults
<1>10. PassHasRelay' /\ QuietIsPassed'
  BY <1>1, <1>2, <1>5 DEF PassHasRelay, QuietIsPassed, StillQuiet, Passing
<1>11. QueuedUnanswered' /\ AheadIsPassed'
  BY <1>1, <1>2, <1>6 DEF QueuedUnanswered, Unanswered, AheadIsPassed, Passing
<1> QED
  BY <1>7, <1>8, <1>9, <1>10, <1>11

\* Facts about an append that the two kinds of event share.
LEMMA AppendFacts ==
    ASSUME PushInv, NEW a \in Alert, Raise(a) \/ Answer(a)
    PROVE  /\ UNCHANGED <<rows, cursor, d>>
           /\ history'.pushes = history.pushes
           /\ history'.faults = history.faults
           /\ history'.jumped = history.jumped
           /\ history'.passed = history.passed
           /\ Top \in Nat /\ d.at \in Nat /\ d.at <= Top
           /\ \A n \in cursor : n \in Nat /\ n <= Top
           /\ \A b, s : \A p \in At(b, s) : p \in Nat /\ p <= Top
<1>1. CoreType
  BY DEF PushInv, PushType
<1>2. history \in History /\ d \in DState
  BY <1>1 DEF CoreType
<1>3. UNCHANGED <<rows, cursor, d>>
  BY DEF Raise, Answer, Append1
<1>4. /\ history'.pushes = history.pushes /\ history'.faults = history.faults
      /\ history'.jumped = history.jumped /\ history'.passed = history.passed
  BY <1>2 DEF Raise, Answer, History
<1>5. /\ Top \in Nat /\ d.at \in Nat /\ d.at <= Top
      /\ \A n \in cursor : n \in Nat /\ n <= Top
  BY <1>1, <1>2 DEF CoreType, DState, Top
<1>6. \A b, s : \A p \in At(b, s) : p \in Nat /\ p <= Top
  BY <1>5 DEF At
<1> QED
  BY <1>3, <1>4, <1>5, <1>6

LEMMA RaiseKeeps ==
    ASSUME PushInv, NEW a \in Alert, Raise(a), PushType' PROVE PushInv'
<1>1. Event(a, FALSE) \in [alert : Alert, seen : BOOLEAN] /\ CoreType
      /\ stream' = Append(stream, Event(a, FALSE))
  BY DEF Event, Raise, Append1, PushInv, PushType
<1>2. /\ UNCHANGED <<rows, cursor, d>>
      /\ history'.pushes = history.pushes /\ history'.faults = history.faults
      /\ history'.jumped = history.jumped /\ history'.passed = history.passed
  BY AppendFacts
<1>3. /\ Top \in Nat /\ d.at \in Nat /\ d.at <= Top
      /\ \A n \in cursor : n \in Nat /\ n <= Top
  BY AppendFacts
<1>4. At(a, FALSE) = {} /\ At(a, TRUE) = {}
  BY DEF Raise, PushInv, StreamInOrder
<1>5. At(a, FALSE)' = {Top + 1}
  BY <1>1, <1>4, AtAppend
<1>6. \A b : At(b, TRUE)' = At(b, TRUE)
  <2>1. \A b : Event(a, FALSE) # Event(b, TRUE)
    BY DEF Event
  <2> QED
    BY <1>1, <2>1, AtAppend, Zenon
<1>7. \A b : b # a => At(b, FALSE)' = At(b, FALSE)
  <2>1. \A b : b # a => Event(a, FALSE) # Event(b, FALSE)
    BY DEF Event
  <2> QED
    BY <1>1, <2>1, AtAppend, Zenon
<1> USE DEF PushInv
<1>8. StreamInOrder'
  BY <1>4, <1>6, <1>7 DEF StreamInOrder
<1>9. PassCovered'
  <2>1. \A n \in Nat : n <= Top /\ Covered(n) => Covered(n)'
    <3> SUFFICES ASSUME NEW n \in Nat, n <= Top, Covered(n), NEW b \in Alert,
                        NEW p \in At(b, FALSE)', p <= n
                 PROVE  b \in history.jumped \/ HasRow(b)
      BY <1>2 DEF Covered, HasRow
    <3>1. ASSUME b = a PROVE FALSE
      <4>1. p = Top + 1
        BY <1>5, <3>1
      <4> QED
        BY <1>3, <4>1
    <3> QED
      BY <1>7, <3>1 DEF Covered
  <2> QED
    BY <1>2, <1>3, <2>1 DEF PassCovered
<1>10. RowsWereRaised'
  BY <1>2, <1>5, <1>7 DEF RowsWereRaised
<1>11. LeftIsDue' /\ PushesAreFaults' /\ PassHasRelay'
  BY <1>2 DEF LeftIsDue, PushesAreFaults, PassHasRelay
<1>12. QuietIsPassed'
  <2>1. a \notin StillQuiet
    BY <1>4 DEF QuietIsPassed
  <2>2. /\ StillQuiet' \subseteq StillQuiet \cup {a}
        /\ a \in StillQuiet' => ~d.relay
    BY <2>1 DEF Raise, PushType, CoreType, History, StillQuiet
  <2>3. \A r \in Row : r[1] = a => rows[r] = "none"
    BY <1>4 DEF RowsWereRaised
  <2>4. a \in StillQuiet' => d.pc \notin Passing
    BY <2>2 DEF PassHasRelay
  <2> QED
    BY <1>2, <1>5, <1>7, <2>1, <2>2, <2>3, <2>4 DEF QuietIsPassed
<1>13. QueuedUnanswered' /\ AheadIsPassed'
  BY <1>2, <1>6 DEF QueuedUnanswered, Unanswered, AheadIsPassed
<1> QED
  BY <1>8, <1>9, <1>10, <1>11, <1>12, <1>13

LEMMA AnswerKeeps ==
    ASSUME PushInv, NEW a \in Alert, Answer(a), PushType' PROVE PushInv'
<1>1. Event(a, TRUE) \in [alert : Alert, seen : BOOLEAN] /\ CoreType
      /\ stream' = Append(stream, Event(a, TRUE)) /\ history' = history
  BY DEF Event, Answer, Append1, PushInv, PushType
<1>2. UNCHANGED <<rows, cursor, d>>
  BY AppendFacts
<1>3. /\ Top \in Nat /\ d.at \in Nat /\ d.at <= Top
      /\ \A n \in cursor : n \in Nat /\ n <= Top
      /\ \A b : \A p \in At(b, FALSE) : p \in Nat /\ p <= Top
  BY AppendFacts
<1>4. At(a, FALSE) # {}
  BY DEF Answer
<1>5. At(a, TRUE)' = {Top + 1}
  BY <1>1, AtAppend DEF Answer
<1>6. \A b : At(b, FALSE)' = At(b, FALSE)
  <2>1. \A b : Event(a, TRUE) # Event(b, FALSE)
    BY DEF Event
  <2> QED
    BY <1>1, <2>1, AtAppend, Zenon
<1>7. \A b : b # a => At(b, TRUE)' = At(b, TRUE)
  <2>1. \A b : b # a => Event(a, TRUE) # Event(b, TRUE)
    BY DEF Event
  <2> QED
    BY <1>1, <2>1, AtAppend, Zenon
<1>8. \A n : n \in cursor \/ n = d.at => \A p \in At(a, TRUE)' : p > n /\ ~(p <= n)
  <2> SUFFICES ASSUME NEW n, n \in cursor \/ n = d.at
               PROVE  Top + 1 > n /\ ~(Top + 1 <= n)
    BY <1>5
  <2> QED
    BY <1>3
<1> USE DEF PushInv
<1>9. StreamInOrder'
  <2> SUFFICES ASSUME NEW b \in Alert, NEW q \in At(b, TRUE)'
               PROVE  At(b, FALSE) # {} /\ \A p \in At(b, FALSE) : p < q
    BY <1>6 DEF StreamInOrder
  <2>1. CASE b = a
    <3>1. q = Top + 1
      BY <1>5, <2>1
    <3>2. ASSUME NEW p \in At(a, FALSE) PROVE p < q
      <4>1. p \in Nat /\ p <= Top
        BY <1>3, Zenon
      <4> QED
        BY <1>3, <3>1, <4>1
    <3> QED
      BY <1>4, <2>1, <3>2
  <2>2. CASE b # a
    BY <1>7, <2>2 DEF StreamInOrder
  <2> QED
    BY <2>1, <2>2
<1>10. PassCovered' /\ RowsWereRaised'
  <2>1. \A n : Covered(n)' <=> Covered(n)
    <3>1. \A b : HasRow(b)' <=> HasRow(b)
      BY <1>2 DEF HasRow
    <3>2. \A b, n : (\E p \in At(b, FALSE)' : p <= n)
                       <=> (\E p \in At(b, FALSE) : p <= n)
      BY <1>6
    <3> QED
      BY <1>1, <3>1, <3>2 DEF Covered
  <2> QED
    BY <1>1, <1>2, <1>6, <2>1 DEF PassCovered, RowsWereRaised
<1>11. LeftIsDue' /\ PushesAreFaults' /\ PassHasRelay'
  BY <1>1, <1>2 DEF LeftIsDue, PushesAreFaults, PassHasRelay
<1>12. QuietIsPassed'
  <2> SUFFICES ASSUME NEW b \in StillQuiet
               PROVE  /\ At(b, FALSE)' # {}
                      /\ \A r \in Row : r[1] = b => rows[r] = "none"
                      /\ \A p \in At(b, FALSE)' :
                           /\ d.relay => cursor # {} /\ \A n \in cursor : p <= n
                           /\ d.pc \in Passing => p <= d.at
    BY <1>1, <1>2 DEF QuietIsPassed, StillQuiet
  <2>1. At(b, FALSE)' = At(b, FALSE)
    BY <1>6
  <2> QED
    BY <2>1 DEF QuietIsPassed
<1>13. QueuedUnanswered'
  <2>1. \A n : (n \in cursor \/ n = d.at) /\ Unanswered(n) => Unanswered(n)'
    BY <1>1, <1>2, <1>7, <1>8 DEF Unanswered
  <2> QED
    BY <1>2, <2>1 DEF QueuedUnanswered
<1>14. AheadIsPassed'
  BY <1>1, <1>2, <1>7, <1>8 DEF AheadIsPassed
<1> QED
  BY <1>9, <1>10, <1>11, <1>12, <1>13, <1>14

-----------------------------------------------------------------------------
(* Each action is one of those steps.                                      *)

\* The record of the dispatcher outside of a pass.
LEMMA OutsidePass ==
    ASSUME PushInv, d.pc \notin Sending
    PROVE  d.left = {} /\ d.row = {} /\ d.pc # "mark"
BY DEF PushInv, LeftIsDue, Sending

LEMMA RestingSteps ==
    ASSUME PushInv,
           \/ SettingsToken \/ LoopDevices \/ PassDone \/ PassFails \/ Unpark
           \/ WaitEnds \/ RefreshFails
           \/ \E on \in BOOLEAN, pc \in {"token", "absent", "dead"} :
                 Restart(on, pc)
           \/ \E v \in Device : PutDevice(v) \/ DeleteDevice(v)
           \/ \E on \in BOOLEAN : PutSetting(on)
    PROVE  Rests
<1>1. d \in DState /\ history \in History /\ history.faults \in Nat
  BY DEF PushInv, PushType, CoreType, History
<1>2. CASE SettingsToken \/ LoopDevices
  <2>1. d.left = {} /\ d.row = {} /\ d.pc # "mark"
    BY <1>2, OutsidePass DEF SettingsToken, LoopDevices, Sending
  <2>2. UNCHANGED <<stream, cursor, rows, history>>
    BY <1>2 DEF SettingsToken, LoopDevices
  <2>3. /\ d'.pc \in {"resolve", "park", "token"} /\ d'.left = {} /\ d'.row = {}
        /\ d'.relay = d.relay
    <3>1. CASE SettingsToken
      BY <1>1, <2>1, <3>1 DEF SettingsToken, Goto, DState
    <3>2. CASE LoopDevices
      BY <1>1, <2>1, <3>2 DEF LoopDevices, DState
    <3> QED
      BY <1>2, <3>1, <3>2
  <2> QED
    BY <1>1, <2>1, <2>2, <2>3 DEF Rests, Passing, StillQuiet
<1>3. CASE PassDone \/ Unpark \/ WaitEnds
  <2>1. UNCHANGED <<stream, cursor, rows, history>> /\ d.pc # "mark"
    BY <1>3 DEF PassDone, Unpark, WaitEnds
  <2>2. /\ d'.pc \in {"wait", "token"} /\ d'.left = {} /\ d'.row = {}
        /\ d'.relay = d.relay
    BY <1>3 DEF PassDone, Unpark, WaitEnds, Again, Idle
  <2> QED
    BY <1>1, <2>1, <2>2 DEF Rests, Passing, StillQuiet
<1>4. CASE PassFails
  <2>1. /\ UNCHANGED <<stream, cursor, rows>>
        /\ history' = [history EXCEPT !.faults = history.faults + 1]
        /\ d'.pc = "token" /\ d'.left = {} /\ d'.row = {} /\ d'.relay = d.relay
    BY <1>4 DEF PassFails, Again, Idle
  <2> QED
    BY <1>1, <2>1 DEF Rests, Passing, History, StillQuiet
<1>5. ASSUME NEW on \in BOOLEAN, NEW pc \in {"token", "absent", "dead"},
             Restart(on, pc)
      PROVE  Rests
  <2> DEFINE v == IF d'.relay THEN history.revived \cup history.quiet
                  ELSE history.revived
             x == on # setting \/ ((on \/ split) /\ pc # "token")
  <2>1. history' = [history EXCEPT !.faults = history.faults + 1,
                      !.revived = v, !.deaf = x]
    BY <1>5 DEF Restart
  <2>2. /\ UNCHANGED <<stream, cursor, rows>>
        /\ d'.pc \in {"token", "absent", "dead"} /\ d'.left = {} /\ d'.row = {}
    BY <1>5 DEF Restart, Idle
  <2> HIDE DEF x
  <2>3. /\ history'.pushes = history.pushes /\ history'.jumped = history.jumped
        /\ history'.passed = history.passed /\ history'.quiet = history.quiet
        /\ history'.revived = v
        /\ history'.faults = history.faults + 1
    BY <1>1, <2>1 DEF History
  <2>4. StillQuiet' \subseteq StillQuiet /\ (d'.relay => StillQuiet' = {})
    BY <2>3 DEF StillQuiet
  <2> QED
    BY <1>1, <2>2, <2>3, <2>4 DEF Rests, Passing, StillQuiet
<1>6. CASE \/ \E v \in Device : PutDevice(v) \/ DeleteDevice(v)
           \/ \E on \in BOOLEAN : PutSetting(on)
  <2>1. /\ UNCHANGED <<stream, cursor, rows, d>>
        /\ history' = [history EXCEPT !.changes = history.changes + 1]
    BY <1>6 DEF PutDevice, DeleteDevice, PutSetting, Change
  <2> QED
    BY <1>1, <2>1 DEF Rests, History, StillQuiet
<1>7. CASE RefreshFails
  <2>1. d.left = {} /\ d.row = {} /\ d.pc # "mark"
    BY <1>7, OutsidePass DEF RefreshFails, Sending
  <2>2. Resolved(FALSE) \/ Resolved(d.relay)
    BY <1>7 DEF RefreshFails
  <2>3. d'.pc \in {"devices", "park"} /\ d'.left = {} /\ d'.row = {}
    BY <1>1, <2>1, <2>2 DEF Resolved, DState
  <2>4. d'.relay => d.relay
    BY <1>1, <2>2 DEF Resolved, DState
  <2> DEFINE x == setting /\ ~d'.relay
  <2>5. /\ UNCHANGED <<stream, cursor, rows>>
        /\ history' = [history EXCEPT !.deaf = x,
                                      !.faults = history.faults + 1]
    BY <1>7 DEF RefreshFails
  <2> HIDE DEF x
  <2>6. /\ history'.pushes = history.pushes /\ history'.jumped = history.jumped
        /\ history'.passed = history.passed /\ StillQuiet' = StillQuiet
        /\ history'.faults = history.faults + 1
    BY <1>1, <2>5 DEF History, StillQuiet
  <2> QED
    BY <1>1, <2>1, <2>3, <2>4, <2>5, <2>6 DEF Rests, Passing, StillQuiet
<1> QED
  BY <1>2, <1>3, <1>4, <1>5, <1>6, <1>7

LEMMA BaselineSteps ==
    ASSUME PushInv, \/ RefreshRelay \/ TickDevices \/ PutBaseline
                    \/ ForwarderChanged \/ ForwarderFails
    PROVE  Rests \/ Jumps \/ Begins
<1>1. d \in DState /\ history \in History /\ history.faults \in Nat
  BY DEF PushInv, PushType, CoreType, History
<1> DEFINE h == Jumped(history)
<1>h. h \in History /\ h.faults = history.faults /\ h.faults \in Nat
  BY <1>1, JumpEffect DEF PushInv, PushType
<1> HIDE DEF h
<1>2. CASE PutBaseline
  <2>1. history' = h /\ UNCHANGED <<stream, rows, d>> /\ cursor' = {Top}
    BY <1>2 DEF PutBaseline, h
  <2> QED
    BY <1>h, <2>1 DEF Jumps, h
<1>3. CASE ForwarderChanged \/ ForwarderFails
  <2> DEFINE Started ==
               /\ d.pc = "absent" /\ cursor' = {Top}
               /\ d' \in {Idle("token", TRUE), Idle("dead", FALSE)}
               /\ \/ history' = [h EXCEPT !.deaf = FALSE]
                  \/ history' = [h EXCEPT !.deaf = TRUE,
                                          !.faults = h.faults + 1]
             Left ==
               /\ UNCHANGED <<cursor, d>>
               /\ \/ history' = history
                  \/ history' = [history EXCEPT !.deaf = TRUE,
                                                !.faults = history.faults + 1]
  <2>1. (Started \/ Left) /\ UNCHANGED <<stream, rows>>
    <3>1. CASE ForwarderChanged
      BY <3>1 DEF ForwarderChanged, h
    <3>2. CASE ForwarderFails
      BY <3>2 DEF ForwarderFails, Failed, h
    <3> QED
      BY <1>3, <3>1, <3>2
  <2>2. CASE Started
    <3>1. d'.left = {} /\ d'.row = {} /\ d'.pc \in {"token", "dead"}
      BY <2>2 DEF Idle
    <3>2. /\ history'.pushes = h.pushes /\ history'.jumped = h.jumped
          /\ history'.passed = h.passed /\ history'.quiet = h.quiet
          /\ history'.revived = h.revived /\ history'.faults >= h.faults
      <4>1. CASE history' = [h EXCEPT !.deaf = FALSE]
        BY <1>h, <4>1 DEF History
      <4>2. CASE history' = [h EXCEPT !.deaf = TRUE, !.faults = h.faults + 1]
        BY <1>h, <4>2 DEF History
      <4> QED
        BY <2>2, <4>1, <4>2
    <3> QED
      BY <2>1, <2>2, <3>1, <3>2 DEF Jumps, Passing, h
  <2>3. CASE Left
    <3>1. /\ history'.pushes = history.pushes
          /\ history'.jumped = history.jumped
          /\ history'.passed = history.passed /\ StillQuiet' = StillQuiet
          /\ history'.faults >= history.faults
      <4>1. CASE history' = history
        BY <1>1, <4>1 DEF StillQuiet
      <4>2. CASE history' = [history EXCEPT !.deaf = TRUE,
                                            !.faults = history.faults + 1]
        BY <1>1, <4>2 DEF History, StillQuiet
      <4> QED
        BY <2>3, <4>1, <4>2
    <3> QED
      BY <2>1, <2>3, <3>1 DEF Rests
  <2> QED
    BY <2>1, <2>2, <2>3
<1>4. CASE RefreshRelay
  <2>1. d.left = {} /\ d.row = {} /\ d.pc # "mark"
    BY <1>4, OutsidePass DEF RefreshRelay, Sending
  <2>2. /\ d'.pc \in {"devices", "park"} /\ d'.left = {} /\ d'.row = {}
        /\ d'.relay = Address /\ UNCHANGED <<stream, rows>>
    BY <1>1, <1>4, <2>1 DEF RefreshRelay, Resolved, DState
  <2> DEFINE x == setting /\ ~Address
  <2>3. CASE Address /\ ~d.relay
    <3>1. cursor' = {Top} /\ history' = [h EXCEPT !.deaf = x]
      BY <1>4, <2>3 DEF RefreshRelay, h
    <3> HIDE DEF x
    <3>2. /\ history'.pushes = h.pushes /\ history'.jumped = h.jumped
          /\ history'.passed = h.passed /\ history'.quiet = h.quiet
          /\ history'.revived = h.revived /\ history'.faults >= h.faults
      BY <1>h, <3>1 DEF History
    <3> QED
      BY <2>1, <2>2, <3>1, <3>2 DEF Jumps, Passing, h
  <2>4. CASE ~(Address /\ ~d.relay)
    <3>1. d'.relay => d.relay
      BY <2>2, <2>4, Zenon
    <3>2. cursor' = cursor /\ history' = [history EXCEPT !.deaf = x]
      BY <1>4, <2>4 DEF RefreshRelay
    <3> HIDE DEF x
    <3>3. /\ history'.pushes = history.pushes
          /\ history'.jumped = history.jumped
          /\ history'.passed = history.passed /\ StillQuiet' = StillQuiet
          /\ history'.faults >= history.faults
      BY <1>1, <3>2 DEF History, StillQuiet
    <3> QED
      BY <2>1, <2>2, <3>1, <3>2, <3>3 DEF Rests, Passing
  <2> QED
    BY <2>3, <2>4
<1>5. CASE TickDevices
  <2>1. d.left = {} /\ d.row = {} /\ d.pc # "mark"
    BY <1>5, OutsidePass DEF TickDevices, Sending
  <2>2. CASE devices = {} \/ ~d.relay
    <3>1. d' = [d EXCEPT !.pc = "idle"]
          /\ UNCHANGED <<stream, cursor, rows, history>>
      BY <1>5, <2>2 DEF TickDevices, Goto
    <3> QED
      BY <1>1, <2>1, <3>1 DEF Rests, Passing, DState, StillQuiet
  <2>3. CASE devices # {} /\ d.relay /\ cursor = {}
    <3>1. /\ d' = [d EXCEPT !.pc = "batch", !.devices = devices, !.at = Top,
                            !.to = Top]
          /\ UNCHANGED <<stream, rows>> /\ cursor' = {Top}
          /\ history' = h
      BY <1>5, <2>3 DEF TickDevices, h
    <3> HIDE DEF Jumped, Top
    <3>2. /\ d'.pc = "batch" /\ d'.devices = devices /\ d'.at = Top
          /\ d'.left = {} /\ d'.row = {} /\ d'.relay = d.relay
      BY <1>1, <2>1, <3>1 DEF DState
    <3> QED
      BY <1>h, <2>1, <2>3, <3>1, <3>2 DEF Jumps, h
  <2>4. CASE devices # {} /\ d.relay /\ cursor # {}
    <3> DEFINE c == CHOOSE n \in cursor : TRUE
    <3>1. c \in cursor
      BY <2>4, CursorValue DEF PushInv, PushType
    <3>2. /\ d' = [d EXCEPT !.pc = "batch", !.devices = devices, !.at = c,
                            !.to = Top]
          /\ UNCHANGED <<stream, rows, cursor, history>>
      BY <1>5, <2>4 DEF TickDevices
    <3> HIDE DEF c
    <3>3. /\ d'.pc = "batch" /\ d'.devices = devices /\ d'.at = c
          /\ d'.left = {} /\ d'.row = {} /\ d'.relay = d.relay
      BY <1>1, <2>1, <3>2 DEF DState
    <3> QED
      BY <2>1, <2>4, <3>1, <3>2, <3>3 DEF Begins
  <2> QED
    BY <2>2, <2>3, <2>4
<1> QED
  BY <1>2, <1>3, <1>4, <1>5

LEMMA PassSteps ==
    ASSUME PushInv, ReadBatch \/ RemoveGone \/ \E b \in BOOLEAN : Gone(b)
    PROVE  Begins \/ Cleans
<1>1. d \in DState
  BY DEF PushInv, PushType, CoreType
<1>2. CASE ReadBatch
  <2>1. d.left = {} /\ d.row = {} /\ d.pc # "mark"
    BY <1>2, OutsidePass DEF ReadBatch, Sending
  <2>2. d.devices # {} /\ d.relay
    BY <1>2 DEF ReadBatch, PushInv, PassCovered, PassHasRelay, Passing
  <2>3. /\ d'.pc = "read" /\ d'.devices = d.devices /\ d'.at = d.at
        /\ d'.left = d.left /\ d'.row = d.row /\ d'.relay = d.relay
    BY <1>1, <1>2 DEF ReadBatch, DState
  <2> QED
    BY <1>2, <2>1, <2>2, <2>3 DEF ReadBatch, Begins
<1>3. CASE RemoveGone \/ \E b \in BOOLEAN : Gone(b)
  BY <1>1, <1>3 DEF RemoveGone, Gone, Goto, Cleans, DState
<1> QED
  BY <1>2, <1>3

LEMMA RetryingSteps ==
    ASSUME PushInv
    PROVE  /\ \A r \in d.left : SendUnregistered(r) => Retries(r)
           /\ \A r \in d.left, b \in BOOLEAN :
                SendRefused(r, b) \/ SendRetry(r, b) => Retries(r)
           /\ \A r \in Row, age \in {"due", "old"} :
                RowTime(r, age) => Retries(r)
<1>1. /\ d \in DState /\ history \in History /\ history.faults \in Nat
      /\ d.left \subseteq Row /\ rows \in [Row -> RowState]
      /\ history.pushes \in [Row -> Nat]
  BY DEF PushInv, PushType, CoreType, History, DState
<1>2. \A r \in d.left : rows[r] \in {"due", "old"} /\ r \in Row
  BY <1>1 DEF PushInv, LeftIsDue
<1>3. ASSUME NEW r \in d.left, SendUnregistered(r) PROVE Retries(r)
  <2>1. /\ d.pc = "send" /\ d'.pc = "send" /\ d'.left = d.left \ {r}
        /\ d'.row = {r} /\ d'.at = d.at /\ d'.relay = d.relay
        /\ d'.devices = d.devices
    BY <1>1, <1>3 DEF SendUnregistered, Next1, DState
  <2>2. /\ rows' = [rows EXCEPT ![r] = "dropped"]
        /\ UNCHANGED <<stream, cursor, history>>
    BY <1>3 DEF SendUnregistered
  <2> QED
    BY <1>1, <1>2, <2>1, <2>2 DEF Retries, Queued, StillQuiet
<1>4. ASSUME NEW r \in d.left, NEW b \in BOOLEAN, SendRefused(r, b)
      PROVE  Retries(r)
  <2>1. /\ d.pc = "send" /\ d'.pc \in {"send", "gone"}
        /\ d'.left = d.left \ {r}
        /\ d'.row = {r} /\ d'.at = d.at /\ d'.relay = d.relay
        /\ d'.devices = d.devices
    BY <1>1, <1>4 DEF SendRefused, Next1, DState
  <2>2. /\ rows' = [rows EXCEPT ![r] = "dropped"]
        /\ UNCHANGED <<stream, cursor>>
        /\ history' = [history EXCEPT !.faults = history.faults + 1]
    BY <1>4 DEF SendRefused
  <2>3. /\ history'.jumped = history.jumped /\ history'.passed = history.passed
        /\ StillQuiet' = StillQuiet /\ history'.pushes = history.pushes
        /\ history'.faults = history.faults + 1
    BY <1>1, <2>2 DEF History, StillQuiet
  <2> QED
    BY <1>1, <1>2, <2>1, <2>2, <2>3 DEF Retries, Queued
<1>5. ASSUME NEW r \in d.left, NEW b \in BOOLEAN, SendRetry(r, b)
      PROVE  Retries(r)
  <2>1. /\ d'.pc = d.pc /\ d'.left = d.left \ {r}
        /\ d'.row = d.row /\ d'.at = d.at /\ d'.relay = d.relay
        /\ d'.devices = d.devices
    BY <1>1, <1>5 DEF SendRetry, DState
  <2>2. /\ \E x \in Queued \cup {"dropped"} : rows' = [rows EXCEPT ![r] = x]
        /\ UNCHANGED <<stream, cursor>>
    BY <1>5 DEF SendRetry, Queued
  <2>3. /\ history'.jumped = history.jumped /\ history'.passed = history.passed
        /\ StillQuiet' = StillQuiet /\ history'.faults >= history.faults
        /\ \A q \in Row : q # r => history'.pushes[q] = history.pushes[q]
        /\ history'.pushes[r] + history.faults
             <= history.pushes[r] + history'.faults
    <3>1. history.pushes[r] \in Nat /\ r \in Row
      BY <1>1, <1>2
    <3>2. CASE d.down
      <4>1. history' = history
        BY <1>5, <3>2 DEF SendRetry
      <4> QED
        BY <1>1, <3>1, <4>1 DEF StillQuiet
    <3>3. CASE ~d.down
      <4> DEFINE n == IF b THEN history.pushes[r] + 1 ELSE history.pushes[r]
      <4>1. history' = [history EXCEPT !.faults = history.faults + 1,
                          !.pushes = [history.pushes EXCEPT ![r] = n]]
        BY <1>5, <3>3 DEF SendRetry
      <4>2. n \in Nat /\ n <= history.pushes[r] + 1
        BY <3>1
      <4> HIDE DEF n
      <4>3. /\ history'.jumped = history.jumped
            /\ history'.passed = history.passed
            /\ StillQuiet' = StillQuiet
            /\ history'.faults = history.faults + 1
            /\ history'.pushes = [history.pushes EXCEPT ![r] = n]
        BY <1>1, <4>1 DEF History, StillQuiet
      <4> QED
        BY <1>1, <3>1, <4>2, <4>3
    <3> QED
      BY <3>2, <3>3
  <2> QED
    BY <1>1, <1>2, <2>1, <2>2, <2>3 DEF Retries, Queued
<1>6. ASSUME NEW r \in Row, NEW age \in {"due", "old"}, RowTime(r, age)
      PROVE  Retries(r)
  <2>1. /\ rows[r] \in Queued /\ rows' = [rows EXCEPT ![r] = age]
        /\ age \in Queued \cup {"dropped"}
        /\ UNCHANGED <<stream, cursor, d, history>>
    BY <1>6 DEF RowTime, Queued
  <2> QED
    <3>1. /\ history'.faults >= history.faults
          /\ history'.pushes[r] + history.faults
               <= history.pushes[r] + history'.faults
      BY <1>1, <2>1
    <3>2. \E x \in Queued \cup {"dropped"} :
            /\ rows' = [rows EXCEPT ![r] = x]
            /\ r \notin d'.left \/ x \in {"due", "old"}
      BY <2>1
    <3> QED
      BY <2>1, <3>1, <3>2 DEF Retries, StillQuiet
<1> QED
  BY <1>3, <1>4, <1>5, <1>6

LEMMA PushInvStep == PushInv /\ [Next]_vars => PushInv'
<1> SUFFICES ASSUME PushInv, [Next]_vars PROVE PushInv'
  OBVIOUS
<1>1. PushType'
  BY PushTypeStep DEF PushInv
<1>2. CASE Rests \/ Jumps \/ Begins \/ Cleans \/ \E r \in Row : Retries(r)
  BY <1>1, <1>2, RestsKeep, JumpsKeep, BeginsKeep, CleansKeep, RetriesKeep
<1>3. CASE UNCHANGED vars
  <2>1. history.faults \in Nat
    BY DEF PushInv, PushType, CoreType, History
  <2>2. Rests
    BY <1>3, <2>1 DEF vars, Rests, StillQuiet
  <2> QED
    BY <1>2, <2>2
<1>4. CASE \/ SettingsToken \/ LoopDevices \/ PassDone \/ PassFails \/ Unpark
           \/ WaitEnds \/ RefreshFails
           \/ \E on \in BOOLEAN, pc \in {"token", "absent", "dead"} :
                 Restart(on, pc)
           \/ \E v \in Device : PutDevice(v) \/ DeleteDevice(v)
           \/ \E on \in BOOLEAN : PutSetting(on)
  BY <1>2, <1>4, RestingSteps
<1>5. CASE RefreshRelay \/ TickDevices \/ RequestEnds \/ ForwarderFails
  BY <1>2, <1>5, BaselineSteps DEF RequestEnds
<1>6. CASE ReadBatch \/ RemoveGone \/ \E b \in BOOLEAN : Gone(b)
  BY <1>2, <1>6, PassSteps
<1>7. CASE \/ \E r \in d.left : SendUnregistered(r)
           \/ \E r \in d.left, b \in BOOLEAN : SendRefused(r, b) \/ SendRetry(r, b)
           \/ \E r \in Row, age \in {"due", "old"} : RowTime(r, age)
  <2>1. d.left \subseteq Row
    BY DEF PushInv, PushType, CoreType, DState
  <2> QED
    BY <1>2, <1>7, <2>1, RetryingSteps
<1>8. CASE ReadEvent
  BY <1>1, <1>8, ReadEventKeeps
<1>9. CASE WriteCursor
  BY <1>1, <1>9, WriteCursorKeeps
<1>10. CASE Mark
  BY <1>1, <1>10, MarkKeeps
<1>11. ASSUME NEW r \in d.left, SendTaken(r) PROVE PushInv'
  BY <1>1, <1>11, SendTakenKeeps
<1>12. ASSUME NEW a \in Alert, Raise(a) \/ Answer(a) PROVE PushInv'
  BY <1>1, <1>12, RaiseKeeps, AnswerKeeps
<1> QED
  BY <1>3, <1>4, <1>5, <1>6, <1>7, <1>8, <1>9, <1>10, <1>11, <1>12
  DEF Next, DispatcherStep

(***************************************************************************)
(* The saved cursor never passes an alert that is not in the outbox,       *)
(* unless a baseline passed it: the rows are committed before cursor.json  *)
(* is written, whatever crashes or fails in between.                       *)
(***************************************************************************)
THEOREM CursorBehindRowsHolds == Spec => []CursorBehindRows
<1>1. PushInv => CursorBehindRows
  BY DEF PushInv, PassCovered, Covered, HasRow, CursorBehindRows
<1> QED
  BY <1>1, PushInvInit, PushInvStep, PTL DEF Spec

(***************************************************************************)
(* A device gets an alert once, and once more at most for every failure:   *)
(* passes that run again and events that are read again add nothing.       *)
(***************************************************************************)
THEOREM PushedOnceHolds == Spec => []PushedOnce
<1>1. PushInv => PushedOnce
  BY DEF PushInv, PushesAreFaults, PushedOnce
<1> QED
  BY <1>1, PushInvInit, PushInvStep, PTL DEF Spec

(***************************************************************************)
(* What was raised while the address was off, and known to be off, is not  *)
(* pushed when the address comes back, unless it was still unread when a   *)
(* process started with the address set: a start takes no baseline         *)
(* (service.py:1795), although docs/push.md:75 and dispatcher.py:281 say   *)
(* that what happened while push was off is never pushed.                  *)
(***************************************************************************)
THEOREM QuietStaysQuietHolds == Spec => []QuietStaysQuiet
<1>1. PushInv => QuietStaysQuiet
  BY DEF PushInv, RowsWereRaised, QuietIsPassed, StillQuiet, QuietStaysQuiet
<1> QED
  BY <1>1, PushInvInit, PushInvStep, PTL DEF Spec

(***************************************************************************)
(* No alert leaves once a pass has read its answer, unless a baseline      *)
(* passed the answer.                                                      *)
(***************************************************************************)
THEOREM AnsweredNotPushedHolds == Spec => AnsweredNotPushed
<1> DEFINE Unread(r) == r[1] \in history.passed \/ \A p \in At(r[1], TRUE) : p > d.at
<1>1. PushInv /\ [Next]_vars
        => [\A r \in Row : history'.pushes[r] > history.pushes[r]
              => r[1] \in history.passed \/ \A p \in At(r[1], TRUE) : p > d.at]_vars
  <2> SUFFICES ASSUME PushInv, Next, NEW r \in Row,
                      history'.pushes[r] > history.pushes[r]
               PROVE  Unread(r)
    OBVIOUS
  <2>1. /\ history.pushes \in [Row -> Nat] /\ history \in History
        /\ d.left \subseteq Row /\ CoreType
    BY DEF PushInv, PushType, CoreType, History, DState
  <2>2. ASSUME d.pc = "send", r \in d.left PROVE Unread(r)
    <3>1. Unanswered(d.at) /\ rows[r] \in Queued
      BY <2>2 DEF PushInv, QueuedUnanswered, Passing, LeftIsDue, Queued
    <3> QED
      BY <3>1 DEF Unanswered
  <2>3. ASSUME history'.pushes = history.pushes PROVE FALSE
    BY <2>1, <2>3
  <2>4. ASSUME NEW q \in d.left, SendTaken(q) PROVE Unread(r)
    <3>1. history'.pushes = [history.pushes EXCEPT ![q] = @ + 1] /\ d.pc = "send"
      BY <2>1, <2>4 DEF SendTaken, History
    <3>2. q = r
      BY <2>1, <3>1
    <3> QED
      BY <2>2, <3>1, <3>2
  <2>5. ASSUME NEW q \in d.left, NEW b \in BOOLEAN, SendRetry(q, b)
        PROVE  Unread(r)
    <3>1. Retries(q) /\ d.pc = "send"
      BY <2>5, RetryingSteps DEF SendRetry
    <3>2. q = r
      BY <2>1, <3>1 DEF Retries
    <3> QED
      BY <2>2, <3>1, <3>2
  <2>6. CASE \/ SettingsToken \/ LoopDevices \/ PassDone \/ PassFails \/ Unpark
             \/ WaitEnds \/ RefreshFails
             \/ \E on \in BOOLEAN, pc \in {"token", "absent", "dead"} :
                   Restart(on, pc)
             \/ \E v \in Device : PutDevice(v) \/ DeleteDevice(v)
             \/ \E on \in BOOLEAN : PutSetting(on)
    BY <2>3, <2>6, RestingSteps DEF Rests
  <2>7. CASE RefreshRelay \/ TickDevices \/ RequestEnds \/ ForwarderFails
    <3>1. Jumped(history).pushes = history.pushes
      BY <2>1, JumpEffect
    <3>2. Rests \/ Jumps \/ Begins
      BY <2>7, BaselineSteps DEF RequestEnds
    <3>3. history'.pushes = history.pushes
      BY <3>1, <3>2 DEF Rests, Jumps, Begins
    <3> QED
      BY <2>3, <3>3
  <2>8. CASE \/ ReadBatch \/ RemoveGone \/ ReadEvent \/ WriteCursor \/ Mark
             \/ \E b \in BOOLEAN : Gone(b)
             \/ \E q \in d.left : SendUnregistered(q)
             \/ \E q \in Row, age \in {"due", "old"} : RowTime(q, age)
    BY <2>3, <2>8 DEF ReadBatch, RemoveGone, ReadEvent, WriteCursor, Mark, Gone,
         SendUnregistered, RowTime
  <2>9. CASE \E a \in Alert : Raise(a) \/ Answer(a)
    BY <2>3, <2>9, AppendFacts
  <2>10. CASE \E q \in d.left, b \in BOOLEAN : SendRefused(q, b)
    BY <2>1, <2>3, <2>10 DEF SendRefused, History
  <2> HIDE DEF Unread
  <2> QED
    BY <2>4, <2>5, <2>6, <2>7, <2>8, <2>9, <2>10
    DEF Next, DispatcherStep
<1> QED
  BY <1>1, PushInvInit, PushInvStep, PTL DEF Spec, AnsweredNotPushed
=============================================================================
