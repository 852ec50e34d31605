-------------------------- MODULE UserStreamProofs --------------------------
(***************************************************************************)
(* What the runner's thread, the ticks and the boot repair of UserStream   *)
(* keep for any number of runs, waits, items and faults: a badge goes only *)
(* when its wait is over, and a run shows one badge.                       *)
(***************************************************************************)
EXTENDS UserStream, FiniteSetTheorems, SequenceTheorems, TLAPS

USE StreamAssumption

-----------------------------------------------------------------------------
(* Types.                                                                  *)

LoopPc == {"poll", "drain", "pointers", "attention", "entry", "floor", "raise",
           "raiseNext", "keep", "check", "load", "close", "missing"}

LoopRecord == [pc : LoopPc, boot : BOOLEAN, left : Seq(Entry),
               todo : SUBSET (Run \X (0..MaxWaits)), got : State]

Call == [pc : {"idle", "tick", "park", "resolve", "pop", "pointer"},
         run : {{}} \cup {{r} : r \in Run}, state : State, pointer : BOOLEAN]

StreamRecord == [used : BOOLEAN, started : SUBSET Run, finished : SUBSET Run,
                 raised : SUBSET Wait, seen : SUBSET Wait, items : SUBSET Item]

DiskRecord == [open : [Run -> 0..MaxWaits], stored : BOOLEAN,
               floor : 0..MaxItems, floored : BOOLEAN]

HistoryRecord == [lost : BOOLEAN, unheard : SUBSET Run, late : SUBSET Wait,
                  unlisted : SUBSET Run, ahead : SUBSET Wait,
                  orphan : SUBSET Wait,
                  unsent : SUBSET Item, base : Nat, faults : 0..MaxFaults]

RunTypes ==
    /\ run \in [Run -> State] /\ hidden \subseteq Run
    /\ ledger \in [Run -> Seq(Nat)]
    /\ \A r \in Run : Len(ledger[r]) <= MaxWaits
    /\ items \in 0..MaxItems /\ aged \subseteq Run

StreamTypes ==
    /\ stream \in StreamRecord /\ disk \in DiskRecord
    /\ open \in [Run -> 0..MaxWaits] /\ history \in HistoryRecord

LoopTypes ==
    /\ loop \in LoopRecord /\ rebuilt \in BOOLEAN /\ queue \in Seq(Entry)

PostTypes == post \in [Thread -> Call]

-----------------------------------------------------------------------------
(* The shape of the loop.                                                  *)

Working == {"tick", "park"}
Raising == {"raise", "raiseNext", "keep", "check"}
Reporting == {"resolve", "pop", "pointer"}

\* The run of the entry at hand, as a set.
Subject == Head(loop.left).run

\* A tick thread reports its own run, and parks behind a record.  A run that
\* waits is not being ticked, and waits on the newest of its records.
RunsFit ==
    \A r \in Run :
        /\ post[r].pc \in Reporting => post[r].run = {r}
        /\ post[r].pc = "park" => Len(ledger[r]) >= 1
        /\ run[r].st = "waiting" => /\ run[r].step = Len(ledger[r])
                                    /\ run[r].step >= 1
                                    /\ post[r].pc \notin Working

\* An entry is a wait or an item that was recorded.
Recorded(q) ==
    \/ q.run = {} /\ q.n \in 1..items
    \/ \E r \in Run : q.run = {r} /\ q.n \in 1..Len(ledger[r])

EntriesFit ==
    /\ \A i \in 1..Len(queue) : Recorded(queue[i])
    /\ \A i \in 1..Len(loop.left) : Recorded(loop.left[i])

\* Which entries the loop has at hand.  The boot repair raises items before
\* it has loaded the open waits, and afterwards only waits it found missing.
LoopFits ==
    /\ ~rebuilt => loop.pc \in {"poll", "drain"} /\ ~loop.boot
    /\ loop.pc \in {"poll", "pointers", "attention"} => ~loop.boot
    /\ loop.pc \in {"close", "missing"} => loop.boot /\ loop.left = <<>>
    /\ loop.pc \in Raising \cup {"entry", "floor"} => loop.left # <<>>
    /\ loop.pc \in Raising => Subject # {}
    /\ loop.pc = "floor" => Subject = {}
    /\ loop.boot => /\ loop.pc \notin {"raise", "raiseNext", "check"}
                    /\ loop.pc \in {"entry", "floor"} =>
                         \A i \in 1..Len(loop.left) : loop.left[i].run = {}

\* A wait that the boot repair lists as missing stays the newest record.
MissingFits ==
    loop.pc = "missing" \/ (loop.boot /\ loop.pc = "keep") =>
        \A w \in loop.todo : /\ w[2] = Len(ledger[w[1]]) /\ w[2] >= 1
                             /\ post[w[1]].pc \notin Working

Shape ==
    /\ RunTypes /\ StreamTypes /\ LoopTypes /\ PostTypes
    /\ RunsFit /\ EntriesFit /\ LoopFits /\ MissingFits

-----------------------------------------------------------------------------
(* The operators the actions are made of.                                  *)

LEMMA Threads == Run \subseteq Thread /\ Loop \in Thread /\ Loop \notin Run
BY DEF Thread

LEMMA NewIsState == NewRun \in State /\ NoCall \in Call /\ AtPoll \in LoopRecord
<1>1. NewRun \in State
  BY DEF NewRun, State
<1>2. NoCall \in Call
  BY <1>1 DEF NoCall, Call
<1>3. <<>> \in Seq(Entry)
  OBVIOUS
<1> QED
  BY <1>1, <1>2, <1>3 DEF AtPoll, LoopRecord, LoopPc

LEMMA LoopFields ==
    ASSUME loop \in LoopRecord
    PROVE  /\ loop.pc \in LoopPc /\ loop.boot \in BOOLEAN
           /\ loop.left \in Seq(Entry) /\ Len(loop.left) \in Nat
           /\ loop.todo \subseteq Run \X (0..MaxWaits) /\ loop.got \in State
BY DEF LoopRecord

\* The loop moves on and keeps the rest of its state.
LEMMA GotoLoop ==
    ASSUME loop \in LoopRecord, NEW pc \in LoopPc, Goto(pc)
    PROVE  /\ loop' \in LoopRecord /\ loop'.pc = pc /\ loop'.boot = loop.boot
           /\ loop'.left = loop.left /\ loop'.todo = loop.todo
           /\ loop'.got = loop.got
BY DEF LoopRecord, Goto

LEMMA DoneLoop ==
    ASSUME loop \in LoopRecord, NEW w, Done(w)
    PROVE  /\ loop' \in LoopRecord /\ loop'.pc = loop.pc
           /\ loop'.boot = loop.boot /\ loop'.left = loop.left
           /\ loop'.todo = loop.todo \ {w} /\ loop'.got = loop.got
<1>1. loop.todo \ {w} \in SUBSET (Run \X (0..MaxWaits))
  BY LoopFields
<1> QED
  BY <1>1 DEF LoopRecord, Done

\* The end of an entry: the next one, the rest of the boot, or a new round.
LEMMA NextEntryLoop ==
    ASSUME loop \in LoopRecord, loop.left # <<>>, NextEntry
    PROVE  /\ loop' \in LoopRecord
           /\ \/ /\ Len(loop.left) > 1 /\ loop'.pc = "entry"
                 /\ loop'.left = Tail(loop.left) /\ loop'.boot = loop.boot
              \/ /\ loop.boot /\ loop'.boot /\ loop'.pc = "load"
                 /\ loop'.left = <<>>
              \/ ~loop.boot /\ loop' = AtPoll
<1>1. loop.left \in Seq(Entry) /\ Tail(loop.left) \in Seq(Entry)
      /\ <<>> \in Seq(Entry)
  BY LoopFields
<1>2. CASE Len(loop.left) > 1
  <2>1. loop' = [loop EXCEPT !.pc = "entry", !.left = Tail(loop.left)]
    BY <1>2 DEF NextEntry
  <2> QED
    BY <1>1, <1>2, <2>1 DEF LoopRecord, LoopPc
<1>3. CASE ~(Len(loop.left) > 1) /\ loop.boot
  <2>1. loop' = [loop EXCEPT !.pc = "load", !.left = <<>>]
    BY <1>3 DEF NextEntry
  <2> QED
    BY <1>1, <1>3, <2>1 DEF LoopRecord, LoopPc
<1>4. CASE ~(Len(loop.left) > 1) /\ ~loop.boot
  BY <1>4, NewIsState DEF NextEntry
<1> QED
  BY <1>2, <1>3, <1>4

LEMMA AbandonLoop ==
    ASSUME loop \in LoopRecord, loop.left # <<>>, Abandon
    PROVE  (loop.boot /\ Goto("drain")) \/ (~loop.boot /\ NextEntry)
BY DEF Abandon

LEMMA RaisesHistory ==
    ASSUME history \in HistoryRecord, NEW unsent \in SUBSET Item,
           AppendRaisesFor(unsent)
    PROVE  /\ history' \in HistoryRecord /\ stream' = stream
           /\ history'.lost = TRUE /\ history'.ahead = history.ahead
<1>1. history.faults + 1 \in 0..MaxFaults
  BY DEF AppendRaisesFor, HistoryRecord
<1>2. history.unsent \cup unsent \in SUBSET Item
  BY DEF HistoryRecord
<1> QED
  BY <1>1, <1>2 DEF AppendRaisesFor, HistoryRecord

LEMMA UnreadableHistory ==
    ASSUME history \in HistoryRecord, NEW r \in Run, LedgerUnreadable(r)
    PROVE  /\ history' \in HistoryRecord /\ stream' = stream
           /\ history'.lost = history.lost /\ history'.orphan = history.orphan
           /\ history'.ahead = history.ahead
<1>1. history.faults + 1 \in 0..MaxFaults
  BY DEF LedgerUnreadable, HistoryRecord
<1>2. history.unlisted \cup {r} \in SUBSET Run
  BY DEF HistoryRecord
<1> QED
  BY <1>1, <1>2 DEF LedgerUnreadable, HistoryRecord

LEMMA KeptOpen ==
    ASSUME StreamTypes, NEW r \in Run, NEW n \in 0..MaxWaits, KeepOpen(r, n)
    PROVE  /\ open' \in [Run -> 0..MaxWaits] /\ disk' \in DiskRecord
           /\ open' = [open EXCEPT ![r] = n] /\ disk'.open = open'
           /\ disk'.floor = disk.floor /\ disk'.floored = disk.floored
<1>1. open' \in [Run -> 0..MaxWaits] /\ open' = [open EXCEPT ![r] = n]
  BY DEF KeepOpen, StreamTypes
<1>2. PICK o : o = open'
  OBVIOUS
<1>3. disk' = [disk EXCEPT !.open = o, !.stored = TRUE]
  BY <1>2 DEF KeepOpen
<1>4. disk \in DiskRecord /\ o \in [Run -> 0..MaxWaits]
  BY <1>1, <1>2 DEF StreamTypes
<1>5. /\ disk' \in DiskRecord /\ disk'.open = o /\ disk'.floor = disk.floor
      /\ disk'.floored = disk.floored
  BY <1>3, <1>4 DEF DiskRecord
<1> QED
  BY <1>1, <1>2, <1>5

LEMMA SeenStream ==
    ASSUME stream \in StreamRecord, NEW w \in Wait, Seen(w)
    PROVE  /\ stream' \in StreamRecord /\ stream'.seen = stream.seen \cup {w}
           /\ stream'.raised = stream.raised
<1>1. stream.seen \cup {w} \in SUBSET Wait
  BY DEF StreamRecord
<1> QED
  BY <1>1 DEF Seen, StreamRecord

LEMMA RaisedStream ==
    ASSUME stream \in StreamRecord, NEW w \in Wait, Raised(w)
    PROVE  /\ stream' \in StreamRecord /\ stream'.seen = stream.seen
           /\ stream'.raised = stream.raised \cup {w}
<1>1. stream.raised \cup {w} \in SUBSET Wait
  BY DEF StreamRecord
<1> QED
  BY <1>1 DEF Raised, StreamRecord

LEMMA PointersStream ==
    ASSUME stream \in StreamRecord, NEW states, DOMAIN states \subseteq Run,
           Pointers(states)
    PROVE  /\ stream' \in StreamRecord /\ stream'.seen = stream.seen
           /\ stream'.raised = stream.raised
<1>1. PICK A, B : /\ A = stream.started \cup {r \in DOMAIN states : states[r].st # "gone"}
                  /\ B = stream.finished \cup {r \in DOMAIN states : states[r].st = "ended"}
  OBVIOUS
<1>2. A \in SUBSET Run /\ B \in SUBSET Run
  BY <1>1 DEF StreamRecord
<1>3. stream' = [stream EXCEPT !.started = A, !.finished = B]
  BY <1>1 DEF Pointers
<1> QED
  BY <1>2, <1>3 DEF StreamRecord

\* A report of thread t.
LEMMA StreamRunPost ==
    ASSUME PostTypes, NEW t \in Thread, NEW r \in Run, NEW s \in State,
           NEW p \in BOOLEAN, StreamRun(t, r, s, p)
    PROVE  /\ PostTypes' /\ \A u \in Thread : u # t => post'[u] = post[u]
           /\ post'[t].pc = "resolve" /\ post'[t].run = {r}
           /\ post'[t].state = s
<1>1. [pc |-> "resolve", run |-> {r}, state |-> s, pointer |-> p] \in Call
  BY DEF Call
<1> QED
  BY <1>1 DEF StreamRun, PostTypes

LEMMA ResolvedPost ==
    ASSUME PostTypes, NEW t \in Thread, Resolved(t)
    PROVE  /\ PostTypes' /\ \A u \in Thread : u # t => post'[u] = post[u]
           /\ \/ post'[t] = NoCall
              \/ post'[t].pc = "pointer" /\ post'[t].run = post[t].run
<1>1. post[t] \in Call
  BY DEF PostTypes
<1>2. PICK c : c = IF post[t].pointer THEN [post[t] EXCEPT !.pc = "pointer"]
                   ELSE NoCall
  OBVIOUS
<1>3. c \in Call /\ (c = NoCall \/ (c.pc = "pointer" /\ c.run = post[t].run))
  BY <1>1, <1>2, NewIsState DEF Call
<1>4. post' = [post EXCEPT ![t] = c]
  BY <1>2 DEF Resolved
<1> QED
  BY <1>3, <1>4 DEF PostTypes

-----------------------------------------------------------------------------
(* The shape is kept: steps of the loop.                                   *)

\* The steps of the loop that raise and repair leave the runs alone.
Frame ==
    /\ UNCHANGED <<run, hidden, ledger, items, aged>>
    /\ \A r \in Run : post'[r] = post[r]

LEMMA FrameShape ==
    ASSUME Shape, Frame, PostTypes', StreamTypes', LoopTypes', EntriesFit',
           LoopFits', MissingFits'
    PROVE  Shape'
<1>1. RunTypes'
  BY DEF Shape, Frame, RunTypes
<1>2. RunsFit'
  BY DEF Shape, Frame, RunsFit
<1> QED
  BY <1>1, <1>2 DEF Shape

LEMMA RecordedFrame == ASSUME Frame PROVE \A q : Recorded(q)' <=> Recorded(q)
BY DEF Frame, Recorded

\* The entry at hand is recorded, and so is what lies behind it.
LEMMA HeadFits ==
    ASSUME Shape, loop.left # <<>>
    PROVE  /\ Len(loop.left) \in Nat /\ Len(loop.left) >= 1
           /\ Head(loop.left) = loop.left[1] /\ Recorded(Head(loop.left))
           /\ Head(loop.left) \in Entry
           /\ Tail(loop.left) \in Seq(Entry)
           /\ Len(Tail(loop.left)) = Len(loop.left) - 1
           /\ \A i \in 1..Len(Tail(loop.left)) :
                /\ i + 1 \in 1..Len(loop.left)
                /\ Tail(loop.left)[i] = loop.left[i + 1]
<1>1. loop.left \in Seq(Entry)
  BY LoopFields DEF Shape, LoopTypes
<1>2. /\ Len(loop.left) \in Nat /\ Len(loop.left) >= 1
      /\ Head(loop.left) = loop.left[1] /\ Head(loop.left) \in Entry
      /\ Tail(loop.left) \in Seq(Entry)
      /\ Len(Tail(loop.left)) = Len(loop.left) - 1
  BY <1>1
<1>3. \A i \in 1..Len(Tail(loop.left)) :
        /\ i + 1 \in 1..Len(loop.left)
        /\ Tail(loop.left)[i] = loop.left[i + 1]
  BY <1>1, <1>2
<1>4. Recorded(loop.left[1])
  BY <1>2 DEF Shape, EntriesFit
<1> QED
  BY <1>2, <1>3, <1>4

LEMMA WaitAtHand ==
    ASSUME Shape, loop.left # <<>>, Subject # {}
    PROVE  \E r \in Run : Subject = {r} /\ N \in 1..Len(ledger[r])
                          /\ N \in 1..MaxWaits /\ <<r, N>> \in Wait
<1>1. PICK r \in Run : Subject = {r} /\ N \in 1..Len(ledger[r])
  BY HeadFits DEF Recorded, Subject, N
<1>2. Len(ledger[r]) \in Nat /\ Len(ledger[r]) <= MaxWaits
  BY DEF Shape, RunTypes
<1>3. N \in 1..MaxWaits
  BY <1>1, <1>2
<1> QED
  BY <1>1, <1>3 DEF Wait

LEMMA ItemAtHand ==
    ASSUME Shape, loop.left # <<>>, Subject = {}
    PROVE  N \in 1..items /\ N \in Item /\ N \in 0..MaxItems
<1>1. N \in 1..items
  BY HeadFits DEF Recorded, Subject, N
<1>2. items \in 0..MaxItems
  BY DEF Shape, RunTypes
<1> QED
  BY <1>1, <1>2 DEF Item

\* The end of an entry keeps the shape of the loop.
LEMMA NextEntryFits ==
    ASSUME Shape, Frame, loop.pc \in {"entry", "floor", "raise", "raiseNext", "check"},
           NextEntry, UNCHANGED <<queue, rebuilt>>
    PROVE  LoopTypes' /\ EntriesFit' /\ LoopFits' /\ MissingFits'
<1>1. LoopTypes /\ EntriesFit /\ LoopFits /\ rebuilt /\ loop.left # <<>>
  BY DEF Shape, LoopFits, Raising, LoopTypes
<1>2. /\ loop' \in LoopRecord
      /\ \/ /\ Len(loop.left) > 1 /\ loop'.pc = "entry"
            /\ loop'.left = Tail(loop.left) /\ loop'.boot = loop.boot
         \/ loop.boot /\ loop'.boot /\ loop'.pc = "load" /\ loop'.left = <<>>
         \/ ~loop.boot /\ loop' = AtPoll
  BY <1>1, NextEntryLoop DEF LoopTypes
<1>3. LoopTypes'
  BY <1>1, <1>2 DEF LoopTypes
<1>4. CASE /\ Len(loop.left) > 1 /\ loop'.pc = "entry"
           /\ loop'.left = Tail(loop.left) /\ loop'.boot = loop.boot
  <2>1. /\ Len(loop'.left) = Len(loop.left) - 1
        /\ \A i \in 1..Len(loop'.left) :
             i + 1 \in 1..Len(loop.left) /\ loop'.left[i] = loop.left[i + 1]
        /\ Len(loop.left) \in Nat
    BY <1>1, <1>4, HeadFits
  <2>2. EntriesFit'
    <3>1. \A i \in 1..Len(loop'.left) : Recorded(loop'.left[i])
      BY <1>1, <2>1 DEF EntriesFit
    <3>2. \A i \in 1..Len(queue') : Recorded(queue'[i])
      BY <1>1 DEF EntriesFit
    <3> QED
      BY <3>1, <3>2, RecordedFrame DEF EntriesFit
  <2>3. loop'.left # <<>>
    <3>1. Len(loop'.left) # 0
      <4>1. PICK k : k = Len(loop.left)
        OBVIOUS
      <4>2. k \in Nat /\ k > 1 /\ Len(loop'.left) = k - 1
        BY <1>4, <2>1, <4>1
      <4> QED
        BY <4>2
    <3>2. Len(<<>>) = 0
      OBVIOUS
    <3> QED
      BY <3>1, <3>2
  <2>4. loop'.boot => \A i \in 1..Len(loop'.left) : loop'.left[i].run = {}
    BY <1>1, <1>4, <2>1 DEF LoopFits
  <2>5. LoopFits'
    BY <1>1, <1>4, <2>3, <2>4 DEF LoopFits, Raising
  <2>6. MissingFits'
    BY <1>4 DEF MissingFits
  <2> QED
    BY <1>3, <2>2, <2>5, <2>6
<1>5. CASE loop.boot /\ loop'.boot /\ loop'.pc = "load" /\ loop'.left = <<>>
  <2>1. EntriesFit'
    BY <1>1, <1>5, RecordedFrame DEF EntriesFit
  <2>2. LoopFits' /\ MissingFits'
    BY <1>1, <1>5 DEF LoopFits, Raising, MissingFits
  <2> QED
    BY <1>3, <2>1, <2>2
<1>6. CASE ~loop.boot /\ loop' = AtPoll
  <2>1. loop'.left = <<>> /\ loop'.pc = "poll" /\ loop'.boot = FALSE
    BY <1>6 DEF AtPoll
  <2>2. EntriesFit'
    BY <1>1, <2>1, RecordedFrame DEF EntriesFit
  <2>3. LoopFits' /\ MissingFits'
    BY <1>1, <2>1 DEF LoopFits, Raising, MissingFits
  <2> QED
    BY <1>3, <2>2, <2>3
<1> QED
  BY <1>2, <1>4, <1>5, <1>6

\* The loop leaves the boot repair, or goes on within an entry.
LEMMA GotoFits ==
    ASSUME Shape, Frame, NEW pc \in {"drain", "attention", "load", "floor",
                                     "raiseNext", "keep"},
           Goto(pc), UNCHANGED <<queue, rebuilt>>, rebuilt,
           pc = "attention" => ~loop.boot,
           pc = "floor" => loop.pc = "entry" /\ Subject = {},
           pc \in {"raiseNext", "keep"} =>
             ~loop.boot /\ loop.left # <<>> /\ Subject # {}
    PROVE  LoopTypes' /\ EntriesFit' /\ LoopFits' /\ MissingFits'
<1>1. LoopTypes /\ EntriesFit /\ LoopFits
  BY DEF Shape
<1>2. /\ loop' \in LoopRecord /\ loop'.pc = pc /\ loop'.boot = loop.boot
      /\ loop'.left = loop.left
  BY <1>1, GotoLoop DEF LoopTypes, LoopPc
<1>3. LoopTypes'
  BY <1>1, <1>2 DEF LoopTypes
<1>4. EntriesFit'
  BY <1>1, <1>2, RecordedFrame DEF EntriesFit
<1>5. LoopFits'
  BY <1>1, <1>2 DEF LoopFits, Raising, Subject
<1>6. MissingFits'
  BY <1>2 DEF MissingFits
<1> QED
  BY <1>3, <1>4, <1>5, <1>6

LEMMA DrainShape == ASSUME Shape, LoopDrain PROVE Shape'
<1>1. LoopTypes /\ EntriesFit /\ LoopFits /\ Frame /\ PostTypes' /\ StreamTypes'
  BY DEF Shape, LoopDrain, Frame, diskVars, PostTypes, StreamTypes
<1>2. rebuilt' = TRUE /\ queue' \in {queue, <<>>}
  BY DEF LoopDrain
<1>3. loop \in LoopRecord /\ queue \in Seq(Entry)
  BY <1>1 DEF LoopTypes
<1>4. /\ loop' \in LoopRecord
      /\ \/ loop'.pc = "poll" /\ loop'.left = <<>> /\ loop'.boot = FALSE
         \/ /\ loop'.pc = "entry" /\ loop'.left = queue /\ loop'.boot = FALSE
            /\ queue # <<>>
         \/ /\ loop'.pc = "pointers" /\ loop'.left = loop.left
            /\ loop'.boot = FALSE
  <2>1. CASE rebuilt /\ queue = <<>>
    <3>1. loop' = AtPoll
      BY <2>1 DEF LoopDrain
    <3>2. AtPoll.pc = "poll" /\ AtPoll.left = <<>> /\ AtPoll.boot = FALSE
      BY DEF AtPoll
    <3> QED
      BY <3>1, <3>2, NewIsState
  <2>2. CASE rebuilt /\ queue # <<>>
    <3>1. loop' = [AtPoll EXCEPT !.pc = "entry", !.left = queue]
      BY <2>2 DEF LoopDrain
    <3>2. loop' \in LoopRecord
      BY <1>3, <3>1, NewIsState DEF LoopRecord, LoopPc
    <3>3. loop'.pc = "entry" /\ loop'.left = queue /\ loop'.boot = FALSE
      BY <3>1 DEF AtPoll
    <3> QED
      BY <2>2, <3>2, <3>3
  <2>3. CASE ~rebuilt
    <3>1. Goto("pointers")
      BY <2>3 DEF LoopDrain
    <3> QED
      BY <1>1, <1>3, <2>3, <3>1, GotoLoop DEF LoopPc, LoopFits, LoopRecord
  <2> QED
    BY <2>1, <2>2, <2>3
<1>5. LoopTypes'
  <2>1. queue' \in Seq(Entry)
    <3>1. <<>> \in Seq(Entry)
      OBVIOUS
    <3> QED
      BY <1>2, <1>3, <3>1
  <2> QED
    BY <1>2, <1>4, <2>1 DEF LoopTypes
<1>6. EntriesFit'
  BY <1>1, <1>2, <1>4, RecordedFrame DEF EntriesFit
<1>7. LoopFits' /\ MissingFits'
  BY <1>2, <1>4 DEF LoopFits, MissingFits, Raising
<1> QED
  BY <1>1, <1>5, <1>6, <1>7, FrameShape

LEMMA ItemShape == ASSUME Shape, RaiseItem \/ RaiseFloor PROVE Shape'
<1>1. LoopTypes /\ LoopFits /\ Frame /\ PostTypes' /\ StreamTypes
      /\ UNCHANGED <<queue, rebuilt, open>>
  BY DEF Shape, RaiseItem, RaiseFloor, Frame, PostTypes
<1>2. /\ loop.pc \in {"entry", "floor"} /\ loop.left # <<>> /\ Subject = {}
      /\ rebuilt
  BY <1>1 DEF RaiseItem, RaiseFloor, Entering, At, LoopFits, Subject
<1>3. N \in 1..items /\ N \in Item /\ N \in 0..MaxItems
  BY <1>2, ItemAtHand
<1>4. CASE RaiseFloor
  <2>1. StreamTypes'
    <3>1. PICK f : f = IF N > disk.floor THEN N ELSE disk.floor
      OBVIOUS
    <3>2. disk \in DiskRecord /\ f \in 0..MaxItems
      BY <1>1, <1>3, <3>1 DEF StreamTypes, DiskRecord
    <3>3. disk' = [disk EXCEPT !.floored = TRUE, !.floor = f]
      BY <1>4, <3>1 DEF RaiseFloor
    <3>4. disk' \in DiskRecord
      BY <3>2, <3>3 DEF DiskRecord
    <3> QED
      BY <1>1, <1>4, <3>4 DEF StreamTypes, RaiseFloor
  <2>2. NextEntry
    BY <1>4 DEF RaiseFloor
  <2> QED
    BY <1>1, <1>2, <2>1, <2>2, NextEntryFits, FrameShape
<1>5. CASE RaiseItem
  <2>2. ASSUME AppendRaisesFor(IF loop.boot THEN N..items ELSE {N})
        PROVE  StreamTypes'
    <3>1. (IF loop.boot THEN N..items ELSE {N}) \in SUBSET Item
      BY <1>3 DEF Item, Shape, RunTypes
    <3>2. history' \in HistoryRecord /\ stream' = stream
      BY <1>1, <2>2, <3>1, RaisesHistory DEF StreamTypes
    <3> QED
      BY <1>1, <1>5, <3>2 DEF StreamTypes, RaiseItem
  <2>3. StreamTypes'
    <3>1. \/ stream' = [stream EXCEPT !.items = @ \cup {N}] /\ history' = history
          \/ AppendRaisesFor(IF loop.boot THEN N..items ELSE {N})
      BY <1>5 DEF RaiseItem
    <3>2. CASE stream' = [stream EXCEPT !.items = @ \cup {N}] /\ history' = history
      <4>1. stream.items \cup {N} \in SUBSET Item
        BY <1>1, <1>3 DEF StreamTypes, StreamRecord
      <4>2. stream' \in StreamRecord
        BY <1>1, <3>2, <4>1 DEF StreamTypes, StreamRecord
      <4> QED
        BY <1>1, <1>5, <3>2, <4>2 DEF StreamTypes, RaiseItem
    <3> QED
      BY <2>2, <3>1, <3>2
  <2>4. loop.pc = "entry" /\ (NextEntry \/ Goto("floor") \/ Goto("drain"))
    <3>1. loop.pc = "entry"
      BY <1>5 DEF RaiseItem, Entering, At
    <3>2. NextEntry \/ Goto("floor") \/ Abandon
      BY <1>5 DEF RaiseItem
    <3> QED
      BY <3>1, <3>2 DEF Abandon
  <2>5. LoopTypes' /\ EntriesFit' /\ LoopFits' /\ MissingFits'
    BY <1>1, <1>2, <2>4, NextEntryFits, GotoFits
  <2> QED
    BY <1>1, <2>3, <2>5, FrameShape
<1> QED
  BY <1>4, <1>5

LEMMA RaiseLoadShape == ASSUME Shape, RaiseLoad PROVE Shape'
<1>1. LoopTypes /\ EntriesFit /\ LoopFits /\ Frame /\ PostTypes' /\ StreamTypes'
      /\ UNCHANGED <<queue, rebuilt>>
  BY DEF Shape, RaiseLoad, Frame, PostTypes, StreamTypes, diskVars
<1>2. loop.pc = "entry" /\ loop.left # <<>> /\ Subject # {} /\ rebuilt
  BY <1>1 DEF RaiseLoad, Entering, At, LoopFits, Subject
<1>3. PICK r \in Subject :
          IF r \in hidden /\ run[r].st # "gone"
          THEN NextEntry
          ELSE loop' = [loop EXCEPT !.pc = "raise", !.got = run[r]]
  BY DEF RaiseLoad, Subject
<1>4. CASE NextEntry
  BY <1>1, <1>2, <1>4, NextEntryFits, FrameShape
<1>5. CASE loop' = [loop EXCEPT !.pc = "raise", !.got = run[r]]
  <2>1. run[r] \in State
    <3>1. r \in Run
      BY <1>2, WaitAtHand
    <3> QED
      BY <3>1 DEF Shape, RunTypes
  <2>2. /\ loop' \in LoopRecord /\ loop'.pc = "raise" /\ loop'.boot = loop.boot
        /\ loop'.left = loop.left
    BY <1>1, <1>5, <2>1 DEF LoopTypes, LoopRecord, LoopPc
  <2>3. ~loop.boot
    BY <1>1, <1>2, HeadFits DEF LoopFits, Subject
  <2>4. LoopTypes'
    BY <1>1, <2>2 DEF LoopTypes
  <2>5. EntriesFit'
    BY <1>1, <2>2, RecordedFrame DEF EntriesFit
  <2>6. LoopFits' /\ MissingFits'
    BY <1>1, <1>2, <2>2, <2>3 DEF LoopFits, MissingFits, Subject, Raising
  <2> QED
    BY <1>1, <2>4, <2>5, <2>6, FrameShape
<1> QED
  BY <1>3, <1>4, <1>5

LEMMA RaiseWaitShape ==
    ASSUME Shape, RaiseClosesPrevious \/ RaiseWait PROVE Shape'
<1>1. LoopTypes /\ LoopFits /\ Frame /\ PostTypes' /\ StreamTypes
      /\ UNCHANGED <<queue, rebuilt, open, disk>>
  BY DEF Shape, RaiseClosesPrevious, RaiseWait, Frame, PostTypes
<1>2. /\ loop.pc \in {"raise", "raiseNext"} /\ loop.left # <<>>
      /\ Subject # {} /\ rebuilt /\ ~loop.boot
  BY <1>1 DEF RaiseClosesPrevious, RaiseWait, At, LoopFits, Raising
<1>3. PICK r \in Run : Subject = {r} /\ <<r, N>> \in Wait
  BY <1>2, WaitAtHand
<1>4. /\ NextEntry \/ Goto("raiseNext") \/ Goto("keep")
      /\ \/ history' = history /\ (Raised(<<r, N>>)
                                    \/ (open[r] # 0 /\ Seen(<<r, open[r]>>)))
         \/ AppendRaises
  BY <1>3 DEF RaiseClosesPrevious, RaiseWait, Subject
<1>5. StreamTypes'
  <2>1. open[r] # 0 => <<r, open[r]>> \in Wait
    BY <1>1 DEF StreamTypes, Wait
  <2>2. CASE AppendRaises
    BY <1>1, <2>2, RaisesHistory DEF StreamTypes, AppendRaises
  <2>3. CASE history' = history /\ Raised(<<r, N>>)
    BY <1>1, <1>3, <2>3, RaisedStream DEF StreamTypes
  <2>4. CASE history' = history /\ open[r] # 0 /\ Seen(<<r, open[r]>>)
    BY <1>1, <2>1, <2>4, SeenStream DEF StreamTypes
  <2> QED
    BY <1>4, <2>2, <2>3, <2>4
<1>6. LoopTypes' /\ EntriesFit' /\ LoopFits' /\ MissingFits'
  BY <1>1, <1>2, <1>4, NextEntryFits, GotoFits
<1> QED
  BY <1>1, <1>5, <1>6, FrameShape

LEMMA KeepShape == ASSUME Shape, RaiseKeep PROVE Shape'
<1>1. LoopTypes /\ EntriesFit /\ LoopFits /\ Frame /\ PostTypes' /\ StreamTypes
      /\ UNCHANGED <<queue, rebuilt, stream>> /\ MissingFits
  BY DEF Shape, RaiseKeep, Frame, PostTypes
<1>2. loop.pc = "keep" /\ loop.left # <<>> /\ Subject # {} /\ rebuilt
  BY <1>1 DEF RaiseKeep, At, LoopFits, Raising
<1>3. PICK r \in Run : Subject = {r} /\ <<r, N>> \in Wait /\ N \in 1..MaxWaits
  BY <1>2, WaitAtHand
<1>4. /\ KeepOpen(r, N)
      /\ history' = [history EXCEPT
                       !.late = IF /\ Over(run[r]) /\ ~Over(loop.got)
                                   /\ post[r].pc # "resolve"
                                THEN @ \cup {<<r, N>>} ELSE @,
                       !.orphan = @ \ {<<r, N>>}]
  BY <1>3 DEF RaiseKeep, Subject
<1>5. open' \in [Run -> 0..MaxWaits] /\ disk' \in DiskRecord
  BY <1>1, <1>3, <1>4, KeptOpen
<1>6. history' \in HistoryRecord
  <2>1. PICK U, O : /\ U = IF /\ Over(run[r]) /\ ~Over(loop.got)
                              /\ post[r].pc # "resolve"
                           THEN history.late \cup {<<r, N>>} ELSE history.late
                    /\ O = history.orphan \ {<<r, N>>}
    OBVIOUS
  <2>2. U \in SUBSET Wait /\ O \in SUBSET Wait
    BY <1>1, <1>3, <2>1 DEF StreamTypes, HistoryRecord
  <2>3. history' = [history EXCEPT !.late = U, !.orphan = O]
    BY <1>4, <2>1
  <2> QED
    BY <1>1, <2>2, <2>3 DEF StreamTypes, HistoryRecord
<1>7. StreamTypes'
  BY <1>1, <1>5, <1>6 DEF StreamTypes
<1>8. CASE loop.boot
  <2>1. loop' = [loop EXCEPT !.pc = "missing", !.left = <<>>, !.got = NewRun]
    BY <1>8 DEF RaiseKeep
  <2>2. <<>> \in Seq(Entry)
    OBVIOUS
  <2>3. /\ loop' \in LoopRecord /\ loop'.pc = "missing" /\ loop'.left = <<>>
        /\ loop'.boot = loop.boot /\ loop'.todo = loop.todo
    BY <1>1, <2>1, <2>2, NewIsState DEF LoopTypes, LoopRecord, LoopPc
  <2>4. LoopTypes' /\ LoopFits'
    BY <1>1, <1>2, <1>8, <2>3 DEF LoopTypes, LoopFits, Raising
  <2>5. EntriesFit'
    BY <1>1, <2>3, RecordedFrame DEF EntriesFit
  <2>6. MissingFits'
    <3> SUFFICES ASSUME NEW w \in loop.todo
                 PROVE  /\ w[2] = Len(ledger'[w[1]]) /\ w[2] >= 1
                        /\ post'[w[1]].pc \notin Working
      BY <2>3 DEF MissingFits
    <3>1. /\ w[2] = Len(ledger[w[1]]) /\ w[2] >= 1
          /\ post[w[1]].pc \notin Working
      BY <1>1, <1>2, <1>8 DEF MissingFits
    <3>2. w[1] \in Run
      BY <1>1, LoopFields DEF LoopTypes
    <3> QED
      BY <1>1, <3>1, <3>2 DEF Frame
  <2> QED
    BY <1>1, <1>7, <2>4, <2>5, <2>6, FrameShape
<1>9. CASE ~loop.boot
  <2>1. Goto("check")
    BY <1>9 DEF RaiseKeep, Goto
  <2>2. /\ loop' \in LoopRecord /\ loop'.pc = "check" /\ loop'.left = loop.left
        /\ loop'.boot = loop.boot
    BY <1>1, <2>1, GotoLoop DEF LoopTypes, LoopPc
  <2>3. LoopTypes'
    BY <1>1, <2>2 DEF LoopTypes
  <2>4. LoopFits' /\ MissingFits'
    BY <1>1, <1>2, <1>9, <2>2 DEF LoopFits, MissingFits, Raising, Subject
  <2>5. EntriesFit'
    BY <1>1, <2>2, RecordedFrame DEF EntriesFit
  <2> QED
    BY <1>1, <1>7, <2>3, <2>4, <2>5, FrameShape
<1> QED
  BY <1>8, <1>9

\* A wait of a run that is gone is closed, or the append raises.
Closes(r) ==
    \/ Seen(<<r, open[r]>>) /\ KeepOpen(r, 0) /\ history' = history
    \/ AppendRaises /\ open' = [open EXCEPT ![r] = 0] /\ disk' = disk

LEMMA ClosedTypes ==
    ASSUME StreamTypes, NEW r \in Run, open[r] # 0, Closes(r)
    PROVE  StreamTypes' /\ open' = [open EXCEPT ![r] = 0]
<1>1. CASE Seen(<<r, open[r]>>) /\ KeepOpen(r, 0) /\ history' = history
  <2>1. <<r, open[r]>> \in Wait
    BY DEF StreamTypes, Wait
  <2>2. stream' \in StreamRecord
    BY <1>1, <2>1, SeenStream DEF StreamTypes
  <2>3. /\ open' \in [Run -> 0..MaxWaits] /\ disk' \in DiskRecord
        /\ open' = [open EXCEPT ![r] = 0]
    BY <1>1, KeptOpen
  <2> QED
    BY <1>1, <2>2, <2>3 DEF StreamTypes
<1>2. CASE AppendRaises /\ open' = [open EXCEPT ![r] = 0] /\ disk' = disk
  <2>1. history' \in HistoryRecord /\ stream' = stream
    BY <1>2, RaisesHistory DEF StreamTypes, AppendRaises
  <2> QED
    BY <1>2, <2>1 DEF StreamTypes
<1> QED
  BY <1>1, <1>2 DEF Closes

\* A report of the loop, or none.
LEMMA LoopReport ==
    ASSUME Shape, UNCHANGED <<run, hidden, ledger, items, aged>>,
           post' = post \/ \E r \in Run, s \in State : StreamRun(Loop, r, s, FALSE)
    PROVE  Frame /\ PostTypes'
<1>1. PostTypes
  BY DEF Shape
<1>2. CASE post' = post
  BY <1>1, <1>2 DEF Frame, PostTypes
<1>3. ASSUME NEW r \in Run, NEW s \in State, StreamRun(Loop, r, s, FALSE)
      PROVE  Frame /\ PostTypes'
  <2>1. PostTypes' /\ \A u \in Thread : u # Loop => post'[u] = post[u]
    BY <1>1, <1>3, StreamRunPost, Threads
  <2> QED
    BY <2>1, Threads DEF Frame
<1> QED
  BY <1>2, <1>3

LEMMA CheckShape == ASSUME Shape, RaiseCheck PROVE Shape'
<1>1. LoopTypes /\ LoopFits /\ StreamTypes
      /\ UNCHANGED <<run, hidden, ledger, items, aged, queue, rebuilt>>
  BY DEF Shape, RaiseCheck
<1>2. loop.pc = "check" /\ loop.left # <<>> /\ Subject # {} /\ rebuilt
  BY <1>1 DEF RaiseCheck, At, LoopFits, Raising
<1>3. PICK r \in Run : Subject = {r} /\ <<r, N>> \in Wait
  BY <1>2, WaitAtHand
<1>4. \/ open[r] # 0 /\ Closes(r) /\ NextEntry /\ post' = post
      \/ /\ post' = post \/ StreamRun(Loop, r, loop.got, FALSE)
         /\ NextEntry /\ UNCHANGED <<stream, open, disk, history>>
  BY <1>3 DEF RaiseCheck, Subject, CloseMissing, Closes
<1>5. StreamTypes' /\ NextEntry
  <2>1. CASE open[r] # 0 /\ Closes(r) /\ NextEntry
    BY <1>1, <2>1, ClosedTypes
  <2>2. CASE NextEntry /\ UNCHANGED <<stream, open, disk, history>>
    BY <1>1, <2>2 DEF StreamTypes
  <2> QED
    BY <1>4, <2>1, <2>2
<1>6. post' = post \/ \E q \in Run, s \in State : StreamRun(Loop, q, s, FALSE)
  BY <1>1, <1>4, LoopFields DEF LoopTypes
<1>7. Frame /\ PostTypes'
  BY <1>1, <1>6, LoopReport
<1> QED
  BY <1>1, <1>2, <1>5, <1>7, NextEntryFits, FrameShape

-----------------------------------------------------------------------------
(* The shape is kept: the boot repair.                                     *)

LEMMA BootPointersShape == ASSUME Shape, BootPointers PROVE Shape'
<1>1. LoopTypes /\ LoopFits /\ Frame /\ PostTypes' /\ StreamTypes
      /\ UNCHANGED <<queue, rebuilt, open, disk>>
  BY DEF Shape, BootPointers, Frame, PostTypes
<1>2. loop.pc = "pointers" /\ rebuilt /\ ~loop.boot
  BY <1>1 DEF BootPointers, At, LoopFits
<1>3. /\ Goto("attention") \/ Goto("drain")
      /\ \/ /\ history' = [history EXCEPT !.lost = @ \/ \E r \in Run : Over(run[r])]
            /\ stream' = stream
         \/ Pointers([r \in Run \ aged |-> run[r]]) /\ history' = history
         \/ AppendRaisesFor(1..items)
  BY DEF BootPointers
<1>4. StreamTypes'
  <2>1. CASE /\ history' = [history EXCEPT !.lost = @ \/ \E r \in Run : Over(run[r])]
             /\ stream' = stream
    <3>1. PICK b : b = (history.lost \/ \E r \in Run : Over(run[r]))
      OBVIOUS
    <3>2. b \in BOOLEAN
      BY <3>1
    <3>3. history' = [history EXCEPT !.lost = b]
      BY <2>1, <3>1
    <3>4. history' \in HistoryRecord
      BY <1>1, <3>2, <3>3 DEF StreamTypes, HistoryRecord
    <3> QED
      BY <1>1, <2>1, <3>4 DEF StreamTypes
  <2>2. CASE Pointers([r \in Run \ aged |-> run[r]]) /\ history' = history
    <3>1. DOMAIN [r \in Run \ aged |-> run[r]] \subseteq Run
      OBVIOUS
    <3> QED
      BY <1>1, <2>2, <3>1, PointersStream DEF StreamTypes
  <2>3. CASE AppendRaisesFor(1..items)
    <3>1. 1..items \in SUBSET Item
      BY DEF Shape, RunTypes, Item
    <3> QED
      BY <1>1, <2>3, <3>1, RaisesHistory DEF StreamTypes
  <2> QED
    BY <1>3, <2>1, <2>2, <2>3
<1>5. LoopTypes' /\ EntriesFit' /\ LoopFits' /\ MissingFits'
  BY <1>1, <1>2, <1>3, GotoFits
<1> QED
  BY <1>1, <1>4, <1>5, FrameShape

LEMMA BootAttentionShape == ASSUME Shape, BootAttention PROVE Shape'
<1>1. LoopTypes /\ LoopFits /\ EntriesFit /\ Frame /\ PostTypes' /\ StreamTypes
      /\ UNCHANGED <<queue, rebuilt, open, stream>>
  BY DEF Shape, BootAttention, Frame, PostTypes
<1>2. loop.pc = "attention" /\ rebuilt /\ ~loop.boot
  BY <1>1 DEF BootAttention, At, LoopFits
<1>3. items \in 0..MaxItems /\ disk \in DiskRecord /\ disk.floor \in 0..MaxItems
      /\ history \in HistoryRecord
  BY <1>1 DEF Shape, RunTypes, StreamTypes, DiskRecord
<1>4. StreamTypes'
  <2>1. CASE UNCHANGED <<disk, history>>
    BY <1>1, <2>1 DEF StreamTypes
  <2>2. CASE /\ disk' = [disk EXCEPT !.floor = items, !.floored = TRUE]
             /\ history' = [history EXCEPT !.base = items]
    <3>1. disk' \in DiskRecord
      BY <1>3, <2>2 DEF DiskRecord
    <3>2. items \in Nat
      BY <1>3
    <3>3. history' \in HistoryRecord
      BY <1>3, <2>2, <3>2 DEF HistoryRecord
    <3> QED
      BY <1>1, <3>1, <3>3 DEF StreamTypes
  <2> QED
    BY <2>1, <2>2 DEF BootAttention
<1>5. CASE disk.floored /\ items > disk.floor
  <2>1. PICK k : k = items - disk.floor
    OBVIOUS
  <2>2. k \in Nat /\ k >= 1 /\ disk.floor + k = items
    BY <1>3, <1>5, <2>1
  <2>3. PICK L : L = [i \in 1..k |-> ItemEntry(disk.floor + i)]
    OBVIOUS
  <2>4. \A i \in 1..k : ItemEntry(disk.floor + i) \in Entry
    BY <1>3, <2>2 DEF ItemEntry, Entry
  <2>5. L \in Seq(Entry) /\ Len(L) = k
    BY <2>2, <2>3, <2>4
  <2>6. \A i \in 1..k : L[i].run = {} /\ L[i].n \in 1..items
    BY <1>3, <2>2, <2>3 DEF ItemEntry
  <2>7. loop' = [loop EXCEPT !.pc = "entry", !.boot = TRUE, !.left = L]
    BY <1>5, <2>1, <2>3 DEF BootAttention
  <2>8. /\ loop' \in LoopRecord /\ loop'.pc = "entry" /\ loop'.boot = TRUE
        /\ loop'.left = L
    BY <1>1, <2>5, <2>7 DEF LoopTypes, LoopRecord, LoopPc
  <2>9. L # <<>>
    BY <2>2, <2>5
  <2>10. LoopTypes'
    BY <1>1, <2>8 DEF LoopTypes
  <2>11. LoopFits' /\ MissingFits'
    BY <1>1, <1>2, <2>5, <2>6, <2>8, <2>9 DEF LoopFits, MissingFits, Raising
  <2>12. EntriesFit'
    <3>1. \A i \in 1..Len(loop'.left) : Recorded(loop'.left[i])
      BY <2>5, <2>6, <2>8 DEF Recorded
    <3>2. \A i \in 1..Len(queue') : Recorded(queue'[i])
      BY <1>1 DEF EntriesFit
    <3> QED
      BY <1>1, <3>1, <3>2, RecordedFrame DEF EntriesFit
  <2> QED
    BY <1>1, <1>4, <2>10, <2>11, <2>12, FrameShape
<1>6. CASE ~(disk.floored /\ items > disk.floor)
  <2>1. Goto("load")
    BY <1>6 DEF BootAttention
  <2> QED
    BY <1>1, <1>2, <1>4, <2>1, GotoFits, FrameShape
<1> QED
  BY <1>5, <1>6

LEMMA BootLoadShape == ASSUME Shape, BootLoad PROVE Shape'
<1>1. LoopTypes /\ LoopFits /\ EntriesFit /\ Frame /\ PostTypes' /\ StreamTypes
      /\ UNCHANGED <<queue, rebuilt, disk, stream, history>>
  BY DEF Shape, BootLoad, Frame, PostTypes, diskVars
<1>2. loop.pc = "load" /\ rebuilt
  BY <1>1 DEF BootLoad, At, LoopFits
<1>3. StreamTypes'
  <2>1. open' \in [Run -> 0..MaxWaits]
    BY <1>1 DEF BootLoad, StreamTypes, DiskRecord
  <2> QED
    BY <1>1, <2>1 DEF StreamTypes
<1>4. PICK T : T = {<<r, 0>> : r \in {s \in Run : disk.open[s] # 0}}
  OBVIOUS
<1>5. T \in SUBSET (Run \X (0..MaxWaits)) /\ <<>> \in Seq(Entry)
  BY <1>4
<1>6. loop' = [loop EXCEPT !.pc = "close", !.boot = TRUE, !.left = <<>>,
                           !.todo = T]
  BY <1>4 DEF BootLoad
<1>7. /\ loop' \in LoopRecord /\ loop'.pc = "close" /\ loop'.boot = TRUE
      /\ loop'.left = <<>>
  BY <1>1, <1>5, <1>6 DEF LoopTypes, LoopRecord, LoopPc
<1>8. LoopTypes'
  BY <1>1, <1>7 DEF LoopTypes
<1>9. LoopFits' /\ MissingFits'
  BY <1>1, <1>2, <1>7 DEF LoopFits, MissingFits, Raising
<1>10. EntriesFit'
  BY <1>1, <1>7, RecordedFrame DEF EntriesFit
<1> QED
  BY <1>1, <1>3, <1>8, <1>9, <1>10, FrameShape

LEMMA BootCloseShape ==
    ASSUME Shape, NEW w \in loop.todo, BootClose(w) PROVE Shape'
<1>1. LoopTypes /\ LoopFits /\ EntriesFit /\ StreamTypes
      /\ UNCHANGED <<run, hidden, ledger, items, aged, queue, rebuilt>>
  BY DEF Shape, BootClose
<1>2. loop.pc = "close" /\ loop.boot /\ loop.left = <<>> /\ rebuilt
  BY <1>1 DEF BootClose, At, LoopFits
<1>3. PICK r \in Run : r = w[1]
  BY <1>1, LoopFields DEF LoopTypes
<1>4. \/ /\ open[r] # 0 /\ Closes(r) /\ (Done(w) \/ Goto("drain"))
         /\ post' = post
      \/ /\ StreamRun(Loop, r, run[r], FALSE) /\ Done(w)
         /\ UNCHANGED <<stream, open, disk, history>>
  BY <1>3 DEF BootClose, CloseMissing, Closes
<1>5. StreamTypes' /\ (Done(w) \/ Goto("drain"))
  <2>1. CASE open[r] # 0 /\ Closes(r) /\ (Done(w) \/ Goto("drain"))
    BY <1>1, <2>1, ClosedTypes
  <2>2. CASE Done(w) /\ UNCHANGED <<stream, open, disk, history>>
    BY <1>1, <2>2 DEF StreamTypes
  <2> QED
    BY <1>4, <2>1, <2>2
<1>6. post' = post \/ \E q \in Run, s \in State : StreamRun(Loop, q, s, FALSE)
  BY <1>4 DEF Shape, RunTypes
<1>7. Frame /\ PostTypes'
  BY <1>1, <1>6, LoopReport
<1>8. CASE Goto("drain")
  BY <1>1, <1>2, <1>5, <1>7, <1>8, GotoFits, FrameShape
<1>9. CASE Done(w)
  <2>1. /\ loop' \in LoopRecord /\ loop'.pc = loop.pc
        /\ loop'.boot = loop.boot /\ loop'.left = loop.left
    BY <1>1, <1>9, DoneLoop DEF LoopTypes
  <2>2. LoopTypes'
    BY <1>1, <2>1 DEF LoopTypes
  <2>3. LoopFits' /\ MissingFits'
    BY <1>1, <1>2, <2>1 DEF LoopFits, MissingFits, Raising
  <2>4. EntriesFit'
    BY <1>1, <1>7, <2>1, RecordedFrame DEF EntriesFit
  <2> QED
    BY <1>5, <1>7, <2>2, <2>3, <2>4, FrameShape
<1> QED
  BY <1>5, <1>8, <1>9

LEMMA BootListShape == ASSUME Shape, BootList \/ BootDone PROVE Shape'
<1>1. LoopTypes /\ LoopFits /\ EntriesFit /\ RunsFit /\ Frame /\ PostTypes'
      /\ StreamTypes /\ UNCHANGED <<queue, rebuilt, disk, stream, open>>
  BY DEF Shape, BootList, BootDone, Frame, PostTypes, diskVars
<1>2. loop.pc \in {"close", "missing"} /\ rebuilt /\ loop.boot /\ loop.left = <<>>
  BY <1>1 DEF BootList, BootDone, At, LoopFits
<1>3. PICK P : P = {r \in Run : run[r].st = "waiting"}
  OBVIOUS
<1>4. /\ history' = history \/ history' = [history EXCEPT !.lost = @ \/ P # {}]
      /\ \/ Goto("drain")
         \/ loop' = [loop EXCEPT !.pc = "missing",
                                 !.todo = {<<r, run[r].step>> : r \in P}]
  BY <1>3 DEF BootList, BootDone
<1>5. StreamTypes'
  <2>1. PICK b : b = (history.lost \/ P # {})
    OBVIOUS
  <2>2. b \in BOOLEAN
    BY <2>1
  <2>3. history' = history \/ history' = [history EXCEPT !.lost = b]
    BY <1>4, <2>1
  <2>4. history' \in HistoryRecord
    BY <1>1, <2>2, <2>3 DEF StreamTypes, HistoryRecord
  <2> QED
    BY <1>1, <2>4 DEF StreamTypes
<1>6. CASE Goto("drain")
  BY <1>1, <1>2, <1>5, <1>6, GotoFits, FrameShape
<1>7. CASE loop' = [loop EXCEPT !.pc = "missing",
                                !.todo = {<<r, run[r].step>> : r \in P}]
  <2>1. PICK T : T = {<<r, run[r].step>> : r \in P}
    OBVIOUS
  <2>2. \A r \in P : r \in Run /\ run[r].st = "waiting" /\ run[r].step \in 0..MaxWaits
    BY <1>3 DEF Shape, RunTypes, State
  <2>3. T \in SUBSET (Run \X (0..MaxWaits))
    BY <2>1, <2>2
  <2>4. loop' = [loop EXCEPT !.pc = "missing", !.todo = T]
    BY <1>7, <2>1
  <2>5. /\ loop' \in LoopRecord /\ loop'.pc = "missing" /\ loop'.todo = T
        /\ loop'.boot = loop.boot /\ loop'.left = loop.left
    BY <1>1, <2>3, <2>4 DEF LoopTypes, LoopRecord, LoopPc
  <2>6. LoopTypes'
    BY <1>1, <2>5 DEF LoopTypes
  <2>7. LoopFits'
    BY <1>1, <1>2, <2>5 DEF LoopFits, Raising
  <2>8. MissingFits'
    <3> SUFFICES ASSUME NEW w \in T
                 PROVE  /\ w[2] = Len(ledger'[w[1]]) /\ w[2] >= 1
                        /\ post'[w[1]].pc \notin Working
      BY <2>5 DEF MissingFits
    <3>1. PICK r \in P : w = <<r, run[r].step>>
      BY <2>1
    <3>2. /\ run[r].step = Len(ledger[r]) /\ run[r].step >= 1
          /\ post[r].pc \notin Working
      BY <1>1, <2>2 DEF RunsFit
    <3> QED
      BY <1>1, <2>2, <3>1, <3>2 DEF Frame
  <2>9. EntriesFit'
    BY <1>1, <2>5, RecordedFrame DEF EntriesFit
  <2> QED
    BY <1>1, <1>5, <2>6, <2>7, <2>8, <2>9, FrameShape
<1> QED
  BY <1>4, <1>6, <1>7

\* The wait a boot raises is the newest record of its run.
LEMMA LatestIsNewest ==
    ASSUME Shape, loop.pc = "missing", NEW w \in loop.todo
    PROVE  /\ w[1] \in Run /\ w[2] \in 1..MaxWaits
           /\ w[2] = Len(ledger[w[1]]) /\ post[w[1]].pc \notin Working
           /\ LatestWaitRecord(w[1], w[2]) = w[2]
<1>1. /\ w[1] \in Run /\ w[2] \in 0..MaxWaits /\ w[2] = Len(ledger[w[1]])
      /\ w[2] >= 1 /\ post[w[1]].pc \notin Working
  BY LoopFields DEF Shape, LoopTypes, MissingFits
<1>2. DOMAIN ledger[w[1]] = 1..Len(ledger[w[1]])
  BY <1>1 DEF Shape, RunTypes
<1>3. PICK r, k : r = w[1] /\ k = w[2]
  OBVIOUS
<1>4. k \in Nat /\ k >= 1 /\ DOMAIN ledger[r] = 1..k
  BY <1>1, <1>2, <1>3
<1>5. LatestWaitRecord(r, k) = k
  <2> DEFINE Newest(m) == /\ KeyOf(r, m) = KeyOf(r, k)
                          /\ \A o \in 1..k : KeyOf(r, o) = KeyOf(r, k) => o <= m
  <2>1. k \in 1..k /\ Newest(k)
    BY <1>4
  <2>2. \A m \in 1..k : Newest(m) => m = k
    <3> SUFFICES ASSUME NEW m \in 1..k, Newest(m) PROVE m = k
      OBVIOUS
    <3>1. k <= m
      BY <2>1
    <3> QED
      BY <1>4, <3>1
  <2>3. LatestWaitRecord(r, k) = CHOOSE m \in 1..k : Newest(m)
    BY <1>4 DEF LatestWaitRecord
  <2> HIDE DEF Newest
  <2> QED
    BY <2>1, <2>2, <2>3
<1> QED
  BY <1>1, <1>3, <1>5

LEMMA BootRaiseShape ==
    ASSUME Shape, NEW w \in loop.todo, BootRaise(w) PROVE Shape'
<1>1. LoopTypes /\ LoopFits /\ EntriesFit /\ Frame /\ PostTypes' /\ MissingFits
      /\ StreamTypes /\ UNCHANGED <<queue, rebuilt, disk, open>>
  BY DEF Shape, BootRaise, Frame, PostTypes
<1>2. loop.pc = "missing" /\ rebuilt /\ loop.boot /\ loop.left = <<>>
  BY <1>1 DEF BootRaise, At, LoopFits
<1>3. PICK r \in Run, n \in 1..MaxWaits :
        /\ r = w[1] /\ n = w[2] /\ n = Len(ledger[r])
        /\ LatestWaitRecord(w[1], w[2]) = n
  BY <1>2, LatestIsNewest
<1>4. <<r, n>> \in Wait /\ n \in Nat
  BY DEF Wait
<1>10. PICK A : A = IF Overtakes(r, n) THEN history.ahead \cup {<<r, n>>}
                    ELSE history.ahead
  OBVIOUS
<1>5. \/ Done(w) /\ UNCHANGED <<stream, history>>
      \/ /\ Raised(<<r, n>>) /\ history' = [history EXCEPT !.ahead = A]
         /\ loop' = [loop EXCEPT !.pc = "keep", !.todo = @ \ {w},
                                 !.left = <<WaitEntry(r, n)>>,
                                 !.got = [st |-> "waiting", step |-> n]]
      \/ AppendRaises /\ Goto("drain")
      \/ Done(w) /\ LedgerUnreadable(r)
  BY <1>3, <1>10 DEF BootRaise
<1>6. ASSUME NEW x \in loop.todo
      PROVE  /\ x[2] = Len(ledger'[x[1]]) /\ x[2] >= 1
             /\ post'[x[1]].pc \notin Working
  <2>1. /\ x[2] = Len(ledger[x[1]]) /\ x[2] >= 1 /\ post[x[1]].pc \notin Working
        /\ x[1] \in Run
    BY <1>1, <1>2, LoopFields DEF MissingFits, LoopTypes
  <2> QED
    BY <1>1, <2>1 DEF Frame
<1>7. CASE Done(w) /\ (UNCHANGED <<stream, history>> \/ LedgerUnreadable(r))
  <2>1. /\ loop' \in LoopRecord /\ loop'.pc = loop.pc
        /\ loop'.boot = loop.boot /\ loop'.left = loop.left
        /\ loop'.todo = loop.todo \ {w}
    BY <1>1, <1>7, DoneLoop DEF LoopTypes
  <2>6. stream' = stream /\ history' \in HistoryRecord
    BY <1>1, <1>7, UnreadableHistory DEF StreamTypes
  <2>2. LoopTypes' /\ StreamTypes'
    BY <1>1, <2>1, <2>6 DEF LoopTypes, StreamTypes
  <2>3. LoopFits'
    BY <1>1, <1>2, <2>1 DEF LoopFits, Raising
  <2>4. MissingFits'
    BY <1>6, <2>1 DEF MissingFits
  <2>5. EntriesFit'
    BY <1>1, <2>1, RecordedFrame DEF EntriesFit
  <2> QED
    BY <1>1, <2>2, <2>3, <2>4, <2>5, FrameShape
<1>8. CASE AppendRaises /\ Goto("drain")
  <2>1. StreamTypes'
    BY <1>1, <1>8, RaisesHistory DEF StreamTypes, AppendRaises
  <2> QED
    BY <1>1, <1>2, <1>8, <2>1, GotoFits, FrameShape
<1>9. CASE /\ Raised(<<r, n>>) /\ history' = [history EXCEPT !.ahead = A]
           /\ loop' = [loop EXCEPT !.pc = "keep", !.todo = @ \ {w},
                                   !.left = <<WaitEntry(r, n)>>,
                                   !.got = [st |-> "waiting", step |-> n]]
  <2>14. A \in SUBSET Wait
    BY <1>1, <1>4, <1>10 DEF StreamTypes, HistoryRecord
  <2>15. history' \in HistoryRecord
    BY <1>1, <1>9, <2>14 DEF StreamTypes, HistoryRecord
  <2>1. StreamTypes'
    BY <1>1, <1>4, <1>9, <2>15, RaisedStream DEF StreamTypes
  <2>2. PICK T, L, g : /\ T = loop.todo \ {w} /\ L = <<WaitEntry(r, n)>>
                       /\ g = [st |-> "waiting", step |-> n]
    OBVIOUS
  <2>3. WaitEntry(r, n) \in Entry
    BY <1>4 DEF WaitEntry, Entry
  <2>4. /\ L \in Seq(Entry) /\ Len(L) = 1 /\ L[1] = WaitEntry(r, n)
        /\ Head(L) = WaitEntry(r, n)
    BY <2>2, <2>3
  <2>5. T \in SUBSET (Run \X (0..MaxWaits)) /\ g \in State
    BY <1>1, <2>2, LoopFields DEF LoopTypes, State
  <2>6. loop' = [loop EXCEPT !.pc = "keep", !.todo = T, !.left = L, !.got = g]
    BY <1>9, <2>2
  <2>7. /\ loop' \in LoopRecord /\ loop'.pc = "keep" /\ loop'.todo = T
        /\ loop'.left = L /\ loop'.boot = loop.boot
    BY <1>1, <2>4, <2>5, <2>6 DEF LoopTypes, LoopRecord, LoopPc
  <2>8. LoopTypes'
    BY <1>1, <2>7 DEF LoopTypes
  <2>9. WaitEntry(r, n).run = {r} /\ WaitEntry(r, n).n = n
    BY DEF WaitEntry
  <2>10. L # <<>>
    <3>1. Len(<<>>) = 0
      OBVIOUS
    <3>2. Len(L) = 1
      BY <2>4
    <3> QED
      BY ONLY <3>1, <3>2
  <2>11. LoopFits'
    BY <1>1, <1>2, <2>4, <2>7, <2>9, <2>10 DEF LoopFits, Raising, Subject
  <2>12. MissingFits'
    BY <1>6, <2>2, <2>7 DEF MissingFits
  <2>13. EntriesFit'
    <3>1. Recorded(WaitEntry(r, n))
      BY <1>3, <1>4, <2>9 DEF Recorded
    <3>2. \A i \in 1..Len(loop'.left) : Recorded(loop'.left[i])
      <4>1. \A i \in 1..1 : i = 1
        OBVIOUS
      <4>2. Recorded(L[1])
        BY <2>4, <3>1
      <4>3. 1..Len(loop'.left) = 1..1 /\ loop'.left = L
        BY <2>4, <2>7
      <4> QED
        BY ONLY <4>1, <4>2, <4>3
    <3>3. \A i \in 1..Len(queue') : Recorded(queue'[i])
      BY <1>1 DEF EntriesFit
    <3> QED
      BY <1>1, <3>2, <3>3, RecordedFrame DEF EntriesFit
  <2> QED
    BY <1>1, <2>1, <2>8, <2>11, <2>12, <2>13, FrameShape
<1> QED
  BY <1>5, <1>7, <1>8, <1>9

-----------------------------------------------------------------------------
(* The shape is kept: ticks, reports, and what happens to a run.           *)

LEMMA RunStepShape ==
    ASSUME Shape, UNCHANGED <<loop, queue, rebuilt, ledger, items, hidden>>,
           run' \in [Run -> State], aged' \subseteq Run,
           StreamTypes', PostTypes', RunsFit',
           \A r \in Run : post'[r].pc \in Working => post[r].pc \in Working
    PROVE  Shape'
<1>1. RunTypes' /\ LoopTypes'
  BY DEF Shape, RunTypes, LoopTypes
<1>2. EntriesFit'
  BY DEF Shape, EntriesFit, Recorded
<1>3. LoopFits'
  BY DEF Shape, LoopFits, Subject
<1>4. MissingFits'
  <2> SUFFICES ASSUME loop.pc = "missing" \/ (loop.boot /\ loop.pc = "keep"),
                      NEW w \in loop.todo
               PROVE  /\ w[2] = Len(ledger[w[1]]) /\ w[2] >= 1
                      /\ post'[w[1]].pc \notin Working
    BY DEF MissingFits
  <2>1. /\ w[2] = Len(ledger[w[1]]) /\ w[2] >= 1
        /\ post[w[1]].pc \notin Working
    BY DEF Shape, MissingFits
  <2>2. w[1] \in Run
    BY LoopFields DEF Shape, LoopTypes
  <2> QED
    BY <2>1, <2>2
<1> QED
  BY <1>1, <1>2, <1>3, <1>4 DEF Shape

\* The run of a report.
LEMMA ReportOfRun ==
    ASSUME Shape, NEW t \in Thread, NEW r \in post[t].run
    PROVE  /\ r \in Run /\ post[t].run = {r} /\ post[t] \in Call
           /\ open[r] # 0 => <<r, open[r]>> \in Wait
<1>1. post[t] \in Call
  BY DEF Shape, PostTypes
<1>2. r \in Run /\ post[t].run = {r}
  BY <1>1 DEF Call
<1> QED
  BY <1>1, <1>2 DEF Shape, StreamTypes, Wait

\* A report goes on, or it is over.
LEMMA ReportShape ==
    ASSUME Shape, NEW t \in Thread, PostTypes', StreamTypes',
           post[t].pc \in Reporting,
           \A u \in Thread : u # t => post'[u] = post[u],
           \/ post'[t].pc \in Reporting /\ post'[t].run = post[t].run
           \/ post'[t] = NoCall,
           UNCHANGED <<run, hidden, ledger, items, aged, loop, queue, rebuilt>>
    PROVE  Shape'
<1>1. \A r \in Run : /\ post'[r].pc \in Working => post[r].pc \in Working
                     /\ post'[r].pc = "park" => post[r].pc = "park"
                     /\ post'[r].pc \in Reporting => post'[r].run = {r}
  <2>1. NoCall.pc = "idle"
    BY DEF NoCall
  <2> SUFFICES ASSUME NEW r \in Run
               PROVE  /\ post'[r].pc \in Working => post[r].pc \in Working
                      /\ post'[r].pc = "park" => post[r].pc = "park"
                      /\ post'[r].pc \in Reporting => post'[r].run = {r}
    OBVIOUS
  <2>2. post[r].pc \in Reporting => post[r].run = {r}
    BY DEF Shape, RunsFit
  <2>3. r \in Thread
    BY Threads
  <2>4. CASE r # t
    BY <2>2, <2>3, <2>4
  <2>5. CASE r = t
    BY <2>1, <2>2, <2>5 DEF Working, Reporting
  <2> QED
    BY <2>4, <2>5
<1>2. RunsFit'
  BY <1>1 DEF Shape, RunsFit
<1>3. run' \in [Run -> State] /\ aged' \subseteq Run
  BY DEF Shape, RunTypes
<1> QED
  BY <1>1, <1>2, <1>3, RunStepShape

LEMMA StreamStepShape ==
    ASSUME Shape, NEW t \in Thread, StreamStep(t) PROVE Shape'
<1>1. PostTypes /\ StreamTypes /\ post[t] \in Call
  BY DEF Shape, PostTypes
<1>2. UNCHANGED <<run, hidden, ledger, items, aged, loop, queue, rebuilt>>
  BY DEF StreamStep, Resolve, Pop, Pointer
<1>3. CASE Resolve(t)
  <2>1. PICK r \in post[t].run :
          \/ Resolved(t) /\ UNCHANGED <<stream, history>>
          \/ /\ open[r] # 0 /\ Seen(<<r, open[r]>>) /\ history' = history
             /\ post' = [post EXCEPT ![t].pc = "pop"]
          \/ AppendRaises /\ Resolved(t)
    BY <1>3 DEF Resolve
  <2>2. open[r] # 0 => <<r, open[r]>> \in Wait
    BY ReportOfRun
  <2>3. UNCHANGED <<disk, open>> /\ post[t].pc = "resolve"
    BY <1>3 DEF Resolve
  <2>4. StreamTypes'
    <3>1. CASE UNCHANGED <<stream, history>>
      BY <1>1, <2>3, <3>1 DEF StreamTypes
    <3>2. CASE open[r] # 0 /\ Seen(<<r, open[r]>>) /\ history' = history
      BY <1>1, <2>2, <2>3, <3>2, SeenStream DEF StreamTypes
    <3>3. CASE AppendRaises
      BY <1>1, <2>3, <3>3, RaisesHistory DEF StreamTypes, AppendRaises
    <3> QED
      BY <2>1, <3>1, <3>2, <3>3
  <2>5. CASE Resolved(t)
    BY <1>1, <1>2, <2>3, <2>4, <2>5, ResolvedPost, ReportShape DEF Reporting
  <2>6. CASE post' = [post EXCEPT ![t].pc = "pop"]
    <3>1. PostTypes'
      BY <1>1, <2>6 DEF PostTypes, Call
    <3>2. /\ \A u \in Thread : u # t => post'[u] = post[u]
          /\ post'[t].pc = "pop" /\ post'[t].run = post[t].run
      BY <1>1, <2>6 DEF PostTypes, Call
    <3> QED
      BY <1>2, <2>3, <2>4, <3>1, <3>2, ReportShape DEF Reporting
  <2> QED
    BY <2>1, <2>5, <2>6
<1>4. CASE Pop(t)
  <2>1. PICK r \in post[t].run : KeepOpen(r, 0)
    BY <1>4 DEF Pop
  <2>2. open' \in [Run -> 0..MaxWaits] /\ disk' \in DiskRecord
    <3>1. 0 \in 0..MaxWaits
      OBVIOUS
    <3>2. r \in Run
      BY ReportOfRun
    <3> QED
      BY <1>1, <2>1, <3>1, <3>2, KeptOpen
  <2>3. StreamTypes'
    BY <1>1, <1>4, <2>2 DEF StreamTypes, Pop
  <2>4. Resolved(t) /\ post[t].pc = "pop"
    BY <1>4 DEF Pop
  <2> QED
    BY <1>1, <1>2, <2>3, <2>4, ResolvedPost, ReportShape DEF Reporting
<1>5. CASE Pointer(t)
  <2>1. StreamTypes'
    <3>1. CASE Pointers([r \in post[t].run |-> post[t].state]) /\ history' = history
      <4>1. DOMAIN [r \in post[t].run |-> post[t].state] \subseteq Run
        BY <1>1 DEF Call
      <4> QED
        BY <1>1, <1>5, <3>1, <4>1, PointersStream DEF StreamTypes, Pointer
    <3>2. CASE AppendRaises
      BY <1>1, <1>5, <3>2, RaisesHistory DEF StreamTypes, AppendRaises, Pointer
    <3> QED
      BY <1>5, <3>1, <3>2 DEF Pointer
  <2>2. PostTypes' /\ post'[t] = NoCall /\ post[t].pc = "pointer"
        /\ \A u \in Thread : u # t => post'[u] = post[u]
    BY <1>1, <1>5, NewIsState DEF Pointer, PostTypes
  <2> QED
    BY <1>2, <2>1, <2>2, ReportShape DEF Reporting
<1> QED
  BY <1>3, <1>4, <1>5 DEF StreamStep

LEMMA SaveShape ==
    ASSUME Shape, NEW r \in Run, NEW st \in {"running", "waiting", "ended"},
           TickSave(r, st)
    PROVE  Shape'
<1>1. PICK s : s = IF Over(run[r]) THEN run[r]
                   ELSE [st |-> st, step |-> Len(ledger[r])]
  OBVIOUS
<1>2. Len(ledger[r]) \in 0..MaxWaits /\ run[r] \in State
  BY DEF Shape, RunTypes
<1>3. s \in State
  BY <1>1, <1>2 DEF State
<1>4. run' = [run EXCEPT ![r] = s] /\ StreamRun(r, r, s, TRUE)
      /\ aged' \subseteq Run
      /\ UNCHANGED <<loop, queue, rebuilt, ledger, items, hidden, stream, disk,
                     open, history>>
  BY <1>1 DEF TickSave, Shape, RunTypes
<1>5. run' \in [Run -> State] /\ StreamTypes'
  BY <1>3, <1>4 DEF Shape, RunTypes, StreamTypes
<1>6. /\ PostTypes' /\ \A u \in Thread : u # r => post'[u] = post[u]
      /\ post'[r].pc = "resolve" /\ post'[r].run = {r}
  BY <1>3, <1>4, StreamRunPost, Threads DEF Shape
<1>7. \A u \in Run : u # r => post'[u] = post[u] /\ run'[u] = run[u]
  BY <1>4, <1>6, Threads DEF Shape, RunTypes
<1>8. RunsFit'
  <2>1. s.st = "waiting" => s.step = Len(ledger[r]) /\ s.step >= 1
    <3>1. CASE Over(run[r])
      BY <1>1, <3>1 DEF Over
    <3>2. CASE ~Over(run[r])
      <4>1. s.st = st /\ s.step = Len(ledger[r])
        BY <1>1, <3>2
      <4>2. st = "waiting" => Len(ledger[r]) >= 1
        BY DEF TickSave, Shape, RunsFit
      <4> QED
        BY <4>1, <4>2
    <3> QED
      BY <3>1, <3>2
  <2>2. run'[r] = s
    BY <1>4 DEF Shape, RunTypes
  <2> QED
    BY <1>4, <1>6, <1>7, <2>1, <2>2 DEF Shape, RunsFit, Working
<1>9. \A u \in Run : post'[u].pc \in Working => post[u].pc \in Working
  BY <1>6, <1>7 DEF Working
<1> QED
  BY <1>4, <1>5, <1>6, <1>8, <1>9, RunStepShape

LEMMA KeysAreNat == ASSUME Shape, NEW r \in Run PROVE Keys(r) \subseteq Nat
<1>1. PICK L : L = ledger[r]
  OBVIOUS
<1>2. L \in Seq(Nat)
  BY <1>1 DEF Shape, RunTypes
<1>3. PICK T : T = {L[n] : n \in DOMAIN L}
  OBVIOUS
<1>4. DOMAIN L = 1..Len(L) /\ Len(L) \in Nat
  BY <1>2
<1>5. IsFiniteSet(DOMAIN L)
  BY <1>4, FS_Interval
<1>6. L \in Surjection(DOMAIN L, T)
  BY <1>2, <1>3 DEF Surjection
<1>7. Cardinality(T) \in Nat
  BY <1>5, <1>6, FS_Surjection, FS_CardinalityType
<1>8. Keys(r) = 1..(Cardinality(T) + 1)
  BY <1>1, <1>3 DEF Keys
<1> QED
  BY <1>7, <1>8

\* An entry is queued behind the record it is about.
LEMMA QueuedFits ==
    ASSUME Shape, NEW e \in Entry, queue' = Append(queue, e), UNCHANGED <<loop, rebuilt>>,
           1..items \subseteq 1..items',
           \A r \in Run : 1..Len(ledger[r]) \subseteq 1..Len(ledger'[r]),
           \/ e.run = {} /\ e.n \in 1..items'
           \/ \E r \in Run : e.run = {r} /\ e.n \in 1..Len(ledger'[r])
    PROVE  LoopTypes' /\ EntriesFit' /\ LoopFits'
<1> DEFINE Later(q) == \/ q.run = {} /\ q.n \in 1..items'
                       \/ \E r \in Run : q.run = {r} /\ q.n \in 1..Len(ledger'[r])
<1>a. Later(e) /\ \A q : Recorded(q) => Later(q)
  BY DEF Recorded
<1>1. queue \in Seq(Entry)
  BY DEF Shape, LoopTypes
<1>2. /\ queue' \in Seq(Entry) /\ Len(queue') = Len(queue) + 1
      /\ \A i \in 1..Len(queue) : queue'[i] = queue[i]
      /\ queue'[Len(queue) + 1] = e /\ Len(queue) \in Nat
  BY <1>1, AppendProperties
<1>3. LoopTypes' /\ LoopFits'
  BY <1>2 DEF Shape, LoopTypes, LoopFits, Subject
<1>4. \A i \in 1..Len(queue') : Later(queue'[i])
  <2> SUFFICES ASSUME NEW i \in 1..Len(queue') PROVE Later(queue'[i])
    OBVIOUS
  <2>1. i \in 1..Len(queue) \/ i = Len(queue) + 1
    BY <1>2
  <2>2. CASE i \in 1..Len(queue)
    <3>1. Recorded(queue[i]) /\ queue'[i] = queue[i]
      BY <1>2, <2>2 DEF Shape, EntriesFit
    <3> HIDE DEF Later
    <3> QED
      BY <1>a, <3>1
  <2>3. CASE i = Len(queue) + 1
    <3>1. queue'[i] = e
      BY <1>2, <2>3
    <3> HIDE DEF Later
    <3> QED
      BY <1>a, <3>1
  <2> QED
    BY <2>1, <2>2, <2>3
<1>5. \A i \in 1..Len(loop'.left) : Later(loop'.left[i])
  <2>1. \A i \in 1..Len(loop.left) : Recorded(loop.left[i])
    BY DEF Shape, EntriesFit
  <2> HIDE DEF Later
  <2> QED
    BY <1>a, <2>1
<1>6. EntriesFit'
  BY <1>4, <1>5 DEF EntriesFit, Recorded
<1> QED
  BY <1>3, <1>6

LEMMA ParkShape ==
    ASSUME Shape, NEW r \in Run, NEW k \in Keys(r), TickPark(r, k) PROVE Shape'
<1>1. PICK n : n = Len(ledger[r])
  OBVIOUS
<1>2. /\ ledger[r] \in Seq(Nat) /\ n \in Nat /\ n < MaxWaits /\ k \in Nat
      /\ ledger \in [Run -> Seq(Nat)] /\ post[r].pc = "tick"
  BY <1>1, KeysAreNat DEF Shape, RunTypes, TickPark
<1>3. /\ ledger' = [ledger EXCEPT ![r] = Append(ledger[r], k)]
      /\ queue' = Append(queue, WaitEntry(r, n + 1))
      /\ post' = [post EXCEPT ![r].pc = "park"]
      /\ UNCHANGED <<run, hidden, items, stream, disk, aged, open, loop,
                     rebuilt, history>>
  BY <1>1 DEF TickPark
<1>4. Append(ledger[r], k) \in Seq(Nat) /\ Len(Append(ledger[r], k)) = n + 1
  BY <1>1, <1>2, AppendProperties
<1>5. /\ ledger' \in [Run -> Seq(Nat)] /\ Len(ledger'[r]) = n + 1
      /\ \A u \in Run : u # r => ledger'[u] = ledger[u]
  BY <1>2, <1>3, <1>4
<1>6. RunTypes'
  <2>1. \A u \in Run : Len(ledger'[u]) <= MaxWaits
    <3>1. \A u \in Run : Len(ledger[u]) <= MaxWaits
      BY DEF Shape, RunTypes
    <3>2. n + 1 <= MaxWaits
      BY <1>2
    <3> QED
      BY <1>5, <3>1, <3>2
  <2> QED
    BY <1>3, <1>5, <2>1 DEF Shape, RunTypes
<1>7. /\ PostTypes' /\ post'[r].pc = "park"
      /\ \A u \in Run : u # r => post'[u] = post[u]
  <2>1. r \in Thread /\ post \in [Thread -> Call] /\ post[r] \in Call
    BY Threads DEF Shape, PostTypes
  <2>2. PICK c : c = [post[r] EXCEPT !.pc = "park"]
    OBVIOUS
  <2>3. c \in Call /\ c.pc = "park"
    BY <2>1, <2>2 DEF Call
  <2>4. post' = [post EXCEPT ![r] = c]
    BY <1>3, <2>2
  <2> QED
    BY <2>1, <2>3, <2>4, Threads DEF PostTypes
<1>8. StreamTypes'
  BY <1>3 DEF Shape, StreamTypes
<1>9. RunsFit'
  BY <1>2, <1>3, <1>5, <1>7 DEF Shape, RunsFit, Working, Reporting
<1>10. LoopTypes' /\ EntriesFit' /\ LoopFits'
  <2>1. WaitEntry(r, n + 1) \in Entry
    BY <1>2 DEF WaitEntry, Entry
  <2>2. /\ WaitEntry(r, n + 1).run = {r}
        /\ WaitEntry(r, n + 1).n \in 1..Len(ledger'[r])
    BY <1>2, <1>5 DEF WaitEntry
  <2>3. \A u \in Run : 1..Len(ledger[u]) \subseteq 1..Len(ledger'[u])
    <3> SUFFICES ASSUME NEW u \in Run
                 PROVE  1..Len(ledger[u]) \subseteq 1..Len(ledger'[u])
      OBVIOUS
    <3>1. CASE u = r
      <4>1. 1..n \subseteq 1..(n + 1)
        BY <1>2
      <4> QED
        BY <1>1, <1>5, <3>1, <4>1
    <3>2. CASE u # r
      BY <1>5, <3>2
    <3> QED
      BY <3>1, <3>2
  <2> QED
    BY <1>3, <2>1, <2>2, <2>3, QueuedFits
<1>11. MissingFits'
  <2> SUFFICES ASSUME loop.pc = "missing" \/ (loop.boot /\ loop.pc = "keep"),
                      NEW w \in loop.todo
               PROVE  /\ w[2] = Len(ledger'[w[1]]) /\ w[2] >= 1
                      /\ post'[w[1]].pc \notin Working
    BY <1>3 DEF MissingFits
  <2>1. /\ w[2] = Len(ledger[w[1]]) /\ w[2] >= 1
        /\ post[w[1]].pc \notin Working
    BY DEF Shape, MissingFits
  <2>2. w[1] \in Run /\ w[1] # r
    BY <1>2, <2>1, LoopFields DEF Shape, LoopTypes, Working
  <2> QED
    BY <1>5, <1>7, <2>1, <2>2
<1> QED
  BY <1>6, <1>7, <1>8, <1>9, <1>10, <1>11 DEF Shape

LEMMA ItemRecordedShape == ASSUME Shape, ItemRecorded PROVE Shape'
<1>1. /\ items \in Nat /\ items' = items + 1 /\ items' \in 0..MaxItems
      /\ queue' = Append(queue, ItemEntry(items + 1))
      /\ UNCHANGED <<run, hidden, ledger, stream, disk, aged, post, open, loop,
                     rebuilt, history>>
  BY DEF Shape, RunTypes, ItemRecorded
<1>2. ItemEntry(items + 1) \in Entry
  BY <1>1 DEF ItemEntry, Entry
<1>3. ItemEntry(items + 1).run = {} /\ ItemEntry(items + 1).n \in 1..items'
  BY <1>1 DEF ItemEntry
<1>4. 1..items \subseteq 1..items'
  BY <1>1
<1>5. LoopTypes' /\ EntriesFit' /\ LoopFits'
  <2>1. PICK e \in Entry : e = ItemEntry(items + 1)
    BY <1>2
  <2> QED
    BY <1>1, <1>3, <1>4, <2>1, QueuedFits
<1>6. RunTypes' /\ StreamTypes' /\ PostTypes' /\ RunsFit' /\ MissingFits'
  BY <1>1 DEF Shape, RunTypes, StreamTypes, PostTypes, RunsFit, MissingFits
<1> QED
  BY <1>5, <1>6 DEF Shape

\* A tick that saves nothing to report: the workflow cannot be resolved.
LEMMA UnresolvedShape ==
    ASSUME Shape, NEW r \in Run, TickUnresolved(r) PROVE Shape'
<1>1. PICK s : s = [run[r] EXCEPT !.st = IF run[r].st = "running" THEN "ended"
                                         ELSE run[r].st]
  OBVIOUS
<1>2. run[r] \in State
  BY DEF Shape, RunTypes
<1>3. s \in State /\ s.st # "waiting"
  <2>1. run[r].st # "waiting"
    BY DEF TickUnresolved, Shape, RunsFit, Working
  <2> QED
    BY <1>1, <1>2, <2>1 DEF State
<1>4. PICK U : U = IF run[r].st = "running" THEN history.unheard \cup {r}
                   ELSE history.unheard
  OBVIOUS
<1>5. /\ run' = [run EXCEPT ![r] = s] /\ post' = [post EXCEPT ![r] = NoCall]
      /\ history' = [history EXCEPT !.unheard = U]
      /\ aged' \subseteq Run
      /\ UNCHANGED <<loop, queue, rebuilt, ledger, items, hidden, stream, disk,
                     open>>
  BY <1>1, <1>4 DEF TickUnresolved, Shape, RunTypes
<1>6. StreamTypes'
  <2>1. U \in SUBSET Run
    BY <1>4 DEF Shape, StreamTypes, HistoryRecord
  <2>2. history' \in HistoryRecord
    BY <1>5, <2>1 DEF Shape, StreamTypes, HistoryRecord
  <2> QED
    BY <1>5, <2>2 DEF Shape, StreamTypes
<1>7. run' \in [Run -> State] /\ run'[r] = s
      /\ \A u \in Run : u # r => run'[u] = run[u]
  BY <1>3, <1>5 DEF Shape, RunTypes
<1>8. PostTypes' /\ post'[r].pc = "idle"
      /\ \A u \in Run : u # r => post'[u] = post[u]
  <2>1. NoCall.pc = "idle"
    BY DEF NoCall
  <2> QED
    BY <1>5, <2>1, NewIsState, Threads DEF Shape, PostTypes
<1>9. RunsFit'
  BY <1>3, <1>5, <1>7, <1>8 DEF Shape, RunsFit, Reporting
<1>10. \A u \in Run : post'[u].pc \in Working => post[u].pc \in Working
  BY <1>8 DEF Working
<1> QED
  BY <1>5, <1>6, <1>7, <1>8, <1>9, <1>10, RunStepShape

\* A run leaves its wait: it is answered, or deleted.
LEMMA AnswerShape ==
    ASSUME Shape, NEW r \in Run, Answer(r) \/ Purge(r) \/ Ages(r) PROVE Shape'
<1>1. UNCHANGED <<loop, queue, rebuilt, ledger, items, hidden, post, disk, open,
                  history>>
  BY DEF Answer, Purge, Ages, memoryVars
<1>2. PostTypes' /\ aged' \subseteq Run
  BY <1>1 DEF Shape, PostTypes, RunTypes, Answer, Purge, Ages
<1>3. StreamTypes'
  <2>1. stream' = stream \/ stream' = [stream EXCEPT !.used = TRUE]
    BY DEF Answer, Purge, Ages
  <2>2. stream' \in StreamRecord
    BY <2>1 DEF Shape, StreamTypes, StreamRecord
  <2> QED
    BY <1>1, <2>2 DEF Shape, StreamTypes
<1>4. /\ run' \in [Run -> State]
      /\ \A u \in Run : run'[u].st = "waiting" => run'[u] = run[u]
  <2>1. CASE run' = run
    BY <2>1 DEF Shape, RunTypes
  <2>2. ASSUME NEW st \in {"running", "gone"}, run' = [run EXCEPT ![r].st = st]
        PROVE  /\ run' \in [Run -> State]
               /\ \A u \in Run : run'[u].st = "waiting" => run'[u] = run[u]
    <3>1. run \in [Run -> State]
      BY DEF Shape, RunTypes
    <3>2. PICK s : s = [run[r] EXCEPT !.st = st]
      OBVIOUS
    <3>3. s \in State /\ s.st = st
      BY <3>1, <3>2 DEF State
    <3>4. run' = [run EXCEPT ![r] = s]
      BY <2>2, <3>2
    <3> QED
      BY <3>1, <3>3, <3>4
  <2> QED
    BY <2>1, <2>2 DEF Answer, Purge, Ages
<1>5. RunsFit'
  BY <1>1, <1>4 DEF Shape, RunsFit
<1> QED
  BY <1>1, <1>2, <1>3, <1>4, <1>5, RunStepShape

LEMMA CancelShape == ASSUME Shape, NEW r \in Run, Cancel(r) PROVE Shape'
<1>1. PICK s : s = [run[r] EXCEPT !.st = "ended"]
  OBVIOUS
<1>2. run \in [Run -> State] /\ run[r] \in State
  BY DEF Shape, RunTypes
<1>3. s \in State /\ s.st = "ended"
  BY <1>1, <1>2 DEF State
<1>4. run' = [run EXCEPT ![r] = s] /\ run'[r] = s
  BY <1>1, <1>2 DEF Cancel
<1>5. StreamRun(Loop, r, s, TRUE)
  BY <1>4 DEF Cancel, StreamRun
<1>6. PostTypes' /\ \A u \in Run : post'[u] = post[u]
  <2>1. PostTypes' /\ \A u \in Thread : u # Loop => post'[u] = post[u]
    BY <1>3, <1>5, Threads, StreamRunPost DEF Shape
  <2> QED
    BY <2>1, Threads
<1>7. /\ UNCHANGED <<loop, queue, rebuilt, ledger, items, hidden, stream, disk,
                     open, history>>
      /\ aged' \subseteq Run
  BY DEF Cancel, Shape, RunTypes
<1>8. run' \in [Run -> State] /\ StreamTypes'
  BY <1>2, <1>3, <1>4, <1>7 DEF Shape, StreamTypes
<1>9. RunsFit'
  BY <1>2, <1>3, <1>4, <1>6, <1>7 DEF Shape, RunsFit
<1> QED
  BY <1>6, <1>7, <1>8, <1>9, RunStepShape

\* A run ends and nobody reports it.
LEMMA SilentEndShape ==
    ASSUME Shape, NEW r \in Run, CancelRaises(r) \/ Reap(r) PROVE Shape'
<1>1. PICK s : s = [run[r] EXCEPT !.st = "ended"]
  OBVIOUS
<1>2. run \in [Run -> State] /\ run[r] \in State
  BY DEF Shape, RunTypes
<1>3. s \in State /\ s.st = "ended"
  BY <1>1, <1>2 DEF State
<1>4. run' = [run EXCEPT ![r] = s] /\ run'[r] = s
  BY <1>1, <1>2 DEF CancelRaises, Reap
<1>5. /\ UNCHANGED <<loop, queue, rebuilt, ledger, items, hidden, stream, disk,
                     open, post>>
      /\ aged' \subseteq Run
  BY DEF CancelRaises, Reap, memoryVars, Shape, RunTypes
<1>6. history' \in HistoryRecord
  <2>1. history \in HistoryRecord
    BY DEF Shape, StreamTypes
  <2>2. history.unheard \cup {r} \in SUBSET Run
    BY <2>1 DEF HistoryRecord
  <2>3. CASE Reap(r)
    BY <2>1, <2>2, <2>3 DEF Reap, HistoryRecord
  <2>4. CASE CancelRaises(r)
    <3>1. history.faults + 1 \in 0..MaxFaults
      BY <2>1, <2>4 DEF CancelRaises, HistoryRecord
    <3> QED
      BY <2>1, <2>2, <2>4, <3>1 DEF CancelRaises, HistoryRecord
  <2> QED
    BY <2>3, <2>4
<1>7. run' \in [Run -> State] /\ StreamTypes' /\ PostTypes'
  BY <1>2, <1>3, <1>4, <1>5, <1>6 DEF Shape, StreamTypes, PostTypes
<1>8. RunsFit'
  BY <1>2, <1>3, <1>4, <1>5 DEF Shape, RunsFit
<1> QED
  BY <1>5, <1>7, <1>8, RunStepShape

\* A tick between two looks at the stream.
LEMMA DirectShape == ASSUME Shape, NEW r \in Run, DirectTick(r) PROVE Shape'
<1>1. UNCHANGED <<run, hidden, ledger, items, stream, disk, aged, queue, open,
                  loop, rebuilt, history>> /\ loop.pc = "poll"
      /\ run[r].st = "running"
  BY DEF DirectTick, diskVars, At
<1>2. PICK c : c = [NoCall EXCEPT !.pc = "tick"]
  OBVIOUS
<1>3. c \in Call /\ c.pc = "tick"
  BY <1>2, NewIsState DEF Call
<1>4. post' = [post EXCEPT ![r] = c]
  BY <1>2 DEF DirectTick
<1>5. PostTypes'
  BY <1>3, <1>4 DEF Shape, PostTypes
<1>6. \A u \in Run : \/ post'[u] = post[u]
                     \/ run[u].st = "running" /\ post'[u].pc = "tick"
  BY <1>1, <1>3, <1>4, Threads DEF Shape, PostTypes
<1>7. RunsFit'
  BY <1>1, <1>6 DEF Shape, RunsFit, Reporting
<1>8. RunTypes' /\ StreamTypes' /\ LoopTypes'
  BY <1>1 DEF Shape, RunTypes, StreamTypes, LoopTypes
<1>9. LoopFits' /\ MissingFits' /\ EntriesFit'
  <2>1. MissingFits'
    <3>1. loop'.pc = "poll"
      BY <1>1
    <3> QED
      BY <3>1 DEF MissingFits
  <2>2. LoopFits' /\ EntriesFit'
    BY <1>1 DEF Shape, LoopFits, Subject, EntriesFit, Recorded
  <2> QED
    BY <2>1, <2>2
<1> QED
  BY <1>5, <1>7, <1>8, <1>9 DEF Shape

\* The loop starts the ticks of the runs that run.
LEMMA ScheduleShape == ASSUME Shape, LoopSchedule PROVE Shape'
<1>1. UNCHANGED <<run, hidden, ledger, items, stream, disk, aged, queue, open,
                  rebuilt, history>> /\ Goto("drain") /\ loop.pc = "poll"
  BY DEF LoopSchedule, diskVars, At
<1>2. PICK c : c = [NoCall EXCEPT !.pc = "tick"]
  OBVIOUS
<1>3. c \in Call /\ c.pc = "tick"
  BY <1>2, NewIsState DEF Call
<1>4. post' = [t \in Thread |->
                  IF t \in Run /\ post[t].pc = "idle" /\ run[t].st = "running"
                  THEN c ELSE post[t]]
  BY <1>2 DEF LoopSchedule
<1>5. PostTypes'
  BY <1>3, <1>4 DEF Shape, PostTypes
<1>6. \A r \in Run : \/ post'[r] = post[r]
                     \/ run[r].st = "running" /\ post'[r].pc = "tick"
  BY <1>3, <1>4, Threads
<1>7. RunsFit'
  BY <1>1, <1>6 DEF Shape, RunsFit, Reporting
<1>8. RunTypes' /\ StreamTypes'
  BY <1>1 DEF Shape, RunTypes, StreamTypes
<1>9. /\ loop' \in LoopRecord /\ loop'.pc = "drain" /\ loop'.boot = loop.boot
      /\ loop'.left = loop.left
  BY <1>1, GotoLoop DEF Shape, LoopTypes, LoopPc
<1>10. LoopTypes' /\ LoopFits' /\ MissingFits'
  BY <1>1, <1>9 DEF Shape, LoopTypes, LoopFits, MissingFits, Raising
<1>11. EntriesFit'
  BY <1>1, <1>9 DEF Shape, EntriesFit, Recorded
<1> QED
  BY <1>5, <1>7, <1>8, <1>10, <1>11 DEF Shape

LEMMA CrashShape == ASSUME Shape, Crash PROVE Shape'
<1>1. UNCHANGED <<run, hidden, ledger, items, stream, disk, aged>>
  BY DEF Crash, diskVars
<1>2. LoopTypes' /\ EntriesFit' /\ LoopFits' /\ MissingFits'
  <2>1. loop' = AtPoll /\ queue' = <<>> /\ rebuilt' = FALSE
    BY DEF Crash
  <2>2. loop'.pc = "poll" /\ loop'.boot = FALSE /\ loop'.left = <<>>
    BY <2>1 DEF AtPoll
  <2>3. <<>> \in Seq(Entry)
    OBVIOUS
  <2>4. Len(<<>>) = 0
    OBVIOUS
  <2>5. LoopTypes'
    BY <2>1, <2>3, NewIsState DEF LoopTypes
  <2>6. EntriesFit'
    BY <2>1, <2>2, <2>4 DEF EntriesFit
  <2> QED
    BY <2>1, <2>2, <2>5, <2>6 DEF LoopFits, MissingFits, Raising
<1>3. PostTypes' /\ \A t \in Thread : post'[t].pc = "idle"
  <2>1. \A t \in Thread : post'[t] = NoCall
    BY DEF Crash
  <2>2. NoCall.pc = "idle"
    BY DEF NoCall
  <2> QED
    BY <2>1, <2>2, NewIsState DEF PostTypes, Crash
<1>4. StreamTypes'
  <2>1. PICK O : O = history.orphan \cup {w \in stream.raised \ stream.seen :
                                            disk.open[w[1]] # w[2]}
    OBVIOUS
  <2>2. PICK f : f = history.faults + 1
    OBVIOUS
  <2>3. history' = [history EXCEPT !.lost = FALSE, !.unheard = {}, !.late = {},
                                   !.unlisted = {}, !.orphan = O, !.faults = f]
    BY <2>1, <2>2 DEF Crash
  <2>4. O \in SUBSET Wait
    BY <2>1 DEF Shape, StreamTypes, HistoryRecord, StreamRecord
  <2>5. f \in 0..MaxFaults
    BY <2>2 DEF Shape, StreamTypes, HistoryRecord, Crash
  <2>6. history' \in HistoryRecord
    BY <2>3, <2>4, <2>5 DEF Shape, StreamTypes, HistoryRecord
  <2>7. open' \in [Run -> 0..MaxWaits]
    BY DEF Crash, NoneOpen
  <2> QED
    BY <1>1, <2>6, <2>7 DEF Shape, StreamTypes
<1>5. RunTypes' /\ RunsFit'
  BY <1>1, <1>3, Threads DEF Shape, RunTypes, RunsFit, Working, Reporting
<1> QED
  BY <1>2, <1>3, <1>4, <1>5 DEF Shape

LEMMA InitShape == Init => Shape
<1> SUFFICES ASSUME Init PROVE Shape
  OBVIOUS
<1>1. LoopTypes /\ EntriesFit /\ LoopFits /\ MissingFits
  <2>1. loop = AtPoll /\ queue = <<>> /\ rebuilt = FALSE
    BY DEF Init
  <2>2. loop.pc = "poll" /\ loop.boot = FALSE /\ loop.left = <<>>
    BY <2>1 DEF AtPoll
  <2>3. <<>> \in Seq(Entry)
    OBVIOUS
  <2>4. Len(<<>>) = 0
    OBVIOUS
  <2>5. LoopTypes
    BY <2>1, <2>3, NewIsState DEF LoopTypes
  <2>6. EntriesFit
    BY <2>1, <2>2, <2>4 DEF EntriesFit
  <2> QED
    BY <2>1, <2>2, <2>5, <2>6 DEF LoopFits, MissingFits, Raising
<1>2. PostTypes /\ \A t \in Thread : post[t].pc = "idle"
  <2>1. \A t \in Thread : post[t] = NoCall
    BY DEF Init
  <2>2. NoCall.pc = "idle"
    BY DEF NoCall
  <2> QED
    BY <2>1, <2>2, NewIsState DEF PostTypes, Init
<1>3. RunTypes
  <2>1. <<>> \in Seq(Nat)
    OBVIOUS
  <2>2. Len(<<>>) = 0
    OBVIOUS
  <2>3. ledger \in [Run -> Seq(Nat)] /\ \A r \in Run : Len(ledger[r]) <= MaxWaits
    BY <2>1, <2>2 DEF Init
  <2> QED
    BY <2>3, NewIsState DEF RunTypes, Init
<1>4. StreamTypes
  <2>1. stream \in StreamRecord
    BY DEF Init, StreamRecord
  <2>2. open \in [Run -> 0..MaxWaits] /\ disk \in DiskRecord
    BY DEF Init, NoneOpen, DiskRecord
  <2>3. history \in HistoryRecord
    BY DEF Init, NoHistory, HistoryRecord
  <2> QED
    BY <2>1, <2>2, <2>3 DEF StreamTypes
<1>5. RunsFit
  <2>1. \A r \in Run : run[r].st = "running"
    BY DEF Init, NewRun
  <2> QED
    BY <1>2, <2>1, Threads DEF RunsFit, Reporting
<1> QED
  BY <1>1, <1>2, <1>3, <1>4, <1>5 DEF Shape

LEMMA ShapeNext == ASSUME Shape, [Next]_vars PROVE Shape'
<1>1. CASE UNCHANGED vars
  BY <1>1 DEF vars, diskVars, memoryVars, Shape, RunTypes, StreamTypes, LoopTypes,
     PostTypes, RunsFit, EntriesFit, Recorded, LoopFits, Subject, MissingFits
<1>2. CASE LoopStep
  BY <1>2, ScheduleShape, DrainShape, ItemShape, RaiseLoadShape, RaiseWaitShape,
     KeepShape, CheckShape, BootPointersShape, BootAttentionShape, BootLoadShape,
     BootListShape, BootCloseShape, BootRaiseShape DEF LoopStep
<1>3. ASSUME NEW t \in Thread, StreamStep(t) PROVE Shape'
  BY <1>3, StreamStepShape
<1>4. ASSUME NEW r \in Run, TickStep(r) PROVE Shape'
  BY <1>4, ParkShape, SaveShape, UnresolvedShape DEF TickStep
<1>5. ASSUME NEW r \in Run, Answer(r) \/ Cancel(r) \/ Purge(r) \/ Ages(r)
      PROVE  Shape'
  BY <1>5, AnswerShape, CancelShape
<1>6. CASE ItemRecorded \/ Crash
  BY <1>6, ItemRecordedShape, CrashShape
<1>7. ASSUME NEW r \in Run, CancelRaises(r) \/ Reap(r) \/ DirectTick(r)
      PROVE  Shape'
  BY <1>7, SilentEndShape, DirectShape
<1> QED
  BY <1>1, <1>2, <1>3, <1>4, <1>5, <1>6, <1>7 DEF Next

LEMMA ShapeIsTyped == Shape => TypeOK
<1> SUFFICES ASSUME Shape PROVE TypeOK
  OBVIOUS
<1>1. history \in HistoryRecord /\ loop \in LoopRecord
  BY DEF Shape, StreamTypes, LoopTypes
<1>2. /\ history.unheard \subseteq Run /\ history.unlisted \subseteq Run
      /\ history.late \subseteq Wait /\ history.ahead \subseteq Wait
      /\ history.orphan \subseteq Wait
      /\ history.unsent \subseteq Item /\ history.faults \in 0..MaxFaults
  BY <1>1 DEF HistoryRecord
<1>3. \A r \in Run : ledger[r] \in Seq(Nat) /\ Len(ledger[r]) <= MaxWaits
  BY DEF Shape, RunTypes
<1>4. stream \in StreamRecord /\ disk \in DiskRecord /\ open \in [Run -> 0..MaxWaits]
  BY DEF Shape, StreamTypes
<1>5. post \in [Thread -> Call] /\ queue \in Seq(Entry) /\ rebuilt \in BOOLEAN
  BY DEF Shape, PostTypes, LoopTypes
<1>6. run \in [Run -> State] /\ hidden \subseteq Run /\ items \in 0..MaxItems
      /\ aged \subseteq Run
  BY DEF Shape, RunTypes
<1>7. /\ loop.pc \in LoopPc /\ loop.boot \in BOOLEAN /\ loop.left \in Seq(Entry)
      /\ loop.todo \subseteq Run \X (0..MaxWaits) /\ loop.got \in State
  BY <1>1, LoopFields
<1> QED
  BY <1>2, <1>3, <1>4, <1>5, <1>6, <1>7
     DEF TypeOK, StreamRecord, DiskRecord, Call, LoopPc

\* Every variable keeps its type: the shape is kept by every step.
THEOREM StreamTypeCorrect == Spec => []TypeOK
<1>1. Shape /\ [Next]_vars => Shape'
  BY ShapeNext
<1> QED
  BY InitShape, <1>1, ShapeIsTyped, PTL DEF Spec

-----------------------------------------------------------------------------
(* What a step may do to a run.                                            *)

\* The ledger of a run grows only while its tick parks; an end is final; the
\* run waits once the tick that parked has saved it.
RunStep(r) ==
    /\ \/ Len(ledger'[r]) = Len(ledger[r])
       \/ /\ Len(ledger'[r]) = Len(ledger[r]) + 1 /\ run'[r] = run[r]
          /\ post[r].pc = "tick" /\ post'[r].pc = "park"
    /\ Over(run[r]) => Over(run'[r])
    /\ run'[r].st = "waiting" => \/ run[r].st = "waiting"
                                 \/ post[r].pc = "park" /\ post'[r].pc = "resolve"
    /\ post'[r].pc = "park" => \/ /\ Len(ledger'[r]) = Len(ledger[r])
                                  /\ post[r].pc = "park"
                               \/ Len(ledger'[r]) = Len(ledger[r]) + 1
    /\ post'[r].pc = "resolve" => \/ post'[r] = post[r]
                                  \/ post'[r].state = run'[r]

LEMMA SameRun ==
    ASSUME NEW r \in Run, ledger' = ledger, run'[r] = run[r], post'[r] = post[r]
    PROVE  RunStep(r)
BY DEF RunStep

LEMMA LoopFrame ==
    ASSUME Shape, LoopStep
    PROVE  post[Loop].pc = "idle" /\ (Frame \/ LoopSchedule)
<1>1. post[Loop].pc = "idle"
  BY DEF LoopStep, LoopSchedule, LoopDrain, RaiseItem, RaiseFloor, RaiseLoad,
     RaiseClosesPrevious, RaiseWait, RaiseKeep, RaiseCheck, BootPointers,
     BootAttention, BootLoad, BootList, BootDone, BootClose, BootRaise, Entering, At
<1>2. CASE LoopDrain \/ RaiseItem \/ RaiseFloor \/ RaiseLoad \/ RaiseClosesPrevious
  BY <1>1, <1>2 DEF Frame, LoopDrain, RaiseItem, RaiseFloor, RaiseLoad,
     RaiseClosesPrevious, diskVars
<1>3. CASE RaiseWait \/ RaiseKeep \/ BootPointers \/ BootAttention
  BY <1>1, <1>3 DEF Frame, RaiseWait, RaiseKeep, BootPointers, BootAttention
<1>4. CASE BootLoad \/ BootList \/ BootDone \/ \E w \in loop.todo : BootRaise(w)
  BY <1>1, <1>4 DEF Frame, BootLoad, BootList, BootDone, BootRaise, diskVars
<1>5. CASE RaiseCheck
  <2>1. loop.left # <<>> /\ Subject # {}
    BY <1>5 DEF Shape, LoopFits, RaiseCheck, At, Raising
  <2>2. PICK r \in Run : Subject = {r}
    BY <2>1, WaitAtHand
  <2>3. post' = post \/ StreamRun(Loop, r, loop.got, FALSE)
    BY <1>5, <2>2 DEF RaiseCheck, Subject
  <2>4. loop.got \in State
    BY LoopFields DEF Shape, LoopTypes
  <2>5. UNCHANGED <<run, hidden, ledger, items, aged>>
    BY <1>5 DEF RaiseCheck
  <2> QED
    BY <1>1, <2>3, <2>4, <2>5, LoopReport
<1>6. ASSUME NEW w \in loop.todo, BootClose(w) PROVE Frame
  <2>1. w[1] \in Run /\ run[w[1]] \in State
    BY LoopFields DEF Shape, LoopTypes, RunTypes
  <2>2. post' = post \/ StreamRun(Loop, w[1], run[w[1]], FALSE)
    BY <1>6 DEF BootClose
  <2>3. UNCHANGED <<run, hidden, ledger, items, aged>>
    BY <1>6 DEF BootClose
  <2> QED
    BY <2>1, <2>2, <2>3, LoopReport
<1> QED
  BY <1>1, <1>2, <1>3, <1>4, <1>5, <1>6 DEF LoopStep

LEMMA TickRunStep ==
    ASSUME Shape, NEW u \in Run, TickStep(u), NEW r \in Run PROVE RunStep(r)
<1>1. run \in [Run -> State] /\ ledger \in [Run -> Seq(Nat)]
      /\ post \in [Thread -> Call] /\ r \in Thread /\ u \in Thread
      /\ post[u] \in Call /\ run[u] \in State
  BY Threads DEF Shape, RunTypes, PostTypes
<1>2. CASE u # r
  <2>1. run'[r] = run[r] /\ post'[r] = post[r]
    BY <1>1, <1>2 DEF TickStep, TickPark, TickSave, TickUnresolved, StreamRun
  <2>2. ledger'[r] = ledger[r]
    BY <1>1, <1>2 DEF TickStep, TickPark, TickSave, TickUnresolved
  <2> QED
    BY <2>1, <2>2 DEF RunStep
<1>3. CASE u = r
  <2>1. ASSUME NEW k \in Keys(r), TickPark(r, k) PROVE RunStep(r)
    <3>1. ledger' = [ledger EXCEPT ![r] = Append(ledger[r], k)]
      BY <2>1 DEF TickPark
    <3>2. Len(Append(ledger[r], k)) = Len(ledger[r]) + 1
      BY <1>1, KeysAreNat, AppendProperties
    <3>3. Len(ledger'[r]) = Len(ledger[r]) + 1
      BY <1>1, <3>1, <3>2
    <3>4. post[r].pc = "tick" /\ post'[r].pc = "park" /\ run' = run
      BY <1>1, <2>1 DEF TickPark, Call
    <3> QED
      BY <3>3, <3>4 DEF RunStep
  <2>2. ASSUME NEW st \in {"running", "waiting", "ended"}, TickSave(r, st)
        PROVE  RunStep(r)
    <3>1. PICK s : s = IF Over(run[r]) THEN run[r]
                       ELSE [st |-> st, step |-> Len(ledger[r])]
      OBVIOUS
    <3>2. /\ run' = [run EXCEPT ![r] = s] /\ ledger' = ledger
          /\ post' = [post EXCEPT ![r] = [pc |-> "resolve", run |-> {r},
                                          state |-> s, pointer |-> TRUE]]
      BY <2>2, <3>1 DEF TickSave, StreamRun
    <3>3. run'[r] = s /\ post'[r].pc = "resolve" /\ post'[r].state = s
      BY <1>1, <3>2
    <3>4. /\ Over(run[r]) => Over(s)
          /\ s.st = "waiting" => post[r].pc = "park"
      BY <2>2, <3>1 DEF TickSave, Over
    <3> QED
      BY <3>2, <3>3, <3>4 DEF RunStep
  <2>3. CASE TickUnresolved(r)
    <3>1. ledger' = ledger /\ post' = [post EXCEPT ![r] = NoCall]
      BY <2>3 DEF TickUnresolved
    <3>2. PICK s : s = [run[r] EXCEPT !.st = IF run[r].st = "running" THEN "ended"
                                             ELSE run[r].st]
      OBVIOUS
    <3>3. run' = [run EXCEPT ![r] = s]
      BY <2>3, <3>2 DEF TickUnresolved
    <3>4. s.st = IF run[r].st = "running" THEN "ended" ELSE run[r].st
      BY <1>1, <3>2 DEF State
    <3>5. run'[r] = s /\ post'[r].pc = "idle"
      BY <1>1, <3>1, <3>3 DEF NoCall
    <3> QED
      BY <3>1, <3>4, <3>5 DEF RunStep, Over
  <2> QED
    BY <1>3, <2>1, <2>2, <2>3 DEF TickStep
<1> QED
  BY <1>2, <1>3

LEMMA RunSteps == ASSUME Shape, [Next]_vars, NEW r \in Run PROVE RunStep(r)
<1>1. run \in [Run -> State] /\ r \in Thread /\ r # Loop /\ run[r] \in State
      /\ post \in [Thread -> Call]
  BY Threads DEF Shape, RunTypes, PostTypes
<1>2. CASE UNCHANGED vars
  BY <1>2, SameRun DEF vars, diskVars, memoryVars
<1>3. CASE LoopStep
  <2>1. CASE Frame
    BY <2>1, SameRun DEF Frame
  <2>2. CASE LoopSchedule
    <3>1. run' = run /\ ledger' = ledger
      BY <2>2 DEF LoopSchedule, diskVars
    <3>2. post'[r] = post[r] \/ post'[r] = [NoCall EXCEPT !.pc = "tick"]
      BY <1>1, <2>2 DEF LoopSchedule
    <3>3. [NoCall EXCEPT !.pc = "tick"].pc = "tick"
      BY DEF NoCall
    <3> QED
      BY <3>1, <3>2, <3>3 DEF RunStep
  <2> QED
    BY <1>3, <2>1, <2>2, LoopFrame
<1>4. ASSUME NEW t \in Thread, StreamStep(t) PROVE RunStep(r)
  <2>1. run' = run /\ ledger' = ledger
    BY <1>4 DEF StreamStep, Resolve, Pop, Pointer
  <2>2. PostTypes
    BY DEF Shape
  <2>3. \/ Resolved(t) \/ post' = [post EXCEPT ![t].pc = "pop"]
        \/ post' = [post EXCEPT ![t] = NoCall]
    BY <1>4 DEF StreamStep, Resolve, Pop, Pointer
  <2>4. NoCall.pc = "idle"
    BY DEF NoCall
  <2>5. post'[r] = post[r] \/ post'[r].pc \in {"idle", "pointer", "pop"}
    <3>1. CASE Resolved(t)
      BY <1>1, <2>2, <2>4, <3>1, ResolvedPost
    <3>2. CASE post' = [post EXCEPT ![t].pc = "pop"]
      BY <1>1, <3>2 DEF Call
    <3>3. CASE post' = [post EXCEPT ![t] = NoCall]
      BY <1>1, <2>4, <3>3
    <3> QED
      BY <2>3, <3>1, <3>2, <3>3
  <2> QED
    BY <2>1, <2>5 DEF RunStep
<1>5. ASSUME NEW u \in Run, TickStep(u) PROVE RunStep(r)
  BY <1>5, TickRunStep
<1>6. ASSUME NEW u \in Run, Answer(u) \/ Purge(u) \/ Ages(u) PROVE RunStep(r)
  <2>1. post' = post /\ ledger' = ledger
    BY <1>6 DEF Answer, Purge, Ages, memoryVars
  <2>2. \/ run'[r] = run[r] \/ run'[r].st = "gone"
        \/ run[r].st = "waiting" /\ run'[r].st = "running"
    BY <1>1, <1>6 DEF Answer, Purge, Ages, State
  <2> QED
    BY <2>1, <2>2 DEF RunStep, Over
<1>7. ASSUME NEW u \in Run, Cancel(u) \/ CancelRaises(u) \/ Reap(u)
      PROVE  RunStep(r)
  <2>1. ledger' = ledger /\ post'[r] = post[r]
    BY <1>1, <1>7 DEF Cancel, CancelRaises, Reap, StreamRun, memoryVars
  <2>2. run'[r] = run[r] \/ run'[r].st = "ended"
    BY <1>1, <1>7 DEF Cancel, CancelRaises, Reap, State
  <2> QED
    BY <2>1, <2>2 DEF RunStep, Over
<1>10. ASSUME NEW u \in Run, DirectTick(u) PROVE RunStep(r)
  <2>1. run' = run /\ ledger' = ledger
    BY <1>10 DEF DirectTick, diskVars
  <2>2. post'[r] = post[r] \/ post'[r] = [NoCall EXCEPT !.pc = "tick"]
    BY <1>1, <1>10 DEF DirectTick
  <2>3. [NoCall EXCEPT !.pc = "tick"].pc = "tick"
    BY DEF NoCall
  <2> QED
    BY <2>1, <2>2, <2>3 DEF RunStep
<1>8. CASE ItemRecorded
  BY <1>8, SameRun DEF ItemRecorded
<1>9. CASE Crash
  <2>1. run' = run /\ ledger' = ledger /\ post'[r].pc = "idle"
    BY <1>1, <1>9 DEF Crash, diskVars, NoCall
  <2> QED
    BY <2>1 DEF RunStep
<1> QED
  BY <1>2, <1>3, <1>4, <1>5, <1>6, <1>7, <1>8, <1>9, <1>10 DEF Next

\* The wait is over: the run asked again, ended, or left the wait.  A tick
\* that has recorded a wait and not saved it is about to wait on it.
Closed(r, n) ==
    \/ n < Len(ledger[r])
    \/ Over(run[r])
    \/ run[r].st = "running" /\ post[r].pc # "park"

LEMMA ClosedStays ==
    ASSUME Shape, Shape', NEW r \in Run, RunStep(r), NEW n \in Nat,
           n <= Len(ledger[r]), Closed(r, n)
    PROVE  n <= Len(ledger'[r]) /\ Closed(r, n)'
<1>1. Len(ledger[r]) \in Nat /\ run[r] \in State /\ run'[r] \in State
  BY DEF Shape, RunTypes
<1>2. CASE Len(ledger'[r]) = Len(ledger[r]) + 1
  BY <1>1, <1>2 DEF Closed
<1>3. CASE Len(ledger'[r]) = Len(ledger[r])
  <2>1. CASE Over(run[r]) \/ n < Len(ledger[r])
    BY <1>3, <2>1 DEF Closed, RunStep
  <2>2. CASE run[r].st = "running" /\ post[r].pc # "park"
    <3>1. post'[r].pc # "park" /\ run'[r].st # "waiting"
      BY <1>1, <1>3, <2>2 DEF RunStep
    <3>2. run'[r].st = "running" \/ Over(run'[r])
      BY <1>1, <3>1 DEF State, Over
    <3> QED
      BY <1>3, <3>1, <3>2 DEF Closed
  <2> QED
    BY <2>1, <2>2 DEF Closed
<1> QED
  BY <1>2, <1>3 DEF RunStep

-----------------------------------------------------------------------------
(* What a step of the loop does to what it has at hand.                    *)

\* Steps that keep the entries at hand.
Ways == {<<"poll", "drain">>, <<"drain", "pointers">>, <<"entry", "floor">>,
         <<"raise", "raiseNext">>, <<"raise", "keep">>, <<"raiseNext", "keep">>,
         <<"keep", "check">>, <<"entry", "drain">>, <<"pointers", "drain">>,
         <<"pointers", "attention">>, <<"attention", "load">>,
         <<"close", "close">>, <<"close", "drain">>, <<"close", "missing">>,
         <<"missing", "missing">>, <<"missing", "drain">>}

Stays ==
    /\ <<loop.pc, loop'.pc>> \in Ways
    /\ loop'.left = loop.left /\ loop'.boot = loop.boot /\ loop'.got = loop.got
    /\ queue' = queue
    /\ loop.pc = "entry" /\ loop'.pc = "drain" => loop.boot
    /\ IF loop.pc = "drain" THEN ~rebuilt /\ rebuilt' ELSE rebuilt' = rebuilt

Loads ==
    /\ loop.pc = "entry" /\ loop'.pc = "raise" /\ loop'.left = loop.left
    /\ loop.left # <<>> /\ Subject # {} /\ loop'.boot = loop.boot
    /\ UNCHANGED <<queue, rebuilt>>
    /\ \E r \in Subject : /\ loop'.got = run[r]
                          /\ r \in hidden => run[r].st = "gone"

Finishes ==
    /\ loop.pc \in {"entry", "floor", "raise", "raiseNext", "check"}
    /\ loop.left # <<>> /\ NextEntry
    /\ UNCHANGED <<queue, rebuilt>>

Clears ==
    /\ <<loop.pc, loop'.pc>> \in {<<"keep", "missing">>, <<"load", "close">>}
    /\ loop'.left = <<>> /\ loop'.boot /\ (loop.pc = "keep" => loop.boot)
    /\ UNCHANGED <<queue, rebuilt>>

Lists ==
    /\ loop.pc = "attention" /\ loop'.pc = "entry" /\ loop'.boot
    /\ \A i \in 1..Len(loop'.left) : loop'.left[i].run = {}
    /\ UNCHANGED <<queue, rebuilt>>

Drains ==
    /\ loop.pc = "drain" /\ rebuilt /\ rebuilt'
    /\ loop'.pc \in {"poll", "entry"} /\ loop'.boot = FALSE
    /\ loop'.left = queue /\ queue' = <<>>

\* A run that is parked without an open wait.
Repairs ==
    /\ loop.pc = "missing" /\ loop'.pc = "keep" /\ loop.boot /\ loop'.boot
    /\ UNCHANGED <<queue, rebuilt>>
    /\ \E r \in Run, n \in 1..MaxWaits :
          /\ n = Len(ledger[r]) /\ open[r] = 0 /\ r \notin hidden /\ LockFree
          /\ loop'.left = <<WaitEntry(r, n)>>
          /\ loop'.got = [st |-> "waiting", step |-> n]
          /\ stream'.raised = stream.raised \cup {<<r, n>>}
          /\ \A i \in 1..Len(queue) :
                queue[i].run = {r} =>
                    n <= queue[i].n \/ <<r, n>> \in history'.ahead

LoopMove ==
    Stays \/ Loads \/ Finishes \/ Clears \/ Lists \/ Drains \/ Repairs

LEMMA GotoStays ==
    ASSUME Shape, NEW pc \in LoopPc, Goto(pc), <<loop.pc, pc>> \in Ways,
           loop.pc # "drain", UNCHANGED <<queue, rebuilt>>,
           loop.pc = "entry" /\ pc = "drain" => loop.boot
    PROVE  Stays
<1>1. /\ loop'.pc = pc /\ loop'.boot = loop.boot /\ loop'.left = loop.left
      /\ loop'.got = loop.got
  BY GotoLoop DEF Shape, LoopTypes
<1> QED
  BY <1>1 DEF Stays

LEMMA RaiseMoves ==
    ASSUME Shape,
           RaiseItem \/ RaiseFloor \/ RaiseLoad \/ RaiseClosesPrevious \/ RaiseWait
    PROVE  LoopMove
<1>1. UNCHANGED <<queue, rebuilt>> /\ LoopFits
  BY DEF RaiseItem, RaiseFloor, RaiseLoad, RaiseClosesPrevious, RaiseWait, Shape
<1>2. CASE RaiseItem \/ RaiseFloor
  <2>1. /\ loop.pc \in {"entry", "floor"} /\ loop.left # <<>>
        /\ \/ NextEntry
           \/ loop.pc = "entry" /\ Goto("floor")
           \/ loop.pc = "entry" /\ Goto("drain") /\ loop.boot
    BY <1>1, <1>2 DEF RaiseItem, RaiseFloor, Entering, At, Abandon, LoopFits
  <2>2. CASE NextEntry
    BY <1>1, <2>1, <2>2 DEF LoopMove, Finishes
  <2>3. CASE loop.pc = "entry" /\ Goto("floor")
    BY <1>1, <2>3, GotoStays DEF LoopMove, Ways, LoopPc
  <2>4. CASE loop.pc = "entry" /\ Goto("drain") /\ loop.boot
    BY <1>1, <2>4, GotoStays DEF LoopMove, Ways, LoopPc
  <2> QED
    BY <2>1, <2>2, <2>3, <2>4
<1>3. CASE RaiseLoad
  <2>1. loop.pc = "entry" /\ loop.left # <<>> /\ Subject # {}
    BY <1>3 DEF RaiseLoad, Entering, At, Subject
  <2>2. PICK r \in Subject :
          IF r \in hidden /\ run[r].st # "gone"
          THEN NextEntry
          ELSE loop' = [loop EXCEPT !.pc = "raise", !.got = run[r]]
    BY <1>3 DEF RaiseLoad, Subject
  <2>3. CASE NextEntry
    BY <1>1, <2>1, <2>3 DEF LoopMove, Finishes
  <2>4. CASE /\ loop' = [loop EXCEPT !.pc = "raise", !.got = run[r]]
             /\ r \in hidden => run[r].st = "gone"
    <3>1. loop \in LoopRecord
      BY DEF Shape, LoopTypes
    <3>2. /\ loop'.pc = "raise" /\ loop'.got = run[r] /\ loop'.left = loop.left
          /\ loop'.boot = loop.boot
      BY <2>4, <3>1 DEF LoopRecord
    <3> QED
      BY <1>1, <2>1, <2>4, <3>2 DEF LoopMove, Loads
  <2> QED
    BY <2>2, <2>3, <2>4
<1>4. CASE RaiseClosesPrevious
  <2>1. /\ loop.pc = "raise" /\ loop.left # <<>>
        /\ NextEntry \/ Goto("raiseNext")
    BY <1>1, <1>4 DEF RaiseClosesPrevious, At, LoopFits, Raising
  <2>2. CASE NextEntry
    BY <1>1, <2>1, <2>2 DEF LoopMove, Finishes
  <2>3. CASE Goto("raiseNext")
    BY <1>1, <2>1, <2>3, GotoStays DEF LoopMove, Ways, LoopPc
  <2> QED
    BY <2>1, <2>2, <2>3
<1>5. CASE RaiseWait
  <2>1. /\ loop.pc \in {"raise", "raiseNext"} /\ loop.left # <<>>
        /\ NextEntry \/ Goto("keep")
    BY <1>1, <1>5 DEF RaiseWait, At, LoopFits, Raising
  <2>2. CASE NextEntry
    BY <1>1, <2>1, <2>2 DEF LoopMove, Finishes
  <2>3. CASE Goto("keep")
    BY <1>1, <2>1, <2>3, GotoStays DEF LoopMove, Ways, LoopPc
  <2> QED
    BY <2>1, <2>2, <2>3
<1> QED
  BY <1>2, <1>3, <1>4, <1>5

LEMMA KeepMoves == ASSUME Shape, RaiseKeep \/ RaiseCheck PROVE LoopMove
<1>1. UNCHANGED <<queue, rebuilt>> /\ LoopFits /\ loop \in LoopRecord
  BY DEF RaiseKeep, RaiseCheck, Shape, LoopTypes
<1>2. CASE RaiseKeep /\ loop.boot
  <2>1. loop' = [loop EXCEPT !.pc = "missing", !.left = <<>>, !.got = NewRun]
    BY <1>2 DEF RaiseKeep
  <2>2. loop'.pc = "missing" /\ loop'.left = <<>> /\ loop'.boot = loop.boot
    BY <1>1, <2>1 DEF LoopRecord
  <2>3. loop.pc = "keep"
    BY <1>2 DEF RaiseKeep, At
  <2> QED
    BY <1>1, <1>2, <2>2, <2>3 DEF LoopMove, Clears
<1>3. CASE RaiseKeep /\ ~loop.boot
  <2>1. Goto("check") /\ loop.pc = "keep"
    BY <1>3 DEF RaiseKeep, Goto, At
  <2> QED
    BY <1>1, <2>1, GotoStays DEF LoopMove, Ways, LoopPc
<1>4. CASE RaiseCheck
  <2>1. loop.pc = "check" /\ loop.left # <<>> /\ Subject # {}
    BY <1>1, <1>4 DEF RaiseCheck, At, LoopFits, Raising
  <2>2. NextEntry
    BY <1>4 DEF RaiseCheck, CloseMissing
  <2> QED
    BY <1>1, <2>1, <2>2 DEF LoopMove, Finishes
<1> QED
  BY <1>2, <1>3, <1>4

LEMMA DrainMoves == ASSUME Shape, LoopSchedule \/ LoopDrain PROVE LoopMove
<1>1. CASE LoopSchedule
  <2>1. loop.pc = "poll" /\ Goto("drain") /\ UNCHANGED <<queue, rebuilt>>
    BY <1>1 DEF LoopSchedule, At
  <2> QED
    BY <2>1, GotoStays DEF LoopMove, Ways, LoopPc
<1>2. CASE LoopDrain /\ ~rebuilt
  <2>1. /\ loop.pc = "drain" /\ Goto("pointers") /\ queue' = queue
        /\ rebuilt' = TRUE
    BY <1>2 DEF LoopDrain, At
  <2>2. /\ loop'.pc = "pointers" /\ loop'.boot = loop.boot
        /\ loop'.left = loop.left /\ loop'.got = loop.got
    BY <2>1, GotoLoop DEF Shape, LoopTypes, LoopPc
  <2> QED
    BY <1>2, <2>1, <2>2 DEF LoopMove, Stays, Ways
<1>3. CASE LoopDrain /\ rebuilt
  <2>1. /\ loop.pc = "drain" /\ queue' = <<>> /\ rebuilt' = TRUE
        /\ loop' = IF queue = <<>> THEN AtPoll
                   ELSE [AtPoll EXCEPT !.pc = "entry", !.left = queue]
    BY <1>3 DEF LoopDrain, At
  <2>2. loop'.pc \in {"poll", "entry"} /\ loop'.boot = FALSE /\ loop'.left = queue
    BY <2>1 DEF AtPoll
  <2> QED
    BY <1>3, <2>1, <2>2 DEF LoopMove, Drains
<1> QED
  BY <1>1, <1>2, <1>3

LEMMA BootMoves ==
    ASSUME Shape, BootPointers \/ BootAttention \/ BootLoad \/ BootList \/ BootDone
    PROVE  LoopMove
<1>1. UNCHANGED <<queue, rebuilt>> /\ LoopFits /\ loop \in LoopRecord
  BY DEF BootPointers, BootAttention, BootLoad, BootList, BootDone, Shape, LoopTypes
<1>2. CASE BootPointers
  <2>1. loop.pc = "pointers" /\ (Goto("attention") \/ Goto("drain"))
    BY <1>2 DEF BootPointers, At
  <2> QED
    BY <1>1, <2>1, GotoStays DEF LoopMove, Ways, LoopPc
<1>3. CASE BootAttention
  <2>1. loop.pc = "attention"
    BY <1>3 DEF BootAttention, At
  <2>2. CASE disk.floored /\ items > disk.floor
    <3>1. PICK L : L = [i \in 1..(items - disk.floor) |-> ItemEntry(disk.floor + i)]
      OBVIOUS
    <3>2. loop' = [loop EXCEPT !.pc = "entry", !.boot = TRUE, !.left = L]
      BY <1>3, <2>2, <3>1 DEF BootAttention
    <3>3. loop'.pc = "entry" /\ loop'.boot = TRUE
      BY <1>1, <3>2 DEF LoopRecord
    <3>4. Shape'
      BY <1>3, BootAttentionShape
    <3>5. \A i \in 1..Len(loop'.left) : loop'.left[i].run = {}
      BY <3>3, <3>4 DEF Shape, LoopFits
    <3> QED
      BY <1>1, <2>1, <3>3, <3>5 DEF LoopMove, Lists
  <2>3. CASE ~(disk.floored /\ items > disk.floor)
    <3>1. Goto("load")
      BY <1>3, <2>3 DEF BootAttention
    <3> QED
      BY <1>1, <2>1, <3>1, GotoStays DEF LoopMove, Ways, LoopPc
  <2> QED
    BY <2>2, <2>3
<1>4. CASE BootLoad
  <2>1. PICK T : T = {<<r, 0>> : r \in {s \in Run : disk.open[s] # 0}}
    OBVIOUS
  <2>2. loop' = [loop EXCEPT !.pc = "close", !.boot = TRUE, !.left = <<>>, !.todo = T]
    BY <1>4, <2>1 DEF BootLoad
  <2>3. loop'.pc = "close" /\ loop'.boot = TRUE /\ loop'.left = <<>>
    BY <1>1, <2>2 DEF LoopRecord
  <2>4. loop.pc = "load"
    BY <1>4 DEF BootLoad, At
  <2> QED
    BY <1>1, <2>3, <2>4 DEF LoopMove, Clears
<1>5. CASE BootList
  <2>1. loop.pc = "close"
    BY <1>5 DEF BootList, At
  <2>2. PICK T : T = {<<r, run[r].step>> : r \in {r \in Run : run[r].st = "waiting"}}
    OBVIOUS
  <2>3. Goto("drain") \/ loop' = [loop EXCEPT !.pc = "missing", !.todo = T]
    BY <1>5, <2>2 DEF BootList
  <2>4. CASE Goto("drain")
    BY <1>1, <2>1, <2>4, GotoStays DEF LoopMove, Ways, LoopPc
  <2>5. CASE loop' = [loop EXCEPT !.pc = "missing", !.todo = T]
    <3>1. /\ loop'.pc = "missing" /\ loop'.left = loop.left
          /\ loop'.boot = loop.boot /\ loop'.got = loop.got
      BY <1>1, <2>5 DEF LoopRecord
    <3> QED
      BY <1>1, <2>1, <3>1 DEF LoopMove, Stays, Ways
  <2> QED
    BY <2>3, <2>4, <2>5
<1>6. CASE BootDone
  <2>1. loop.pc = "missing" /\ Goto("drain")
    BY <1>6 DEF BootDone, At
  <2> QED
    BY <1>1, <2>1, GotoStays DEF LoopMove, Ways, LoopPc
<1> QED
  BY <1>2, <1>3, <1>4, <1>5, <1>6

LEMMA DoneStays ==
    ASSUME Shape, NEW w, Done(w), loop.pc \in {"close", "missing"},
           UNCHANGED <<queue, rebuilt>>
    PROVE  Stays
<1>1. /\ loop'.pc = loop.pc /\ loop'.boot = loop.boot /\ loop'.left = loop.left
      /\ loop'.got = loop.got
  BY DoneLoop DEF Shape, LoopTypes
<1> QED
  BY <1>1 DEF Stays, Ways

LEMMA RepairMoves ==
    ASSUME Shape, NEW w \in loop.todo, BootClose(w) \/ BootRaise(w)
    PROVE  LoopMove
<1>1. UNCHANGED <<queue, rebuilt>> /\ LoopFits /\ loop \in LoopRecord
  BY DEF BootClose, BootRaise, Shape, LoopTypes
<1>2. CASE BootClose(w)
  <2>1. loop.pc = "close" /\ (Done(w) \/ Goto("drain"))
    BY <1>2 DEF BootClose, At, CloseMissing
  <2> QED
    BY <1>1, <2>1, GotoStays, DoneStays DEF LoopMove, Ways, LoopPc
<1>3. CASE BootRaise(w)
  <2>1. loop.pc = "missing" /\ loop.boot
    BY <1>1, <1>3 DEF BootRaise, At, LoopFits
  <2>2. PICK r \in Run, n \in 1..MaxWaits :
          /\ r = w[1] /\ n = w[2] /\ n = Len(ledger[r])
          /\ LatestWaitRecord(w[1], w[2]) = n
    BY <2>1, LatestIsNewest
  <2>3. \/ Done(w) \/ Goto("drain")
        \/ /\ open[r] = 0 /\ r \notin hidden /\ LockFree /\ Raised(<<r, n>>)
           /\ loop' = [loop EXCEPT !.pc = "keep", !.todo = @ \ {w},
                                   !.left = <<WaitEntry(r, n)>>,
                                   !.got = [st |-> "waiting", step |-> n]]
           /\ history' = [history EXCEPT !.ahead = IF Overtakes(r, n)
                                                   THEN @ \cup {<<r, n>>} ELSE @]
    BY <1>3, <2>2 DEF BootRaise
  <2>4. CASE Done(w) \/ Goto("drain")
    BY <1>1, <2>1, <2>4, GotoStays, DoneStays DEF LoopMove, Ways, LoopPc
  <2>5. CASE /\ open[r] = 0 /\ r \notin hidden /\ LockFree /\ Raised(<<r, n>>)
             /\ loop' = [loop EXCEPT !.pc = "keep", !.todo = @ \ {w},
                                     !.left = <<WaitEntry(r, n)>>,
                                     !.got = [st |-> "waiting", step |-> n]]
             /\ history' = [history EXCEPT !.ahead = IF Overtakes(r, n)
                                                     THEN @ \cup {<<r, n>>} ELSE @]
    <3>1. PICK T, L, g : /\ T = loop.todo \ {w} /\ L = <<WaitEntry(r, n)>>
                         /\ g = [st |-> "waiting", step |-> n]
      OBVIOUS
    <3>2. loop' = [loop EXCEPT !.pc = "keep", !.todo = T, !.left = L, !.got = g]
      BY <2>5, <3>1
    <3>3. /\ loop'.pc = "keep" /\ loop'.left = L /\ loop'.got = g
          /\ loop'.boot = loop.boot
      BY <1>1, <3>2 DEF LoopRecord
    <3>4. stream'.raised = stream.raised \cup {<<r, n>>}
      BY <2>5 DEF Raised, Shape, StreamTypes, StreamRecord
    <3>5. queue \in Seq(Entry)
      BY DEF Shape, LoopTypes
    <3>6. Overtakes(r, n) => <<r, n>> \in history'.ahead
      BY <2>5 DEF Shape, StreamTypes, HistoryRecord
    <3>7. ASSUME NEW i \in 1..Len(queue), queue[i].run = {r}
          PROVE  n <= queue[i].n \/ <<r, n>> \in history'.ahead
      <4>1. i \in DOMAIN queue /\ queue[i] \in Entry
        BY <3>5
      <4>2. i \in DOMAIN queue /\ queue[i].n \in Nat
        BY <4>1 DEF Entry
      <4> QED
        BY <3>6, <3>7, <4>2 DEF Overtakes
    <3> QED
      BY <1>1, <2>1, <2>2, <2>5, <3>1, <3>3, <3>4, <3>7 DEF LoopMove, Repairs
  <2> QED
    BY <2>3, <2>4, <2>5
<1> QED
  BY <1>2, <1>3

LEMMA LoopMoves == ASSUME Shape, LoopStep PROVE LoopMove
BY RaiseMoves, KeepMoves, DrainMoves, BootMoves, RepairMoves DEF LoopStep

-----------------------------------------------------------------------------
(* What a step does to the open waits, in memory and in the file.          *)

\* The wait of a run is forgotten: a report has closed it, or the run is
\* missing and the wait is seen or the append raised.
Forgets ==
    \E r \in Run :
        /\ open' = [open EXCEPT ![r] = 0] /\ disk'.open \in {disk.open, open'}
        /\ \/ \E t \in Thread : post[t].pc = "pop" /\ post[t].run = {r}
           \/ /\ loop.pc \in {"check", "close"}
              /\ <<r, open[r]>> \in stream'.seen \/ history'.lost = TRUE

KeepsWait ==
    /\ loop.pc = "keep" /\ post[Loop].pc = "idle" /\ UNCHANGED stream
    /\ loop'.pc \in {"check", "missing"}
    /\ \E r \in Run : /\ Subject = {r} /\ open' = [open EXCEPT ![r] = N]
                      /\ disk'.open = open'
                      /\ history'.orphan = history.orphan \ {<<r, N>>}
                      /\ history'.lost = history.lost

LoadsWaits ==
    /\ loop.pc = "load" /\ loop'.pc = "close" /\ post[Loop].pc = "idle"
    /\ LockFree /\ open' = disk.open
    /\ UNCHANGED <<run, ledger, post, disk, stream, history>>

OpenStep ==
    \/ open' = open /\ disk'.open = disk.open
    \/ Forgets \/ KeepsWait \/ LoadsWaits
    \/ open' = NoneOpen /\ disk' = disk /\ Crash

LEMMA CloseForgets ==
    ASSUME Shape, NEW r \in Run, open[r] # 0, Closes(r),
           loop.pc \in {"check", "close"}
    PROVE  OpenStep
<1>1. CASE Seen(<<r, open[r]>>) /\ KeepOpen(r, 0) /\ history' = history
  <2>1. stream'.seen = stream.seen \cup {<<r, open[r]>>}
    <3>1. <<r, open[r]>> \in Wait
      BY DEF Shape, StreamTypes, Wait
    <3> QED
      BY <1>1, <3>1, SeenStream DEF Shape, StreamTypes
  <2>2. open' = [open EXCEPT ![r] = 0] /\ disk'.open = open'
    BY <1>1, KeptOpen DEF Shape
  <2> QED
    BY <2>1, <2>2 DEF OpenStep, Forgets
<1>2. CASE AppendRaises /\ open' = [open EXCEPT ![r] = 0] /\ disk' = disk
  <2>1. history'.lost = TRUE
    BY <1>2, RaisesHistory DEF Shape, StreamTypes, AppendRaises
  <2> QED
    BY <1>2, <2>1 DEF OpenStep, Forgets
<1> QED
  BY <1>1, <1>2 DEF Closes

\* The step that keeps the wait, and the only one there.
LEMMA KeepKeeps ==
    ASSUME Shape, LoopStep, loop.pc = "keep" PROVE RaiseKeep /\ KeepsWait
<1>1. StreamTypes /\ LoopFits /\ LoopTypes
  BY DEF Shape
<1>2. RaiseKeep
  BY DEF LoopStep, LoopSchedule, LoopDrain, RaiseItem, RaiseFloor, RaiseLoad,
     RaiseClosesPrevious, RaiseWait, RaiseCheck, BootPointers, BootAttention,
     BootLoad, BootList, BootDone, BootClose, BootRaise, Entering, At
<1>3. loop.pc = "keep" /\ loop.left # <<>> /\ Subject # {} /\ UNCHANGED stream
      /\ post[Loop].pc = "idle"
  BY <1>1, <1>2 DEF RaiseKeep, At, LoopFits, Raising
<1>4. PICK r \in Run : Subject = {r} /\ N \in 1..MaxWaits
  BY <1>3, WaitAtHand
<1>5. /\ KeepOpen(r, N)
      /\ history' = [history EXCEPT
                     !.late = IF /\ Over(run[r]) /\ ~Over(loop.got)
                                 /\ post[r].pc # "resolve"
                              THEN @ \cup {<<r, N>>} ELSE @,
                     !.orphan = @ \ {<<r, N>>}]
  BY <1>2, <1>4 DEF RaiseKeep, Subject
<1>6. open' = [open EXCEPT ![r] = N] /\ disk'.open = open'
  BY <1>1, <1>4, <1>5, KeptOpen
<1>7. /\ history'.orphan = history.orphan \ {<<r, N>>}
      /\ history'.lost = history.lost
  BY <1>1, <1>5 DEF StreamTypes, HistoryRecord
<1>8. loop'.pc \in {"check", "missing"}
  BY <1>1, <1>2 DEF RaiseKeep, LoopTypes, LoopRecord
<1> QED
  BY <1>2, <1>3, <1>4, <1>6, <1>7, <1>8 DEF KeepsWait

LEMMA LoopOpenSteps == ASSUME Shape, LoopStep PROVE OpenStep
<1>1. StreamTypes /\ LoopFits /\ LoopTypes
  BY DEF Shape
<1>2. CASE LoopSchedule \/ LoopDrain \/ RaiseItem \/ RaiseLoad \/ RaiseClosesPrevious
           \/ RaiseWait \/ BootPointers \/ BootList \/ BootDone
           \/ \E w \in loop.todo : BootRaise(w)
  BY <1>2 DEF LoopSchedule, LoopDrain, RaiseItem, RaiseLoad, RaiseClosesPrevious,
     RaiseWait, BootPointers, BootList, BootDone, BootRaise, diskVars, OpenStep
<1>3. CASE RaiseFloor \/ BootAttention
  BY <1>1, <1>3 DEF RaiseFloor, BootAttention, OpenStep, StreamTypes, DiskRecord
<1>4. CASE RaiseKeep
  BY <1>4, KeepKeeps DEF OpenStep, RaiseKeep, At
<1>5. CASE RaiseCheck
  <2>1. loop.pc = "check" /\ loop.left # <<>> /\ Subject # {}
    BY <1>1, <1>5 DEF RaiseCheck, At, LoopFits, Raising
  <2>2. PICK r \in Run : Subject = {r}
    BY <2>1, WaitAtHand
  <2>3. (open[r] # 0 /\ Closes(r)) \/ UNCHANGED <<open, disk>>
    BY <1>5, <2>2 DEF RaiseCheck, Subject, CloseMissing, Closes
  <2> QED
    BY <2>1, <2>3, CloseForgets DEF OpenStep
<1>6. CASE BootLoad
  <2>1. loop'.pc = "close"
    <3>1. PICK T : T = {<<r, 0>> : r \in {s \in Run : disk.open[s] # 0}}
      OBVIOUS
    <3>2. loop' = [loop EXCEPT !.pc = "close", !.boot = TRUE, !.left = <<>>,
                               !.todo = T]
      BY <1>6, <3>1 DEF BootLoad
    <3> QED
      BY <1>1, <3>2 DEF LoopTypes, LoopRecord
  <2> QED
    BY <1>6, <2>1 DEF BootLoad, OpenStep, LoadsWaits, At, diskVars
<1>7. ASSUME NEW w \in loop.todo, BootClose(w) PROVE OpenStep
  <2>1. PICK r \in Run : r = w[1]
    BY <1>1, LoopFields DEF LoopTypes
  <2>2. loop.pc = "close"
    BY <1>7 DEF BootClose, At
  <2>3. (open[r] # 0 /\ Closes(r)) \/ UNCHANGED <<open, disk>>
    BY <1>7, <2>1 DEF BootClose, CloseMissing, Closes
  <2> QED
    BY <2>2, <2>3, CloseForgets DEF OpenStep
<1> QED
  BY <1>2, <1>3, <1>4, <1>5, <1>6, <1>7 DEF LoopStep

LEMMA OpenSteps == ASSUME Shape, [Next]_vars PROVE OpenStep
<1>1. CASE UNCHANGED vars
  BY <1>1 DEF vars, diskVars, memoryVars, OpenStep
<1>2. CASE LoopStep
  BY <1>2, LoopOpenSteps
<1>3. ASSUME NEW t \in Thread, StreamStep(t) PROVE OpenStep
  <2>1. CASE Resolve(t) \/ Pointer(t)
    BY <2>1 DEF Resolve, Pointer, OpenStep
  <2>2. CASE Pop(t)
    <3>1. PICK r \in post[t].run : KeepOpen(r, 0)
      BY <2>2 DEF Pop
    <3>2. r \in Run /\ post[t].run = {r}
      BY ReportOfRun
    <3>3. open' = [open EXCEPT ![r] = 0] /\ disk'.open = open'
      BY <3>1, <3>2, KeptOpen DEF Shape
    <3> QED
      BY <2>2, <3>2, <3>3 DEF OpenStep, Forgets, Pop
  <2> QED
    BY <1>3, <2>1, <2>2 DEF StreamStep
<1>4. ASSUME NEW r \in Run, TickStep(r) PROVE OpenStep
  BY <1>4 DEF TickStep, TickPark, TickSave, TickUnresolved, OpenStep
<1>5. ASSUME NEW r \in Run,
             \/ Answer(r) \/ Cancel(r) \/ Purge(r) \/ Ages(r)
             \/ CancelRaises(r) \/ Reap(r) \/ DirectTick(r)
      PROVE  OpenStep
  BY <1>5 DEF Answer, Cancel, Purge, Ages, CancelRaises, Reap, DirectTick, diskVars,
     memoryVars, OpenStep
<1>6. CASE ItemRecorded
  BY <1>6 DEF ItemRecorded, OpenStep
<1>7. CASE Crash
  BY <1>7 DEF Crash, diskVars, OpenStep
<1> QED
  BY <1>1, <1>2, <1>3, <1>4, <1>5, <1>6, <1>7 DEF Next

LEMMA HiddenStays == ASSUME [Next]_vars PROVE hidden' = hidden
<1>1. CASE LoopStep
  BY <1>1 DEF LoopStep, LoopSchedule, LoopDrain, RaiseItem, RaiseFloor, RaiseLoad,
     RaiseClosesPrevious, RaiseWait, RaiseKeep, RaiseCheck, BootPointers,
     BootAttention, BootLoad, BootList, BootDone, BootClose, BootRaise, diskVars
<1>2. CASE ~LoopStep
  BY <1>2 DEF Next, StreamStep, Resolve, Pop, Pointer, TickStep, TickPark, TickSave,
     TickUnresolved, Answer, Cancel, Purge, Ages, CancelRaises, Reap, DirectTick,
     ItemRecorded, Crash, vars, diskVars
<1> QED
  BY <1>1, <1>2

-----------------------------------------------------------------------------
(* What is said of the open waits.                                         *)

\* The open waits are recorded.  A draft test gets none, unless its run is
\* gone, and then it is over.
OpenFits ==
    \A r \in Run :
        /\ open[r] <= Len(ledger[r]) /\ disk.open[r] <= Len(ledger[r])
        /\ r \in hidden /\ (open[r] # 0 \/ disk.open[r] # 0) => Over(run[r])

\* The copy of the run that the loop raises a wait with is old, but what it
\* says of the end and of the wait it is parked on stays true.
GotFits ==
    loop.pc \in Raising =>
        \A r \in Subject :
            /\ r \in hidden => Over(run[r])
            /\ Over(loop.got) => Over(run[r])
            /\ loop.got.st = "waiting" => /\ N <= loop.got.step
                                          /\ loop.got.step <= Len(ledger[r])
            /\ loop.pc = "check" => open[r] \in {0, N}

LEMMA OpenFitsNext ==
    ASSUME Shape, Shape', [Next]_vars, OpenFits, GotFits PROVE OpenFits'
<1> SUFFICES ASSUME NEW r \in Run
             PROVE  /\ open'[r] <= Len(ledger'[r])
                    /\ disk'.open[r] <= Len(ledger'[r])
                    /\ r \in hidden' /\ (open'[r] # 0 \/ disk'.open[r] # 0)
                         => Over(run'[r])
  BY DEF OpenFits
<1>1. /\ open \in [Run -> 0..MaxWaits] /\ disk.open \in [Run -> 0..MaxWaits]
      /\ Len(ledger[r]) \in Nat /\ Len(ledger'[r]) \in Nat
      /\ open'[r] \in Nat /\ disk'.open[r] \in Nat
  BY DEF Shape, RunTypes, StreamTypes, DiskRecord
<1>2. RunStep(r) /\ hidden' = hidden
  BY RunSteps, HiddenStays
<1>3. Len(ledger[r]) <= Len(ledger'[r]) /\ (Over(run[r]) => Over(run'[r]))
  BY <1>1, <1>2 DEF RunStep
<1>4. /\ open[r] <= Len(ledger[r]) /\ disk.open[r] <= Len(ledger[r])
      /\ r \in hidden /\ (open[r] # 0 \/ disk.open[r] # 0) => Over(run[r])
  BY DEF OpenFits
<1>5. \/ open'[r] \in {0, open[r], disk.open[r]}
         /\ disk'.open[r] \in {0, open[r], disk.open[r]}
      \/ /\ open'[r] <= Len(ledger[r]) /\ disk'.open[r] = open'[r]
         /\ r \in hidden => Over(run[r])
  <2>1. CASE open' = open /\ disk'.open = disk.open
    BY <2>1
  <2>2. CASE Forgets
    BY <1>1, <2>2 DEF Forgets
  <2>3. CASE KeepsWait
    <3>1. loop.pc = "keep" /\ loop.left # <<>> /\ Subject # {}
      BY <2>3 DEF KeepsWait, Shape, LoopFits, Raising
    <3>2. PICK q \in Run : /\ Subject = {q} /\ open' = [open EXCEPT ![q] = N]
                           /\ disk'.open = open'
      BY <2>3 DEF KeepsWait
    <3>3. N \in 1..Len(ledger[q])
      BY <3>1, <3>2, WaitAtHand
    <3>4. q \in hidden => Over(run[q])
      BY <3>1, <3>2 DEF GotFits, Raising
    <3>5. CASE q = r
      BY <1>1, <3>2, <3>3, <3>4, <3>5
    <3>6. CASE q # r
      BY <1>1, <3>2, <3>6
    <3> QED
      BY <3>5, <3>6
  <2>4. CASE LoadsWaits
    BY <2>4 DEF LoadsWaits
  <2>5. CASE open' = NoneOpen /\ disk' = disk
    BY <2>5 DEF NoneOpen
  <2> QED
    BY <2>1, <2>2, <2>3, <2>4, <2>5, OpenSteps DEF OpenStep
<1> QED
  BY <1>1, <1>2, <1>3, <1>4, <1>5

-----------------------------------------------------------------------------
(* What a step does to the queue.                                          *)

QueuesWait(r) ==
    /\ queue' = Append(queue, WaitEntry(r, Len(ledger[r]) + 1))
    /\ post[r].pc = "tick" /\ post'[r].pc = "park"
    /\ Len(ledger'[r]) = Len(ledger[r]) + 1
    /\ \A u \in Run : u # r => ledger'[u] = ledger[u] /\ post'[u] = post[u]

\* A step of another thread.
Rests ==
    /\ UNCHANGED <<loop, rebuilt>>
    /\ \/ ledger' = ledger /\ queue' = queue
       \/ ledger' = ledger /\ queue' = Append(queue, ItemEntry(items + 1))
          /\ items + 1 \in Nat
       \/ open' = open /\ \E r \in Run : QueuesWait(r)

LEMMA ParkQueues ==
    ASSUME Shape, NEW r \in Run, NEW k \in Keys(r), TickPark(r, k) PROVE Rests
<1>1. /\ ledger' = [ledger EXCEPT ![r] = Append(ledger[r], k)]
      /\ queue' = Append(queue, WaitEntry(r, Len(ledger[r]) + 1))
      /\ post' = [post EXCEPT ![r].pc = "park"] /\ post[r].pc = "tick"
      /\ UNCHANGED <<loop, rebuilt, open>>
  BY DEF TickPark
<1>2. /\ ledger \in [Run -> Seq(Nat)] /\ post \in [Thread -> Call] /\ r \in Thread
      /\ post[r] \in Call /\ Run \subseteq Thread
  BY Threads DEF Shape, RunTypes, PostTypes
<1>3. Len(Append(ledger[r], k)) = Len(ledger[r]) + 1
  BY <1>2, KeysAreNat, AppendProperties
<1>4. /\ Len(ledger'[r]) = Len(ledger[r]) + 1
      /\ \A u \in Run : u # r => ledger'[u] = ledger[u]
  BY <1>1, <1>2, <1>3
<1>5. /\ post'[r].pc = "park"
      /\ \A u \in Run : u # r => post'[u] = post[u]
  BY <1>1, <1>2 DEF Call
<1> QED
  BY <1>1, <1>4, <1>5 DEF Rests, QueuesWait

\* A step is one of the loop, of another thread, or a crash.
LEMMA NextMoves ==
    ASSUME Shape, [Next]_vars
    PROVE  \/ LoopStep /\ LoopMove /\ ledger' = ledger
           \/ Rests
           \/ Crash
<1>1. CASE UNCHANGED vars
  BY <1>1 DEF vars, diskVars, memoryVars, Rests
<1>2. CASE LoopStep
  <2>1. ledger' = ledger
    BY <1>2, LoopFrame DEF Frame, LoopSchedule, diskVars
  <2> QED
    BY <1>2, <2>1, LoopMoves
<1>3. ASSUME NEW t \in Thread, StreamStep(t) PROVE Rests
  BY <1>3 DEF StreamStep, Resolve, Pop, Pointer, Rests
<1>4. ASSUME NEW r \in Run, TickStep(r) PROVE Rests
  <2>1. CASE TickUnresolved(r) \/ \E st \in {"running", "waiting", "ended"} : TickSave(r, st)
    BY <2>1 DEF TickUnresolved, TickSave, Rests
  <2> QED
    BY <1>4, <2>1, ParkQueues DEF TickStep
<1>5. ASSUME NEW r \in Run,
             \/ Answer(r) \/ Cancel(r) \/ Purge(r) \/ Ages(r)
             \/ CancelRaises(r) \/ Reap(r) \/ DirectTick(r)
      PROVE  Rests
  BY <1>5 DEF Answer, Cancel, Purge, Ages, CancelRaises, Reap, DirectTick, diskVars,
     memoryVars, Rests
<1>6. CASE ItemRecorded
  BY <1>6 DEF ItemRecorded, Rests, Shape, RunTypes
<1> QED
  BY <1>1, <1>2, <1>3, <1>4, <1>5, <1>6 DEF Next

\* What the boot repair has overtaken stays on record.
LEMMA AheadGrows ==
    ASSUME Shape, [Next]_vars PROVE history.ahead \subseteq history'.ahead
<1>1. history \in HistoryRecord
  BY DEF Shape, StreamTypes
<1>2. ASSUME \E u : AppendRaisesFor(u) PROVE history.ahead \subseteq history'.ahead
  BY <1>1, <1>2 DEF AppendRaisesFor, HistoryRecord
<1>3. CASE UNCHANGED history
  BY <1>3
<1>4. CASE LoopStep /\ ~UNCHANGED history
  <2>1. CASE RaiseItem \/ RaiseClosesPrevious \/ RaiseWait \/ RaiseCheck
             \/ \E w \in loop.todo : BootClose(w)
    BY <1>2, <1>4, <2>1 DEF RaiseItem, RaiseClosesPrevious, RaiseWait, RaiseCheck,
       BootClose, CloseMissing, AppendRaises
  <2>2. CASE RaiseKeep
    BY <1>1, <2>2 DEF RaiseKeep, HistoryRecord
  <2>3. CASE BootPointers \/ BootAttention \/ BootList
    BY <1>1, <1>2, <2>3 DEF BootPointers, BootAttention, BootList, HistoryRecord
  <2>4. ASSUME NEW w \in loop.todo, BootRaise(w)
        PROVE  history.ahead \subseteq history'.ahead
    <3>1. PICK A, B, f :
            /\ A = IF Overtakes(w[1], LatestWaitRecord(w[1], w[2]))
                   THEN history.ahead \cup {<<w[1], LatestWaitRecord(w[1], w[2])>>}
                   ELSE history.ahead
            /\ B = history.unlisted \cup {w[1]} /\ f = history.faults + 1
      OBVIOUS
    <3>2. \/ history' = [history EXCEPT !.ahead = A]
          \/ AppendRaises
          \/ history' = [history EXCEPT !.unlisted = B, !.faults = f]
      BY <1>4, <2>4, <3>1 DEF BootRaise, LedgerUnreadable
    <3> QED
      BY <1>1, <1>2, <3>1, <3>2 DEF AppendRaises, HistoryRecord
  <2> QED
    BY <1>4, <2>1, <2>2, <2>3, <2>4 DEF LoopStep, LoopSchedule, LoopDrain,
       RaiseFloor, RaiseLoad, BootLoad, BootDone
<1>5. ASSUME NEW t \in Thread, StreamStep(t), ~UNCHANGED history
      PROVE  history.ahead \subseteq history'.ahead
  BY <1>2, <1>5 DEF StreamStep, Resolve, Pop, Pointer, AppendRaises
<1>6. ASSUME NEW r \in Run, TickStep(r), ~UNCHANGED history
      PROVE  history.ahead \subseteq history'.ahead
  BY <1>1, <1>6 DEF TickStep, TickPark, TickSave, TickUnresolved, HistoryRecord
<1>7. ASSUME NEW r \in Run, ~UNCHANGED history,
             \/ Answer(r) \/ Cancel(r) \/ Purge(r) \/ Ages(r)
             \/ CancelRaises(r) \/ Reap(r) \/ DirectTick(r)
      PROVE  history.ahead \subseteq history'.ahead
  BY <1>1, <1>7 DEF Answer, Cancel, Purge, Ages, CancelRaises, Reap, DirectTick,
     HistoryRecord
<1>8. CASE Crash
  BY <1>1, <1>8 DEF Crash, HistoryRecord
<1> QED
  BY <1>3, <1>4, <1>5, <1>6, <1>7, <1>8 DEF Next, ItemRecorded, vars

LEMMA GotFitsNext ==
    ASSUME Shape, Shape', [Next]_vars, GotFits PROVE GotFits'
<1> SUFFICES ASSUME loop'.pc \in Raising PROVE GotFits'
  BY DEF GotFits
<1>1. \A r \in Run : /\ Len(ledger[r]) \in Nat /\ Len(ledger[r]) <= Len(ledger'[r])
                     /\ Over(run[r]) => Over(run'[r])
                     /\ Len(ledger'[r]) \in Nat
  <2> SUFFICES ASSUME NEW r \in Run
               PROVE  /\ Len(ledger[r]) \in Nat /\ Len(ledger[r]) <= Len(ledger'[r])
                      /\ Over(run[r]) => Over(run'[r])
                      /\ Len(ledger'[r]) \in Nat
    OBVIOUS
  <2>1. Len(ledger[r]) \in Nat /\ Len(ledger'[r]) \in Nat
    BY DEF Shape, RunTypes
  <2>2. RunStep(r)
    BY RunSteps
  <2> QED
    BY <2>1, <2>2 DEF RunStep
<1>2. hidden' = hidden
  BY HiddenStays
<1>3. ASSUME loop.pc \in Raising, loop'.left = loop.left, loop'.got = loop.got,
             \A r \in Subject : loop'.pc = "check" => open'[r] \in {0, N}
      PROVE  GotFits'
  <2>1. loop.left # <<>> /\ Subject # {}
    BY <1>3 DEF Shape, LoopFits
  <2>2. PICK r \in Run : Subject = {r} /\ N \in 1..Len(ledger[r])
    BY <2>1, WaitAtHand
  <2>3. Subject' = Subject /\ N' = N
    BY <1>3 DEF Subject, N
  <2>4. /\ r \in hidden => Over(run[r])
        /\ Over(loop.got) => Over(run[r])
        /\ loop.got.st = "waiting" => /\ N <= loop.got.step
                                      /\ loop.got.step <= Len(ledger[r])
    BY <1>3, <2>2 DEF GotFits
  <2>5. loop.got.step \in Nat
    BY LoopFields DEF Shape, LoopTypes, State
  <2>6. /\ r \in hidden' => Over(run'[r])
        /\ Over(loop'.got) => Over(run'[r])
        /\ loop'.got.st = "waiting" => /\ N <= loop'.got.step
                                       /\ loop'.got.step <= Len(ledger'[r])
        /\ loop'.pc = "check" => open'[r] \in {0, N}
    BY <1>1, <1>2, <1>3, <2>2, <2>4, <2>5
  <2> QED
    BY <2>2, <2>3, <2>6 DEF GotFits, Over
<1>4. CASE Rests
  <2>1. loop' = loop
    BY <1>4 DEF Rests
  <2>2. \A r \in Subject : loop'.pc = "check" => open'[r] \in {0, N}
    <3> SUFFICES ASSUME NEW r \in Subject, loop.pc = "check"
                 PROVE  open'[r] \in {0, N}
      BY <2>1
    <3>1. open[r] \in {0, N}
      BY DEF GotFits, Raising
    <3>2. r \in Run
      <4>1. loop.left # <<>> /\ Subject # {}
        BY DEF Shape, LoopFits, Raising
      <4> QED
        BY <4>1, WaitAtHand
    <3>3. OpenStep /\ ~KeepsWait /\ ~LoadsWaits
      BY OpenSteps DEF KeepsWait, LoadsWaits
    <3>4. CASE Forgets
      BY <3>1, <3>2, <3>4 DEF Forgets, Shape, StreamTypes
    <3>5. CASE open' = NoneOpen
      BY <3>2, <3>5 DEF NoneOpen
    <3> QED
      BY <3>1, <3>3, <3>4, <3>5 DEF OpenStep
  <2> QED
    BY <1>3, <2>1, <2>2
<1>5. CASE LoopStep /\ LoopMove
  <2>1. CASE Stays
    <3>1. /\ loop.pc \in Raising /\ loop'.left = loop.left /\ loop'.got = loop.got
          /\ loop'.pc = "check" => loop.pc = "keep"
      BY <2>1 DEF Stays, Ways, Raising
    <3>2. loop.pc = "keep" => \A r \in Subject : open'[r] \in {0, N}
      BY <1>5, KeepKeeps DEF KeepsWait, Shape, StreamTypes
    <3> QED
      BY <1>3, <3>1, <3>2
  <2>2. CASE Loads
    <3>1. PICK r \in Run : Subject = {r} /\ N \in 1..Len(ledger[r])
      BY <2>2, WaitAtHand DEF Loads
    <3>2. /\ loop'.got = run[r] /\ (r \in hidden => run[r].st = "gone")
          /\ loop'.pc = "raise" /\ loop'.left = loop.left
      BY <2>2, <3>1 DEF Loads
    <3>3. Subject' = {r} /\ N' = N
      BY <3>1, <3>2 DEF Subject, N
    <3>4. run[r].st = "waiting" => N <= run[r].step /\ run[r].step <= Len(ledger'[r])
      <4>1. run[r].st = "waiting" => run[r].step = Len(ledger[r])
        BY DEF Shape, RunsFit
      <4> QED
        BY <1>1, <3>1, <4>1
    <3>5. /\ r \in hidden' => Over(run'[r])
          /\ Over(loop'.got) => Over(run'[r])
      BY <1>1, <1>2, <3>2 DEF Over
    <3> QED
      BY <3>2, <3>3, <3>4, <3>5 DEF GotFits, Over
  <2>3. CASE Repairs
    <3>1. PICK r \in Run, n \in 1..MaxWaits :
            /\ n = Len(ledger[r]) /\ r \notin hidden
            /\ loop'.left = <<WaitEntry(r, n)>>
            /\ loop'.got = [st |-> "waiting", step |-> n]
      BY <2>3 DEF Repairs
    <3>2. loop'.pc = "keep"
      BY <2>3 DEF Repairs
    <3>3. Head(<<WaitEntry(r, n)>>) = WaitEntry(r, n)
      OBVIOUS
    <3>4. Subject' = {r} /\ N' = n
      BY <3>1, <3>3 DEF Subject, N, WaitEntry
    <3>5. loop'.got.st = "waiting" /\ loop'.got.step = n
      BY <3>1
    <3>6. n <= Len(ledger'[r]) /\ n <= n
      BY <1>1, <3>1
    <3> QED
      BY <1>2, <3>1, <3>2, <3>4, <3>5, <3>6 DEF GotFits, Over
  <2>4. CASE Finishes
    BY <2>4, NextEntryLoop DEF Finishes, Raising, AtPoll, Shape, LoopTypes
  <2> QED
    BY <1>5, <2>1, <2>2, <2>3, <2>4 DEF LoopMove, Clears, Lists, Drains, Raising
<1>6. CASE Crash
  BY <1>6 DEF Crash, AtPoll, Raising
<1> QED
  BY <1>4, <1>5, <1>6, NextMoves

-----------------------------------------------------------------------------
(* Reports, and what they close.                                           *)

\* A report of a tick carries what the tick saved, and the run records no
\* wait meanwhile.
TickReportsFit ==
    \A r \in Run :
        post[r].pc = "resolve" =>
            IF post[r].state.st = "waiting"
            THEN post[r].state.step = Len(ledger[r])
            ELSE run[r].st # "waiting"

\* A report of the loop may carry an old copy, which closes nothing that the
\* run still waits on.
LoopReportFits ==
    post[Loop].pc = "resolve" =>
        \A r \in post[Loop].run :
            open[r] # 0 =>
                IF post[Loop].state.st = "waiting"
                THEN /\ open[r] <= post[Loop].state.step
                     /\ post[Loop].state.step <= Len(ledger[r])
                ELSE Closed(r, open[r])

\* While the boot repair reports what the last process left open, a tick
\* that has recorded a wait is past the one that is open.
CloseFits ==
    loop.pc = "close" =>
        \A r \in Run : post[r].pc = "park" => open[r] < Len(ledger[r])

\* The boot repair has raised wait n of the run ahead of an older one.
Ahead(r, n) == <<r, n>> \in history.ahead

\* The wait that is open is not behind an entry that is to be raised, unless
\* the boot repair has overtaken the entry.
EntriesAhead ==
    /\ \A i \in 1..Len(queue), r \in Run :
         queue[i].run = {r} => open[r] <= queue[i].n \/ Ahead(r, open[r])
    /\ \A i \in 1..Len(loop.left), r \in Run :
         loop.left[i].run = {r} =>
            open[r] <= loop.left[i].n \/ Ahead(r, open[r])

LEMMA TickReportsNext ==
    ASSUME Shape, Shape', [Next]_vars, TickReportsFit PROVE TickReportsFit'
<1> SUFFICES ASSUME NEW r \in Run, post'[r].pc = "resolve"
             PROVE  IF post'[r].state.st = "waiting"
                    THEN post'[r].state.step = Len(ledger'[r])
                    ELSE run'[r].st # "waiting"
  BY DEF TickReportsFit
<1>1. RunStep(r)
  BY RunSteps
<1>2. run'[r].st = "waiting" => run'[r].step = Len(ledger'[r])
  BY DEF Shape, RunsFit
<1>3. CASE post'[r].state = run'[r]
  BY <1>2, <1>3
<1>4. CASE post'[r] = post[r]
  <2>1. Len(ledger'[r]) = Len(ledger[r])
        /\ (run'[r].st = "waiting" => run[r].st = "waiting")
    BY <1>1, <1>4 DEF RunStep
  <2> QED
    BY <1>4, <2>1 DEF TickReportsFit
<1> QED
  BY <1>1, <1>3, <1>4 DEF RunStep

\* Where a report of the loop comes from.
LoopReported ==
    \/ post'[Loop] = post[Loop]
    \/ post'[Loop].pc # "resolve"
    \/ \E r \in Run : /\ post'[Loop].run = {r} /\ Over(run'[r])
                      /\ post'[Loop].state = run'[r]
    \/ /\ loop.pc = "check" /\ UNCHANGED <<run, ledger, open>>
       /\ post'[Loop].run = Subject /\ post'[Loop].state = loop.got
       /\ loop.got.st \in {"ended", "waiting"} /\ \A r \in Run : post'[r] = post[r]
    \/ /\ loop.pc = "close" /\ UNCHANGED <<run, ledger, open>>
       /\ \A r \in Run : post'[r] = post[r]
       /\ \E r \in Run : /\ post'[Loop].run = {r}
                         /\ post'[Loop].state = run[r]

LEMMA LoopReports == ASSUME Shape, [Next]_vars PROVE LoopReported
<1>1. PostTypes /\ Loop \in Thread /\ Loop \notin Run /\ post \in [Thread -> Call]
      /\ LoopTypes /\ LoopFits
  BY Threads DEF Shape, PostTypes
<1>2. CASE UNCHANGED vars
  BY <1>2 DEF vars, memoryVars, LoopReported
<1>3. CASE RaiseCheck
  <2>1. loop.pc = "check" /\ loop.left # <<>> /\ Subject # {}
    BY <1>1, <1>3 DEF RaiseCheck, At, LoopFits, Raising
  <2>2. PICK r \in Run : Subject = {r}
    BY <2>1, WaitAtHand
  <2>3. \/ post' = post
        \/ /\ StreamRun(Loop, r, loop.got, FALSE) /\ UNCHANGED <<run, ledger, open>>
           /\ loop.got.st \in {"ended", "waiting"}
    BY <1>3, <2>2 DEF RaiseCheck, Subject
  <2>4. CASE StreamRun(Loop, r, loop.got, FALSE)
    <3>1. loop.got \in State
      BY <1>1, LoopFields DEF LoopTypes
    <3>2. /\ \A u \in Thread : u # Loop => post'[u] = post[u]
          /\ post'[Loop].run = {r} /\ post'[Loop].state = loop.got
      BY <1>1, <2>4, <3>1, StreamRunPost
    <3>3. \A u \in Run : post'[u] = post[u]
      BY <3>2, Threads
    <3>4. CASE post' = post
      BY <3>4 DEF LoopReported
    <3> QED
      BY <2>1, <2>2, <2>3, <3>2, <3>3, <3>4 DEF LoopReported
  <2> QED
    BY <2>3, <2>4 DEF LoopReported
<1>4. ASSUME NEW w \in loop.todo, BootClose(w) PROVE LoopReported
  <2>1. PICK r \in Run : r = w[1]
    BY <1>1, LoopFields DEF LoopTypes
  <2>2. \/ post' = post
        \/ StreamRun(Loop, r, run[r], FALSE) /\ open' = open
    BY <1>4, <2>1 DEF BootClose
  <2>3. loop.pc = "close" /\ UNCHANGED <<run, ledger>> /\ run[r] \in State
    BY <1>4 DEF BootClose, At, Shape, RunTypes
  <2>4. CASE StreamRun(Loop, r, run[r], FALSE) /\ open' = open
    <3>2. /\ \A u \in Thread : u # Loop => post'[u] = post[u]
          /\ post'[Loop].run = {r} /\ post'[Loop].state = run[r]
      BY <1>1, <2>3, <2>4, StreamRunPost
    <3>3. \A u \in Run : post'[u] = post[u]
      BY <3>2, Threads
    <3> QED
      BY <2>3, <2>4, <3>2, <3>3 DEF LoopReported
  <2> QED
    BY <2>2, <2>4 DEF LoopReported
<1>5. CASE LoopStep /\ ~RaiseCheck /\ ~\E w \in loop.todo : BootClose(w)
  <2>1. CASE LoopSchedule
    <3>1. post'[Loop] = post[Loop]
      BY <1>1, <2>1 DEF LoopSchedule
    <3> QED
      BY <3>1 DEF LoopReported
  <2>2. CASE ~LoopSchedule
    <3>1. post' = post
      BY <1>5, <2>2 DEF LoopStep, LoopDrain, RaiseItem, RaiseFloor, RaiseLoad,
         RaiseClosesPrevious, RaiseWait, RaiseKeep, BootPointers, BootAttention,
         BootLoad, BootList, BootDone, BootRaise
    <3> QED
      BY <3>1 DEF LoopReported
  <2> QED
    BY <2>1, <2>2
<1>6. ASSUME NEW t \in Thread, StreamStep(t) PROVE LoopReported
  <2>1. \/ Resolved(t) \/ post' = [post EXCEPT ![t].pc = "pop"]
        \/ post' = [post EXCEPT ![t] = NoCall]
    BY <1>6 DEF StreamStep, Resolve, Pop, Pointer
  <2>2. NoCall.pc = "idle"
    BY DEF NoCall
  <2>3. post'[Loop] = post[Loop] \/ post'[Loop].pc \in {"idle", "pointer", "pop"}
    <3>1. CASE Resolved(t)
      BY <1>1, <2>2, <3>1, ResolvedPost
    <3>2. CASE post' = [post EXCEPT ![t].pc = "pop"]
      BY <1>1, <3>2 DEF Call
    <3>3. CASE post' = [post EXCEPT ![t] = NoCall]
      BY <1>1, <2>2, <3>3
    <3> QED
      BY <2>1, <3>1, <3>2, <3>3
  <2> QED
    BY <2>3 DEF LoopReported
<1>7. ASSUME NEW r \in Run, TickStep(r) PROVE LoopReported
  <2>1. post'[Loop] = post[Loop]
    BY <1>1, <1>7 DEF TickStep, TickPark, TickSave, TickUnresolved, StreamRun
  <2> QED
    BY <2>1 DEF LoopReported
<1>8. ASSUME NEW r \in Run, Cancel(r) PROVE LoopReported
  <2>1. run'[r].st = "ended"
    BY <1>8 DEF Cancel, Shape, RunTypes, State
  <2>2. PICK s : s = run'[r]
    OBVIOUS
  <2>3. post' = [post EXCEPT ![Loop] = [pc |-> "resolve", run |-> {r},
                                        state |-> s, pointer |-> TRUE]]
    BY <1>8, <2>2 DEF Cancel, StreamRun
  <2>4. post'[Loop].run = {r} /\ post'[Loop].state = s
    BY <1>1, <2>3
  <2> QED
    BY <2>1, <2>2, <2>4 DEF LoopReported, Over
<1>9. ASSUME NEW r \in Run,
             Answer(r) \/ Purge(r) \/ Ages(r) \/ CancelRaises(r) \/ Reap(r)
      PROVE  LoopReported
  BY <1>9 DEF Answer, Purge, Ages, CancelRaises, Reap, memoryVars, LoopReported
<1>12. ASSUME NEW r \in Run, DirectTick(r) PROVE LoopReported
  BY <1>1, <1>12 DEF DirectTick, LoopReported
<1>10. CASE ItemRecorded
  BY <1>10 DEF ItemRecorded, LoopReported
<1>11. CASE Crash
  <2>1. post'[Loop].pc = "idle"
    BY <1>1, <1>11 DEF Crash, NoCall
  <2> QED
    BY <2>1 DEF LoopReported
<1> QED
  BY <1>2, <1>3, <1>4, <1>5, <1>6, <1>7, <1>8, <1>9, <1>10, <1>11,
     <1>12 DEF Next

LEMMA LoopReportNext ==
    ASSUME Shape, Shape', [Next]_vars, OpenFits, OpenFits', GotFits, CloseFits,
           LoopReportFits
    PROVE  LoopReportFits'
<1> SUFFICES ASSUME post'[Loop].pc = "resolve", NEW r \in post'[Loop].run,
                    open'[r] # 0
             PROVE  IF post'[Loop].state.st = "waiting"
                    THEN /\ open'[r] <= post'[Loop].state.step
                         /\ post'[Loop].state.step <= Len(ledger'[r])
                    ELSE Closed(r, open[r])'
  BY DEF LoopReportFits
<1>1. Loop \in Thread /\ post[Loop] \in Call /\ post'[Loop] \in Call /\ r \in Run
  <2>1. Loop \in Thread /\ post[Loop] \in Call /\ post'[Loop] \in Call
    BY Threads DEF Shape, PostTypes
  <2> QED
    BY <2>1 DEF Call
<1>2. /\ Len(ledger[r]) \in Nat /\ Len(ledger'[r]) \in Nat /\ open[r] \in Nat
      /\ open'[r] \in Nat /\ open[r] <= Len(ledger[r])
      /\ open'[r] <= Len(ledger'[r]) /\ run[r] \in State /\ run'[r] \in State
  BY <1>1 DEF Shape, RunTypes, StreamTypes, OpenFits
<1>3. RunStep(r)
  BY <1>1, RunSteps
<1>4. CASE post'[Loop] = post[Loop]
  <2>1. ~KeepsWait /\ ~LoadsWaits
    BY <1>4 DEF KeepsWait, LoadsWaits
  <2>2. open'[r] = open[r]
    <3>1. CASE Forgets
      BY <1>1, <3>1 DEF Forgets, Shape, StreamTypes
    <3>2. CASE open' = NoneOpen
      BY <1>1, <3>2 DEF NoneOpen
    <3> QED
      BY <2>1, <3>1, <3>2, OpenSteps DEF OpenStep
  <2>3. post[Loop].state.step \in Nat
    BY <1>1 DEF Call, State
  <2>4. CASE post[Loop].state.st = "waiting"
    <3>1. open[r] <= post[Loop].state.step /\ post[Loop].state.step <= Len(ledger[r])
      BY <1>4, <2>2, <2>4 DEF LoopReportFits
    <3>2. Len(ledger[r]) <= Len(ledger'[r])
      BY <1>2, <1>3 DEF RunStep
    <3> QED
      BY <1>2, <1>4, <2>2, <2>3, <2>4, <3>1, <3>2
  <2>5. CASE post[Loop].state.st # "waiting"
    <3>1. Closed(r, open[r])
      BY <1>4, <2>2, <2>5 DEF LoopReportFits
    <3>2. PICK n \in Nat : n = open[r]
      BY <1>2
    <3>3. Closed(r, n)'
      BY <1>1, <1>2, <1>3, <3>1, <3>2, ClosedStays
    <3>4. n = open'[r]
      BY <2>2, <3>2
    <3> QED
      BY <1>4, <2>5, <3>3, <3>4 DEF Closed
  <2> QED
    BY <2>4, <2>5
<1>5. CASE \E q \in Run : /\ post'[Loop].run = {q} /\ Over(run'[q])
                          /\ post'[Loop].state = run'[q]
  <2>1. Over(run'[r]) /\ post'[Loop].state = run'[r]
    BY <1>5
  <2> QED
    BY <2>1 DEF Over, Closed
<1>6. CASE /\ loop.pc = "check" /\ UNCHANGED <<run, ledger, open>>
           /\ post'[Loop].run = Subject /\ post'[Loop].state = loop.got
           /\ loop.got.st \in {"ended", "waiting"}
  <2>1. loop.pc \in Raising /\ r \in Subject
    BY <1>6 DEF Raising
  <2>2. /\ Over(loop.got) => Over(run[r])
        /\ loop.got.st = "waiting" => /\ N <= loop.got.step
                                      /\ loop.got.step <= Len(ledger[r])
        /\ open[r] \in {0, N}
    BY <1>6, <2>1 DEF GotFits
  <2>3. CASE loop.got.st = "waiting"
    BY <1>6, <2>2, <2>3
  <2>4. CASE loop.got.st = "ended"
    BY <1>6, <2>2, <2>4 DEF Over, Closed
  <2> QED
    BY <1>6, <2>3, <2>4
<1>7. CASE /\ loop.pc = "close" /\ UNCHANGED <<run, ledger, open>>
           /\ \A q \in Run : post'[q] = post[q]
           /\ \E q \in Run : /\ post'[Loop].run = {q}
                             /\ post'[Loop].state = run[q]
  <2>1. post'[Loop].state = run[r]
    BY <1>7
  <2>2. CASE run[r].st = "waiting"
    <3>1. run[r].step = Len(ledger[r])
      BY <1>1, <2>2 DEF Shape, RunsFit
    <3> QED
      BY <1>2, <1>7, <2>1, <2>2, <3>1
  <2>3. CASE run[r].st # "waiting"
    <3>1. Over(run[r]) \/ run[r].st = "running"
      BY <1>2, <2>3 DEF State, Over
    <3>2. post[r].pc = "park" => open[r] < Len(ledger[r])
      BY <1>1, <1>7 DEF CloseFits
    <3>3. /\ open'[r] = open[r] /\ ledger'[r] = ledger[r] /\ run'[r] = run[r]
          /\ post'[r] = post[r]
      BY <1>1, <1>7
    <3> QED
      BY <2>1, <2>3, <3>1, <3>2, <3>3 DEF Closed
  <2> QED
    BY <2>2, <2>3
<1> QED
  BY <1>4, <1>5, <1>6, <1>7, LoopReports DEF LoopReported

\* What is reported as seen was open, and the run has left it or the boot
\* repair had raised it ahead of an older one.
SeenStep ==
    \A w \in stream'.seen \ stream.seen :
        /\ w[1] \in Run /\ open[w[1]] # 0 /\ w[2] = open[w[1]]
        /\ Closed(w[1], w[2]) \/ Ahead(w[1], w[2])

LEMMA SeenOne ==
    ASSUME Shape, NEW r \in Run, open[r] # 0, Seen(<<r, open[r]>>),
           Closed(r, open[r]) \/ Ahead(r, open[r])
    PROVE  SeenStep
<1>1. <<r, open[r]>> \in Wait
  BY DEF Shape, StreamTypes, Wait
<1>2. stream'.seen = stream.seen \cup {<<r, open[r]>>}
  BY <1>1, SeenStream DEF Shape, StreamTypes
<1> QED
  BY <1>2 DEF SeenStep

LEMMA SeenSame == ASSUME stream'.seen = stream.seen PROVE SeenStep
BY DEF SeenStep

LEMMA ResolveSees ==
    ASSUME Shape, OpenFits, TickReportsFit, LoopReportFits, NEW t \in Thread,
           Resolve(t)
    PROVE  SeenStep
<1>1. PICK r \in post[t].run :
        \/ UNCHANGED stream
        \/ /\ open[r] # 0 /\ ~StillWaitingOn(r, post[t].state, open[r])
           /\ Seen(<<r, open[r]>>)
  BY DEF Resolve, AppendRaises, AppendRaisesFor
<1>2. CASE UNCHANGED stream
  BY <1>2, SeenSame
<1>3. CASE /\ open[r] # 0 /\ ~StillWaitingOn(r, post[t].state, open[r])
           /\ Seen(<<r, open[r]>>)
  <2>1. r \in Run /\ post[t].pc = "resolve"
    BY ReportOfRun DEF Resolve
  <2>2. Len(ledger[r]) \in Nat /\ open[r] \in Nat /\ open[r] <= Len(ledger[r])
        /\ run[r] \in State
    BY <2>1 DEF Shape, RunTypes, StreamTypes, OpenFits
  <2>3. Closed(r, open[r])
    <3>1. CASE t \in Run
      <4>1. t = r
        <5>1. post[t].run = {t}
          BY <2>1, <3>1 DEF Shape, RunsFit, Reporting
        <5> QED
          BY <5>1
      <4>2. CASE post[r].state.st = "waiting"
        <5>1. post[r].state.step = Len(ledger[r])
          BY <2>1, <4>1, <4>2 DEF TickReportsFit
        <5>2. open[r] # Len(ledger[r])
          BY <1>3, <4>1, <4>2, <5>1 DEF StillWaitingOn
        <5> QED
          BY <2>2, <5>2 DEF Closed
      <4>3. CASE post[r].state.st # "waiting"
        <5>1. run[r].st # "waiting"
          BY <2>1, <4>1, <4>3 DEF TickReportsFit
        <5> QED
          BY <2>1, <2>2, <4>1, <5>1 DEF Closed, State, Over
      <4> QED
        BY <4>2, <4>3
    <3>2. CASE t = Loop
      <4>1. CASE post[Loop].state.st = "waiting"
        <5>1. /\ open[r] <= post[Loop].state.step
              /\ post[Loop].state.step <= Len(ledger[r])
          BY <1>3, <2>1, <3>2, <4>1 DEF LoopReportFits
        <5>2. open[r] # post[Loop].state.step
          BY <1>3, <3>2, <4>1 DEF StillWaitingOn
        <5>3. post[Loop].state.step \in Nat
          BY Threads DEF Shape, PostTypes, Call, State
        <5> QED
          BY <2>2, <5>1, <5>2, <5>3 DEF Closed
      <4>2. CASE post[Loop].state.st # "waiting"
        BY <1>3, <2>1, <3>2, <4>2 DEF LoopReportFits
      <4> QED
        BY <4>1, <4>2
    <3> QED
      BY <3>1, <3>2 DEF Thread
  <2> QED
    BY <1>3, <2>1, <2>3, SeenOne
<1> QED
  BY <1>1, <1>2, <1>3

\* The wait of a missing run is over.
LEMMA MissingSees ==
    ASSUME Shape, NEW r \in Run, open[r] # 0, Closes(r), Over(run[r])
    PROVE  SeenStep
<1>1. CASE Seen(<<r, open[r]>>)
  BY <1>1, SeenOne DEF Closed
<1>2. CASE AppendRaises
  BY <1>2, SeenSame DEF AppendRaises, AppendRaisesFor
<1> QED
  BY <1>1, <1>2 DEF Closes

LEMMA LoopSees ==
    ASSUME Shape, OpenFits, GotFits, EntriesAhead, LoopStep PROVE SeenStep
<1>1. StreamTypes /\ LoopFits /\ LoopTypes /\ stream \in StreamRecord
  BY DEF Shape, StreamTypes
<1>2. CASE LoopSchedule \/ LoopDrain \/ RaiseFloor \/ RaiseLoad \/ RaiseKeep
           \/ BootAttention \/ BootLoad \/ BootList \/ BootDone
  BY <1>2, SeenSame DEF LoopSchedule, LoopDrain, RaiseFloor, RaiseLoad, RaiseKeep,
     BootAttention, BootLoad, BootList, BootDone, diskVars
<1>3. CASE RaiseItem
  BY <1>1, <1>3, SeenSame DEF RaiseItem, AppendRaisesFor, StreamRecord
<1>4. CASE BootPointers
  <2>1. stream' = stream \/ Pointers([r \in Run \ aged |-> run[r]])
    BY <1>4 DEF BootPointers, AppendRaisesFor
  <2>2. DOMAIN [r \in Run \ aged |-> run[r]] \subseteq Run
    OBVIOUS
  <2> QED
    BY <1>1, <2>1, <2>2, PointersStream, SeenSame
<1>5. CASE RaiseWait
  <2>1. loop.pc \in Raising /\ loop.left # <<>> /\ Subject # {}
    BY <1>1, <1>5 DEF RaiseWait, At, LoopFits, Raising
  <2>2. PICK r \in Run : Subject = {r} /\ <<r, N>> \in Wait
    BY <2>1, WaitAtHand
  <2>3. Raised(<<r, N>>) \/ stream' = stream
    BY <1>5, <2>2 DEF RaiseWait, Subject, AppendRaises, AppendRaisesFor
  <2> QED
    BY <1>1, <2>2, <2>3, RaisedStream, SeenSame
<1>6. CASE RaiseClosesPrevious
  <2>1. loop.pc = "raise" /\ loop.left # <<>> /\ Subject # {}
    BY <1>1, <1>6 DEF RaiseClosesPrevious, At, LoopFits, Raising
  <2>2. PICK r \in Run : Subject = {r} /\ N \in 1..Len(ledger[r])
    BY <2>1, WaitAtHand
  <2>3. \/ open[r] \notin {0, N} /\ Seen(<<r, open[r]>>)
        \/ stream' = stream
    BY <1>6, <2>2 DEF RaiseClosesPrevious, Subject, AppendRaises, AppendRaisesFor
  <2>4. open[r] <= N \/ Ahead(r, open[r])
    <3>1. Len(loop.left) >= 1 /\ Len(loop.left) \in Nat
          /\ Head(loop.left) = loop.left[1]
      BY <2>1, HeadFits
    <3>2. 1 \in 1..Len(loop.left)
      BY <3>1
    <3> QED
      BY <2>2, <3>1, <3>2 DEF EntriesAhead, Subject, N
  <2>5. open[r] \in Nat /\ Len(ledger[r]) \in Nat
    BY <1>1 DEF StreamTypes, Shape, RunTypes
  <2>6. open[r] \notin {0, N} => Closed(r, open[r]) \/ Ahead(r, open[r])
    BY <2>2, <2>4, <2>5 DEF Closed
  <2> QED
    BY <2>3, <2>6, SeenOne, SeenSame
<1>7. CASE RaiseCheck
  <2>1. loop.pc = "check" /\ loop.left # <<>> /\ Subject # {}
    BY <1>1, <1>7 DEF RaiseCheck, At, LoopFits, Raising
  <2>2. PICK r \in Run : Subject = {r}
    BY <2>1, WaitAtHand
  <2>3. (open[r] # 0 /\ Closes(r) /\ loop.got.st = "gone") \/ UNCHANGED stream
    BY <1>7, <2>2 DEF RaiseCheck, Subject, CloseMissing, Closes
  <2>4. loop.got.st = "gone" => Over(run[r])
    BY <2>1, <2>2 DEF GotFits, Raising, Over
  <2> QED
    BY <2>3, <2>4, MissingSees, SeenSame
<1>8. ASSUME NEW w \in loop.todo, BootClose(w) PROVE SeenStep
  <2>1. PICK r \in Run : r = w[1]
    BY <1>1, LoopFields DEF LoopTypes
  <2>2. \/ open[r] # 0 /\ Closes(r) /\ (run[r].st = "gone" \/ r \in hidden)
        \/ UNCHANGED stream
    BY <1>8, <2>1 DEF BootClose, CloseMissing, Closes
  <2>3. open[r] # 0 /\ (run[r].st = "gone" \/ r \in hidden) => Over(run[r])
    BY DEF OpenFits, Over
  <2> QED
    BY <2>2, <2>3, MissingSees, SeenSame
<1>9. ASSUME NEW w \in loop.todo, BootRaise(w) PROVE SeenStep
  <2>1. loop.pc = "missing"
    BY <1>9 DEF BootRaise, At
  <2>2. PICK r \in Run, n \in 1..MaxWaits :
          r = w[1] /\ LatestWaitRecord(w[1], w[2]) = n
    BY <2>1, LatestIsNewest
  <2>3. Raised(<<r, n>>) \/ stream' = stream
    BY <1>9, <2>2 DEF BootRaise, AppendRaises, AppendRaisesFor, LedgerUnreadable
  <2>4. <<r, n>> \in Wait
    BY DEF Wait
  <2> QED
    BY <1>1, <2>3, <2>4, RaisedStream, SeenSame
<1> QED
  BY <1>2, <1>3, <1>4, <1>5, <1>6, <1>7, <1>8, <1>9 DEF LoopStep

LEMMA SeenSteps ==
    ASSUME Shape, OpenFits, GotFits, EntriesAhead, TickReportsFit, LoopReportFits,
           [Next]_vars
    PROVE  SeenStep
<1>1. stream \in StreamRecord
  BY DEF Shape, StreamTypes
<1>2. ASSUME NEW t \in Thread, StreamStep(t) PROVE SeenStep
  <2>1. CASE Pop(t)
    BY <2>1, SeenSame DEF Pop
  <2>2. CASE Pointer(t)
    <3>1. DOMAIN [r \in post[t].run |-> post[t].state] \subseteq Run
      BY DEF Shape, PostTypes, Call
    <3>2. stream' = stream \/ Pointers([r \in post[t].run |-> post[t].state])
      BY <2>2 DEF Pointer, AppendRaises, AppendRaisesFor
    <3> QED
      BY <1>1, <3>1, <3>2, PointersStream, SeenSame
  <2> QED
    BY <1>2, <2>1, <2>2, ResolveSees DEF StreamStep
<1>3. ASSUME NEW r \in Run, TickStep(r) PROVE SeenStep
  BY <1>3, SeenSame DEF TickStep, TickPark, TickSave, TickUnresolved
<1>4. ASSUME NEW r \in Run,
             \/ Answer(r) \/ Cancel(r) \/ Purge(r) \/ Ages(r)
             \/ CancelRaises(r) \/ Reap(r) \/ DirectTick(r)
      PROVE  SeenStep
  <2>1. stream' = stream \/ stream' = [stream EXCEPT !.used = TRUE]
    BY <1>4 DEF Answer, Cancel, Purge, Ages, CancelRaises, Reap, DirectTick, diskVars
  <2> QED
    BY <1>1, <2>1, SeenSame DEF StreamRecord
<1>5. CASE ItemRecorded \/ Crash \/ UNCHANGED vars
  BY <1>5, SeenSame DEF ItemRecorded, Crash, vars, diskVars
<1> QED
  BY <1>2, <1>3, <1>4, <1>5, LoopSees DEF Next

\* Every wait that is seen is over, or raised ahead of an older one.
SeenClosed ==
    \A w \in stream.seen : /\ w[2] <= Len(ledger[w[1]])
                           /\ Closed(w[1], w[2]) \/ w \in history.ahead

LEMMA SeenClosedNext ==
    ASSUME Shape, Shape', [Next]_vars, SeenStep, OpenFits, SeenClosed
    PROVE  SeenClosed'
<1> SUFFICES ASSUME NEW w \in stream'.seen
             PROVE  /\ w[2] <= Len(ledger'[w[1]])
                    /\ Closed(w[1], w[2])' \/ w \in history'.ahead
  BY DEF SeenClosed
<1>1. stream.seen \subseteq Wait /\ stream'.seen \subseteq Wait
  BY DEF Shape, StreamTypes, StreamRecord
<1>2. PICK r \in Run, n \in Nat : r = w[1] /\ n = w[2] /\ w = <<r, n>>
  BY <1>1 DEF Wait
<1>3. n <= Len(ledger[r]) /\ (Closed(r, n) \/ w \in history.ahead)
  <2>1. CASE w \in stream.seen
    BY <1>2, <2>1 DEF SeenClosed
  <2>2. CASE w \notin stream.seen
    BY <1>2, <2>2 DEF SeenStep, OpenFits, Ahead
  <2> QED
    BY <2>1, <2>2
<1>4. history.ahead \subseteq history'.ahead /\ RunStep(r)
  BY AheadGrows, RunSteps
<1>5. n <= Len(ledger'[r])
  <2>1. Len(ledger[r]) \in Nat /\ Len(ledger'[r]) \in Nat
    BY DEF Shape, RunTypes
  <2> QED
    BY <1>3, <1>4, <2>1 DEF RunStep
<1>6. Closed(r, n) => Closed(r, n)'
  BY <1>3, <1>4, ClosedStays
<1>7. Closed(r, n)' \/ w \in history'.ahead
  BY <1>3, <1>4, <1>6
<1> QED
  BY <1>2, <1>5, <1>7 DEF Closed

\* A report comes to close a wait only where one is open.
LEMMA PopSteps ==
    ASSUME Shape, [Next]_vars, NEW t \in Thread, post'[t].pc = "pop"
    PROVE  \/ post'[t] = post[t] /\ post[t].pc = "pop"
           \/ /\ Resolve(t) /\ LockFree /\ post'[t].run = post[t].run
              /\ \A r \in post[t].run : open[r] # 0 /\ Seen(<<r, open[r]>>)
<1>1. PostTypes /\ post \in [Thread -> Call] /\ post[t] \in Call
  BY DEF Shape, PostTypes
<1>2. NoCall.pc = "idle" /\ [NoCall EXCEPT !.pc = "tick"].pc = "tick"
  BY DEF NoCall
<1>3. CASE LoopStep
  <2>1. CASE t \in Run
    <3>1. CASE Frame
      BY <2>1, <3>1 DEF Frame
    <3>2. CASE LoopSchedule
      BY <1>2, <3>2 DEF LoopSchedule
    <3> QED
      BY <1>3, <3>1, <3>2, LoopFrame
  <2>2. CASE t = Loop
    <3>1. post[Loop].pc = "idle"
      BY <1>3, LoopFrame
    <3>2. post'[Loop] = post[Loop] \/ post'[Loop].pc = "resolve"
      <4>1. Loop \in Thread /\ Loop \notin Run
        BY Threads
      <4>2. CASE LoopSchedule
        BY <4>1, <4>2 DEF LoopSchedule
      <4>3. CASE RaiseCheck
        <5>1. post' = post \/ \E r \in Subject : StreamRun(Loop, r, loop.got, FALSE)
          BY <4>3 DEF RaiseCheck, Subject
        <5> QED
          BY <1>1, <4>1, <5>1 DEF StreamRun
      <4>4. ASSUME NEW w \in loop.todo, BootClose(w)
            PROVE  post'[Loop] = post[Loop] \/ post'[Loop].pc = "resolve"
        <5>1. post' = post \/ StreamRun(Loop, w[1], run[w[1]], FALSE)
          BY <4>4 DEF BootClose
        <5> QED
          BY <1>1, <4>1, <5>1 DEF StreamRun
      <4>5. CASE \/ LoopDrain \/ RaiseItem \/ RaiseFloor \/ RaiseLoad
                 \/ RaiseClosesPrevious \/ RaiseWait \/ RaiseKeep
                 \/ BootPointers \/ BootAttention \/ BootLoad \/ BootList
                 \/ BootDone \/ \E w \in loop.todo : BootRaise(w)
        BY <4>5 DEF LoopDrain, RaiseItem, RaiseFloor, RaiseLoad, RaiseClosesPrevious,
           RaiseWait, RaiseKeep, BootPointers, BootAttention, BootLoad, BootList,
           BootDone, BootRaise
      <4> QED
        BY <1>3, <4>2, <4>3, <4>4, <4>5 DEF LoopStep
    <3> QED
      BY <2>2, <3>1, <3>2
  <2> QED
    BY <2>1, <2>2 DEF Thread
<1>4. ASSUME NEW u \in Thread, StreamStep(u), u # t PROVE post'[t] = post[t]
  <2>1. \/ Resolved(u) \/ post' = [post EXCEPT ![u].pc = "pop"]
        \/ post' = [post EXCEPT ![u] = NoCall]
    BY <1>4 DEF StreamStep, Resolve, Pop, Pointer
  <2> QED
    BY <1>1, <1>4, <2>1, ResolvedPost
<1>5. CASE Pop(t) \/ Pointer(t)
  BY <1>1, <1>2, <1>5, ResolvedPost DEF Pop, Pointer
<1>6. CASE Resolve(t)
  <2>1. ~Resolved(t)
    BY <1>1, <1>2, ResolvedPost
  <2>2. PICK r \in post[t].run : /\ open[r] # 0 /\ Seen(<<r, open[r]>>) /\ LockFree
                                 /\ post' = [post EXCEPT ![t].pc = "pop"]
    BY <1>6, <2>1 DEF Resolve
  <2>3. post[t].run = {r}
    BY ReportOfRun
  <2>4. post'[t].run = post[t].run
    BY <1>1, <2>2 DEF Call
  <2> QED
    BY <1>6, <2>2, <2>3, <2>4
<1>7. ASSUME NEW r \in Run, TickStep(r) PROVE post'[t] = post[t]
  BY <1>1, <1>2, <1>7, Threads DEF TickStep, TickPark, TickSave, TickUnresolved,
     StreamRun, Call
<1>8. ASSUME NEW r \in Run,
             \/ Answer(r) \/ Cancel(r) \/ Purge(r) \/ Ages(r)
             \/ CancelRaises(r) \/ Reap(r)
      PROVE  post'[t] = post[t]
  BY <1>1, <1>8, Threads DEF Answer, Cancel, Purge, Ages, CancelRaises, Reap,
     StreamRun, memoryVars
<1>11. ASSUME NEW r \in Run, DirectTick(r) PROVE post'[t] = post[t]
  BY <1>1, <1>2, <1>11, Threads DEF DirectTick
<1>9. CASE ItemRecorded \/ UNCHANGED vars
  BY <1>9 DEF ItemRecorded, vars, memoryVars
<1>10. CASE Crash
  BY <1>2, <1>10 DEF Crash
<1> QED
  BY <1>3, <1>4, <1>5, <1>6, <1>7, <1>8, <1>9, <1>10, <1>11 DEF Next, StreamStep

LEMMA NoPop ==
    ASSUME Shape, [Next]_vars, open = NoneOpen, \A t \in Thread : post[t].pc # "pop",
           NEW t \in Thread
    PROVE  post'[t].pc # "pop"
<1>1. ASSUME post'[t].pc = "pop" PROVE FALSE
  <2>1. \A r \in post[t].run : open[r] # 0 /\ r \in Run
    BY <1>1, PopSteps, ReportOfRun
  <2>2. post[t].run = {}
    BY <2>1 DEF NoneOpen
  <2>3. Resolve(t)
    BY <1>1, PopSteps
  <2> QED
    BY <2>2, <2>3 DEF Resolve
<1> QED
  BY <1>1

-----------------------------------------------------------------------------
(* The first pass of a process, and the order of the entries.              *)

BootPass ==
    \/ ~rebuilt
    \/ loop.pc \in {"pointers", "attention", "load", "close", "missing"}
    \/ loop.boot /\ loop.pc \in {"entry", "floor", "keep"}

BeforeLoad ==
    \/ ~rebuilt
    \/ loop.pc \in {"pointers", "attention", "load"}
    \/ loop.boot /\ loop.pc \in {"entry", "floor"}

LEMMA BootGoesOn ==
    ASSUME Shape, LoopMove
    PROVE  /\ BootPass' => BootPass /\ queue' = queue
           /\ BeforeLoad' => BeforeLoad
           /\ loop'.pc = "close" => loop.pc \in {"load", "close"}
<1>1. LoopFits /\ loop \in LoopRecord /\ rebuilt \in BOOLEAN
  BY DEF Shape, LoopTypes
<1>2. CASE Stays
  BY <1>1, <1>2 DEF Stays, Ways, BootPass, BeforeLoad, LoopFits
<1>3. CASE Loads
  BY <1>1, <1>3 DEF Loads, BootPass, BeforeLoad, LoopFits
<1>4. CASE Finishes
  <2>1. UNCHANGED <<queue, rebuilt>> /\ rebuilt
        /\ loop.pc \in {"entry", "floor", "raise", "raiseNext", "check"}
    BY <1>1, <1>4 DEF Finishes, LoopFits
  <2>2. \/ loop'.pc = "entry" /\ loop'.boot = loop.boot
        \/ loop.boot /\ loop'.boot /\ loop'.pc = "load"
        \/ ~loop.boot /\ loop'.pc = "poll" /\ ~loop'.boot
    BY <1>1, <1>4, NextEntryLoop DEF Finishes, AtPoll
  <2> QED
    BY <1>1, <2>1, <2>2 DEF BootPass, BeforeLoad, LoopFits
<1>5. CASE Clears \/ Lists
  BY <1>1, <1>5 DEF Clears, Lists, BootPass, BeforeLoad, LoopFits
<1>6. CASE Drains \/ Repairs
  BY <1>1, <1>6 DEF Drains, Repairs, BootPass, BeforeLoad, LoopFits
<1> QED
  BY <1>2, <1>3, <1>4, <1>5, <1>6 DEF LoopMove

\* What queueing a wait adds to the queue.
LEMMA QueuedEntries ==
    ASSUME Shape, NEW e \in Entry, queue' = Append(queue, e)
    PROVE  \A i \in 1..Len(queue') :
              \/ i \in 1..Len(queue) /\ queue'[i] = queue[i]
              \/ i = Len(queue) + 1 /\ queue'[i] = e
<1>1. queue \in Seq(Entry)
  BY DEF Shape, LoopTypes
<1>2. /\ Len(queue') = Len(queue) + 1 /\ Len(queue) \in Nat
      /\ \A i \in 1..Len(queue) : queue'[i] = queue[i]
      /\ queue'[Len(queue) + 1] = e
  BY <1>1, AppendProperties
<1>3. \A i \in 1..Len(queue') : i \in 1..Len(queue) \/ i = Len(queue) + 1
  BY <1>2
<1> QED
  BY <1>2, <1>3

\* The entries of the queue after a step of another thread.
LEMMA RestsQueue ==
    ASSUME Shape, Rests
    PROVE  \A i \in 1..Len(queue') :
              \/ i \in 1..Len(queue) /\ queue'[i] = queue[i]
              \/ i = Len(queue) + 1 /\ queue'[i].run = {}
              \/ /\ i = Len(queue) + 1 /\ open' = open
                 /\ \E r \in Run : /\ QueuesWait(r) /\ queue'[i].run = {r}
                                   /\ queue'[i].n = Len(ledger[r]) + 1
<1>1. CASE queue' = queue
  BY <1>1
<1>2. CASE queue' = Append(queue, ItemEntry(items + 1)) /\ items + 1 \in Nat
  <2>1. PICK e \in Entry : e = ItemEntry(items + 1) /\ e.run = {}
    <3>1. ItemEntry(items + 1) \in Entry
      BY <1>2 DEF ItemEntry, Entry
    <3>2. ItemEntry(items + 1).run = {}
      BY DEF ItemEntry
    <3> QED
      BY ONLY <3>1, <3>2
  <2> QED
    BY <1>2, <2>1, QueuedEntries
<1>3. ASSUME NEW r \in Run, QueuesWait(r), open' = open
      PROVE  \A i \in 1..Len(queue') :
              \/ i \in 1..Len(queue) /\ queue'[i] = queue[i]
              \/ /\ i = Len(queue) + 1 /\ queue'[i].run = {r}
                 /\ queue'[i].n = Len(ledger[r]) + 1
  <2>1. Len(ledger[r]) \in Nat
    BY DEF Shape, RunTypes
  <2>2. PICK e \in Entry : /\ e = WaitEntry(r, Len(ledger[r]) + 1)
                           /\ e.run = {r} /\ e.n = Len(ledger[r]) + 1
    <3>1. WaitEntry(r, Len(ledger[r]) + 1) \in Entry
      BY <2>1 DEF WaitEntry, Entry
    <3>2. /\ WaitEntry(r, Len(ledger[r]) + 1).run = {r}
          /\ WaitEntry(r, Len(ledger[r]) + 1).n = Len(ledger[r]) + 1
      BY DEF WaitEntry
    <3> QED
      BY ONLY <3>1, <3>2
  <2>3. queue' = Append(queue, e)
    BY <1>3, <2>2 DEF QueuesWait
  <2> QED
    BY <2>2, <2>3, QueuedEntries
<1> QED
  BY <1>1, <1>2, <1>3 DEF Rests

\* Before the boot repair has loaded the open waits, none is in memory, and
\* the waits recorded by then are past the one in the file.
NotLoaded ==
    BeforeLoad =>
        /\ open = NoneOpen
        /\ \A t \in Thread : post[t].pc # "pop"
        /\ \A r \in Run : post[r].pc = "park" => disk.open[r] < Len(ledger[r])
        /\ \A i \in 1..Len(queue), r \in Run :
              queue[i].run = {r} => disk.open[r] < queue[i].n

LEMMA NotLoadedNext ==
    ASSUME Shape, Shape', [Next]_vars, OpenFits, NotLoaded PROVE NotLoaded'
<1> SUFFICES ASSUME BeforeLoad' PROVE NotLoaded'
  BY DEF NotLoaded
<1>1. CASE Crash
  <2>1. open' = NoneOpen /\ \A t \in Thread : post'[t].pc = "idle"
    BY <1>1 DEF Crash, NoCall
  <2>2. queue' = <<>> /\ Len(<<>>) = 0
    BY <1>1 DEF Crash
  <2> QED
    BY <2>1, <2>2, Threads DEF NotLoaded
<1>2. CASE ~Crash
  <2>1. BeforeLoad
    BY <1>2, NextMoves, BootGoesOn DEF Rests, BeforeLoad
  <2>2. /\ open = NoneOpen /\ \A t \in Thread : post[t].pc # "pop"
        /\ \A r \in Run : post[r].pc = "park" => disk.open[r] < Len(ledger[r])
        /\ \A i \in 1..Len(queue), r \in Run :
              queue[i].run = {r} => disk.open[r] < queue[i].n
    BY <2>1 DEF NotLoaded
  <2>3. loop.pc \notin {"check", "close", "keep"} /\ ~LoadsWaits
    <3>1. LoopFits
      BY DEF Shape
    <3>2. ~LoadsWaits
      <4>1. ASSUME LoadsWaits PROVE FALSE
        <5>1. rebuilt' /\ loop'.pc = "close"
          BY <4>1 DEF LoadsWaits, Shape, LoopFits
        <5> QED
          BY <5>1 DEF BeforeLoad
      <4> QED
        BY <4>1
    <3> QED
      BY <2>1, <3>1, <3>2 DEF BeforeLoad, LoopFits
  <2>4. open' = open /\ disk'.open = disk.open
    BY <1>2, <2>2, <2>3, OpenSteps DEF OpenStep, Forgets, KeepsWait
  <2>5. \A t \in Thread : post'[t].pc # "pop"
    BY <2>2, NoPop
  <2>6. ASSUME NEW r \in Run, post'[r].pc = "park"
        PROVE  disk.open[r] < Len(ledger'[r])
    <3>1. RunStep(r)
      BY RunSteps
    <3>2. disk.open[r] \in Nat /\ Len(ledger[r]) \in Nat
          /\ disk.open[r] <= Len(ledger[r])
      BY DEF Shape, StreamTypes, DiskRecord, RunTypes, OpenFits
    <3>3. CASE Len(ledger'[r]) = Len(ledger[r]) /\ post[r].pc = "park"
      BY <2>2, <3>3
    <3>4. CASE Len(ledger'[r]) = Len(ledger[r]) + 1
      BY <3>2, <3>4
    <3> QED
      BY <2>6, <3>1, <3>3, <3>4 DEF RunStep
  <2>7. ASSUME NEW i \in 1..Len(queue'), NEW r \in Run, queue'[i].run = {r}
        PROVE  disk.open[r] < queue'[i].n
    <3>1. CASE i \in 1..Len(queue) /\ queue'[i] = queue[i]
      BY <2>2, <2>7, <3>1
    <3>2. CASE LoopMove
      <4>1. queue' = queue
        BY <3>2, BootGoesOn DEF BeforeLoad, BootPass
      <4> QED
        BY <3>1, <4>1
    <3>3. ASSUME NEW u \in Run, queue'[i].run = {u},
                 queue'[i].n = Len(ledger[u]) + 1
          PROVE  disk.open[r] < queue'[i].n
      <4>1. u = r
        <5>1. {u} = {r}
          BY <2>7, <3>3
        <5> QED
          BY ONLY <5>1
      <4>2. disk.open[r] \in Nat /\ Len(ledger[r]) \in Nat
            /\ disk.open[r] <= Len(ledger[r])
        BY DEF Shape, StreamTypes, DiskRecord, RunTypes, OpenFits
      <4> QED
        BY <3>3, <4>1, <4>2
    <3>4. CASE Rests
      BY <2>7, <3>1, <3>3, <3>4, RestsQueue
    <3> QED
      BY <1>2, <3>2, <3>4, NextMoves
  <2> QED
    BY <2>2, <2>4, <2>5, <2>6, <2>7 DEF NotLoaded
<1> QED
  BY <1>1, <1>2

LEMMA CloseFitsNext ==
    ASSUME Shape, Shape', [Next]_vars, OpenFits, NotLoaded, CloseFits
    PROVE  CloseFits'
<1> SUFFICES ASSUME loop'.pc = "close", NEW r \in Run, post'[r].pc = "park"
             PROVE  open'[r] < Len(ledger'[r])
  BY DEF CloseFits
<1>1. ~Crash
  BY DEF Crash, AtPoll
<1>2. loop.pc \in {"load", "close"}
  BY <1>1, NextMoves, BootGoesOn DEF Rests
<1>3. /\ open[r] \in Nat /\ open'[r] \in Nat /\ Len(ledger[r]) \in Nat
      /\ Len(ledger'[r]) \in Nat /\ Len(ledger'[r]) >= 1
      /\ open[r] <= Len(ledger[r]) /\ open \in [Run -> 0..MaxWaits]
  BY DEF Shape, StreamTypes, RunTypes, RunsFit, OpenFits
<1>4. open'[r] \in {0, open[r]} \/ LoadsWaits
  BY <1>1, <1>2, <1>3, OpenSteps DEF OpenStep, Forgets, KeepsWait
<1>5. RunStep(r)
  BY RunSteps
<1>6. CASE loop.pc = "load"
  <2>1. open[r] = 0 /\ (post[r].pc = "park" => disk.open[r] < Len(ledger[r]))
    BY <1>6 DEF NotLoaded, BeforeLoad, NoneOpen
  <2>2. LoadsWaits => /\ open'[r] = disk.open[r] /\ post[r].pc = "park"
                      /\ ledger'[r] = ledger[r]
    BY DEF LoadsWaits
  <2> QED
    BY <1>3, <1>4, <2>1, <2>2
<1>7. CASE loop.pc = "close"
  <2>1. post[r].pc = "park" => open[r] < Len(ledger[r])
    BY <1>7 DEF CloseFits
  <2>2. open'[r] \in {0, open[r]}
    BY <1>4, <1>7 DEF LoadsWaits
  <2> QED
    BY <1>3, <1>5, <2>1, <2>2 DEF RunStep
<1> QED
  BY <1>2, <1>6, <1>7

\* The wait that the boot repair raises is not behind an entry of its run
\* that is queued, unless it is noted as ahead of it.
KeepAhead ==
    loop.boot /\ loop.pc = "keep" =>
        \A r \in Subject, i \in 1..Len(queue) :
            queue[i].run = {r} => N <= queue[i].n \/ Ahead(r, N)

LEMMA KeepAheadNext ==
    ASSUME Shape, Shape', [Next]_vars, KeepAhead PROVE KeepAhead'
<1> SUFFICES ASSUME loop'.boot, loop'.pc = "keep", NEW r \in Subject',
                    NEW i \in 1..Len(queue'), queue'[i].run = {r}
             PROVE  N' <= queue'[i].n \/ <<r, N'>> \in history'.ahead
  BY DEF KeepAhead, Ahead
<1>1. ~Crash
  BY DEF Crash, AtPoll
<1>2. history.ahead \subseteq history'.ahead
  BY AheadGrows
<1>3. CASE Rests
  <2>1. loop' = loop
    BY <1>3 DEF Rests
  <2>2. Subject' = Subject /\ N' = N
    BY <2>1 DEF Subject, N
  <2>3. loop.left # <<>> /\ Subject # {}
    BY <2>1 DEF Shape, LoopFits, Raising
  <2>4. PICK q \in Run : Subject = {q} /\ N \in 1..Len(ledger[q])
    BY <2>3, WaitAtHand
  <2>5. r = q /\ Len(ledger[q]) \in Nat
    BY <2>2, <2>4 DEF Shape, RunTypes
  <2>6. CASE i \in 1..Len(queue) /\ queue'[i] = queue[i]
    <3>1. N <= queue[i].n \/ <<r, N>> \in history.ahead
      BY <2>1, <2>2, <2>6 DEF KeepAhead, Ahead
    <3> QED
      BY <1>2, <2>2, <2>6, <3>1
  <2>7. ASSUME NEW u \in Run, queue'[i].run = {u},
               queue'[i].n = Len(ledger[u]) + 1
        PROVE  N <= queue'[i].n
    <3>1. u = q
      <4>1. {u} = {q}
        BY <2>5, <2>7
      <4> QED
        BY ONLY <4>1
    <3> QED
      BY <2>4, <2>5, <2>7, <3>1
  <2> QED
    BY <1>3, <2>2, <2>6, <2>7, RestsQueue
<1>4. CASE LoopMove
  <2>1. Repairs
    <3>1. LoopFits /\ LoopTypes
      BY DEF Shape
    <3>2. ~Stays
      BY <3>1 DEF Stays, Ways, LoopFits
    <3>3. ~Finishes
      BY <3>1, NextEntryLoop DEF Finishes, LoopTypes, AtPoll
    <3> QED
      BY <1>4, <3>2, <3>3 DEF LoopMove, Loads, Clears, Lists, Drains
  <2>2. PICK q \in Run, n \in 1..MaxWaits :
          /\ loop'.left = <<WaitEntry(q, n)>>
          /\ \A j \in 1..Len(queue) :
                queue[j].run = {q} =>
                    n <= queue[j].n \/ <<q, n>> \in history'.ahead
    BY <2>1 DEF Repairs
  <2>3. queue' = queue
    BY <2>1 DEF Repairs
  <2>4. Head(<<WaitEntry(q, n)>>) = WaitEntry(q, n)
    OBVIOUS
  <2>5. Subject' = {q} /\ N' = n
    BY <2>2, <2>4 DEF Subject, N, WaitEntry
  <2> QED
    BY <2>2, <2>3, <2>5
<1> QED
  BY <1>1, <1>3, <1>4, NextMoves

\* Waits of a run are raised in the order of their records.
Before(p, q) == \A r \in Run : p.run = {r} /\ q.run = {r} => p.n < q.n

Ordered ==
    /\ \A i, j \in 1..Len(queue) : i < j => Before(queue[i], queue[j])
    /\ \A i, j \in 1..Len(loop.left) :
         i < j => Before(loop.left[i], loop.left[j])
    /\ ~loop.boot => \A i \in 1..Len(loop.left), j \in 1..Len(queue) :
                        Before(loop.left[i], queue[j])

\* A new record is behind every entry there is.
LEMMA NewIsLast ==
    ASSUME Shape, NEW p, Recorded(p), NEW q, NEW r \in Run, q.run = {r},
           q.n = Len(ledger[r]) + 1
    PROVE  Before(p, q)
<1> SUFFICES ASSUME NEW u \in Run, p.run = {u}, q.run = {u} PROVE p.n < q.n
  BY DEF Before
<1>1. u = r /\ Len(ledger[r]) \in Nat
  <2>1. {u} = {r}
    OBVIOUS
  <2>2. u = r
    BY ONLY <2>1
  <2> QED
    BY <2>2 DEF Shape, RunTypes
<1>2. p.n \in 1..Len(ledger[r])
  BY <1>1 DEF Recorded
<1> QED
  BY <1>1, <1>2

LEMMA ItemIsAside ==
    ASSUME NEW p, NEW q, p.run = {} \/ q.run = {} PROVE Before(p, q)
BY DEF Before

LEMMA RestsOrdered ==
    ASSUME Shape, Rests, Ordered PROVE Ordered'
<1>1. loop' = loop
  BY DEF Rests
<1>2. Len(queue) \in Nat
  BY DEF Shape, LoopTypes
<1>3. ASSUME NEW p, Recorded(p), NEW j \in 1..Len(queue'), j = Len(queue) + 1,
             queue' # queue
      PROVE  Before(p, queue'[j])
  <2>1. j \notin 1..Len(queue)
    BY <1>2, <1>3
  <2>2. \/ queue'[j].run = {}
        \/ \E r \in Run : queue'[j].run = {r} /\ queue'[j].n = Len(ledger[r]) + 1
    BY <2>1, RestsQueue
  <2> QED
    BY <1>3, <2>2, NewIsLast, ItemIsAside
<1>4. \A i \in 1..Len(queue') : \/ i \in 1..Len(queue) /\ queue'[i] = queue[i]
                                \/ i = Len(queue) + 1 /\ queue' # queue
  <2> SUFFICES ASSUME NEW i \in 1..Len(queue'), i \notin 1..Len(queue)
               PROVE  i = Len(queue) + 1 /\ queue' # queue
    BY RestsQueue
  <2> QED
    BY RestsQueue
<1>5. ASSUME NEW k \in 1..Len(queue') , NEW j \in 1..Len(queue'), k < j
      PROVE  Before(queue'[k], queue'[j])
  <2>1. k \in 1..Len(queue) /\ queue'[k] = queue[k]
    <3>1. k \in Nat /\ j \in Nat /\ j <= Len(queue) + 1
      BY <1>2, <1>4
    <3>2. k # Len(queue) + 1
      BY <1>2, <1>5, <3>1
    <3> QED
      BY <1>4, <3>2
  <2>2. Recorded(queue[k])
    BY <2>1 DEF Shape, EntriesFit
  <2>3. CASE j \in 1..Len(queue) /\ queue'[j] = queue[j]
    BY <1>5, <2>1, <2>3 DEF Ordered
  <2>4. CASE j = Len(queue) + 1 /\ queue' # queue
    <3>1. PICK p : p = queue[k]
      OBVIOUS
    <3> QED
      BY <1>3, <2>1, <2>2, <2>4, <3>1
  <2> QED
    BY <1>4, <2>3, <2>4
<1>6. ASSUME ~loop.boot, NEW k \in 1..Len(loop.left), NEW j \in 1..Len(queue')
      PROVE  Before(loop.left[k], queue'[j])
  <2>1. Recorded(loop.left[k])
    BY DEF Shape, EntriesFit
  <2>2. CASE j \in 1..Len(queue) /\ queue'[j] = queue[j]
    BY <1>6, <2>2 DEF Ordered
  <2>3. CASE j = Len(queue) + 1 /\ queue' # queue
    <3>1. PICK p : p = loop.left[k]
      OBVIOUS
    <3> QED
      BY <1>3, <2>1, <2>3, <3>1
  <2> QED
    BY <1>4, <2>2, <2>3
<1> QED
  BY <1>1, <1>5, <1>6 DEF Ordered

LEMMA LoopOrdered ==
    ASSUME Shape, Shape', LoopMove, Ordered PROVE Ordered'
<1>1. LoopFits /\ loop \in LoopRecord /\ loop' \in LoopRecord
  BY DEF Shape, LoopTypes
<1>2. Len(<<>>) = 0
  OBVIOUS
<1>3. CASE Stays \/ Loads
  <2>1. loop'.left = loop.left /\ loop'.boot = loop.boot /\ queue' = queue
    BY <1>3 DEF Stays, Loads
  <2> QED
    BY <2>1 DEF Ordered
<1>4. ASSUME queue' = queue, loop'.left = <<>> PROVE Ordered'
  BY <1>2, <1>4 DEF Ordered
<1>5. CASE Finishes
  <2>1. queue' = queue /\ loop.left # <<>>
    BY <1>5 DEF Finishes
  <2>2. \/ /\ Len(loop.left) > 1 /\ loop'.left = Tail(loop.left)
           /\ loop'.boot = loop.boot
        \/ loop'.left = <<>>
    BY <1>1, <1>5, NextEntryLoop DEF Finishes, AtPoll
  <2>3. CASE loop'.left = Tail(loop.left) /\ loop'.boot = loop.boot
    <3>1. \A k \in 1..Len(loop'.left) : /\ k + 1 \in 1..Len(loop.left)
                                        /\ loop'.left[k] = loop.left[k + 1]
      BY <2>1, <2>3, HeadFits
    <3>2. Len(loop'.left) \in Nat
      BY <1>1 DEF LoopRecord
    <3>3. ASSUME NEW k \in 1..Len(loop'.left), NEW j \in 1..Len(loop'.left), k < j
          PROVE  Before(loop'.left[k], loop'.left[j])
      <4>1. k + 1 < j + 1
        BY <3>2, <3>3
      <4> QED
        BY <3>1, <4>1 DEF Ordered
    <3>4. ASSUME ~loop.boot, NEW k \in 1..Len(loop'.left), NEW j \in 1..Len(queue)
          PROVE  Before(loop'.left[k], queue[j])
      BY <3>1, <3>4 DEF Ordered
    <3> QED
      BY <2>1, <2>3, <3>3, <3>4 DEF Ordered
  <2> QED
    BY <1>4, <2>1, <2>2, <2>3
<1>6. CASE Clears
  BY <1>4, <1>6 DEF Clears
<1>7. CASE Lists
  <2>1. /\ queue' = queue /\ loop'.boot
        /\ \A k \in 1..Len(loop'.left) : loop'.left[k].run = {}
    BY <1>7 DEF Lists
  <2>2. \A k, j \in 1..Len(loop'.left) : Before(loop'.left[k], loop'.left[j])
    BY <2>1, ItemIsAside
  <2> QED
    BY <2>1, <2>2 DEF Ordered
<1>8. CASE Drains
  BY <1>2, <1>8 DEF Drains, Ordered
<1>9. CASE Repairs
  <2>1. queue' = queue /\ loop'.boot /\ \E e : loop'.left = <<e>>
    BY <1>9 DEF Repairs
  <2>2. \A e : Len(<<e>>) = 1
    OBVIOUS
  <2>3. Len(loop'.left) = 1
    BY <2>1, <2>2
  <2>4. \A k, j \in 1..1 : ~(k < j)
    OBVIOUS
  <2> QED
    BY <2>1, <2>3, <2>4 DEF Ordered
<1> QED
  BY <1>3, <1>5, <1>6, <1>7, <1>8, <1>9 DEF LoopMove

LEMMA OrderedNext == ASSUME Shape, Shape', [Next]_vars, Ordered PROVE Ordered'
<1>1. CASE Crash
  <2>1. queue' = <<>> /\ loop'.left = <<>>
    BY <1>1 DEF Crash, AtPoll
  <2>2. Len(<<>>) = 0
    OBVIOUS
  <2> QED
    BY <2>1, <2>2 DEF Ordered
<1> QED
  BY <1>1, NextMoves, RestsOrdered, LoopOrdered

\* Entries that stay where they are stay ahead of the open wait.
LEMMA QueueAhead ==
    ASSUME Shape, Shape', [Next]_vars, NotLoaded, KeepAhead, EntriesAhead, Ordered,
           NEW i \in 1..Len(queue), NEW r \in Run, queue[i].run = {r}
    PROVE  open'[r] <= queue[i].n \/ <<r, open'[r]>> \in history'.ahead
<1>1. /\ open[r] \in Nat /\ Len(ledger[r]) \in Nat /\ queue[i].n \in Nat
      /\ open[r] <= queue[i].n \/ <<r, open[r]>> \in history'.ahead
      /\ open \in [Run -> 0..MaxWaits] /\ disk.open[r] \in Nat
  <2>1. queue[i].n \in Nat
    <3>1. queue[i] \in Entry
      BY DEF Shape, LoopTypes
    <3> QED
      BY <3>1 DEF Entry
  <2>2. open[r] <= queue[i].n \/ <<r, open[r]>> \in history'.ahead
    BY AheadGrows DEF EntriesAhead, Ahead
  <2>3. /\ Len(ledger[r]) \in Nat /\ open \in [Run -> 0..MaxWaits]
        /\ disk.open[r] \in Nat
    BY DEF Shape, StreamTypes, RunTypes, DiskRecord
  <2>4. open[r] \in Nat
    BY <2>3
  <2> QED
    BY <2>1, <2>2, <2>3, <2>4
<1>2. CASE LoadsWaits
  <2>1. disk.open[r] < queue[i].n
    BY <1>2 DEF LoadsWaits, NotLoaded, BeforeLoad
  <2> QED
    BY <1>1, <1>2, <2>1 DEF LoadsWaits
<1>3. CASE KeepsWait
  <2>1. loop.pc = "keep" /\ loop.left # <<>> /\ Subject # {}
    BY <1>3 DEF KeepsWait, Shape, LoopFits, Raising
  <2>2. PICK q \in Run : Subject = {q} /\ open' = [open EXCEPT ![q] = N]
    BY <1>3 DEF KeepsWait
  <2>3. N \in 1..Len(ledger[q]) /\ Len(ledger[q]) \in Nat
    <3>1. Len(ledger[q]) \in Nat
      BY DEF Shape, RunTypes
    <3> QED
      BY <2>1, <2>2, <3>1, WaitAtHand
  <2>4. CASE q # r
    BY <1>1, <2>2, <2>4
  <2>5. CASE q = r
    <3>1. open'[r] = N
      BY <1>1, <2>2, <2>5
    <3>2. CASE loop.boot
      <4>1. N <= queue[i].n \/ <<r, N>> \in history.ahead
        BY <2>1, <2>2, <2>5, <3>2 DEF KeepAhead, Ahead
      <4> QED
        BY <3>1, <4>1, AheadGrows
    <3>3. CASE ~loop.boot
      <4>1. /\ Len(loop.left) >= 1 /\ Len(loop.left) \in Nat
            /\ Head(loop.left) = loop.left[1]
        BY <2>1, HeadFits
      <4>2. 1 \in 1..Len(loop.left)
        BY <4>1
      <4>3. Before(loop.left[1], queue[i])
        BY <3>3, <4>2 DEF Ordered
      <4>4. N < queue[i].n
        BY <2>2, <2>5, <4>1, <4>3 DEF Before, Subject, N
      <4> QED
        BY <1>1, <2>3, <3>1, <4>4
    <3> QED
      BY <3>2, <3>3
  <2> QED
    BY <2>4, <2>5
<1>4. CASE Forgets
  <2>1. open'[r] \in {0, open[r]}
    BY <1>1, <1>4 DEF Forgets
  <2> QED
    BY <1>1, <2>1
<1>5. CASE open' = NoneOpen
  BY <1>1, <1>5 DEF NoneOpen
<1> QED
  BY <1>1, <1>2, <1>3, <1>4, <1>5, OpenSteps DEF OpenStep

LEMMA LeftAhead ==
    ASSUME Shape, Shape', [Next]_vars, OpenFits, EntriesAhead, Ordered,
           loop'.pc \notin {"close", "missing"},
           NEW i \in 1..Len(loop.left), NEW r \in Run, loop.left[i].run = {r}
    PROVE  open'[r] <= loop.left[i].n \/ <<r, open'[r]>> \in history'.ahead
<1>1. /\ open[r] \in Nat /\ loop.left[i].n \in Nat
      /\ open[r] <= loop.left[i].n \/ <<r, open[r]>> \in history'.ahead
      /\ open \in [Run -> 0..MaxWaits]
  <2>1. loop.left \in Seq(Entry)
    BY LoopFields DEF Shape, LoopTypes
  <2>2. loop.left[i].n \in Nat
    <3>1. loop.left[i] \in Entry
      BY <2>1
    <3> QED
      BY <3>1 DEF Entry
  <2>3. open[r] <= loop.left[i].n \/ <<r, open[r]>> \in history'.ahead
    BY AheadGrows DEF EntriesAhead, Ahead
  <2> QED
    BY <2>2, <2>3 DEF Shape, StreamTypes
<1>2. ~LoadsWaits
  BY DEF LoadsWaits
<1>3. CASE KeepsWait
  <2>1. loop.pc = "keep" /\ loop.left # <<>> /\ Subject # {}
    BY <1>3 DEF KeepsWait, Shape, LoopFits, Raising
  <2>2. PICK q \in Run : Subject = {q} /\ open' = [open EXCEPT ![q] = N]
    BY <1>3 DEF KeepsWait
  <2>3. N \in 1..Len(ledger[q]) /\ Len(ledger[q]) \in Nat
    <3>1. Len(ledger[q]) \in Nat
      BY DEF Shape, RunTypes
    <3> QED
      BY <2>1, <2>2, <3>1, WaitAtHand
  <2>4. CASE q # r
    BY <1>1, <2>2, <2>4
  <2>5. CASE q = r
    <3>1. open'[r] = N
      BY <1>1, <2>2, <2>5
    <3>2. /\ Len(loop.left) >= 1 /\ Len(loop.left) \in Nat
          /\ Head(loop.left) = loop.left[1]
      BY <2>1, HeadFits
    <3>3. CASE i = 1
      BY <1>1, <3>1, <3>2, <3>3 DEF N
    <3>4. CASE i # 1
      <4>1. 1 \in 1..Len(loop.left) /\ 1 < i
        BY <3>2, <3>4
      <4>2. Before(loop.left[1], loop.left[i])
        BY <4>1 DEF Ordered
      <4>3. N < loop.left[i].n
        BY <2>2, <2>5, <3>2, <4>2 DEF Before, Subject, N
      <4> QED
        BY <1>1, <2>3, <3>1, <4>3
    <3> QED
      BY <3>3, <3>4
  <2> QED
    BY <2>4, <2>5
<1>4. CASE Forgets
  <2>1. open'[r] \in {0, open[r]}
    BY <1>1, <1>4 DEF Forgets
  <2> QED
    BY <1>1, <2>1
<1>5. CASE open' = NoneOpen
  BY <1>1, <1>5 DEF NoneOpen
<1> QED
  BY <1>1, <1>2, <1>3, <1>4, <1>5, OpenSteps DEF OpenStep

LEMMA EntriesAheadNext ==
    ASSUME Shape, Shape', [Next]_vars, OpenFits, OpenFits', NotLoaded, KeepAhead,
           EntriesAhead, Ordered
    PROVE  EntriesAhead'
<1>1. Len(<<>>) = 0
  OBVIOUS
<1>2. ASSUME NEW i \in 1..Len(queue'), NEW r \in Run, queue'[i].run = {r}
      PROVE  open'[r] <= queue'[i].n \/ <<r, open'[r]>> \in history'.ahead
  <2>1. CASE i \in 1..Len(queue) /\ queue'[i] = queue[i]
    BY <1>2, <2>1, QueueAhead
  <2>2. ASSUME open' = open, NEW q \in Run, queue'[i].run = {q},
               queue'[i].n = Len(ledger[q]) + 1
        PROVE  open'[r] <= queue'[i].n
    <3>1. q = r
      <4>1. {q} = {r}
        BY <1>2, <2>2
      <4> QED
        BY ONLY <4>1
    <3>2. open[r] \in Nat /\ Len(ledger[r]) \in Nat /\ open[r] <= Len(ledger[r])
      BY DEF Shape, StreamTypes, RunTypes, OpenFits
    <3> QED
      BY <2>2, <3>1, <3>2
  <2>3. CASE Rests
    BY <1>2, <2>1, <2>2, <2>3, RestsQueue
  <2>4. CASE queue' = queue \/ queue' = <<>>
    BY <1>1, <2>1, <2>4
  <2>5. LoopMove => queue' = queue \/ queue' = <<>>
    BY DEF LoopMove, Stays, Loads, Finishes, Clears, Lists, Drains, Repairs
  <2>6. Crash => queue' = <<>>
    BY DEF Crash
  <2> QED
    BY <2>3, <2>4, <2>5, <2>6, NextMoves
<1>3. ASSUME NEW i \in 1..Len(loop'.left), NEW r \in Run, loop'.left[i].run = {r}
      PROVE  open'[r] <= loop'.left[i].n \/ <<r, open'[r]>> \in history'.ahead
  <2>1. loop'.pc \notin {"close", "missing"}
    <3>1. loop'.left # <<>>
      BY <1>1
    <3> QED
      BY <3>1 DEF Shape, LoopFits
  <2>2. CASE loop'.left = loop.left
    BY <1>3, <2>1, <2>2, LeftAhead
  <2>3. CASE Finishes
    <3>1. \/ loop'.left = Tail(loop.left) \/ loop'.left = <<>>
      BY <2>3, NextEntryLoop DEF Finishes, AtPoll, Shape, LoopTypes
    <3>2. CASE loop'.left = Tail(loop.left)
      <4>1. i + 1 \in 1..Len(loop.left) /\ loop'.left[i] = loop.left[i + 1]
        BY <2>3, <3>2, HeadFits DEF Finishes
      <4> QED
        BY <1>3, <2>1, <4>1, LeftAhead
    <3> QED
      BY <1>1, <3>1, <3>2
  <2>4. CASE loop'.left = <<>>
    BY <1>1, <2>4
  <2>5. CASE Lists
    BY <1>3, <2>5 DEF Lists
  <2>6. CASE Drains
    BY <1>3, <2>6, QueueAhead DEF Drains
  <2>7. CASE Repairs
    <3>1. PICK q \in Run, n \in 1..MaxWaits :
            n = Len(ledger[q]) /\ loop'.left = <<WaitEntry(q, n)>>
      BY <2>7 DEF Repairs
    <3>2. Len(<<WaitEntry(q, n)>>) = 1 /\ <<WaitEntry(q, n)>>[1] = WaitEntry(q, n)
      OBVIOUS
    <3>3. i = 1
      BY <3>1, <3>2
    <3>4. loop'.left[i] = WaitEntry(q, n)
      BY <3>1, <3>2, <3>3
    <3>5. WaitEntry(q, n).run = {q} /\ WaitEntry(q, n).n = n
      BY DEF WaitEntry
    <3>6. q = r
      <4>1. {q} = {r}
        BY <1>3, <3>4, <3>5
      <4> QED
        BY ONLY <4>1
    <3>7. open'[r] <= Len(ledger'[r]) /\ Len(ledger'[r]) = Len(ledger[r])
      <4>1. loop.pc = "missing" /\ loop'.pc = "keep"
        BY <2>7 DEF Repairs
      <4>2. ledger' = ledger
        <5>1. ~Crash
          BY <4>1 DEF Crash, AtPoll
        <5>2. ~Rests
          BY <4>1 DEF Rests
        <5> QED
          BY <5>1, <5>2, NextMoves
      <4> QED
        BY <4>2 DEF OpenFits
    <3> QED
      BY <3>1, <3>4, <3>5, <3>6, <3>7
  <2>8. CASE Rests
    BY <2>2, <2>8 DEF Rests
  <2>9. CASE Crash
    BY <2>4, <2>9 DEF Crash, AtPoll
  <2>10. CASE Stays \/ Loads
    BY <2>2, <2>10 DEF Stays, Loads
  <2>11. CASE Clears
    BY <2>4, <2>11 DEF Clears
  <2> QED
    BY <2>3, <2>5, <2>6, <2>7, <2>8, <2>9, <2>10, <2>11, NextMoves DEF LoopMove
<1> QED
  BY <1>2, <1>3 DEF EntriesAhead, Ahead

-----------------------------------------------------------------------------
(* A badge goes only when its wait is over.                                *)

SeenInv ==
    /\ Shape /\ OpenFits /\ GotFits /\ TickReportsFit /\ LoopReportFits
    /\ NotLoaded /\ CloseFits /\ KeepAhead /\ Ordered /\ EntriesAhead
    /\ SeenClosed

LEMMA SeenInvInit == Init => SeenInv
<1> SUFFICES ASSUME Init PROVE SeenInv
  OBVIOUS
<1>1. Shape
  BY InitShape
<1>2. /\ loop.pc = "poll" /\ loop.left = <<>> /\ queue = <<>> /\ stream.seen = {}
      /\ \A r \in Run : open[r] = 0 /\ disk.open[r] = 0 /\ ledger[r] = <<>>
      /\ \A t \in Thread : post[t].pc = "idle"
      /\ open = NoneOpen
  BY DEF Init, AtPoll, NoneOpen, NoCall
<1>3. Len(<<>>) = 0
  OBVIOUS
<1>4. OpenFits
  BY <1>2, <1>3 DEF OpenFits
<1>5. TickReportsFit /\ LoopReportFits /\ NotLoaded /\ CloseFits
  BY <1>2, <1>3, Threads DEF TickReportsFit, LoopReportFits, NotLoaded, CloseFits
<1>6. KeepAhead /\ Ordered /\ EntriesAhead
  BY <1>2, <1>3 DEF KeepAhead, Ordered, EntriesAhead
<1>7. GotFits /\ SeenClosed
  BY <1>2 DEF GotFits, Raising, SeenClosed
<1> QED
  BY <1>1, <1>4, <1>5, <1>6, <1>7 DEF SeenInv

LEMMA SeenInvNext == ASSUME SeenInv, [Next]_vars PROVE SeenInv'
<1>1. /\ Shape /\ OpenFits /\ GotFits /\ TickReportsFit /\ LoopReportFits
      /\ NotLoaded /\ CloseFits /\ KeepAhead /\ Ordered /\ EntriesAhead
      /\ SeenClosed
  BY DEF SeenInv
<1>2. Shape'
  BY <1>1, ShapeNext
<1>3. OpenFits' /\ GotFits'
  BY <1>1, <1>2, OpenFitsNext, GotFitsNext
<1>4. TickReportsFit' /\ LoopReportFits'
  BY <1>1, <1>2, <1>3, TickReportsNext, LoopReportNext
<1>5. NotLoaded' /\ CloseFits' /\ KeepAhead' /\ Ordered'
  BY <1>1, <1>2, NotLoadedNext, CloseFitsNext, KeepAheadNext, OrderedNext
<1>6. EntriesAhead'
  BY <1>1, <1>2, <1>3, EntriesAheadNext
<1>7. SeenClosed'
  BY <1>1, <1>2, SeenSteps, SeenClosedNext
<1> QED
  BY <1>2, <1>3, <1>4, <1>5, <1>6, <1>7 DEF SeenInv

LEMMA SeenInvCloses == SeenInv => SeenMeansClosed
<1> SUFFICES ASSUME SeenInv, NEW w \in stream.seen, WaitsOn(w[1], w[2]),
                    w \notin history.ahead
             PROVE  FALSE
  BY DEF SeenMeansClosed
<1>1. Shape /\ SeenClosed
  BY DEF SeenInv
<1>2. PICK r \in Run, n \in Nat : r = w[1] /\ n = w[2]
  BY <1>1 DEF Shape, StreamTypes, StreamRecord, Wait
<1>3. run[r].st = "waiting" /\ run[r].step = n /\ run[r].step = Len(ledger[r])
  BY <1>1, <1>2 DEF WaitsOn, Shape, RunsFit
<1>4. Closed(r, n)
  BY <1>1, <1>2 DEF SeenClosed
<1> QED
  BY <1>3, <1>4 DEF Closed, Over

\* No attention.seen is in the stream for the wait that its run is parked on,
\* however old the copy of the run that the loop or a tick closed it with
\* (_resolve_wait_if_closed, _raise_wait, _rebuild_waits), and across crashes,
\* except a wait that the boot repair (_rebuild_waits) raised while an older
\* one of its run was still queued.  The invariant follows that order: the
\* waits queued before the repair has loaded the open ones are past them
\* (NotLoaded), entries are raised in the order of their records (Ordered),
\* and so the wait that is open is never behind one still to be raised unless
\* it is noted (KeepAhead, EntriesAhead).
THEOREM SeenMeansClosedHolds == Spec => []SeenMeansClosed
<1>1. SeenInv /\ [Next]_vars => SeenInv'
  BY SeenInvNext
<1> QED
  BY SeenInvInit, <1>1, SeenInvCloses, PTL DEF Spec

-----------------------------------------------------------------------------
(* One badge per run.                                                      *)

\* A wait is raised by the loop, which is then about to keep it.
StreamGrows ==
    /\ stream.seen \subseteq stream'.seen
    /\ \/ stream'.raised = stream.raised
       \/ /\ loop'.pc = "keep"
          /\ \E r \in Run : /\ Subject' = {r}
                            /\ stream'.raised = stream.raised \cup {<<r, N'>>}

LEMMA StreamSame ==
    ASSUME stream'.seen = stream.seen, stream'.raised = stream.raised
    PROVE  StreamGrows
BY DEF StreamGrows

\* The steps of the loop while it raises a wait.
LEMMA RaiseSteps ==
    ASSUME Shape, LoopStep, loop.pc \in {"raise", "raiseNext"}
    PROVE  \E r \in Run :
             /\ Subject = {r} /\ N \in 1..MaxWaits /\ UNCHANGED <<open, post>>
             /\ \/ /\ loop.pc = "raise" /\ LockFree /\ loop'.pc = "raiseNext"
                   /\ Seen(<<r, open[r]>>) /\ open[r] # 0 /\ history' = history
                   /\ loop'.left = loop.left
                \/ /\ loop.pc = "raise" => LockFree /\ open[r] \in {0, N}
                   /\ Raised(<<r, N>>) /\ loop'.pc = "keep" /\ history' = history
                   /\ loop'.left = loop.left
                \/ /\ AppendRaises /\ loop'.pc \notin {"raiseNext", "keep"}
<1>1. StreamTypes /\ LoopFits /\ LoopTypes /\ loop \in LoopRecord
  BY DEF Shape, LoopTypes
<1>2. RaiseClosesPrevious \/ RaiseWait
  BY DEF LoopStep, LoopSchedule, LoopDrain, RaiseItem, RaiseFloor, RaiseLoad,
     RaiseKeep, RaiseCheck, BootPointers, BootAttention, BootLoad, BootList,
     BootDone, BootClose, BootRaise, Entering, At
<1>3. loop.left # <<>> /\ Subject # {}
  BY <1>1 DEF LoopFits, Raising
<1>4. PICK r \in Run : Subject = {r} /\ N \in 1..MaxWaits
  BY <1>3, WaitAtHand
<1>5. NextEntry => loop'.pc \notin {"raiseNext", "keep"}
  BY <1>1, <1>3, NextEntryLoop DEF AtPoll
<1>6. ASSUME NEW pc \in LoopPc, Goto(pc)
      PROVE  loop'.pc = pc /\ loop'.left = loop.left
  BY <1>1, <1>6, GotoLoop
<1>7. CASE RaiseClosesPrevious
  <2>1. loop.pc = "raise" /\ LockFree /\ UNCHANGED <<open, post>>
    BY <1>7 DEF RaiseClosesPrevious, At
  <2>2. \/ /\ Seen(<<r, open[r]>>) /\ open[r] # 0 /\ history' = history
           /\ Goto("raiseNext")
        \/ AppendRaises /\ NextEntry
    BY <1>4, <1>7 DEF RaiseClosesPrevious, Subject
  <2>3. Goto("raiseNext") => loop'.pc = "raiseNext" /\ loop'.left = loop.left
    BY <1>6 DEF LoopPc
  <2> QED
    BY <1>4, <1>5, <2>1, <2>2, <2>3
<1>8. CASE RaiseWait
  <2>1. UNCHANGED <<open, post>>
    BY <1>8 DEF RaiseWait
  <2>2. /\ loop.pc = "raise" => LockFree /\ open[r] \in {0, N}
        /\ \/ Raised(<<r, N>>) /\ Goto("keep") /\ history' = history
           \/ AppendRaises /\ NextEntry
    BY <1>4, <1>8 DEF RaiseWait, Subject
  <2>3. Goto("keep") => loop'.pc = "keep" /\ loop'.left = loop.left
    BY <1>6 DEF LoopPc
  <2> QED
    BY <1>4, <1>5, <2>1, <2>2, <2>3
<1> QED
  BY <1>2, <1>7, <1>8

LEMMA RaisesGrow ==
    ASSUME Shape, LoopStep, loop.pc \in {"raise", "raiseNext"} PROVE StreamGrows
<1>1. stream \in StreamRecord
  BY DEF Shape, StreamTypes
<1>2. PICK r \in Run :
        /\ Subject = {r} /\ N \in 1..MaxWaits
        /\ \/ Seen(<<r, open[r]>>) /\ open[r] # 0
           \/ Raised(<<r, N>>) /\ loop'.pc = "keep" /\ loop'.left = loop.left
           \/ stream' = stream
  BY RaiseSteps DEF AppendRaises, AppendRaisesFor
<1>3. <<r, N>> \in Wait /\ (open[r] # 0 => <<r, open[r]>> \in Wait)
  BY <1>2 DEF Wait, Shape, StreamTypes
<1>4. CASE Seen(<<r, open[r]>>) /\ open[r] # 0
  BY <1>1, <1>3, <1>4, SeenStream DEF StreamGrows
<1>5. CASE Raised(<<r, N>>) /\ loop'.pc = "keep" /\ loop'.left = loop.left
  <2>1. stream'.seen = stream.seen /\ stream'.raised = stream.raised \cup {<<r, N>>}
    BY <1>1, <1>3, <1>5, RaisedStream
  <2>2. Subject' = {r} /\ N' = N
    BY <1>2, <1>5 DEF Subject, N
  <2> QED
    BY <1>5, <2>1, <2>2 DEF StreamGrows
<1> QED
  BY <1>2, <1>4, <1>5, StreamSame

LEMMA ClosesGrow ==
    ASSUME Shape, NEW r \in Run, open[r] # 0, Closes(r) PROVE StreamGrows
<1>1. <<r, open[r]>> \in Wait
  BY DEF Shape, StreamTypes, Wait
<1>2. CASE Seen(<<r, open[r]>>)
  BY <1>1, <1>2, SeenStream DEF Shape, StreamTypes, StreamGrows
<1>3. CASE AppendRaises
  BY <1>3, StreamSame DEF AppendRaises, AppendRaisesFor
<1> QED
  BY <1>2, <1>3 DEF Closes

LEMMA LoopGrows == ASSUME Shape, LoopStep PROVE StreamGrows
<1>1. StreamTypes /\ LoopFits /\ LoopTypes /\ stream \in StreamRecord
  BY DEF Shape, StreamTypes
<1>2. CASE LoopSchedule \/ LoopDrain \/ RaiseFloor \/ RaiseLoad \/ RaiseKeep
           \/ BootAttention \/ BootLoad \/ BootList \/ BootDone
  BY <1>2, StreamSame DEF LoopSchedule, LoopDrain, RaiseFloor, RaiseLoad, RaiseKeep,
     BootAttention, BootLoad, BootList, BootDone, diskVars
<1>3. CASE RaiseItem
  BY <1>1, <1>3, StreamSame DEF RaiseItem, AppendRaisesFor, StreamRecord
<1>4. CASE BootPointers
  <2>1. stream' = stream \/ Pointers([r \in Run \ aged |-> run[r]])
    BY <1>4 DEF BootPointers, AppendRaisesFor
  <2>2. DOMAIN [r \in Run \ aged |-> run[r]] \subseteq Run
    OBVIOUS
  <2> QED
    BY <1>1, <2>1, <2>2, PointersStream, StreamSame
<1>5. CASE RaiseWait \/ RaiseClosesPrevious
  BY <1>5, RaisesGrow DEF RaiseWait, RaiseClosesPrevious, At
<1>6. CASE RaiseCheck
  <2>1. loop.pc = "check" /\ loop.left # <<>> /\ Subject # {}
    BY <1>1, <1>6 DEF RaiseCheck, At, LoopFits, Raising
  <2>2. PICK r \in Run : Subject = {r}
    BY <2>1, WaitAtHand
  <2>3. (open[r] # 0 /\ Closes(r)) \/ UNCHANGED stream
    BY <1>6, <2>2 DEF RaiseCheck, Subject, CloseMissing, Closes
  <2> QED
    BY <2>3, ClosesGrow, StreamSame
<1>7. ASSUME NEW w \in loop.todo, BootClose(w) PROVE StreamGrows
  <2>1. PICK r \in Run : r = w[1]
    BY <1>1, LoopFields DEF LoopTypes
  <2>2. (open[r] # 0 /\ Closes(r)) \/ UNCHANGED stream
    BY <1>7, <2>1 DEF BootClose, CloseMissing, Closes
  <2> QED
    BY <2>2, ClosesGrow, StreamSame
<1>8. ASSUME NEW w \in loop.todo, BootRaise(w) PROVE StreamGrows
  <2>1. loop.pc = "missing"
    BY <1>8 DEF BootRaise, At
  <2>2. PICK r \in Run, n \in 1..MaxWaits :
          r = w[1] /\ n = w[2] /\ LatestWaitRecord(w[1], w[2]) = n
    BY <2>1, LatestIsNewest
  <2>3. \/ /\ Raised(<<r, n>>)
           /\ loop' = [loop EXCEPT !.pc = "keep", !.todo = @ \ {w},
                                   !.left = <<WaitEntry(r, n)>>,
                                   !.got = [st |-> "waiting", step |-> n]]
        \/ stream' = stream
    BY <1>8, <2>2 DEF BootRaise, AppendRaises, AppendRaisesFor, LedgerUnreadable
  <2>4. <<r, n>> \in Wait
    BY DEF Wait
  <2>5. CASE /\ Raised(<<r, n>>)
             /\ loop' = [loop EXCEPT !.pc = "keep", !.todo = @ \ {w},
                                     !.left = <<WaitEntry(r, n)>>,
                                     !.got = [st |-> "waiting", step |-> n]]
    <3>1. PICK T, L, g : /\ T = loop.todo \ {w} /\ L = <<WaitEntry(r, n)>>
                         /\ g = [st |-> "waiting", step |-> n]
      OBVIOUS
    <3>2. loop' = [loop EXCEPT !.pc = "keep", !.todo = T, !.left = L, !.got = g]
      BY <2>5, <3>1
    <3>3. loop'.pc = "keep" /\ loop'.left = L
      BY <1>1, <3>2 DEF LoopTypes, LoopRecord
    <3>4. Head(L) = WaitEntry(r, n)
      BY <3>1
    <3>5. Subject' = {r} /\ N' = n
      BY <3>3, <3>4 DEF Subject, N, WaitEntry
    <3>6. /\ stream'.seen = stream.seen
          /\ stream'.raised = stream.raised \cup {<<r, n>>}
      BY <1>1, <2>4, <2>5, RaisedStream
    <3> QED
      BY <3>3, <3>5, <3>6 DEF StreamGrows
  <2> QED
    BY <2>3, <2>5, StreamSame
<1> QED
  BY <1>2, <1>3, <1>4, <1>5, <1>6, <1>7, <1>8 DEF LoopStep

LEMMA StreamGrowth == ASSUME Shape, [Next]_vars PROVE StreamGrows
<1>1. stream \in StreamRecord
  BY DEF Shape, StreamTypes
<1>2. ASSUME NEW t \in Thread, StreamStep(t) PROVE StreamGrows
  <2>1. CASE Pop(t)
    BY <2>1, StreamSame DEF Pop
  <2>2. CASE Pointer(t)
    <3>1. DOMAIN [r \in post[t].run |-> post[t].state] \subseteq Run
      BY DEF Shape, PostTypes, Call
    <3>2. stream' = stream \/ Pointers([r \in post[t].run |-> post[t].state])
      BY <2>2 DEF Pointer, AppendRaises, AppendRaisesFor
    <3> QED
      BY <1>1, <3>1, <3>2, PointersStream, StreamSame
  <2>3. CASE Resolve(t)
    <3>1. PICK r \in post[t].run : \/ stream' = stream
                                   \/ open[r] # 0 /\ Seen(<<r, open[r]>>)
      BY <2>3 DEF Resolve, AppendRaises, AppendRaisesFor
    <3>2. open[r] # 0 => <<r, open[r]>> \in Wait
      BY ReportOfRun
    <3>3. CASE open[r] # 0 /\ Seen(<<r, open[r]>>)
      BY <1>1, <3>2, <3>3, SeenStream DEF StreamGrows
    <3> QED
      BY <3>1, <3>3, StreamSame
  <2> QED
    BY <1>2, <2>1, <2>2, <2>3 DEF StreamStep
<1>3. ASSUME NEW r \in Run, TickStep(r) PROVE StreamGrows
  BY <1>3, StreamSame DEF TickStep, TickPark, TickSave, TickUnresolved
<1>4. ASSUME NEW r \in Run,
             \/ Answer(r) \/ Cancel(r) \/ Purge(r) \/ Ages(r)
             \/ CancelRaises(r) \/ Reap(r) \/ DirectTick(r)
      PROVE  StreamGrows
  <2>1. stream' = stream \/ stream' = [stream EXCEPT !.used = TRUE]
    BY <1>4 DEF Answer, Cancel, Purge, Ages, CancelRaises, Reap, DirectTick, diskVars
  <2> QED
    BY <1>1, <2>1, StreamSame DEF StreamRecord
<1>5. CASE ItemRecorded \/ Crash \/ UNCHANGED vars
  BY <1>5, StreamSame DEF ItemRecorded, Crash, vars, diskVars
<1> QED
  BY <1>2, <1>3, <1>4, <1>5, LoopGrows DEF Next

\* What the history keeps until the process dies.
LEMMA HistorySteps ==
    ASSUME Shape, [Next]_vars, ~Crash
    PROVE  /\ history.lost => history'.lost
           /\ history'.orphan = history.orphan \/ KeepsWait
<1> DEFINE Same == /\ history.lost => history'.lost
                   /\ history'.orphan = history.orphan
<1>1. history \in HistoryRecord
  BY DEF Shape, StreamTypes
<1>2. ASSUME NEW S, AppendRaisesFor(S) PROVE Same
  BY <1>1, <1>2 DEF AppendRaisesFor, HistoryRecord
<1>3. AppendRaises => Same
  BY <1>2 DEF AppendRaises
<1>4. history' = history => Same
  OBVIOUS
<1>5. ASSUME NEW t \in Thread, StreamStep(t) PROVE Same
  BY <1>3, <1>4, <1>5 DEF StreamStep, Resolve, Pop, Pointer
<1>6. ASSUME NEW r \in Run, TickStep(r) PROVE Same
  <2>1. CASE TickUnresolved(r)
    BY <1>1, <2>1 DEF TickUnresolved, HistoryRecord
  <2> QED
    BY <1>4, <1>6, <2>1 DEF TickStep, TickPark, TickSave
<1>7. ASSUME NEW r \in Run,
             \/ Answer(r) \/ Cancel(r) \/ Purge(r) \/ Ages(r)
             \/ CancelRaises(r) \/ Reap(r) \/ DirectTick(r)
      PROVE  Same
  <2>1. CASE CancelRaises(r) \/ Reap(r)
    BY <1>1, <2>1 DEF CancelRaises, Reap, HistoryRecord
  <2> QED
    BY <1>4, <1>7, <2>1 DEF Answer, Cancel, Purge, Ages, DirectTick
<1>8. CASE ItemRecorded \/ UNCHANGED vars
  BY <1>4, <1>8 DEF ItemRecorded, vars
<1>9. CASE RaiseKeep
  BY <1>9, KeepKeeps DEF RaiseKeep, At, LoopStep, KeepsWait
<1>10. CASE LoopStep /\ ~RaiseKeep
  <2>1. CASE BootPointers
    BY <1>1, <1>2, <1>4, <2>1 DEF BootPointers, HistoryRecord
  <2>2. CASE BootAttention \/ BootList
    BY <1>1, <1>4, <2>2 DEF BootAttention, BootList, HistoryRecord
  <2>3. CASE RaiseItem
    BY <1>2, <1>4, <2>3 DEF RaiseItem
  <2>4. CASE LoopSchedule \/ LoopDrain \/ RaiseFloor \/ RaiseLoad \/ BootLoad \/ BootDone
    BY <1>4, <2>4 DEF LoopSchedule, LoopDrain, RaiseFloor, RaiseLoad, BootLoad, BootDone
  <2>5. CASE RaiseClosesPrevious \/ RaiseWait
    BY <1>3, <1>4, <2>5 DEF RaiseClosesPrevious, RaiseWait
  <2>6. CASE RaiseCheck
    BY <1>3, <1>4, <2>6 DEF RaiseCheck, CloseMissing
  <2>7. ASSUME NEW w \in loop.todo, BootClose(w) \/ BootRaise(w) PROVE Same
    <3>1. CASE BootClose(w)
      BY <1>3, <1>4, <3>1 DEF BootClose, CloseMissing
    <3>2. CASE BootRaise(w)
      <4>1. \/ AppendRaises \/ history' = history
            \/ \E A : history' = [history EXCEPT !.ahead = A]
            \/ \E B, f : history' = [history EXCEPT !.unlisted = B, !.faults = f]
        BY <3>2 DEF BootRaise, LedgerUnreadable
      <4> QED
        BY <1>1, <1>3, <1>4, <4>1 DEF HistoryRecord
    <3> QED
      BY <2>7, <3>1, <3>2
  <2> QED
    BY <1>10, <2>1, <2>2, <2>3, <2>4, <2>5, <2>6, <2>7 DEF LoopStep
<1> QED
  BY <1>5, <1>6, <1>7, <1>8, <1>9, <1>10 DEF Next

\* The lock is held across the two writes of _raise_wait.
LockHeld ==
    loop.pc \in {"raiseNext", "keep"} => \A t \in Thread : post[t].pc # "pop"

\* Where the loop comes from when it holds the lock.
LEMMA LockTaken ==
    ASSUME Shape, [Next]_vars, loop'.pc \in {"raiseNext", "keep"}
    PROVE  \/ LockFree /\ LoopStep
           \/ loop.pc \in {"raiseNext", "keep"}
<1>1. CASE Crash
  BY <1>1 DEF Crash, AtPoll
<1>2. CASE Rests
  BY <1>2 DEF Rests
<1>3. CASE LoopStep /\ LoopMove
  <2>1. CASE Stays /\ loop.pc = "raise"
    BY <1>3, <2>1, RaiseSteps
  <2>2. CASE Stays /\ loop.pc # "raise"
    BY <2>2 DEF Stays, Ways
  <2>3. CASE Repairs
    BY <1>3, <2>3 DEF Repairs
  <2>4. CASE Finishes
    <3>1. loop'.pc \notin {"raiseNext", "keep"}
      BY <2>4, NextEntryLoop DEF Finishes, AtPoll, Shape, LoopTypes
    <3> QED
      BY <3>1
  <2>5. CASE Loads \/ Clears \/ Lists \/ Drains
    BY <2>5 DEF Loads, Clears, Lists, Drains
  <2> QED
    BY <1>3, <2>1, <2>2, <2>3, <2>4, <2>5 DEF LoopMove
<1> QED
  BY <1>1, <1>2, <1>3, NextMoves

LEMMA LockHeldNext == ASSUME Shape, [Next]_vars, LockHeld PROVE LockHeld'
<1> SUFFICES ASSUME loop'.pc \in {"raiseNext", "keep"},
                    NEW t \in Thread, post'[t].pc = "pop"
             PROVE  FALSE
  BY DEF LockHeld
<1>1. CASE post[t].pc = "pop"
  <2>1. loop.pc \notin {"raiseNext", "keep"} /\ ~LockFree
    BY <1>1 DEF LockHeld, LockFree
  <2> QED
    BY <2>1, LockTaken
<1>2. CASE Resolve(t) /\ LockFree
  <2>1. loop' = loop
    BY <1>2 DEF Resolve
  <2> QED
    BY <1>2, <2>1 DEF LockFree
<1> QED
  BY <1>1, <1>2, PopSteps

\* A report that is about to forget a wait has reported it as seen.
PopFits ==
    \A t \in Thread : post[t].pc = "pop" =>
        \A r \in post[t].run : open[r] # 0 => <<r, open[r]>> \in stream.seen

LEMMA PopFitsNext ==
    ASSUME Shape, [Next]_vars, LockHeld, PopFits PROVE PopFits'
<1> SUFFICES ASSUME NEW t \in Thread, post'[t].pc = "pop",
                    NEW r \in post'[t].run, open'[r] # 0
             PROVE  <<r, open'[r]>> \in stream'.seen
  BY DEF PopFits
<1>1. stream.seen \subseteq stream'.seen
  BY StreamGrowth DEF StreamGrows
<1>2. CASE post'[t] = post[t] /\ post[t].pc = "pop"
  <2>1. r \in Run /\ open \in [Run -> 0..MaxWaits]
    BY <1>2, ReportOfRun DEF Shape, StreamTypes
  <2>2. open[r] # 0 => <<r, open[r]>> \in stream.seen
    BY <1>2 DEF PopFits
  <2>3. ~KeepsWait /\ ~LoadsWaits /\ ~Crash
    <3>1. ~KeepsWait
      BY <1>2 DEF KeepsWait, LockHeld
    <3>2. ~LoadsWaits
      BY <1>2 DEF LoadsWaits, LockFree
    <3>3. ~Crash
      BY DEF Crash, NoCall
    <3> QED
      BY <3>1, <3>2, <3>3
  <2>4. open'[r] \in {0, open[r]}
    BY <2>1, <2>3, OpenSteps DEF OpenStep, Forgets
  <2> QED
    BY <1>1, <2>2, <2>4
<1>3. CASE /\ Resolve(t) /\ post'[t].run = post[t].run
           /\ \A u \in post[t].run : open[u] # 0 /\ Seen(<<u, open[u]>>)
  <2>1. open' = open /\ open[r] # 0 /\ Seen(<<r, open[r]>>)
    BY <1>3 DEF Resolve
  <2>2. r \in Run
    BY <1>3, ReportOfRun DEF Resolve
  <2>3. <<r, open[r]>> \in Wait
    BY <2>1, <2>2 DEF Shape, StreamTypes, Wait
  <2> QED
    BY <2>1, <2>3, SeenStream DEF Shape, StreamTypes
<1> QED
  BY <1>2, <1>3, PopSteps

\* A wait that the one being raised replaces has been reported as seen.
RaisingFits ==
    loop.pc \in {"raiseNext", "keep"} =>
        \A r \in Subject : \/ <<r, open[r]>> \in stream.seen
                           \/ loop.pc = "keep" /\ open[r] \in {0, N}

LEMMA RaisingFitsNext ==
    ASSUME Shape, Shape', [Next]_vars, LockHeld, RaisingFits PROVE RaisingFits'
<1> SUFFICES ASSUME loop'.pc \in {"raiseNext", "keep"}, NEW r \in Subject'
             PROVE  \/ <<r, open'[r]>> \in stream'.seen
                    \/ loop'.pc = "keep" /\ open'[r] \in {0, N'}
  BY DEF RaisingFits
<1>1. stream.seen \subseteq stream'.seen
  BY StreamGrowth DEF StreamGrows
<1>2. ~Crash
  BY DEF Crash, AtPoll
<1>3. CASE Rests
  <2>1. loop' = loop /\ Subject' = Subject /\ N' = N
    BY <1>3 DEF Rests, Subject, N
  <2>2. ~KeepsWait /\ ~LoadsWaits
    BY <2>1 DEF KeepsWait, LoadsWaits
  <2>3. \A t \in Thread : post[t].pc # "pop"
    BY <2>1 DEF LockHeld
  <2>4. open' = open
    BY <1>2, <2>1, <2>2, <2>3, OpenSteps DEF OpenStep, Forgets
  <2> QED
    BY <1>1, <2>1, <2>4 DEF RaisingFits
<1>4. CASE LoopStep /\ loop.pc \in {"raise", "raiseNext"}
  <2>1. PICK u \in Run :
          /\ Subject = {u} /\ N \in 1..MaxWaits /\ open' = open
          /\ loop'.left = loop.left
          /\ \/ Seen(<<u, open[u]>>) /\ open[u] # 0
             \/ /\ loop.pc = "raise" => open[u] \in {0, N}
                /\ loop'.pc = "keep"
    BY <1>4, RaiseSteps
  <2>2. Subject' = Subject /\ N' = N
    BY <2>1 DEF Subject, N
  <2>3. r = u
    BY <2>1, <2>2
  <2>4. CASE Seen(<<u, open[u]>>) /\ open[u] # 0
    <3>1. <<u, open[u]>> \in Wait
      BY <2>4 DEF Shape, StreamTypes, Wait
    <3> QED
      BY <2>1, <2>3, <2>4, <3>1, SeenStream DEF Shape, StreamTypes
  <2>5. CASE loop.pc = "raise" /\ open[u] \in {0, N} /\ loop'.pc = "keep"
    BY <2>1, <2>2, <2>3, <2>5
  <2>6. CASE loop.pc = "raiseNext"
    BY <1>1, <2>1, <2>3, <2>6 DEF RaisingFits
  <2> QED
    BY <1>4, <2>1, <2>4, <2>5, <2>6
<1>5. CASE LoopStep /\ LoopMove /\ loop.pc \notin {"raise", "raiseNext"}
  <2>1. loop.pc # "keep"
    BY <1>5, KeepKeeps DEF KeepsWait
  <2>2. Repairs
    <3>1. ~Stays
      BY <1>5, <2>1 DEF Stays, Ways
    <3>2. ~Finishes
      BY NextEntryLoop DEF Finishes, AtPoll, Shape, LoopTypes
    <3> QED
      BY <1>5, <3>1, <3>2 DEF LoopMove, Loads, Clears, Lists, Drains
  <2>3. PICK u \in Run, n \in 1..MaxWaits :
          open[u] = 0 /\ loop'.left = <<WaitEntry(u, n)>> /\ loop'.pc = "keep"
    BY <2>2 DEF Repairs
  <2>4. Head(<<WaitEntry(u, n)>>) = WaitEntry(u, n)
    OBVIOUS
  <2>5. Subject' = {u}
    BY <2>3, <2>4 DEF Subject, WaitEntry
  <2>6. open' = open
    <3>1. loop.pc = "missing" /\ LockFree
      BY <2>2 DEF Repairs
    <3> QED
      BY <1>2, <3>1, OpenSteps DEF OpenStep, Forgets, KeepsWait, LoadsWaits, LockFree
  <2> QED
    BY <2>3, <2>5, <2>6
<1> QED
  BY <1>2, <1>3, <1>4, <1>5, NextMoves

\* The boot repair loads the open waits, unless an append raises before.
LEMMA LoadLoads ==
    ASSUME Shape, Shape', [Next]_vars, ~Crash, BeforeLoad, ~BeforeLoad'
    PROVE  LoadsWaits \/ history'.lost
<1>1. /\ LoopFits /\ LoopFits' /\ loop \in LoopRecord /\ rebuilt \in BOOLEAN
      /\ history \in HistoryRecord
  BY DEF Shape, LoopTypes, StreamTypes
<1>2. LoopStep /\ LoopMove
  BY NextMoves DEF Rests, BeforeLoad
<1>3. ASSUME NEW S, AppendRaisesFor(S) PROVE history'.lost
  BY <1>1, <1>3 DEF AppendRaisesFor, HistoryRecord
<1>4. CASE loop.pc = "load"
  <2>1. BootLoad
    BY <1>2, <1>4 DEF LoopStep, LoopSchedule, LoopDrain, RaiseItem, RaiseFloor,
       RaiseLoad, RaiseClosesPrevious, RaiseWait, RaiseKeep, RaiseCheck, BootPointers,
       BootAttention, BootList, BootDone, BootClose, BootRaise, Entering, At
  <2>2. PICK T : T = {<<r, 0>> : r \in {s \in Run : disk.open[s] # 0}}
    OBVIOUS
  <2>3. loop' = [loop EXCEPT !.pc = "close", !.boot = TRUE, !.left = <<>>, !.todo = T]
    BY <2>1, <2>2 DEF BootLoad
  <2>4. loop'.pc = "close"
    BY <1>1, <2>3 DEF LoopRecord
  <2> QED
    BY <2>1, <2>4 DEF BootLoad, LoadsWaits, At, diskVars
<1>5. CASE loop.pc = "pointers"
  <2>1. BootPointers
    BY <1>2, <1>5 DEF LoopStep, LoopSchedule, LoopDrain, RaiseItem, RaiseFloor,
       RaiseLoad, RaiseClosesPrevious, RaiseWait, RaiseKeep, RaiseCheck, BootLoad,
       BootAttention, BootList, BootDone, BootClose, BootRaise, Entering, At
  <2>2. ~Goto("attention")
    BY <1>1, GotoLoop DEF BeforeLoad, LoopPc
  <2> QED
    BY <1>3, <2>1, <2>2 DEF BootPointers
<1>6. CASE loop.boot /\ loop.pc = "entry"
  <2>1. RaiseItem \/ RaiseLoad
    BY <1>2, <1>6 DEF LoopStep, LoopSchedule, LoopDrain, RaiseFloor,
       RaiseClosesPrevious, RaiseWait, RaiseKeep, RaiseCheck, BootLoad, BootPointers,
       BootAttention, BootList, BootDone, BootClose, BootRaise, Entering, At
  <2>2. rebuilt' = rebuilt
    BY <2>1 DEF RaiseItem, RaiseLoad
  <2>3. ~NextEntry
    BY <1>1, <1>6, <2>2, NextEntryLoop DEF BeforeLoad, LoopFits
  <2>4. ~Goto("floor")
    BY <1>1, <1>6, GotoLoop DEF BeforeLoad, LoopPc
  <2>5. ~RaiseLoad
    <3>1. loop.left # <<>> /\ loop.left[1].run = {}
      BY <1>1, <1>6, LoopFields DEF LoopFits
    <3>2. Head(loop.left) = loop.left[1]
      BY <3>1, <1>1, LoopFields
    <3> QED
      BY <3>1, <3>2 DEF RaiseLoad, Entering
  <2>6. PICK S : AppendRaisesFor(S)
    BY <2>1, <2>3, <2>4, <2>5 DEF RaiseItem
  <2> QED
    BY <1>3, <2>6
<1>7. CASE /\ loop.pc \notin {"load", "pointers"}
           /\ ~(loop.boot /\ loop.pc = "entry")
  <2>1. \/ ~rebuilt /\ loop.pc \in {"poll", "drain"}
        \/ rebuilt /\ loop.pc = "attention"
        \/ rebuilt /\ loop.boot /\ loop.pc = "floor"
    BY <1>1, <1>7 DEF BeforeLoad, LoopFits
  <2>2. ~Stays
    BY <2>1 DEF Stays, Ways, BeforeLoad
  <2>3. ~Finishes
    BY <1>1, <2>1, NextEntryLoop DEF Finishes, BeforeLoad
  <2>4. ~Lists
    BY DEF Lists, BeforeLoad
  <2> QED
    BY <1>2, <2>1, <2>2, <2>3, <2>4 DEF LoopMove, Loads, Clears, Drains, Repairs
<1> QED
  BY <1>4, <1>5, <1>6, <1>7

LEMMA UnloadedStays ==
    ASSUME Shape, [Next]_vars, ~Crash, NotLoaded, BeforeLoad, BeforeLoad'
    PROVE  disk'.open = disk.open
<1>1. open = NoneOpen /\ \A t \in Thread : post[t].pc # "pop"
  BY DEF NotLoaded
<1>2. loop.pc \notin {"check", "close", "keep"}
  BY DEF BeforeLoad, Shape, LoopFits
<1> QED
  BY <1>1, <1>2, OpenSteps DEF OpenStep, Forgets, KeepsWait, LoadsWaits

\* A badge that shows is the one open wait of its run, or the wait that the
\* loop is about to keep.
Badge(w) ==
    \/ BeforeLoad /\ disk.open[w[1]] = w[2]
    \/ ~BeforeLoad /\ open[w[1]] = w[2]
    \/ loop.pc = "keep" /\ Subject = {w[1]} /\ N = w[2]

Badges ==
    history.lost \/ \A w \in stream.raised \ (stream.seen \cup history.orphan) : Badge(w)

LEMMA KeptIsOpen ==
    ASSUME Shape, Shape', KeepsWait, NEW r \in Run, NEW n \in Nat,
           Subject = {r}, N = n
    PROVE  Badge(<<r, n>>)'
<1>1. PICK u \in Run : Subject = {u} /\ open' = [open EXCEPT ![u] = N]
  BY DEF KeepsWait
<1>2. u = r
  BY <1>1
<1>3. open'[r] = n
  BY <1>1, <1>2 DEF Shape, StreamTypes
<1>4. ~BeforeLoad'
  BY DEF KeepsWait, BeforeLoad, Shape, LoopFits
<1> QED
  BY <1>3, <1>4 DEF Badge

LEMMA BadgeStays ==
    ASSUME Shape, Shape', [Next]_vars, NotLoaded, PopFits, RaisingFits,
           ~Crash, ~history'.lost,
           NEW w \in Wait, w \notin stream'.seen, Badge(w)
    PROVE  Badge(w)'
<1>1. PICK r \in Run, n \in 1..MaxWaits : w = <<r, n>> /\ w[1] = r /\ w[2] = n
  BY DEF Wait
<1>2. w \notin stream.seen /\ n # 0 /\ open \in [Run -> 0..MaxWaits]
  BY <1>1, StreamGrowth DEF StreamGrows, Shape, StreamTypes
<1>3. CASE BeforeLoad /\ disk.open[r] = n
  <2>1. CASE BeforeLoad'
    BY <1>1, <1>3, <2>1, UnloadedStays DEF Badge
  <2>2. CASE ~BeforeLoad'
    BY <1>1, <1>3, <2>2, LoadLoads DEF Badge, LoadsWaits
  <2> QED
    BY <2>1, <2>2
<1>4. CASE ~BeforeLoad /\ open[r] = n
  <2>1. ~BeforeLoad'
    BY <1>4, NextMoves, BootGoesOn DEF Rests, BeforeLoad
  <2>2. CASE open' = open
    BY <1>1, <1>4, <2>1, <2>2 DEF Badge
  <2>3. CASE Forgets
    <3>1. PICK u \in Run :
            /\ open' = [open EXCEPT ![u] = 0]
            /\ \/ \E t \in Thread : post[t].pc = "pop" /\ post[t].run = {u}
               \/ <<u, open[u]>> \in stream'.seen
      BY <2>3 DEF Forgets
    <3>2. u # r
      BY <1>1, <1>2, <1>4, <3>1 DEF PopFits
    <3> QED
      BY <1>1, <1>2, <1>4, <2>1, <3>1, <3>2 DEF Badge
  <2>4. CASE KeepsWait
    <3>1. PICK u \in Run : Subject = {u} /\ open' = [open EXCEPT ![u] = N]
      BY <2>4 DEF KeepsWait
    <3>2. u = r => N = n
      BY <1>1, <1>2, <1>4, <2>4, <3>1 DEF RaisingFits, KeepsWait
    <3>3. open'[r] = n
      BY <1>2, <1>4, <3>1, <3>2
    <3> QED
      BY <1>1, <2>1, <3>3 DEF Badge
  <2>5. ~LoadsWaits
    BY <1>4 DEF LoadsWaits, BeforeLoad
  <2> QED
    BY <2>2, <2>3, <2>4, <2>5, OpenSteps DEF OpenStep
<1>5. CASE loop.pc = "keep" /\ Subject = {r} /\ N = n
  <2>1. CASE loop' = loop
    BY <1>1, <1>5, <2>1 DEF Badge, Subject, N
  <2>2. CASE KeepsWait
    BY <1>1, <1>2, <1>5, <2>2, KeptIsOpen
  <2> QED
    BY <1>5, <2>1, <2>2, NextMoves, KeepKeeps DEF Rests
<1> QED
  BY <1>1, <1>3, <1>4, <1>5 DEF Badge

LEMMA BadgesNext ==
    ASSUME Shape, Shape', [Next]_vars, NotLoaded, PopFits, RaisingFits, Badges
    PROVE  Badges'
<1> SUFFICES ASSUME ~history'.lost, NEW w \in stream'.raised,
                    w \notin stream'.seen, w \notin history'.orphan
             PROVE  Badge(w)'
  BY DEF Badges
<1>1. /\ w \in Wait /\ stream.seen \subseteq stream'.seen
      /\ history \in HistoryRecord /\ stream \in StreamRecord
  BY StreamGrowth DEF StreamGrows, Shape, StreamTypes, StreamRecord
<1>2. CASE Crash
  <2>1. /\ UNCHANGED <<disk, stream>> /\ ~rebuilt'
        /\ history'.orphan = history.orphan \cup {x \in stream.raised \ stream.seen :
                                                    disk.open[x[1]] # x[2]}
    <3>1. PICK X : X = {x \in stream.raised \ stream.seen : disk.open[x[1]] # x[2]}
      OBVIOUS
    <3>2. history' = [history EXCEPT !.lost = FALSE, !.unheard = {}, !.late = {},
                        !.unlisted = {}, !.orphan = @ \cup X, !.faults = @ + 1]
      BY <1>2, <3>1 DEF Crash
    <3>3. history'.orphan = history.orphan \cup X
      BY <1>1, <3>2 DEF HistoryRecord
    <3> QED
      BY <1>2, <3>1, <3>3 DEF Crash, diskVars
  <2>2. disk.open[w[1]] = w[2]
    BY <2>1
  <2> QED
    BY <2>1, <2>2 DEF Badge, BeforeLoad
<1>3. CASE ~Crash
  <2>1. CASE w \notin stream.raised
    <3>1. PICK r \in Run : /\ loop'.pc = "keep" /\ Subject' = {r} /\ w = <<r, N'>>
      BY <2>1, StreamGrowth DEF StreamGrows
    <3> QED
      BY <3>1 DEF Badge
  <2>2. CASE w \in stream.raised /\ w \notin history.orphan
    <3>1. Badge(w)
      BY <1>1, <1>3, <2>2, HistorySteps DEF Badges
    <3> QED
      BY <1>1, <1>3, <3>1, BadgeStays
  <2>3. CASE w \in history.orphan
    <3>1. KeepsWait
      BY <1>3, <2>3, HistorySteps
    <3>2. PICK r \in Run : Subject = {r} /\ w = <<r, N>>
      BY <2>3, <3>1 DEF KeepsWait
    <3>3. PICK n \in Nat : n = N
      BY <1>1, <3>2 DEF Wait
    <3>4. Badge(<<r, n>>)'
      BY <3>1, <3>2, <3>3, KeptIsOpen
    <3> QED
      BY <3>2, <3>3, <3>4
  <2> QED
    BY <2>1, <2>2, <2>3
<1> QED
  BY <1>2, <1>3

BadgeInv == SeenInv /\ LockHeld /\ PopFits /\ RaisingFits /\ Badges

LEMMA BadgeInvInit == Init => BadgeInv
<1> SUFFICES ASSUME Init PROVE BadgeInv
  OBVIOUS
<1>1. /\ loop.pc = "poll" /\ stream.raised = {}
      /\ \A t \in Thread : post[t].pc = "idle"
  BY DEF Init, AtPoll, NoCall
<1> QED
  BY <1>1, SeenInvInit DEF BadgeInv, LockHeld, PopFits, RaisingFits, Badges

LEMMA BadgeInvNext == ASSUME BadgeInv, [Next]_vars PROVE BadgeInv'
<1>1. SeenInv /\ LockHeld /\ PopFits /\ RaisingFits /\ Badges
  BY DEF BadgeInv
<1>2. SeenInv'
  BY <1>1, SeenInvNext
<1>3. Shape /\ Shape' /\ NotLoaded
  BY <1>1, <1>2 DEF SeenInv
<1> QED
  BY <1>1, <1>2, <1>3, LockHeldNext, PopFitsNext, RaisingFitsNext, BadgesNext
     DEF BadgeInv

LEMMA BadgeInvShowsOne == BadgeInv => OneBadge
<1> SUFFICES ASSUME BadgeInv, ~history.lost,
                    NEW w \in stream.raised \ (stream.seen \cup history.orphan),
                    NEW x \in stream.raised \ (stream.seen \cup history.orphan),
                    w[1] = x[1]
             PROVE  w = x
  BY DEF OneBadge
<1>1. Badge(w) /\ Badge(x) /\ RaisingFits /\ Shape
  BY DEF BadgeInv, SeenInv, Badges
<1>2. PICK r \in Run, n \in 1..MaxWaits, m \in 1..MaxWaits : w = <<r, n>> /\ x = <<r, m>>
  BY <1>1 DEF Shape, StreamTypes, StreamRecord, Wait
<1>3. loop.pc = "keep" => ~BeforeLoad
  BY <1>1 DEF BeforeLoad, Shape, LoopFits
<1>4. loop.pc = "keep" /\ Subject = {r} => open[r] \notin {n, m} \ {N}
  BY <1>1, <1>2 DEF RaisingFits
<1> QED
  BY <1>1, <1>2, <1>3, <1>4 DEF Badge

\* Two waits of a run are both raised and not seen only when a crash left the
\* older one behind or an append raised: _open_waits holds one wait per run,
\* _raise_wait reports the one it replaces as seen before it raises the next,
\* and _rebuild_waits raises nothing for a run with an open wait.
THEOREM OneBadgeHolds == Spec => []OneBadge
<1>1. BadgeInv /\ [Next]_vars => BadgeInv'
  BY BadgeInvNext
<1> QED
  BY BadgeInvInit, <1>1, BadgeInvShowsOne, PTL DEF Spec
=============================================================================
