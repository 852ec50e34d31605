------------------------- MODULE AgoraBridgeProofs --------------------------
(***************************************************************************)
(* What EventMailbox and AgoraBridge keep for any cap, number of runs,     *)
(* channels, messages and faults: the shape of every mailbox, the distance *)
(* of repeats, the order of receipts, the cursor behind them and the one   *)
(* resident.                                                               *)
(***************************************************************************)
EXTENDS AgoraBridge, FiniteSetTheorems, SequenceTheorems, TLAPS

USE MailboxAssumption

-----------------------------------------------------------------------------
(* One mailbox.                                                            *)

\* The mailbox of a run: the inbox is the newest part of the log, full once
\* something was dropped, and repeats are more than Cap apart.
MailShape(run) ==
    /\ run.seq = Len(run.log)
    /\ run.dropped + Len(run.inbox) = run.seq
    /\ Len(run.inbox) <= Cap
    /\ run.dropped # 0 => Len(run.inbox) = Cap
    /\ \A i \in 1..Len(run.inbox) :
         run.inbox[i] = [event |-> run.log[run.dropped + i],
                         seq |-> run.dropped + i]

Apart(run) ==
    \A i, j \in 1..Len(run.log) :
        i < j /\ run.log[i] = run.log[j] => j - i > Cap

GoodMail(run) == MailShape(run) /\ Apart(run)

LEMMA RunFields ==
    ASSUME NEW run \in RunRecord
    PROVE  /\ run.inbox \in Seq(Entry) /\ run.log \in Seq(Event)
           /\ run.seq \in Nat /\ run.dropped \in Nat /\ run.read \in Nat
           /\ Len(run.inbox) \in Nat /\ Len(run.log) \in Nat
BY DEF RunRecord

\* An append keeps the newest Cap entries and counts what it drops.
LEMMA AppendedFields ==
    ASSUME NEW run \in RunRecord, MailShape(run), NEW ev \in Event
    PROVE  LET new == Appended(run, ev)
               m   == Len(run.inbox)
               k   == IF m = Cap THEN 1 ELSE 0
           IN  /\ new \in RunRecord
               /\ new.log = Append(run.log, ev)
               /\ new.seq = run.seq + 1 /\ new.dropped = run.dropped + k
               /\ Len(new.inbox) = m + 1 - k
               /\ \A i \in 1..(m + 1 - k) :
                    new.inbox[i] = IF i + k = m + 1
                                   THEN [event |-> ev, seq |-> run.seq + 1]
                                   ELSE run.inbox[i + k]
               /\ new.status = run.status /\ new.woken = run.woken
               /\ new.visible = run.visible /\ new.declared = run.declared
<1> DEFINE m == Len(run.inbox)
           k == IF m = Cap THEN 1 ELSE 0
           entry == [event |-> ev, seq |-> run.seq + 1]
           box == Append(run.inbox, entry)
           over == IF Len(box) > Cap THEN Len(box) - Cap ELSE 0
           cut == SubSeq(box, over + 1, Len(box))
<1>1. m \in Nat /\ m <= Cap /\ run.seq \in Nat /\ run.dropped \in Nat
      /\ run.inbox \in Seq(Entry) /\ run.log \in Seq(Event)
  BY RunFields DEF MailShape
<1>2. entry \in Entry
  BY <1>1 DEF Entry
<1>3. box \in Seq(Entry) /\ Len(box) = m + 1
      /\ \A i \in 1..(m + 1) : box[i] = IF i = m + 1 THEN entry ELSE run.inbox[i]
  BY <1>1, <1>2
<1>4. over = k
  BY <1>1, <1>3
<1> HIDE DEF entry, box, m
<1>5. cut \in Seq(Entry) /\ Len(cut) = m + 1 - k
      /\ \A i \in 1..(m + 1 - k) : cut[i] = box[i + k]
  <2>1. cut = SubSeq(box, k + 1, m + 1)
    BY <1>3, <1>4
  <2>2. k \in {0, 1} /\ k + 1 \in Int /\ m + 1 \in Int /\ k + 1 <= m + 1
    BY <1>1
  <2> HIDE DEF k, cut
  <2>3. \A i \in (k + 1)..(m + 1) : box[i] \in Entry
    BY <1>1, <1>3, <2>2
  <2>4. /\ SubSeq(box, k + 1, m + 1) \in Seq(Entry)
        /\ Len(SubSeq(box, k + 1, m + 1)) = (m + 1) - (k + 1) + 1
        /\ \A i \in 1..((m + 1) - (k + 1) + 1) :
             SubSeq(box, k + 1, m + 1)[i] = box[(k + 1) + i - 1]
    BY <2>2, <2>3, SubSeqProperties
  <2>5. (m + 1) - (k + 1) + 1 = m + 1 - k
    BY <1>1, <2>2
  <2>6. cut \in Seq(Entry) /\ Len(cut) = m + 1 - k
    BY <2>1, <2>4, <2>5
  <2>7. ASSUME NEW i \in 1..(m + 1 - k) PROVE cut[i] = box[i + k]
    <3>1. (k + 1) + i - 1 = i + k
      BY <2>2
    <3>2. SubSeq(box, k + 1, m + 1)[i] = box[(k + 1) + i - 1]
      BY <2>4, <2>5
    <3> QED
      BY <2>1, <3>1, <3>2
  <2> QED
    BY <2>6, <2>7
<1>6. Appended(run, ev) = [run EXCEPT !.inbox = cut, !.seq = run.seq + 1,
                              !.dropped = run.dropped + k,
                              !.log = Append(run.log, ev)]
  BY <1>4 DEF Appended, box, entry
<1>7. k \in Nat /\ Append(run.log, ev) \in Seq(Event)
  BY <1>1
<1> HIDE DEF cut, k
<1>8. /\ Appended(run, ev) \in RunRecord
      /\ Appended(run, ev).log = Append(run.log, ev)
      /\ Appended(run, ev).seq = run.seq + 1
      /\ Appended(run, ev).dropped = run.dropped + k
      /\ Appended(run, ev).inbox = cut
      /\ Appended(run, ev).status = run.status
      /\ Appended(run, ev).woken = run.woken
      /\ Appended(run, ev).visible = run.visible
      /\ Appended(run, ev).declared = run.declared
  <2>1. PICK a, d, g : a = run.seq + 1 /\ d = run.dropped + k
                       /\ g = Append(run.log, ev)
    OBVIOUS
  <2>2. a \in Nat /\ d \in Nat /\ g \in Seq(Event) /\ cut \in Seq(Entry)
    <3>1. a \in Nat /\ d \in Nat
      BY <1>1, <1>7, <2>1
    <3>2. g \in Seq(Event)
      BY <1>7, <2>1
    <3>3. cut \in Seq(Entry)
      BY <1>5
    <3> QED
      BY <3>1, <3>2, <3>3
  <2>3. Appended(run, ev) = [run EXCEPT !.inbox = cut, !.seq = a,
                                        !.dropped = d, !.log = g]
    BY <1>6, <2>1
  <2>4. Appended(run, ev) \in RunRecord
    BY <2>2, <2>3 DEF RunRecord
  <2>5. /\ Appended(run, ev).log = g /\ Appended(run, ev).seq = a
        /\ Appended(run, ev).dropped = d /\ Appended(run, ev).inbox = cut
        /\ Appended(run, ev).status = run.status
        /\ Appended(run, ev).woken = run.woken
        /\ Appended(run, ev).visible = run.visible
        /\ Appended(run, ev).declared = run.declared
    BY <2>3 DEF RunRecord
  <2> QED
    BY <2>1, <2>4, <2>5
<1>9. \A i \in 1..(m + 1 - k) : i + k \in 1..(m + 1)
  BY <1>1, <1>7
<1>10. \A i \in 1..(m + 1 - k) :
         cut[i] = IF i + k = m + 1 THEN entry ELSE run.inbox[i + k]
  BY <1>3, <1>5, <1>9
<1> QED
  BY <1>5, <1>8, <1>10 DEF k, m, entry

\* The shape survives the append of an event, and so does the distance of
\* repeats when the inbox does not hold the event.
LEMMA AppendedGood ==
    ASSUME NEW run \in RunRecord, GoodMail(run), NEW ev \in Event, ~Holds(run, ev)
    PROVE  GoodMail(Appended(run, ev))
<1> DEFINE new == Appended(run, ev)
           m == Len(run.inbox)
           k == IF m = Cap THEN 1 ELSE 0
           n == Len(run.log)
<1>1. MailShape(run) /\ Apart(run)
  BY DEF GoodMail
<1>2. /\ new.log = Append(run.log, ev)
      /\ new.seq = run.seq + 1 /\ new.dropped = run.dropped + k
      /\ Len(new.inbox) = m + 1 - k
      /\ \A i \in 1..(m + 1 - k) :
           new.inbox[i] = IF i + k = m + 1
                          THEN [event |-> ev, seq |-> run.seq + 1]
                          ELSE run.inbox[i + k]
  BY <1>1, AppendedFields
<1>3. /\ m \in Nat /\ m <= Cap /\ n \in Nat /\ run.dropped \in Nat
      /\ run.seq = n /\ run.dropped + m = n
      /\ run.log \in Seq(Event) /\ Cap \in Nat \ {0}
      /\ run.dropped # 0 => m = Cap
  BY <1>1, RunFields DEF MailShape
<1>4. /\ Len(new.log) = n + 1 /\ new.log[n + 1] = ev
      /\ \A i \in 1..n : new.log[i] = run.log[i]
  BY <1>2, <1>3
<1>5. k \in {0, 1} /\ (k = 1 => m = Cap) /\ (k = 0 => m < Cap)
  BY <1>3
<1>6. \A i \in 1..m : run.inbox[i] = [event |-> run.log[run.dropped + i],
                                      seq |-> run.dropped + i]
  BY <1>1 DEF MailShape
<1> HIDE DEF new, m, k, n
<1>7. MailShape(new)
  <2>1. \A i \in 1..(m + 1 - k) :
          new.inbox[i] = [event |-> new.log[new.dropped + i],
                          seq |-> new.dropped + i]
    <3> SUFFICES ASSUME NEW i \in 1..(m + 1 - k)
                 PROVE  new.inbox[i] = [event |-> new.log[new.dropped + i],
                                        seq |-> new.dropped + i]
      OBVIOUS
    <3>1. CASE i + k = m + 1
      <4>1. new.dropped + i = n + 1
        <5>1. new.dropped = run.dropped + k
          BY <1>2
        <5>2. i \in Int /\ k \in Int /\ m \in Int /\ run.dropped \in Int
              /\ run.dropped + m = n
          BY <1>3, <1>5
        <5> QED
          BY <3>1, <5>1, <5>2
      <4>2. new.inbox[i] = [event |-> ev, seq |-> n + 1]
        BY <1>2, <1>3, <3>1
      <4> QED
        BY <1>4, <4>1, <4>2
    <3>2. CASE i + k # m + 1
      <4>1. i + k \in 1..m /\ new.dropped + i = run.dropped + (i + k)
            /\ run.dropped + (i + k) \in 1..n
        <5>1. new.dropped = run.dropped + k
          BY <1>2
        <5>2. i \in Int /\ k \in {0, 1} /\ m \in Nat /\ run.dropped \in Nat
              /\ run.dropped + m = n /\ 1 <= i /\ i <= m + 1 - k
          BY <1>3, <1>5
        <5> QED
          BY <3>2, <5>1, <5>2
      <4>2. new.inbox[i] = run.inbox[i + k]
        BY <1>2, <3>2
      <4>3. new.inbox[i] = [event |-> run.log[run.dropped + (i + k)],
                            seq |-> run.dropped + (i + k)]
        BY <1>6, <4>1, <4>2
      <4> QED
        BY <1>4, <4>1, <4>3
    <3> QED
      BY <3>1, <3>2
  <2>2. new.seq = Len(new.log) /\ new.dropped + Len(new.inbox) = new.seq
    <3>1. /\ new.seq = n + 1 /\ Len(new.log) = n + 1
          /\ new.dropped = run.dropped + k /\ Len(new.inbox) = m + 1 - k
      BY <1>2, <1>3, <1>4
    <3>2. k \in Int /\ m \in Int /\ run.dropped \in Int /\ run.dropped + m = n
      BY <1>3, <1>5
    <3> QED
      BY <3>1, <3>2
  <2>3. Len(new.inbox) <= Cap /\ (new.dropped # 0 => Len(new.inbox) = Cap)
    <3>1. new.dropped = run.dropped + k /\ Len(new.inbox) = m + 1 - k
      BY <1>2
    <3>2. CASE k = 0
      BY <1>3, <1>5, <3>1, <3>2
    <3>3. CASE k = 1
      BY <1>3, <1>5, <3>1, <3>3
    <3> QED
      BY <1>5, <3>2, <3>3
  <2>4. Len(new.inbox) = m + 1 - k
    BY <1>2
  <2> QED
    BY <2>1, <2>2, <2>3, <2>4 DEF MailShape
<1>8. \A i \in 1..n : run.log[i] = ev => n + 1 - i > Cap
  <2> SUFFICES ASSUME NEW i \in 1..n, run.log[i] = ev PROVE n + 1 - i > Cap
    OBVIOUS
  <2>1. i <= run.dropped
    <3> SUFFICES ASSUME ~(i <= run.dropped) PROVE FALSE
      OBVIOUS
    <3>1. i - run.dropped \in 1..m /\ run.dropped + (i - run.dropped) = i
      BY <1>3
    <3>2. run.inbox[i - run.dropped]
            = [event |-> run.log[run.dropped + (i - run.dropped)],
               seq |-> run.dropped + (i - run.dropped)]
      BY <1>6, <3>1
    <3>3. run.inbox[i - run.dropped].event = ev
      BY <3>1, <3>2
    <3> QED
      BY <3>1, <3>3 DEF Holds, m
  <2>2. m = Cap
    BY <1>3, <2>1
  <2> QED
    BY <1>3, <2>1, <2>2
<1>9. Apart(new)
  <2> SUFFICES ASSUME NEW i \in 1..(n + 1), NEW j \in 1..(n + 1), i < j,
                      new.log[i] = new.log[j]
               PROVE  j - i > Cap
    BY <1>4 DEF Apart
  <2>1. i \in 1..n
    BY <1>3
  <2>2. CASE j = n + 1
    <3>1. run.log[i] = ev
      BY <1>4, <2>1, <2>2
    <3>2. n + 1 - i > Cap
      BY <1>8, <2>1, <3>1
    <3>3. i \in Int /\ n \in Int /\ Cap \in Int
      BY <1>3
    <3> QED
      BY <2>2, <3>2, <3>3
  <2>3. CASE j # n + 1
    <3>1. j \in 1..n
      BY <1>3, <2>3
    <3>2. run.log[i] = run.log[j]
      BY <1>4, <2>1, <3>1
    <3> QED
      BY <1>1, <2>1, <3>1, <3>2 DEF Apart, n
  <2> QED
    BY <2>2, <2>3
<1> QED
  BY <1>7, <1>9 DEF GoodMail, new

\* What an inbox holds was appended.
LEMMA HeldIsLogged ==
    ASSUME NEW run \in RunRecord, GoodMail(run), NEW ev, Holds(run, ev)
    PROVE  \E i \in 1..Len(run.log) : run.log[i] = ev
<1>1. PICK i \in 1..Len(run.inbox) : run.inbox[i].event = ev
  BY DEF Holds
<1>2. run.inbox[i] = [event |-> run.log[run.dropped + i],
                      seq |-> run.dropped + i]
  BY DEF GoodMail, MailShape
<1>3. run.dropped + i \in 1..Len(run.log)
  BY <1>1, RunFields DEF GoodMail, MailShape
<1> QED
  BY <1>1, <1>2, <1>3

\* An idle copy, and a copy with the mail of another.
LEMMA NoRunGood == NoRun \in RunRecord /\ GoodMail(NoRun)
<1>1. NoRun \in RunRecord
  BY DEF NoRun, RunRecord
<1>2. NoRun.inbox = <<>> /\ NoRun.log = <<>> /\ NoRun.seq = 0 /\ NoRun.dropped = 0
  BY DEF NoRun
<1> QED
  BY <1>1, <1>2 DEF GoodMail, MailShape, Apart

LEMMA SameMail ==
    ASSUME NEW run, NEW new, GoodMail(run),
           new.inbox = run.inbox, new.log = run.log,
           new.seq = run.seq, new.dropped = run.dropped
    PROVE  GoodMail(new)
BY DEF GoodMail, MailShape, Apart

-----------------------------------------------------------------------------
(* All mailboxes and emits.                                                *)

\* A run that the loop ticks declares the mailbox; one that does not exist
\* yet declares nothing.
FlagsFit(run) ==
    /\ run.visible => run.declared
    /\ run.status = "absent" => ~run.declared

GoodRun(run) == GoodMail(run) /\ FlagsFit(run)

RunsFit ==
    /\ \A r \in Run : /\ GoodRun(store[r]) /\ GoodRun(tick[r])
                      /\ tick[r].status # "absent" =>
                           tick[r].status = "running" /\ tick[r].declared
    /\ \A e \in Emitter : /\ GoodRun(emit[e].copy)
                          /\ emit[e].pc = "save" =>
                               \A ev \in emit[e].event : ~Holds(emit[e].copy, ev)

\* An emit reports only what a run received.
Honest ==
    raced \/ \A e \in Emitter : \A m \in emit[e].event :
                 emit[e].resumed \/ emit[e].appended => Received(m)

MailInv == MailboxTypeOK /\ RunsFit /\ Honest

\* Message m is in the history of a run; the run can get more of them.
Got(run, m) == m \in run.woken \/ \E i \in 1..Len(run.log) : run.log[i] = m

Open(run) == Live(run) /\ run.declared

\* Unless a save overwrites another one, no receipt is lost, only the event
\* of an emit is received, and nobody becomes a receiver.
ReceiptStep ==
    raced' \/ /\ ~raced
              /\ \A m \in Event :
                   /\ Received(m) => Received(m)'
                   /\ Received(m)' => Received(m)
                                      \/ \E e \in Emitter : m \in emit'[e].event

ReceiverStep == raced' \/ Receivers' \subseteq Receivers

MailStep == MailInv' /\ ReceiptStep /\ ReceiverStep

LEMMA ReceivedIsGot == \A m : Received(m) <=> \E r \in Run : Got(store[r], m)
BY DEF Received, Got

LEMMA AppendedGot ==
    ASSUME NEW run \in RunRecord, GoodMail(run), NEW ev \in Event, NEW m
    PROVE  Got(Appended(run, ev), m) <=> Got(run, m) \/ m = ev
<1> DEFINE new == Appended(run, ev)
           n == Len(run.log)
<1>1. new.log = Append(run.log, ev) /\ new.woken = run.woken
  BY AppendedFields DEF GoodMail
<1>2. run.log \in Seq(Event) /\ n \in Nat
  BY RunFields
<1>3. /\ Len(new.log) = n + 1 /\ new.log[n + 1] = ev
      /\ \A i \in 1..n : new.log[i] = run.log[i]
  BY <1>1, <1>2
<1> HIDE DEF new
<1>4. (\E i \in 1..(n + 1) : new.log[i] = m)
        <=> (\E i \in 1..n : run.log[i] = m) \/ m = ev
  <2>1. \A i : i \in 1..(n + 1) <=> i \in 1..n \/ i = n + 1
    BY <1>2
  <2> HIDE DEF n
  <2> QED
    BY <1>3, <2>1
<1>5. Got(new, m) <=> (m \in run.woken \/ \E i \in 1..(n + 1) : new.log[i] = m)
  BY <1>1, <1>3 DEF Got, new
<1>6. Got(run, m) <=> (m \in run.woken \/ \E i \in 1..n : run.log[i] = m)
  BY DEF Got
<1> QED
  BY <1>4, <1>5, <1>6 DEF new

\* One run is replaced by a copy that has received at least as much.
LEMMA OneUpdate ==
    ASSUME MailboxTypeOK, RunsFit, NEW r \in Run, NEW new \in RunRecord,
           GoodRun(new), store' = [store EXCEPT ![r] = new]
    PROVE  /\ store' \in [Run -> RunRecord]
           /\ \A q \in Run : GoodRun(store'[q])
           /\ (Open(new) => Open(store[r])) => Receivers' \subseteq Receivers
           /\ \A m : (Got(store[r], m) => Got(new, m)) /\ Received(m)
                       => Received(m)'
           /\ \A m : Received(m)' => Received(m) \/ Got(new, m)
<1>1. store \in [Run -> RunRecord]
  BY DEF MailboxTypeOK
<1>2. store'[r] = new /\ \A q \in Run : q # r => store'[q] = store[q]
  BY <1>1
<1>3. store' \in [Run -> RunRecord]
  BY <1>1
<1>4. \A q \in Run : GoodRun(store'[q])
  <2> TAKE q \in Run
  <2>1. GoodRun(store[q])
    BY DEF RunsFit
  <2> QED
    BY <1>2, <2>1
<1>5. ASSUME Open(new) => Open(store[r]) PROVE Receivers' \subseteq Receivers
  BY <1>2, <1>5 DEF Receivers, Open, Live
<1>6. ASSUME NEW m, Got(store[r], m) => Got(new, m), Received(m)
      PROVE  Received(m)'
  <2>1. PICK q \in Run : Got(store[q], m)
    BY <1>6, ReceivedIsGot
  <2>2. Got(store'[q], m)
    BY <1>2, <1>6, <2>1
  <2> QED
    BY <2>2 DEF Received, Got
<1>7. ASSUME NEW m, Received(m)' PROVE Received(m) \/ Got(new, m)
  <2>1. PICK q \in Run : Got(store'[q], m)
    BY <1>7 DEF Received, Got
  <2> QED
    BY <1>2, <2>1, ReceivedIsGot
<1> QED
  BY <1>3, <1>4, <1>5, <1>6, <1>7

-----------------------------------------------------------------------------
(* The steps on the mailboxes.                                             *)

\* Steps that save no run: copies and emits stay or are gone.
Still ==
    /\ store' = store /\ raced' = raced /\ stranded' = stranded
    /\ tick' = tick \/ tick' = [r \in Run |-> NoRun]
    /\ emit' = emit \/ emit' = [e \in Emitter |-> NoEmit]
    /\ faults' \in Nat

LEMMA NoEmitFits ==
    /\ NoEmit \in EmitRecord /\ NoEmit.copy = NoRun /\ NoEmit.pc = "idle"
    /\ NoEmit.event = {}
<1>1. NoRun \in RunRecord
  BY NoRunGood
<1> QED
  BY <1>1 DEF NoEmit, EmitRecord

LEMMA NoRunFits == GoodRun(NoRun) /\ NoRun.status = "absent"
<1>1. NoRun.status = "absent" /\ NoRun.visible = FALSE /\ NoRun.declared = FALSE
  BY DEF NoRun
<1> QED
  BY <1>1, NoRunGood DEF GoodRun, FlagsFit

LEMMA StillStep == MailInv /\ Still => MailStep
<1> SUFFICES ASSUME MailInv, Still PROVE MailStep
  OBVIOUS
<1>1. /\ \A r \in Run : tick'[r] = tick[r] \/ tick'[r] = NoRun
      /\ \A e \in Emitter : emit'[e] = emit[e] \/ emit'[e] = NoEmit
  BY DEF Still
<1>2. MailboxTypeOK'
  BY NoEmitFits, NoRunGood DEF MailInv, MailboxTypeOK, Still
<1>3. RunsFit'
  <2>1. ASSUME NEW r \in Run
        PROVE  /\ GoodRun(store'[r]) /\ GoodRun(tick'[r])
               /\ tick'[r].status # "absent" =>
                    tick'[r].status = "running" /\ tick'[r].declared
    BY <1>1, NoRunFits DEF MailInv, RunsFit, Still
  <2>2. ASSUME NEW e \in Emitter
        PROVE  /\ GoodRun(emit'[e].copy)
               /\ emit'[e].pc = "save" =>
                    \A ev \in emit'[e].event : ~Holds(emit'[e].copy, ev)
    <3>1. CASE emit'[e] = emit[e]
      BY <3>1 DEF MailInv, RunsFit
    <3>2. CASE emit'[e] = NoEmit
      BY <3>2, NoEmitFits, NoRunFits
    <3> QED
      BY <1>1, <3>1, <3>2
  <2> QED
    BY <2>1, <2>2 DEF RunsFit
<1>4. \A m : Received(m)' <=> Received(m)
  BY DEF Still, Received
<1>5. Honest'
  <2> SUFFICES ASSUME ~raced', NEW e \in Emitter, NEW m \in emit'[e].event,
                      emit'[e].resumed \/ emit'[e].appended
               PROVE  Received(m)'
    BY DEF Honest
  <2>1. emit'[e] = emit[e] /\ ~raced
    BY <1>1, NoEmitFits DEF Still
  <2> QED
    BY <1>4, <2>1 DEF MailInv, Honest
<1>6. ReceiptStep /\ ReceiverStep
  BY <1>4 DEF ReceiptStep, ReceiverStep, Still, Receivers
<1> QED
  BY <1>2, <1>3, <1>5, <1>6 DEF MailStep, MailInv

LEMMA TickLoadStep ==
    ASSUME MailInv, NEW r \in Run, TickLoad(r) PROVE MailStep
<1>1. /\ store \in [Run -> RunRecord] /\ tick \in [Run -> RunRecord]
      /\ store' = store /\ emit' = emit /\ raced' = raced
      /\ stranded' = stranded /\ faults' = faults
      /\ tick' = [tick EXCEPT ![r] = store[r]]
      /\ store[r].status = "running" /\ store[r].visible
  BY DEF MailInv, MailboxTypeOK, TickLoad
<1>2. /\ tick' \in [Run -> RunRecord] /\ tick'[r] = store[r]
      /\ \A q \in Run : q # r => tick'[q] = tick[q]
  BY <1>1
<1>3. MailboxTypeOK'
  BY <1>1, <1>2 DEF MailInv, MailboxTypeOK
<1>4. RunsFit'
  <2>1. ASSUME NEW q \in Run
        PROVE  /\ GoodRun(store'[q]) /\ GoodRun(tick'[q])
               /\ tick'[q].status # "absent" =>
                    tick'[q].status = "running" /\ tick'[q].declared
    <3>1. CASE q # r
      BY <1>1, <1>2, <3>1 DEF MailInv, RunsFit
    <3>2. CASE q = r
      <4>1. GoodRun(store[r]) /\ store[r].declared
        BY <1>1 DEF MailInv, RunsFit, GoodRun, FlagsFit
      <4> QED
        BY <1>1, <1>2, <3>2, <4>1
    <3> QED
      BY <3>1, <3>2
  <2> QED
    BY <1>1, <2>1 DEF MailInv, RunsFit
<1>5. \A m : Received(m)' <=> Received(m)
  BY <1>1 DEF Received
<1>6. Honest' /\ ReceiptStep /\ ReceiverStep
  BY <1>1, <1>5 DEF MailInv, Honest, ReceiptStep, ReceiverStep, Receivers
<1> QED
  BY <1>3, <1>4, <1>6 DEF MailStep, MailInv

\* A step that saves one run and leaves the emits: enough is that the new
\* run is good and, when nothing is overwritten, received the same; a run
\* that opens is a new receiver.
LEMMA SaveStep ==
    ASSUME MailInv, NEW r \in Run, NEW new \in RunRecord, GoodRun(new),
           store' = [store EXCEPT ![r] = new],
           emit' = emit, stranded' = stranded, faults' \in Nat,
           tick' = tick \/ tick' = [tick EXCEPT ![r] = NoRun],
           raced' \in BOOLEAN, raced => raced',
           raced' \/ (new.log = store[r].log /\ new.woken = store[r].woken)
    PROVE  /\ MailInv' /\ ReceiptStep
           /\ raced' \/ (Open(new) => Open(store[r])) => MailStep
<1>1. MailboxTypeOK /\ RunsFit /\ Honest
  BY DEF MailInv
<1>2. /\ store' \in [Run -> RunRecord]
      /\ \A q \in Run : GoodRun(store'[q])
      /\ (Open(new) => Open(store[r])) => Receivers' \subseteq Receivers
      /\ \A m : (Got(store[r], m) => Got(new, m)) /\ Received(m) => Received(m)'
      /\ \A m : Received(m)' => Received(m) \/ Got(new, m)
  BY <1>1, OneUpdate
<1>3. \A q \in Run : tick'[q] = tick[q] \/ tick'[q] = NoRun
  BY <1>1 DEF MailboxTypeOK
<1>4. tick' \in [Run -> RunRecord]
  BY <1>1, NoRunGood DEF MailboxTypeOK
<1>5. MailboxTypeOK'
  BY <1>1, <1>2, <1>4 DEF MailboxTypeOK
<1>6. RunsFit'
  <2>1. ASSUME NEW q \in Run
        PROVE  /\ GoodRun(store'[q]) /\ GoodRun(tick'[q])
               /\ tick'[q].status # "absent" =>
                    tick'[q].status = "running" /\ tick'[q].declared
    <3>1. GoodRun(store'[q])
      BY <1>2
    <3>2. CASE tick'[q] = tick[q]
      BY <1>1, <3>1, <3>2 DEF RunsFit
    <3>3. CASE tick'[q] = NoRun
      BY <3>1, <3>3, NoRunFits
    <3> QED
      BY <1>3, <3>2, <3>3
  <2> QED
    BY <1>1, <2>1 DEF RunsFit
<1>7. raced' \/ \A m : Got(new, m) <=> Got(store[r], m)
  BY DEF Got
<1>8. raced' \/ \A m : Received(m)' <=> Received(m)
  BY <1>2, <1>7, ReceivedIsGot
<1>9. Honest' /\ ReceiptStep
  BY <1>1, <1>8 DEF Honest, ReceiptStep
<1>10. raced' \/ (Open(new) => Open(store[r])) => ReceiverStep
  BY <1>2 DEF ReceiverStep
<1> QED
  BY <1>5, <1>6, <1>9, <1>10 DEF MailStep, MailInv

LEMMA TickSaveStep ==
    ASSUME MailInv, NEW r \in Run, NEW end \in {"waiting", "ended"},
           TickSave(r, end)
    PROVE  MailStep
<1>1. /\ store \in [Run -> RunRecord] /\ tick \in [Run -> RunRecord]
      /\ raced \in BOOLEAN /\ faults \in Nat /\ RunsFit
  BY DEF MailInv, MailboxTypeOK
<1>2. PICK new : new = [tick[r] EXCEPT !.read = tick[r].seq,
                                       !.declared = TRUE, !.status = end]
  OBVIOUS
<1>3. /\ tick[r].status # "absent"
      /\ store' = [store EXCEPT ![r] = new]
      /\ raced' = (raced \/ store[r] # tick[r])
      /\ tick' = [tick EXCEPT ![r] = NoRun]
      /\ emit' = emit /\ stranded' = stranded
  BY <1>2 DEF TickSave, SaveRun
<1>4. faults' \in Nat
  BY <1>1 DEF TickSave, Fault
<1>5. tick[r] \in RunRecord
  BY <1>1
<1>6. new \in RunRecord
  BY <1>2, <1>5 DEF RunRecord
<1>7. /\ new.inbox = tick[r].inbox /\ new.log = tick[r].log
      /\ new.seq = tick[r].seq /\ new.dropped = tick[r].dropped
      /\ new.woken = tick[r].woken
      /\ new.declared = TRUE /\ new.status = end
  BY <1>2, <1>5 DEF RunRecord
<1>8. GoodRun(tick[r]) /\ tick[r].status = "running" /\ tick[r].declared
  BY <1>1, <1>3 DEF RunsFit
<1>9. GoodRun(new)
  <2>1. GoodMail(new)
    BY <1>7, <1>8, SameMail DEF GoodRun
  <2> QED
    BY <1>7, <2>1 DEF GoodRun, FlagsFit
<1>10. /\ raced' \/ (new.log = store[r].log /\ new.woken = store[r].woken)
       /\ raced' \/ (Open(new) => Open(store[r]))
  BY <1>3, <1>7, <1>8 DEF Open, Live
<1>11. raced' \in BOOLEAN /\ (raced => raced')
  BY <1>1, <1>3
<1> QED
  BY <1>3, <1>4, <1>6, <1>9, <1>10, <1>11, SaveStep

\* Pausing and unpausing a run.
LEMMA FlagStep ==
    ASSUME MailInv, NEW r \in Run, NEW b \in BOOLEAN,
           store' = [store EXCEPT ![r].paused = b], faults' \in Nat,
           UNCHANGED <<tick, emit, raced, stranded>>
    PROVE  MailStep
<1>1. store \in [Run -> RunRecord] /\ raced \in BOOLEAN /\ RunsFit
  BY DEF MailInv, MailboxTypeOK
<1>2. PICK new : new = [store[r] EXCEPT !.paused = b]
  OBVIOUS
<1>3. store' = [store EXCEPT ![r] = new]
  BY <1>2
<1>4. store[r] \in RunRecord
  BY <1>1
<1>5. new \in RunRecord
  BY <1>2, <1>4 DEF RunRecord
<1>6. /\ new.inbox = store[r].inbox /\ new.log = store[r].log
      /\ new.seq = store[r].seq /\ new.dropped = store[r].dropped
      /\ new.woken = store[r].woken /\ new.visible = store[r].visible
      /\ new.declared = store[r].declared /\ new.status = store[r].status
  BY <1>2, <1>4 DEF RunRecord
<1>7. GoodRun(store[r])
  BY <1>1 DEF RunsFit
<1>8. GoodRun(new)
  <2>1. GoodMail(new)
    BY <1>6, <1>7, SameMail DEF GoodRun
  <2> QED
    BY <1>6, <1>7, <2>1 DEF GoodRun, FlagsFit
<1>9. Open(new) => Open(store[r])
  BY <1>6 DEF Open, Live
<1> QED
  BY <1>1, <1>3, <1>5, <1>6, <1>8, <1>9, SaveStep

LEMMA PauseStep ==
    ASSUME MailInv, NEW r \in Run, PauseRun(r) \/ UnpauseRun(r)
    PROVE  MailStep
<1>1. faults \in Nat
  BY DEF MailInv, MailboxTypeOK
<1>2. CASE PauseRun(r)
  <2>1. faults' \in Nat
    BY <1>1, <1>2 DEF PauseRun, Fault
  <2> QED
    BY <1>2, <2>1, FlagStep DEF PauseRun
<1>3. CASE UnpauseRun(r)
  BY <1>1, <1>3, FlagStep DEF UnpauseRun
<1> QED
  BY <1>2, <1>3

\* Steps of an emit that save no run.
LEMMA EmitOnlyStep ==
    ASSUME MailInv, NEW e \in Emitter, NEW new \in EmitRecord,
           emit' = [emit EXCEPT ![e] = new],
           UNCHANGED <<store, tick, raced, stranded, faults>>,
           new.event = emit[e].event, GoodRun(new.copy),
           new.pc = "save" => \A ev \in new.event : ~Holds(new.copy, ev),
           raced \/ \A m \in new.event :
                       new.resumed \/ new.appended => Received(m)
    PROVE  MailStep
<1>1. MailboxTypeOK /\ RunsFit /\ Honest
  BY DEF MailInv
<1>2. /\ emit' \in [Emitter -> EmitRecord] /\ emit'[e] = new
      /\ \A f \in Emitter : f # e => emit'[f] = emit[f]
  BY <1>1 DEF MailboxTypeOK
<1>3. MailboxTypeOK'
  BY <1>1, <1>2 DEF MailboxTypeOK
<1>4. RunsFit'
  <2>1. ASSUME NEW f \in Emitter
        PROVE  /\ GoodRun(emit'[f].copy)
               /\ emit'[f].pc = "save" =>
                    \A ev \in emit'[f].event : ~Holds(emit'[f].copy, ev)
    <3>1. CASE f # e
      BY <1>1, <1>2, <3>1 DEF RunsFit
    <3>2. CASE f = e
      BY <1>2, <3>2
    <3> QED
      BY <3>1, <3>2
  <2> QED
    BY <1>1, <2>1 DEF RunsFit
<1>5. \A m : Received(m)' <=> Received(m)
  BY DEF Received
<1>6. Honest'
  <2> SUFFICES ASSUME ~raced', NEW f \in Emitter, NEW m \in emit'[f].event,
                      emit'[f].resumed \/ emit'[f].appended
               PROVE  Received(m)
    BY <1>5 DEF Honest
  <2>1. CASE f # e
    BY <1>1, <1>2, <2>1 DEF Honest
  <2>2. CASE f = e
    BY <1>2, <2>2
  <2> QED
    BY <2>1, <2>2
<1>7. ReceiptStep /\ ReceiverStep
  BY <1>5 DEF ReceiptStep, ReceiverStep, Receivers
<1> QED
  BY <1>3, <1>4, <1>6, <1>7 DEF MailStep, MailInv

LEMMA EmitListStep ==
    ASSUME MailInv, NEW e \in Emitter, EmitList(e) PROVE MailStep
<1>1. PICK new : new = [emit[e] EXCEPT !.pc = "append", !.left = Receivers]
  OBVIOUS
<1>2. emit[e] \in EmitRecord /\ Receivers \subseteq Run
  BY DEF MailInv, MailboxTypeOK, Receivers
<1>3. new \in EmitRecord
  BY <1>1, <1>2 DEF EmitRecord
<1>4. /\ new.event = emit[e].event /\ new.copy = emit[e].copy
      /\ new.resumed = emit[e].resumed /\ new.appended = emit[e].appended
      /\ new.pc = "append"
  BY <1>1, <1>2 DEF EmitRecord
<1>5. emit' = [emit EXCEPT ![e] = new]
      /\ UNCHANGED <<store, tick, raced, stranded, faults>>
  BY <1>1 DEF EmitList
<1>6. GoodRun(new.copy)
  BY <1>4 DEF MailInv, RunsFit
<1>7. raced \/ \A m \in new.event : new.resumed \/ new.appended => Received(m)
  BY <1>4 DEF MailInv, Honest
<1> QED
  BY <1>3, <1>4, <1>5, <1>6, <1>7, EmitOnlyStep

LEMMA AppendLoadStep ==
    ASSUME MailInv, NEW e \in Emitter, AppendLoad(e) PROVE MailStep
<1>1. /\ emit[e] \in EmitRecord /\ store \in [Run -> RunRecord]
      /\ RunsFit /\ Honest
  BY DEF MailInv, MailboxTypeOK
<1>2. /\ emit[e].left \subseteq Run
      /\ emit[e].event \in {{}} \cup {{ev} : ev \in Event}
  BY <1>1 DEF EmitRecord
<1>3. PICK r \in emit[e].left, ev \in emit[e].event :
         emit' = IF Holds(store[r], ev)
                 THEN [emit EXCEPT ![e].left = @ \ {r}, ![e].appended = TRUE]
                 ELSE [emit EXCEPT ![e].left = @ \ {r}, ![e].pc = "save",
                                   ![e].run = {r}, ![e].copy = store[r]]
  BY DEF AppendLoad
<1>4. r \in Run /\ emit[e].event = {ev} /\ emit[e].pc = "append"
      /\ UNCHANGED <<store, tick, raced, stranded, faults>>
  BY <1>2, <1>3 DEF AppendLoad
<1>5. store[r] \in RunRecord /\ GoodRun(store[r])
  BY <1>1, <1>4 DEF RunsFit
<1>6. CASE Holds(store[r], ev)
  <2>1. PICK new : new = [emit[e] EXCEPT !.left = @ \ {r}, !.appended = TRUE]
    OBVIOUS
  <2>2. new \in EmitRecord
    BY <1>1, <2>1 DEF EmitRecord
  <2>3. /\ new.event = emit[e].event /\ new.copy = emit[e].copy
        /\ new.pc = emit[e].pc
    BY <1>1, <2>1 DEF EmitRecord
  <2>4. emit' = [emit EXCEPT ![e] = new]
    BY <1>3, <1>6, <2>1
  <2>5. Received(ev)
    BY <1>4, <1>5, <1>6, HeldIsLogged DEF GoodRun, Received
  <2>6. \A m \in new.event : Received(m)
    BY <1>4, <2>3, <2>5
  <2>7. GoodRun(new.copy)
    BY <1>1, <2>3 DEF RunsFit
  <2> QED
    BY <1>4, <2>2, <2>3, <2>4, <2>6, <2>7, EmitOnlyStep
<1>7. CASE ~Holds(store[r], ev)
  <2>1. PICK new : new = [emit[e] EXCEPT !.left = @ \ {r}, !.pc = "save",
                                         !.run = {r}, !.copy = store[r]]
    OBVIOUS
  <2>2. new \in EmitRecord
    BY <1>1, <1>4, <1>5, <2>1 DEF EmitRecord
  <2>3. /\ new.event = emit[e].event /\ new.copy = store[r]
        /\ new.resumed = emit[e].resumed /\ new.appended = emit[e].appended
    BY <1>1, <2>1 DEF EmitRecord
  <2>4. emit' = [emit EXCEPT ![e] = new]
    BY <1>3, <1>7, <2>1
  <2>5. \A v \in new.event : ~Holds(new.copy, v)
    BY <1>4, <1>7, <2>3
  <2>6. raced \/ \A m \in new.event : new.resumed \/ new.appended => Received(m)
    BY <1>1, <2>3 DEF Honest
  <2> QED
    BY <1>4, <1>5, <2>2, <2>3, <2>4, <2>5, <2>6, EmitOnlyStep
<1> QED
  BY <1>6, <1>7

LEMMA AppendSaveStep ==
    ASSUME MailInv, NEW e \in Emitter, AppendSave(e) PROVE MailStep
<1>1. /\ MailboxTypeOK /\ RunsFit /\ Honest
      /\ emit \in [Emitter -> EmitRecord] /\ emit[e] \in EmitRecord
      /\ store \in [Run -> RunRecord] /\ raced \in BOOLEAN
      /\ stranded \subseteq (Run \X Nat)
  BY DEF MailInv, MailboxTypeOK
<1>2. PICK copy : copy = emit[e].copy
  OBVIOUS
<1>3. /\ emit[e].run \in {{}} \cup {{r} : r \in Run}
      /\ emit[e].event \in {{}} \cup {{ev} : ev \in Event}
      /\ copy \in RunRecord
  BY <1>1, <1>2 DEF EmitRecord
<1>4. PICK r \in emit[e].run, ev \in emit[e].event :
        /\ SaveRun(r, copy, Appended(copy, ev))
        /\ stranded' = IF Appended(copy, ev).status = "waiting"
                       THEN stranded \cup {<<r, Appended(copy, ev).seq>>}
                       ELSE stranded
  BY <1>2 DEF AppendSave
<1>5. PICK new : new = Appended(copy, ev)
  OBVIOUS
<1>6. r \in Run /\ ev \in Event /\ emit[e].event = {ev}
  BY <1>3
<1>7. GoodRun(copy) /\ ~Holds(copy, ev)
  BY <1>1, <1>2 DEF RunsFit, AppendSave
<1>8. /\ new \in RunRecord /\ new.status = copy.status
      /\ new.visible = copy.visible /\ new.declared = copy.declared
  BY <1>3, <1>5, <1>6, <1>7, AppendedFields DEF GoodRun, GoodMail
<1>9. GoodRun(new)
  <2>1. GoodMail(new)
    BY <1>3, <1>5, <1>6, <1>7, AppendedGood DEF GoodRun
  <2> QED
    BY <1>7, <1>8, <2>1 DEF GoodRun, FlagsFit
<1>10. \A m : Got(new, m) <=> Got(copy, m) \/ m = ev
  BY <1>3, <1>5, <1>6, <1>7, AppendedGot DEF GoodRun
<1>11. /\ store' = [store EXCEPT ![r] = new]
       /\ raced' = (raced \/ store[r] # copy)
       /\ stranded' \in {stranded, stranded \cup {<<r, new.seq>>}}
  BY <1>4, <1>5 DEF SaveRun
<1>12. /\ store' \in [Run -> RunRecord]
       /\ \A q \in Run : GoodRun(store'[q])
       /\ (Open(new) => Open(store[r])) => Receivers' \subseteq Receivers
       /\ \A m : (Got(store[r], m) => Got(new, m)) /\ Received(m) => Received(m)'
       /\ \A m : Received(m)' => Received(m) \/ Got(new, m)
  BY <1>1, <1>6, <1>8, <1>9, <1>11, OneUpdate
<1>13. PICK em : em = [emit[e] EXCEPT !.pc = "append", !.run = {},
                                      !.copy = NoRun, !.appended = TRUE]
  OBVIOUS
<1>14. em \in EmitRecord /\ em.pc = "append" /\ em.copy = NoRun
       /\ em.event = {ev}
  BY <1>1, <1>6, <1>13, NoRunGood DEF EmitRecord
<1>15. emit' = [emit EXCEPT ![e] = em] /\ tick' = tick /\ faults' = faults
  BY <1>13 DEF AppendSave
<1>16. /\ emit' \in [Emitter -> EmitRecord] /\ emit'[e] = em
       /\ \A f \in Emitter : f # e => emit'[f] = emit[f]
  BY <1>1, <1>14, <1>15
<1>17. MailboxTypeOK'
  <2>1. stranded' \subseteq (Run \X Nat)
    <3>1. <<r, new.seq>> \in Run \X Nat
      BY <1>6, <1>8, RunFields
    <3> QED
      BY <1>1, <1>11, <3>1
  <2>2. raced' \in BOOLEAN
    BY <1>1, <1>11
  <2> QED
    BY <1>1, <1>12, <1>15, <1>16, <2>1, <2>2 DEF MailboxTypeOK
<1>18. RunsFit'
  <2>1. ASSUME NEW f \in Emitter
        PROVE  /\ GoodRun(emit'[f].copy)
               /\ emit'[f].pc = "save" =>
                    \A v \in emit'[f].event : ~Holds(emit'[f].copy, v)
    <3>1. CASE f # e
      BY <1>1, <1>16, <3>1 DEF RunsFit
    <3>2. CASE f = e
      BY <1>14, <1>16, <3>2, NoRunFits
    <3> QED
      BY <3>1, <3>2
  <2>2. ASSUME NEW q \in Run
        PROVE  /\ GoodRun(store'[q]) /\ GoodRun(tick'[q])
               /\ tick'[q].status # "absent" =>
                    tick'[q].status = "running" /\ tick'[q].declared
    BY <1>1, <1>12, <1>15 DEF RunsFit
  <2> QED
    BY <2>1, <2>2 DEF RunsFit
<1>19. ASSUME ~raced'
       PROVE  /\ \A m : Received(m) => Received(m)'
              /\ \A m : Received(m)' => Received(m) \/ m = ev
              /\ Received(ev)'
              /\ Receivers' \subseteq Receivers
  <2>1. store[r] = copy
    BY <1>11, <1>19
  <2>2. \A m : Received(m) => Received(m)'
    BY <1>10, <1>12, <2>1
  <2>3. \A m : Received(m)' => Received(m) \/ m = ev
    BY <1>6, <1>10, <1>12, <2>1, ReceivedIsGot
  <2>4. Received(ev)'
    <3>1. Got(store'[r], ev)
      BY <1>1, <1>6, <1>10, <1>11
    <3> QED
      BY <1>6, <3>1 DEF Received, Got
  <2>5. Receivers' \subseteq Receivers
    BY <1>8, <1>12, <2>1 DEF Open, Live
  <2> QED
    BY <2>2, <2>3, <2>4, <2>5
<1>20. Honest'
  <2> SUFFICES ASSUME ~raced', NEW f \in Emitter, NEW m \in emit'[f].event,
                      emit'[f].resumed \/ emit'[f].appended
               PROVE  Received(m)'
    BY DEF Honest
  <2>1. CASE f # e
    <3>1. Received(m)
      BY <1>1, <1>11, <1>16, <2>1 DEF Honest
    <3> QED
      BY <1>19, <3>1
  <2>2. CASE f = e
    BY <1>14, <1>16, <1>19, <2>2
  <2> QED
    BY <2>1, <2>2
<1>21. ReceiptStep
  <2>1. ev \in emit'[e].event
    BY <1>14, <1>16
  <2> QED
    BY <1>11, <1>19, <2>1 DEF ReceiptStep
<1>22. ReceiverStep
  BY <1>19 DEF ReceiverStep
<1> QED
  BY <1>17, <1>18, <1>20, <1>21, <1>22 DEF MailStep, MailInv

LEMMA EmitResumeStep ==
    ASSUME MailInv, NEW e \in Emitter, NEW ev \in Event, EmitResume(e, ev)
    PROVE  MailStep /\ emit'[e].event = {ev}
<1>1. /\ MailboxTypeOK /\ RunsFit /\ Honest
      /\ emit \in [Emitter -> EmitRecord] /\ store \in [Run -> RunRecord]
      /\ stranded \subseteq (Run \X Nat) /\ faults \in Nat
  BY DEF MailInv, MailboxTypeOK
<1>2. PICK woken \in SUBSET Parked :
         /\ IF woken = Parked THEN UNCHANGED faults ELSE Fault
         /\ store' = [r \in Run |->
              IF r \in woken THEN [store[r] EXCEPT !.status = "running",
                                                  !.woken = @ \cup {ev}]
              ELSE store[r]]
         /\ emit' = [emit EXCEPT ![e] = [NoEmit EXCEPT !.pc = "list",
                                                       !.event = {ev},
                                                       !.resumed = woken # {}]]
         /\ stranded' = {p \in stranded : p[1] \notin woken}
  BY DEF EmitResume
<1>3. tick' = tick /\ raced' = raced /\ faults' \in Nat
  <2>1. tick' = tick /\ raced' = raced
    BY DEF EmitResume
  <2>2. faults' = faults \/ Fault
    BY <1>2
  <2>3. faults' \in Nat
    BY <1>1, <2>2 DEF Fault
  <2> QED
    BY <2>1, <2>3
<1>4. PICK em : em = [NoEmit EXCEPT !.pc = "list", !.event = {ev},
                                    !.resumed = woken # {}]
  OBVIOUS
<1>5. em \in EmitRecord /\ em.event = {ev} /\ em.copy = NoRun /\ em.pc = "list"
      /\ em.resumed = (woken # {}) /\ em.appended = FALSE
  BY <1>4, NoRunGood DEF NoEmit, EmitRecord
<1>6. /\ emit' \in [Emitter -> EmitRecord] /\ emit'[e] = em
      /\ \A f \in Emitter : f # e => emit'[f] = emit[f]
  BY <1>1, <1>2, <1>4, <1>5
<1>7. ASSUME NEW r \in Run
      PROVE  /\ store'[r] \in RunRecord /\ GoodRun(store'[r])
             /\ Open(store'[r]) => Open(store[r])
             /\ \A m : Got(store'[r], m)
                         <=> Got(store[r], m) \/ (r \in woken /\ m = ev)
  <2>1. store[r] \in RunRecord /\ GoodRun(store[r])
    BY <1>1 DEF RunsFit
  <2>2. CASE r \notin woken
    <3>1. store'[r] = store[r]
      BY <1>2, <2>2
    <3> QED
      BY <2>1, <2>2, <3>1
  <2>3. CASE r \in woken
    <3>1. PICK new : new = [store[r] EXCEPT !.status = "running",
                                            !.woken = @ \cup {ev}]
      OBVIOUS
    <3>2. store'[r] = new
      BY <1>2, <2>3, <3>1
    <3>3. new \in RunRecord
      BY <2>1, <3>1 DEF RunRecord
    <3>4. /\ new.inbox = store[r].inbox /\ new.log = store[r].log
          /\ new.seq = store[r].seq /\ new.dropped = store[r].dropped
          /\ new.woken = store[r].woken \cup {ev} /\ new.status = "running"
          /\ new.visible = store[r].visible
          /\ new.declared = store[r].declared
      BY <2>1, <3>1 DEF RunRecord
    <3>5. GoodMail(new)
      BY <2>1, <3>4, SameMail DEF GoodRun
    <3>6. GoodRun(new)
      BY <2>1, <3>4, <3>5 DEF GoodRun, FlagsFit
    <3>7. store[r].status = "waiting"
      BY <2>3 DEF Parked
    <3>8. Open(new) => Open(store[r])
      BY <3>4, <3>7 DEF Open, Live
    <3>9. \A m : Got(new, m) <=> Got(store[r], m) \/ m = ev
      BY <3>4 DEF Got
    <3> QED
      BY <2>3, <3>2, <3>3, <3>6, <3>8, <3>9
  <2> QED
    BY <2>2, <2>3
<1>8. MailboxTypeOK'
  <2>1. store' \in [Run -> RunRecord]
    <3>1. \A r \in Run : store'[r] \in RunRecord
      BY <1>7
    <3>2. DOMAIN store' = Run /\ store' = [r \in Run |-> store'[r]]
      BY <1>2
    <3> QED
      BY <3>1, <3>2
  <2>2. stranded' \subseteq (Run \X Nat)
    BY <1>1, <1>2
  <2> QED
    BY <1>1, <1>3, <1>6, <2>1, <2>2 DEF MailboxTypeOK
<1>9. RunsFit'
  <2>1. ASSUME NEW f \in Emitter
        PROVE  /\ GoodRun(emit'[f].copy)
               /\ emit'[f].pc = "save" =>
                    \A v \in emit'[f].event : ~Holds(emit'[f].copy, v)
    <3>1. CASE f # e
      BY <1>1, <1>6, <3>1 DEF RunsFit
    <3>2. CASE f = e
      BY <1>5, <1>6, <3>2, NoRunFits
    <3> QED
      BY <3>1, <3>2
  <2>2. ASSUME NEW q \in Run
        PROVE  /\ GoodRun(store'[q]) /\ GoodRun(tick'[q])
               /\ tick'[q].status # "absent" =>
                    tick'[q].status = "running" /\ tick'[q].declared
    BY <1>1, <1>3, <1>7 DEF RunsFit
  <2> QED
    BY <2>1, <2>2 DEF RunsFit
<1>10. /\ \A m : Received(m)' <=> \E r \in Run : Got(store'[r], m)
       /\ \A m : Received(m) => Received(m)'
       /\ \A m : Received(m)' => Received(m) \/ m = ev
       /\ woken # {} => Received(ev)'
  <2>1. \A m : Received(m)' <=> \E r \in Run : Got(store'[r], m)
    BY DEF Received, Got
  <2>2. \A r \in woken : r \in Run
    BY DEF Parked
  <2> QED
    BY <1>7, <2>1, <2>2, ReceivedIsGot
<1>11. Honest'
  <2> SUFFICES ASSUME ~raced', NEW f \in Emitter, NEW m \in emit'[f].event,
                      emit'[f].resumed \/ emit'[f].appended
               PROVE  Received(m)'
    BY DEF Honest
  <2>1. CASE f # e
    BY <1>1, <1>3, <1>6, <1>10, <2>1 DEF Honest
  <2>2. CASE f = e
    BY <1>5, <1>6, <1>10, <2>2
  <2> QED
    BY <2>1, <2>2
<1>12. ReceiptStep
  <2>1. ev \in emit'[e].event
    BY <1>5, <1>6
  <2> QED
    BY <1>3, <1>10, <2>1 DEF ReceiptStep
<1>13. Receivers' \subseteq Receivers
  BY <1>7 DEF Receivers, Open, Live
<1> QED
  BY <1>5, <1>6, <1>8, <1>9, <1>11, <1>12, <1>13
  DEF MailStep, MailInv, ReceiverStep

\* Every step of the runner, with the bridge looking on.
LEMMA RunnerStepKeeps ==
    ASSUME MailInv, RunnerStep
    PROVE  /\ MailStep /\ UNCHANGED bridgeVars
           /\ \A e \in Emitter : emit'[e].event = emit[e].event
<1>1. emit \in [Emitter -> EmitRecord]
  BY DEF MailInv, MailboxTypeOK
<1>2. UNCHANGED bridgeVars
  BY DEF RunnerStep
<1>3. ASSUME NEW e \in Emitter, EmitStep(e)
      PROVE  MailStep /\ \A f \in Emitter : emit'[f].event = emit[f].event
  <2>1. MailStep
    BY <1>3, EmitListStep, AppendLoadStep, AppendSaveStep DEF EmitStep
  <2>2. ASSUME EmitList(e)
        PROVE  \A f \in Emitter : emit'[f].event = emit[f].event
    BY <1>1, <2>2 DEF EmitList, EmitRecord
  <2>3. ASSUME AppendLoad(e)
        PROVE  \A f \in Emitter : emit'[f].event = emit[f].event
    BY <1>1, <2>3 DEF AppendLoad, EmitRecord
  <2>4. ASSUME AppendSave(e)
        PROVE  \A f \in Emitter : emit'[f].event = emit[f].event
    BY <1>1, <2>4 DEF AppendSave, EmitRecord
  <2> QED
    BY <1>3, <2>1, <2>2, <2>3, <2>4 DEF EmitStep
<1>4. ASSUME NEW r \in Run, TickLoad(r) PROVE MailStep /\ emit' = emit
  BY <1>4, TickLoadStep DEF TickLoad
<1>5. ASSUME NEW r \in Run, NEW end \in {"waiting", "ended"}, TickSave(r, end)
      PROVE  MailStep /\ emit' = emit
  BY <1>5, TickSaveStep DEF TickSave
<1>6. ASSUME NEW r \in Run, PauseRun(r) \/ UnpauseRun(r)
      PROVE  MailStep /\ emit' = emit
  BY <1>6, PauseStep DEF PauseRun, UnpauseRun
<1> QED
  BY <1>2, <1>3, <1>4, <1>5, <1>6 DEF RunnerStep

-----------------------------------------------------------------------------
(* The bridge.                                                             *)

USE BridgeAssumption

BridgeType ==
    /\ posted \in Cursor /\ saved \in Cursor /\ cursors \in Cursor
    /\ top \in Cursor /\ at \in Cursor
    /\ phase \in {"down", "ensure", "seed", "poll", "batch", "deliver"}
    /\ failed \subseteq Channel
    /\ fresh \in BOOLEAN

LooksType == unseen \in BOOLEAN /\ extra \subseteq Run

\* One receiver at most but for the extra ones, and none while the start
\* seeds one, unless its look missed it.
OneReceiver ==
    raced \/ /\ \A q, r \in Receivers \ extra : q = r
             /\ phase = "seed" => Receivers = {} \/ unseen

\* The message in delivery is the next one of its channel, on a channel that
\* has not failed; the other channels of a batch are not past their cursor
\* unless they failed.
BatchInOrder ==
    /\ \A c \in Channel, s \in 1..MaxSeq :
         <<c, s>> \in emit["bridge"].event =>
           /\ phase = "deliver" /\ c \notin failed
           /\ s = at[c] /\ at[c] = cursors[c] + 1
    /\ phase \notin {"batch", "deliver"} => at = Zero
    /\ \A c \in Channel :
         c \notin failed /\ (\A s \in 1..MaxSeq : <<c, s>> \notin emit["bridge"].event)
           => at[c] <= cursors[c]

BridgeInv ==
    /\ BridgeType /\ LooksType /\ MailInv /\ OneReceiver /\ BatchInOrder
    /\ CursorBehindReceipt /\ ChannelOrderKept

\* What every step has to show: receipts and cursors move together.
BatchStep == BridgeType' /\ BatchInOrder' /\ CursorBehindReceipt'

LEMMA ZeroIsCursor == Zero \in Cursor /\ \A c \in Channel : Zero[c] = 0
BY DEF Zero, Cursor

LEMMA ClearedBatch ==
    ASSUME BridgeType', at' = Zero,
           \A c \in Channel, s \in 1..MaxSeq : <<c, s>> \notin emit'["bridge"].event
    PROVE  BatchInOrder'
<1>1. \A c \in Channel : at'[c] = 0 /\ cursors'[c] \in Nat
  BY ZeroIsCursor DEF BridgeType, Cursor
<1>2. \A c \in Channel : at'[c] <= cursors'[c]
  BY <1>1
<1> QED
  BY <1>2 DEF BatchInOrder

\* A cursor moves only to where a cursor was, or behind what a run received.
LEMMA CursorKept ==
    ASSUME CursorBehindReceipt, ReceiptStep,
           \A c \in Channel, s \in 1..MaxSeq :
             s <= saved'[c] \/ s <= cursors'[c] =>
               \/ s <= saved[c] \/ s <= cursors[c]
               \/ raced' \/ Received(<<c, s>>)'
    PROVE  CursorBehindReceipt'
<1> SUFFICES ASSUME ~raced', NEW c \in Channel, NEW s \in 1..MaxSeq,
                    s <= saved'[c] \/ s <= cursors'[c]
             PROVE  Received(<<c, s>>)'
  BY DEF CursorBehindReceipt
<1>1. <<c, s>> \in Event
  BY DEF Message
<1>2. CASE s <= saved[c] \/ s <= cursors[c]
  <2>1. Received(<<c, s>>)
    BY <1>2 DEF CursorBehindReceipt, ReceiptStep
  <2> QED
    BY <1>1, <2>1 DEF ReceiptStep
<1> QED
  BY <1>2

\* The order of receipts follows from the batch and the cursor.
LEMMA OrderKept ==
    ASSUME ChannelOrderKept, ReceiptStep, BatchInOrder', BridgeType',
           CursorBehindReceipt'
    PROVE  ChannelOrderKept'
<1> SUFFICES ASSUME ~raced', NEW c \in Channel, NEW s \in 1..MaxSeq,
                    Received(<<c, s>>)', NEW u \in 1..(s - 1)
             PROVE  Received(<<c, u>>)'
  BY DEF ChannelOrderKept
<1>1. u \in 1..MaxSeq
  OBVIOUS
<1>2. <<c, s>> \in Event /\ <<c, u>> \in Event
  BY <1>1 DEF Message
<1>3. CASE Received(<<c, s>>)
  <2>1. Received(<<c, u>>)
    BY <1>3 DEF ChannelOrderKept, ReceiptStep
  <2> QED
    BY <1>2, <2>1 DEF ReceiptStep
<1>4. CASE ~Received(<<c, s>>)
  <2>1. <<c, s>> \in emit'["bridge"].event
    BY <1>2, <1>4 DEF ReceiptStep
  <2>2. s = cursors'[c] + 1
    BY <2>1 DEF BatchInOrder
  <2>3. cursors'[c] \in Int
    BY DEF BridgeType, Cursor
  <2>4. u <= cursors'[c]
    BY <2>2, <2>3
  <2> QED
    BY <1>1, <2>4 DEF CursorBehindReceipt
<1> QED
  BY <1>3, <1>4

\* Nobody becomes a receiver, and a seed starts with none it has seen.
LEMMA ReceiverKept ==
    ASSUME OneReceiver, raced => raced', ReceiverStep, extra' = extra,
           phase' = "seed" => \/ phase = "seed" /\ unseen' = unseen
                              \/ Receivers = {} \/ unseen'
    PROVE  OneReceiver'
BY DEF OneReceiver, ReceiverStep

LEMMA LooksStep == LooksType /\ [Next]_vars => LooksType'
<1> SUFFICES ASSUME LooksType, [Next]_vars PROVE LooksType'
  OBVIOUS
<1>1. CASE UNCHANGED looks
  BY <1>1 DEF looks, LooksType
<1>2. CASE EnsureResident
  <2>1. unseen' = unseen \/ unseen' = (Receivers # {})
    BY <1>2 DEF EnsureResident
  <2>2. (Receivers # {}) \in BOOLEAN
    OBVIOUS
  <2>3. extra' = extra
    BY <1>2 DEF EnsureResident
  <2> QED
    BY <2>1, <2>2, <2>3 DEF LooksType
<1>3. CASE SeedResident
  <2>1. extra' = extra \/ \E r \in Run : extra' = extra \cup {r}
    BY <1>3 DEF SeedResident
  <2>2. unseen' = FALSE
    BY <1>3 DEF SeedResident
  <2> QED
    BY <2>1, <2>2 DEF LooksType
<1>4. CASE Stop \/ Crash
  BY <1>4 DEF Stop, Crash, Down, LooksType
<1>5. CASE RunnerStep
  BY <1>1, <1>5 DEF RunnerStep, bridgeVars
<1>6. CASE LoadState \/ Poll \/ EndBatch \/ \E c \in Channel : Post(c) \/ Deliver(c)
  BY <1>1, <1>6 DEF LoadState, Poll, EndBatch, Post, Deliver
<1>7. CASE Delivery \/ DeliveryRaises
  BY <1>1, <1>7 DEF Delivery, DeliveryRaises, Settle
<1>8. CASE UNCHANGED vars
  BY <1>1, <1>8 DEF vars, bridgeVars
<1> QED
  BY <1>2, <1>3, <1>4, <1>5, <1>6, <1>7, <1>8 DEF Next, BridgeStep

\* Between batches nothing is in delivery.
LEMMA NothingInDelivery ==
    ASSUME BatchInOrder, phase # "deliver"
    PROVE  \A c \in Channel, s \in 1..MaxSeq : <<c, s>> \notin emit["bridge"].event
BY DEF BatchInOrder

\* Steps outside a batch: the hub, the start and the poll.
LEMMA IdleSteps ==
    ASSUME BridgeInv,
           LoadState \/ EnsureResident \/ SeedResident \/ Poll
           \/ \E c \in Channel : Post(c),
           ReceiptStep
    PROVE  BatchStep
<1>1. BridgeType /\ BatchInOrder /\ CursorBehindReceipt
  BY DEF BridgeInv
<1>2. /\ phase \notin {"batch", "deliver"} /\ at' = at /\ emit' = emit
      /\ saved' = saved /\ cursors' \in {cursors, saved, Zero}
  BY DEF LoadState, EnsureResident, SeedResident, Poll, Post, mailboxVars
<1>3. /\ posted' = posted \/ \E c \in Channel : posted[c] < MaxSeq
                               /\ posted' = [posted EXCEPT ![c] = @ + 1]
      /\ top' \in {top, posted} /\ failed' \in {failed, {}} /\ fresh' = fresh
      /\ phase' \in {"ensure", "seed", "poll", "batch"}
  BY DEF LoadState, EnsureResident, SeedResident, Poll, Post, mailboxVars
<1>4. BridgeType'
  <2>1. posted' \in Cursor
    <3>1. CASE posted' = posted
      BY <1>1, <3>1 DEF BridgeType
    <3>2. ASSUME NEW c \in Channel, posted[c] < MaxSeq,
                 posted' = [posted EXCEPT ![c] = @ + 1]
          PROVE  posted' \in Cursor
      <4>1. posted \in [Channel -> 0..MaxSeq] /\ posted[c] + 1 \in 0..MaxSeq
        BY <1>1, <3>2 DEF BridgeType, Cursor
      <4> QED
        BY <3>2, <4>1 DEF Cursor
    <3> QED
      BY <1>3, <3>1, <3>2
  <2> QED
    BY <1>1, <1>2, <1>3, <2>1, ZeroIsCursor DEF BridgeType
<1>5. at' = Zero
  BY <1>1, <1>2 DEF BatchInOrder
<1>6. BatchInOrder'
  BY <1>1, <1>2, <1>4, <1>5, NothingInDelivery, ClearedBatch
<1>7. CursorBehindReceipt'
  <2>1. ASSUME NEW c \in Channel, NEW s \in 1..MaxSeq, s <= Zero[c] PROVE FALSE
    BY <2>1, ZeroIsCursor
  <2> QED
    BY <1>1, <1>2, <2>1, CursorKept
<1> QED
  BY <1>4, <1>6, <1>7 DEF BatchStep

\* The end of a batch and of the process.
LEMMA EndSteps ==
    ASSUME BridgeInv, EndBatch \/ Stop \/ Crash, ReceiptStep
    PROVE  BatchStep
<1>1. BridgeType /\ BatchInOrder /\ CursorBehindReceipt
  BY DEF BridgeInv
<1>2. /\ at' = Zero /\ top' = Zero /\ posted' = posted /\ fresh' = FALSE
      /\ saved' \in {saved, cursors} /\ cursors' \in {cursors, Zero}
      /\ failed' \in {failed, {}} /\ phase' \in {"poll", "down"}
  BY DEF EndBatch, Stop, Crash, Down
<1>3. BridgeType'
  BY <1>1, <1>2, ZeroIsCursor DEF BridgeType
<1>4. \A c \in Channel, s \in 1..MaxSeq : <<c, s>> \notin emit'["bridge"].event
  <2>1. CASE EndBatch
    BY <1>1, <2>1, NothingInDelivery DEF EndBatch
  <2>2. CASE Stop \/ Crash
    <3>1. emit'["bridge"] = NoEmit
      BY <2>2 DEF Stop, Crash, Down
    <3> QED
      BY <3>1, NoEmitFits
  <2> QED
    BY <2>1, <2>2
<1>5. BatchInOrder'
  BY <1>2, <1>3, <1>4, ClearedBatch
<1>6. CursorBehindReceipt'
  <2>1. ASSUME NEW c \in Channel, NEW s \in 1..MaxSeq, s <= Zero[c] PROVE FALSE
    BY <2>1, ZeroIsCursor
  <2> QED
    BY <1>1, <1>2, <2>1, CursorKept
<1> QED
  BY <1>3, <1>5, <1>6 DEF BatchStep

LEMMA RunnerBatch ==
    ASSUME BridgeInv, UNCHANGED bridgeVars, ReceiptStep,
           \A e \in Emitter : emit'[e].event = emit[e].event
    PROVE  BatchStep
<1>1. BridgeType /\ BatchInOrder /\ CursorBehindReceipt
  BY DEF BridgeInv
<1>2. emit'["bridge"].event = emit["bridge"].event
  OBVIOUS
<1>3. BridgeType' /\ BatchInOrder'
  BY <1>1, <1>2 DEF BridgeType, BatchInOrder, bridgeVars
<1>4. CursorBehindReceipt'
  BY <1>1, CursorKept DEF bridgeVars
<1> QED
  BY <1>3, <1>4 DEF BatchStep

LEMMA DeliverBatch ==
    ASSUME BridgeInv, NEW c \in Channel, Deliver(c)
    PROVE  MailStep /\ BatchStep
<1>1. BridgeType /\ BatchInOrder /\ CursorBehindReceipt /\ MailInv
  BY DEF BridgeInv
<1>2. PICK s \in Unsent(c) :
         /\ \A u \in Unsent(c) : s <= u
         /\ EmitResume("bridge", <<c, s>>)
         /\ at' = [at EXCEPT ![c] = s]
  BY DEF Deliver
<1>3. /\ phase = "batch" /\ phase' = "deliver"
      /\ UNCHANGED <<posted, saved, cursors, top, failed, fresh>>
  BY DEF Deliver
<1>4. /\ at \in Cursor /\ at[c] \in 0..MaxSeq /\ cursors[c] \in 0..MaxSeq
      /\ top[c] \in 0..MaxSeq
  BY <1>1 DEF BridgeType, Cursor
<1>5. c \notin failed /\ s \in (at[c] + 1)..top[c] /\ s > cursors[c]
      /\ Unsent(c) = {u \in (at[c] + 1)..top[c] : u > cursors[c]}
  BY <1>2 DEF Unsent
<1>6. at[c] <= cursors[c]
  BY <1>1, <1>3, <1>5, NothingInDelivery DEF BatchInOrder
<1>7. s = cursors[c] + 1 /\ s \in 1..MaxSeq
  <2>1. cursors[c] + 1 \in Unsent(c)
    BY <1>4, <1>5, <1>6
  <2>2. s <= cursors[c] + 1
    BY <1>2, <2>1
  <2> QED
    BY <1>4, <1>5, <2>2
<1>8. <<c, s>> \in Event
  BY <1>7 DEF Message
<1>9. MailStep /\ emit'["bridge"].event = {<<c, s>>}
  BY <1>1, <1>2, <1>8, EmitResumeStep
<1>10. /\ at' \in Cursor /\ at'[c] = s
       /\ \A d \in Channel : d # c => at'[d] = at[d]
  BY <1>2, <1>4, <1>7 DEF Cursor
<1>11. BridgeType'
  BY <1>1, <1>3, <1>10 DEF BridgeType
<1>12. BatchInOrder'
  <2>1. ASSUME NEW d \in Channel, NEW t \in 1..MaxSeq,
               <<d, t>> \in emit'["bridge"].event
        PROVE  /\ phase' = "deliver" /\ d \notin failed'
               /\ t = at'[d] /\ at'[d] = cursors'[d] + 1
    <3>1. d = c /\ t = s
      BY <1>9, <2>1
    <3> QED
      BY <1>3, <1>5, <1>7, <1>10, <3>1
  <2>2. ASSUME NEW d \in Channel, d \notin failed',
               \A t \in 1..MaxSeq : <<d, t>> \notin emit'["bridge"].event
        PROVE  at'[d] <= cursors'[d]
    <3>1. d # c
      BY <1>7, <1>9, <2>2
    <3>2. at[d] <= cursors[d]
      BY <1>1, <1>3, <2>2, NothingInDelivery DEF BatchInOrder
    <3> QED
      BY <1>3, <1>10, <3>1, <3>2
  <2> QED
    BY <1>3, <2>1, <2>2 DEF BatchInOrder
<1>13. CursorBehindReceipt'
  BY <1>1, <1>3, <1>9, CursorKept DEF MailStep
<1> QED
  BY <1>9, <1>11, <1>12, <1>13 DEF BatchStep

\* The outcome of a delivery: the cursor passes what somebody received.
LEMMA SettleBatch ==
    ASSUME BridgeInv, Delivery \/ DeliveryRaises
    PROVE  MailStep /\ BatchStep
<1>1. BridgeType /\ BatchInOrder /\ CursorBehindReceipt /\ MailInv
  BY DEF BridgeInv
<1>2. PICK c \in Channel, ok \in BOOLEAN :
        /\ emit["bridge"].event = {<<c, at[c]>>}
        /\ Settle(c, ok)
        /\ ok => emit["bridge"].resumed \/ emit["bridge"].appended
  <2>1. CASE DeliveryRaises
    BY <2>1 DEF DeliveryRaises
  <2>2. CASE Delivery
    <3>1. PICK c \in Channel : /\ emit["bridge"].event = {<<c, at[c]>>}
                               /\ Settle(c, Delivered("bridge"))
      BY <2>2 DEF Delivery
    <3>2. Delivered("bridge") \in BOOLEAN
      BY DEF Delivered
    <3> QED
      BY <3>1, <3>2 DEF Delivered
  <2> QED
    BY <2>1, <2>2
<1>3. faults \in Nat /\ emit \in [Emitter -> EmitRecord]
      /\ emit["bridge"] \in EmitRecord
  BY <1>1 DEF MailInv, MailboxTypeOK
<1>4. faults' \in Nat
  <2>1. faults' = faults \/ Fault
    BY DEF Delivery, DeliveryRaises
  <2> QED
    BY <1>3, <2>1 DEF Fault
<1>5. emit' = [e \in Emitter |-> NoEmit]
  BY <1>2, <1>3 DEF Settle
<1>6. Still
  BY <1>2, <1>4, <1>5 DEF Still, Settle
<1>7. MailStep
  BY <1>1, <1>6, StillStep
<1>8. <<c, at[c]>> \in Event /\ at[c] \in 1..MaxSeq
  <2>1. emit["bridge"].event \in {{}} \cup {{ev} : ev \in Event}
    BY <1>3 DEF EmitRecord
  <2>2. <<c, at[c]>> \in Event
    BY <1>2, <2>1
  <2> QED
    BY <2>2 DEF Message
<1>9. phase = "deliver" /\ c \notin failed /\ at[c] = cursors[c] + 1
  BY <1>1, <1>2, <1>8 DEF BatchInOrder
<1>10. \A d \in Channel : d \notin failed /\ d # c => at[d] <= cursors[d]
  <2> SUFFICES ASSUME NEW d \in Channel, d \notin failed, d # c
               PROVE  at[d] <= cursors[d]
    OBVIOUS
  <2>1. \A s \in 1..MaxSeq : <<d, s>> \notin emit["bridge"].event
    BY <1>2
  <2> QED
    BY <1>1, <2>1 DEF BatchInOrder
<1>11. /\ phase' = "batch" /\ at' = at /\ saved' = saved /\ top' = top
       /\ posted' = posted
       /\ IF ok THEN /\ cursors' = [cursors EXCEPT ![c] = at[c]]
                     /\ fresh' = TRUE /\ failed' = failed
          ELSE /\ cursors' = cursors /\ fresh' = fresh
               /\ failed' = failed \cup {c}
  BY <1>2 DEF Settle
<1>12. \A e \in Emitter : emit'[e].event = {}
  BY <1>5, NoEmitFits
<1>13. cursors \in [Channel -> 0..MaxSeq] /\ at \in [Channel -> 0..MaxSeq]
  BY <1>1 DEF BridgeType, Cursor
<1>14. cursors' \in Cursor
       /\ \A d \in Channel : cursors'[d] = IF ok /\ d = c THEN at[c]
                                           ELSE cursors[d]
  BY <1>8, <1>11, <1>13 DEF Cursor
<1>15. BridgeType'
  BY <1>1, <1>11, <1>14 DEF BridgeType
<1>16. BatchInOrder'
  <2>1. \A d \in Channel, s \in 1..MaxSeq : <<d, s>> \notin emit'["bridge"].event
    BY <1>12
  <2>2. ASSUME NEW d \in Channel, d \notin failed' PROVE at'[d] <= cursors'[d]
    <3>1. CASE d # c
      BY <1>10, <1>11, <1>14, <2>2, <3>1
    <3>2. CASE d = c
      BY <1>8, <1>11, <1>14, <2>2, <3>2
    <3> QED
      BY <3>1, <3>2
  <2> QED
    BY <1>11, <2>1, <2>2 DEF BatchInOrder
<1>17. CursorBehindReceipt'
  <2>1. ReceiptStep
    BY <1>7 DEF MailStep
  <2>2. ASSUME NEW d \in Channel, NEW s \in 1..MaxSeq,
               s <= saved'[d] \/ s <= cursors'[d]
        PROVE  \/ s <= saved[d] \/ s <= cursors[d]
               \/ raced' \/ Received(<<d, s>>)'
    <3> SUFFICES ASSUME ~(s <= saved[d]), ~(s <= cursors[d]), ~raced'
                 PROVE  Received(<<d, s>>)'
      OBVIOUS
    <3>1. ok /\ d = c /\ s <= at[c]
      BY <1>11, <1>14, <2>2
    <3>2. s = at[c]
      BY <1>9, <1>13, <3>1
    <3>3. Received(<<c, at[c]>>)
      BY <1>1, <1>2, <1>6, <3>1 DEF MailInv, Honest, Still
    <3> QED
      BY <1>8, <2>1, <3>1, <3>2, <3>3 DEF ReceiptStep
  <2> QED
    BY <1>1, <2>1, <2>2, CursorKept
<1> QED
  BY <1>7, <1>15, <1>16, <1>17 DEF BatchStep

\* The start of a run that nobody sees yet.
LEMMA EnsureStep ==
    ASSUME BridgeInv, EnsureResident PROVE MailStep
<1>1. MailInv
  BY DEF BridgeInv
<1>2. /\ store \in [Run -> RunRecord] /\ raced \in BOOLEAN /\ faults \in Nat
      /\ RunsFit
  BY <1>1 DEF MailInv, MailboxTypeOK
<1>3. UNCHANGED <<tick, emit, raced, stranded>>
  BY DEF EnsureResident
<1>f. faults' \in Nat
  BY <1>2 DEF EnsureResident, Fault
<1>4. CASE store' = store
  <2>1. Still
    BY <1>f, <1>3, <1>4 DEF Still
  <2> QED
    BY <1>1, <2>1, StillStep
<1>5. ASSUME NEW r \in Run, store[r].status = "absent",
             store' = [store EXCEPT ![r].status = "running"]
      PROVE  MailStep
  <2>1. PICK new : new = [store[r] EXCEPT !.status = "running"]
    OBVIOUS
  <2>2. store' = [store EXCEPT ![r] = new]
    BY <1>5, <2>1
  <2>3. store[r] \in RunRecord /\ GoodRun(store[r])
    BY <1>2 DEF RunsFit
  <2>4. new \in RunRecord
    BY <2>1, <2>3 DEF RunRecord
  <2>5. /\ new.inbox = store[r].inbox /\ new.log = store[r].log
        /\ new.seq = store[r].seq /\ new.dropped = store[r].dropped
        /\ new.woken = store[r].woken /\ new.visible = store[r].visible
        /\ new.declared = store[r].declared /\ new.status = "running"
    BY <2>1, <2>3 DEF RunRecord
  <2>6. GoodMail(new)
    BY <2>3, <2>5, SameMail DEF GoodRun
  <2>7. GoodRun(new)
    BY <2>3, <2>5, <2>6 DEF GoodRun, FlagsFit
  <2>8. ~new.declared
    BY <1>5, <2>3, <2>5 DEF GoodRun, FlagsFit
  <2>9. Open(new) => Open(store[r])
    BY <2>8 DEF Open
  <2> QED
    BY <1>1, <1>2, <1>3, <1>f, <2>2, <2>4, <2>5, <2>7, <2>9, SaveStep
<1> QED
  BY <1>4, <1>5 DEF EnsureResident

\* The seed makes its run the only receiver, or an extra one.
LEMMA SeedStep ==
    ASSUME BridgeInv, SeedResident
    PROVE  MailInv' /\ ReceiptStep /\ OneReceiver'
<1>1. MailInv /\ OneReceiver
  BY DEF BridgeInv
<1>2. /\ store \in [Run -> RunRecord] /\ raced \in BOOLEAN /\ faults \in Nat
      /\ RunsFit
  BY <1>1 DEF MailInv, MailboxTypeOK
<1>3. /\ UNCHANGED <<tick, emit, raced, stranded>> /\ phase = "seed"
      /\ phase' = "poll"
  BY DEF SeedResident
<1>4. faults' \in Nat
  BY <1>2 DEF SeedResident, Fault
<1>5. CASE store' = store /\ extra' = extra
  <2>1. Still
    BY <1>3, <1>4, <1>5 DEF Still
  <2>2. MailStep
    BY <1>1, <2>1, StillStep
  <2> QED
    BY <1>1, <1>3, <1>5, <2>2, ReceiverKept DEF MailStep
<1>6. ASSUME NEW r \in Run, store[r].status = "running",
             store' = [store EXCEPT ![r].visible = TRUE, ![r].declared = TRUE],
             extra' = IF unseen THEN extra \cup {r} ELSE extra
      PROVE  MailInv' /\ ReceiptStep /\ OneReceiver'
  <2>1. PICK new : new = [store[r] EXCEPT !.visible = TRUE, !.declared = TRUE]
    OBVIOUS
  <2>2. store' = [store EXCEPT ![r] = new]
    BY <1>2, <1>6, <2>1
  <2>3. store[r] \in RunRecord /\ GoodRun(store[r])
    BY <1>2 DEF RunsFit
  <2>4. new \in RunRecord
    BY <2>1, <2>3 DEF RunRecord
  <2>5. /\ new.inbox = store[r].inbox /\ new.log = store[r].log
        /\ new.seq = store[r].seq /\ new.dropped = store[r].dropped
        /\ new.woken = store[r].woken /\ new.visible = TRUE
        /\ new.declared = TRUE /\ new.status = store[r].status
    BY <2>1, <2>3 DEF RunRecord
  <2>6. GoodMail(new)
    BY <2>3, <2>5, SameMail DEF GoodRun
  <2>7. GoodRun(new)
    BY <1>6, <2>5, <2>6 DEF GoodRun, FlagsFit
  <2>8. MailInv' /\ ReceiptStep
    BY <1>1, <1>2, <1>3, <1>4, <2>2, <2>4, <2>5, <2>7, SaveStep
  <2>9. \A q \in Run : q # r => store'[q] = store[q]
    BY <1>2, <2>2
  <2>10. Receivers' \subseteq Receivers \cup {r}
    BY <2>9 DEF Receivers, Live
  <2>11. raced' = raced /\ phase' # "seed"
    BY <1>3
  <2>12. CASE unseen
    <3>1. Receivers' \ extra' \subseteq Receivers \ extra
      BY <1>6, <2>10, <2>12
    <3> QED
      BY <1>1, <2>8, <2>11, <3>1 DEF OneReceiver
  <2>13. CASE ~unseen
    <3>1. raced \/ Receivers' \subseteq {r}
      BY <1>1, <1>3, <2>10, <2>13 DEF OneReceiver
    <3> QED
      BY <2>8, <2>11, <3>1 DEF OneReceiver
  <2> QED
    BY <2>8, <2>12, <2>13
<1> QED
  BY <1>5, <1>6 DEF SeedResident

\* The other steps of the bridge save no run.
LEMMA QuietSteps ==
    ASSUME MailInv,
           LoadState \/ Poll \/ EndBatch \/ Stop \/ Crash
           \/ \E c \in Channel : Post(c)
    PROVE  MailStep
<1>1. faults \in Nat
  BY DEF MailInv, MailboxTypeOK
<1>2. faults' = faults \/ Fault
  BY DEF LoadState, Poll, EndBatch, Stop, Crash, Down, Post, mailboxVars
<1>3. faults' \in Nat
  BY <1>1, <1>2 DEF Fault
<1>4. /\ store' = store /\ raced' = raced /\ stranded' = stranded
      /\ tick' = tick \/ tick' = [r \in Run |-> NoRun]
      /\ emit' = emit \/ emit' = [e \in Emitter |-> NoEmit]
  BY DEF LoadState, Poll, EndBatch, Stop, Crash, Down, Post, mailboxVars
<1> QED
  BY <1>3, <1>4, StillStep DEF Still

LEMMA BridgeInit == Init => BridgeInv
<1> SUFFICES ASSUME Init PROVE BridgeInv
  OBVIOUS
<1>1. /\ store = [r \in Run |-> NoRun] /\ tick = [r \in Run |-> NoRun]
      /\ emit = [e \in Emitter |-> NoEmit] /\ raced = FALSE
      /\ stranded = {} /\ faults = 0
  BY DEF Init, MailboxInit
<1>2. /\ posted = Zero /\ saved = Zero /\ cursors = Zero /\ top = Zero
      /\ at = Zero /\ phase = "down" /\ failed = {} /\ fresh = FALSE
      /\ unseen = FALSE /\ extra = {}
  BY DEF Init
<1>3. BridgeType /\ LooksType
  BY <1>2, ZeroIsCursor DEF BridgeType, LooksType
<1>4. \A e \in Emitter : emit[e].event = {} /\ emit[e].copy = NoRun
                         /\ emit[e].pc = "idle"
  BY <1>1, NoEmitFits
<1>5. MailboxTypeOK
  BY <1>1, NoRunGood, NoEmitFits DEF MailboxTypeOK
<1>6. RunsFit
  BY <1>1, <1>4, NoRunFits DEF RunsFit
<1>7. Honest
  BY <1>4 DEF Honest
<1>8. \A r \in Run : store[r].status = "absent"
  BY <1>1, NoRunFits
<1>9. Receivers = {}
  BY <1>8 DEF Receivers, Live
<1>10. OneReceiver
  BY <1>2, <1>9 DEF OneReceiver
<1>11. BatchInOrder
  <2>1. \A c \in Channel : at[c] <= cursors[c]
    BY <1>2, ZeroIsCursor
  <2> QED
    BY <1>2, <1>4, <2>1 DEF BatchInOrder
<1>12. CursorBehindReceipt
  BY <1>2, ZeroIsCursor DEF CursorBehindReceipt
<1>13. \A m : ~Received(m)
  <2>1. \A r \in Run : store[r].log = <<>> /\ store[r].woken = {}
    BY <1>1 DEF NoRun
  <2> QED
    BY <2>1 DEF Received
<1>14. ChannelOrderKept
  BY <1>13 DEF ChannelOrderKept
<1> QED
  BY <1>3, <1>5, <1>6, <1>7, <1>10, <1>11, <1>12, <1>14 DEF BridgeInv, MailInv

LEMMA BridgeNext == BridgeInv /\ [Next]_vars => BridgeInv'
<1> SUFFICES ASSUME BridgeInv, [Next]_vars PROVE BridgeInv'
  OBVIOUS
<1>1. /\ BridgeType /\ MailInv /\ OneReceiver /\ BatchInOrder
      /\ CursorBehindReceipt /\ ChannelOrderKept
  BY DEF BridgeInv
<1>l. LooksType'
  BY LooksStep DEF BridgeInv
<1>2. ASSUME MailInv', ReceiptStep, BatchStep, OneReceiver' PROVE BridgeInv'
  <2>1. ChannelOrderKept'
    BY <1>1, <1>2, OrderKept DEF BatchStep
  <2> QED
    BY <1>l, <1>2, <2>1 DEF BridgeInv, BatchStep
<1>3. ASSUME MailStep, BatchStep, extra' = extra,
             phase' = "seed" => \/ phase = "seed" /\ unseen' = unseen
                                \/ Receivers = {} \/ unseen'
      PROVE  BridgeInv'
  <2>1. MailInv' /\ ReceiptStep /\ ReceiverStep
    BY <1>3 DEF MailStep
  <2>2. raced => raced'
    BY <2>1 DEF ReceiptStep
  <2>3. OneReceiver'
    BY <1>1, <1>3, <2>1, <2>2, ReceiverKept
  <2> QED
    BY <1>2, <1>3, <2>1, <2>3
<1>4. CASE RunnerStep
  <2>1. /\ MailStep /\ UNCHANGED bridgeVars
        /\ \A e \in Emitter : emit'[e].event = emit[e].event
    BY <1>1, <1>4, RunnerStepKeeps
  <2>2. BatchStep
    BY <2>1, RunnerBatch DEF MailStep
  <2> QED
    BY <1>3, <2>1, <2>2 DEF bridgeVars, looks
<1>5. CASE LoadState \/ Poll \/ \E c \in Channel : Post(c)
  <2>1. MailStep
    BY <1>1, <1>5, QuietSteps
  <2>2. BatchStep
    BY <1>5, <2>1, IdleSteps DEF MailStep
  <2>3. phase' # "seed" /\ extra' = extra
    BY <1>5 DEF LoadState, Poll, Post, looks
  <2> QED
    BY <1>3, <2>1, <2>2, <2>3
<1>6. CASE EnsureResident
  <2>1. MailStep
    BY <1>6, EnsureStep
  <2>2. BatchStep
    BY <1>6, <2>1, IdleSteps DEF MailStep
  <2>3. /\ phase' = "seed" => Receivers = {} \/ unseen'
        /\ extra' = extra
    BY <1>6 DEF EnsureResident
  <2> QED
    BY <1>3, <2>1, <2>2, <2>3
<1>7. CASE SeedResident
  <2>1. MailInv' /\ ReceiptStep /\ OneReceiver'
    BY <1>7, SeedStep
  <2>2. BatchStep
    BY <1>7, <2>1, IdleSteps
  <2> QED
    BY <1>2, <2>1, <2>2
<1>8. CASE \E c \in Channel : Deliver(c)
  <2>1. MailStep /\ BatchStep
    BY <1>8, DeliverBatch
  <2>2. phase' # "seed" /\ extra' = extra
    BY <1>8 DEF Deliver, looks
  <2> QED
    BY <1>3, <2>1, <2>2
<1>9. CASE Delivery \/ DeliveryRaises
  <2>1. MailStep /\ BatchStep
    BY <1>9, SettleBatch
  <2>2. phase' # "seed" /\ extra' = extra
    BY <1>9 DEF Delivery, DeliveryRaises, Settle, looks
  <2> QED
    BY <1>3, <2>1, <2>2
<1>10. CASE EndBatch \/ Stop \/ Crash
  <2>1. MailStep
    BY <1>1, <1>10, QuietSteps
  <2>2. BatchStep
    BY <1>10, <2>1, EndSteps DEF MailStep
  <2>3. phase' # "seed" /\ extra' = extra
    BY <1>10 DEF EndBatch, Stop, Crash, Down, looks
  <2> QED
    BY <1>3, <2>1, <2>2, <2>3
<1>11. CASE UNCHANGED vars
  <2>1. Still
    BY <1>1, <1>11 DEF Still, vars, mailboxVars, MailInv, MailboxTypeOK
  <2>2. MailStep
    BY <1>1, <2>1, StillStep
  <2>3. UNCHANGED bridgeVars /\ emit' = emit
    BY <1>11 DEF vars, mailboxVars
  <2>4. BatchStep
    BY <2>2, <2>3, RunnerBatch DEF MailStep
  <2> QED
    BY <1>3, <2>2, <2>3, <2>4 DEF bridgeVars, looks
<1> QED
  BY <1>4, <1>5, <1>6, <1>7, <1>8, <1>9, <1>10, <1>11 DEF Next, BridgeStep

LEMMA BridgeInvHolds == Spec => []BridgeInv
BY BridgeInit, BridgeNext, PTL DEF Spec

-----------------------------------------------------------------------------
\* Every variable of the mailboxes and of the bridge keeps its type: inboxes
\* are sequences of numbered entries, cursors stay within the channel
\* (runner.py:2826, agora_bridge.py:408).
THEOREM MailboxTypeCorrect == Spec => []TypeOK
<1>1. BridgeInv => TypeOK
  BY DEF BridgeInv, BridgeType, LooksType, MailInv, TypeOK
<1> QED
  BY <1>1, BridgeInvHolds, PTL

\* The reader of a mailbox finds exactly the newest part of what was
\* appended, numbered without a gap, with everything missing counted
\* (runner.py:2860-2878).
THEOREM InboxIsTheTailHolds == Spec => []InboxIsTheTail
<1>1. BridgeInv => InboxIsTheTail
  BY DEF BridgeInv, MailInv, RunsFit, GoodRun, GoodMail, MailShape, InboxIsTheTail
<1> QED
  BY <1>1, BridgeInvHolds, PTL

\* An event is appended again only when Cap later ones have pushed it out,
\* for any number of re-sent batches, crashes and overwriting saves
\* (runner.py:2854, the bounded scan for event_id).
THEOREM RepeatsAreFarApartHolds == Spec => []RepeatsAreFarApart
<1>1. BridgeInv => RepeatsAreFarApart
  BY DEF BridgeInv, MailInv, RunsFit, GoodRun, GoodMail, Apart, RepeatsAreFarApart
<1> QED
  BY <1>1, BridgeInvHolds, PTL

\* The cursor never passes a message that no run received
\* (agora_bridge.py:412, the held cursor; :444, the latch).
THEOREM CursorBehindReceiptHolds == Spec => []CursorBehindReceipt
<1>1. BridgeInv => CursorBehindReceipt
  BY DEF BridgeInv
<1> QED
  BY <1>1, BridgeInvHolds, PTL

\* Ordered delivery per channel or nothing: whatever a run received, each
\* older message of the channel reached a run before (agora_bridge.py:432
\* and :444).
THEOREM ChannelOrderKeptHolds == Spec => []ChannelOrderKept
<1>1. BridgeInv => ChannelOrderKept
  BY DEF BridgeInv
<1> QED
  BY <1>1, BridgeInvHolds, PTL

\* Restarts never double-start: one live run at most has the mailbox, not
\* counting the run that a look which missed the resident has started
\* (agora_bridge.py:281, :296, :310 and :341).
THEOREM OneResidentHolds == Spec => []OneResident
<1>1. ASSUME NEW S, \A q, r \in S : q = r PROVE Cardinality(S) <= 1
  <2>1. CASE S = {}
    BY <2>1, FS_EmptySet
  <2>2. CASE S # {}
    <3>1. PICK r : r \in S
      BY <2>2
    <3>2. S = {r}
      BY <1>1, <3>1
    <3>3. Cardinality({r}) = 1
      BY FS_Singleton
    <3> QED
      BY <3>2, <3>3
  <2> QED
    BY <2>1, <2>2
<1>2. BridgeInv => OneResident
  BY <1>1 DEF BridgeInv, OneReceiver, OneResident
<1> QED
  BY <1>2, BridgeInvHolds, PTL
=============================================================================
