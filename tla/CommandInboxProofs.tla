------------------------- MODULE CommandInboxProofs -------------------------
(***************************************************************************)
(* Proofs about CommandInbox, for any number of processes, commands and    *)
(* disturbances and any batch limit.                                       *)
(***************************************************************************)
EXTENDS CommandInbox, TLAPS

\* Seqs without an undecided automation command.
Answered == {i \in 1..Len(inbox) :
                inbox[i] \in Automation => ledger[inbox[i]] # "none"}

\* A running loop has applied everything up to its own cursor, and the
\* command it is about to pass.
LoopTried ==
    \A p \in Proc :
       /\ pc[p] # "out" => 1..cur[p] \subseteq tried
       /\ pc[p] \in {"after", "save"} => cur[p] + 1 \in tried

\* ... and an automation command is passed with a decision in its ledger.
LoopAnswered ==
    \A p \in Proc :
       /\ pc[p] # "out" => 1..cur[p] \subseteq Answered
       /\ pc[p] \in {"after", "save"} => cur[p] + 1 \in Answered

\* Only a revision has something to do after its decision.
AfterIsRevision == \A p \in Proc : pc[p] = "after" => Current(p) \in Revise

\* Without a loop that outlived its stop(), the only running loop is the
\* owner's, and its cursor is not behind the saved one.
OwnerAhead ==
    ~lingered => \A p \in Proc : pc[p] # "out" => owner = p /\ saved <= cur[p]

USE InboxAssumption

-----------------------------------------------------------------------------
(* The inbox only grows at its end.                                        *)

Grown == /\ inbox' \in Seq(Cmd)
         /\ Len(inbox') >= Len(inbox)
         /\ \A i \in 1..Len(inbox) : inbox'[i] = inbox[i]

\* CommandStore.append keeps every accepted command at its seq.
LEMMA AppendGrows ==
    ASSUME TypeOK, NEW c \in Cmd, AppendOnce(c) PROVE Grown
BY DEF TypeOK, AppendOnce, Grown

\* No step of the loop or of a client moves or drops an accepted command.
LEMMA StepGrows == ASSUME TypeOK, AfterIsRevision, [Next]_vars PROVE Grown
<1>1. ASSUME NEW c \in Client, Submit(c) PROVE Grown
  BY <1>1, AppendGrows DEF Submit, Cmd
<1>2. ASSUME NEW p \in Proc, EnterLoop(p) PROVE Grown
  BY <1>2 DEF EnterLoop, TypeOK, Grown
<1>3. ASSUME NEW p \in Proc, LeaveLoop(p) PROVE Grown
  BY <1>3 DEF LeaveLoop, TypeOK, Grown
<1>4. ASSUME NEW p \in Proc, LingerBehindStop(p) PROVE Grown
  BY <1>4 DEF LingerBehindStop, TypeOK, Grown
<1>5. ASSUME NEW p \in Proc, LingererEnds(p) PROVE Grown
  BY <1>5 DEF LingererEnds, TypeOK, Grown
<1>6. ASSUME NEW p \in Proc, Crash(p) PROVE Grown
  BY <1>6 DEF Crash, TypeOK, Grown
<1>7. ASSUME NEW p \in Proc, Poll(p) PROVE Grown
  BY <1>7 DEF Poll, TypeOK, Grown
<1>8. ASSUME NEW p \in Proc, ApplyRunCommand(p) PROVE Grown
  BY <1>8 DEF ApplyRunCommand, TypeOK, Grown
<1>9. ASSUME NEW p \in Proc, ApplyAutomationCommand(p) PROVE Grown
  BY <1>9 DEF ApplyAutomationCommand, TypeOK, Grown
<1>10. ASSUME NEW p \in Proc, CommandNotRecorded(p) PROVE Grown
  BY <1>10 DEF CommandNotRecorded, TypeOK, Grown
<1>11. ASSUME NEW p \in Proc, ResolveCoveredWaits(p) PROVE Grown
  <2>1. Answer[Current(p)] \in Cmd
    BY <1>11 DEF ResolveCoveredWaits, AfterIsRevision, Cmd
  <2>2. CASE AppendOnce(Answer[Current(p)])
    BY <2>1, <2>2, AppendGrows
  <2>3. CASE UNCHANGED inbox
    BY <2>3 DEF TypeOK, Grown
  <2> QED
    BY <1>11, <2>2, <2>3 DEF ResolveCoveredWaits
<1>12. ASSUME NEW p \in Proc, SaveCursor(p) PROVE Grown
  BY <1>12 DEF SaveCursor, TypeOK, Grown
<1>13. CASE UNCHANGED vars
  BY <1>13 DEF vars, TypeOK, Grown
<1> QED
  BY <1>1, <1>2, <1>3, <1>4, <1>5, <1>6, <1>7, <1>8, <1>9, <1>10, <1>11, <1>12, <1>13 DEF Next, LoopStep

-----------------------------------------------------------------------------
(* Type correctness.                                                       *)

\* The empty inbox is well typed.
LEMMA TypeInit == Init => TypeOK
<1> SUFFICES ASSUME Init PROVE TypeOK
  OBVIOUS
<1>1. inbox \in Seq(Cmd) /\ Len(inbox) = 0
  BY DEF Init
<1>2. saved \in 0..Len(inbox) /\ tried \in SUBSET (1..Len(inbox))
  BY <1>1 DEF Init
<1> QED
  BY <1>1, <1>2 DEF Init, TypeOK, Decision, LoopPc

\* Every step keeps the types and keeps cursors within the inbox.
LEMMA TypeStep == TypeOK /\ AfterIsRevision /\ [Next]_vars => TypeOK'
<1> SUFFICES ASSUME TypeOK, AfterIsRevision, [Next]_vars PROVE TypeOK'
  OBVIOUS
<1> Grown
  BY StepGrows
<1> USE DEF Grown, TypeOK, GoTo, Fault, LoopPc, Decision
<1>1. ASSUME NEW c \in Client, Submit(c) PROVE TypeOK'
  BY <1>1 DEF Submit
<1>2. ASSUME NEW p \in Proc, EnterLoop(p) PROVE TypeOK'
  BY <1>2 DEF EnterLoop
<1>3. ASSUME NEW p \in Proc, LeaveLoop(p) PROVE TypeOK'
  BY <1>3 DEF LeaveLoop
<1>4. ASSUME NEW p \in Proc, LingerBehindStop(p) PROVE TypeOK'
  BY <1>4 DEF LingerBehindStop
<1>5. ASSUME NEW p \in Proc, LingererEnds(p) PROVE TypeOK'
  BY <1>5 DEF LingererEnds
<1>6. ASSUME NEW p \in Proc, Crash(p) PROVE TypeOK'
  BY <1>6 DEF Crash
<1>7. ASSUME NEW p \in Proc, Poll(p) PROVE TypeOK'
  BY <1>7 DEF Poll, BatchEnd
<1>8. ASSUME NEW p \in Proc, ApplyRunCommand(p) PROVE TypeOK'
  BY <1>8 DEF ApplyRunCommand, Current, Try
<1>9. ASSUME NEW p \in Proc, ApplyAutomationCommand(p) PROVE TypeOK'
  <2>1. /\ ledger' \in [Automation -> Decision]
        /\ pc' \in [Proc -> LoopPc]
        /\ pc'[p] \in {"after", "save"}
        /\ \A q \in Proc \ {p} : pc'[q] = pc[q]
    BY <1>9 DEF ApplyAutomationCommand
  <2>2. tried' \in SUBSET (1..Len(inbox'))
    BY <1>9 DEF ApplyAutomationCommand, Try
  <2> QED
    BY <1>9, <2>1, <2>2 DEF ApplyAutomationCommand
<1>10. ASSUME NEW p \in Proc, CommandNotRecorded(p) PROVE TypeOK'
  BY <1>10 DEF CommandNotRecorded, Current, Try
<1>11. ASSUME NEW p \in Proc, ResolveCoveredWaits(p) PROVE TypeOK'
  BY <1>11 DEF ResolveCoveredWaits, Current
<1>12. ASSUME NEW p \in Proc, SaveCursor(p) PROVE TypeOK'
  BY <1>12 DEF SaveCursor, Current
<1>13. CASE UNCHANGED vars
  BY <1>13 DEF vars
<1> QED
  BY <1>1, <1>2, <1>3, <1>4, <1>5, <1>6, <1>7, <1>8, <1>9, <1>10, <1>11, <1>12, <1>13 DEF Next, LoopStep

-----------------------------------------------------------------------------
(* The parts of the inductive invariant, one lemma each.                   *)

\* What is left to do after a decision belongs to a revision.
LEMMA AfterStep == TypeOK /\ AfterIsRevision /\ [Next]_vars => AfterIsRevision'
<1> SUFFICES ASSUME TypeOK, AfterIsRevision, [Next]_vars PROVE AfterIsRevision'
  OBVIOUS
<1> Grown
  BY StepGrows
<1> USE DEF Grown, TypeOK, AfterIsRevision, Current, GoTo
<1>1. ASSUME NEW c \in Client, Submit(c) PROVE AfterIsRevision'
  BY <1>1 DEF Submit
<1>2. ASSUME NEW p \in Proc, EnterLoop(p) PROVE AfterIsRevision'
  BY <1>2 DEF EnterLoop
<1>3. ASSUME NEW p \in Proc, LeaveLoop(p) PROVE AfterIsRevision'
  BY <1>3 DEF LeaveLoop
<1>4. ASSUME NEW p \in Proc, LingerBehindStop(p) PROVE AfterIsRevision'
  BY <1>4 DEF LingerBehindStop
<1>5. ASSUME NEW p \in Proc, LingererEnds(p) PROVE AfterIsRevision'
  BY <1>5 DEF LingererEnds
<1>6. ASSUME NEW p \in Proc, Crash(p) PROVE AfterIsRevision'
  BY <1>6 DEF Crash
<1>7. ASSUME NEW p \in Proc, Poll(p) PROVE AfterIsRevision'
  BY <1>7 DEF Poll, BatchEnd
<1>8. ASSUME NEW p \in Proc, ApplyRunCommand(p) PROVE AfterIsRevision'
  BY <1>8 DEF ApplyRunCommand, Try
<1>9. ASSUME NEW p \in Proc, ApplyAutomationCommand(p) PROVE AfterIsRevision'
  BY <1>9 DEF ApplyAutomationCommand, Try
<1>10. ASSUME NEW p \in Proc, CommandNotRecorded(p) PROVE AfterIsRevision'
  BY <1>10 DEF CommandNotRecorded, Try
<1>11. ASSUME NEW p \in Proc, ResolveCoveredWaits(p) PROVE AfterIsRevision'
  <2> SUFFICES ASSUME NEW q \in Proc, pc'[q] = "after"
               PROVE  inbox'[cur'[q] + 1] \in Revise
    OBVIOUS
  <2>1. pc[q] = "after" /\ cur'[q] = cur[q]
    BY <1>11 DEF ResolveCoveredWaits
  <2>2. cur[q] + 1 \in 1..Len(inbox)
    BY <2>1
  <2> QED
    BY <2>1, <2>2
<1>12. ASSUME NEW p \in Proc, SaveCursor(p) PROVE AfterIsRevision'
  BY <1>12 DEF SaveCursor
<1>13. CASE UNCHANGED vars
  BY <1>13 DEF vars
<1> QED
  BY <1>1, <1>2, <1>3, <1>4, <1>5, <1>6, <1>7, <1>8, <1>9, <1>10, <1>11, <1>12, <1>13 DEF Next, LoopStep

\* _poll_commands passes a command only after applying it, and saves no
\* cursor beyond what it passed.
LEMMA TriedStep ==
    ASSUME TypeOK, AfterIsRevision, LoopTried, NoneSkipped, [Next]_vars
    PROVE  LoopTried' /\ NoneSkipped'
<1> Grown
  BY StepGrows
<1> USE DEF Grown, TypeOK, LoopTried, NoneSkipped, GoTo
<1>1. ASSUME NEW c \in Client, Submit(c) PROVE LoopTried' /\ NoneSkipped'
  BY <1>1 DEF Submit
<1>2. ASSUME NEW p \in Proc, EnterLoop(p) PROVE LoopTried' /\ NoneSkipped'
  BY <1>2 DEF EnterLoop
<1>3. ASSUME NEW p \in Proc, LeaveLoop(p) PROVE LoopTried' /\ NoneSkipped'
  BY <1>3 DEF LeaveLoop
<1>4. ASSUME NEW p \in Proc, LingerBehindStop(p) PROVE LoopTried' /\ NoneSkipped'
  BY <1>4 DEF LingerBehindStop
<1>5. ASSUME NEW p \in Proc, LingererEnds(p) PROVE LoopTried' /\ NoneSkipped'
  BY <1>5 DEF LingererEnds
<1>6. ASSUME NEW p \in Proc, Crash(p) PROVE LoopTried' /\ NoneSkipped'
  BY <1>6 DEF Crash
<1>7. ASSUME NEW p \in Proc, Poll(p) PROVE LoopTried' /\ NoneSkipped'
  BY <1>7 DEF Poll, BatchEnd
<1>8. ASSUME NEW p \in Proc, ApplyRunCommand(p) PROVE LoopTried' /\ NoneSkipped'
  BY <1>8 DEF ApplyRunCommand, Try
<1>9. ASSUME NEW p \in Proc, ApplyAutomationCommand(p) PROVE LoopTried' /\ NoneSkipped'
  BY <1>9 DEF ApplyAutomationCommand, Try
<1>10. ASSUME NEW p \in Proc, CommandNotRecorded(p) PROVE LoopTried' /\ NoneSkipped'
  BY <1>10 DEF CommandNotRecorded, Try
<1>11. ASSUME NEW p \in Proc, ResolveCoveredWaits(p) PROVE LoopTried' /\ NoneSkipped'
  BY <1>11 DEF ResolveCoveredWaits
<1>12. ASSUME NEW p \in Proc, SaveCursor(p) PROVE LoopTried' /\ NoneSkipped'
  <2>0. 1..cur[p] \subseteq tried /\ cur[p] + 1 \in tried /\ tried' = tried
    BY <1>12 DEF SaveCursor
  <2>1. 1..(cur[p] + 1) \subseteq tried /\ tried' = tried
    BY <2>0
  <2>2. /\ cur'[p] = cur[p] + 1 /\ pc'[p] \in {"apply", "poll"}
        /\ \A q \in Proc \ {p} : cur'[q] = cur[q] /\ pc'[q] = pc[q]
    BY <1>12 DEF SaveCursor
  <2>3. LoopTried'
    BY <2>1, <2>2
  <2>4. saved' \in {saved, cur[p] + 1}
    BY <1>12 DEF SaveCursor
  <2> QED
    BY <2>1, <2>3, <2>4
<1>13. CASE UNCHANGED vars
  BY <1>13 DEF vars
<1> QED
  BY <1>1, <1>2, <1>3, <1>4, <1>5, <1>6, <1>7, <1>8, <1>9, <1>10, <1>11, <1>12, <1>13 DEF Next, LoopStep

\* A decision, once recorded, stays.
LEMMA LedgerKeeps ==
    ASSUME TypeOK, [Next]_vars, NEW c \in Automation, ledger[c] # "none"
    PROVE  ledger'[c] # "none"
<1> USE DEF TypeOK
<1>1. ASSUME NEW d \in Client, Submit(d) PROVE ledger'[c] # "none"
  BY <1>1 DEF Submit
<1>2. ASSUME NEW p \in Proc, EnterLoop(p) PROVE ledger'[c] # "none"
  BY <1>2 DEF EnterLoop
<1>3. ASSUME NEW p \in Proc, LeaveLoop(p) PROVE ledger'[c] # "none"
  BY <1>3 DEF LeaveLoop
<1>4. ASSUME NEW p \in Proc, LingerBehindStop(p) PROVE ledger'[c] # "none"
  BY <1>4 DEF LingerBehindStop
<1>5. ASSUME NEW p \in Proc, LingererEnds(p) PROVE ledger'[c] # "none"
  BY <1>5 DEF LingererEnds
<1>6. ASSUME NEW p \in Proc, Crash(p) PROVE ledger'[c] # "none"
  BY <1>6 DEF Crash
<1>7. ASSUME NEW p \in Proc, Poll(p) PROVE ledger'[c] # "none"
  BY <1>7 DEF Poll, BatchEnd
<1>8. ASSUME NEW p \in Proc, ApplyRunCommand(p) PROVE ledger'[c] # "none"
  BY <1>8 DEF ApplyRunCommand, Try
<1>9. ASSUME NEW p \in Proc, ApplyAutomationCommand(p) PROVE ledger'[c] # "none"
  BY <1>9 DEF ApplyAutomationCommand, Try
<1>10. ASSUME NEW p \in Proc, CommandNotRecorded(p) PROVE ledger'[c] # "none"
  BY <1>10 DEF CommandNotRecorded, Try
<1>11. ASSUME NEW p \in Proc, ResolveCoveredWaits(p) PROVE ledger'[c] # "none"
  BY <1>11 DEF ResolveCoveredWaits
<1>12. ASSUME NEW p \in Proc, SaveCursor(p) PROVE ledger'[c] # "none"
  BY <1>12 DEF SaveCursor
<1>13. CASE UNCHANGED vars
  BY <1>13 DEF vars
<1> QED
  BY <1>1, <1>2, <1>3, <1>4, <1>5, <1>6, <1>7, <1>8, <1>9, <1>10, <1>11, <1>12, <1>13 DEF Next, LoopStep

\* _poll_commands passes an automation command only with a decision.
LEMMA AnsweredStep ==
    ASSUME TypeOK, AfterIsRevision, LoopAnswered, PassedIsAnswered, [Next]_vars
    PROVE  LoopAnswered' /\ PassedIsAnswered'
<1> Grown
  BY StepGrows
<1> \A c \in Automation : ledger[c] # "none" => ledger'[c] # "none"
  BY LedgerKeeps
<1>a. Answered \subseteq Answered'
  BY DEF Grown, TypeOK, Answered
<1>b. 1..saved \subseteq Answered
  BY DEF PassedIsAnswered, Answered, TypeOK
<1>c. ASSUME 1..saved' \subseteq Answered' PROVE PassedIsAnswered'
  BY <1>c DEF PassedIsAnswered, Answered
<1> USE DEF Grown, TypeOK, LoopAnswered, GoTo
<1>1. ASSUME NEW c \in Client, Submit(c) PROVE LoopAnswered' /\ PassedIsAnswered'
  BY <1>a, <1>b, <1>c, <1>1 DEF Submit
<1>2. ASSUME NEW p \in Proc, EnterLoop(p) PROVE LoopAnswered' /\ PassedIsAnswered'
  BY <1>a, <1>b, <1>c, <1>2 DEF EnterLoop
<1>3. ASSUME NEW p \in Proc, LeaveLoop(p) PROVE LoopAnswered' /\ PassedIsAnswered'
  BY <1>a, <1>b, <1>c, <1>3 DEF LeaveLoop
<1>4. ASSUME NEW p \in Proc, LingerBehindStop(p) PROVE LoopAnswered' /\ PassedIsAnswered'
  BY <1>a, <1>b, <1>c, <1>4 DEF LingerBehindStop
<1>5. ASSUME NEW p \in Proc, LingererEnds(p) PROVE LoopAnswered' /\ PassedIsAnswered'
  BY <1>a, <1>b, <1>c, <1>5 DEF LingererEnds
<1>6. ASSUME NEW p \in Proc, Crash(p) PROVE LoopAnswered' /\ PassedIsAnswered'
  BY <1>a, <1>b, <1>c, <1>6 DEF Crash
<1>7. ASSUME NEW p \in Proc, Poll(p) PROVE LoopAnswered' /\ PassedIsAnswered'
  BY <1>a, <1>b, <1>c, <1>7 DEF Poll, BatchEnd
<1>8. ASSUME NEW p \in Proc, ApplyRunCommand(p) PROVE LoopAnswered' /\ PassedIsAnswered'
  BY <1>a, <1>b, <1>c, <1>8 DEF ApplyRunCommand, Answered, Current, Try
<1>9. ASSUME NEW p \in Proc, ApplyAutomationCommand(p) PROVE LoopAnswered' /\ PassedIsAnswered'
  <2>1. cur[p] + 1 \in 1..Len(inbox) /\ Current(p) \in Automation
    BY <1>9 DEF ApplyAutomationCommand
  <2>2. ledger'[Current(p)] # "none"
    BY <1>9, <2>1 DEF ApplyAutomationCommand
  <2>3. cur[p] + 1 \in Answered'
    BY <1>9, <2>1, <2>2 DEF ApplyAutomationCommand, Answered, Current
  <2>4. \A q \in Proc \ {p} : pc'[q] = pc[q]
    BY <1>9 DEF ApplyAutomationCommand
  <2> QED
    BY <1>a, <1>b, <1>c, <1>9, <2>3, <2>4 DEF ApplyAutomationCommand
<1>10. ASSUME NEW p \in Proc, CommandNotRecorded(p) PROVE LoopAnswered' /\ PassedIsAnswered'
  BY <1>a, <1>b, <1>c, <1>10 DEF CommandNotRecorded, Try
<1>11. ASSUME NEW p \in Proc, ResolveCoveredWaits(p) PROVE LoopAnswered' /\ PassedIsAnswered'
  BY <1>a, <1>b, <1>c, <1>11 DEF ResolveCoveredWaits
<1>12. ASSUME NEW p \in Proc, SaveCursor(p) PROVE LoopAnswered' /\ PassedIsAnswered'
  <2>0. 1..cur[p] \subseteq Answered /\ cur[p] + 1 \in Answered
    BY <1>12 DEF SaveCursor
  <2>1. 1..(cur[p] + 1) \subseteq Answered'
    BY <1>a, <2>0
  <2>2. /\ cur'[p] = cur[p] + 1 /\ pc'[p] \in {"apply", "poll"}
        /\ \A q \in Proc \ {p} : cur'[q] = cur[q] /\ pc'[q] = pc[q]
    BY <1>12 DEF SaveCursor
  <2>3. LoopAnswered'
    BY <1>a, <2>1, <2>2
  <2>4. saved' \in {saved, cur[p] + 1}
    BY <1>12 DEF SaveCursor
  <2> QED
    BY <1>a, <1>b, <1>c, <2>1, <2>3, <2>4
<1>13. CASE UNCHANGED vars
  BY <1>a, <1>b, <1>c, <1>13 DEF vars
<1> QED
  BY <1>1, <1>2, <1>3, <1>4, <1>5, <1>6, <1>7, <1>8, <1>9, <1>10, <1>11, <1>12, <1>13 DEF Next, LoopStep

\* Owners follow each other, each starting from the saved cursor.
LEMMA OwnerStep ==
    ASSUME TypeOK, OwnerAhead, [Next]_vars
    PROVE  OwnerAhead'
<1> USE DEF TypeOK, OwnerAhead, GoTo
<1>1. ASSUME NEW c \in Client, Submit(c) PROVE OwnerAhead'
  BY <1>1 DEF Submit
<1>2. ASSUME NEW p \in Proc, EnterLoop(p) PROVE OwnerAhead'
  BY <1>2 DEF EnterLoop
<1>3. ASSUME NEW p \in Proc, LeaveLoop(p) PROVE OwnerAhead'
  BY <1>3 DEF LeaveLoop
<1>4. ASSUME NEW p \in Proc, LingerBehindStop(p) PROVE OwnerAhead'
  BY <1>4 DEF LingerBehindStop
<1>5. ASSUME NEW p \in Proc, LingererEnds(p) PROVE OwnerAhead'
  BY <1>5 DEF LingererEnds
<1>6. ASSUME NEW p \in Proc, Crash(p) PROVE OwnerAhead'
  BY <1>6 DEF Crash
<1>7. ASSUME NEW p \in Proc, Poll(p) PROVE OwnerAhead'
  BY <1>7 DEF Poll, BatchEnd
<1>8. ASSUME NEW p \in Proc, ApplyRunCommand(p) PROVE OwnerAhead'
  BY <1>8 DEF ApplyRunCommand, Try
<1>9. ASSUME NEW p \in Proc, ApplyAutomationCommand(p) PROVE OwnerAhead'
  BY <1>9 DEF ApplyAutomationCommand, Try
<1>10. ASSUME NEW p \in Proc, CommandNotRecorded(p) PROVE OwnerAhead'
  BY <1>10 DEF CommandNotRecorded, Try
<1>11. ASSUME NEW p \in Proc, ResolveCoveredWaits(p) PROVE OwnerAhead'
  BY <1>11 DEF ResolveCoveredWaits
<1>12. ASSUME NEW p \in Proc, SaveCursor(p) PROVE OwnerAhead'
  BY <1>12 DEF SaveCursor
<1>13. CASE UNCHANGED vars
  BY <1>13 DEF vars
<1> QED
  BY <1>1, <1>2, <1>3, <1>4, <1>5, <1>6, <1>7, <1>8, <1>9, <1>10, <1>11, <1>12, <1>13 DEF Next, LoopStep

-----------------------------------------------------------------------------
(* Theorems.                                                               *)

IInv == /\ TypeOK /\ AfterIsRevision
        /\ LoopTried /\ NoneSkipped
        /\ LoopAnswered /\ PassedIsAnswered
        /\ OwnerAhead

\* Nothing is accepted, applied or saved at first.
LEMMA InvInit == Init => IInv
<1> SUFFICES ASSUME Init PROVE IInv
  OBVIOUS
<1>1. TypeOK
  BY TypeInit
<1>2. 1..saved = {}
  BY DEF Init
<1> QED
  BY <1>1, <1>2 DEF Init, IInv, AfterIsRevision, LoopTried, NoneSkipped,
     LoopAnswered, PassedIsAnswered, OwnerAhead

\* The inductive invariant holds in every reachable state.
LEMMA Inductive == Spec => []IInv
<1>1. IInv /\ [Next]_vars => IInv'
  BY TypeStep, AfterStep, TriedStep, AnsweredStep, OwnerStep DEF IInv
<1> QED
  BY InvInit, <1>1, PTL DEF Spec

\* The inbox, the cursors and the ledgers keep their types.
THEOREM TypeCorrect == Spec => []TypeOK
<1>1. IInv => TypeOK
  BY DEF IInv
<1> QED
  BY <1>1, Inductive, PTL

\* However often processes crash, yield or fail to save, no accepted command
\* at or below the saved cursor was skipped.
THEOREM NoneSkippedHolds == Spec => []NoneSkipped
<1>1. IInv => NoneSkipped
  BY DEF IInv
<1> QED
  BY <1>1, Inductive, PTL

\* The cursor passes an automation command only with a recorded decision.
THEOREM PassedIsAnsweredHolds == Spec => []PassedIsAnswered
<1>1. IInv => PassedIsAnswered
  BY DEF IInv
<1> QED
  BY <1>1, Inductive, PTL

\* A step moves the saved cursor back only if the loop had outlived a stop().
LEMMA RegressStep == IInv /\ [Next]_vars => (saved' < saved => lingered)
<1> SUFFICES ASSUME IInv, [Next]_vars, ~lingered PROVE ~(saved' < saved)
  OBVIOUS
<1>1. ASSUME NEW p \in Proc, SaveCursor(p) PROVE ~(saved' < saved)
  <2>1. pc[p] # "out" /\ saved' \in {saved, cur[p] + 1}
    BY <1>1 DEF SaveCursor
  <2>2. saved <= cur[p]
    BY <2>1 DEF IInv, OwnerAhead
  <2> QED
    BY <2>1, <2>2 DEF IInv, TypeOK
<1>2. CASE UNCHANGED saved
  BY <1>2 DEF IInv, TypeOK
<1>3. (\E p \in Proc : SaveCursor(p)) \/ UNCHANGED saved
  BY DEF Next, LoopStep, vars, Submit, EnterLoop, LeaveLoop, LingerBehindStop,
         LingererEnds, Crash, Poll, ApplyRunCommand, ApplyAutomationCommand,
         CommandNotRecorded, ResolveCoveredWaits
<1> QED
  BY <1>1, <1>2, <1>3

\* The cursor file never goes back in a history without such a loop.
THEOREM CursorNeverRegressesHolds == Spec => CursorNeverRegresses
<1>1. IInv /\ [Next]_vars => [saved' < saved => lingered]_vars
  BY RegressStep
<1> QED
  BY <1>1, Inductive, PTL DEF Spec, CursorNeverRegresses

-----------------------------------------------------------------------------
(* Refinement.                                                             *)

\* Every step is a step of CommandLog: it accepts a new command id, takes up
\* the first command not yet taken up, or leaves both as they are.
LEMMA LogStep == IInv /\ [Next]_vars => [Log!LogNext]_(Log!logVars)
<1> SUFFICES ASSUME IInv, [Next]_vars PROVE [Log!LogNext]_(Log!logVars)
  OBVIOUS
<1> USE DEF IInv, TypeOK
<1>1. ASSUME NEW c \in Cmd, AppendOnce(c), UNCHANGED tried
      PROVE  [Log!LogNext]_(Log!logVars)
  <2>1. CASE Accepted(c)
    BY <1>1, <2>1 DEF AppendOnce, Log!logVars
  <2>2. CASE ~Accepted(c)
    <3>1. Log!Accept(c)
      BY <1>1, <2>2 DEF AppendOnce, Accepted, Log!Accept
    <3> QED
      BY <3>1 DEF Log!LogNext
  <2> QED
    BY <2>1, <2>2
<1>2. ASSUME NEW p \in Proc, pc[p] = "apply", Try(p), UNCHANGED inbox
      PROVE  [Log!LogNext]_(Log!logVars)
  <2>a. 1..cur[p] \subseteq tried
    BY <1>2 DEF LoopTried
  <2>b. cur[p] \in Nat /\ cur[p] < todo[p] /\ todo[p] \in Nat /\ todo[p] <= Len(inbox)
    BY <1>2
  <2>1. 1..cur[p] \subseteq tried /\ cur[p] + 1 \in 1..Len(inbox)
    BY <2>a, <2>b
  <2>2. CASE cur[p] + 1 \in tried
    BY <1>2, <2>2 DEF Try, Log!logVars
  <2>3. CASE cur[p] + 1 \notin tried
    <3>1. Log!TakeUp(cur[p] + 1)
      BY <1>2, <2>1, <2>3 DEF Try, Log!TakeUp
    <3> QED
      BY <2>1, <3>1 DEF Log!LogNext
  <2> QED
    BY <2>2, <2>3
<1>3. CASE UNCHANGED <<inbox, tried>>
  BY <1>3 DEF Log!logVars
<1>4. ASSUME NEW c \in Client, Submit(c) PROVE [Log!LogNext]_(Log!logVars)
  BY <1>1, <1>4 DEF Submit, Cmd
<1>5. ASSUME NEW p \in Proc, ResolveCoveredWaits(p)
      PROVE  [Log!LogNext]_(Log!logVars)
  <2>1. Answer[Current(p)] \in Cmd
    BY <1>5 DEF ResolveCoveredWaits, AfterIsRevision, Cmd
  <2> QED
    BY <1>1, <1>3, <1>5, <2>1 DEF ResolveCoveredWaits
<1>6. ASSUME NEW p \in Proc,
             ApplyRunCommand(p) \/ ApplyAutomationCommand(p) \/ CommandNotRecorded(p)
      PROVE  [Log!LogNext]_(Log!logVars)
  BY <1>2, <1>6 DEF ApplyRunCommand, ApplyAutomationCommand, CommandNotRecorded
<1>7. ASSUME NEW p \in Proc,
             \/ EnterLoop(p) \/ LeaveLoop(p) \/ LingerBehindStop(p)
             \/ LingererEnds(p) \/ Crash(p) \/ Poll(p) \/ SaveCursor(p)
      PROVE  [Log!LogNext]_(Log!logVars)
  BY <1>3, <1>7 DEF EnterLoop, LeaveLoop, LingerBehindStop, LingererEnds,
                    Crash, Poll, SaveCursor
<1>8. CASE UNCHANGED vars
  BY <1>3, <1>8 DEF vars
<1> QED
  BY <1>4, <1>5, <1>6, <1>7, <1>8 DEF Next, LoopStep

\* The inbox implements the abstract log: commands are taken up at least
\* once, for the first time in the order of their acceptance, without gaps.
THEOREM InboxImplementsLog == Spec => ImplementsLog
<1>1. Init => Log!LogInit
  BY DEF Init, Log!LogInit
<1> QED
  BY <1>1, LogStep, Inductive, PTL DEF Spec, ImplementsLog, Log!LogSpec
=============================================================================
