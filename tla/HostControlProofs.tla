-------------------------- MODULE HostControlProofs -------------------------
(***************************************************************************)
(* Proofs about the two halves of host_control.py: the pause file of all   *)
(* the processes of a data directory (PauseFile), for any number of        *)
(* processes, writers and writes, and the life of one serve process        *)
(* (HostLifecycle), whether it can relaunch or not.                        *)
(***************************************************************************)
EXTENDS PauseFile, HostLifecycle, TLAPS

-----------------------------------------------------------------------------
(* The pause file.                                                         *)

\* Only processes that serve the routes write, and two that do at once are
\* on record.
WritersOverlap ==
    \A p \in Proc :
       pc[p] \in WritePc =>
          /\ p \in Writer
          /\ \A q \in Proc : pc[q] \in WritePc => p = q \/ overlap

\* What the calls know of the flag of their own process.
CallKnowsFlag ==
    \A p \in Proc :
       /\ pc[p] \in {"write", "stat"} => paused[p]
       /\ pc[p] \in {"remove", "unlink"} => ~paused[p]
       /\ pc[p] = "read" => seen[p] # 0

\* A file that is gone before its writer looks at it was removed by somebody
\* whose call overlapped.
WrittenIsThere == \A p \in Proc : pc[p] = "stat" /\ file = 0 => overlap

\* "No file" is remembered only by a process that is not paused, even while
\* there is a file again: its removal would make the memory right.
AbsentIsNotPaused ==
    \A p \in Proc :
       pc[p] = "idle" /\ seen[p] = 0 /\ paused[p]
          => failed \/ (p \in Writer /\ overlap)

\* Whoever is not paused has been told, but for a resume on its way.
ToldUnlessResuming ==
    \A p \in Proc :
       pc[p] \notin {"remove", "unlink"} => paused[p] \/ nudged[p]

PauseInv ==
    /\ TypeOK /\ WritersOverlap /\ CallKnowsFlag /\ WrittenIsThere
    /\ AbsentIsNotPaused /\ FlagsAreRight /\ ToldUnlessResuming

LEMMA PauseTypeInit == Init => TypeOK
<1> SUFFICES ASSUME Init PROVE TypeOK
  OBVIOUS
<1>1. 0 \in 0..0 /\ 0 \in 0..MaxWrites
  BY PauseAssumption
<1> QED
  BY <1>1 DEF Init, TypeOK, CallPc

LEMMA PauseTypeStep == TypeOK /\ [Next]_vars => TypeOK'
<1> SUFFICES ASSUME TypeOK, [Next]_vars PROVE TypeOK'
  OBVIOUS
<1> USE PauseAssumption DEF TypeOK, CallPc, WritePc
<1>1. CASE UNCHANGED vars
  BY <1>1 DEF vars
<1>2. ASSUME NEW p \in Proc,
             \/ Configure(p) \/ MaybeReload(p) \/ Pause(p) \/ Resume(p)
             \/ CallStep(p) \/ LoadFails(p) \/ PersistFails(p) \/ Exit(p)
             \/ EnterLoop(p) \/ LeaveLoop(p)
      PROVE  TypeOK'
  <2>1. CASE Configure(p)
    BY <2>1 DEF Configure, GoTo
  <2>2. CASE MaybeReload(p)
    BY <2>2 DEF MaybeReload, GoTo
  <2>3. CASE Pause(p)
    <3>1. overlap' \in BOOLEAN
      BY <2>3 DEF Pause, NoteOverlap
    <3> QED
      BY <2>3, <3>1 DEF Pause, GoTo, SetPaused
  <2>4. CASE Resume(p)
    <3>1. overlap' \in BOOLEAN
      BY <2>4 DEF Resume, NoteOverlap
    <3> QED
      BY <2>4, <3>1 DEF Resume, GoTo, SetPaused
  <2>5. CASE LoadSignature(p)
    BY <2>5 DEF LoadSignature, LoadsNotPaused, GoTo, SetPaused
  <2>6. CASE LoadContent(p)
    BY <2>6 DEF LoadContent, LoadsNotPaused, GoTo, SetPaused
  <2>7. CASE ReplaceFile(p)
    BY <2>7 DEF ReplaceFile, GoTo
  <2>8. CASE SignatureAfterWrite(p)
    <3>1. /\ \/ seen' = [seen EXCEPT ![p] = file]
             \/ seen' = [seen EXCEPT ![p] = 0]
          /\ failed' = failed \/ failed' = TRUE
          /\ pc' = [pc EXCEPT ![p] = "idle"]
          /\ UNCHANGED <<file, writes, paused, ticker, nudged, misread, overlap>>
      BY <2>8 DEF SignatureAfterWrite, GoTo
    <3>2. 0 \in 0..writes
      OBVIOUS
    <3>3. seen' \in [Proc -> 0..writes] /\ pc' \in [Proc -> CallPc]
      BY <3>1, <3>2
    <3> QED
      BY <3>1, <3>3
  <2>9. CASE RemoveFile(p)
    <3>1. /\ file' = file \/ file' = 0
          /\ seen' = seen \/ seen' = [seen EXCEPT ![p] = 0]
          /\ nudged' = nudged \/ nudged' = [nudged EXCEPT ![p] = TRUE]
      BY <2>9 DEF RemoveFile
    <3>2. /\ \/ pc' = [pc EXCEPT ![p] = "unlink"]
             \/ pc' = [pc EXCEPT ![p] = "idle"]
          /\ UNCHANGED <<writes, paused, ticker, misread, failed, overlap>>
      BY <2>9 DEF RemoveFile, GoTo
    <3>3. 0 \in 0..writes
      OBVIOUS
    <3>4. pc' \in [Proc -> CallPc]
      BY <3>2
    <3>5. nudged' \in [Proc -> BOOLEAN]
      BY <3>1
    <3>6. file' \in 0..writes /\ seen' \in [Proc -> 0..writes]
      BY <3>1, <3>3
    <3> QED
      BY <3>2, <3>4, <3>5, <3>6
  <2>10. CASE UnlinkLost(p)
    BY <2>10 DEF UnlinkLost, GoTo
  <2>11. CASE PersistFails(p)
    BY <2>11 DEF PersistFails, GoTo
  <2>12. CASE Exit(p)
    BY <2>12 DEF Exit, GoTo, SetPaused
  <2>13. CASE LoadFails(p)
    <3>1. seen' = seen \/ seen' = [seen EXCEPT ![p] = 0]
      BY <2>13 DEF LoadFails
    <3>2. /\ pc' = [pc EXCEPT ![p] = "idle"]
          /\ paused' = [paused EXCEPT ![p] = FALSE]
          /\ nudged' = [nudged EXCEPT ![p] = @ \/ paused[p]]
          /\ misread' = misread \cup {p}
          /\ UNCHANGED <<file, writes, ticker, failed, overlap>>
      BY <2>13 DEF LoadFails, LoadsNotPaused, GoTo, SetPaused
    <3> QED
      BY <3>1, <3>2
  <2>14. CASE EnterLoop(p)
    BY <2>14 DEF EnterLoop
  <2>15. CASE LeaveLoop(p)
    BY <2>15 DEF LeaveLoop
  <2> QED
    BY <1>2, <2>1, <2>2, <2>3, <2>4, <2>5, <2>6, <2>7, <2>8, <2>9, <2>10,
       <2>11, <2>12, <2>13, <2>14, <2>15 DEF CallStep
<1> QED
  BY <1>1, <1>2 DEF Next

LEMMA PauseInvInit == Init => PauseInv
<1> SUFFICES ASSUME Init PROVE PauseInv
  OBVIOUS
<1> QED
  BY PauseTypeInit
  DEF Init, PauseInv, WritersOverlap, CallKnowsFlag, WrittenIsThere,
      AbsentIsNotPaused, FlagsAreRight, UpToDate, ToldUnlessResuming, WritePc

LEMMA PauseInvStep == PauseInv /\ [Next]_vars => PauseInv'
<1> SUFFICES ASSUME PauseInv, [Next]_vars
             PROVE  /\ WritersOverlap' /\ CallKnowsFlag' /\ WrittenIsThere'
                    /\ AbsentIsNotPaused' /\ FlagsAreRight'
                    /\ ToldUnlessResuming'
  BY PauseTypeStep DEF PauseInv
<1>t. /\ writes \in Nat /\ file \in Nat /\ file <= writes
      /\ \A q \in Proc : /\ seen[q] \in Nat /\ seen[q] <= writes
                         /\ paused[q] \in BOOLEAN /\ nudged[q] \in BOOLEAN
      /\ DOMAIN pc = Proc /\ DOMAIN paused = Proc
      /\ DOMAIN seen = Proc /\ DOMAIN nudged = Proc
      /\ pc = [q \in Proc |-> pc[q]] /\ paused = [q \in Proc |-> paused[q]]
      /\ seen = [q \in Proc |-> seen[q]] /\ nudged = [q \in Proc |-> nudged[q]]
  BY PauseAssumption DEF PauseInv, TypeOK
<1> USE PauseAssumption
     DEF PauseInv, WritersOverlap, CallKnowsFlag, WrittenIsThere,
         AbsentIsNotPaused, FlagsAreRight, UpToDate, FlagIsRight,
         ToldUnlessResuming, WritePc
<1>1. CASE UNCHANGED vars
  BY <1>1 DEF vars
<1>2. ASSUME NEW p \in Proc,
             \/ Configure(p) \/ MaybeReload(p) \/ Pause(p) \/ Resume(p)
             \/ CallStep(p) \/ LoadFails(p) \/ PersistFails(p) \/ Exit(p)
             \/ EnterLoop(p) \/ LeaveLoop(p)
      PROVE  /\ WritersOverlap' /\ CallKnowsFlag' /\ WrittenIsThere'
             /\ AbsentIsNotPaused' /\ FlagsAreRight' /\ ToldUnlessResuming'
  <2>1. CASE Configure(p)
    BY <1>t, <2>1 DEF Configure, GoTo
  <2>2. CASE MaybeReload(p)
    BY <1>t, <2>2 DEF MaybeReload, GoTo
  <2>3. CASE Pause(p)
    BY <1>t, <2>3 DEF Pause, GoTo, SetPaused, NoteOverlap
  <2>4. CASE Resume(p)
    BY <1>t, <2>4 DEF Resume, GoTo, SetPaused, NoteOverlap
  <2>5. CASE LoadSignature(p)
    BY <1>t, <2>5 DEF LoadSignature, LoadsNotPaused, GoTo, SetPaused
  <2>6. CASE LoadContent(p)
    BY <1>t, <2>6 DEF LoadContent, LoadsNotPaused, GoTo, SetPaused
  <2>7. CASE ReplaceFile(p)
    BY <1>t, <2>7 DEF ReplaceFile, GoTo
  <2>8. CASE SignatureAfterWrite(p)
    BY <1>t, <2>8 DEF SignatureAfterWrite, GoTo
  <2>9. CASE RemoveFile(p)
    BY <1>t, <2>9 DEF RemoveFile, GoTo
  <2>10. CASE UnlinkLost(p)
    BY <1>t, <2>10 DEF UnlinkLost, GoTo
  <2>11. CASE PersistFails(p)
    BY <1>t, <2>11 DEF PersistFails, GoTo
  <2>12. CASE Exit(p)
    BY <1>t, <2>12 DEF Exit, GoTo, SetPaused
  <2>13. CASE LoadFails(p)
    BY <1>t, <2>13 DEF LoadFails, LoadsNotPaused, GoTo, SetPaused
  <2>14. CASE EnterLoop(p)
    BY <1>t, <2>14 DEF EnterLoop
  <2>15. CASE LeaveLoop(p)
    BY <1>t, <2>15 DEF LeaveLoop
  <2> QED
    BY <1>2, <2>1, <2>2, <2>3, <2>4, <2>5, <2>6, <2>7, <2>8, <2>9, <2>10,
       <2>11, <2>12, <2>13, <2>14, <2>15 DEF CallStep
<1> QED
  BY <1>1, <1>2 DEF Next

(***************************************************************************)
(* Every variable keeps its type: no process remembers a signature that no *)
(* write had.                                                              *)
(***************************************************************************)
THEOREM PauseTypeCorrect == Spec => []TypeOK
BY PauseTypeInit, PauseTypeStep, PTL DEF Spec

(***************************************************************************)
(* Who takes itself to be up to date with gateway_paused.json is, for any  *)
(* number of processes: a follower always, a writer unless pause and       *)
(* resume calls of two processes overlapped; but for a failed write, and   *)
(* for a process whose own last load failed on a file that was there.      *)
(***************************************************************************)
THEOREM FlagsAreRightHolds == Spec => []FlagsAreRight
<1>1. PauseInv => FlagsAreRight
  BY DEF PauseInv
<1> QED
  BY <1>1, PauseInvInit, PauseInvStep, PTL DEF Spec

(***************************************************************************)
(* A process that may execute again has nudged its runners, whichever way  *)
(* its pause ended.                                                        *)
(***************************************************************************)
THEOREM ResumeIsHeardHolds == Spec => []ResumeIsHeard
<1>1. PauseInv => ResumeIsHeard
  BY DEF PauseInv, ToldUnlessResuming, ResumeIsHeard
<1> QED
  BY <1>1, PauseInvInit, PauseInvStep, PTL DEF Spec

-----------------------------------------------------------------------------
(* The life of a serve process.                                            *)

\* The flag of an accepted restart is only set by a restart, and cleared by
\* whatever overrules it.
RestartFlagIsAsked ==
    /\ restartReq => asked = "restart"
    /\ main = "relaunched" => restartReq

\* server.run() returned, and was marked clean, only without a Ctrl-C.
CleanMeansReturned ==
    /\ main = "returned" => ~interrupted
    /\ cleanExit => ~interrupted /\ main \notin {"serving", "returned"}

\* An accepted restart and an update that runs, or is about to, have met in
\* the one gap between their locks; so have a restart past its checks and an
\* update that runs.
RestartMeetsUpdate ==
    /\ restartReq /\ (job = "running" \/ starter # "none") => raced
    /\ caller = "restart" /\ job = "running" => raced

Positions ==
    /\ main \in MainPc /\ job \in Job /\ starter \in Starter
    /\ caller \in Caller
    /\ asked \in {"none", "restart", "shutdown"}

Flags ==
    /\ registered \in BOOLEAN /\ restartReq \in BOOLEAN
    /\ shutdownReq \in BOOLEAN /\ cleanExit \in BOOLEAN
    /\ shouldExit \in BOOLEAN /\ interrupted \in BOOLEAN
    /\ auto \in BOOLEAN /\ overruled \in BOOLEAN /\ raced \in BOOLEAN

LEMMA PositionsStep ==
    ASSUME Positions, [LifeNext]_lifeVars PROVE Positions'
<1>1. ASSUME NEW kind \in {"manual", "auto"}, StartUpdateChecks(kind)
      PROVE  Positions'
  BY <1>1 DEF StartUpdateChecks, Positions, MainPc, Job, Starter, Caller, update, history
<1>2. CASE RestartChecks
  BY <1>2 DEF RestartChecks, Positions, MainPc, Job, Starter, Caller, update, history
<1>3. CASE ShutdownChecks
  BY <1>3 DEF ShutdownChecks, Positions, MainPc, Job, Starter, Caller, update, history
<1>4. CASE UpdateStarts
  BY <1>4 DEF UpdateStarts, Positions, MainPc, Job, Starter, Caller, update, history
<1>5. CASE UpdateEnds
  BY <1>5 DEF UpdateEnds, Positions, MainPc, Job, Starter, Caller, update, history
<1>6. CASE AutoRestart
  BY <1>6 DEF AutoRestart, Positions, MainPc, Job, Starter, Caller, update, history
<1>7. CASE Sigterm
  BY <1>7 DEF Sigterm, Positions, MainPc, Job, Starter, Caller, update, history
<1>8. CASE SigtermKills
  BY <1>8 DEF SigtermKills, Positions, MainPc, Job, Starter, Caller, update, history
<1>9. CASE Sigint
  BY <1>9 DEF Sigint, ClearRequests, Positions, MainPc, Job, Starter, Caller, update, history
<1>10. CASE ServerReturns
  BY <1>10 DEF ServerReturns, ClearRequests, Positions, MainPc, Job, Starter, Caller, update, history
<1>11. CASE MarkCleanExit
  BY <1>11 DEF MarkCleanExit, Positions, MainPc, Job, Starter, Caller, update, history
<1>12. CASE UnregisterServer
  BY <1>12 DEF UnregisterServer, Positions, MainPc, Job, Starter, Caller, update, history
<1>13. CASE RelaunchOrExit
  BY <1>13 DEF RelaunchOrExit, Positions, MainPc, Job, Starter, Caller, update, history
<1>14. CASE ServerRaises
  BY <1>14 DEF ServerRaises, ClearRequests, Positions, MainPc, Job, Starter, Caller, update, history
<1>15. CASE RelaunchFails
  BY <1>15 DEF RelaunchFails, Positions, MainPc, Job, Starter, Caller, update, history
<1>16. CASE UNCHANGED lifeVars
  BY <1>16 DEF lifeVars, Positions, MainPc, Job, Starter, Caller, update, history
<1>17. CASE RestartAccepted
  BY <1>17 DEF RestartAccepted, Positions, MainPc, Job, Starter, Caller, update, history
<1>18. CASE ShutdownAccepted
  BY <1>18 DEF ShutdownAccepted, Positions, MainPc, Job, Starter, Caller, update, history
<1> QED
  BY <1>1, <1>2, <1>3, <1>4, <1>5, <1>6, <1>7, <1>8, <1>9, <1>10, <1>11, <1>12, <1>13, <1>14, <1>15, <1>16, <1>17, <1>18
     DEF LifeNext, MainStep, RequestReturns

LEMMA FlagsStep == ASSUME Flags, [LifeNext]_lifeVars PROVE Flags'
<1>1. ASSUME NEW kind \in {"manual", "auto"}, StartUpdateChecks(kind)
      PROVE  Flags'
  BY <1>1, Zenon DEF StartUpdateChecks, Flags, requests, update, history
<1>2. CASE RestartChecks
  BY <1>2, Zenon DEF RestartChecks, Flags, requests, update, history
<1>3. CASE ShutdownChecks
  BY <1>3, Zenon DEF ShutdownChecks, Flags, requests, update, history
<1>4. CASE UpdateStarts
  BY <1>4, Zenon DEF UpdateStarts, Flags, requests, update, history
<1>5. CASE UpdateEnds
  BY <1>5, Zenon DEF UpdateEnds, Flags, requests, update, history
<1>6. CASE AutoRestart
  BY <1>6, Zenon DEF AutoRestart, Flags, requests, update, history
<1>7. CASE Sigterm
  BY <1>7, Zenon DEF Sigterm, Flags, requests, update, history
<1>8. CASE SigtermKills
  BY <1>8, Zenon DEF SigtermKills, Flags, requests, update, history
<1>9. CASE Sigint
  BY <1>9, Zenon DEF Sigint, ClearRequests, Flags, requests, update, history
<1>10. CASE ServerReturns
  BY <1>10, Zenon DEF ServerReturns, ClearRequests, Flags, requests, update, history
<1>11. CASE MarkCleanExit
  BY <1>11, Zenon DEF MarkCleanExit, Flags, requests, update, history
<1>12. CASE UnregisterServer
  BY <1>12, Zenon DEF UnregisterServer, Flags, requests, update, history
<1>13. CASE RelaunchOrExit
  BY <1>13, Zenon DEF RelaunchOrExit, Flags, requests, update, history
<1>14. CASE ServerRaises
  BY <1>14, Zenon DEF ServerRaises, ClearRequests, Flags, requests, update, history
<1>15. CASE RelaunchFails
  BY <1>15, Zenon DEF RelaunchFails, Flags, requests, update, history
<1>16. CASE UNCHANGED lifeVars
  BY <1>16, Zenon DEF lifeVars, Flags, requests, update, history
<1>17. CASE RestartAccepted
  BY <1>17, Zenon DEF RestartAccepted, Flags, requests, update, history
<1>18. CASE ShutdownAccepted
  BY <1>18, Zenon DEF ShutdownAccepted, Flags, requests, update, history
<1> QED
  BY <1>1, <1>2, <1>3, <1>4, <1>5, <1>6, <1>7, <1>8, <1>9, <1>10, <1>11, <1>12, <1>13, <1>14, <1>15, <1>16, <1>17, <1>18
     DEF LifeNext, MainStep, RequestReturns

(***************************************************************************)
(* Every variable of the serve process keeps its type: the main thread and *)
(* the update job are always at a position that cli.py and self_update.py  *)
(* have.                                                                   *)
(***************************************************************************)
THEOREM LifeTypeCorrect == LifeSpec => []LifeTypeOK
<1>1. LifeInit => LifeTypeOK
  BY DEF LifeInit, LifeTypeOK, MainPc, Job, Starter, Caller
<1>2. LifeTypeOK <=> Positions /\ Flags
  BY DEF LifeTypeOK, Positions, Flags
<1>3. Positions /\ Flags /\ [LifeNext]_lifeVars => Positions' /\ Flags'
  BY PositionsStep, FlagsStep
<1> QED
  BY <1>1, <1>2, <1>3, PTL DEF LifeSpec

LifeInv == RestartFlagIsAsked /\ CleanMeansReturned /\ RestartMeetsUpdate

LEMMA LifeInvInit == LifeInit => LifeInv
BY DEF LifeInit, LifeInv, RestartFlagIsAsked, CleanMeansReturned,
       RestartMeetsUpdate

LEMMA LifeInvStep == ASSUME LifeInv, [LifeNext]_lifeVars PROVE LifeInv'
<1>1. ASSUME NEW kind \in {"manual", "auto"}, StartUpdateChecks(kind)
      PROVE  LifeInv'
  BY <1>1 DEF StartUpdateChecks, LifeInv, RestartFlagIsAsked, CleanMeansReturned,
     RestartMeetsUpdate, requests, update, history, Ended
<1>2. CASE RestartChecks
  BY <1>2 DEF RestartChecks, MayRestart, LifeInv, RestartFlagIsAsked, CleanMeansReturned,
     RestartMeetsUpdate, requests, update, history, Ended
<1>3. CASE ShutdownChecks
  BY <1>3 DEF ShutdownChecks, LifeInv, RestartFlagIsAsked, CleanMeansReturned,
     RestartMeetsUpdate, requests, update, history, Ended
<1>4. CASE UpdateStarts
  BY <1>4 DEF UpdateStarts, LifeInv, RestartFlagIsAsked, CleanMeansReturned,
     RestartMeetsUpdate, requests, update, history, Ended
<1>5. CASE UpdateEnds
  BY <1>5 DEF UpdateEnds, LifeInv, RestartFlagIsAsked, CleanMeansReturned,
     RestartMeetsUpdate, requests, update, history, Ended
<1>6. CASE AutoRestart
  BY <1>6 DEF AutoRestart, MayRestart, LifeInv, RestartFlagIsAsked, CleanMeansReturned,
     RestartMeetsUpdate, requests, update, history, Ended
<1>7. CASE Sigterm
  BY <1>7 DEF Sigterm, LifeInv, RestartFlagIsAsked, CleanMeansReturned,
     RestartMeetsUpdate, requests, update, history, Ended
<1>8. CASE SigtermKills
  BY <1>8 DEF SigtermKills, LifeInv, RestartFlagIsAsked, CleanMeansReturned,
     RestartMeetsUpdate, requests, update, history, Ended
<1>9. CASE Sigint
  BY <1>9 DEF Sigint, ClearRequests, LifeInv, RestartFlagIsAsked, CleanMeansReturned,
     RestartMeetsUpdate, requests, update, history, Ended
<1>10. CASE ServerReturns
  BY <1>10 DEF ServerReturns, ClearRequests, LifeInv, RestartFlagIsAsked, CleanMeansReturned,
     RestartMeetsUpdate, requests, update, history, Ended
<1>11. CASE MarkCleanExit
  BY <1>11 DEF MarkCleanExit, LifeInv, RestartFlagIsAsked, CleanMeansReturned,
     RestartMeetsUpdate, requests, update, history, Ended
<1>12. CASE UnregisterServer
  BY <1>12 DEF UnregisterServer, LifeInv, RestartFlagIsAsked, CleanMeansReturned,
     RestartMeetsUpdate, requests, update, history, Ended
<1>13. CASE RelaunchOrExit
  BY <1>13 DEF RelaunchOrExit, ShouldRelaunch, LifeInv, RestartFlagIsAsked, CleanMeansReturned,
     RestartMeetsUpdate, requests, update, history, Ended
<1>14. CASE ServerRaises
  BY <1>14 DEF ServerRaises, ClearRequests, LifeInv, RestartFlagIsAsked, CleanMeansReturned,
     RestartMeetsUpdate, requests, update, history, Ended
<1>15. CASE RelaunchFails
  BY <1>15 DEF RelaunchFails, LifeInv, RestartFlagIsAsked, CleanMeansReturned,
     RestartMeetsUpdate, requests, update, history, Ended
<1>16. CASE UNCHANGED lifeVars
  BY <1>16 DEF lifeVars, LifeInv, RestartFlagIsAsked, CleanMeansReturned,
     RestartMeetsUpdate, requests, update, history, Ended
<1>17. CASE RestartAccepted
  BY <1>17 DEF RestartAccepted, LifeInv, RestartFlagIsAsked, CleanMeansReturned,
     RestartMeetsUpdate, requests, update, history, Ended
<1>18. CASE ShutdownAccepted
  BY <1>18 DEF ShutdownAccepted, LifeInv, RestartFlagIsAsked, CleanMeansReturned,
     RestartMeetsUpdate, requests, update, history, Ended
<1> QED
  BY <1>1, <1>2, <1>3, <1>4, <1>5, <1>6, <1>7, <1>8, <1>9, <1>10, <1>11, <1>12, <1>13, <1>14, <1>15, <1>16, <1>17, <1>18
     DEF LifeNext, MainStep, RequestReturns

(***************************************************************************)
(* The process replaces itself only when a restart was the last request it *)
(* accepted and server.run() returned without a Ctrl-C or an exception.    *)
(***************************************************************************)
THEOREM RelaunchWasAskedHolds == LifeSpec => RelaunchWasAsked
<1>1. LifeInv /\ [LifeNext]_lifeVars
        => [main' = "relaunched" /\ main # "relaunched"
              => asked = "restart" /\ ~UncleanEnd /\ ~interrupted]_lifeVars
  <2> SUFFICES ASSUME LifeInv, LifeNext, main' = "relaunched",
                      main # "relaunched"
               PROVE  asked = "restart" /\ ~UncleanEnd /\ ~interrupted
    OBVIOUS
  <2>1. RelaunchOrExit
    BY DEF LifeNext, MainStep, RestartChecks, ShutdownChecks,
           RequestReturns, RestartAccepted, ShutdownAccepted, Ended,
           StartUpdateChecks, UpdateStarts, UpdateEnds, AutoRestart, Sigterm,
           SigtermKills, Sigint, ServerReturns, MarkCleanExit,
           UnregisterServer, ServerRaises, RelaunchFails
  <2> QED
    BY <2>1 DEF RelaunchOrExit, ShouldRelaunch, LifeInv, RestartFlagIsAsked,
                CleanMeansReturned, UncleanEnd
<1>2. LifeInv /\ [LifeNext]_lifeVars => LifeInv'
  BY LifeInvStep
<1> QED
  BY <1>1, <1>2, LifeInvInit, PTL DEF LifeSpec, RelaunchWasAsked

(***************************************************************************)
(* The process does not replace itself while the installer runs, unless    *)
(* request_restart and start_update had each passed its checks before the  *)
(* other left its mark.                                                    *)
(***************************************************************************)
THEOREM NoRelaunchMidInstallHolds == LifeSpec => []NoRelaunchMidInstall
<1>1. LifeInv => NoRelaunchMidInstall
  BY DEF LifeInv, RestartFlagIsAsked, RestartMeetsUpdate,
         NoRelaunchMidInstall
<1>2. LifeInv /\ [LifeNext]_lifeVars => LifeInv'
  BY LifeInvStep
<1> QED
  BY <1>1, <1>2, LifeInvInit, PTL DEF LifeSpec
=============================================================================
