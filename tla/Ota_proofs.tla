----------------------------- MODULE Ota_proofs -----------------------------
(***************************************************************************)
(* One update at a time, released by its own task, reported truthfully:    *)
(* proved for every set of tasks, builds and messages.                     *)
(***************************************************************************)
EXTENDS Ota, TLAPS

\* Started, and otaRunning not set yet.
Early == {t \in Tasks : pc[t] \in {"parse", "take", "announce"}}

\* While a task is on its way to otaRunning the interval lets no other start.
TurnInv ==
  /\ cooled => Early = {}
  /\ \A t, u \in Early : t = u
  /\ running <=> Updating # {}
  /\ running => Early = {}
  /\ OneUpdate

Holds(t) ==
  /\ pc[t] \in {"request", "download", "end", "mark", "reset", "resume"}
  /\ ~local[t].keep

PauseInv == paused => \E t \in Tasks : Holds(t)

\* What the report reads is right in every state that can be cut.
ReportInv ==
  /\ \A t \in Tasks : pc[t] \in {"mark", "reset"} => next = local[t].build
  /\ \A t \in Tasks : pc[t] = "reset" => marker \in {NoBuild, next}
  /\ (\A t \in Tasks : pc[t] \notin {"mark", "reset"}) => next = image
  /\ (\A t \in Tasks : pc[t] # "mark") /\ ~torn => marker \in {NoBuild, next}
  /\ ReportIsTrue

IInv == TypeOK /\ TurnInv /\ PauseInv /\ ReportInv

\* What a task that has ended leaves behind is typed.
LEMMA FreshTyped == Fresh \in Locals
BY OtaAssumption DEF Fresh, Locals

\* Every step keeps the types.
LEMMA TypeNext == TypeOK /\ [Next]_vars => TypeOK'
<1> SUFFICES ASSUME TypeOK, [Next]_vars PROVE TypeOK'
  OBVIOUS
<1> USE DEF TypeOK, Messages, Steps, mailVars, reportVars, taskVars, netVars, flash, debt
<1>1. ASSUME NEW m \in Messages, OnUpdateMessage(m) PROVE TypeOK'
  BY <1>1 DEF OnUpdateMessage
<1>2. CASE RunUpdateCallback
  BY <1>2 DEF RunUpdateCallback
<1>3. CASE ReportComplete
  BY <1>3 DEF ReportComplete
<1>4. CASE ClearMarker
  BY <1>4 DEF ClearMarker
<1>5. CASE Loop
  BY <1>5 DEF Loop, Creates
<1>6. CASE Cools
  BY <1>6 DEF Cools
<1>7. ASSUME NEW t \in Tasks, TaskStep(t) PROVE TypeOK'
  <2>1. CASE Parse(t)
    <3>1. pc' \in [Tasks -> Steps]
      BY <2>1 DEF Parse, Goes, Ends
    <3>2. local' \in [Tasks -> Locals]
      <4>1. CASE inbox \in Builds
        BY <2>1, <4>1 DEF Parse, Locals
      <4>2. CASE inbox \notin Builds
        BY <2>1, <4>2, FreshTyped DEF Parse, Ends
      <4> QED BY <4>1, <4>2
    <3> QED BY <2>1, <3>1, <3>2 DEF Parse
  <2>2. CASE Take(t)
    BY <2>2 DEF Take, Goes
  <2>3. CASE Announce(t)
    BY <2>3 DEF Announce, Goes, Locals
  <2>4. CASE Refused(t)
    BY <2>4, FreshTyped DEF Refused, Goes, Ends
  <2>5. CASE Resume(t)
    BY <2>5, FreshTyped DEF Resume, Goes, Ends
  <2>6. CASE Accepted(t)
    BY <2>6 DEF Accepted, Goes
  <2>7. CASE Download(t)
    BY <2>7, OtaAssumption DEF Download, Locals
  <2>8. CASE DownloadEnds(t)
    BY <2>8 DEF DownloadEnds, Goes
  <2>9. CASE UpdateEnds(t)
    BY <2>9 DEF UpdateEnds, Goes, Locals
  <2>10. CASE UpdateFails(t)
    BY <2>10 DEF UpdateFails, Goes
  <2>11. CASE Release(t)
    BY <2>11, FreshTyped DEF Release, Goes, Ends
  <2>12. CASE Mark(t)
    BY <2>12 DEF Mark, Goes, Locals
  <2>13. CASE Reset(t)
    BY <2>13, FreshTyped DEF Reset, Restart, Idle
  <2> QED BY <1>7, <2>1, <2>2, <2>3, <2>4, <2>5, <2>6, <2>7, <2>8, <2>9, <2>10, <2>11, <2>12,
             <2>13
             DEF TaskStep
<1>8. CASE PowerCut
  BY <1>8, FreshTyped DEF PowerCut, Restart, Idle
<1>9. CASE LinkChanges
  BY <1>9 DEF LinkChanges
<1>10. CASE ClassChanges
  BY <1>10 DEF ClassChanges
<1>11. CASE UNCHANGED vars
  BY <1>11 DEF vars
<1> QED BY <1>1, <1>2, <1>3, <1>4, <1>5, <1>6, <1>7, <1>8, <1>9, <1>10, <1>11 DEF Next

\* No step lets a second update begin.
LEMMA TurnNext == TypeOK /\ TurnInv /\ [Next]_vars => TurnInv'
<1> SUFFICES ASSUME TypeOK /\ TurnInv, [Next]_vars PROVE TurnInv'
  OBVIOUS
<1> USE DEF TypeOK, Messages, Steps, TurnInv, Early, Updating, OneUpdate, Fresh, mailVars,
            reportVars, taskVars, netVars, flash, debt
<1>1. ASSUME NEW m \in Messages, OnUpdateMessage(m) PROVE TurnInv'
  BY <1>1 DEF OnUpdateMessage
<1>2. CASE RunUpdateCallback
  BY <1>2 DEF RunUpdateCallback
<1>3. CASE ReportComplete
  BY <1>3 DEF ReportComplete
<1>4. CASE ClearMarker
  BY <1>4 DEF ClearMarker
<1>5. CASE Loop
  BY <1>5 DEF Loop, Creates
<1>6. CASE Cools
  BY <1>6 DEF Cools
<1>7. ASSUME NEW t \in Tasks, TaskStep(t) PROVE TurnInv'
  <2>1. CASE Parse(t)
    BY <2>1 DEF Parse, Goes, Ends
  <2>2. CASE Take(t)
    BY <2>2 DEF Take, Goes
  <2>3. CASE Announce(t)
    BY <2>3 DEF Announce, Goes
  <2>4. CASE Refused(t)
    BY <2>4 DEF Refused, Goes, Ends
  <2>5. CASE Resume(t)
    BY <2>5 DEF Resume, Goes, Ends
  <2>6. CASE Accepted(t)
    BY <2>6 DEF Accepted, Goes
  <2>7. CASE Download(t)
    BY <2>7 DEF Download
  <2>8. CASE DownloadEnds(t)
    BY <2>8 DEF DownloadEnds, Goes
  <2>9. CASE UpdateEnds(t)
    BY <2>9 DEF UpdateEnds, Goes
  <2>10. CASE UpdateFails(t)
    BY <2>10 DEF UpdateFails, Goes
  <2>11. CASE Release(t)
    BY <2>11 DEF Release, Goes, Ends
  <2>12. CASE Mark(t)
    BY <2>12 DEF Mark, Goes
  <2>13. CASE Reset(t)
    BY <2>13 DEF Reset, Restart, Idle
  <2> QED BY <1>7, <2>1, <2>2, <2>3, <2>4, <2>5, <2>6, <2>7, <2>8, <2>9, <2>10, <2>11, <2>12,
             <2>13
             DEF TaskStep
<1>8. CASE PowerCut
  BY <1>8 DEF PowerCut, Restart, Idle
<1>9. CASE LinkChanges
  BY <1>9 DEF LinkChanges
<1>10. CASE ClassChanges
  BY <1>10 DEF ClassChanges
<1>11. CASE UNCHANGED vars
  BY <1>11 DEF vars
<1> QED BY <1>1, <1>2, <1>3, <1>4, <1>5, <1>6, <1>7, <1>8, <1>9, <1>10, <1>11 DEF Next

\* Every step leaves a pause to a task that will end it.
LEMMA PauseNext == TypeOK /\ TurnInv /\ PauseInv /\ [Next]_vars => PauseInv'
<1> SUFFICES ASSUME TypeOK /\ TurnInv /\ PauseInv, [Next]_vars PROVE PauseInv'
  OBVIOUS
<1> USE DEF TypeOK, Messages, Steps, TurnInv, Early, Updating, OneUpdate, PauseInv, Holds, Fresh,
            mailVars, reportVars, taskVars, netVars, flash, debt
<1>1. ASSUME NEW m \in Messages, OnUpdateMessage(m) PROVE PauseInv'
  BY <1>1 DEF OnUpdateMessage
<1>2. CASE RunUpdateCallback
  BY <1>2 DEF RunUpdateCallback
<1>3. CASE ReportComplete
  BY <1>3 DEF ReportComplete
<1>4. CASE ClearMarker
  BY <1>4 DEF ClearMarker
<1>5. CASE Loop
  BY <1>5 DEF Loop, Creates
<1>6. CASE Cools
  BY <1>6 DEF Cools
<1>7. ASSUME NEW t \in Tasks, TaskStep(t) PROVE PauseInv'
  <2>1. CASE Parse(t)
    BY <2>1 DEF Parse, Goes, Ends
  <2>2. CASE Take(t)
    BY <2>2 DEF Take, Goes
  <2>3. CASE Announce(t)
    BY <2>3 DEF Announce, Goes
  <2>4. CASE Refused(t)
    BY <2>4 DEF Refused, Goes, Ends
  <2>5. CASE Resume(t)
    BY <2>5 DEF Resume, Goes, Ends
  <2>6. CASE Accepted(t)
    BY <2>6 DEF Accepted, Goes
  <2>7. CASE Download(t)
    BY <2>7 DEF Download
  <2>8. CASE DownloadEnds(t)
    BY <2>8 DEF DownloadEnds, Goes
  <2>9. CASE UpdateEnds(t)
    BY <2>9 DEF UpdateEnds, Goes
  <2>10. CASE UpdateFails(t)
    BY <2>10 DEF UpdateFails, Goes
  <2>11. CASE Release(t)
    BY <2>11 DEF Release, Goes, Ends
  <2>12. CASE Mark(t)
    BY <2>12 DEF Mark, Goes
  <2>13. CASE Reset(t)
    BY <2>13 DEF Reset, Restart, Idle
  <2> QED BY <1>7, <2>1, <2>2, <2>3, <2>4, <2>5, <2>6, <2>7, <2>8, <2>9, <2>10, <2>11, <2>12,
             <2>13
             DEF TaskStep
<1>8. CASE PowerCut
  BY <1>8 DEF PowerCut, Restart, Idle
<1>9. CASE LinkChanges
  BY <1>9 DEF LinkChanges
<1>10. CASE ClassChanges
  BY <1>10 DEF ClassChanges
<1>11. CASE UNCHANGED vars
  BY <1>11 DEF vars
<1> QED BY <1>1, <1>2, <1>3, <1>4, <1>5, <1>6, <1>7, <1>8, <1>9, <1>10, <1>11 DEF Next

\* Every step keeps the marker, the images and the report together.
LEMMA ReportNext == TypeOK /\ TurnInv /\ ReportInv /\ [Next]_vars => ReportInv'
<1> SUFFICES ASSUME TypeOK /\ TurnInv /\ ReportInv, [Next]_vars PROVE ReportInv'
  OBVIOUS
<1> USE DEF TypeOK, Messages, Steps, TurnInv, Early, Updating, OneUpdate, ReportInv, ReportIsTrue,
            Fresh, mailVars, reportVars, taskVars, netVars, flash, debt
<1>1. ASSUME NEW m \in Messages, OnUpdateMessage(m) PROVE ReportInv'
  BY <1>1 DEF OnUpdateMessage
<1>2. CASE RunUpdateCallback
  BY <1>2 DEF RunUpdateCallback
<1>3. CASE ReportComplete
  BY <1>3 DEF ReportComplete
<1>4. CASE ClearMarker
  BY <1>4 DEF ClearMarker
<1>5. CASE Loop
  BY <1>5 DEF Loop, Creates
<1>6. CASE Cools
  BY <1>6 DEF Cools
<1>7. ASSUME NEW t \in Tasks, TaskStep(t) PROVE ReportInv'
  <2>1. CASE Parse(t)
    BY <2>1 DEF Parse, Goes, Ends
  <2>2. CASE Take(t)
    BY <2>2 DEF Take, Goes
  <2>3. CASE Announce(t)
    BY <2>3 DEF Announce, Goes
  <2>4. CASE Refused(t)
    BY <2>4 DEF Refused, Goes, Ends
  <2>5. CASE Resume(t)
    BY <2>5 DEF Resume, Goes, Ends
  <2>6. CASE Accepted(t)
    BY <2>6 DEF Accepted, Goes
  <2>7. CASE Download(t)
    BY <2>7 DEF Download
  <2>8. CASE DownloadEnds(t)
    BY <2>8 DEF DownloadEnds, Goes
  <2>9. CASE UpdateEnds(t)
    BY <2>9 DEF UpdateEnds, Goes
  <2>10. CASE UpdateFails(t)
    BY <2>10 DEF UpdateFails, Goes
  <2>11. CASE Release(t)
    BY <2>11 DEF Release, Goes, Ends
  <2>12. CASE Mark(t)
    BY <2>12 DEF Mark, Goes
  <2>13. CASE Reset(t)
    BY <2>13 DEF Reset, Restart, Idle
  <2> QED BY <1>7, <2>1, <2>2, <2>3, <2>4, <2>5, <2>6, <2>7, <2>8, <2>9, <2>10, <2>11, <2>12,
             <2>13
             DEF TaskStep
<1>8. CASE PowerCut
  BY <1>8 DEF PowerCut, Restart, Idle
<1>9. CASE LinkChanges
  BY <1>9 DEF LinkChanges
<1>10. CASE ClassChanges
  BY <1>10 DEF ClassChanges
<1>11. CASE UNCHANGED vars
  BY <1>11 DEF vars
<1> QED BY <1>1, <1>2, <1>3, <1>4, <1>5, <1>6, <1>7, <1>8, <1>9, <1>10, <1>11 DEF Next

\* A board that starts up satisfies all of it.
LEMMA InitInv == Init => IInv
<1> SUFFICES ASSUME Init PROVE IInv
  OBVIOUS
<1> USE DEF Init, Idle
<1>1. TypeOK
  BY FreshTyped DEF TypeOK, Steps
<1>2. TurnInv
  BY DEF TurnInv, Early, Updating, OneUpdate
<1>3. PauseInv /\ ReportInv
  BY DEF PauseInv, ReportInv, ReportIsTrue
<1> QED BY <1>1, <1>2, <1>3 DEF IInv

\* Turns, pauses and reports hold one another up at every step.
THEOREM Inductive == Spec => []IInv
<1>1. IInv /\ [Next]_vars => IInv'
  BY TypeNext, TurnNext, PauseNext, ReportNext DEF IInv
<1> QED BY <1>1, InitInv, PTL DEF Spec

\* The state has its types.
THEOREM TypeCorrect == Spec => []TypeOK
<1>1. IInv => TypeOK
  BY DEF IInv
<1> QED BY <1>1, Inductive, PTL

\* Two updates never run at once: retryInterval sees to it.
THEOREM UpdatesTakeTurns == Spec => []OneUpdate
<1>1. IInv => OneUpdate
  BY DEF IInv, TurnInv
<1> QED BY <1>1, Inductive, PTL

\* Main loop and connection are suspended for a task that will release them.
THEOREM SuspensionIsOwned == Spec => []SuspensionHasOwner
<1>1. IInv => SuspensionHasOwner
  BY DEF IInv, TurnInv, PauseInv, Holds, SuspensionHasOwner
<1> QED BY <1>1, Inductive, PTL

\* A build reported complete is the build that runs.
THEOREM ReportsAreTrue == Spec => []ReportIsTrue
<1>1. IInv => ReportIsTrue
  BY DEF IInv, ReportInv
<1> QED BY <1>1, Inductive, PTL
=============================================================================
