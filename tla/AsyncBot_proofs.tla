---------------------------- MODULE AsyncBot_proofs ----------------------------
(* Proofs about AsyncBot, for any number of search ids and whether or not the    *)
(* search may raise: its type invariant, its safety invariants, its action        *)
(* properties, and that every step of it is a step of SearchService or none; then   *)
(* about GTPEngine, which drives the bot: for any boards, files and commands, that  *)
(* its records of the game agree.  What moves lead to is defined move by move, and    *)
(* Induction gets facts about it from the well-foundedness of <.                       *)
EXTENDS AsyncBot, GTPEngine, SequenceTheorems, WellFoundedInduction, TLAPS

(* Only a running search occupies the search thread.                             *)
SearchThreadInv ==
  searchPc \in Busy \cup {"failed", "aborted"} => isRunning

(* The callback thread lives between its launch and its join only, and only for   *)
(* a search that reports.                                                         *)
CallbackInv ==
  /\ callbackPc # "none" =>
       searchPc \in {"begin", "searching", "stopCallbacks", "join", "aborted"}
  /\ searchPc \in {"begin", "searching"} /\ ~queued.reports => callbackPc = "none"

(* The flag is up from the moment the search sees it to its end, and something    *)
(* later than the acceptance of the search raised it.                             *)
StopInv ==
  /\ searchPc \in {"stopCallbacks", "join", "finish"} => shouldStopNow
  /\ isRunning /\ shouldStopNow => stopCause

(* The client is in a call, or it is idle and there is none.                      *)
ClientInv ==
  /\ clientPc = "idle" => call.kind = "none"
  /\ clientPc = "edit" => ~isRunning
  /\ isRunning /\ queued.onMove = "sync" =>
       /\ call.kind = "waitForSearchToEnd"
       /\ clientPc \in {"lock", "parked", "recheck", "aborted"}
  /\ call.kind = "waitForSearchToEnd" =>
       IF isRunning THEN queued.onMove = "sync" ELSE moveLoc = "move" \/ isKilled

(* The id the client is about to give to genMoveAsync has not been used, and the   *)
(* one the running search has is not answered.                                    *)
IdInv ==
  /\ IF queued.onMove = "async" THEN queued.id \in SearchIds ELSE queued.id = 0
  /\ IF call.kind = "genMoveAsync"
       THEN /\ call.id \in SearchIds
            /\ answers[call.id] = 0
            /\ ~(isRunning /\ queued.id = call.id)
            /\ clientPc # "idle"
       ELSE call.id = 0

Inv ==
  /\ TypeOK
  /\ SearchThreadInv
  /\ CallbackInv
  /\ StopInv
  /\ ClientInv
  /\ IdInv
  /\ AnsweredOnce

-------------------------------------------------------------------------------
(* The records that calls and acceptances build are of their types.               *)
LEMMA CallType ==
  ASSUME NEW kind \in SearchCalls \cup StopCalls \cup {"none", "waitForSearchToEnd"}
  PROVE  PlainCall(kind) \in Calls
BY ConstantsAssumption DEF ConstantsAssumption, PlainCall, Calls

(* No call is a call too.                                                         *)
LEMMA NoCallType == NoCall \in Calls /\ NoCall.kind = "none" /\ NoCall.id = 0
BY CallType DEF NoCall, PlainCall

(* The variables start out in their types.                                        *)
LEMMA InitTypeOK == Init => TypeOK
<1> SUFFICES ASSUME Init PROVE TypeOK
  OBVIOUS
<1>1. queued \in Queued
  BY ConstantsAssumption DEF ConstantsAssumption, Init, Queued, OnMoves
<1>2. answers \in [SearchIds -> 0..2]
  BY DEF Init
<1> QED
  BY <1>1, <1>2, NoCallType DEF Init, TypeOK, SearchPcs, CallbackPcs, ClientPcs

(* Every step keeps every variable in its type; that answers stays in 0..2 needs   *)
(* that an id still to be answered is not answered yet.                            *)
LEMMA NextTypeOK == Inv /\ [Next]_vars => TypeOK'
<1> SUFFICES ASSUME Inv, [Next]_vars PROVE TypeOK'
  OBVIOUS
<1> TypeOK
  BY DEF Inv
<1> USE DEF TypeOK, vars, botVars, searchVars, clientVars, history
<1>1. ASSUME NEW kind \in SearchCalls, NEW id \in 0..MaxSearchId,
             NEW reports \in BOOLEAN, CallSearch(kind, id, reports)
      PROVE  TypeOK'
  <2>1. [kind |-> kind, id |-> id, reports |-> reports] \in Calls
    BY DEF Calls
  <2> QED
    BY <1>1, <2>1 DEF CallSearch, ClientPcs
<1>2. ASSUME NEW kind \in StopCalls, CallStopAndWait(kind) PROVE TypeOK'
  <2>1. PlainCall(kind) \in Calls
    BY CallType
  <2> QED
    BY <1>2, <2>1 DEF CallStopAndWait, StoreStop, ClientPcs
<1>3. CASE WaitForSearchToEnd
  BY <1>3 DEF WaitForSearchToEnd, StopIfEntering, StoreStop, ClientPcs
<1>4. CASE AcceptSearch
  <2>1. queued' \in Queued
    BY <1>4 DEF AcceptSearch, Enqueue, Queued, Calls, OnMoves
  <2>2. clientPc' \in ClientPcs /\ call' \in Calls
    BY <1>4, CallType, NoCallType DEF AcceptSearch, ReturnFromSearchCall, ClientPcs
  <2> QED
    BY <1>4, <2>1, <2>2 DEF AcceptSearch, Enqueue, NotifySearchThread, SearchPcs
<1>5. CASE RefuseSearch
  <2>1. clientPc' \in ClientPcs /\ call' \in Calls
    BY <1>5, CallType, NoCallType DEF RefuseSearch, ReturnFromSearchCall, ClientPcs
  <2> QED
    BY <1>5, <2>1 DEF RefuseSearch, StopIfEntering, StoreStop
<1>6. CASE Ponder
  <2>1. queued' \in Queued
    BY <1>6, ConstantsAssumption
    DEF ConstantsAssumption, Ponder, Enqueue, Queued, OnMoves
  <2> QED
    BY <1>6, <2>1 DEF Ponder, Enqueue, NotifySearchThread, SearchPcs
<1>7. CASE SearchHasEnded
  BY <1>7, NoCallType DEF SearchHasEnded, ClientPcs
<1>8. CASE FinishSetup
  BY <1>8, NoCallType DEF FinishSetup, ClientPcs
<1>9. CASE DestructorKills
  BY <1>9 DEF DestructorKills, ClientPcs, NotifySearchThread, SearchPcs, Busy
<1>10. CASE DestructorJoins
  BY <1>10 DEF DestructorJoins, ClientPcs
<1>11. CASE ClientSpuriousWakeup
  BY <1>11 DEF ClientSpuriousWakeup, ClientPcs
<1>12. CASE StopWithoutWait
  BY <1>12 DEF StopWithoutWait, StoreStop
<1>13. CASE SetKilled
  BY <1>13 DEF SetKilled, StoreStop, NotifySearchThread, SearchPcs
<1>14. CASE SearchThreadWaits
  BY <1>14 DEF SearchThreadWaits, SearchPcs, Busy
<1>15. CASE SearchThreadSpuriousWakeup
  BY <1>15 DEF SearchThreadSpuriousWakeup, SearchPcs, Busy
<1>16. CASE SearchThreadExits
  <2>1. queued' \in Queued
    BY <1>16 DEF SearchThreadExits, Queued
  <2> QED
    BY <1>16, <2>1 DEF SearchThreadExits, NotifyClient, ClientPcs, SearchPcs
<1>17. CASE TakeSearch
  BY <1>17 DEF TakeSearch, SearchPcs, Busy
<1>18. CASE LaunchCallbacks
  BY <1>18 DEF LaunchCallbacks, CallbackPcs, SearchPcs, Busy
<1>19. CASE SearchBegun
  BY <1>19 DEF SearchBegun, SearchPcs, Busy
<1>20. CASE SearchReachesLimit
  BY <1>20 DEF SearchReachesLimit, StoreStop
<1>21. CASE SearchStops
  BY <1>21 DEF SearchStops, SearchPcs, Busy
<1>22. CASE StopCallbacks
  BY <1>22 DEF StopCallbacks, SearchPcs, Busy
<1>23. CASE JoinCallbacks
  BY <1>23 DEF JoinCallbacks, CallbackPcs, SearchPcs, Busy
<1>24. CASE FinishSearch
  <2>1. queued' \in Queued
    BY <1>24 DEF FinishSearch, Queued
  <2>2. answers' \in [SearchIds -> 0..2]
    BY <1>24
    DEF FinishSearch, CallOnMove, Inv, IdInv, AnsweredOnce, SearchThreadInv, Busy
  <2> QED
    BY <1>24, <2>1, <2>2
    DEF FinishSearch, CallOnMove, NotifyClient, ClientPcs, SearchPcs
<1>25. CASE SearchThrows
  BY <1>25 DEF SearchThrows, CallbackPcs, SearchPcs, ClientPcs
<1>26. CASE CallbackLoopEnds
  BY <1>26 DEF CallbackLoopEnds, CallbackPcs
<1>27. CASE BeginReport
  BY <1>27 DEF BeginReport, CallbackPcs
<1>28. CASE EndReport
  BY <1>28 DEF EndReport, CallbackPcs
<1>29. CASE Over
  BY <1>29 DEF Over
<1>30. CASE UNCHANGED vars
  BY <1>30
<1> QED
  BY <1>1, <1>2, <1>3, <1>4, <1>5, <1>6, <1>7, <1>8, <1>9, <1>10, <1>11,
     <1>12, <1>13, <1>14, <1>15, <1>16, <1>17, <1>18, <1>19, <1>20, <1>21,
     <1>22, <1>23, <1>24, <1>25, <1>26, <1>27, <1>28, <1>29, <1>30
  DEF Next, ClientCalls, ClientContinues, Environment, SearchThread, CallbackThread

(* The invariant holds of a bot just constructed.                                 *)
LEMMA InitInv == Init => Inv
<1> SUFFICES ASSUME Init PROVE Inv
  OBVIOUS
<1>1. TypeOK
  BY InitTypeOK
<1>2. AnsweredOnce
  BY ConstantsAssumption DEF ConstantsAssumption, Init, AnsweredOnce, SearchIds
<1> QED
  BY <1>1, <1>2, NoCallType
  DEF Init, Inv, SearchThreadInv, CallbackInv, StopInv, ClientInv, IdInv, Busy

(* Every step preserves the invariant: one case per action.                        *)
LEMMA NextInv == Inv /\ [Next]_vars => Inv'
<1> SUFFICES ASSUME Inv, [Next]_vars PROVE Inv'
  OBVIOUS
<1>1. TypeOK /\ TypeOK'
  BY NextTypeOK DEF Inv
<1> DEFINE Parts == /\ SearchThreadInv /\ CallbackInv /\ StopInv
                    /\ ClientInv /\ IdInv /\ AnsweredOnce
<1> SUFFICES Parts'
  BY <1>1 DEF Inv
<1> Parts
  BY DEF Inv
<1> USE <1>1 DEF SearchThreadInv, CallbackInv, StopInv, ClientInv, IdInv, AnsweredOnce,
      Busy, vars, botVars, searchVars, clientVars, history
<1>2. ASSUME NEW kind \in SearchCalls, NEW id \in 0..MaxSearchId,
             NEW reports \in BOOLEAN, CallSearch(kind, id, reports)
      PROVE  Parts'
  BY <1>2 DEF CallSearch, UnusedIds, SearchCalls
<1>3. ASSUME NEW kind \in StopCalls, CallStopAndWait(kind) PROVE Parts'
  BY <1>3 DEF CallStopAndWait, StoreStop, PlainCall, StopCalls
<1>4. CASE WaitForSearchToEnd
  BY <1>4 DEF WaitForSearchToEnd, StopIfEntering, StoreStop
<1>5. CASE AcceptSearch
  BY <1>5
  DEF AcceptSearch, Enqueue, NotifySearchThread, ReturnFromSearchCall, PlainCall,
      NoCall, SearchCalls, SearchIds, TypeOK, SearchPcs, CallbackPcs, ClientPcs
<1>6. CASE RefuseSearch
  BY <1>6
  DEF RefuseSearch, StopIfEntering, StoreStop, ReturnFromSearchCall, PlainCall,
      NoCall, SearchCalls
<1>7. CASE Ponder
  BY <1>7 DEF Ponder, Enqueue, NotifySearchThread, SearchIds
<1>8. CASE SearchHasEnded
  BY <1>8 DEF SearchHasEnded, NoCall, PlainCall, StopCalls
<1>9. CASE FinishSetup
  BY <1>9 DEF FinishSetup, NoCall, PlainCall
<1>10. CASE DestructorKills
  BY <1>10 DEF DestructorKills, NotifySearchThread
<1>11. CASE DestructorJoins
  BY <1>11 DEF DestructorJoins
<1>12. CASE ClientSpuriousWakeup
  BY <1>12 DEF ClientSpuriousWakeup
<1>13. CASE StopWithoutWait
  BY <1>13 DEF StopWithoutWait, StoreStop
<1>14. CASE SetKilled
  BY <1>14 DEF SetKilled, StoreStop, NotifySearchThread
<1>15. CASE SearchThreadWaits
  BY <1>15 DEF SearchThreadWaits
<1>16. CASE SearchThreadSpuriousWakeup
  BY <1>16 DEF SearchThreadSpuriousWakeup
<1>17. CASE SearchThreadExits
  BY <1>17 DEF SearchThreadExits, NotifyClient, TypeOK, Queued
<1>18. CASE TakeSearch
  BY <1>18 DEF TakeSearch
<1>19. CASE LaunchCallbacks
  BY <1>19 DEF LaunchCallbacks, TypeOK, Queued
<1>20. CASE SearchBegun
  BY <1>20 DEF SearchBegun
<1>21. CASE SearchReachesLimit
  BY <1>21 DEF SearchReachesLimit, StoreStop
<1>22. CASE SearchStops
  BY <1>22 DEF SearchStops
<1>23. CASE StopCallbacks
  BY <1>23 DEF StopCallbacks
<1>24. CASE JoinCallbacks
  BY <1>24 DEF JoinCallbacks
<1>25. CASE FinishSearch
  BY <1>25
  DEF FinishSearch, CallOnMove, NotifyClient, TypeOK, Queued, OnMoves, SearchIds
<1>26. CASE SearchThrows
  BY <1>26 DEF SearchThrows
<1>27. CASE CallbackLoopEnds
  BY <1>27 DEF CallbackLoopEnds
<1>28. CASE BeginReport
  BY <1>28 DEF BeginReport
<1>29. CASE EndReport
  BY <1>29 DEF EndReport
<1>30. CASE Over
  BY <1>30 DEF Over
<1>31. CASE UNCHANGED vars
  BY <1>31
<1> QED
  BY <1>2, <1>3, <1>4, <1>5, <1>6, <1>7, <1>8, <1>9, <1>10, <1>11, <1>12,
     <1>13, <1>14, <1>15, <1>16, <1>17, <1>18, <1>19, <1>20, <1>21, <1>22,
     <1>23, <1>24, <1>25, <1>26, <1>27, <1>28, <1>29, <1>30, <1>31
  DEF Next, ClientCalls, ClientContinues, Environment, SearchThread, CallbackThread

(* The inductive invariant holds in every state of every behaviour.               *)
THEOREM Invariance == Spec => []Inv
BY InitInv, NextInv, PTL DEF Spec

(* No variable ever leaves its type: in particular queuedSearchId always is an id   *)
(* that onMove may be called with.                                                 *)
THEOREM TypeCorrect == Spec => []TypeOK
<1>1. Inv => TypeOK
  BY DEF Inv
<1> QED
  BY <1>1, Invariance, PTL

(* A setter that got past stopAndWait has the Search object to itself, until it      *)
(* returns: neither the search thread nor an analysis callback uses it.             *)
THEOREM EditsAreExclusive == Spec => []EditsAlone
<1>1. Inv => EditsAlone
  BY DEF Inv, EditsAlone, SearchThreadInv, CallbackInv, ClientInv, Busy
<1> QED
  BY <1>1, Invariance, PTL

(* When a search has answered, no analysis callback of it is or will be running.     *)
THEOREM AnswerIsLast == Spec => []NoReportAfterAnswer
<1>1. Inv => NoReportAfterAnswer
  BY DEF Inv, NoReportAfterAnswer, SearchThreadInv, CallbackInv, Busy
<1> QED
  BY <1>1, Invariance, PTL

(* While a search can still write to the local variable of a genMoveSynchronous,     *)
(* that call has not returned.                                                       *)
THEOREM SyncLocalOutlivesSearch == Spec => []SyncCallerStillWaits
<1>1. Inv => SyncCallerStillWaits
  BY DEF Inv, SyncCallerStillWaits, ClientInv
<1> QED
  BY <1>1, Invariance, PTL

(* Every accepted genMoveAsync gets its onMove exactly once, at its end, unless the  *)
(* bot is killed first.                                                              *)
THEOREM OneAnswerPerSearch == Spec => []AnsweredOnce
<1>1. Inv => AnsweredOnce
  BY DEF Inv
<1> QED
  BY <1>1, Invariance, PTL

(* A search that sees the stop flag up was asked to stop after its own acceptance.   *)
THEOREM StopsAreFresh == Spec => []NoStaleStop
<1>1. Inv => NoStaleStop
  BY DEF Inv, StopInv, NoStaleStop
<1> QED
  BY <1>1, Invariance, PTL

-------------------------------------------------------------------------------
(* Only an acceptance lowers the flag, and nothing is accepted over a search that    *)
(* runs.                                                                             *)
LEMMA StepKeepsStop ==
  Next /\ isRunning /\ shouldStopNow => shouldStopNow'
<1> SUFFICES ASSUME Next, isRunning, shouldStopNow PROVE shouldStopNow'
  OBVIOUS
<1> USE DEF vars, botVars, searchVars, clientVars, history, StoreStop
<1>1. CASE ClientCalls
  BY <1>1 DEF ClientCalls, CallSearch, CallStopAndWait, Ponder
<1>2. CASE ClientContinues
  BY <1>2
  DEF ClientContinues, WaitForSearchToEnd, StopIfEntering, AcceptSearch, RefuseSearch,
      SearchHasEnded, FinishSetup, DestructorKills, DestructorJoins
<1>3. CASE Environment
  BY <1>3
  DEF Environment, StopWithoutWait, SetKilled, ClientSpuriousWakeup,
      SearchThreadSpuriousWakeup
<1>4. CASE SearchThread
  BY <1>4
  DEF SearchThread, SearchThreadWaits, SearchThreadExits, TakeSearch, LaunchCallbacks,
      SearchBegun, SearchStops, StopCallbacks, JoinCallbacks, FinishSearch
<1>5. CASE SearchReachesLimit \/ SearchThrows \/ CallbackThread \/ Over
  BY <1>5
  DEF SearchReachesLimit, SearchThrows, CallbackThread, CallbackLoopEnds, BeginReport,
      EndReport, Over
<1> QED
  BY <1>1, <1>2, <1>3, <1>4, <1>5 DEF Next

(* A stop that reached a search stays up for as long as the search lasts.            *)
THEOREM StopsAreKept == Spec => StopSticks
<1>1. [Next]_vars =>
        [isRunning /\ shouldStopNow /\ isRunning' => shouldStopNow']_vars
  BY StepKeepsStop
<1> QED
  BY <1>1, PTL DEF Spec, StopSticks

(* The only step that ends the wait of a genMoveSynchronous is the one that finds    *)
(* the search over, by when the search has written the move, or the bot is killed.   *)
LEMMA StepReturnsMove ==
  ASSUME Inv, Next, call.kind = "waitForSearchToEnd", call'.kind = "none"
  PROVE  moveLoc = "move" \/ isKilled
<1> USE DEF vars, botVars, searchVars, clientVars, history, NoCall, PlainCall
<1>1. isRunning => clientPc # "idle" /\ clientPc # "edit"
  BY DEF Inv, ClientInv
<1>2. clientPc # "idle"
  BY DEF Inv, ClientInv
<1>3. SUFFICES ~isRunning
  BY <1>3 DEF Inv, ClientInv
<1>4. CASE ClientCalls
  BY <1>2, <1>4 DEF ClientCalls, CallSearch, CallStopAndWait, Ponder
<1>5. CASE ClientContinues
  BY <1>1, <1>5
  DEF ClientContinues, WaitForSearchToEnd, AcceptSearch, RefuseSearch, SearchHasEnded,
      FinishSetup, DestructorKills, DestructorJoins, SearchCalls
<1>6. CASE Environment
  BY <1>6
  DEF Environment, StopWithoutWait, SetKilled, ClientSpuriousWakeup,
      SearchThreadSpuriousWakeup
<1>7. CASE SearchThread
  BY <1>7
  DEF SearchThread, SearchThreadWaits, SearchThreadExits, TakeSearch, LaunchCallbacks,
      SearchBegun, SearchStops, StopCallbacks, JoinCallbacks, FinishSearch
<1>8. CASE SearchReachesLimit \/ SearchThrows \/ CallbackThread \/ Over
  BY <1>8
  DEF SearchReachesLimit, SearchThrows, CallbackThread, CallbackLoopEnds, BeginReport,
      EndReport, Over
<1> QED
  BY <1>4, <1>5, <1>6, <1>7, <1>8 DEF Next

(* genMoveSynchronous never returns the NULL_LOC its local variable starts with,     *)
(* except from a killed bot.                                                         *)
THEOREM SyncCallsGetMoves == Spec => SyncReturnsMove
<1>1. Inv /\ [Next]_vars =>
        [call.kind = "waitForSearchToEnd" /\ call'.kind = "none"
           => moveLoc = "move" \/ isKilled]_vars
  BY StepReturnsMove
<1> QED
  BY <1>1, Invariance, PTL DEF Spec, SyncReturnsMove

-------------------------------------------------------------------------------
(* A bot just constructed is an idle service.                                        *)
LEMMA InitImplementsService == Init => Service!Init
BY ConstantsAssumption DEF ConstantsAssumption, Init, Service!Init, SearchIds

(* Every step of the bot is one of the service, or changes nothing a client sees.    *)
LEMMA NextImplementsService ==
  Inv /\ [Next]_vars => [Service!Next]_(Service!service)
<1> SUFFICES ASSUME Inv, [Next]_vars PROVE [Service!Next]_(Service!service)
  OBVIOUS
<1> USE DEF vars, botVars, searchVars, clientVars, history, Busy,
        Service!service, Service!Next
<1>0. isRunning \in BOOLEAN /\ isKilled \in BOOLEAN /\ shouldStopNow \in BOOLEAN
  BY DEF Inv, TypeOK
<1>1. CASE \E kind \in SearchCalls, id \in 0..MaxSearchId, reports \in BOOLEAN :
             CallSearch(kind, id, reports)
  BY <1>1 DEF CallSearch
<1>2. CASE \E kind \in StopCalls : CallStopAndWait(kind)
  <2>1. Service!Stop
    BY <1>2 DEF CallStopAndWait, StoreStop, Service!Stop
  <2> QED
    BY <2>1
<1>3. CASE AcceptSearch
  <2>1. /\ call.id \in {0} \cup {i \in SearchIds : answers[i] = 0}
        /\ searchPc \notin Busy \cup {"failed", "aborted"}
    BY <1>3 DEF AcceptSearch, Inv, IdInv, SearchThreadInv
  <2>2. Service!Accept
    BY <1>3, <2>1
    DEF AcceptSearch, Enqueue, NotifySearchThread, Service!Accept, SearchIds
  <2> QED
    BY <2>2
<1>4. CASE Ponder
  <2>1. searchPc \notin Busy \cup {"failed", "aborted"}
    BY <1>4 DEF Ponder, Inv, SearchThreadInv
  <2>2. Service!Accept
    BY <1>4, <2>1 DEF Ponder, Enqueue, NotifySearchThread, Service!Accept
  <2> QED
    BY <2>2
<1>5. CASE WaitForSearchToEnd \/ RefuseSearch
  <2>1. CASE StoreStop
    <3>1. Service!Stop
      BY <1>5, <2>1 DEF WaitForSearchToEnd, RefuseSearch, StoreStop, Service!Stop
    <3> QED
      BY <3>1
  <2>2. CASE UNCHANGED shouldStopNow
    BY <1>5, <2>2 DEF WaitForSearchToEnd, RefuseSearch
  <2> QED
    BY <1>5, <2>1, <2>2 DEF WaitForSearchToEnd, RefuseSearch, StopIfEntering
<1>6. CASE SearchHasEnded \/ FinishSetup \/ DestructorJoins
  BY <1>6 DEF SearchHasEnded, FinishSetup, DestructorJoins
<1>7. CASE DestructorKills \/ SetKilled
  <2>1. /\ isKilled' = TRUE
        /\ shouldStopNow' \in {shouldStopNow, TRUE}
        /\ UNCHANGED <<isRunning, queued, answers>>
        /\ searchPc' \in Busy \cup {"failed", "aborted"}
             <=> searchPc \in Busy \cup {"failed", "aborted"}
    BY <1>7 DEF DestructorKills, SetKilled, NotifySearchThread, StoreStop
  <2>2. Service!Kill
    BY <2>1, <1>0 DEF Service!Kill
  <2> QED
    BY <2>2
<1>8. CASE StopWithoutWait \/ SearchReachesLimit
  <2>1. Service!Stop
    BY <1>8 DEF StopWithoutWait, SearchReachesLimit, StoreStop, Service!Stop
  <2> QED
    BY <2>1
<1>9. CASE ClientSpuriousWakeup \/ SearchThreadSpuriousWakeup \/ SearchThreadWaits
  BY <1>9 DEF ClientSpuriousWakeup, SearchThreadSpuriousWakeup, SearchThreadWaits
<1>10. CASE SearchThreadExits
  <2>1. CASE isRunning
    <3>1. Service!Drop
      BY <1>10, <2>1 DEF SearchThreadExits, Service!Drop
    <3> QED
      BY <3>1
  <2>2. CASE ~isRunning
    BY <1>10, <2>2 DEF SearchThreadExits
  <2> QED
    BY <2>1, <2>2
<1>11. CASE TakeSearch
  <2>1. Service!Start
    BY <1>11 DEF TakeSearch, Service!Start
  <2> QED
    BY <2>1
<1>12. CASE LaunchCallbacks \/ SearchBegun \/ SearchStops \/ StopCallbacks \/ JoinCallbacks
  BY <1>12 DEF LaunchCallbacks, SearchBegun, SearchStops, StopCallbacks, JoinCallbacks
<1>13. CASE FinishSearch
  <2>1. isRunning /\ shouldStopNow
    BY <1>13 DEF FinishSearch, Inv, SearchThreadInv, StopInv
  <2>2. answers' = [i \in SearchIds |->
                      answers[i] + IF i = queued.id THEN 1 ELSE 0]
    <3> answers \in [SearchIds -> 0..2]
      BY DEF Inv, TypeOK
    <3>1. CASE queued.onMove = "async"
      <4>1. answers' = [answers EXCEPT ![queued.id] = @ + 1]
        BY <1>13, <3>1 DEF FinishSearch, CallOnMove
      <4>2. \A i \in SearchIds :
              answers'[i] = answers[i] + IF i = queued.id THEN 1 ELSE 0
        BY <4>1
      <4>3. answers' = [i \in SearchIds |-> answers'[i]]
        BY <4>1
      <4> QED
        BY <4>2, <4>3
    <3>2. CASE queued.onMove # "async"
      <4>1. queued.id \notin SearchIds
        BY <3>2, ConstantsAssumption DEF ConstantsAssumption, Inv, IdInv, SearchIds
      <4> QED
        BY <1>13, <3>2, <4>1 DEF FinishSearch, CallOnMove
    <3> QED
      BY <3>1, <3>2
  <2>3. Service!Finish
    BY <1>13, <2>1, <2>2 DEF FinishSearch, Service!Finish, SearchIds
  <2> QED
    BY <2>3
<1>14. CASE SearchThrows
  BY <1>14 DEF SearchThrows
<1>15. CASE CallbackThread
  BY <1>15 DEF CallbackThread, CallbackLoopEnds, BeginReport, EndReport
<1>16. CASE Over \/ UNCHANGED vars
  BY <1>16 DEF Over
<1> QED
  BY <1>1, <1>2, <1>3, <1>4, <1>5, <1>6, <1>7, <1>8, <1>9, <1>10, <1>11, <1>12,
     <1>13, <1>14, <1>15, <1>16
  DEF Next, ClientCalls, ClientContinues, Environment, SearchThread

(* AsyncBot is a SearchService: one search at a time, each started unless killed,    *)
(* ended only by a stop or a limit, and answered once.                               *)
THEOREM BotImplementsService == Spec => ImplementsService
BY InitImplementsService, NextImplementsService, Invariance, PTL
DEF Spec, ImplementsService, Service!Spec
-------------------------------------------------------------------------------
LessThan == {p \in Nat \X Nat : p[1] < p[2]}

LEMMA Least ==
  ASSUME NEW T \in SUBSET Nat, T # {}
  PROVE  \E x \in T : \A y \in T : x <= y
<1>1. OpToRel(<, Nat) = LessThan
  BY DEF OpToRel, LessThan
<1>2. IsWellFoundedOn(LessThan, Nat)
  BY <1>1, NatLessThanWellFounded
<1>3. \E x \in T : \A y \in T : <<y, x>> \notin LessThan
  <2> HIDE DEF LessThan
  <2> QED  BY <1>2, WFMin
<1>4. \A x, y \in T : <<y, x>> \notin LessThan => x <= y
  BY DEF LessThan
<1> QED
  BY <1>3, <1>4

LEMMA Induction ==
  ASSUME NEW n \in Nat, NEW S, 0 \in S, \A k \in 0..(n - 1) : k \in S => k + 1 \in S
  PROVE  \A k \in 0..n : k \in S
<1> DEFINE T == {k \in 0..n : k \notin S}
<1> SUFFICES ASSUME T # {} PROVE FALSE
  OBVIOUS
<1>1. T \in SUBSET Nat
  OBVIOUS
<1>2. PICK x \in T : \A y \in T : x <= y
  BY <1>1, Least
<1>3. x \in 0..n /\ x \notin S /\ x # 0
  OBVIOUS
<1>4. x - 1 \in 0..(n - 1) /\ x - 1 \in 0..n /\ (x - 1) + 1 = x /\ x - 1 \notin T
  BY <1>2, <1>3
<1> QED
  BY <1>3, <1>4

LEMMA PositionsSteps ==
  ASSUME NEW pos, NEW moves, Len(moves) \in Nat
  PROVE  /\ Positions(pos, moves)[0] = pos
         /\ \A k \in 1..Len(moves) : Positions(pos, moves)[k] = MakeMove(Positions(pos, moves)[k - 1], moves[k])
<1> DEFINE n == Len(moves)
           Step(q, k) == MakeMove(q, moves[k])
           Is(g, m) == g = [k \in 0..m |-> IF k = 0 THEN pos ELSE Step(g[k - 1], k)]
           S == {m \in 0..n : \E g : Is(g, m)}
<1>1. 0 \in S
  <2> DEFINE h == [k \in 0..0 |-> pos]
  <2>1. Is(h, 0)
    <3>1. \A k \in 0..0 : h[k] = (IF k = 0 THEN pos ELSE Step(h[k - 1], k))
      OBVIOUS
    <3> HIDE DEF Step
    <3> QED  BY <3>1
  <2> HIDE DEF h
  <2> QED  BY <2>1
<1>2. ASSUME NEW m \in 0..(n - 1), m \in S  PROVE m + 1 \in S
  <2> HIDE DEF Step
  <2>1. PICK g : Is(g, m)
    BY <1>2
  <2> DEFINE h == [k \in 0..(m + 1) |-> IF k = m + 1 THEN Step(g[m], k) ELSE g[k]]
  <2>2. ASSUME NEW k \in 0..(m + 1)
        PROVE  h[k] = IF k = 0 THEN pos ELSE Step(h[k - 1], k)
    <3>1. CASE k = m + 1
      BY <3>1
    <3>2. CASE k # m + 1
      BY <2>1, <3>2
    <3> QED  BY <3>1, <3>2
  <2>3. Is(h, m + 1)
    BY <2>2
  <2> HIDE DEF h, Is
  <2> QED  BY <2>3
<1>3. n \in S
  <2>1. n \in Nat
    OBVIOUS
  <2>2. \A k \in 0..(n - 1) : k \in S => k + 1 \in S
    BY <1>2
  <2> HIDE DEF S, n
  <2>3. \A k \in 0..n : k \in S
    BY <1>1, <2>1, <2>2, Induction
  <2> QED  BY <2>1, <2>3
<1>4. PICK g : Is(g, n)
  BY <1>3
<1>5. Positions(pos, moves) = CHOOSE f : Is(f, n)
  BY DEF Positions
<1>6. Is(Positions(pos, moves), n)
  <2> HIDE DEF Is
  <2> QED  BY <1>4, <1>5
<1> HIDE DEF Step
<1>7. Positions(pos, moves)[0] = pos /\ \A k \in 1..n : Positions(pos, moves)[k] = Step(Positions(pos, moves)[k - 1], k)
  <2> DEFINE at == Positions(pos, moves)
  <2>1. at = [k \in 0..n |-> IF k = 0 THEN pos ELSE Step(at[k - 1], k)]
    BY <1>6
  <2> HIDE DEF at
  <2> QED  BY <2>1 DEF at
<1> QED
  BY <1>7 DEF Step


LEMMA BoardsSteps ==
  ASSUME NEW board, NEW moves, Len(moves) \in Nat
  PROVE  /\ Boards(board, moves)[0] = board
         /\ \A k \in 1..Len(moves) : Boards(board, moves)[k] = playMoveAssumeLegal(Boards(board, moves)[k - 1], moves[k].loc, moves[k].pla)
<1> DEFINE n == Len(moves)
           Step(q, k) == playMoveAssumeLegal(q, moves[k].loc, moves[k].pla)
           Is(g, m) == g = [k \in 0..m |-> IF k = 0 THEN board ELSE Step(g[k - 1], k)]
           S == {m \in 0..n : \E g : Is(g, m)}
<1>1. 0 \in S
  <2> DEFINE h == [k \in 0..0 |-> board]
  <2>1. Is(h, 0)
    <3>1. \A k \in 0..0 : h[k] = (IF k = 0 THEN board ELSE Step(h[k - 1], k))
      OBVIOUS
    <3> HIDE DEF Step
    <3> QED  BY <3>1
  <2> HIDE DEF h
  <2> QED  BY <2>1
<1>2. ASSUME NEW m \in 0..(n - 1), m \in S  PROVE m + 1 \in S
  <2> HIDE DEF Step
  <2>1. PICK g : Is(g, m)
    BY <1>2
  <2> DEFINE h == [k \in 0..(m + 1) |-> IF k = m + 1 THEN Step(g[m], k) ELSE g[k]]
  <2>2. ASSUME NEW k \in 0..(m + 1)
        PROVE  h[k] = IF k = 0 THEN board ELSE Step(h[k - 1], k)
    <3>1. CASE k = m + 1
      BY <3>1
    <3>2. CASE k # m + 1
      BY <2>1, <3>2
    <3> QED  BY <3>1, <3>2
  <2>3. Is(h, m + 1)
    BY <2>2
  <2> HIDE DEF h, Is
  <2> QED  BY <2>3
<1>3. n \in S
  <2>1. n \in Nat
    OBVIOUS
  <2>2. \A k \in 0..(n - 1) : k \in S => k + 1 \in S
    BY <1>2
  <2> HIDE DEF S, n
  <2>3. \A k \in 0..n : k \in S
    BY <1>1, <2>1, <2>2, Induction
  <2> QED  BY <2>1, <2>3
<1>4. PICK g : Is(g, n)
  BY <1>3
<1>5. Boards(board, moves) = CHOOSE f : Is(f, n)
  BY DEF Boards
<1>6. Is(Boards(board, moves), n)
  <2> HIDE DEF Is
  <2> QED  BY <1>4, <1>5
<1> HIDE DEF Step
<1>7. Boards(board, moves)[0] = board /\ \A k \in 1..n : Boards(board, moves)[k] = Step(Boards(board, moves)[k - 1], k)
  <2> DEFINE at == Boards(board, moves)
  <2>1. at = [k \in 0..n |-> IF k = 0 THEN board ELSE Step(at[k - 1], k)]
    BY <1>6
  <2> HIDE DEF at
  <2> QED  BY <2>1 DEF at
<1> QED
  BY <1>7 DEF Step

LEMMA PlacedSteps ==
  ASSUME NEW board, NEW stones, Len(stones) \in Nat
  PROVE  /\ Placed(board, stones)[0] = board
         /\ \A k \in 1..Len(stones) : Placed(board, stones)[k] = setStone(Placed(board, stones)[k - 1], stones[k].loc, stones[k].pla)
<1> DEFINE n == Len(stones)
           Step(q, k) == setStone(q, stones[k].loc, stones[k].pla)
           Is(g, m) == g = [k \in 0..m |-> IF k = 0 THEN board ELSE Step(g[k - 1], k)]
           S == {m \in 0..n : \E g : Is(g, m)}
<1>1. 0 \in S
  <2> DEFINE h == [k \in 0..0 |-> board]
  <2>1. Is(h, 0)
    <3>1. \A k \in 0..0 : h[k] = (IF k = 0 THEN board ELSE Step(h[k - 1], k))
      OBVIOUS
    <3> HIDE DEF Step
    <3> QED  BY <3>1
  <2> HIDE DEF h
  <2> QED  BY <2>1
<1>2. ASSUME NEW m \in 0..(n - 1), m \in S  PROVE m + 1 \in S
  <2> HIDE DEF Step
  <2>1. PICK g : Is(g, m)
    BY <1>2
  <2> DEFINE h == [k \in 0..(m + 1) |-> IF k = m + 1 THEN Step(g[m], k) ELSE g[k]]
  <2>2. ASSUME NEW k \in 0..(m + 1)
        PROVE  h[k] = IF k = 0 THEN board ELSE Step(h[k - 1], k)
    <3>1. CASE k = m + 1
      BY <3>1
    <3>2. CASE k # m + 1
      BY <2>1, <3>2
    <3> QED  BY <3>1, <3>2
  <2>3. Is(h, m + 1)
    BY <2>2
  <2> HIDE DEF h, Is
  <2> QED  BY <2>3
<1>3. n \in S
  <2>1. n \in Nat
    OBVIOUS
  <2>2. \A k \in 0..(n - 1) : k \in S => k + 1 \in S
    BY <1>2
  <2> HIDE DEF S, n
  <2>3. \A k \in 0..n : k \in S
    BY <1>1, <2>1, <2>2, Induction
  <2> QED  BY <2>1, <2>3
<1>4. PICK g : Is(g, n)
  BY <1>3
<1>5. Placed(board, stones) = CHOOSE f : Is(f, n)
  BY DEF Placed
<1>6. Is(Placed(board, stones), n)
  <2> HIDE DEF Is
  <2> QED  BY <1>4, <1>5
<1> HIDE DEF Step
<1>7. Placed(board, stones)[0] = board /\ \A k \in 1..n : Placed(board, stones)[k] = Step(Placed(board, stones)[k - 1], k)
  <2> DEFINE at == Placed(board, stones)
  <2>1. at = [k \in 0..n |-> IF k = 0 THEN board ELSE Step(at[k - 1], k)]
    BY <1>6
  <2> HIDE DEF at
  <2> QED  BY <2>1 DEF at
<1> QED
  BY <1>7 DEF Step

-------------------------------------------------------------------------------
LEMMA PassIsCell == PASS_LOC \in Cells /\ NULL_LOC # PASS_LOC
<1>1. (MAX_LEN + 1) * (MAX_LEN + 2) \in Nat /\ 1 <= (MAX_LEN + 1) * (MAX_LEN + 2)
  BY BoardAssumption
<1> QED
  BY <1>1 DEF PASS_LOC, NULL_LOC, Cells

LEMMA Modulo ==
  ASSUME NEW n \in Nat \ {0}, NEW x \in 0..(2 * n - 1)
  PROVE  x % n = IF x < n THEN x ELSE x - n
OBVIOUS

(* Moves that were legal when they were played.                                        *)
LegalMoves == [loc : Cells, pla : Players]

LEMMA MoveIsRecord ==
  ASSUME NEW board, NEW loc, NEW pla, isLegal(board, loc, pla)
  PROVE  [loc |-> loc, pla |-> pla] \in LegalMoves
  BY PassIsCell DEF isLegal, LegalMoves

(* One more move leads one board further, and no other board changes.                    *)
LEMMA BoardsAfter ==
  ASSUME NEW board, NEW moves \in Seq(LegalMoves), NEW move \in LegalMoves
  PROVE  /\ Len(Append(moves, move)) = Len(moves) + 1
         /\ \A k \in 0..Len(moves) : Boards(board, Append(moves, move))[k] = Boards(board, moves)[k]
         /\ BoardAfter(board, Append(moves, move))
              = playMoveAssumeLegal(BoardAfter(board, moves), move.loc, move.pla)
<1> DEFINE more == Append(moves, move)
           n == Len(moves)
<1>1. /\ n \in Nat /\ Len(more) = n + 1 /\ Len(more) \in Nat
      /\ \A k \in 1..n : more[k] = moves[k]
      /\ more[n + 1] = move
  BY AppendProperties, LenProperties
<1> HIDE DEF more, n
<1>2. /\ Boards(board, more)[0] = board
      /\ \A k \in 1..Len(more) : Boards(board, more)[k]
           = playMoveAssumeLegal(Boards(board, more)[k - 1], more[k].loc, more[k].pla)
  BY <1>1, BoardsSteps
<1>3. /\ Boards(board, moves)[0] = board
      /\ \A k \in 1..n : Boards(board, moves)[k]
           = playMoveAssumeLegal(Boards(board, moves)[k - 1], moves[k].loc, moves[k].pla)
  BY <1>1, BoardsSteps DEF n
<1> DEFINE S == {k \in 0..n : Boards(board, more)[k] = Boards(board, moves)[k]}
<1>4. 0 \in S
  BY <1>1, <1>2, <1>3
<1>5. \A k \in 0..(n - 1) : k \in S => k + 1 \in S
  <2> SUFFICES ASSUME NEW k \in 0..(n - 1), k \in S  PROVE k + 1 \in S
    OBVIOUS
  <2>1. k + 1 \in 1..n /\ k + 1 \in 1..Len(more) /\ (k + 1) - 1 = k /\ k + 1 \in 0..n
    BY <1>1
  <2>2. more[k + 1] = moves[k + 1]
    BY <1>1, <2>1
  <2>3. Boards(board, more)[k + 1]
          = playMoveAssumeLegal(Boards(board, more)[k], more[k + 1].loc, more[k + 1].pla)
    BY <1>2, <2>1
  <2>4. Boards(board, moves)[k + 1]
          = playMoveAssumeLegal(Boards(board, moves)[k], moves[k + 1].loc, moves[k + 1].pla)
    BY <1>3, <2>1
  <2> QED  BY <2>1, <2>2, <2>3, <2>4
<1>6. \A k \in 0..n : Boards(board, more)[k] = Boards(board, moves)[k]
  <2>1. \A k \in 0..n : k \in S
    <3> HIDE DEF S
    <3> QED  BY <1>1, <1>4, <1>5, Induction
  <2> QED  BY <2>1
<1>7. Boards(board, more)[n + 1] = playMoveAssumeLegal(Boards(board, more)[n], move.loc, move.pla)
  <2>1. n + 1 \in 1..Len(more) /\ (n + 1) - 1 = n
    BY <1>1
  <2> QED  BY <1>1, <1>2, <2>1
<1>8. Boards(board, more)[n] = Boards(board, moves)[n]
  BY <1>1, <1>6
<1> QED
  BY <1>1, <1>6, <1>7, <1>8 DEF BoardAfter, more, n

LEMMA LegalAfter ==
  ASSUME NEW board, NEW moves \in Seq(LegalMoves), NEW move \in LegalMoves,
         AreLegal(board, moves), isLegal(BoardAfter(board, moves), move.loc, move.pla)
  PROVE  AreLegal(board, Append(moves, move))
<1> DEFINE more == Append(moves, move)
           n == Len(moves)
<1>1. /\ n \in Nat /\ Len(more) = n + 1
      /\ \A k \in 1..n : more[k] = moves[k]
      /\ more[n + 1] = move
  BY AppendProperties, LenProperties
<1>2. \A k \in 0..n : Boards(board, more)[k] = Boards(board, moves)[k]
  BY BoardsAfter
<1>3. \A k \in 1..n : isLegal(Boards(board, moves)[k - 1], moves[k].loc, moves[k].pla)
  BY DEF AreLegal
<1>4. isLegal(Boards(board, moves)[n], move.loc, move.pla)
  BY DEF BoardAfter
<1> HIDE DEF more, n
<1> SUFFICES ASSUME NEW k \in 1..(n + 1)
             PROVE  isLegal(Boards(board, more)[k - 1], more[k].loc, more[k].pla)
  BY <1>1 DEF AreLegal, more
<1>5. k - 1 \in 0..n /\ (k \in 1..n \/ k = n + 1) /\ (n + 1) - 1 = n
  BY <1>1
<1>6. Boards(board, more)[k - 1] = Boards(board, moves)[k - 1]
  BY <1>2, <1>5
<1> QED
  BY <1>1, <1>3, <1>4, <1>5, <1>6

LEMMA FunctionIsSeq ==
  ASSUME NEW S, NEW n \in Nat, NEW f \in [1..n -> S]
  PROVE  f \in Seq(S) /\ Len(f) = n
<1>1. f \in Seq(S)
  OBVIOUS
<1>2. 1..Len(f) = 1..n /\ Len(f) \in Nat
  BY <1>1, LenProperties
<1>3. Len(f) = n
  BY <1>2
<1> QED  BY <1>1, <1>3

(* The moves of s are the last ones of t.                                              *)
Ends(s, t) ==
  /\ Len(s) <= Len(t)
  /\ \A i \in 1..Len(s) : s[i] = t[(Len(t) - Len(s)) + i]

LEMMA EndsIsSuffix ==
  ASSUME NEW s \in Seq(LegalMoves), NEW t \in Seq(LegalMoves), Ends(s, t)
  PROVE  IsSuffix(s, t)
<1> DEFINE m == Len(s)
           n == Len(t)
           rs == [i \in 1..m |-> s[(m - i) + 1]]
           rt == [i \in 1..n |-> t[(n - i) + 1]]
<1>1. m \in Nat /\ n \in Nat /\ m <= n /\ \A i \in 1..m : s[i] = t[(n - m) + i]
  BY LenProperties DEF Ends
<1>2. rs \in Seq(LegalMoves) /\ Len(rs) = m
  <2>1. \A i \in 1..m : (m - i) + 1 \in 1..m
    BY <1>1
  <2>2. \A i \in 1..m : s[i] \in LegalMoves
    BY ElementOfSeq
  <2> HIDE DEF m
  <2>3. rs \in [1..m -> LegalMoves]
    BY <2>1, <2>2
  <2> HIDE DEF rs
  <2> QED  BY <1>1, <2>3, FunctionIsSeq
<1>3. rt \in Seq(LegalMoves) /\ Len(rt) = n
  <2>1. \A i \in 1..n : (n - i) + 1 \in 1..n
    BY <1>1
  <2>2. \A i \in 1..n : t[i] \in LegalMoves
    BY ElementOfSeq
  <2> HIDE DEF n
  <2>3. rt \in [1..n -> LegalMoves]
    BY <2>1, <2>2
  <2> HIDE DEF rt
  <2> QED  BY <1>1, <2>3, FunctionIsSeq
<1>4. \A i \in 1..m : rs[i] = rt[i]
  <2> SUFFICES ASSUME NEW i \in 1..m  PROVE rs[i] = rt[i]
    OBVIOUS
  <2>1. (m - i) + 1 \in 1..m /\ i \in 1..n /\ (n - m) + ((m - i) + 1) = (n - i) + 1
    BY <1>1
  <2> HIDE DEF m, n
  <2>2. s[(m - i) + 1] = t[(n - i) + 1]
    BY <1>1, <2>1
  <2> QED  BY <2>1, <2>2
<1>5. Reverse(s) = rs /\ Reverse(t) = rt
  BY DEF Reverse
<1> HIDE DEF rs, rt, m, n
<1>6. SubSeq(rs, 1, m) = SubSeq(rt, 1, m)
  <2>1. /\ Len(SubSeq(rs, 1, m)) = m /\ SubSeq(rs, 1, m) \in Seq(LegalMoves)
        /\ \A i \in 1..m : SubSeq(rs, 1, m)[i] = rs[i]
    <3>1. \A i \in 1..m : rs[i] \in LegalMoves
      BY <1>2, ElementOfSeq
    <3> QED  BY <1>1, <1>2, <3>1, SubSeqProperties
  <2>2. /\ Len(SubSeq(rt, 1, m)) = m /\ SubSeq(rt, 1, m) \in Seq(LegalMoves)
        /\ \A i \in 1..m : SubSeq(rt, 1, m)[i] = rt[i]
    <3>1. \A i \in 1..m : rt[i] \in LegalMoves
      BY <1>1, <1>3, ElementOfSeq
    <3> QED  BY <1>1, <1>3, <3>1, SubSeqProperties
  <2> QED  BY <1>1, <1>4, <2>1, <2>2, SeqEqual
<1> QED
  BY <1>1, <1>2, <1>3, <1>5, <1>6 DEF IsSuffix, IsPrefix

LEMMA EndsAfter ==
  ASSUME NEW s \in Seq(LegalMoves), NEW t \in Seq(LegalMoves), NEW move \in LegalMoves
  PROVE  Ends(s, t) => Ends(Append(s, move), Append(t, move))
<1>2. ASSUME Ends(s, t)  PROVE Ends(Append(s, move), Append(t, move))
  <2> DEFINE m == Len(s)
             n == Len(t)
             ss == Append(s, move)
             tt == Append(t, move)
  <2>1. m \in Nat /\ n \in Nat /\ m <= n /\ \A i \in 1..m : s[i] = t[(n - m) + i]
    BY <1>2, LenProperties DEF Ends
  <2>2. Len(ss) = m + 1 /\ ss[m + 1] = move /\ \A i \in 1..m : ss[i] = s[i]
    BY AppendProperties, LenProperties
  <2>3. Len(tt) = n + 1 /\ tt[n + 1] = move /\ \A i \in 1..n : tt[i] = t[i]
    BY AppendProperties, LenProperties
  <2> HIDE DEF m, n, ss, tt
  <2>4. ASSUME NEW i \in 1..(m + 1)  PROVE ss[i] = tt[((n + 1) - (m + 1)) + i]
    <3>1. CASE i = m + 1
      <4>1. ((n + 1) - (m + 1)) + i = n + 1
        BY <2>1, <3>1
      <4> QED  BY <2>2, <2>3, <3>1, <4>1
    <3>2. CASE i # m + 1
      <4>1. i \in 1..m /\ ((n + 1) - (m + 1)) + i = (n - m) + i /\ (n - m) + i \in 1..n
        BY <2>1, <3>2
      <4>2. ss[i] = t[(n - m) + i] /\ tt[(n - m) + i] = t[(n - m) + i]
        BY <2>1, <2>2, <2>3, <4>1
      <4> QED  BY <4>1, <4>2
    <3> QED  BY <3>1, <3>2
  <2>5. m + 1 <= n + 1
    BY <2>1
  <2> QED  BY <2>2, <2>3, <2>4, <2>5 DEF Ends, ss, tt
<1> QED
  BY <1>2

LEMMA EmptyEnds ==
  ASSUME NEW t \in Seq(LegalMoves)
  PROVE  Ends(<<>>, t)
  BY LenProperties, EmptySeq DEF Ends

-------------------------------------------------------------------------------
Ring == 0..(NUM_RECENT_BOARDS - 1)

IsHistory(h) ==
  /\ h = [rules |-> h.rules, initialBoard |-> h.initialBoard, initialPla |-> h.initialPla,
          initialTurnNumber |-> h.initialTurnNumber, moveHistory |-> h.moveHistory,
          presumedNextMovePla |-> h.presumedNextMovePla, isGameFinished |-> h.isGameFinished,
          winner |-> h.winner, recentBoards |-> h.recentBoards,
          currentRecentBoardIdx |-> h.currentRecentBoardIdx]
  /\ h.moveHistory \in Seq(LegalMoves)
  /\ h.recentBoards = [i \in Ring |-> h.recentBoards[i]]
  /\ h.currentRecentBoardIdx \in Ring

(* A history that has a move has the result of its last move.                          *)
Knows(board, h) ==
  h.moveHistory # <<>> =>
    LET winner == Result(board, Last(h.moveHistory).loc, Last(h.moveHistory).pla)
    IN  h.isGameFinished = (winner # C_EMPTY) /\ h.winner = winner

(* A position whose history leads to its board.                                        *)
Led(pla, board, h) ==
  /\ IsHistory(h) /\ RecentBoardsArePast(h) /\ Knows(board, h)
  /\ BoardAfter(h.initialBoard, h.moveHistory) = board
  /\ pla = h.presumedNextMovePla

LEMMA NewIsLed ==
  ASSUME NEW board, NEW pla, NEW rules, NEW turnNumber
  PROVE  LET h == NewHistory(board, pla, rules, turnNumber) IN
         /\ Led(pla, board, h)
         /\ h.moveHistory = <<>> /\ h.rules = rules /\ h.initialBoard = board
<1> DEFINE h == NewHistory(board, pla, rules, turnNumber)
           recent == [i \in Ring |-> board]
<1>1. h = [rules |-> rules, initialBoard |-> board, initialPla |-> pla,
           initialTurnNumber |-> turnNumber, moveHistory |-> <<>>, presumedNextMovePla |-> pla,
           isGameFinished |-> FALSE, winner |-> C_EMPTY, recentBoards |-> recent,
           currentRecentBoardIdx |-> 0]
  BY DEF NewHistory, Ring
<1>2. \A i \in Ring : recent[i] = board
  OBVIOUS
<1>3. recent = [i \in Ring |-> recent[i]]
  OBVIOUS
<1> HIDE DEF h, recent
<1>4. /\ h.rules = rules /\ h.initialBoard = board /\ h.moveHistory = <<>>
      /\ h.presumedNextMovePla = pla /\ h.recentBoards = recent /\ h.currentRecentBoardIdx = 0
  BY <1>1
<1>5. h = [rules |-> h.rules, initialBoard |-> h.initialBoard, initialPla |-> h.initialPla,
           initialTurnNumber |-> h.initialTurnNumber, moveHistory |-> h.moveHistory,
           presumedNextMovePla |-> h.presumedNextMovePla, isGameFinished |-> h.isGameFinished,
           winner |-> h.winner, recentBoards |-> h.recentBoards,
           currentRecentBoardIdx |-> h.currentRecentBoardIdx]
  BY <1>1
<1>6. 0 \in Ring
  BY BoardAssumption DEF Ring
<1>7. IsHistory(h)
  BY <1>3, <1>4, <1>5, <1>6, EmptySeq DEF IsHistory
<1>8. Len(h.moveHistory) = 0
  BY <1>4, EmptySeq
<1>9. Boards(board, h.moveHistory)[0] = board
  BY <1>8, BoardsSteps
<1>10. RecentBoardsArePast(h)
  <2> SUFFICES ASSUME NEW k \in Ring
               PROVE  getRecentBoard(h, k) = Boards(board, h.moveHistory)[IF k > 0 THEN 0 ELSE 0 - k]
    BY <1>4, <1>8 DEF RecentBoardsArePast, Ring
  <2>1. (IF k > 0 THEN 0 ELSE 0 - k) = 0
    BY DEF Ring
  <2>2. (0 - k + NUM_RECENT_BOARDS) % NUM_RECENT_BOARDS \in Ring
    <3>1. 0 - k + NUM_RECENT_BOARDS \in 0..(2 * NUM_RECENT_BOARDS - 1)
      BY BoardAssumption DEF Ring
    <3> QED  BY <3>1, BoardAssumption, Modulo DEF Ring
  <2>3. getRecentBoard(h, k) = board
    BY <1>2, <1>4, <2>2 DEF getRecentBoard
  <2> QED  BY <1>9, <2>1, <2>3
<1>11. BoardAfter(h.initialBoard, h.moveHistory) = board
  BY <1>4, <1>8, <1>9 DEF BoardAfter
<1> QED
  BY <1>4, <1>7, <1>10, <1>11 DEF Led, Knows, h

(* A move enters the ring of boards, and the boards before it are where they were.         *)
LEMMA RecordedIsLed ==
  ASSUME NEW nextPla, NEW board, NEW h, Led(nextPla, board, h),
         NEW loc, NEW pla, [loc |-> loc, pla |-> pla] \in LegalMoves
  PROVE  LET after == playMoveAssumeLegal(board, loc, pla)
             hist == RecordMove(h, after, loc, pla)
         IN  /\ Led(getOpp(pla), after, hist)
             /\ hist.moveHistory = Append(h.moveHistory, [loc |-> loc, pla |-> pla])
             /\ hist.rules = h.rules /\ hist.initialBoard = h.initialBoard
<1> DEFINE after == playMoveAssumeLegal(board, loc, pla)
           hist == RecordMove(h, after, loc, pla)
           move == [loc |-> loc, pla |-> pla]
           winner == Result(after, loc, pla)
           slot == RecentSlot(h)
           recent == [h.recentBoards EXCEPT ![slot] = after]
           idx == (h.currentRecentBoardIdx + 1) % NUM_RECENT_BOARDS
           moves == Append(h.moveHistory, move)
           n == Len(h.moveHistory)
           N == NUM_RECENT_BOARDS
           i0 == h.currentRecentBoardIdx
<1>0. after = playMoveAssumeLegal(BoardAfter(h.initialBoard, h.moveHistory), move.loc, move.pla)
      /\ move \in LegalMoves
  BY DEF Led
<1>1. hist = [h EXCEPT !.moveHistory = moves, !.presumedNextMovePla = getOpp(pla),
                       !.isGameFinished = winner # C_EMPTY, !.winner = winner,
                       !.recentBoards = recent, !.currentRecentBoardIdx = idx]
  BY DEF RecordMove
<1>2. IsHistory(h) /\ RecentBoardsArePast(h)
  BY DEF Led
<1>3. slot = idx
  BY DEF RecentSlot
<1> HIDE DEF after, hist, move, winner, slot, recent, idx, moves, n
<1>4. hist = [rules |-> h.rules, initialBoard |-> h.initialBoard, initialPla |-> h.initialPla,
              initialTurnNumber |-> h.initialTurnNumber, moveHistory |-> moves,
              presumedNextMovePla |-> getOpp(pla), isGameFinished |-> winner # C_EMPTY,
              winner |-> winner, recentBoards |-> recent, currentRecentBoardIdx |-> idx]
  <2>1. h = [rules |-> h.rules, initialBoard |-> h.initialBoard, initialPla |-> h.initialPla,
             initialTurnNumber |-> h.initialTurnNumber, moveHistory |-> h.moveHistory,
             presumedNextMovePla |-> h.presumedNextMovePla, isGameFinished |-> h.isGameFinished,
             winner |-> h.winner, recentBoards |-> h.recentBoards,
             currentRecentBoardIdx |-> h.currentRecentBoardIdx]
    BY <1>2 DEF IsHistory
  <2> QED  BY <1>1, <2>1
<1>5. /\ hist.rules = h.rules /\ hist.initialBoard = h.initialBoard /\ hist.moveHistory = moves
      /\ hist.presumedNextMovePla = getOpp(pla) /\ hist.recentBoards = recent
      /\ hist.currentRecentBoardIdx = idx
      /\ hist.isGameFinished = (winner # C_EMPTY) /\ hist.winner = winner
  BY <1>4
<1>6. hist = [rules |-> hist.rules, initialBoard |-> hist.initialBoard, initialPla |-> hist.initialPla,
              initialTurnNumber |-> hist.initialTurnNumber, moveHistory |-> hist.moveHistory,
              presumedNextMovePla |-> hist.presumedNextMovePla,
              isGameFinished |-> hist.isGameFinished, winner |-> hist.winner,
              recentBoards |-> hist.recentBoards,
              currentRecentBoardIdx |-> hist.currentRecentBoardIdx]
  BY <1>4
<1>7. N \in Nat \ {0} /\ i0 \in Ring
  BY <1>2, BoardAssumption DEF IsHistory
<1>8. idx = (IF i0 + 1 < N THEN i0 + 1 ELSE 0) /\ idx \in Ring
  <2>1. i0 + 1 \in 0..(2 * N - 1)
    BY <1>7 DEF Ring
  <2> QED  BY <1>7, <2>1, Modulo DEF Ring, idx
<1>9. /\ recent = [i \in Ring |-> recent[i]]
      /\ recent[idx] = after
      /\ \A i \in Ring : i # idx => recent[i] = h.recentBoards[i]
  <2>1. h.recentBoards = [i \in Ring |-> h.recentBoards[i]]
    BY <1>2 DEF IsHistory
  <2> QED  BY <1>3, <1>8, <2>1 DEF recent
<1>10. h.moveHistory \in Seq(LegalMoves) /\ n \in Nat
  BY <1>2, LenProperties DEF IsHistory, n
<1>11. moves \in Seq(LegalMoves) /\ Len(moves) = n + 1
  BY <1>0, <1>10, AppendProperties DEF moves, n
<1>12. IsHistory(hist)
  BY <1>5, <1>6, <1>8, <1>9, <1>11 DEF IsHistory
<1>13. /\ \A k \in 0..n : Boards(h.initialBoard, moves)[k] = Boards(h.initialBoard, h.moveHistory)[k]
       /\ BoardAfter(h.initialBoard, moves) = after
  BY <1>0, <1>10, BoardsAfter DEF moves, n
<1>14. RecentBoardsArePast(hist)
  <2> SUFFICES ASSUME NEW k \in Ring
               PROVE  getRecentBoard(hist, k)
                        = Boards(h.initialBoard, moves)[IF k > n + 1 THEN 0 ELSE (n + 1) - k]
    BY <1>5, <1>11 DEF RecentBoardsArePast, Ring
  <2> DEFINE at == (idx - k + N) % N
  <2>1. at = (IF k <= idx THEN idx - k ELSE idx - k + N) /\ at \in Ring
    <3>1. idx - k + N \in 0..(2 * N - 1)
      BY <1>7, <1>8 DEF Ring
    <3> HIDE DEF at
    <3>2. at = IF idx - k + N < N THEN idx - k + N ELSE (idx - k + N) - N
      BY <1>7, <3>1, Modulo DEF at
    <3> QED  BY <1>7, <1>8, <3>2 DEF Ring
  <2>2. getRecentBoard(hist, k) = recent[at]
    BY <1>5 DEF getRecentBoard
  <2> HIDE DEF at
  <2>3. CASE k = 0
    <3>1. at = idx /\ (IF k > n + 1 THEN 0 ELSE (n + 1) - k) = n + 1
      BY <1>8, <1>10, <2>1, <2>3 DEF Ring
    <3>2. Boards(h.initialBoard, moves)[n + 1] = after
      BY <1>11, <1>13 DEF BoardAfter
    <3> QED  BY <1>9, <2>2, <3>1, <3>2
  <2>4. CASE k # 0
    <3> DEFINE j == k - 1
               old == (i0 - j + N) % N
               m == IF j > n THEN 0 ELSE n - j
    <3>1. j \in Ring /\ m \in 0..n /\ (IF k > n + 1 THEN 0 ELSE (n + 1) - k) = m
      BY <1>7, <1>10, <2>4 DEF Ring
    <3>2. old = IF j <= i0 THEN i0 - j ELSE i0 - j + N
      <4>1. i0 - j + N \in 0..(2 * N - 1)
        BY <1>7, <3>1 DEF Ring
      <4> HIDE DEF old, j
      <4>2. old = IF i0 - j + N < N THEN i0 - j + N ELSE (i0 - j + N) - N
        BY <1>7, <4>1, Modulo DEF old
      <4> QED  BY <1>7, <3>1, <4>2 DEF Ring
    <3> HIDE DEF old
    <3>3. at = old /\ at # idx
      BY <1>7, <1>8, <2>1, <2>4, <3>2 DEF Ring
    <3>4. h.recentBoards[old] = Boards(h.initialBoard, h.moveHistory)[m]
      <4> HIDE DEF j
      <4>1. getRecentBoard(h, j) = Boards(h.initialBoard, h.moveHistory)[m]
        BY <1>2, <3>1 DEF RecentBoardsArePast, Ring, n
      <4> QED  BY <4>1 DEF getRecentBoard, old
    <3> HIDE DEF m
    <3>5. recent[at] = h.recentBoards[at]
      BY <1>9, <2>1, <3>3
    <3>6. Boards(h.initialBoard, moves)[m] = Boards(h.initialBoard, h.moveHistory)[m]
      BY <1>13, <3>1
    <3> QED  BY <2>2, <3>1, <3>3, <3>4, <3>5, <3>6
  <2> QED  BY <2>3, <2>4
<1>15. Knows(after, hist)
  <2>1. Last(moves) = move /\ move.loc = loc /\ move.pla = pla
    <3>1. moves[n + 1] = move
      BY <1>0, <1>10, AppendProperties DEF moves, n
    <3> QED  BY <1>11, <3>1 DEF Last, move
  <2>2. winner = Result(after, Last(hist.moveHistory).loc, Last(hist.moveHistory).pla)
    BY <1>5, <2>1 DEF winner
  <2> QED  BY <1>5, <2>2 DEF Knows
<1>16. Led(getOpp(pla), after, hist)
  BY <1>5, <1>12, <1>13, <1>14, <1>15 DEF Led
<1> QED
  BY <1>5, <1>16 DEF after, hist, moves, move

-------------------------------------------------------------------------------
(* What the engine knows of its game agrees with a position of the bot.                *)
Agrees(pla, board, h, first, moves, rules) ==
  /\ Led(pla, board, h)
  /\ moves \in Seq(LegalMoves)
  /\ AreLegal(first, moves) /\ BoardAfter(first, moves) = board
  /\ Ends(h.moveHistory, moves)
  /\ h.rules = rules

EngineInv == Agrees(rootPla, rootBoard, rootHistory, initialBoard, moveHistory, currentRules)

LEMMA NewGameAgrees ==
  ASSUME NEW board, NEW pla, NEW rules, NEW turnNumber
  PROVE  Agrees(pla, board, NewHistory(board, pla, rules, turnNumber), board, <<>>, rules)
<1> DEFINE h == NewHistory(board, pla, rules, turnNumber)
<1>1. Led(pla, board, h) /\ h.moveHistory = <<>> /\ h.rules = rules /\ h.initialBoard = board
  BY NewIsLed
<1> HIDE DEF h
<1>2. BoardAfter(board, <<>>) = board
  BY <1>1 DEF Led
<1>3. <<>> \in Seq(LegalMoves) /\ Len(<<>>) = 0
  BY EmptySeq
<1>4. AreLegal(board, <<>>)
  <2>1. 1..0 = {}
    OBVIOUS
  <2> QED  BY <1>3, <2>1 DEF AreLegal
<1>5. Ends(<<>>, <<>>)
  BY <1>3, EmptyEnds
<1> QED
  BY <1>1, <1>2, <1>3, <1>4, <1>5 DEF Agrees, h

(* Another player's turn: the history begins anew, the game goes on.                   *)
LEMMA ForPlayerAgrees ==
  ASSUME NEW pos, NEW pla, NEW first, NEW moves, NEW rules,
         Agrees(pos.pla, pos.board, pos.hist, first, moves, rules)
  PROVE  LET p == ForPlayer(pos, pla) IN
         /\ Agrees(p.pla, p.board, p.hist, first, moves, rules)
         /\ p.pla = pla /\ p.board = pos.board
<1>1. CASE pla = pos.pla
  BY <1>1 DEF ForPlayer
<1>2. CASE pla # pos.pla
  <2> DEFINE h == NewHistory(pos.board, pla, pos.hist.rules, 0)
             p == ForPlayer(pos, pla)
  <2>1. p = [pla |-> pla, board |-> pos.board, hist |-> h]
    BY <1>2 DEF ForPlayer
  <2>2. Led(pla, pos.board, h) /\ h.moveHistory = <<>> /\ h.rules = pos.hist.rules
    BY NewIsLed
  <2> HIDE DEF h, p
  <2>3. p.pla = pla /\ p.board = pos.board /\ p.hist = h
    BY <2>1
  <2>4. Ends(<<>>, moves)
    BY EmptyEnds DEF Agrees
  <2> QED  BY <2>2, <2>3, <2>4 DEF Agrees, p
<1> QED
  BY <1>1, <1>2

(* A legal move is made in all three records.                                          *)
LEMMA MoveAgrees ==
  ASSUME NEW pos, NEW move, move = [loc |-> move.loc, pla |-> move.pla],
         NEW first, NEW moves, NEW rules,
         Agrees(pos.pla, pos.board, pos.hist, first, moves, rules),
         isLegal(pos.board, move.loc, move.pla)
  PROVE  LET q == MakeMove(pos, move) IN
         Agrees(q.pla, q.board, q.hist, first, Append(moves, move), rules)
<1> DEFINE p == ForPlayer(pos, move.pla)
           after == playMoveAssumeLegal(p.board, move.loc, move.pla)
           h == RecordMove(p.hist, after, move.loc, move.pla)
           q == MakeMove(pos, move)
           loc == move.loc
           pla == move.pla
<1>1. Agrees(p.pla, p.board, p.hist, first, moves, rules) /\ p.pla = pla /\ p.board = pos.board
  BY ForPlayerAgrees
<1> HIDE DEF p
<1>2. q = [pla |-> getOpp(pla), board |-> after, hist |-> h]
  BY <1>1 DEF MakeMove, p
<1>3. move \in LegalMoves /\ [loc |-> loc, pla |-> pla] \in LegalMoves
  BY MoveIsRecord
<1>4. Led(p.pla, p.board, p.hist)
  BY <1>1 DEF Agrees
<1>5. /\ Led(getOpp(pla), after, h)
      /\ h.moveHistory = Append(p.hist.moveHistory, move)
      /\ h.rules = p.hist.rules
  BY <1>3, <1>4, RecordedIsLed
<1>6. /\ p.hist.moveHistory \in Seq(LegalMoves) /\ moves \in Seq(LegalMoves)
      /\ AreLegal(first, moves) /\ BoardAfter(first, moves) = pos.board
      /\ Ends(p.hist.moveHistory, moves) /\ p.hist.rules = rules
  BY <1>1 DEF Agrees, Led, IsHistory
<1>7. Ends(h.moveHistory, Append(moves, move))
  BY <1>3, <1>5, <1>6, EndsAfter
<1>8. AreLegal(first, Append(moves, move))
  BY <1>3, <1>6, LegalAfter
<1>9. BoardAfter(first, Append(moves, move)) = after
  BY <1>1, <1>3, <1>6, BoardsAfter
<1>10. Append(moves, move) \in Seq(LegalMoves)
  BY <1>3, <1>6, AppendProperties
<1> HIDE DEF h, after, q, loc, pla
<1>11. q.pla = getOpp(pla) /\ q.board = after /\ q.hist = h
  BY <1>2
<1> QED
  BY <1>5, <1>6, <1>7, <1>8, <1>9, <1>10, <1>11 DEF Agrees, q

(* The prefix of legal moves is legal.                                                  *)
LEMMA PrefixIsLegal ==
  ASSUME NEW board, NEW moves \in Seq(LegalMoves), AreLegal(board, moves),
         NEW n \in 0..Len(moves)
  PROVE  LET some == SubSeq(moves, 1, n) IN
         /\ some \in Seq(LegalMoves) /\ Len(some) = n /\ \A k \in 1..n : some[k] = moves[k]
         /\ AreLegal(board, some)
         /\ BoardAfter(board, some) = Boards(board, moves)[n]
<1> DEFINE some == SubSeq(moves, 1, n)
<1>1. Len(moves) \in Nat /\ \A k \in 1..Len(moves) : moves[k] \in LegalMoves
  BY LenProperties, ElementOfSeq
<1>2. some \in Seq(LegalMoves) /\ Len(some) = n /\ \A k \in 1..n : some[k] = moves[k]
  <2>1. n \in Int /\ \A k \in 1..n : moves[k] \in LegalMoves
    BY <1>1
  <2>2. /\ some \in Seq(LegalMoves)
        /\ Len(some) = IF 1 <= n THEN n - 1 + 1 ELSE 0
        /\ \A k \in 1..(n - 1 + 1) : some[k] = moves[1 + k - 1]
    BY <2>1, SubSeqProperties
  <2> HIDE DEF some
  <2> QED  BY <1>1, <2>2
<1> HIDE DEF some
<1>3. /\ Boards(board, some)[0] = board
      /\ \A k \in 1..n : Boards(board, some)[k]
           = playMoveAssumeLegal(Boards(board, some)[k - 1], some[k].loc, some[k].pla)
  BY <1>1, <1>2, BoardsSteps
<1>4. /\ Boards(board, moves)[0] = board
      /\ \A k \in 1..Len(moves) : Boards(board, moves)[k]
           = playMoveAssumeLegal(Boards(board, moves)[k - 1], moves[k].loc, moves[k].pla)
  BY <1>1, BoardsSteps
<1> DEFINE S == {k \in 0..n : Boards(board, some)[k] = Boards(board, moves)[k]}
<1>5. 0 \in S
  BY <1>1, <1>3, <1>4
<1>6. \A k \in 0..(n - 1) : k \in S => k + 1 \in S
  <2> SUFFICES ASSUME NEW k \in 0..(n - 1), k \in S  PROVE k + 1 \in S
    OBVIOUS
  <2>1. k + 1 \in 1..n /\ k + 1 \in 1..Len(moves) /\ (k + 1) - 1 = k /\ k + 1 \in 0..n
    BY <1>1
  <2>2. some[k + 1] = moves[k + 1]
    BY <1>2, <2>1
  <2>3. Boards(board, some)[k + 1]
          = playMoveAssumeLegal(Boards(board, some)[k], some[k + 1].loc, some[k + 1].pla)
    BY <1>3, <2>1
  <2>4. Boards(board, moves)[k + 1]
          = playMoveAssumeLegal(Boards(board, moves)[k], moves[k + 1].loc, moves[k + 1].pla)
    BY <1>4, <2>1
  <2> QED  BY <2>1, <2>2, <2>3, <2>4
<1>7. \A k \in 0..n : Boards(board, some)[k] = Boards(board, moves)[k]
  <2>1. n \in Nat
    BY <1>1
  <2>2. \A k \in 0..n : k \in S
    <3> HIDE DEF S
    <3> QED  BY <1>5, <1>6, <2>1, Induction
  <2> QED  BY <2>2
<1>8. AreLegal(board, some)
  <2> SUFFICES ASSUME NEW k \in 1..n
               PROVE  isLegal(Boards(board, some)[k - 1], some[k].loc, some[k].pla)
    BY <1>2 DEF AreLegal
  <2>1. k - 1 \in 0..n /\ k \in 1..Len(moves)
    BY <1>1
  <2>2. isLegal(Boards(board, moves)[k - 1], moves[k].loc, moves[k].pla)
    BY <2>1 DEF AreLegal
  <2>3. Boards(board, some)[k - 1] = Boards(board, moves)[k - 1] /\ some[k] = moves[k]
    BY <1>2, <1>7, <2>1
  <2> QED  BY <2>2, <2>3
<1>9. BoardAfter(board, some) = Boards(board, moves)[n]
  <2>1. n \in 0..n
    BY <1>1
  <2> QED  BY <1>2, <1>7, <2>1 DEF BoardAfter
<1> QED
  BY <1>2, <1>8, <1>9 DEF some

(* Legal moves that are played again, with new rules, lead to the same position.          *)
LEMMA ReplayAgrees ==
  ASSUME NEW board, NEW pla, NEW rules, NEW turnNumber,
         NEW moves \in Seq(LegalMoves), AreLegal(board, moves)
  PROVE  LET first == [pla |-> pla, board |-> board,
                       hist |-> NewHistory(board, pla, rules, turnNumber)]
             q == Positions(first, moves)[Len(moves)]
         IN  Agrees(q.pla, q.board, q.hist, board, moves, rules)
<1> DEFINE h == NewHistory(board, pla, rules, turnNumber)
           first == [pla |-> pla, board |-> board, hist |-> h]
           at == Positions(first, moves)
           n == Len(moves)
           some(k) == SubSeq(moves, 1, k)
           S == {k \in 0..n : Agrees(at[k].pla, at[k].board, at[k].hist, board, some(k), rules)}
<1>1. n \in Nat /\ \A k \in 1..n : moves[k] \in LegalMoves
  BY LenProperties, ElementOfSeq
<1>2. at[0] = first /\ \A k \in 1..n : at[k] = MakeMove(at[k - 1], moves[k])
  <2> HIDE DEF first
  <2> QED  BY <1>1, PositionsSteps
<1> HIDE DEF at
<1>3. Agrees(pla, board, h, board, <<>>, rules)
  BY NewGameAgrees
<1> HIDE DEF h
<1>4. \A k \in 0..n : /\ some(k) \in Seq(LegalMoves) /\ Len(some(k)) = k
                      /\ \A j \in 1..k : some(k)[j] = moves[j]
                      /\ BoardAfter(board, some(k)) = Boards(board, moves)[k]
  BY PrefixIsLegal
<1>5. some(0) = <<>>
  BY SubSeqEmpty
<1>6. ASSUME NEW k \in 0..(n - 1)  PROVE some(k + 1) = Append(some(k), moves[k + 1])
  <2>1. k \in 0..n /\ k + 1 \in 0..n /\ k + 1 \in 1..n
    BY <1>1
  <2> DEFINE s == some(k)
             t == some(k + 1)
             u == Append(s, moves[k + 1])
  <2>2. s \in Seq(LegalMoves) /\ Len(s) = k /\ \A j \in 1..k : s[j] = moves[j]
    BY <1>4, <2>1
  <2>3. t \in Seq(LegalMoves) /\ Len(t) = k + 1 /\ \A j \in 1..(k + 1) : t[j] = moves[j]
    BY <1>4, <2>1
  <2>4. moves[k + 1] \in LegalMoves
    BY <1>1, <2>1
  <2> HIDE DEF s, t, some
  <2>5. /\ u \in Seq(LegalMoves) /\ Len(u) = k + 1
        /\ \A j \in 1..k : u[j] = s[j]
        /\ u[k + 1] = moves[k + 1]
    BY <2>2, <2>4, AppendProperties
  <2> HIDE DEF u
  <2>6. \A j \in 1..Len(t) : t[j] = u[j]
    <3> SUFFICES ASSUME NEW j \in 1..(k + 1)  PROVE t[j] = u[j]
      BY <2>3
    <3>1. j \in 1..k \/ j = k + 1
      BY <2>1
    <3> QED  BY <2>2, <2>3, <2>5, <3>1
  <2>7. t = u
    BY <2>3, <2>5, <2>6, SeqEqual
  <2> QED  BY <2>7 DEF s, t, u
<1>7. 0 \in S
  <2>1. at[0].pla = pla /\ at[0].board = board /\ at[0].hist = h
    BY <1>2
  <2> HIDE DEF some
  <2> QED  BY <1>1, <1>3, <1>5, <2>1
<1>8. \A k \in 0..(n - 1) : k \in S => k + 1 \in S
  <2> SUFFICES ASSUME NEW k \in 0..(n - 1), k \in S  PROVE k + 1 \in S
    OBVIOUS
  <2>1. k \in 0..n /\ k + 1 \in 0..n /\ k + 1 \in 1..n /\ (k + 1) - 1 = k
    BY <1>1
  <2> DEFINE p == at[k]
             move == moves[k + 1]
             q == MakeMove(p, move)
  <2>2. at[k + 1] = q
    BY <1>2, <2>1
  <2>3. Agrees(p.pla, p.board, p.hist, board, some(k), rules)
    OBVIOUS
  <2>4. move \in LegalMoves
    BY <1>1, <2>1
  <2>5. p.board = Boards(board, moves)[k]
    <3> HIDE DEF some, p
    <3> QED  BY <1>4, <2>1, <2>3 DEF Agrees
  <2>6. isLegal(p.board, move.loc, move.pla)
    <3>1. isLegal(Boards(board, moves)[(k + 1) - 1], moves[k + 1].loc, moves[k + 1].pla)
      BY <2>1 DEF AreLegal
    <3> QED  BY <2>1, <2>5, <3>1
  <2>7. move = [loc |-> move.loc, pla |-> move.pla]
    BY <2>4 DEF LegalMoves
  <2>8. some(k + 1) = Append(some(k), move)
    BY <1>6
  <2> HIDE DEF p, move, some, q
  <2>9. Agrees(q.pla, q.board, q.hist, board, Append(some(k), move), rules)
    BY <2>3, <2>6, <2>7, MoveAgrees DEF q
  <2> QED  BY <2>1, <2>2, <2>8, <2>9
<1>9. n \in S
  <2> HIDE DEF S, n
  <2>1. \A k \in 0..n : k \in S
    BY <1>1, <1>7, <1>8, Induction
  <2> QED  BY <1>1, <2>1
<1>10. some(n) = moves
  <2> DEFINE t == some(n)
  <2>1. t \in Seq(LegalMoves) /\ Len(t) = n /\ \A j \in 1..n : t[j] = moves[j]
    BY <1>1, <1>4
  <2> HIDE DEF t
  <2>2. t = moves
    BY <2>1, SeqEqual
  <2> QED  BY <2>2 DEF t
<1> HIDE DEF some
<1> QED
  BY <1>9, <1>10 DEF at, h

(* A file's moves, as far as they are legal.                                            *)
Tolerated(g, first, rules) ==
  /\ g = [nextPla |-> g.nextPla, board |-> g.board, hist |-> g.hist, ok |-> g.ok]
  /\ g.ok \in BOOLEAN
  /\ g.ok => Agrees(g.nextPla, g.board, g.hist, first, g.hist.moveHistory, rules)

LEMMA ToleratedGoesOn ==
  ASSUME NEW first, NEW rules, NEW g, Tolerated(g, first, rules), NEW move
  PROVE  Tolerated(PlayTolerant(g, move), first, rules)
<1> DEFINE q == PlayTolerant(g, move)
<1>0. g = [nextPla |-> g.nextPla, board |-> g.board, hist |-> g.hist, ok |-> g.ok] /\ g.ok \in BOOLEAN
  BY DEF Tolerated
<1>1. CASE ~g.ok \/ ~isLegal(g.board, move.loc, move.pla)
  <2>1. q = [g EXCEPT !.ok = FALSE]
    BY <1>1 DEF PlayTolerant
  <2> HIDE DEF q
  <2>2. q.ok = FALSE
        /\ q = [nextPla |-> q.nextPla, board |-> q.board, hist |-> q.hist, ok |-> q.ok]
    BY <1>0, <2>1
  <2> QED  BY <2>2 DEF Tolerated, q
<1>2. CASE g.ok /\ isLegal(g.board, move.loc, move.pla)
  <2> DEFINE loc == move.loc
             pla == move.pla
             m == [loc |-> loc, pla |-> pla]
             after == playMoveAssumeLegal(g.board, loc, pla)
             h == RecordMove(g.hist, after, loc, pla)
             moves == g.hist.moveHistory
  <2>1. q = [nextPla |-> getOpp(pla), board |-> after, hist |-> h, ok |-> TRUE]
    BY <1>2 DEF PlayTolerant
  <2>2. Agrees(g.nextPla, g.board, g.hist, first, moves, rules)
    BY <1>2 DEF Tolerated
  <2>3. m \in LegalMoves
    BY <1>2, MoveIsRecord
  <2>4. Led(getOpp(pla), after, h) /\ h.moveHistory = Append(moves, m) /\ h.rules = g.hist.rules
    <3>1. Led(g.nextPla, g.board, g.hist)
      BY <2>2 DEF Agrees
    <3>2. [loc |-> loc, pla |-> pla] \in LegalMoves
      BY <2>3
    <3> HIDE DEF q, loc, pla
    <3>3. /\ Led(getOpp(pla), after, h)
          /\ h.moveHistory = Append(moves, [loc |-> loc, pla |-> pla]) /\ h.rules = g.hist.rules
      BY <3>1, <3>2, RecordedIsLed
    <3> QED  BY <3>3
  <2>5. /\ moves \in Seq(LegalMoves) /\ AreLegal(first, moves)
        /\ BoardAfter(first, moves) = g.board /\ g.hist.rules = rules
    BY <2>2 DEF Agrees
  <2>6. m.loc = loc /\ m.pla = pla
    OBVIOUS
  <2> HIDE DEF m, moves, after, h, loc, pla, q
  <2>7. isLegal(g.board, m.loc, m.pla) /\ after = playMoveAssumeLegal(g.board, m.loc, m.pla)
    BY <1>2, <2>6 DEF loc, pla, after
  <2>8. AreLegal(first, Append(moves, m)) /\ Append(moves, m) \in Seq(LegalMoves)
    BY <2>3, <2>5, <2>7, LegalAfter, AppendProperties
  <2>9. BoardAfter(first, Append(moves, m)) = after
    BY <2>3, <2>5, <2>7, BoardsAfter
  <2>10. Ends(Append(moves, m), Append(moves, m))
    <3>1. Len(Append(moves, m)) \in Nat
      BY <2>8, LenProperties
    <3> QED  BY <3>1 DEF Ends
  <2>11. Agrees(getOpp(pla), after, h, first, h.moveHistory, rules)
    BY <2>4, <2>5, <2>8, <2>9, <2>10 DEF Agrees
  <2>12. /\ q.nextPla = getOpp(pla) /\ q.board = after /\ q.hist = h /\ q.ok = TRUE
         /\ q = [nextPla |-> q.nextPla, board |-> q.board, hist |-> q.hist, ok |-> q.ok]
    BY <2>1
  <2> QED  BY <2>11, <2>12 DEF Tolerated, q
<1> QED
  BY <1>0, <1>1, <1>2

LEMMA MovesAreTolerated ==
  ASSUME NEW board, NEW nextPla, NEW hist, NEW moves, NEW initial, NEW rules, Len(moves) \in Nat,
         Tolerated([nextPla |-> nextPla, board |-> board, hist |-> hist, ok |-> TRUE], initial, rules)
  PROVE  Tolerated(playMovesTolerant(board, nextPla, hist, moves), initial, rules)
<1> DEFINE n == Len(moves)
           first == [nextPla |-> nextPla, board |-> board, hist |-> hist, ok |-> TRUE]
           Is(g, m) == g = [k \in 0..m |-> IF k = 0 THEN first ELSE PlayTolerant(g[k - 1], moves[k])]
           S == {m \in 0..n : \E g : Is(g, m)}
<1>1. 0 \in S
  <2> DEFINE h == [k \in 0..0 |-> first]
  <2>1. Is(h, 0)
    <3> HIDE DEF first
    <3>1. \A k \in 0..0 : h[k] = (IF k = 0 THEN first ELSE PlayTolerant(h[k - 1], moves[k]))
      OBVIOUS
    <3> QED  BY <3>1
  <2> HIDE DEF h, first
  <2> QED  BY <2>1
<1>2. ASSUME NEW m \in 0..(n - 1), m \in S  PROVE m + 1 \in S
  <2> HIDE DEF first
  <2>1. PICK g : Is(g, m)
    BY <1>2
  <2> DEFINE h == [k \in 0..(m + 1) |-> IF k = m + 1 THEN PlayTolerant(g[m], moves[k]) ELSE g[k]]
  <2>2. ASSUME NEW k \in 0..(m + 1)
        PROVE  h[k] = IF k = 0 THEN first ELSE PlayTolerant(h[k - 1], moves[k])
    <3>1. CASE k = m + 1
      BY <3>1
    <3>2. CASE k # m + 1
      BY <2>1, <3>2
    <3> QED  BY <3>1, <3>2
  <2>3. Is(h, m + 1)
    BY <2>2
  <2> HIDE DEF h, Is
  <2> QED  BY <2>3
<1>3. n \in S
  <2>1. n \in Nat
    OBVIOUS
  <2>2. \A k \in 0..(n - 1) : k \in S => k + 1 \in S
    BY <1>2
  <2> HIDE DEF S, n
  <2>3. \A k \in 0..n : k \in S
    BY <1>1, <2>1, <2>2, Induction
  <2> QED  BY <2>1, <2>3
<1>4. PICK g : Is(g, n)
  BY <1>3
<1> DEFINE played == CHOOSE f : Is(f, n)
<1>5. playMovesTolerant(board, nextPla, hist, moves) = played[n]
  BY DEF playMovesTolerant
<1>6. Is(played, n)
  <2> HIDE DEF Is
  <2> QED  BY <1>4
<1> HIDE DEF played
<1> DEFINE T == {k \in 0..n : Tolerated(played[k], initial, rules)}
<1>7. 0 \in T
  BY <1>6
<1>8. \A k \in 0..(n - 1) : k \in T => k + 1 \in T
  <2> SUFFICES ASSUME NEW k \in 0..(n - 1), k \in T  PROVE k + 1 \in T
    OBVIOUS
  <2> HIDE DEF first
  <2>1. played[k + 1] = PlayTolerant(played[k], moves[k + 1])
    BY <1>6
  <2> QED  BY <2>1, ToleratedGoesOn
<1>9. n \in T
  <2>1. n \in Nat
    OBVIOUS
  <2> HIDE DEF T, n
  <2>2. \A k \in 0..n : k \in T
    BY <1>7, <1>8, <2>1, Induction
  <2> QED  BY <2>1, <2>2
<1> QED
  BY <1>5, <1>9

-------------------------------------------------------------------------------
LEMMA EngineInitInv == EngineInit => EngineInv
<1> SUFFICES ASSUME EngineInit PROVE EngineInv
  OBVIOUS
<1> USE DEF EngineInit
<1>1. PICK size \in BoardSizes, rules \in Rules :
        /\ rootPla = C_BLACK /\ rootBoard = NewBoard(size)
        /\ rootHistory = NewHistory(NewBoard(size), C_BLACK, rules, 0)
        /\ currentRules = rules
        /\ initialBoard = NewBoard(size) /\ moveHistory = <<>>
  OBVIOUS
<1> QED
  BY <1>1, NewGameAgrees DEF EngineInv

LEMMA EngineUnchanged ==
  EngineInv /\ UNCHANGED <<bot, currentRules, initialBoard, moveHistory>> => EngineInv'
BY DEF EngineInv, bot

LEMMA GameIs == UNCHANGED game => UNCHANGED <<initialBoard, initialPla, moveHistory>>
  BY DEF game

LEMMA SetGameInv ==
  ASSUME NEW board, NEW pla, NEW turnNumber, NEW newPla,
         setPositionAndRules(pla, board, NewHistory(board, pla, currentRules, turnNumber),
                             board, newPla, <<>>)
  PROVE  EngineInv'
<1> DEFINE h == NewHistory(board, pla, currentRules, turnNumber)
<1>1. Agrees(pla, board, h, board, <<>>, currentRules)
  BY NewGameAgrees
<1>2. h.rules = currentRules
  BY NewIsLed
<1> HIDE DEF h
<1>3. /\ rootPla' = pla /\ rootBoard' = board /\ rootHistory' = h
      /\ currentRules' = currentRules /\ initialBoard' = board /\ moveHistory' = <<>>
  BY <1>2 DEF setPositionAndRules, h
<1> QED
  BY <1>1, <1>3 DEF EngineInv

LEMMA KomiInv ==
  ASSUME EngineInv, NEW newKomi, Komi(newKomi)
  PROVE  EngineInv'
<1> DEFINE h == rootHistory
           g == rootHistory'
           rules == [currentRules EXCEPT !.komi = newKomi]
<1>1. /\ g = [h EXCEPT !.rules = [h.rules EXCEPT !.komi = newKomi]]
      /\ currentRules' = rules
      /\ rootPla' = rootPla /\ rootBoard' = rootBoard
      /\ initialBoard' = initialBoard /\ moveHistory' = moveHistory
  BY DEF Komi, game
<1>2. Agrees(rootPla, rootBoard, h, initialBoard, moveHistory, currentRules)
  BY DEF EngineInv
<1>3. Led(rootPla, rootBoard, h) /\ h.rules = currentRules
  BY <1>2 DEF Agrees
<1> HIDE DEF rules
<1>4. g = [h EXCEPT !.rules = rules]
  BY <1>1, <1>3 DEF rules
<1>5. h = [rules |-> h.rules, initialBoard |-> h.initialBoard, initialPla |-> h.initialPla,
           initialTurnNumber |-> h.initialTurnNumber, moveHistory |-> h.moveHistory,
           presumedNextMovePla |-> h.presumedNextMovePla, isGameFinished |-> h.isGameFinished,
           winner |-> h.winner, recentBoards |-> h.recentBoards,
           currentRecentBoardIdx |-> h.currentRecentBoardIdx]
  BY <1>3 DEF Led, IsHistory
<1> HIDE DEF h, g
<1>6. g = [rules |-> rules, initialBoard |-> h.initialBoard, initialPla |-> h.initialPla,
           initialTurnNumber |-> h.initialTurnNumber, moveHistory |-> h.moveHistory,
           presumedNextMovePla |-> h.presumedNextMovePla, isGameFinished |-> h.isGameFinished,
           winner |-> h.winner, recentBoards |-> h.recentBoards,
           currentRecentBoardIdx |-> h.currentRecentBoardIdx]
  BY <1>4, <1>5
<1>7. /\ g.rules = rules /\ g.initialBoard = h.initialBoard /\ g.moveHistory = h.moveHistory
      /\ g.presumedNextMovePla = h.presumedNextMovePla /\ g.recentBoards = h.recentBoards
      /\ g.currentRecentBoardIdx = h.currentRecentBoardIdx
      /\ g.isGameFinished = h.isGameFinished /\ g.winner = h.winner
  BY <1>6
<1>8. g = [rules |-> g.rules, initialBoard |-> g.initialBoard, initialPla |-> g.initialPla,
           initialTurnNumber |-> g.initialTurnNumber, moveHistory |-> g.moveHistory,
           presumedNextMovePla |-> g.presumedNextMovePla, isGameFinished |-> g.isGameFinished,
           winner |-> g.winner, recentBoards |-> g.recentBoards,
           currentRecentBoardIdx |-> g.currentRecentBoardIdx]
  BY <1>6
<1>9. IsHistory(g)
  BY <1>3, <1>7, <1>8 DEF Led, IsHistory
<1>10. RecentBoardsArePast(g)
  BY <1>3, <1>7 DEF Led, RecentBoardsArePast, getRecentBoard
<1>11. Led(rootPla, rootBoard, g)
  BY <1>3, <1>7, <1>9, <1>10 DEF Led, Knows
<1>12. Agrees(rootPla, rootBoard, g, initialBoard, moveHistory, rules)
  BY <1>2, <1>7, <1>11 DEF Agrees
<1> QED
  BY <1>1, <1>12 DEF EngineInv, g

(* The moves that are replayed are recorded ones, all of them or all but the last.         *)
LEMMA ReplayInv ==
  ASSUME EngineInv, NEW moves \in Seq(LegalMoves), AreLegal(initialBoard, moves), NEW rules,
         SetRoot(Replay(moves, rules)), initialBoard' = initialBoard, moveHistory' = moves,
         currentRules' = rules
  PROVE  EngineInv'
<1> DEFINE first == [pla |-> initialPla, board |-> initialBoard,
                     hist |-> NewHistory(initialBoard, initialPla, rules,
                                         rootHistory.initialTurnNumber)]
           q == Positions(first, moves)[Len(moves)]
<1>1. Agrees(q.pla, q.board, q.hist, initialBoard, moves, rules)
  BY ReplayAgrees
<1>2. Replay(moves, rules) = q
  BY DEF Replay
<1> HIDE DEF q
<1>3. rootPla' = q.pla /\ rootBoard' = q.board /\ rootHistory' = q.hist
  BY <1>2 DEF SetRoot
<1> QED
  BY <1>1, <1>3 DEF EngineInv

LEMMA UndoInv ==
  ASSUME EngineInv, Undo
  PROVE  EngineInv'
<1>1. CASE moveHistory = <<>>
  BY <1>1, EngineUnchanged DEF Undo
<1>2. CASE moveHistory # <<>>
  <2>1. moveHistory \in Seq(LegalMoves) /\ AreLegal(initialBoard, moveHistory)
    BY DEF EngineInv, Agrees
  <2>2. Len(moveHistory) - 1 \in 0..Len(moveHistory)
    BY <1>2, <2>1, EmptySeq, LenProperties
  <2> DEFINE some == SubSeq(moveHistory, 1, Len(moveHistory) - 1)
  <2>3. some \in Seq(LegalMoves) /\ AreLegal(initialBoard, some)
    BY <2>1, <2>2, PrefixIsLegal
  <2>4. Front(moveHistory) = some
    BY DEF Front
  <2> HIDE DEF some
  <2>5. /\ SetRoot(Replay(some, currentRules)) /\ initialBoard' = initialBoard
        /\ moveHistory' = some /\ currentRules' = currentRules
    BY <1>2, <2>4 DEF Undo
  <2> QED  BY <2>3, <2>5, ReplayInv
<1> QED
  BY <1>1, <1>2

LEMMA SetRulesInv ==
  ASSUME EngineInv, NEW tax, SetRules(tax)
  PROVE  EngineInv'
<1>1. moveHistory \in Seq(LegalMoves) /\ AreLegal(initialBoard, moveHistory)
  BY DEF EngineInv, Agrees
<1> DEFINE rules == [tax |-> tax, komi |-> currentRules.komi]
<1>2. /\ SetRoot(Replay(moveHistory, rules)) /\ initialBoard' = initialBoard
      /\ moveHistory' = moveHistory /\ currentRules' = rules
  BY DEF SetRules, game
<1> HIDE DEF rules
<1> QED
  BY <1>1, <1>2, ReplayInv

(* A move of play or genmove, when the history may have begun anew before it.              *)
LEMMA MoveInv ==
  ASSUME NEW pos, NEW move, move = [loc |-> move.loc, pla |-> move.pla],
         Agrees(pos.pla, pos.board, pos.hist, initialBoard, moveHistory, currentRules),
         isLegal(pos.board, move.loc, move.pla), SetRoot(MakeMove(pos, move)),
         moveHistory' = Append(moveHistory, move),
         initialBoard' = initialBoard, currentRules' = currentRules
  PROVE  EngineInv'
<1> DEFINE q == MakeMove(pos, move)
           moves == Append(moveHistory, move)
<1>1. Agrees(q.pla, q.board, q.hist, initialBoard, moves, currentRules)
  BY MoveAgrees
<1>2. rootPla' = q.pla /\ rootBoard' = q.board /\ rootHistory' = q.hist
  BY DEF SetRoot
<1> HIDE DEF q, moves
<1>3. moveHistory' = moves
  BY DEF moves
<1> QED
  BY <1>1, <1>2, <1>3 DEF EngineInv

LEMMA RootAgrees ==
  ASSUME EngineInv
  PROVE  /\ Root.board = rootBoard
         /\ Agrees(Root.pla, Root.board, Root.hist, initialBoard, moveHistory, currentRules)
<1>1. Root.pla = rootPla /\ Root.board = rootBoard /\ Root.hist = rootHistory
  BY DEF Root
<1> QED  BY <1>1 DEF EngineInv

LEMMA PlayInv ==
  ASSUME EngineInv, NEW move \in Moves, Play(move)
  PROVE  EngineInv'
<1>1. CASE ~isLegal(rootBoard, move.loc, move.pla)
  BY <1>1, EngineUnchanged DEF Play
<1>2. CASE isLegal(rootBoard, move.loc, move.pla)
  <2> DEFINE pos == Root
  <2>1. pos.board = rootBoard
        /\ Agrees(pos.pla, pos.board, pos.hist, initialBoard, moveHistory, currentRules)
    BY RootAgrees
  <2>2. move = [loc |-> move.loc, pla |-> move.pla]
    BY DEF Moves
  <2>3. /\ SetRoot(MakeMove(pos, move)) /\ moveHistory' = Append(moveHistory, move)
        /\ initialBoard' = initialBoard /\ currentRules' = currentRules
    BY <1>2 DEF Play
  <2> HIDE DEF pos
  <2> QED  BY <1>2, <2>1, <2>2, <2>3, MoveInv
<1> QED
  BY <1>1, <1>2

LEMMA ForPlayerInv ==
  ASSUME EngineInv, NEW pla, SetRoot(ForPlayer(Root, pla)),
         UNCHANGED <<currentRules, initialBoard, moveHistory>>
  PROVE  EngineInv'
<1> DEFINE p == ForPlayer(Root, pla)
<1>1. Agrees(p.pla, p.board, p.hist, initialBoard, moveHistory, currentRules)
  BY RootAgrees, ForPlayerAgrees
<1>2. rootPla' = p.pla /\ rootBoard' = p.board /\ rootHistory' = p.hist
  BY DEF SetRoot
<1> HIDE DEF p
<1> QED  BY <1>1, <1>2 DEF EngineInv

LEMMA GenMoveInv ==
  ASSUME EngineInv, NEW move \in Moves \cup [loc : {NULL_LOC}, pla : Players],
         NEW played \in BOOLEAN, GenMove(move, played)
  PROVE  EngineInv'
<1> DEFINE pos == ForPlayer(Root, move.pla)
<1>1. Agrees(pos.pla, pos.board, pos.hist, initialBoard, moveHistory, currentRules)
  BY RootAgrees, ForPlayerAgrees
<1>2. move = [loc |-> move.loc, pla |-> move.pla]
  BY DEF Moves
<1>3. CASE move.loc = NULL_LOC \/ ~played
  <2>1. CASE SetRoot(pos) /\ UNCHANGED moveHistory
    BY <2>1, ForPlayerInv DEF GenMove
  <2>2. CASE ~(SetRoot(pos) /\ UNCHANGED moveHistory)
    <3>1. /\ isLegal(pos.board, move.loc, move.pla)
          /\ SetRoot(MakeMove(pos, move)) /\ moveHistory' = Append(moveHistory, move)
          /\ initialBoard' = initialBoard /\ currentRules' = currentRules
      BY <2>2 DEF GenMove
    <3> HIDE DEF pos
    <3> QED  BY <1>1, <1>2, <3>1, MoveInv
  <2> QED  BY <2>1, <2>2
<1>4. CASE ~(move.loc = NULL_LOC \/ ~played)
  <2>1. /\ isLegal(pos.board, move.loc, move.pla)
        /\ SetRoot(MakeMove(pos, move)) /\ moveHistory' = Append(moveHistory, move)
        /\ initialBoard' = initialBoard /\ currentRules' = currentRules
    BY <1>4 DEF GenMove
  <2> HIDE DEF pos
  <2> QED  BY <1>1, <1>2, <2>1, MoveInv
<1> QED
  BY <1>3, <1>4

LEMMA LoadSgfInv ==
  ASSUME EngineInv, NEW sgf \in Sgfs, NEW moveNumber \in 0..Len(sgf.moves), LoadSgf(sgf, moveNumber)
  PROVE  EngineInv'
<1> DEFINE board == Placed(NewBoard(sgf.size), sgf.placements)[Len(sgf.placements)]
           hist == NewHistory(board, sgf.nextPla, sgf.rules, numStonesOnBoard(board))
           moves == SubSeq(sgf.moves, 1, moveNumber)
           game1 == playMovesTolerant(board, sgf.nextPla, hist, moves)
           rules == sgf.rules
<1>1. \/ UNCHANGED <<bot, currentRules, game>>
      \/ /\ game1.ok
         /\ setPositionAndRules(game1.nextPla, game1.board, game1.hist, board, sgf.nextPla,
                                game1.hist.moveHistory)
  BY DEF LoadSgf, UnchangedPosition
<1>2. Len(moves) \in Nat
  <2>1. sgf.moves \in Seq([loc : Nat, pla : Nat])
    BY ArgumentsAssumption
  <2>2. Len(sgf.moves) \in Nat /\ \A i \in 1..Len(sgf.moves) : sgf.moves[i] \in [loc : Nat, pla : Nat]
    BY <2>1, LenProperties, ElementOfSeq
  <2>3. moveNumber \in Int /\ \A i \in 1..moveNumber : sgf.moves[i] \in [loc : Nat, pla : Nat]
    BY <2>2
  <2>4. moves \in Seq([loc : Nat, pla : Nat])
    BY <2>3, SubSeqProperties
  <2> HIDE DEF moves
  <2> QED  BY <2>4, LenProperties
<1> HIDE DEF board, moves
<1>3. Agrees(sgf.nextPla, board, hist, board, <<>>, rules) /\ hist.moveHistory = <<>>
  BY NewGameAgrees, NewIsLed
<1> HIDE DEF hist, rules
<1>4. Tolerated([nextPla |-> sgf.nextPla, board |-> board, hist |-> hist, ok |-> TRUE], board, rules)
  <2> DEFINE g == [nextPla |-> sgf.nextPla, board |-> board, hist |-> hist, ok |-> TRUE]
  <2>1. /\ g.nextPla = sgf.nextPla /\ g.board = board /\ g.hist = hist /\ g.ok = TRUE
        /\ g = [nextPla |-> g.nextPla, board |-> g.board, hist |-> g.hist, ok |-> g.ok]
    OBVIOUS
  <2> HIDE DEF g
  <2> QED  BY <1>3, <2>1 DEF Tolerated, g
<1>5. Tolerated(game1, board, rules)
  BY <1>2, <1>4, MovesAreTolerated
<1> HIDE DEF game1
<1>6. CASE UNCHANGED <<bot, currentRules, game>>
  BY <1>6, GameIs, EngineUnchanged
<1>7. CASE /\ game1.ok
           /\ setPositionAndRules(game1.nextPla, game1.board, game1.hist, board, sgf.nextPla,
                                  game1.hist.moveHistory)
  <2>1. Agrees(game1.nextPla, game1.board, game1.hist, board, game1.hist.moveHistory, rules)
    BY <1>5, <1>7 DEF Tolerated
  <2>2. game1.hist.rules = rules
    BY <2>1 DEF Agrees
  <2>3. /\ rootPla' = game1.nextPla /\ rootBoard' = game1.board /\ rootHistory' = game1.hist
        /\ currentRules' = rules /\ initialBoard' = board
        /\ moveHistory' = game1.hist.moveHistory
    BY <1>7, <2>2 DEF setPositionAndRules
  <2> QED  BY <2>1, <2>3 DEF EngineInv
<1> QED
  BY <1>1, <1>6, <1>7

LEMMA EngineNextInv == EngineInv /\ [EngineNext]_engine => EngineInv'
<1> SUFFICES ASSUME EngineInv, [EngineNext]_engine PROVE EngineInv'
  OBVIOUS
<1>1. CASE OtherCommand
  BY <1>1, GameIs, EngineUnchanged DEF OtherCommand, UnchangedPosition
<1>2. CASE Stop
  BY <1>2, GameIs, EngineUnchanged DEF Stop, UnchangedPosition
<1>3. CASE ClearBoard
  BY <1>3, SetGameInv DEF ClearBoard, EmptyGame
<1>4. CASE Undo
  BY <1>4, UndoInv
<1>5. CASE SearchEnds
  BY <1>5, GameIs, EngineUnchanged DEF SearchEnds
<1>6. ASSUME NEW size \in BoardSizes, BoardSize(size)  PROVE EngineInv'
  <2>1. CASE size = nnLen
    BY <1>6, <2>1, GameIs, EngineUnchanged DEF BoardSize
  <2>2. CASE size # nnLen
    BY <1>6, <2>2, SetGameInv DEF BoardSize, EmptyGame
  <2> QED  BY <2>1, <2>2
<1>7. ASSUME NEW k \in Komis, Komi(k)  PROVE EngineInv'
  BY <1>7, KomiInv
<1>8. ASSUME NEW tax \in TaxRules, SetRules(tax)  PROVE EngineInv'
  BY <1>8, SetRulesInv
<1>9. ASSUME NEW stones \in Setups, SetPosition(stones)  PROVE EngineInv'
  <2> DEFINE board == Placed(NewBoard(rootBoard.size), stones)[Len(stones)]
             turnNumber == numStonesOnBoard(board)
  <2>1. \/ UNCHANGED <<bot, currentRules, game>>
        \/ setPositionAndRules(C_BLACK, board, NewHistory(board, C_BLACK, currentRules, turnNumber),
                               board, C_BLACK, <<>>)
    BY <1>9 DEF SetPosition
  <2> HIDE DEF board, turnNumber
  <2> QED  BY <2>1, GameIs, EngineUnchanged, SetGameInv
<1>10. ASSUME NEW pla \in Players, Analyze(pla)  PROVE EngineInv'
  BY <1>10, GameIs, ForPlayerInv DEF Analyze
<1>11. ASSUME NEW sgf \in Sgfs, NEW n \in 0..Len(sgf.moves), LoadSgf(sgf, n)  PROVE EngineInv'
  BY <1>11, LoadSgfInv
<1>12. ASSUME NEW move \in Moves, Play(move)  PROVE EngineInv'
  BY <1>12, PlayInv
<1>13. ASSUME NEW move \in Moves \cup [loc : {NULL_LOC}, pla : Players],
              NEW played \in BOOLEAN, GenMove(move, played)
       PROVE  EngineInv'
  BY <1>13, GenMoveInv
<1>14. CASE UNCHANGED engine
  BY <1>14, GameIs, EngineUnchanged DEF engine
<1> QED
  BY <1>1, <1>2, <1>3, <1>4, <1>5, <1>6, <1>7, <1>8, <1>9, <1>10, <1>11, <1>12, <1>13, <1>14
     DEF EngineNext

(* Whatever the commands and their order, the game that undo and the rules commands       *)
(* replay, the position of the bot, and its history with its recent boards agree.           *)
THEOREM RecordsAgree == EngineSpec => []PositionIsReplay
<1>1. EngineInv => PositionIsReplay
  <2> SUFFICES ASSUME EngineInv PROVE PositionIsReplay
    OBVIOUS
  <2>1. Agrees(rootPla, rootBoard, rootHistory, initialBoard, moveHistory, currentRules)
    BY DEF EngineInv
  <2>2. Led(rootPla, rootBoard, rootHistory)
    BY <2>1 DEF Agrees
  <2>3. IsSuffix(rootHistory.moveHistory, moveHistory)
    BY <2>1, <2>2, EndsIsSuffix DEF Agrees, Led, IsHistory
  <2> QED  BY <2>1, <2>2, <2>3 DEF Agrees, Led, PositionIsReplay
<1> QED
  BY <1>1, EngineInitInv, EngineNextInv, PTL DEF EngineSpec

-------------------------------------------------------------------------------
(* What the hash is made of, besides the size.                                             *)
Keys(board) == {StoneKey(l, board.colors[l]) : l \in {k \in Cells : board.colors[k] \in Players}}

LEMMA NewBoardIsBoard ==
  ASSUME NEW size \in Sizes
  PROVE  IsBoard(NewBoard(size)) /\ NewBoard(size).size = size
<1> DEFINE b == NewBoard(size)
<1>1. /\ b = [size |-> size, colors |-> b.colors, pos_hash |-> SizeKeys(size)]
      /\ b.size = size
      /\ b.colors = [l \in Cells |-> IF l \in OnSize(size) THEN C_EMPTY ELSE C_WALL]
  BY DEF NewBoard
<1> HIDE DEF b
<1>2. \A k \in Cells : b.colors[k] \notin Players
  BY <1>1 DEF Players, C_EMPTY, C_WALL, C_BLACK, C_WHITE
<1>3. b.colors \in [Cells -> C_EMPTY..C_WALL]
  BY <1>1 DEF C_EMPTY, C_WALL
<1>4. Keys(b) = {}
  BY <1>2 DEF Keys
<1>5. HashOf(b) = SizeKeys(size) \cup Keys(b)
  BY <1>1 DEF HashOf, Keys
<1>6. b = [size |-> b.size, colors |-> b.colors, pos_hash |-> HashOf(b)]
  BY <1>1, <1>4, <1>5
<1>7. \A l \in Cells : b.colors[l] = C_WALL <=> l \notin OnSize(b.size)
  BY <1>1 DEF C_EMPTY, C_WALL
<1>8. IsBoard(b)
  BY <1>1, <1>3, <1>6, <1>7 DEF IsBoard
<1> QED  BY <1>1, <1>8 DEF b

(* One cell that is not wall changes its colour, and the wall is where it was.               *)
LEMMA Recolored ==
  ASSUME NEW board, IsBoard(board), NEW loc \in Cells, board.colors[loc] # C_WALL,
         NEW color \in Players \cup {C_EMPTY}, NEW hash,
         NEW after, after = WithColor(board, loc, color, hash)
  PROVE  /\ after = [size |-> board.size, colors |-> after.colors, pos_hash |-> hash]
         /\ after.size = board.size /\ after.pos_hash = hash
         /\ after.colors \in [Cells -> C_EMPTY..C_WALL]
         /\ \A l \in Cells : after.colors[l] = IF l = loc THEN color ELSE board.colors[l]
         /\ \A l \in Cells : after.colors[l] = C_WALL <=> l \notin OnSize(board.size)
<1> DEFINE colors == [l \in Cells |-> IF l = loc THEN color ELSE board.colors[l]]
<1>1. after = [board EXCEPT !.colors = colors, !.pos_hash = hash]
  BY DEF WithColor
<1>2. /\ board = [size |-> board.size, colors |-> board.colors, pos_hash |-> HashOf(board)]
      /\ board.colors \in [Cells -> C_EMPTY..C_WALL]
      /\ \A l \in Cells : board.colors[l] = C_WALL <=> l \notin OnSize(board.size)
  BY DEF IsBoard
<1>3. color \in C_EMPTY..C_WALL /\ color # C_WALL
  BY DEF Players, C_EMPTY, C_BLACK, C_WHITE, C_WALL
<1>4. /\ colors \in [Cells -> C_EMPTY..C_WALL]
      /\ \A l \in Cells : colors[l] = IF l = loc THEN color ELSE board.colors[l]
  BY <1>2, <1>3
<1> HIDE DEF colors
<1>5. after = [size |-> board.size, colors |-> colors, pos_hash |-> hash]
  BY <1>1, <1>2
<1>6. after.size = board.size /\ after.pos_hash = hash /\ after.colors = colors
  BY <1>5
<1>7. \A l \in Cells : colors[l] = C_WALL <=> l \notin OnSize(board.size)
  BY <1>2, <1>3, <1>4
<1> QED
  BY <1>4, <1>5, <1>6, <1>7

(* The key of a stone on a free cell is not in the hash yet; that of one which is taken       *)
(* away is, and it is the only one of its cell.                                                *)
LEMMA StoneIsPut ==
  ASSUME NEW board, IsBoard(board), NEW loc \in Cells, board.colors[loc] = C_EMPTY,
         NEW pla \in Players, NEW after,
         after = WithColor(board, loc, pla, Xor(board.pos_hash, StoneKey(loc, pla)))
  PROVE  IsBoard(after) /\ after.size = board.size
<1> DEFINE key == StoneKey(loc, pla)
           hash == Xor(board.pos_hash, key)
<1>1. C_EMPTY \notin Players /\ C_EMPTY # C_WALL
  BY DEF Players, C_BLACK, C_WHITE, C_EMPTY, C_WALL
<1>2. /\ after = [size |-> board.size, colors |-> after.colors, pos_hash |-> hash]
      /\ after.size = board.size /\ after.pos_hash = hash
      /\ after.colors \in [Cells -> C_EMPTY..C_WALL]
      /\ \A l \in Cells : after.colors[l] = IF l = loc THEN pla ELSE board.colors[l]
      /\ \A l \in Cells : after.colors[l] = C_WALL <=> l \notin OnSize(board.size)
  <2> HIDE DEF hash
  <2>1. after = WithColor(board, loc, pla, hash) /\ board.colors[loc] # C_WALL
        /\ pla \in Players \cup {C_EMPTY}
    BY <1>1 DEF hash
  <2> QED  BY <2>1, Recolored
<1>3. Keys(after) = Keys(board) \cup {key}
  <2>1. \A l \in Cells : after.colors[l] = IF l = loc THEN pla ELSE board.colors[l]
    BY <1>2
  <2> QED  BY <1>1, <2>1 DEF Keys
<1>4. key \notin Keys(board)
  BY <1>1 DEF StoneKey, Keys
<1>5. key \notin SizeKeys(board.size)
  BY DEF StoneKey, SizeKeys
<1>6. /\ HashOf(board) = SizeKeys(board.size) \cup Keys(board)
      /\ HashOf(after) = SizeKeys(after.size) \cup Keys(after)
  BY DEF HashOf, Keys
<1>7. board.pos_hash = HashOf(board) /\ board.size \in Sizes
  BY DEF IsBoard
<1> HIDE DEF key, hash
<1>8. SizeKeys(after.size) = SizeKeys(board.size)
  BY <1>2
<1>9. hash = HashOf(board) \cup {key}
  BY <1>4, <1>5, <1>6, <1>7 DEF Xor, hash
<1>10. HashOf(after) = hash
  BY <1>3, <1>6, <1>8, <1>9
<1>11. after = [size |-> after.size, colors |-> after.colors, pos_hash |-> HashOf(after)]
  BY <1>2, <1>10
<1> QED
  BY <1>2, <1>7, <1>11 DEF IsBoard

LEMMA StoneIsTaken ==
  ASSUME NEW board, IsBoard(board), NEW loc \in Cells, board.colors[loc] \in Players,
         NEW after, after = removeSingleStone(board, loc)
  PROVE  IsBoard(after) /\ after.size = board.size /\ after.colors[loc] = C_EMPTY
<1> DEFINE key == StoneKey(loc, board.colors[loc])
           hash == Xor(board.pos_hash, key)
<1>1. C_EMPTY \notin Players /\ C_WALL \notin Players
  BY DEF Players, C_BLACK, C_WHITE, C_EMPTY, C_WALL
<1>2. /\ after = [size |-> board.size, colors |-> after.colors, pos_hash |-> hash]
      /\ after.size = board.size /\ after.pos_hash = hash
      /\ after.colors \in [Cells -> C_EMPTY..C_WALL]
      /\ \A l \in Cells : after.colors[l] = IF l = loc THEN C_EMPTY ELSE board.colors[l]
      /\ \A l \in Cells : after.colors[l] = C_WALL <=> l \notin OnSize(board.size)
  <2>1. after = WithColor(board, loc, C_EMPTY, hash)
    BY DEF removeSingleStone
  <2> HIDE DEF hash
  <2>2. board.colors[loc] # C_WALL /\ C_EMPTY \in Players \cup {C_EMPTY}
    BY <1>1
  <2> QED  BY <2>1, <2>2, Recolored
<1>3. Keys(after) = Keys(board) \ {key}
  <2>1. \A l \in Cells : after.colors[l] = IF l = loc THEN C_EMPTY ELSE board.colors[l]
    BY <1>2
  <2>2. \A l \in Cells : l # loc => StoneKey(l, board.colors[l]) # key
    BY DEF StoneKey
  <2> HIDE DEF key
  <2>3. ASSUME NEW k \in Keys(after)  PROVE k \in Keys(board) \ {key}
    <3>1. PICK l \in Cells : after.colors[l] \in Players /\ k = StoneKey(l, after.colors[l])
      BY <2>3 DEF Keys
    <3>2. l # loc /\ after.colors[l] = board.colors[l]
      BY <1>1, <2>1, <3>1
    <3>3. k \in Keys(board)
      BY <3>1, <3>2 DEF Keys
    <3> QED  BY <2>2, <3>1, <3>2, <3>3
  <2>4. ASSUME NEW k \in Keys(board) \ {key}  PROVE k \in Keys(after)
    <3>1. PICK l \in Cells : board.colors[l] \in Players /\ k = StoneKey(l, board.colors[l])
      BY <2>4 DEF Keys
    <3>2. l # loc
      BY <3>1 DEF key
    <3>3. after.colors[l] = board.colors[l]
      BY <2>1, <3>2
    <3> QED  BY <3>1, <3>3 DEF Keys
  <2> QED  BY <2>3, <2>4
<1>4. key \in Keys(board)
  BY DEF Keys
<1>5. key \notin SizeKeys(board.size)
  BY DEF StoneKey, SizeKeys
<1>6. /\ HashOf(board) = SizeKeys(board.size) \cup Keys(board)
      /\ HashOf(after) = SizeKeys(after.size) \cup Keys(after)
  BY DEF HashOf, Keys
<1>7. board.pos_hash = HashOf(board) /\ board.size \in Sizes
  BY DEF IsBoard
<1> HIDE DEF key, hash
<1>8. SizeKeys(after.size) = SizeKeys(board.size)
  BY <1>2
<1>9. hash = HashOf(board) \ {key}
  BY <1>4, <1>6, <1>7 DEF Xor, hash
<1>10. HashOf(after) = hash
  BY <1>3, <1>5, <1>6, <1>8, <1>9
<1>11. after = [size |-> after.size, colors |-> after.colors, pos_hash |-> HashOf(after)]
  BY <1>2, <1>10
<1> QED
  BY <1>2, <1>7, <1>11 DEF IsBoard

LEMMA MoveKeepsBoard ==
  ASSUME NEW board, IsBoard(board), NEW loc, NEW pla \in Players,
         loc = PASS_LOC \/ (loc \in Cells /\ board.colors[loc] = C_EMPTY)
  PROVE  /\ IsBoard(playMoveAssumeLegal(board, loc, pla))
         /\ playMoveAssumeLegal(board, loc, pla).size = board.size
<1> DEFINE after == playMoveAssumeLegal(board, loc, pla)
<1>1. CASE loc = PASS_LOC
  BY <1>1 DEF playMoveAssumeLegal
<1>2. CASE loc # PASS_LOC
  <2>1. after = WithColor(board, loc, pla, Xor(board.pos_hash, StoneKey(loc, pla)))
    BY <1>2 DEF playMoveAssumeLegal
  <2> HIDE DEF after
  <2>2. IsBoard(after) /\ after.size = board.size
    BY <1>2, <2>1, StoneIsPut
  <2> QED  BY <2>2 DEF after
<1> QED
  BY <1>1, <1>2

LEMMA SetStoneKeepsBoard ==
  ASSUME NEW board, IsBoard(board), NEW loc, NEW color
  PROVE  IsBoard(setStone(board, loc, color)) /\ setStone(board, loc, color).size = board.size
<1> DEFINE same == ~isOnBoard(board, loc) \/ color \notin Players \cup {C_EMPTY}
                     \/ board.colors[loc] = color
<1>1. CASE same
  BY <1>1 DEF setStone
<1>2. CASE ~same
  <2>1. /\ loc \in Cells /\ board.colors[loc] # C_WALL /\ color \in Players \cup {C_EMPTY}
        /\ board.colors[loc] # color /\ board.colors[loc] \in C_EMPTY..C_WALL
    BY <1>2 DEF isOnBoard, IsBoard
  <2>2. CASE board.colors[loc] = C_EMPTY
    <3>1. setStone(board, loc, color) = playMoveAssumeLegal(board, loc, color) /\ color \in Players
      BY <1>2, <2>1, <2>2 DEF setStone
    <3> QED  BY <2>1, <2>2, <3>1, MoveKeepsBoard
  <2>3. CASE board.colors[loc] # C_EMPTY
    <3>1. board.colors[loc] \in Players
      BY <2>1, <2>3 DEF Players, C_EMPTY, C_BLACK, C_WHITE, C_WALL
    <3> DEFINE after == removeSingleStone(board, loc)
    <3>2. IsBoard(after) /\ after.size = board.size /\ after.colors[loc] = C_EMPTY
      BY <2>1, <3>1, StoneIsTaken
    <3>3. setStone(board, loc, color) =
            IF color = C_EMPTY THEN after ELSE playMoveAssumeLegal(after, loc, color)
      BY <1>2, <2>3 DEF setStone
    <3> HIDE DEF after
    <3>4. CASE color = C_EMPTY
      BY <3>2, <3>3, <3>4
    <3>5. CASE color # C_EMPTY
      <4>1. color \in Players
        BY <2>1, <3>5
      <4>2. /\ IsBoard(playMoveAssumeLegal(after, loc, color))
            /\ playMoveAssumeLegal(after, loc, color).size = after.size
        BY <2>1, <3>2, <4>1, MoveKeepsBoard
      <4> QED  BY <3>2, <3>3, <3>5, <4>2
    <3> QED  BY <3>4, <3>5
  <2> QED  BY <2>2, <2>3
<1> QED
  BY <1>1, <1>2

LEMMA PlacedIsBoard ==
  ASSUME NEW board, IsBoard(board), NEW stones, Len(stones) \in Nat
  PROVE  IsBoard(Placed(board, stones)[Len(stones)])
<1> DEFINE n == Len(stones)
           S == {k \in 0..n : IsBoard(Placed(board, stones)[k])}
<1>1. /\ Placed(board, stones)[0] = board
      /\ \A k \in 1..n : Placed(board, stones)[k]
                           = setStone(Placed(board, stones)[k - 1], stones[k].loc, stones[k].pla)
  BY PlacedSteps
<1>2. n \in Nat
  OBVIOUS
<1> HIDE DEF n
<1>3. 0 \in S
  BY <1>1, <1>2
<1>4. \A k \in 0..(n - 1) : k \in S => k + 1 \in S
  <2> SUFFICES ASSUME NEW k \in 0..(n - 1), k \in S  PROVE k + 1 \in S
    OBVIOUS
  <2>1. k + 1 \in 1..n /\ (k + 1) - 1 = k /\ k + 1 \in 0..n
    BY <1>2
  <2>2. Placed(board, stones)[k + 1]
          = setStone(Placed(board, stones)[k], stones[k + 1].loc, stones[k + 1].pla)
    BY <1>1, <2>1
  <2>3. IsBoard(Placed(board, stones)[k])
    OBVIOUS
  <2>4. IsBoard(Placed(board, stones)[k + 1])
    BY <2>2, <2>3, SetStoneKeepsBoard
  <2> QED  BY <2>1, <2>4
<1>5. \A k \in 0..n : k \in S
  <2> HIDE DEF S
  <2> QED  BY <1>2, <1>3, <1>4, Induction
<1>6. n \in S
  BY <1>2, <1>5
<1> QED
  BY <1>6 DEF n

(* Legal moves lead from a board to boards of its size.                                     *)
LEMMA MovesKeepBoard ==
  ASSUME NEW board, IsBoard(board), NEW moves \in Seq(LegalMoves), AreLegal(board, moves)
  PROVE  IsBoard(BoardAfter(board, moves))
<1> DEFINE n == Len(moves)
           S == {k \in 0..n : IsBoard(Boards(board, moves)[k])}
<1>1. n \in Nat
  BY LenProperties
<1>2. /\ Boards(board, moves)[0] = board
      /\ \A k \in 1..n : Boards(board, moves)[k]
           = playMoveAssumeLegal(Boards(board, moves)[k - 1], moves[k].loc, moves[k].pla)
  BY <1>1, BoardsSteps
<1>3. \A k \in 1..n : isLegal(Boards(board, moves)[k - 1], moves[k].loc, moves[k].pla)
  BY DEF AreLegal
<1> HIDE DEF n
<1>4. 0 \in S
  BY <1>1, <1>2
<1>5. \A k \in 0..(n - 1) : k \in S => k + 1 \in S
  <2> SUFFICES ASSUME NEW k \in 0..(n - 1), k \in S  PROVE k + 1 \in S
    OBVIOUS
  <2>1. k + 1 \in 1..n /\ (k + 1) - 1 = k /\ k + 1 \in 0..n
    BY <1>1
  <2> DEFINE b == Boards(board, moves)[k]
             loc == moves[k + 1].loc
             pla == moves[k + 1].pla
  <2>2. /\ Boards(board, moves)[k + 1] = playMoveAssumeLegal(b, loc, pla)
        /\ isLegal(b, loc, pla) /\ IsBoard(b)
    BY <1>2, <1>3, <2>1
  <2> HIDE DEF b, loc, pla
  <2>3. pla \in Players /\ (loc = PASS_LOC \/ (loc \in Cells /\ b.colors[loc] = C_EMPTY))
    BY <2>2 DEF isLegal
  <2>4. IsBoard(playMoveAssumeLegal(b, loc, pla))
    BY <2>2, <2>3, MoveKeepsBoard
  <2> QED  BY <2>1, <2>2, <2>4
<1>6. \A k \in 0..n : k \in S
  <2> HIDE DEF S
  <2> QED  BY <1>1, <1>4, <1>5, Induction
<1>7. n \in S
  BY <1>1, <1>6
<1> QED
  BY <1>7 DEF n, BoardAfter

LEMMA RootIsBoard ==
  ASSUME EngineInv, IsBoard(initialBoard)
  PROVE  IsBoard(rootBoard) /\ rootBoard.size \in Sizes
<1>1. /\ moveHistory \in Seq(LegalMoves) /\ AreLegal(initialBoard, moveHistory)
      /\ BoardAfter(initialBoard, moveHistory) = rootBoard
  BY DEF EngineInv, Agrees
<1>2. IsBoard(rootBoard)
  BY <1>1, MovesKeepBoard
<1> QED
  BY <1>2 DEF IsBoard

(* The first board of the game is empty or made of stones that were set on an empty one.     *)
LEMMA FirstBoardNext ==
  EngineInv /\ IsBoard(initialBoard) /\ [EngineNext]_engine => IsBoard(initialBoard)'
<1> SUFFICES ASSUME EngineInv, IsBoard(initialBoard), [EngineNext]_engine
             PROVE  IsBoard(initialBoard')
  OBVIOUS
<1>1. IsBoard(rootBoard) /\ rootBoard.size \in Sizes
  BY RootIsBoard
<1>2. CASE UNCHANGED initialBoard
  BY <1>2
<1>3. ASSUME NEW size \in BoardSizes, BoardSize(size)  PROVE IsBoard(initialBoard')
  <2>1. UNCHANGED initialBoard \/ initialBoard' = NewBoard(size)
    BY <1>3 DEF BoardSize, EmptyGame, setPositionAndRules, game
  <2>2. size \in Sizes
    BY ArgumentsAssumption
  <2> QED  BY <2>1, <2>2, NewBoardIsBoard
<1>4. CASE ClearBoard
  <2>1. initialBoard' = NewBoard(rootBoard.size)
    BY <1>4 DEF ClearBoard, EmptyGame, setPositionAndRules
  <2> QED  BY <1>1, <2>1, NewBoardIsBoard
<1>5. ASSUME NEW stones \in Setups, SetPosition(stones)  PROVE IsBoard(initialBoard')
  <2> DEFINE first == NewBoard(rootBoard.size)
  <2>1. UNCHANGED initialBoard \/ initialBoard' = Placed(first, stones)[Len(stones)]
    BY <1>5 DEF SetPosition, setPositionAndRules, game
  <2>2. IsBoard(first)
    BY <1>1, NewBoardIsBoard
  <2> HIDE DEF first
  <2>3. Len(stones) \in Nat
    <3>1. stones \in Seq([loc : Nat, pla : Players])
      BY ArgumentsAssumption
    <3> QED  BY <3>1, LenProperties
  <2> QED  BY <2>1, <2>2, <2>3, PlacedIsBoard
<1>6. ASSUME NEW sgf \in Sgfs, NEW n \in 0..Len(sgf.moves), LoadSgf(sgf, n)
      PROVE  IsBoard(initialBoard')
  <2> DEFINE first == NewBoard(sgf.size)
             stones == sgf.placements
  <2>1. UNCHANGED initialBoard \/ initialBoard' = Placed(first, stones)[Len(stones)]
    BY <1>6 DEF LoadSgf, setPositionAndRules, UnchangedPosition, game
  <2>2. sgf.size \in Sizes /\ stones \in Seq([loc : Nat, pla : Nat])
    BY ArgumentsAssumption
  <2>3. IsBoard(first) /\ Len(stones) \in Nat
    BY <2>2, NewBoardIsBoard, LenProperties
  <2> HIDE DEF first, stones
  <2> QED  BY <2>1, <2>3, PlacedIsBoard
<1>7. CASE OtherCommand \/ Stop \/ SearchEnds \/ Undo
  BY <1>2, <1>7 DEF OtherCommand, Stop, SearchEnds, Undo, UnchangedPosition, game
<1>8. ASSUME NEW k \in Komis, Komi(k)  PROVE IsBoard(initialBoard')
  BY <1>2, <1>8 DEF Komi, game
<1>9. ASSUME NEW tax \in TaxRules, SetRules(tax)  PROVE IsBoard(initialBoard')
  BY <1>2, <1>9 DEF SetRules, game
<1>10. ASSUME NEW pla \in Players, Analyze(pla)  PROVE IsBoard(initialBoard')
  BY <1>2, <1>10 DEF Analyze, game
<1>11. ASSUME NEW move \in Moves, Play(move)  PROVE IsBoard(initialBoard')
  BY <1>2, <1>11 DEF Play
<1>12. ASSUME NEW move \in Moves \cup [loc : {NULL_LOC}, pla : Players],
              NEW played \in BOOLEAN, GenMove(move, played)
       PROVE  IsBoard(initialBoard')
  BY <1>2, <1>12 DEF GenMove
<1>13. CASE UNCHANGED engine
  BY <1>2, <1>13 DEF engine, game
<1> QED
  BY <1>3, <1>4, <1>5, <1>6, <1>7, <1>8, <1>9, <1>10, <1>11, <1>12, <1>13 DEF EngineNext

LEMMA FirstBoardInit == EngineInit => IsBoard(initialBoard)
<1> SUFFICES ASSUME EngineInit  PROVE IsBoard(initialBoard)
  OBVIOUS
<1>1. PICK size \in BoardSizes : initialBoard = NewBoard(size)
  BY DEF EngineInit
<1>2. size \in Sizes
  BY ArgumentsAssumption
<1> QED
  BY <1>1, <1>2, NewBoardIsBoard

(* Whatever the commands and their order, the board of the bot is one: its hash is that of   *)
(* its size and its stones, and its wall is where the size puts it; and a history that has a *)
(* move has the result that checkWinner and the last move give on this very board, after an  *)
(* undo, a replay under other rules, a loaded file or a history that began anew as well.      *)
THEOREM ResultsAreRecorded == EngineSpec => [](IsBoard(rootBoard) /\ Knows(rootBoard, rootHistory))
<1> DEFINE I == EngineInv /\ IsBoard(initialBoard)
<1>1. I => IsBoard(rootBoard) /\ Knows(rootBoard, rootHistory)
  <2> SUFFICES ASSUME I  PROVE IsBoard(rootBoard) /\ Knows(rootBoard, rootHistory)
    OBVIOUS
  <2>1. Knows(rootBoard, rootHistory)
    BY DEF EngineInv, Agrees, Led
  <2> QED  BY <2>1, RootIsBoard
<1>2. EngineInit => I
  BY EngineInitInv, FirstBoardInit
<1>3. I /\ [EngineNext]_engine => I'
  BY EngineNextInv, FirstBoardNext
<1> HIDE DEF I
<1> QED
  BY <1>1, <1>2, <1>3, PTL DEF EngineSpec

(* On boards of which checkWinner tells the winner, and Hex never has two nor, on a full      *)
(* board, none, the results are those of the rules.  The premise is the theorem of the game   *)
(* with the correctness of the search for a winner; it says nothing of the engine.             *)
THEOREM ResultsAreRight ==
  ASSUME \A board : IsBoard(board) => WinnerIsRight(board)
  PROVE  EngineSpec => []ResultIsOfBoard
<1> DEFINE Recorded == IsBoard(rootBoard) /\ Knows(rootBoard, rootHistory)
<1>1. Recorded /\ EngineInv => ResultIsOfBoard
  <2> SUFFICES ASSUME Recorded, EngineInv  PROVE ResultIsOfBoard
    OBVIOUS
  <2> DEFINE joined == {pla \in Players : Joined(rootBoard, pla)}
             last == Last(rootHistory.moveHistory)
             winner == Result(rootBoard, last.loc, last.pla)
             found == checkWinner(rootBoard)
  <2>1. WinnerIsRight(rootBoard) /\ rootBoard.pos_hash = HashOf(rootBoard)
    BY DEF IsBoard
  <2>2. found \in (IF joined = {} THEN {C_EMPTY} ELSE joined)
    BY <2>1 DEF WinnerIsRight
  <2>3. joined \subseteq Players /\ C_EMPTY \notin Players
    BY DEF Players, C_EMPTY, C_BLACK, C_WHITE
  <2>4. winner = IF found # C_EMPTY THEN found
                 ELSE IF last.loc = PASS_LOC THEN getOpp(last.pla) ELSE C_EMPTY
    BY DEF Result
  <2>5. rootHistory.moveHistory # <<>> =>
          rootHistory.isGameFinished = (winner # C_EMPTY) /\ rootHistory.winner = winner
    BY DEF Knows
  <2>6. rootHistory.moveHistory # <<>> => getOpp(last.pla) # C_EMPTY
    <3> SUFFICES ASSUME rootHistory.moveHistory # <<>>  PROVE getOpp(last.pla) # C_EMPTY
      OBVIOUS
    <3>1. rootHistory.moveHistory \in Seq(LegalMoves)
      BY DEF EngineInv, Agrees, Led, IsHistory
    <3>2. last \in LegalMoves
      <4> DEFINE moves == rootHistory.moveHistory
      <4>1. Len(moves) \in 1..Len(moves)
        BY <3>1, EmptySeq, LenProperties
      <4> QED  BY <3>1, <4>1, ElementOfSeq DEF Last
    <3> QED  BY <3>2 DEF LegalMoves, Players, getOpp, C_BLACK, C_WHITE, C_EMPTY
  <2> HIDE DEF joined, last, winner, found
  <2>7. found # C_EMPTY <=> joined # {}
    BY <2>2, <2>3
  <2>8. joined # {} => winner = found /\ found \in joined /\ winner # C_EMPTY
    BY <2>2, <2>4, <2>7
  <2>9. joined = {} => winner = IF last.loc = PASS_LOC THEN getOpp(last.pla) ELSE C_EMPTY
    BY <2>4, <2>7
  <2>10. rootHistory.moveHistory # <<>> =>
           /\ rootHistory.isGameFinished = (joined # {} \/ last.loc = PASS_LOC)
           /\ joined # {} => rootHistory.winner \in joined
           /\ joined = {} /\ last.loc = PASS_LOC => rootHistory.winner = getOpp(last.pla)
    BY <2>5, <2>6, <2>8, <2>9
  <2> QED  BY <2>1, <2>10 DEF ResultIsOfBoard, joined, last
<1>2. EngineSpec => []EngineInv
  BY EngineInitInv, EngineNextInv, PTL DEF EngineSpec
<1>3. EngineSpec => []Recorded
  BY ResultsAreRecorded
<1> HIDE DEF Recorded
<1> QED
  BY <1>1, <1>2, <1>3, PTL
================================================================================
