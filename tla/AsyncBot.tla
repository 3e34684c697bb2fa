------------------------------- MODULE AsyncBot -------------------------------
(* search/asyncbot.{h,cpp}: a Search object owned by one dedicated thread,     *)
(* driven by a single client thread.  The client accepts searches, stops them, *)
(* and edits the Search object between them; while a search runs, a second     *)
(* short-lived thread may report on it periodically; and any thread may call   *)
(* stopWithoutWait or setKilled at any moment.                                 *)
(*                                                                             *)
(* A region the code runs under controlMutex without waiting is one action:    *)
(* what it touches is guarded by that mutex, except the atomic shouldStopNow,  *)
(* which every region writes at most once with a lasting effect.  A wait on a  *)
(* condition variable is a "parked" program counter that only a notification   *)
(* (or a spurious wakeup) moves.                                               *)
EXTENDS Naturals

CONSTANTS
  MaxSearchId,      \* bound: genMoveAsync is called with the ids 1..MaxSearchId
  SearchMayThrow    \* whether Search::runWholeSearch may raise an exception

ASSUME ConstantsAssumption ==
  /\ MaxSearchId \in Nat
  /\ SearchMayThrow \in BOOLEAN

VARIABLES
  isRunning,               \* a search is accepted and not yet over
  isKilled,                \* setKilled or the destructor was called
  shouldStopNow,           \* the atomic flag every search thread polls
  queued,                  \* queuedSearchId, queuedOnMove, isPondering, callback
  searchPc,                \* where the search thread is
  callbackPc,              \* where the analysis callback thread is
  callbackLoopShouldStop,  \* tells the callback thread to end
  isSearchBegun,           \* the tree is initialised, reporting is allowed
  clientPc,                \* where the client thread is in its call
  call,                    \* the call the client is making
  moveLoc,                 \* local of genMoveSynchronous, set by its onMove
  answers,                 \* how often onMove ran for each genMoveAsync id
  stopCause                \* a stop, a kill or a search limit since acceptance

botVars    == <<isRunning, isKilled, shouldStopNow, queued>>
searchVars == <<searchPc, callbackPc, callbackLoopShouldStop, isSearchBegun>>
clientVars == <<clientPc, call>>
history    == <<moveLoc, answers, stopCause>>
vars       == <<botVars, searchVars, clientVars, history>>

-------------------------------------------------------------------------------
SearchIds == 1..MaxSearchId

(* Calls that start a search, and calls that stop the one that runs.           *)
SearchCalls == {"genMoveAsync", "genMoveSynchronous", "analyzeAsync"}
StopCalls   == {"stopAndWait", "setup", "destroy"}
Calls == [kind: SearchCalls \cup StopCalls \cup {"none", "waitForSearchToEnd"},
          id: 0..MaxSearchId, reports: BOOLEAN]
PlainCall(kind) == [kind |-> kind, id |-> 0, reports |-> FALSE]
NoCall == PlainCall("none")

OnMoves == {"none", "async", "sync"}
Queued  == [id: 0..MaxSearchId, onMove: OnMoves, pondering: BOOLEAN,
            reports: BOOLEAN]

(* The search thread between taking a search and giving the answer.            *)
Busy == {"launch", "begin", "searching", "stopCallbacks", "join", "finish"}
SearchPcs   == Busy \cup {"check", "parked", "exited", "failed", "aborted"}
CallbackPcs == {"none", "waiting", "reporting", "done"}
ClientPcs   == {"idle", "lock", "parked", "recheck", "edit", "kill", "join",
                "destroyed", "aborted"}

TypeOK ==
  /\ isRunning \in BOOLEAN
  /\ isKilled \in BOOLEAN
  /\ shouldStopNow \in BOOLEAN
  /\ queued \in Queued
  /\ searchPc \in SearchPcs
  /\ callbackPc \in CallbackPcs
  /\ callbackLoopShouldStop \in BOOLEAN
  /\ isSearchBegun \in BOOLEAN
  /\ clientPc \in ClientPcs
  /\ call \in Calls
  /\ moveLoc \in {"NULL_LOC", "move"}
  /\ answers \in [SearchIds -> 0..2]
  /\ stopCause \in BOOLEAN

Init ==
  /\ isRunning = FALSE
  /\ isKilled = FALSE
  /\ shouldStopNow = FALSE
  /\ queued = [id |-> 0, onMove |-> "none", pondering |-> FALSE, reports |-> FALSE]
  /\ searchPc = "check"
  /\ callbackPc = "none"
  /\ callbackLoopShouldStop = FALSE
  /\ isSearchBegun = FALSE
  /\ clientPc = "idle"
  /\ call = NoCall
  /\ moveLoc = "NULL_LOC"
  /\ answers = [i \in SearchIds |-> 0]
  /\ stopCause = FALSE

(* shouldStopNow.store(true), by anyone.                                       *)
StoreStop == shouldStopNow' = TRUE /\ stopCause' = TRUE

(* threadWaitingToSearch.notify_all and userWaitingForStop.notify_all.         *)
NotifySearchThread ==
  searchPc' = IF searchPc = "parked" THEN "check" ELSE searchPc
(* Mutant: the waiters on userWaitingForStop are not notified.                  *)
Mutant_NotifyNobody == clientPc' = clientPc

NotifyClient ==
  clientPc' = IF clientPc = "parked" THEN "recheck" ELSE clientPc

-------------------------------------------------------------------------------
(* The client thread.                                                          *)

(* The client gives each genMoveAsync an id of its own.                        *)
UnusedIds ==
  {i \in SearchIds : answers[i] = 0 /\ ~(isRunning /\ queued.id = i)}

(* genMoveAsync, genMoveSynchronous, their Analyze forms and analyzeAsync, up   *)
(* to taking controlMutex.  Reporting means a callback with a period.           *)
CallSearch(kind, id, reports) ==
  /\ clientPc = "idle"
  /\ kind = "analyzeAsync" => reports
  /\ IF kind = "genMoveAsync" THEN id \in UnusedIds ELSE id = 0
  /\ clientPc' = "lock"
  /\ call' = [kind |-> kind, id |-> id, reports |-> reports]
  /\ moveLoc' = "NULL_LOC"
  /\ UNCHANGED <<botVars, searchVars, answers, stopCause>>

(* stopAndWait, alone or as the first half of the setters, of                  *)
(* getSearchStopAndWait and of the destructor: the flag is set before the lock. *)
CallStopAndWait(kind) ==
  /\ clientPc = "idle"
  /\ StoreStop
  /\ clientPc' = "lock"
  /\ call' = PlainCall(kind)
  /\ UNCHANGED <<isRunning, isKilled, queued, searchVars, moveLoc, answers>>

(* The flag as stopAndWaitAlreadyLocked leaves it, on entering a search call.   *)
StopIfEntering ==
  IF clientPc = "lock" /\ call.kind \in SearchCalls
    THEN StoreStop
    ELSE UNCHANGED <<shouldStopNow, stopCause>>

(* waitForSearchToEnd: a search is running, so wait on userWaitingForStop.      *)
WaitForSearchToEnd ==
  /\ clientPc \in {"lock", "recheck"}
  /\ isRunning
  /\ clientPc' = "parked"
  /\ StopIfEntering
  /\ UNCHANGED <<isRunning, isKilled, queued, searchVars, call, moveLoc, answers>>

(* Mutant: acceptance does not lower the flag the last search left up.          *)
Mutant_EnqueueKeepsFlag(q) ==
  /\ queued' = q
  /\ isRunning' = TRUE
  /\ shouldStopNow' = shouldStopNow
  /\ stopCause' = FALSE
  /\ NotifySearchThread
  /\ UNCHANGED <<isKilled, callbackPc, callbackLoopShouldStop, isSearchBegun>>

(* What acceptance writes, whichever call it is for.                           *)
Enqueue(q) ==
  /\ queued' = q
  /\ isRunning' = TRUE
  /\ shouldStopNow' = FALSE
  /\ stopCause' = FALSE
  /\ NotifySearchThread
  /\ UNCHANGED <<isKilled, callbackPc, callbackLoopShouldStop, isSearchBegun>>

(* The caller of genMoveSynchronous goes on to wait; the others return.         *)
ReturnFromSearchCall ==
  IF call.kind = "genMoveSynchronous"
    THEN clientPc' = "lock" /\ call' = PlainCall("waitForSearchToEnd")
    ELSE clientPc' = "idle" /\ call' = NoCall

(* Nothing runs any more: the search call of the client is accepted.            *)
AcceptSearch ==
  /\ clientPc \in {"lock", "recheck"}
  /\ call.kind \in SearchCalls
  /\ ~isRunning
  /\ ~isKilled
  /\ Enqueue([id |-> call.id,
              onMove |-> CASE call.kind = "genMoveAsync" -> "async"
                           [] call.kind = "genMoveSynchronous" -> "sync"
                           [] OTHER -> "none",
              pondering |-> FALSE,
              reports |-> call.reports])
  /\ ReturnFromSearchCall
  /\ UNCHANGED <<moveLoc, answers>>

(* A killed bot accepts nothing: the search call returns without effect.        *)
RefuseSearch ==
  /\ clientPc \in {"lock", "recheck"}
  /\ call.kind \in SearchCalls
  /\ ~isRunning
  /\ isKilled
  /\ StopIfEntering
  /\ ReturnFromSearchCall
  /\ UNCHANGED <<isRunning, isKilled, queued, searchVars, moveLoc, answers>>

(* ponder: no effect on a bot that searches already or is killed.               *)
Ponder ==
  /\ clientPc = "idle"
  /\ ~isRunning
  /\ ~isKilled
  /\ Enqueue([id |-> 0, onMove |-> "none", pondering |-> TRUE, reports |-> FALSE])
  /\ UNCHANGED <<clientVars, moveLoc, answers>>

(* Mutant: the wait is an "if", not a "while": once woken, it does not look again. *)
Mutant_SearchHasEndedUnchecked ==
  /\ clientPc \in {"lock", "recheck"}
  /\ call.kind \in StopCalls \cup {"waitForSearchToEnd"}
  /\ clientPc = "lock" => ~isRunning
  /\ clientPc' = CASE call.kind = "setup"   -> "edit"
                   [] call.kind = "destroy" -> "kill"
                   [] OTHER                 -> "idle"
  /\ call' = IF call.kind \in {"setup", "destroy"} THEN call ELSE NoCall
  /\ UNCHANGED <<botVars, searchVars, history>>

(* stopAndWait or waitForSearchToEnd finds the search over: a setter goes on to *)
(* edit the Search object, the destructor to kill, the others return.           *)
SearchHasEnded ==
  /\ clientPc \in {"lock", "recheck"}
  /\ call.kind \in StopCalls \cup {"waitForSearchToEnd"}
  /\ ~isRunning
  /\ clientPc' = CASE call.kind = "setup"   -> "edit"
                   [] call.kind = "destroy" -> "kill"
                   [] OTHER                 -> "idle"
  /\ call' = IF call.kind \in {"setup", "destroy"} THEN call ELSE NoCall
  /\ UNCHANGED <<botVars, searchVars, history>>

(* setPosition, setParams, makeMove, clearSearch ...: the edit itself, and the  *)
(* return.  It happens outside the lock.                                        *)
FinishSetup ==
  /\ clientPc = "edit"
  /\ clientPc' = "idle"
  /\ call' = NoCall
  /\ UNCHANGED <<botVars, searchVars, history>>

(* ~AsyncBot after its stopAndWait: kill, wake the search thread, join it.      *)
DestructorKills ==
  /\ clientPc = "kill"
  /\ isKilled' = TRUE
  /\ NotifySearchThread
  /\ clientPc' = "join"
  /\ UNCHANGED <<isRunning, shouldStopNow, queued, callbackPc,
                 callbackLoopShouldStop, isSearchBegun, call, history>>

DestructorJoins ==
  /\ clientPc = "join"
  /\ searchPc \in {"exited", "failed"}
  /\ clientPc' = "destroyed"
  /\ UNCHANGED <<botVars, searchVars, call, history>>

(* A condition variable may wake without a notification.                        *)
ClientSpuriousWakeup ==
  /\ clientPc = "parked"
  /\ clientPc' = "recheck"
  /\ UNCHANGED <<botVars, searchVars, call, history>>

-------------------------------------------------------------------------------
(* Any thread, while the bot exists.                                           *)

Alive == call.kind # "destroy" /\ clientPc # "aborted"

(* stopWithoutWait takes no lock.                                              *)
StopWithoutWait ==
  /\ Alive
  /\ StoreStop
  /\ UNCHANGED <<isRunning, isKilled, queued, searchVars, clientVars, moveLoc, answers>>

SetKilled ==
  /\ Alive
  /\ isKilled' = TRUE
  /\ StoreStop
  /\ NotifySearchThread
  /\ UNCHANGED <<isRunning, queued, callbackPc, callbackLoopShouldStop,
                 isSearchBegun, clientVars, moveLoc, answers>>

-------------------------------------------------------------------------------
(* The search thread: internalSearchThreadLoop.                                *)

(* With the lock held: nothing to do, so wait on threadWaitingToSearch.         *)
SearchThreadWaits ==
  /\ searchPc = "check"
  /\ ~isRunning
  /\ ~isKilled
  /\ searchPc' = "parked"
  /\ UNCHANGED <<botVars, callbackPc, callbackLoopShouldStop, isSearchBegun,
                 clientVars, history>>

SearchThreadSpuriousWakeup ==
  /\ searchPc = "parked"
  /\ searchPc' = "check"
  /\ UNCHANGED <<botVars, callbackPc, callbackLoopShouldStop, isSearchBegun,
                 clientVars, history>>

(* Killed: drop whatever was accepted, release the waiters, end the thread.     *)
SearchThreadExits ==
  /\ searchPc = "check"
  /\ isKilled
  /\ isRunning' = FALSE
  /\ queued' = [queued EXCEPT !.pondering = FALSE]
  /\ searchPc' = "exited"
  /\ NotifyClient
  /\ UNCHANGED <<isKilled, shouldStopNow, callbackPc, callbackLoopShouldStop,
                 isSearchBegun, call, history>>

(* Mutant: an accepted search is started on a killed bot.                       *)
Mutant_TakeSearchThoughKilled ==
  /\ searchPc = "check"
  /\ isRunning
  /\ searchPc' = "launch"
  /\ callbackLoopShouldStop' = FALSE
  /\ isSearchBegun' = FALSE
  /\ UNCHANGED <<botVars, callbackPc, clientVars, history>>

(* A search was accepted: copy what it needs and release the lock.              *)
TakeSearch ==
  /\ searchPc = "check"
  /\ isRunning
  /\ ~isKilled
  /\ searchPc' = "launch"
  /\ callbackLoopShouldStop' = FALSE
  /\ isSearchBegun' = FALSE
  /\ UNCHANGED <<botVars, callbackPc, clientVars, history>>

(* Kick off the analysis callback thread if the search is to report.            *)
LaunchCallbacks ==
  /\ searchPc = "launch"
  /\ searchPc' = "begin"
  /\ callbackPc' = IF queued.reports THEN "waiting" ELSE "none"
  /\ UNCHANGED <<botVars, callbackLoopShouldStop, isSearchBegun, clientVars, history>>

(* runWholeSearch has prepared its tree and calls searchBegun.                  *)
SearchBegun ==
  /\ searchPc = "begin"
  /\ isSearchBegun' = TRUE
  /\ searchPc' = "searching"
  /\ UNCHANGED <<botVars, callbackPc, callbackLoopShouldStop, clientVars, history>>

(* The search reaches its own cap on visits, playouts or time: the thread that  *)
(* notices stops all the others through the same flag.                          *)
SearchReachesLimit ==
  /\ searchPc = "searching"
  /\ ~shouldStopNow
  /\ StoreStop
  /\ UNCHANGED <<isRunning, isKilled, queued, searchVars, clientVars, moveLoc, answers>>

(* Mutant: the callback thread is not stopped and joined.                       *)
Mutant_SearchStopsUnjoined ==
  /\ searchPc = "searching"
  /\ shouldStopNow
  /\ searchPc' = "finish"
  /\ UNCHANGED <<botVars, callbackPc, callbackLoopShouldStop, isSearchBegun,
                 clientVars, history>>

(* Every thread of the search sees the flag; runWholeSearch returns.            *)
SearchStops ==
  /\ searchPc = "searching"
  /\ shouldStopNow
  /\ searchPc' = IF queued.reports THEN "stopCallbacks" ELSE "finish"
  /\ UNCHANGED <<botVars, callbackPc, callbackLoopShouldStop, isSearchBegun,
                 clientVars, history>>

StopCallbacks ==
  /\ searchPc = "stopCallbacks"
  /\ callbackLoopShouldStop' = TRUE
  /\ searchPc' = "join"
  /\ UNCHANGED <<botVars, callbackPc, isSearchBegun, clientVars, history>>

JoinCallbacks ==
  /\ searchPc = "join"
  /\ callbackPc = "done"
  /\ callbackPc' = "none"
  /\ searchPc' = "finish"
  /\ UNCHANGED <<botVars, callbackLoopShouldStop, isSearchBegun, clientVars, history>>

(* queuedOnMove, under the lock: it tells the client of genMoveAsync, or fills  *)
(* in the local variable of the genMoveSynchronous that waits.                  *)
CallOnMove ==
  /\ moveLoc' = IF queued.onMove = "sync" THEN "move" ELSE moveLoc
  /\ answers' = IF queued.onMove = "async"
                  THEN [answers EXCEPT ![queued.id] = @ + 1]
                  ELSE answers

(* Give the answer, end the search, release the waiters, and go back to the     *)
(* loop's wait or, if killed meanwhile, leave it: all in one hold of the lock.  *)
FinishSearch ==
  /\ searchPc = "finish"
  /\ CallOnMove
  /\ isRunning' = FALSE
  /\ queued' = [queued EXCEPT !.pondering = FALSE]
  /\ NotifyClient
  /\ searchPc' = IF isKilled THEN "exited" ELSE "parked"
  /\ UNCHANGED <<isKilled, shouldStopNow, callbackPc, callbackLoopShouldStop,
                 isSearchBegun, call, stopCause>>

(* runWholeSearch raises: searchThreadLoop logs it and the thread ends.  With a *)
(* callback thread still joinable, unwinding its std::thread ends the process.  *)
SearchThrows ==
  /\ SearchMayThrow
  /\ searchPc \in {"begin", "searching"}
  /\ IF callbackPc = "none"
       THEN searchPc' = "failed" /\ UNCHANGED <<callbackPc, clientPc>>
       ELSE searchPc' = "aborted" /\ callbackPc' = "done" /\ clientPc' = "aborted"
  /\ UNCHANGED <<botVars, callbackLoopShouldStop, isSearchBegun, call, history>>

-------------------------------------------------------------------------------
(* The callback thread: callbackLoop.  Its wait is timed, so it needs no        *)
(* notification to look again.                                                  *)

CallbackLoopEnds ==
  /\ callbackPc = "waiting"
  /\ callbackLoopShouldStop
  /\ callbackPc' = "done"
  /\ UNCHANGED <<botVars, searchPc, callbackLoopShouldStop, isSearchBegun,
                 clientVars, history>>

(* The period is over and the search has begun: report on it, without the lock. *)
BeginReport ==
  /\ callbackPc = "waiting"
  /\ ~callbackLoopShouldStop
  /\ isSearchBegun
  /\ callbackPc' = "reporting"
  /\ UNCHANGED <<botVars, searchPc, callbackLoopShouldStop, isSearchBegun,
                 clientVars, history>>

EndReport ==
  /\ callbackPc = "reporting"
  /\ callbackPc' = "waiting"
  /\ UNCHANGED <<botVars, searchPc, callbackLoopShouldStop, isSearchBegun,
                 clientVars, history>>

-------------------------------------------------------------------------------
(* The client chooses to make a call.                                          *)
ClientCalls ==
  \/ \E kind \in SearchCalls, id \in 0..MaxSearchId, reports \in BOOLEAN :
       CallSearch(kind, id, reports)
  \/ \E kind \in StopCalls : CallStopAndWait(kind)
  \/ Ponder

(* The client goes on with the call it has made.                               *)
ClientContinues ==
  \/ WaitForSearchToEnd
  \/ AcceptSearch
  \/ RefuseSearch
  \/ SearchHasEnded
  \/ FinishSetup
  \/ DestructorKills
  \/ DestructorJoins

Environment ==
  \/ StopWithoutWait
  \/ SetKilled
  \/ ClientSpuriousWakeup
  \/ SearchThreadSpuriousWakeup

SearchThread ==
  \/ SearchThreadWaits
  \/ SearchThreadExits
  \/ TakeSearch
  \/ LaunchCallbacks
  \/ SearchBegun
  \/ SearchStops
  \/ StopCallbacks
  \/ JoinCallbacks
  \/ FinishSearch

CallbackThread == CallbackLoopEnds \/ BeginReport \/ EndReport

(* A destroyed bot, or an aborted process, does nothing more.                  *)
Over == clientPc \in {"destroyed", "aborted"} /\ UNCHANGED vars

Next ==
  \/ ClientCalls
  \/ ClientContinues
  \/ Environment
  \/ SearchThread
  \/ SearchReachesLimit
  \/ SearchThrows
  \/ CallbackThread
  \/ Over

Spec == Init /\ [][Next]_vars

(* Threads that can run do run, and a mutex is not withheld for ever.  Nothing  *)
(* makes a search reach a limit (a ponder may have none), a client make a call  *)
(* or a condition variable wake unasked.                                        *)
Fairness ==
  /\ WF_vars(ClientContinues)
  /\ WF_vars(SearchThread)
  /\ WF_vars(CallbackThread)

FairSpec == Spec /\ Fairness

-------------------------------------------------------------------------------
(* The client never edits the Search object (setPosition, setParams, makeMove,  *)
(* clearSearch...) while the search thread or an analysis callback is using it.  *)
(* The edit is outside controlMutex: it is safe only because stopAndWait waited. *)
EditsAlone ==
  clientPc = "edit" => searchPc \notin Busy /\ callbackPc = "none"

(* The answer is the last thing a search does: once isRunning is false, no       *)
(* analysis callback of it is running or can still run.  A report after the      *)
(* answer would be attributed to the next position.                              *)
NoReportAfterAnswer ==
  ~isRunning => searchPc \notin Busy /\ callbackPc = "none"

(* The onMove of genMoveSynchronous writes a local variable of its caller: a     *)
(* running search may hold that callback only while the caller still waits.      *)
SyncCallerStillWaits ==
  isRunning /\ queued.onMove = "sync" =>
    /\ call.kind = "waitForSearchToEnd"
    /\ clientPc \in {"lock", "parked", "recheck", "aborted"}

(* onMove is called once for every search: never twice and never for a search    *)
(* that still runs, and the search is not over before, unless the bot was killed. *)
(* queuedOnMove and queuedSearchId are read when the search ends, not when the    *)
(* search thread takes it: nobody may overwrite them in between.                  *)
AnsweredOnce ==
  /\ \A i \in SearchIds :
       /\ answers[i] <= 1
       /\ isRunning /\ queued.id = i => answers[i] = 0
  /\ ~isRunning /\ ~isKilled /\ queued.onMove = "async" => answers[queued.id] = 1

(* No stale stop: a search is only ever told to stop by a stop, a kill or a      *)
(* limit that came after it was accepted, although the flag is still up from     *)
(* the search before, and stopWithoutWait takes no lock.                         *)
NoStaleStop == isRunning /\ shouldStopNow => stopCause

(* A stop that reached a search, or came between its acceptance and its start,   *)
(* is never taken back while that search lasts.                                  *)
StopSticks ==
  [][isRunning /\ shouldStopNow /\ isRunning' => shouldStopNow']_vars

(* genMoveSynchronous returns a move, unless the bot is killed.                  *)
SyncReturnsMove ==
  [][call.kind = "waitForSearchToEnd" /\ call'.kind = "none"
       => moveLoc = "move" \/ isKilled]_vars

(* Whoever waits for a search to end is released, if the search was told to stop: *)
(* stopAndWait, every setter, every new search call and the destructor return,    *)
(* and so does a genMoveSynchronous that some other thread stops or kills.        *)
StopAlwaysReturns ==
  /\ call.kind \in StopCalls \cup SearchCalls
       ~> \/ clientPc \in {"idle", "destroyed", "aborted"}
          \/ call.kind = "waitForSearchToEnd"
  /\ call.kind = "waitForSearchToEnd" /\ shouldStopNow
       ~> clientPc \in {"idle", "aborted"}

NeverThrows == [](searchPc \notin {"failed", "aborted"})

(* The same, provided that no search raises an exception; and the search thread   *)
(* of a killed bot ends, so that the destructor can join it.                      *)
StopReturns ==
  /\ NeverThrows => StopAlwaysReturns
  /\ isKilled ~> searchPc \in {"exited", "failed", "aborted"}

(* The service as the client sees it.                                             *)
Service == INSTANCE SearchService WITH
  phase  <- IF ~isRunning THEN "idle"
            ELSE IF searchPc \in Busy \cup {"failed", "aborted"}
              THEN "searching" ELSE "queued",
  stop   <- shouldStopNow,
  killed <- isKilled,
  owed   <- IF isRunning THEN queued.id ELSE 0

(* AsyncBot is such a service: one search at a time, each of which starts unless   *)
(* the bot is killed, ends only when stopped or at a limit, and answers once.      *)
ImplementsService == Service!Spec

===============================================================================
