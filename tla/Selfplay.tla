------------------------------ MODULE Selfplay ------------------------------
(* command/selfplay.cpp over a SelfplayManager: threads that play game after game with *)
(* the latest net, one that loads newer nets, and the main thread that waits for them    *)
(* all and then destroys the manager.  A net that is loaded a second time while the         *)
(* first is in use throws in the loading thread, which ends the process.                      *)
EXTENDS SelfplayManager

CONSTANTS
  GameThreads, maxGamesTotal,
  MaxLoads                    \* bound: nets loaded

ASSUME SelfplayAssumption == IsFiniteSet(GameThreads) /\ maxGamesTotal \in Nat

VARIABLES
  shouldStop, numGamesStarted, numFinished,
  game, nnEval, newNNEval,    \* of every game thread: where it is, the nets it holds
  loader, numLoads,
  main

threads == <<shouldStop, numGamesStarted, numFinished, game, nnEval, newNNEval, loader, numLoads, main>>
vars == <<manager, threads>>

Init ==
  /\ ManagerInit
  /\ shouldStop = FALSE /\ numGamesStarted = 0 /\ numFinished = 0
  /\ game = [t \in GameThreads |-> "unborn"]
  /\ nnEval = [t \in GameThreads |-> NoModel] /\ newNNEval = [t \in GameThreads |-> NoModel]
  /\ loader = "unborn" /\ numLoads = 0 /\ main = "load"

Running == main # "aborted"
GameStep(t, from, to) == Running /\ game[t] = from /\ game' = [game EXCEPT ![t] = to]

-------------------------------------------------------------------------------
(* The first net, without which nothing starts, and the threads.                          *)
LoadFirst(d, name) ==
  /\ main = "load" /\ ~data[d].alive
  /\ LoadModel(d, name, TRUE)
  /\ main' = "join"
  /\ game' = [t \in GameThreads |-> "top"] /\ loader' = "poll" /\ numLoads' = 1
  /\ UNCHANGED <<shouldStop, numGamesStarted, numFinished, nnEval, newNNEval>>

Signal ==
  /\ Running /\ ~shouldStop /\ shouldStop' = TRUE
  /\ UNCHANGED <<manager, numGamesStarted, numFinished, game, nnEval, newNNEval, loader, numLoads, main>>

(* The game loop.                                                                            *)
QuitGames(t) ==
  /\ shouldStop /\ GameStep(t, "top", "end")
  /\ UNCHANGED <<manager, shouldStop, numGamesStarted, numFinished, nnEval, newNNEval, loader,
                 numLoads, main>>

AcquireLatest(t) ==
  /\ ~shouldStop /\ GameStep(t, "top", "start")
  /\ Acquire(Latest)
  /\ nnEval' = [nnEval EXCEPT ![t] = Latest]
  /\ UNCHANGED <<shouldStop, numGamesStarted, numFinished, newNNEval, loader, numLoads, main>>

(* countOneGameStarted finds the model; the counter is shared.                                  *)
StartGame(t) ==
  /\ GameStep(t, "start", IF numGamesStarted < maxGamesTotal THEN "play" ELSE "give_up")
  /\ numGamesStarted' = Min({numGamesStarted, maxGamesTotal}) + 1
  /\ UNCHANGED <<manager, shouldStop, numFinished, nnEval, newNNEval, loader, numLoads, main>>

(* checkForNewNNEval, during the game: the latest is acquired and then one of the two released.    *)
CheckForNewNNEval(t) ==
  /\ GameStep(t, "play", "check")
  /\ Acquire(Latest)
  /\ newNNEval' = [newNNEval EXCEPT ![t] = Latest]
  /\ UNCHANGED <<shouldStop, numGamesStarted, numFinished, nnEval, loader, numLoads, main>>

SwitchNNEval(t) ==
  /\ GameStep(t, "check", "play")
  /\ Release(nnEval[t])
  /\ nnEval' = [nnEval EXCEPT ![t] = newNNEval[t]]
  /\ newNNEval' = [newNNEval EXCEPT ![t] = NoModel]
  /\ UNCHANGED <<shouldStop, numGamesStarted, numFinished, loader, numLoads, main>>

FinishGame(t) ==
  /\ GameStep(t, "play", "push")
  /\ numFinished' = numFinished + 1
  /\ UNCHANGED <<manager, shouldStop, numGamesStarted, nnEval, newNNEval, loader, numLoads, main>>

(* runGame returns NULL.                                                                                *)
InterruptGame(t) ==
  /\ shouldStop /\ GameStep(t, "play", "give_up")
  /\ UNCHANGED <<manager, shouldStop, numGamesStarted, numFinished, nnEval, newNNEval, loader,
                 numLoads, main>>

(* enqueueDataToWrite finds the model under the mutex and pushes without it.                              *)
FindQueue(t) ==
  /\ MutexIsFree /\ nnEval[t] \in ToSet(modelDatas)
  /\ GameStep(t, "push", "room")
  /\ UNCHANGED <<manager, shouldStop, numGamesStarted, numFinished, nnEval, newNNEval, loader,
                 numLoads, main>>

(* Mutant: the net is released and then the game is enqueued.                                            *)
Mutant_EnqueueLate(t) ==
  /\ GameStep(t, "room", "release_it") \/ GameStep(t, "release_it", "release")
  /\ IF game[t] = "room" THEN Release(nnEval[t]) ELSE Push(nnEval[t])
  /\ UNCHANGED <<shouldStop, numGamesStarted, numFinished, nnEval, newNNEval, loader, numLoads, main>>

EnqueueDataToWrite(t) ==
  /\ GameStep(t, "room", "release")
  /\ Push(nnEval[t])
  /\ UNCHANGED <<shouldStop, numGamesStarted, numFinished, nnEval, newNNEval, loader, numLoads, main>>

ReleaseNet(t) ==
  /\ GameStep(t, "release", "top") \/ GameStep(t, "give_up", "end")
  /\ Release(nnEval[t])
  /\ nnEval' = [nnEval EXCEPT ![t] = NoModel]
  /\ UNCHANGED <<shouldStop, numGamesStarted, numFinished, newNNEval, loader, numLoads, main>>

-------------------------------------------------------------------------------
(* The loading thread polls for the newest file, and sleeps between, until a timeout or the end.           *)
QuitLoading ==
  /\ Running /\ loader = "poll" /\ shouldStop
  /\ loader' = "end"
  /\ UNCHANGED <<manager, shouldStop, numGamesStarted, numFinished, game, nnEval, newNNEval, numLoads, main>>

(* The newest file does not have the name of the latest net.                                                *)
LoadNewer(d, name) ==
  /\ Running /\ loader = "poll" /\ ~shouldStop /\ MutexIsFree /\ numLoads < MaxLoads
  /\ name # data[Latest].modelName /\ ~data[d].alive /\ data[d].writeLoop = "none"
  /\ \/ /\ ModelsNamed(name) = {}
        /\ LoadModel(d, name, TRUE)
        /\ numLoads' = numLoads + 1 /\ UNCHANGED main
     \/ /\ ModelsNamed(name) # {}
        /\ main' = "aborted"
        /\ UNCHANGED <<manager, numLoads>>
  /\ UNCHANGED <<shouldStop, numGamesStarted, numFinished, game, nnEval, newNNEval, loader>>

-------------------------------------------------------------------------------
(* The main thread.                                                                                           *)
(* Mutant: the loading thread is not told.                                                                    *)
Mutant_LoaderNotTold ==
  /\ main = "join" /\ \A t \in GameThreads : game[t] = "end"
  /\ main' = "join_loader"
  /\ UNCHANGED <<manager, shouldStop, numGamesStarted, numFinished, game, nnEval, newNNEval, loader, numLoads>>

JoinGames ==
  /\ main = "join" /\ \A t \in GameThreads : game[t] = "end"
  /\ shouldStop' = TRUE /\ main' = "join_loader"
  /\ UNCHANGED <<manager, numGamesStarted, numFinished, game, nnEval, newNNEval, loader, numLoads>>

DeleteManager ==
  /\ main = "join_loader" /\ loader = "end"
  /\ Destroy /\ main' = "wait"
  /\ UNCHANGED <<shouldStop, numGamesStarted, numFinished, game, nnEval, newNNEval, loader, numLoads>>

Quit ==
  /\ main = "wait" /\ Destroyed
  /\ main' = "quit"
  /\ UNCHANGED <<manager, shouldStop, numGamesStarted, numFinished, game, nnEval, newNNEval, loader, numLoads>>

GameLoop(t) ==
  \/ QuitGames(t) \/ AcquireLatest(t) \/ StartGame(t) \/ CheckForNewNNEval(t) \/ SwitchNNEval(t)
  \/ FinishGame(t) \/ InterruptGame(t) \/ FindQueue(t) \/ EnqueueDataToWrite(t) \/ ReleaseNet(t)
LoadLoop == QuitLoading \/ \E d \in Datas, name \in Names : LoadNewer(d, name)
Main == JoinGames \/ DeleteManager \/ Quit \/ \E d \in Datas, name \in Names : LoadFirst(d, name)
Threads == \E d \in Datas : WriteLoop(d)
WriteLoops == Running /\ (EndRemoval \/ Threads) /\ UNCHANGED threads
Stopped == main \in {"quit", "aborted"} /\ UNCHANGED vars

Next == Signal \/ Main \/ LoadLoop \/ WriteLoops \/ (\E t \in GameThreads : GameLoop(t)) \/ Stopped

(* Every thread is scheduled; a game that is played ends or is interrupted.                                    *)
Spec == Init /\ [][Next]_vars
FairSpec ==
  /\ Spec /\ WF_vars(Main) /\ WF_vars(QuitLoading)
  /\ WF_vars(Running /\ EndRemoval /\ UNCHANGED threads)
  /\ \A d \in Datas : WF_vars(Running /\ WriteLoop(d) /\ UNCHANGED threads)
  /\ \A t \in GameThreads :
       WF_vars(GameLoop(t) /\ game[t] \notin {"play", "check"})
       /\ SF_vars(FinishGame(t)) /\ WF_vars(SwitchNNEval(t))

-------------------------------------------------------------------------------
(* Nobody uses a model that has been deleted: not the games that hold or enqueue to it,                           *)
(* not the manager that lists it, nor its own thread; and the users of a model are counted.                              *)
NoUseAfterDelete ==
  /\ \A t \in GameThreads : \A d \in {nnEval[t], newNNEval[t]} \ {NoModel} :
       data[d].alive /\ d \in ToSet(modelDatas) \ removing
  /\ \A d \in ToSet(modelDatas) :
       data[d].alive /\ data[d].acquireCount = Cardinality({t \in GameThreads : nnEval[t] = d})
                                + Cardinality({t \in GameThreads : newNNEval[t] = d})

(* A finished game is in the hands of its thread, at a place of the queue of a model, or                              *)
(* written: none is lost, on whatever net it ended and however the program stops.                                        *)
InHands == {t \in GameThreads : game[t] \in {"push", "room"}}
InQueues == {p \in Datas \X (1..maxDataQueueSize) : p[2] <= data[p[1]].queued}
NoGameIsLost == numFinished = numWritten + Cardinality(InHands) + Cardinality(InQueues)

(* A signal, or the last game, stops the program, which first has written everything.                                    *)
ShutdownEnds ==
  /\ shouldStop \/ numGamesStarted > maxGamesTotal ~> main \in {"quit", "aborted"}
  /\ [](main = "quit" => numWritten = numFinished)
===============================================================================
