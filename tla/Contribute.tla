----------------------------- MODULE Contribute -----------------------------
(* command/contribute.cpp: threads that ask the server for tasks, one at a time but    *)
(* for their downloads, see to it that the nets of a task are on disk and loaded, and    *)
(* hand its games to the threads that play them.  Two SelfplayManagers hold the nets;       *)
(* only the threads that hold taskLoopMutex load and unload.                                 *)
EXTENDS Integers, Sequences, FiniteSets, SequencesExt, FiniteSetsExt

CONSTANTS
  TaskLoops, GameThreads,
  Datas, Names, NoModel,       \* as in SelfplayManager
  SelfplayNames, RatingPairs,  \* of the nets the server wants games of
  maxRatingMatches, taskRepFactor,
  NoThread,
  MaxFailures                  \* bound: server, download and checksum errors

ASSUME ContributeAssumption ==
  /\ IsFiniteSet(TaskLoops) /\ TaskLoops # {} /\ NoThread \notin TaskLoops
  /\ IsFiniteSet(GameThreads) /\ GameThreads # {}
  /\ SelfplayNames \subseteq Names /\ RatingPairs \subseteq Names \X Names
  /\ NoModel \notin Datas /\ NoModel \notin Names
  /\ maxRatingMatches \in Nat /\ taskRepFactor \in Nat \ {0} /\ MaxFailures \in Nat

VARIABLES
  sModelDatas, sData, sRemoving,     \* selfplayManager
  rModelDatas, rData, rRemoving,     \* ratingManager
  shouldStopGracefully,
  taskLoopMutex,               \* the thread that holds it
  present, downloading,        \* names of files on disk; of every task loop, on its way
  loop, task,                  \* of every task loop: where it is, with what
  chosen, rep,                 \* the game that is put together under the mutex, its number
  gameTaskQueue, readOnly,
  game, gameTask,              \* of every game thread
  numRatingGamesActive,
  numFailures,
  main

selfplay == <<sModelDatas, sData, sRemoving>>
rating == <<rModelDatas, rData, rRemoving>>
loops == <<taskLoopMutex, present, downloading, loop, task, chosen, rep, numFailures>>
games == <<game, gameTask>>
vars == <<selfplay, rating, shouldStopGracefully, loops, gameTaskQueue, readOnly, games,
          numRatingGamesActive, main>>

(* Neither manager has write loops, nor cleans up by itself.                              *)
S == INSTANCE SelfplayManager WITH
       modelDatas <- sModelDatas, data <- sData, removing <- sRemoving, maxDataQueueSize <- 1,
       numDataWriteLoopsActive <- 0, numWritten <- 0, autoCleanupAllButLatestIfUnused <- FALSE
R == INSTANCE SelfplayManager WITH
       modelDatas <- rModelDatas, data <- rData, removing <- rRemoving, maxDataQueueSize <- 1,
       numDataWriteLoopsActive <- 0, numWritten <- 0, autoCleanupAllButLatestIfUnused <- FALSE

Sides == {1, 2}                    \* black and white, or what plays them
NoTask == [isRatingGame |-> FALSE, model |-> <<NoModel, NoModel>>]
NoGame == [isRatingGame |-> FALSE, manager |-> [i \in Sides |-> "none"], nnEval |-> [i \in Sides |-> NoModel]]

Init ==
  /\ S!ManagerInit /\ R!ManagerInit
  /\ shouldStopGracefully = FALSE /\ taskLoopMutex = NoThread
  /\ present = {} /\ downloading = [l \in TaskLoops |-> NoModel]
  /\ loop = [l \in TaskLoops |-> "top"] /\ rep = 0 /\ chosen = NoGame /\ task = [l \in TaskLoops |-> NoTask]
  /\ gameTaskQueue = <<>> /\ readOnly = FALSE
  /\ game = [g \in GameThreads |-> "pop"] /\ gameTask = [g \in GameThreads |-> NoGame]
  /\ numRatingGamesActive = 0 /\ numFailures = 0 /\ main = "join"

-------------------------------------------------------------------------------
OnManager(m, onSelfplay, onRating) ==
  IF m = "selfplay" THEN onSelfplay /\ UNCHANGED rating ELSE onRating /\ UNCHANGED selfplay
ModelsNamed(m, name) == IF m = "selfplay" THEN S!ModelsNamed(name) ELSE R!ModelsNamed(name)

AcquireModel(m, d) == OnManager(m, S!Acquire(d), R!Acquire(d))
Release(m, d) == OnManager(m, S!Release(d), R!Release(d))
LoadModel(m, d, name) == OnManager(m, S!LoadModel(d, name, FALSE), R!LoadModel(d, name, FALSE))

(* A manager's mutex is given up after a removal.                                          *)
EndRemoval ==
  /\ (S!EndRemoval /\ UNCHANGED rating) \/ (R!EndRemoval /\ UNCHANGED selfplay)
  /\ UNCHANGED <<shouldStopGracefully, loops, gameTaskQueue, readOnly, games, numRatingGamesActive, main>>

Signal ==
  /\ ~shouldStopGracefully /\ main # "quit" /\ shouldStopGracefully' = TRUE
  /\ UNCHANGED <<selfplay, rating, loops, gameTaskQueue, readOnly, games, numRatingGamesActive, main>>

-------------------------------------------------------------------------------
(* A step of a task loop that has the mutex, and its ways to give it up.                       *)
Step(l, from, to) ==
  /\ taskLoopMutex = l /\ loop[l] = from
  /\ loop' = [loop EXCEPT ![l] = to]
  /\ UNCHANGED <<shouldStopGracefully, readOnly, games, main, downloading>>
Locked(l, from, to) == Step(l, from, to) /\ UNCHANGED taskLoopMutex
Unlock(l, from, to) == Step(l, from, to) /\ taskLoopMutex' = NoThread
NextTask(l, from) ==
  /\ Unlock(l, from, IF shouldStopGracefully THEN "end" ELSE "top")
  /\ task' = [task EXCEPT ![l] = NoTask] /\ chosen' = NoGame /\ rep' = 0
Nothing == <<task, chosen, rep, present, numFailures, gameTaskQueue, numRatingGamesActive>>

Fails == numFailures < MaxFailures /\ numFailures' = numFailures + 1

(* No further task; the one that waits for the mutex looks again when it has it.                 *)
Stop(l) ==
  /\ loop[l] = "top" /\ shouldStopGracefully
  /\ loop' = [loop EXCEPT ![l] = "end"]
  /\ UNCHANGED <<selfplay, rating, shouldStopGracefully, taskLoopMutex, present, downloading, task,
                 chosen, rep, numFailures, gameTaskQueue, readOnly, games, numRatingGamesActive, main>>

(* The mutex is taken and the rating nets that nobody uses are unloaded.                             *)
Enter(l) ==
  /\ loop[l] = "top" /\ ~shouldStopGracefully /\ taskLoopMutex = NoThread
  /\ taskLoopMutex' = l /\ loop' = [loop EXCEPT ![l] = "query"]
  /\ R!CleanupUnusedModels(Datas)
  /\ UNCHANGED <<Nothing, selfplay, shouldStopGracefully, readOnly, games, main, downloading>>

(* Mutant: one match too many.                                                                         *)
Mutant_AllowRatingTask ==
  maxRatingMatches > 0 /\ numRatingGamesActive <= maxRatingMatches * taskRepFactor

(* "Only allow rating tasks when we can handle a whole new chunk of games."                             *)
AllowRatingTask ==
  /\ maxRatingMatches > 0
  /\ numRatingGamesActive <= (maxRatingMatches - 1) * taskRepFactor
  /\ Len(rModelDatas) <= 2 * maxRatingMatches - 2

Tasks ==
  {[isRatingGame |-> FALSE, model |-> <<n, n>>] : n \in SelfplayNames}
    \union {[isRatingGame |-> TRUE, model |-> p] : p \in RatingPairs}

(* getNextTask, and what it gives up on.                                                                 *)
GetNextTask(l) ==
  /\ R!MutexIsFree
  /\ Locked(l, "query", "present")
  /\ \E t \in Tasks : (t.isRatingGame => AllowRatingTask) /\ task' = [task EXCEPT ![l] = t]
  /\ UNCHANGED <<selfplay, rating, chosen, rep, present, numFailures, gameTaskQueue, numRatingGamesActive>>

NoNextTask(l) ==
  /\ NextTask(l, "query")
  /\ (shouldStopGracefully /\ UNCHANGED numFailures) \/ Fails
  /\ UNCHANGED <<selfplay, rating, present, gameTaskQueue, numRatingGamesActive>>

-------------------------------------------------------------------------------
(* The files.  The mutex is not held during a download.                                                   *)
Missing(l) == SelectSeq(task[l].model, LAMBDA n : n \notin present)

StartDownloads(l) ==
  /\ Missing(l) # <<>> /\ Unlock(l, "present", "download")
  /\ UNCHANGED <<Nothing, selfplay, rating>>

AllPresent(l) ==
  /\ Missing(l) = <<>>
  /\ \/ ~shouldStopGracefully /\ Locked(l, "present", "unload") /\ UNCHANGED <<task, chosen, rep>>
     \/ shouldStopGracefully /\ NextTask(l, "present")
  /\ UNCHANGED <<selfplay, rating, present, numFailures, gameTaskQueue, numRatingGamesActive>>

Unlocked == <<selfplay, rating, shouldStopGracefully, taskLoopMutex, task, chosen, rep, gameTaskQueue,
              readOnly, games, numRatingGamesActive, main>>

(* downloadModelIfNotPresent waits for a download of the same file.                                         *)
Download(l) ==
  /\ loop[l] = "download" /\ Missing(l) # <<>> /\ ~shouldStopGracefully
  /\ \A k \in TaskLoops : downloading[k] # Head(Missing(l))
  /\ downloading' = [downloading EXCEPT ![l] = Head(Missing(l))]
  /\ loop' = [loop EXCEPT ![l] = "downloading"]
  /\ UNCHANGED <<Unlocked, present, numFailures>>

EndDownload(l) ==
  /\ loop[l] = "downloading"
  /\ downloading' = [downloading EXCEPT ![l] = NoModel]
  /\ \/ /\ present' = present \union {downloading[l]}
        /\ loop' = [loop EXCEPT ![l] = "download"] /\ UNCHANGED numFailures
     \/ /\ shouldStopGracefully \/ numFailures < MaxFailures
        /\ numFailures' = numFailures + (IF shouldStopGracefully THEN 0 ELSE 1)
        /\ loop' = [loop EXCEPT ![l] = "failed"] /\ UNCHANGED present
  /\ UNCHANGED Unlocked

(* The mutex is taken again, for the files may have gone meanwhile.                                             *)
Relock(l) ==
  /\ taskLoopMutex = NoThread
  /\ loop[l] = "failed" \/ (loop[l] = "download" /\ (shouldStopGracefully \/ Missing(l) = <<>>))
  /\ IF loop[l] = "download" /\ ~shouldStopGracefully
       THEN loop' = [loop EXCEPT ![l] = "present"] /\ taskLoopMutex' = l /\ UNCHANGED task
       ELSE /\ loop' = [loop EXCEPT ![l] = IF shouldStopGracefully THEN "end" ELSE "top"]
            /\ task' = [task EXCEPT ![l] = NoTask] /\ UNCHANGED taskLoopMutex
  /\ UNCHANGED <<selfplay, rating, shouldStopGracefully, present, downloading, chosen, rep, numFailures,
                 gameTaskQueue, readOnly, games, numRatingGamesActive, main>>

-------------------------------------------------------------------------------
(* The nets.  First what has not been used is unloaded: in selfplay what is old.                                 *)
UnloadSelfplay(l) ==
  /\ Locked(l, "unload", "unload_rating")
  /\ \E old \in {{}, Datas} : S!CleanupUnusedModels(old)
  /\ UNCHANGED <<Nothing, rating>>

UnloadRating(l) ==
  /\ Locked(l, "unload_rating", "choose")
  /\ R!CleanupUnusedModels(Datas)
  /\ UNCHANGED <<Nothing, selfplay>>

(* A rating game uses the nets that selfplay has.                                                                 *)
ChooseManagers(l) ==
  /\ S!MutexIsFree
  /\ Locked(l, "choose", "load")
  /\ chosen' = [NoGame EXCEPT
       !.isRatingGame = task[l].isRatingGame,
       !.manager = [i \in Sides |-> IF ~task[l].isRatingGame \/ S!ModelsNamed(task[l].model[i]) # {}
                                    THEN "selfplay" ELSE "rating"]]
  /\ UNCHANGED <<selfplay, rating, task, rep, present, numFailures, gameTaskQueue, numRatingGamesActive>>

(* The sides whose nets are not loaded, of which the first is next.                                                *)
ToLoad(l) == {i \in Sides : ModelsNamed(chosen.manager[i], task[l].model[i]) = {}}
IsNextToLoad(l, i) == i \in ToLoad(l) /\ \A j \in ToLoad(l) : i <= j

Load(l) ==
  /\ Locked(l, "load", "load")
  /\ \E i \in Sides, d \in Datas :
       /\ IsNextToLoad(l, i)
       /\ ~(IF chosen.manager[i] = "selfplay" THEN sData ELSE rData)[d].alive
       /\ LoadModel(chosen.manager[i], d, task[l].model[i])
  /\ UNCHANGED Nothing

(* The checksum is wrong: the file is moved away.                                                                   *)
LoadFails(l) ==
  /\ Fails
  /\ NextTask(l, "load")
  /\ \E i \in Sides : IsNextToLoad(l, i) /\ present' = present \ {task[l].model[i]}
  /\ UNCHANGED <<selfplay, rating, gameTaskQueue, numRatingGamesActive>>

Loaded(l) ==
  /\ S!MutexIsFree /\ R!MutexIsFree /\ ToLoad(l) = {}
  /\ \/ shouldStopGracefully /\ NextTask(l, "load")
     \/ ~shouldStopGracefully /\ Locked(l, "load", "acquire_black") /\ rep' = 1 /\ UNCHANGED <<task, chosen>>
  /\ UNCHANGED <<selfplay, rating, present, numFailures, gameTaskQueue, numRatingGamesActive>>

(* acquireModel finds the net by its name; NULL is not looked at.                                                      *)
Acquire(l, i, from, to) ==
  /\ Locked(l, from, to)
  /\ LET m == chosen.manager[i]  found == ModelsNamed(m, task[l].model[i])
     IN  IF found = {} THEN chosen' = [chosen EXCEPT !.nnEval[i] = NoModel] /\ UNCHANGED <<selfplay, rating>>
         ELSE \E d \in found : AcquireModel(m, d) /\ chosen' = [chosen EXCEPT !.nnEval[i] = d]
  /\ UNCHANGED <<task, rep, present, numFailures, gameTaskQueue>>

AcquireBlack(l) ==
  Acquire(l, 1, "acquire_black", "acquire_white") /\ UNCHANGED numRatingGamesActive

(* The game counts before it is in the queue.                                                                           *)
AcquireWhite(l) ==
  /\ Acquire(l, 2, "acquire_white", "push")
  /\ numRatingGamesActive' = numRatingGamesActive + (IF task[l].isRatingGame THEN 1 ELSE 0)

Swapped(g) == [g EXCEPT !.manager = [i \in Sides |-> g.manager[3 - i]], !.nnEval = [i \in Sides |-> g.nnEval[3 - i]]]

(* The queue has room for one game; the colours are drawn.                                                                *)
PushGame(l) ==
  /\ gameTaskQueue = <<>> /\ \E g \in {chosen, Swapped(chosen)} : gameTaskQueue' = <<g>>
  /\ IF rep < taskRepFactor
       THEN Locked(l, "push", "acquire_black") /\ rep' = rep + 1 /\ UNCHANGED <<task, chosen>>
       ELSE NextTask(l, "push")
  /\ UNCHANGED <<selfplay, rating, present, numFailures, numRatingGamesActive>>

-------------------------------------------------------------------------------
(* The threads that play.                                                                                                    *)
GameStep(g, from, to) ==
  /\ game[g] = from /\ game' = [game EXCEPT ![g] = to]
  /\ UNCHANGED <<shouldStopGracefully, loops, readOnly, main>>

PopGame(g) ==
  /\ gameTaskQueue # <<>> /\ gameTaskQueue' = Tail(gameTaskQueue)
  /\ GameStep(g, "pop", "play")
  /\ gameTask' = [gameTask EXCEPT ![g] = Head(gameTaskQueue)]
  /\ UNCHANGED <<selfplay, rating, numRatingGamesActive>>

(* The game is played and uploaded, or not when the program stops; then both nets are released.                               *)
ReleaseBlack(g) ==
  /\ GameStep(g, "play", "release_white")
  /\ Release(gameTask[g].manager[1], gameTask[g].nnEval[1])
  /\ UNCHANGED <<gameTaskQueue, gameTask, numRatingGamesActive>>

(* Mutant: nets that are the same are released once.                                                                            *)
Mutant_ReleaseOnce(g) ==
  /\ GameStep(g, "release_white", "count")
  /\ IF gameTask[g].nnEval[1] = gameTask[g].nnEval[2] THEN UNCHANGED <<selfplay, rating>>
     ELSE Release(gameTask[g].manager[2], gameTask[g].nnEval[2])
  /\ UNCHANGED <<gameTaskQueue, gameTask, numRatingGamesActive>>

ReleaseWhite(g) ==
  /\ GameStep(g, "release_white", "count")
  /\ Release(gameTask[g].manager[2], gameTask[g].nnEval[2])
  /\ UNCHANGED <<gameTaskQueue, gameTask, numRatingGamesActive>>

CountGame(g) ==
  /\ GameStep(g, "count", "pop")
  /\ numRatingGamesActive' = numRatingGamesActive - (IF gameTask[g].isRatingGame THEN 1 ELSE 0)
  /\ gameTask' = [gameTask EXCEPT ![g] = NoGame]
  /\ UNCHANGED <<selfplay, rating, gameTaskQueue>>

EndOfGames(g) ==
  /\ gameTaskQueue = <<>> /\ readOnly /\ GameStep(g, "pop", "end")
  /\ UNCHANGED <<selfplay, rating, gameTaskQueue, gameTask, numRatingGamesActive>>

-------------------------------------------------------------------------------
(* The main thread.                                                                                                               *)
At(from, to) ==
  /\ main = from /\ main' = to
  /\ UNCHANGED <<loops, gameTaskQueue, games, numRatingGamesActive>>

(* Mutant: the queue is left as it is.                                                                                              *)
Mutant_QueueLeftOpen ==
  /\ \A l \in TaskLoops : loop[l] = "end"
  /\ shouldStopGracefully' = TRUE /\ At("join", "join_games") /\ UNCHANGED <<selfplay, rating, readOnly>>

JoinTaskLoops ==
  /\ \A l \in TaskLoops : loop[l] = "end"
  /\ readOnly' = TRUE /\ shouldStopGracefully' = TRUE
  /\ At("join", "join_games") /\ UNCHANGED <<selfplay, rating>>

DeleteManagers ==
  /\ \A g \in GameThreads : game[g] = "end"
  /\ \/ At("join_games", "deleting") /\ S!Destroy /\ UNCHANGED rating
     \/ S!MutexIsFree /\ At("deleting", "deleted") /\ R!Destroy /\ UNCHANGED selfplay
     \/ R!MutexIsFree /\ At("deleted", "quit") /\ UNCHANGED <<selfplay, rating>>
  /\ UNCHANGED <<shouldStopGracefully, readOnly>>

TaskLoop(l) ==
  \/ Stop(l) \/ Enter(l) \/ GetNextTask(l) \/ NoNextTask(l) \/ StartDownloads(l) \/ AllPresent(l)
  \/ Download(l) \/ EndDownload(l) \/ Relock(l) \/ UnloadSelfplay(l) \/ UnloadRating(l)
  \/ ChooseManagers(l) \/ Load(l) \/ LoadFails(l) \/ Loaded(l) \/ AcquireBlack(l) \/ AcquireWhite(l)
  \/ PushGame(l)
GameLoop(g) == PopGame(g) \/ ReleaseBlack(g) \/ ReleaseWhite(g) \/ CountGame(g) \/ EndOfGames(g)
Main == JoinTaskLoops \/ DeleteManagers
Stopped == main = "quit" /\ UNCHANGED vars

Next ==
  \/ Signal \/ EndRemoval \/ Main \/ Stopped
  \/ (\E l \in TaskLoops : TaskLoop(l)) \/ (\E g \in GameThreads : GameLoop(g))

(* Every thread is scheduled; downloads and games end.                                                                              *)
Spec == Init /\ [][Next]_vars
FairSpec ==
  /\ Spec /\ WF_vars(EndRemoval) /\ WF_vars(Main)
  /\ (\A l \in TaskLoops : WF_vars(TaskLoop(l))) /\ (\A g \in GameThreads : WF_vars(GameLoop(g)))

-------------------------------------------------------------------------------
(* The games that hold nets: being put together, in the queue, being played.                                                          *)
HeldBy(g, sides, m, d) == {i \in sides : g.manager[i] = m /\ g.nnEval[i] = d}
ChosenSides ==
  IF \E l \in TaskLoops : loop[l] = "push" THEN Sides
  ELSE IF \E l \in TaskLoops : loop[l] = "acquire_white" THEN {1} ELSE {}
PlayedSides(g) == IF game[g] = "play" THEN Sides ELSE IF game[g] = "release_white" THEN {2} ELSE {}
Played(m, d) ==
  {p \in GameThreads \X Sides : p[2] \in HeldBy(gameTask[p[1]], PlayedSides(p[1]), m, d)}
Queued(m, d) == IF gameTaskQueue = <<>> THEN {} ELSE HeldBy(Head(gameTaskQueue), Sides, m, d)
Holds(m, d) ==
  Cardinality(HeldBy(chosen, ChosenSides, m, d)) + Cardinality(Queued(m, d)) + Cardinality(Played(m, d))

(* The nets of a game were there when it was put together and are there until it is over, in                                           *)
(* the manager that it holds them from: no NULL, nothing unloaded by the next task, which asks                                          *)
(* what is loaded and acquires it in different critical sections; and when the program stops,                                            *)
(* all have been released.                                                                                                                *)
GamesHaveTheirNets ==
  /\ \A d \in Datas :
       /\ Holds("selfplay", d) = sData[d].acquireCount /\ Holds("rating", d) = rData[d].acquireCount
       /\ sData[d].acquireCount > 0 => d \in ToSet(sModelDatas) \ sRemoving /\ sData[d].alive
       /\ rData[d].acquireCount > 0 => d \in ToSet(rModelDatas) \ rRemoving /\ rData[d].alive
  /\ Holds("selfplay", NoModel) = 0 /\ Holds("rating", NoModel) = 0

(* How far beyond maxRatingMatches the rating games and their nets go: every other task loop can                                            *)
(* have asked for a match before it downloads, and start it when the others have.                                                            *)
RatingGamesAreBounded ==
  LET matches == maxRatingMatches + Cardinality(TaskLoops) - 1
  IN  numRatingGamesActive \in 0 .. matches * taskRepFactor /\ Len(rModelDatas) <= 2 * matches

(* After a signal the program ends: no thread waits for another one for ever.                                                                  *)
ShutdownEnds == shouldStopGracefully ~> main = "quit"
===============================================================================
