--------------------------- MODULE SelfplayManager --------------------------
(* program/selfplaymanager.cpp: the neural nets that a program has loaded to play      *)
(* with, each counted while games use it, and a thread per net that writes its games    *)
(* and deletes it in the end.  The manager's mutex is held from StartRemoval to the        *)
(* last EndRemoval; the other critical sections are one action each.  A ModelData is known by    *)
(* its address, and so is its evaluator, which lives and dies with it.                         *)
EXTENDS Integers, Sequences, FiniteSets, SequencesExt, FiniteSetsExt

CONSTANTS
  Datas,                            \* addresses of ModelData
  Names,                            \* names of nets
  maxDataQueueSize,
  autoCleanupAllButLatestIfUnused,
  NoModel

ASSUME ManagerAssumption ==
  /\ IsFiniteSet(Datas) /\ maxDataQueueSize \in Nat \ {0} /\ autoCleanupAllButLatestIfUnused \in BOOLEAN
  /\ NoModel \notin Datas /\ NoModel \notin Names

VARIABLES
  modelDatas,                 \* the models in the order of loading
  data,                       \* the memory
  removing,                   \* models that are being removed under the mutex
  numDataWriteLoopsActive,
  numWritten                  \* games written

manager == <<modelDatas, data, removing, numDataWriteLoopsActive, numWritten>>

Free == [alive |-> FALSE, modelName |-> NoModel, acquireCount |-> 0, hasDataWriteLoop |-> FALSE,
         queued |-> 0, readOnly |-> FALSE, writeLoop |-> "none"]

ManagerInit ==
  /\ modelDatas = <<>> /\ data = [d \in Datas |-> Free] /\ removing = {}
  /\ numDataWriteLoopsActive = 0 /\ numWritten = 0

MutexIsFree == removing = {}
Latest == Last(modelDatas)
ModelsNamed(name) == {d \in ToSet(modelDatas) : data[d].modelName = name}

-------------------------------------------------------------------------------
(* maybeAutoCleanupAlreadyLocked, over models and memory as they have become: the unused         *)
(* ones are told that no more games come, or deleted at once.                                      *)
Unused(models, datas) ==
  {d \in ToSet(Front(models)) : autoCleanupAllButLatestIfUnused /\ datas[d].acquireCount <= 0}

StartRemoval(models, datas, doomed) ==
  /\ modelDatas' = models
  /\ removing' = doomed
  /\ data' = [d \in Datas |->
                IF d \notin doomed THEN datas[d]
                ELSE IF datas[d].hasDataWriteLoop THEN [datas[d] EXCEPT !.readOnly = TRUE]
                ELSE Free]

(* They are taken out of the list one after another, from the first on.                            *)
EndRemoval ==
  /\ \E i \in DOMAIN modelDatas :
       /\ modelDatas[i] \in removing /\ \A j \in 1..i - 1 : modelDatas[j] \notin removing
       /\ modelDatas' = RemoveAt(modelDatas, i)
       /\ removing' = removing \ {modelDatas[i]}
  /\ UNCHANGED <<data, numDataWriteLoopsActive, numWritten>>

(* loadModelAndStartDataWriting and loadModelNoDataWritingLoop, of a name that is not loaded;          *)
(* else they throw.                                                                                      *)
LoadModel(d, name, loop) ==
  /\ MutexIsFree /\ ModelsNamed(name) = {}
  /\ LET models == Append(modelDatas, d)
         datas == [data EXCEPT ![d] = [Free EXCEPT !.alive = TRUE, !.modelName = name,
                                                   !.hasDataWriteLoop = loop,
                                                   !.writeLoop = IF loop THEN "pop" ELSE "none"]]
     IN  StartRemoval(models, datas, Unused(models, datas))
  /\ numDataWriteLoopsActive' = numDataWriteLoopsActive + (IF loop THEN 1 ELSE 0)
  /\ UNCHANGED numWritten

(* acquireLatest and acquireModel, which find d.                                                           *)
Acquire(d) ==
  /\ MutexIsFree
  /\ data' = [data EXCEPT ![d].acquireCount = @ + 1]
  /\ UNCHANGED <<modelDatas, removing, numDataWriteLoopsActive, numWritten>>

(* release, of a model that is still there.                                                                 *)
Release(d) ==
  /\ MutexIsFree
  /\ IF d \in ToSet(modelDatas)
       THEN LET datas == [data EXCEPT ![d].acquireCount = @ - 1]
            IN  StartRemoval(modelDatas, datas, Unused(modelDatas, datas))
       ELSE UNCHANGED <<modelDatas, data, removing>>
  /\ UNCHANGED <<numDataWriteLoopsActive, numWritten>>

(* cleanupUnusedModelsOlderThan: any of the unused ones may be old.                                          *)
CleanupUnusedModels(old) ==
  /\ MutexIsFree
  /\ StartRemoval(modelDatas, data, {d \in ToSet(modelDatas) \cap old : data[d].acquireCount <= 0})
  /\ UNCHANGED <<numDataWriteLoopsActive, numWritten>>

(* The second part of enqueueDataToWrite: waitPush without the mutex.  FALSE is not looked at.                *)
Push(d) ==
  /\ data[d].readOnly \/ data[d].queued < maxDataQueueSize
  /\ data' = [data EXCEPT ![d].queued = @ + (IF data[d].readOnly THEN 0 ELSE 1)]
  /\ UNCHANGED <<modelDatas, removing, numDataWriteLoopsActive, numWritten>>

(* The destructor: every model is removed; then it waits for the write loops.                                  *)
Destroy == MutexIsFree /\ StartRemoval(modelDatas, data, ToSet(modelDatas))
           /\ UNCHANGED <<numDataWriteLoopsActive, numWritten>>
Destroyed == MutexIsFree /\ modelDatas = <<>> /\ numDataWriteLoopsActive = 0

-------------------------------------------------------------------------------
(* The data write loop of a model.                                                                                *)
AtWriteLoop(d, from, to) ==
  /\ data[d].writeLoop = from
  /\ data' = [data EXCEPT ![d].writeLoop = to]
  /\ UNCHANGED <<modelDatas, removing, numDataWriteLoopsActive>>

WriteGame(d) ==
  /\ data[d].writeLoop = "pop" /\ data[d].queued > 0
  /\ data' = [data EXCEPT ![d].queued = @ - 1]
  /\ numWritten' = numWritten + 1
  /\ UNCHANGED <<modelDatas, removing, numDataWriteLoopsActive>>

(* waitPop finds the queue read-only and empty; the files are flushed.                                               *)
EndOfGames(d) ==
  /\ data[d].queued = 0 /\ data[d].readOnly
  /\ AtWriteLoop(d, "pop", "flushed") /\ UNCHANGED numWritten

(* Mutant: the mutex is not taken before the model is deleted.                                                        *)
Mutant_DeleteUnlocked(d) == AtWriteLoop(d, "flushed", "delete") /\ UNCHANGED numWritten

(* The mutex is taken once, to be sure that the model has been removed.                                                *)
AwaitRemoval(d) ==
  MutexIsFree /\ AtWriteLoop(d, "flushed", "delete") /\ UNCHANGED numWritten

(* The net is deleted without the mutex; the thread that did it is counted out.                                         *)
DeleteModel(d) ==
  /\ data[d].writeLoop = "delete"
  /\ data' = [data EXCEPT ![d] = [Free EXCEPT !.writeLoop = "deleted"]]
  /\ UNCHANGED <<modelDatas, removing, numDataWriteLoopsActive, numWritten>>

WriteLoopEnds(d) ==
  /\ MutexIsFree
  /\ data[d].writeLoop = "deleted"
  /\ data' = [data EXCEPT ![d] = Free]
  /\ numDataWriteLoopsActive' = numDataWriteLoopsActive - 1
  /\ UNCHANGED <<modelDatas, removing, numWritten>>

WriteLoop(d) ==
  \/ WriteGame(d) \/ EndOfGames(d) \/ AwaitRemoval(d) \/ DeleteModel(d)
  \/ WriteLoopEnds(d)
===============================================================================
