----------------------------- MODULE NNEvaluator -----------------------------
(* neuralnet/nneval.{h,cpp}: search threads hand positions to a pool of server  *)
(* threads, which evaluate them in batches.  A client puts a pointer to its own *)
(* NNResultBuf into a ring of batches and sleeps until a server has filled it;   *)
(* a server swaps a whole batch of the ring for an empty one of its own.         *)
(* Results are shared through a hash table, and a thread that is at the end of a *)
(* game may sleep until the next batch is done.                                  *)
(*                                                                               *)
(* One hold of bufferMutex is one action.  What a client and a server do with a  *)
(* row under its resultMutex is one action too.                                  *)
EXTENDS Integers, FiniteSets

CONSTANTS
  Clients,             \* search threads, one NNResultBuf each
  Servers,             \* server threads
  MaxNumRows,          \* maxBatchSize
  MaxConcurrentEvals,  \* what the creator of the evaluator said of its clients
  NumResultBufss,      \* length of the ring
  Positions,           \* positions that may be evaluated, by their hash
  OwnerMaps,           \* the values of includeOwnerMap that callers pass
  Slots,               \* entries of the cache table, none if there is no table
  SlotOf,              \* the entry that each position's hash maps to
  Nobody               \* NULL

ASSUME ConstantsAssumption ==
  /\ MaxNumRows \in Nat \ {0}
  /\ MaxConcurrentEvals \in Nat \ {0}
  /\ IsFiniteSet(Clients) /\ Cardinality(Clients) <= MaxConcurrentEvals
  /\ IsFiniteSet(Servers) /\ Servers # {}
  /\ Nobody \notin Clients /\ Nobody \notin Positions
  /\ OwnerMaps \subseteq BOOLEAN
  /\ Slots # {} => SlotOf \in [Positions -> Slots]

(* The smallest power of two that is at least maxConcurrentEvals / maxBatchSize + 3. *)
ASSUME RingAssumption ==
  /\ NumResultBufss \in Nat
  /\ NumResultBufss >= MaxConcurrentEvals \div MaxNumRows + 3
  /\ NumResultBufss < 2 * (MaxConcurrentEvals \div MaxNumRows + 3)
  /\ \E k \in 0..NumResultBufss : NumResultBufss = 2^k

VARIABLES
  resultBufss,       \* m_resultBufss: the ring of batches, each an array of rows
  currentLen,        \* m_currentResultBufsLen: rows used in the current batch
  currentIdx,        \* m_currentResultBufsIdx: the batch being filled
  oldestIdx,         \* m_oldestResultBufsIdx: the first that no server has taken
  isKilled,
  startingUp,        \* numServerThreadsStartingUp
  numOngoingEvals,   \* batches being computed
  numWaitingEvals,   \* waiters for the next batch to be done
  numEvalsToAwaken,  \* those of them that may go
  mainPc,            \* the thread that spawns and kills the servers
  serverPc,
  serverBuf,         \* NNServerBuf::resultBufs: the batch a server works on
  serverRows,        \* how many rows of it are to be answered
  serverRow,         \* the next one
  clientPc,
  request,           \* the position a client asks for, and if with ownership
  hasResult,         \* NNResultBuf::hasResult
  result,            \* NNResultBuf::result
  cache              \* the cache table

ringVars   == <<resultBufss, currentLen, currentIdx, oldestIdx>>
waitVars   == <<numOngoingEvals, numWaitingEvals, numEvalsToAwaken>>
mainVars   == <<isKilled, startingUp, mainPc>>
batchVars  == <<serverBuf, serverRows, serverRow>>
clientData == <<request, hasResult, result, cache>>
vars == <<ringVars, waitVars, mainVars, serverPc, batchVars, clientPc, clientData>>

-------------------------------------------------------------------------------
Idxs     == 0..NumResultBufss - 1
Rows     == 0..MaxNumRows - 1
Batches  == [Rows -> Clients \cup {Nobody}]
NoBatch  == [r \in Rows |-> Nobody]
Requests == [pos: Positions, owner: OwnerMaps]
NoOutput == [pos |-> Nobody, owner |-> FALSE]
Outputs  == Requests \cup {NoOutput}

MainPcs   == {"down", "spawning", "spawnParked", "up", "killing"}
ServerPcs == {"none", "starting", "check", "parked", "serving", "done", "ended"}
(* The client is in waitForNextNNEvalIfAny.                                     *)
WaitPcs   == {"waitParked", "waitCheck"}
ClientPcs == {"idle", "enqueue", "await", "parked"} \cup WaitPcs

TypeOK ==
  /\ resultBufss \in [Idxs -> Batches]
  /\ currentLen \in Rows
  /\ currentIdx \in Idxs
  /\ oldestIdx \in Idxs
  /\ isKilled \in BOOLEAN
  /\ startingUp \in 0..Cardinality(Servers)
  /\ numOngoingEvals \in 0..Cardinality(Servers)
  /\ numWaitingEvals \in 0..Cardinality(Clients)
  /\ numEvalsToAwaken \in 0..Cardinality(Clients)
  /\ mainPc \in MainPcs
  /\ serverPc \in [Servers -> ServerPcs]
  /\ serverBuf \in [Servers -> Batches]
  /\ serverRows \in [Servers -> 0..MaxNumRows]
  /\ serverRow \in [Servers -> Rows]
  /\ clientPc \in [Clients -> ClientPcs]
  /\ request \in [Clients -> Outputs]
  /\ hasResult \in [Clients -> BOOLEAN]
  /\ result \in [Clients -> Outputs]
  /\ cache \in [Slots -> Outputs]

Init ==
  /\ resultBufss = [i \in Idxs |-> NoBatch]
  /\ currentLen = 0
  /\ currentIdx = 0
  /\ oldestIdx = 0
  /\ isKilled = FALSE
  /\ startingUp = 0
  /\ numOngoingEvals = 0
  /\ numWaitingEvals = 0
  /\ numEvalsToAwaken = 0
  /\ mainPc = "down"
  /\ serverPc = [s \in Servers |-> "none"]
  /\ serverBuf = [s \in Servers |-> NoBatch]
  /\ serverRows = [s \in Servers |-> 0]
  /\ serverRow = [s \in Servers |-> 0]
  /\ clientPc = [c \in Clients |-> "idle"]
  /\ request = [c \in Clients |-> NoOutput]
  /\ hasResult = [c \in Clients |-> FALSE]
  /\ result = [c \in Clients |-> NoOutput]
  /\ cache = [i \in Slots |-> NoOutput]

(* (i + 1) & numResultBufssMask                                                 *)
NextIdx(i) == IF i = NumResultBufss - 1 THEN 0 ELSE i + 1

HasWork == currentLen > 0 \/ currentIdx # oldestIdx

-------------------------------------------------------------------------------
(* The thread that owns the evaluator.                                          *)

SpawnServerThreads ==
  /\ mainPc = "down"
  /\ mainPc' = "spawning"
  /\ startingUp' = Cardinality(Servers)
  /\ serverPc' = [s \in Servers |-> "starting"]
  /\ UNCHANGED <<ringVars, waitVars, isKilled, batchVars, clientPc, clientData>>

WaitForSpawn ==
  /\ mainPc = "spawning"
  /\ mainPc' = IF startingUp > 0 THEN "spawnParked" ELSE "up"
  /\ UNCHANGED <<ringVars, waitVars, isKilled, startingUp, serverPc, batchVars,
                 clientPc, clientData>>

(* Mutant: the sleeping servers are not woken.                                  *)
Mutant_KillServerThreadsSilently ==
  /\ mainPc = "up"
  /\ \A c \in Clients : clientPc[c] = "idle"
  /\ mainPc' = "killing"
  /\ isKilled' = TRUE
  /\ UNCHANGED <<ringVars, waitVars, startingUp, serverPc, batchVars, clientPc,
                 clientData>>

(* Not while a client is in a call: every user joins its search threads first.  *)
KillServerThreads ==
  /\ mainPc = "up"
  /\ \A c \in Clients : clientPc[c] = "idle"
  /\ mainPc' = "killing"
  /\ isKilled' = TRUE
  /\ serverPc' = [s \in Servers |->
                    IF serverPc[s] = "parked" THEN "check" ELSE serverPc[s]]
  /\ UNCHANGED <<ringVars, waitVars, startingUp, batchVars, clientPc, clientData>>

(* The threads are joined; they may be spawned again.                           *)
JoinServerThreads ==
  /\ mainPc = "killing"
  /\ \A s \in Servers : serverPc[s] = "ended"
  /\ mainPc' = "down"
  /\ isKilled' = FALSE
  /\ serverPc' = [s \in Servers |-> "none"]
  /\ UNCHANGED <<ringVars, waitVars, startingUp, batchVars, clientPc, clientData>>

-------------------------------------------------------------------------------
(* The client threads: evaluate.                                                *)

(* Mutant: an entry of the table is taken for whatever position maps to it.     *)
Mutant_FoundInSlot(c, q) ==
  Slots # {} /\ cache[SlotOf[q.pos]] # NoOutput /\
    (q.owner => cache[SlotOf[q.pos]].owner)

(* The table has an output for this position, with ownership if that is asked.  *)
FoundInCache(c, q) ==
  /\ Slots # {}
  /\ cache[SlotOf[q.pos]].pos = q.pos
  /\ q.owner => cache[SlotOf[q.pos]].owner

(* hasResult is cleared, and the table looked up unless skipCache.              *)
CallEvaluate(c, q, skipCache) ==
  /\ mainPc = "up"
  /\ clientPc[c] = "idle"
  /\ request' = [request EXCEPT ![c] = q]
  /\ IF ~skipCache /\ FoundInCache(c, q)
       THEN /\ hasResult' = [hasResult EXCEPT ![c] = TRUE]
            /\ result' = [result EXCEPT ![c] = cache[SlotOf[q.pos]]]
            /\ UNCHANGED clientPc
       ELSE /\ hasResult' = [hasResult EXCEPT ![c] = FALSE]
            /\ result' = [result EXCEPT ![c] = NoOutput]
            /\ clientPc' = [clientPc EXCEPT ![c] = "enqueue"]
  /\ UNCHANGED <<ringVars, waitVars, mainVars, serverPc, batchVars, cache>>

(* serverWaitingForBatchStart.notify_one                                        *)
NotifyOneServer ==
  \/ /\ \A s \in Servers : serverPc[s] # "parked"
     /\ UNCHANGED serverPc
  \/ \E s \in Servers :
       /\ serverPc[s] = "parked"
       /\ serverPc' = [serverPc EXCEPT ![s] = "check"]

(* Mutant: a server is notified when a batch is full, not when it is begun.     *)
Mutant_EnqueueNotifiesFull(c) ==
  /\ clientPc[c] = "enqueue"
  /\ resultBufss' = [resultBufss EXCEPT ![currentIdx][currentLen] = c]
  /\ IF currentLen + 1 = MaxNumRows /\ currentIdx = oldestIdx
       THEN NotifyOneServer ELSE UNCHANGED serverPc
  /\ IF currentLen + 1 >= MaxNumRows
       THEN currentLen' = 0 /\ currentIdx' = NextIdx(currentIdx)
       ELSE currentLen' = currentLen + 1 /\ UNCHANGED currentIdx
  /\ clientPc' = [clientPc EXCEPT ![c] = "await"]
  /\ UNCHANGED <<oldestIdx, waitVars, mainVars, batchVars, clientData>>

(* Add a row to the current batch; move on to the next one when it is full.      *)
Enqueue(c) ==
  /\ clientPc[c] = "enqueue"
  /\ resultBufss' = [resultBufss EXCEPT ![currentIdx][currentLen] = c]
  /\ IF currentLen = 0 /\ currentIdx = oldestIdx
       THEN NotifyOneServer ELSE UNCHANGED serverPc
  /\ IF currentLen + 1 >= MaxNumRows
       THEN currentLen' = 0 /\ currentIdx' = NextIdx(currentIdx)
       ELSE currentLen' = currentLen + 1 /\ UNCHANGED currentIdx
  /\ clientPc' = [clientPc EXCEPT ![c] = "await"]
  /\ UNCHANGED <<oldestIdx, waitVars, mainVars, batchVars, clientData>>

AwaitResult(c) ==
  /\ clientPc[c] = "await"
  /\ ~hasResult[c]
  /\ clientPc' = [clientPc EXCEPT ![c] = "parked"]
  /\ UNCHANGED <<ringVars, waitVars, mainVars, serverPc, batchVars, clientData>>

(* The row is answered: postprocess the output, which nobody shares yet, and     *)
(* then put it into the table.                                                   *)
ReturnResult(c) ==
  /\ clientPc[c] = "await"
  /\ hasResult[c]
  /\ cache' = IF Slots = {} THEN cache
              ELSE [cache EXCEPT ![SlotOf[request[c].pos]] = result[c]]
  /\ clientPc' = [clientPc EXCEPT ![c] = "idle"]
  /\ UNCHANGED <<ringVars, waitVars, mainVars, serverPc, batchVars, request,
                 hasResult, result>>

(* clearCache, by any thread: each entry under its own mutex, one after another.  *)
ClearCacheEntry(i) ==
  /\ cache' = [cache EXCEPT ![i] = NoOutput]
  /\ UNCHANGED <<ringVars, waitVars, mainVars, serverPc, batchVars, clientPc, request,
                 hasResult, result>>

-------------------------------------------------------------------------------
(* The client threads: waitForNextNNEvalIfAny, which returns at once if no batch *)
(* is being computed.                                                            *)

CallWaitForNext(c) ==
  /\ mainPc = "up"
  /\ clientPc[c] = "idle"
  /\ numOngoingEvals > 0
  /\ numWaitingEvals' = numWaitingEvals + 1
  /\ \/ /\ numEvalsToAwaken > 0
        /\ numEvalsToAwaken' = numEvalsToAwaken - 1
        /\ UNCHANGED clientPc
     \/ /\ numEvalsToAwaken = 0
        /\ clientPc' = [clientPc EXCEPT ![c] = "waitParked"]
        /\ UNCHANGED numEvalsToAwaken
  /\ UNCHANGED <<ringVars, numOngoingEvals, mainVars, serverPc, batchVars,
                 clientData>>

(* Mutant: the waiter does not take away the token that lets it go.              *)
Mutant_WaitForNextKeepsToken(c) ==
  /\ clientPc[c] = "waitCheck"
  /\ clientPc' = [clientPc EXCEPT ![c] =
                    IF numEvalsToAwaken > 0 THEN "idle" ELSE "waitParked"]
  /\ UNCHANGED <<ringVars, numOngoingEvals, numWaitingEvals, numEvalsToAwaken,
                 mainVars, serverPc, batchVars, clientData>>

(* Woken: go if there is a token left, or wait again.                            *)
WaitForNext(c) ==
  /\ clientPc[c] = "waitCheck"
  /\ \/ /\ numEvalsToAwaken > 0
        /\ numEvalsToAwaken' = numEvalsToAwaken - 1
        /\ clientPc' = [clientPc EXCEPT ![c] = "idle"]
     \/ /\ numEvalsToAwaken = 0
        /\ clientPc' = [clientPc EXCEPT ![c] = "waitParked"]
        /\ UNCHANGED numEvalsToAwaken
  /\ UNCHANGED <<ringVars, numOngoingEvals, numWaitingEvals, mainVars, serverPc,
                 batchVars, clientData>>

-------------------------------------------------------------------------------
(* The server threads: serve.                                                    *)

ServerStarts(s) ==
  /\ serverPc[s] = "starting"
  /\ serverPc' = [serverPc EXCEPT ![s] = "check"]
  /\ startingUp' = startingUp - 1
  /\ mainPc' = IF startingUp' = 0 /\ mainPc = "spawnParked" THEN "spawning" ELSE mainPc
  /\ UNCHANGED <<ringVars, waitVars, isKilled, batchVars, clientPc, clientData>>

(* A server with the lock: just woken or started, or back from a batch.           *)
AtLoopHead(s) == serverPc[s] \in {"check", "done"}

(* Back from a batch: everyone who waits for a batch to be done may go.            *)
CountBatchDone(s) ==
  IF serverPc[s] = "done"
    THEN /\ numEvalsToAwaken' = numEvalsToAwaken + numWaitingEvals
         /\ numWaitingEvals' = 0
         /\ clientPc' = [c \in Clients |->
              IF clientPc[c] = "waitParked" /\ numWaitingEvals > 0
                THEN "waitCheck" ELSE clientPc[c]]
    ELSE UNCHANGED <<numEvalsToAwaken, numWaitingEvals, clientPc>>

OngoingWithout(s) ==
  IF serverPc[s] = "done" THEN numOngoingEvals - 1 ELSE numOngoingEvals

ServerWaits(s) ==
  /\ AtLoopHead(s)
  /\ ~HasWork /\ ~isKilled
  /\ CountBatchDone(s)
  /\ numOngoingEvals' = OngoingWithout(s)
  /\ serverPc' = [serverPc EXCEPT ![s] = "parked"]
  /\ UNCHANGED <<ringVars, mainVars, batchVars, clientData>>

ServerEnds(s) ==
  /\ AtLoopHead(s)
  /\ isKilled
  /\ CountBatchDone(s)
  /\ numOngoingEvals' = OngoingWithout(s)
  /\ serverPc' = [serverPc EXCEPT ![s] = "ended"]
  /\ UNCHANGED <<ringVars, mainVars, batchVars, clientData>>

(* Mutant: a partial batch is taken, but its length is not reset.                  *)
Mutant_TakeBatchKeepsLen(s) ==
  /\ AtLoopHead(s)
  /\ HasWork /\ ~isKilled
  /\ CountBatchDone(s)
  /\ numOngoingEvals' = OngoingWithout(s) + 1
  /\ resultBufss' = [resultBufss EXCEPT ![oldestIdx] = serverBuf[s]]
  /\ serverBuf' = [serverBuf EXCEPT ![s] = resultBufss[oldestIdx]]
  /\ serverRow' = [serverRow EXCEPT ![s] = 0]
  /\ oldestIdx' = NextIdx(oldestIdx)
  /\ serverRows' = [serverRows EXCEPT ![s] =
                      IF currentIdx = oldestIdx THEN currentLen ELSE MaxNumRows]
  /\ currentIdx' = IF currentIdx = oldestIdx THEN NextIdx(oldestIdx) ELSE currentIdx
  /\ serverPc' = [serverPc EXCEPT ![s] = "serving"]
  /\ UNCHANGED <<currentLen, mainVars, clientData>>

(* Swap the oldest batch for the empty one the server has.  If it is the one that   *)
(* clients are filling, they go on to the next; otherwise it is full.               *)
TakeBatch(s) ==
  /\ AtLoopHead(s)
  /\ HasWork /\ ~isKilled
  /\ CountBatchDone(s)
  /\ numOngoingEvals' = OngoingWithout(s) + 1
  /\ resultBufss' = [resultBufss EXCEPT ![oldestIdx] = serverBuf[s]]
  /\ serverBuf' = [serverBuf EXCEPT ![s] = resultBufss[oldestIdx]]
  /\ serverRow' = [serverRow EXCEPT ![s] = 0]
  /\ oldestIdx' = NextIdx(oldestIdx)
  /\ \/ /\ currentIdx = oldestIdx
        /\ serverRows' = [serverRows EXCEPT ![s] = currentLen]
        /\ currentIdx' = NextIdx(oldestIdx)
        /\ currentLen' = 0
     \/ /\ currentIdx # oldestIdx
        /\ serverRows' = [serverRows EXCEPT ![s] = MaxNumRows]
        /\ UNCHANGED <<currentIdx, currentLen>>
  /\ serverPc' = [serverPc EXCEPT ![s] = "serving"]
  /\ UNCHANGED <<mainVars, clientData>>

(* Answer one row of the batch, which has been through the net: its client gets     *)
(* the output for its own row.                                                      *)
AnswerRow(s) ==
  /\ serverPc[s] = "serving"
  /\ LET c == serverBuf[s][serverRow[s]]
     IN  /\ hasResult' = [hasResult EXCEPT ![c] = TRUE]
         /\ result' = [result EXCEPT ![c] = request[c]]
         /\ clientPc' = [clientPc EXCEPT ![c] = IF @ = "parked" THEN "await" ELSE @]
  /\ serverBuf' = [serverBuf EXCEPT ![s][serverRow[s]] = Nobody]
  /\ IF serverRow[s] + 1 < serverRows[s]
       THEN /\ serverRow' = [serverRow EXCEPT ![s] = @ + 1]
            /\ UNCHANGED <<serverRows, serverPc>>
       ELSE /\ serverRow' = [serverRow EXCEPT ![s] = 0]
            /\ serverRows' = [serverRows EXCEPT ![s] = 0]
            /\ serverPc' = [serverPc EXCEPT ![s] = "done"]
  /\ UNCHANGED <<ringVars, waitVars, mainVars, request, cache>>

-------------------------------------------------------------------------------
(* Condition variables may wake without a notification.                          *)
SpuriousWakeup ==
  \/ /\ mainPc = "spawnParked"
     /\ mainPc' = "spawning"
     /\ UNCHANGED <<serverPc, clientPc>>
  \/ \E s \in Servers :
       /\ serverPc[s] = "parked"
       /\ serverPc' = [serverPc EXCEPT ![s] = "check"]
       /\ UNCHANGED <<mainPc, clientPc>>
  \/ \E c \in Clients :
       /\ clientPc[c] \in {"parked", "waitParked"}
       /\ clientPc' = [clientPc EXCEPT ![c] =
                         IF @ = "parked" THEN "await" ELSE "waitCheck"]
       /\ UNCHANGED <<mainPc, serverPc>>

Wakeup ==
  /\ SpuriousWakeup
  /\ UNCHANGED <<ringVars, waitVars, isKilled, startingUp, batchVars, clientData>>

Calls(c) ==
  \/ \E q \in Requests, skipCache \in BOOLEAN : CallEvaluate(c, q, skipCache)
  \/ CallWaitForNext(c)

Client(c) == Enqueue(c) \/ AwaitResult(c) \/ ReturnResult(c) \/ WaitForNext(c)

Server(s) ==
  ServerStarts(s) \/ ServerWaits(s) \/ ServerEnds(s) \/ TakeBatch(s) \/ AnswerRow(s)

Owner == WaitForSpawn \/ JoinServerThreads

Next ==
  \/ SpawnServerThreads
  \/ KillServerThreads
  \/ Owner
  \/ \E c \in Clients : Calls(c) \/ Client(c)
  \/ \E s \in Servers : Server(s)
  \/ \E i \in Slots : ClearCacheEntry(i)
  \/ Wakeup

Spec == Init /\ [][Next]_vars

(* Threads run.  Nobody has to make a call, to spawn or to kill.                   *)
Fairness ==
  /\ WF_vars(Owner)
  /\ \A c \in Clients : WF_vars(Client(c))
  /\ \A s \in Servers : WF_vars(Server(s))

FairSpec == Spec /\ Fairness

-------------------------------------------------------------------------------

(* The rows of the ring and of the servers' batches that point to a client.         *)
RingRows(c)   == {p \in Idxs \X Rows : resultBufss[p[1]][p[2]] = c}
ServerRows(c) == {p \in Servers \X Rows : serverBuf[p[1]][p[2]] = c}

(* A client that waits for its result is in exactly one row, and one that does not  *)
(* is in none: no result is written to a buffer its client has taken back, or       *)
(* twice, and none is forgotten when batches are swapped.  The rows a server has    *)
(* yet to answer are filled, and no others: "assert(buf.resultBufs[row] != NULL)".   *)
OneRowPerCall ==
  /\ \A c \in Clients :
       Cardinality(RingRows(c)) + Cardinality(ServerRows(c)) =
         IF clientPc[c] \in {"await", "parked"} /\ ~hasResult[c] THEN 1 ELSE 0
  /\ \A s \in Servers, r \in Rows :
       serverBuf[s][r] # Nobody <=> serverRow[s] <= r /\ r < serverRows[s]

(* The two counters of waitForNextNNEvalIfAny account for every waiter, although a      *)
(* newcomer may take the token that was meant for another: numWaitingEvals and          *)
(* numEvalsToAwaken are 0 when the servers are killed, as the code asserts.  And no     *)
(* waiter sleeps while there is a token, or waits for a batch that nobody computes.     *)
WaitersAccounted ==
  /\ numWaitingEvals + numEvalsToAwaken = Cardinality({c \in Clients : clientPc[c] \in WaitPcs})
  /\ \A c \in Clients :
       clientPc[c] = "waitParked" =>
         numWaitingEvals > 0 /\ numOngoingEvals > 0 /\ numEvalsToAwaken = 0

(* evaluate returns the output for the position it was given, with ownership if it was   *)
(* asked for, whether it comes from a server or from the table.                          *)
ResultIsTheOneAsked ==
  \A c \in Clients :
    clientPc[c] = "idle" /\ hasResult[c] =>
      result[c].pos = request[c].pos /\ (request[c].owner => result[c].owner)

(* spawnServerThreads and killServerThreads return.                                       *)
SpawnAndKillReturn ==
  /\ mainPc \in {"spawning", "spawnParked"} ~> mainPc = "up"
  /\ mainPc = "killing" ~> mainPc = "down"

(* Every evaluate returns, and so do the calls that spawn and kill the servers; so does   *)
(* every waiter, if newcomers do not take away its token for ever.                        *)
CallsReturn ==
  /\ SpawnAndKillReturn
  /\ \A c \in Clients : clientPc[c] \in {"enqueue", "await", "parked"} ~> clientPc[c] = "idle"
  /\ <>[][~\E c \in Clients : CallWaitForNext(c)]_vars =>
       \A c \in Clients : clientPc[c] \in WaitPcs ~> clientPc[c] \notin WaitPcs
===============================================================================
