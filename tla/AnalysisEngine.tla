---------------------------- MODULE AnalysisEngine ----------------------------
(* command/analysis.cpp: the JSON analysis engine.  One thread (api) reads       *)
(* queries and terminate requests; each analysis thread takes requests from a    *)
(* priority queue and searches them with an AsyncBot of its own; a write thread   *)
(* prints the responses.                                                          *)
(*                                                                                *)
(* The queues are taken by what ThreadSafeQueue shows of theirs: a pop waits for   *)
(* an element or for read-only.  A bot is taken by what SearchService says of it,  *)
(* with the callbacks that AsyncBot runs during a search.                          *)
EXTENDS Integers, Sequences, FiniteSets

CONSTANTS
  Threads,        \* analysis threads, each with its bot
  Requests,       \* positions that may be asked for: one AnalyzeRequest each
  Priority,       \* the priority its query gives each request
  Reporting,      \* the requests with reportDuringSearch
  MaxDuring,      \* bound: reports during the search of one request
  InQueue, Popped, Terminated,   \* the negative values of AnalyzeRequest::status
  Nothing         \* no request

ASSUME ConstantsAssumption ==
  /\ Priority \in [Requests -> Int]
  /\ Reporting \subseteq Requests
  /\ MaxDuring \in Nat
  /\ Nothing \notin Requests
  /\ InQueue # Popped /\ InQueue # Terminated /\ Popped # Terminated
  /\ {InQueue, Popped, Terminated} \cap Threads = {}
  /\ Nothing \notin {InQueue, Popped, Terminated} \cup Threads

VARIABLES
  quitWithoutWaiting,  \* the command line flag
  status,              \* AnalyzeRequest::status of each request
  openRequests,        \* requests to be found by a terminate
  openMutex,           \* the api thread holds openRequestsMutex
  freed,               \* requests allocated once and deleted since
  toAnalyze,           \* toAnalyzeQueue, in order of arrival
  analyzeReadOnly,
  apiPc,
  apiTodo,             \* requests the api thread has yet to push or terminate
  apiRequest,          \* the request terminateRequest works on
  apiThread,           \* the thread index terminateRequest found in it
  botsTodo,            \* bots the shutdown has yet to stop or kill
  workerPc,            \* where each analysis thread is in its loop
  working,             \* the request each analysis thread has popped
  bot,                 \* each thread's AsyncBot
  toWrite,             \* toWriteQueue
  writeReadOnly,
  output               \* what was printed for each request, in order

apiLocals  == <<apiTodo, apiRequest, apiThread, botsTodo>>
apiVars    == <<apiPc, apiLocals>>
openVars   == <<openRequests, openMutex>>
queueVars  == <<toAnalyze, analyzeReadOnly>>
workerVars == <<workerPc, working>>
writeVars  == <<toWrite, writeReadOnly, output>>
vars == <<quitWithoutWaiting, status, openVars, freed, queueVars, apiVars,
          workerVars, bot, writeVars>>

-------------------------------------------------------------------------------
Statuses == {InQueue, Popped, Terminated} \cup Threads
Unsent   == {r \in Requests : status[r] = Nothing}

(* A response says whether it is final, and a final one may have no results.     *)
Finals == {"final", "noResults"}
Kinds  == Finals \cup {"during"}

Bots == [phase: {"idle", "queued", "starting", "searching"},
         stop: BOOLEAN, killed: BOOLEAN,
         results: BOOLEAN,      \* the root has a neural net output
         reports: 0..MaxDuring]

ApiPcs == {"reading", "pushing", "terminating", "reportNone", "stopBot",
           "haltWriting", "haltAnalyzing", "stopBots", "killBots",
           "joinWorkers", "joinWriter", "exited"}
WorkerPcs == {"pop", "claim", "genMove", "search", "report", "dummy", "clear",
              "erase", "ended"}

TypeOK ==
  /\ quitWithoutWaiting \in BOOLEAN
  /\ status \in [Requests -> Statuses \cup {Nothing}]
  /\ openRequests \subseteq Requests
  /\ openMutex \in BOOLEAN
  /\ freed \subseteq Requests
  /\ toAnalyze \in Seq(Requests)
  /\ analyzeReadOnly \in BOOLEAN
  /\ apiPc \in ApiPcs
  /\ apiTodo \subseteq Requests
  /\ apiRequest \in Requests \cup {Nothing}
  /\ apiThread \in Threads \cup {Nothing}
  /\ botsTodo \subseteq Threads
  /\ workerPc \in [Threads -> WorkerPcs]
  /\ working \in [Threads -> Requests \cup {Nothing}]
  /\ bot \in [Threads -> Bots]
  /\ toWrite \in Seq(Requests \X Kinds)
  /\ writeReadOnly \in BOOLEAN
  /\ output \in [Requests -> Seq(Kinds)]

Init ==
  /\ quitWithoutWaiting \in BOOLEAN
  /\ status = [r \in Requests |-> Nothing]
  /\ openRequests = {}
  /\ openMutex = FALSE
  /\ freed = {}
  /\ toAnalyze = <<>>
  /\ analyzeReadOnly = FALSE
  /\ apiPc = "reading"
  /\ apiTodo = {}
  /\ apiRequest = Nothing
  /\ apiThread = Nothing
  /\ botsTodo = {}
  /\ workerPc = [t \in Threads |-> "pop"]
  /\ working = [t \in Threads |-> Nothing]
  /\ bot = [t \in Threads |-> [phase |-> "idle", stop |-> FALSE, killed |-> FALSE,
                               results |-> FALSE, reports |-> 0]]
  /\ toWrite = <<>>
  /\ writeReadOnly = FALSE
  /\ output = [r \in Requests |-> <<>>]

(* pushToWrite: a queue set read-only refuses the message, which is then lost.    *)
PushToWrite(r, kind) ==
  toWrite' = IF writeReadOnly THEN toWrite ELSE Append(toWrite, <<r, kind>>)

StopBot(t) == bot' = [bot EXCEPT ![t].stop = TRUE]

-------------------------------------------------------------------------------
(* The api thread: requestLoop.                                                  *)

(* A query, with one request per turn it asks for: they are all open before the   *)
(* first is in the queue.                                                         *)
ReadQuery(S) ==
  /\ apiPc = "reading"
  /\ S # {} /\ S \subseteq Unsent
  /\ ~openMutex
  /\ status' = [r \in Requests |-> IF r \in S THEN InQueue ELSE status[r]]
  /\ openRequests' = openRequests \cup S
  /\ apiTodo' = S
  /\ apiPc' = "pushing"
  /\ UNCHANGED <<quitWithoutWaiting, openMutex, freed, queueVars, apiRequest,
                 apiThread, botsTodo, workerVars, bot, writeVars>>

PushRequest(r) ==
  /\ apiPc = "pushing"
  /\ r \in apiTodo
  /\ toAnalyze' = Append(toAnalyze, r)
  /\ apiTodo' = apiTodo \ {r}
  /\ apiPc' = IF apiTodo = {r} THEN "reading" ELSE "pushing"
  /\ UNCHANGED <<quitWithoutWaiting, status, openVars, freed, analyzeReadOnly,
                 apiRequest, apiThread, botsTodo, workerVars, bot, writeVars>>

(* A terminate action: openRequestsMutex is held until all the open requests with  *)
(* its id and turn numbers, S, are dealt with.                                     *)
ReadTerminate(S) ==
  /\ apiPc = "reading"
  /\ S # {} /\ S \subseteq openRequests
  /\ ~openMutex
  /\ openMutex' = TRUE
  /\ apiTodo' = S
  /\ apiPc' = "terminating"
  /\ UNCHANGED <<quitWithoutWaiting, status, openRequests, freed, queueVars,
                 apiRequest, apiThread, botsTodo, workerVars, bot, writeVars>>

(* terminateRequest: the exchange decides who is to write the response.            *)
TerminateRequest(r) ==
  /\ apiPc = "terminating"
  /\ r \in apiTodo
  /\ status' = [status EXCEPT ![r] = Terminated]
  /\ apiTodo' = apiTodo \ {r}
  /\ \/ /\ status[r] \in {Terminated, Popped}
        /\ UNCHANGED <<apiPc, apiRequest, apiThread>>
     \/ /\ status[r] = InQueue
        /\ apiPc' = "reportNone"
        /\ apiRequest' = r
        /\ UNCHANGED apiThread
     \/ /\ status[r] \in Threads
        /\ apiPc' = "stopBot"
        /\ apiRequest' = r
        /\ apiThread' = status[r]
  /\ UNCHANGED <<quitWithoutWaiting, openVars, freed, queueVars, botsTodo,
                 workerVars, bot, writeVars>>

(* No thread had claimed it: the api thread writes the response.                   *)
ReportNoAnalysisFromApi ==
  /\ apiPc = "reportNone"
  /\ PushToWrite(apiRequest, "noResults")
  /\ apiPc' = "terminating"
  /\ apiRequest' = Nothing
  /\ UNCHANGED <<quitWithoutWaiting, status, openVars, freed, queueVars, apiTodo,
                 apiThread, botsTodo, workerVars, bot, writeReadOnly, output>>

(* A thread was searching it: stop that thread's bot, by the index just read.       *)
StopTerminated ==
  /\ apiPc = "stopBot"
  /\ StopBot(apiThread)
  /\ apiPc' = "terminating"
  /\ apiRequest' = Nothing
  /\ apiThread' = Nothing
  /\ UNCHANGED <<quitWithoutWaiting, status, openVars, freed, queueVars, apiTodo,
                 botsTodo, workerVars, writeVars>>

TerminateDone ==
  /\ apiPc = "terminating"
  /\ apiTodo = {}
  /\ openMutex' = FALSE
  /\ apiPc' = "reading"
  /\ UNCHANGED <<quitWithoutWaiting, status, openRequests, freed, queueVars, apiLocals,
                 workerVars, bot, writeVars>>

-------------------------------------------------------------------------------
(* The end of input, and the shutdown.                                            *)

ReadEof ==
  /\ apiPc = "reading"
  /\ apiPc' = IF quitWithoutWaiting THEN "haltWriting" ELSE "haltAnalyzing"
  /\ UNCHANGED <<quitWithoutWaiting, status, openVars, freed, queueVars, apiLocals,
                 workerVars, bot, writeVars>>

(* Only quitWithoutWaiting: output that is not yet queued is given up.             *)
HaltWriting ==
  /\ apiPc = "haltWriting"
  /\ writeReadOnly' = TRUE
  /\ apiPc' = "haltAnalyzing"
  /\ UNCHANGED <<quitWithoutWaiting, status, openVars, freed, queueVars, apiLocals,
                 workerVars, bot, toWrite, output>>

HaltAnalyzing ==
  /\ apiPc = "haltAnalyzing"
  /\ analyzeReadOnly' = TRUE
  /\ apiPc' = IF quitWithoutWaiting THEN "stopBots" ELSE "joinWorkers"
  /\ botsTodo' = Threads
  /\ UNCHANGED <<quitWithoutWaiting, status, openVars, freed, toAnalyze, apiTodo,
                 apiRequest, apiThread, workerVars, bot, writeVars>>

(* One loop over the bots stops them, a second one kills them.                     *)
StopBots(t) ==
  /\ apiPc = "stopBots"
  /\ t \in botsTodo
  /\ StopBot(t)
  /\ apiPc' = IF botsTodo = {t} THEN "killBots" ELSE "stopBots"
  /\ botsTodo' = IF botsTodo = {t} THEN Threads ELSE botsTodo \ {t}
  /\ UNCHANGED <<quitWithoutWaiting, status, openVars, freed, queueVars, apiTodo,
                 apiRequest, apiThread, workerVars, writeVars>>

(* Mutant: the second loop stops the bots again instead of killing them.           *)
Mutant_KillBotsOnlyStops(t) ==
  /\ apiPc = "killBots"
  /\ t \in botsTodo
  /\ StopBot(t)
  /\ apiPc' = IF botsTodo = {t} THEN "joinWorkers" ELSE "killBots"
  /\ botsTodo' = botsTodo \ {t}
  /\ UNCHANGED <<quitWithoutWaiting, status, openVars, freed, queueVars, apiTodo,
                 apiRequest, apiThread, workerVars, writeVars>>

KillBots(t) ==
  /\ apiPc = "killBots"
  /\ t \in botsTodo
  /\ bot' = [bot EXCEPT ![t].stop = TRUE, ![t].killed = TRUE]
  /\ apiPc' = IF botsTodo = {t} THEN "joinWorkers" ELSE "killBots"
  /\ botsTodo' = botsTodo \ {t}
  /\ UNCHANGED <<quitWithoutWaiting, status, openVars, freed, queueVars, apiTodo,
                 apiRequest, apiThread, workerVars, writeVars>>

(* The threads are joined; the write thread is told to end if it was not before.    *)
JoinWorkers ==
  /\ apiPc = "joinWorkers"
  /\ \A t \in Threads : workerPc[t] = "ended"
  /\ writeReadOnly' = TRUE
  /\ apiPc' = "joinWriter"
  /\ UNCHANGED <<quitWithoutWaiting, status, openVars, freed, queueVars, apiLocals,
                 workerVars, bot, toWrite, output>>

(* The write thread ends when its queue is read-only and empty; then exit.          *)
JoinWriter ==
  /\ apiPc = "joinWriter"
  /\ writeReadOnly /\ toWrite = <<>>
  /\ apiPc' = "exited"
  /\ UNCHANGED <<quitWithoutWaiting, status, openVars, freed, queueVars, apiLocals,
                 workerVars, bot, writeVars>>

-------------------------------------------------------------------------------
(* The analysis threads: analysisLoop.                                            *)

(* ThreadSafePriorityQueue: the highest priority first, then the earliest arrival. *)
IsNext(i) ==
  /\ \A j \in DOMAIN toAnalyze : Priority[toAnalyze[j]] <= Priority[toAnalyze[i]]
  /\ \A j \in 1..(i - 1) : Priority[toAnalyze[j]] < Priority[toAnalyze[i]]

PopRequest(t) ==
  /\ workerPc[t] = "pop"
  /\ \E i \in DOMAIN toAnalyze :
       /\ IsNext(i)
       /\ working' = [working EXCEPT ![t] = toAnalyze[i]]
       /\ toAnalyze' = SubSeq(toAnalyze, 1, i - 1)
                         \o SubSeq(toAnalyze, i + 1, Len(toAnalyze))
  /\ workerPc' = [workerPc EXCEPT ![t] = "claim"]
  /\ UNCHANGED <<quitWithoutWaiting, status, openVars, freed, analyzeReadOnly,
                 apiVars, bot, writeVars>>

PopFails(t) ==
  /\ workerPc[t] = "pop"
  /\ toAnalyze = <<>> /\ analyzeReadOnly
  /\ workerPc' = [workerPc EXCEPT ![t] = "ended"]
  /\ UNCHANGED <<quitWithoutWaiting, status, openVars, freed, queueVars, apiVars,
                 working, bot, writeVars>>

(* Mutant: the claim is a plain store, not a compare-and-swap.                     *)
Mutant_ClaimStores(t) ==
  /\ workerPc[t] = "claim"
  /\ status' = [status EXCEPT ![working[t]] = Popped]
  /\ workerPc' = [workerPc EXCEPT ![t] = "genMove"]
  /\ UNCHANGED <<quitWithoutWaiting, openVars, freed, queueVars, apiVars, working,
                 bot, writeVars>>

(* The compare-and-swap from STATUS_IN_QUEUE; a request that is already terminated  *)
(* is only cleaned up.                                                              *)
ClaimRequest(t) ==
  /\ workerPc[t] = "claim"
  /\ \/ /\ status[working[t]] = InQueue
        /\ status' = [status EXCEPT ![working[t]] = Popped]
        /\ workerPc' = [workerPc EXCEPT ![t] = "genMove"]
     \/ /\ status[working[t]] # InQueue
        /\ workerPc' = [workerPc EXCEPT ![t] = "clear"]
        /\ UNCHANGED status
  /\ UNCHANGED <<quitWithoutWaiting, openVars, freed, queueVars, apiVars, working,
                 bot, writeVars>>

(* Mutant: a killed bot accepts a search.                                          *)
Mutant_GenMoveThoughKilled(t) ==
  /\ workerPc[t] = "genMove"
  /\ bot' = [bot EXCEPT ![t].phase = "queued", ![t].stop = FALSE,
                        ![t].results = FALSE, ![t].reports = 0]
  /\ workerPc' = [workerPc EXCEPT ![t] = "search"]
  /\ UNCHANGED <<quitWithoutWaiting, status, openVars, freed, queueVars, apiVars,
                 working, writeVars>>

(* Set the bot up, which clears its tree, and genMoveSynchronous(Analyze): the bot  *)
(* accepts the search, unless it is killed.                                         *)
GenMove(t) ==
  /\ workerPc[t] = "genMove"
  /\ bot' = [bot EXCEPT ![t] =
       IF @.killed
         THEN [@ EXCEPT !.stop = TRUE, !.results = FALSE]
         ELSE [@ EXCEPT !.phase = "queued", !.stop = FALSE, !.results = FALSE,
                        !.reports = 0]]
  /\ workerPc' = [workerPc EXCEPT ![t] = "search"]
  /\ UNCHANGED <<quitWithoutWaiting, status, openVars, freed, queueVars, apiVars,
                 working, writeVars>>

(* genMoveSynchronous returns; the final report, if the search has any results.     *)
ReportAnalysis(t) ==
  /\ workerPc[t] = "search"
  /\ bot[t].phase = "idle"
  /\ IF bot[t].results
       THEN /\ PushToWrite(working[t], "final")
            /\ workerPc' = [workerPc EXCEPT ![t] = "clear"]
       ELSE /\ workerPc' = [workerPc EXCEPT ![t] = "dummy"]
            /\ UNCHANGED toWrite
  /\ UNCHANGED <<quitWithoutWaiting, status, openVars, freed, queueVars, apiVars,
                 working, bot, writeReadOnly, output>>

(* A search without results was terminated before its first playout, or the engine  *)
(* is shutting down.                                                                *)
ReportNoAnalysis(t) ==
  /\ workerPc[t] = "dummy"
  /\ IF status[working[t]] = Terminated
       THEN PushToWrite(working[t], "noResults")
       ELSE UNCHANGED toWrite
  /\ workerPc' = [workerPc EXCEPT ![t] = "clear"]
  /\ UNCHANGED <<quitWithoutWaiting, status, openVars, freed, queueVars, apiVars,
                 working, bot, writeReadOnly, output>>

(* clearSearch stops the idle bot and drops its tree.                               *)
ClearSearch(t) ==
  /\ workerPc[t] = "clear"
  /\ bot' = [bot EXCEPT ![t].stop = TRUE, ![t].results = FALSE]
  /\ workerPc' = [workerPc EXCEPT ![t] = "erase"]
  /\ UNCHANGED <<quitWithoutWaiting, status, openVars, freed, queueVars, apiVars,
                 working, writeVars>>

(* Mutant: the request is deleted without taking openRequestsMutex.                *)
Mutant_EraseUnlocked(t) ==
  /\ workerPc[t] = "erase"
  /\ openRequests' = openRequests \ {working[t]}
  /\ freed' = freed \cup {working[t]}
  /\ working' = [working EXCEPT ![t] = Nothing]
  /\ workerPc' = [workerPc EXCEPT ![t] = "pop"]
  /\ UNCHANGED <<quitWithoutWaiting, status, openMutex, queueVars, apiVars, bot,
                 writeVars>>

(* Under openRequestsMutex the request stops being open; then it is deleted.        *)
EraseRequest(t) ==
  /\ workerPc[t] = "erase"
  /\ ~openMutex
  /\ openRequests' = openRequests \ {working[t]}
  /\ freed' = freed \cup {working[t]}
  /\ working' = [working EXCEPT ![t] = Nothing]
  /\ workerPc' = [workerPc EXCEPT ![t] = "pop"]
  /\ UNCHANGED <<quitWithoutWaiting, status, openMutex, queueVars, apiVars, bot,
                 writeVars>>

-------------------------------------------------------------------------------
(* The bots.                                                                      *)

BotStarts(t) ==
  /\ bot[t].phase = "queued"
  /\ ~bot[t].killed
  /\ bot' = [bot EXCEPT ![t].phase = "starting"]
  /\ UNCHANGED <<quitWithoutWaiting, status, openVars, freed, queueVars, apiVars,
                 workerVars, writeVars>>

(* Mutant: a terminate that came before the search began goes unnoticed.           *)
Mutant_BegunUnchecked(t) ==
  /\ bot[t].phase = "starting"
  /\ bot' = [bot EXCEPT ![t].phase = "searching"]
  /\ status' = IF status[working[t]] = Popped
                 THEN [status EXCEPT ![working[t]] = t] ELSE status
  /\ UNCHANGED <<quitWithoutWaiting, openVars, freed, queueVars, apiVars, workerVars,
                 writeVars>>

(* onSearchBegun: the second compare-and-swap publishes the thread index, so that a  *)
(* terminate can find the bot; one that came before stops the search from here.      *)
OnSearchBegun(t) ==
  /\ bot[t].phase = "starting"
  /\ LET r == working[t]
     IN  IF status[r] = Popped
           THEN /\ status' = [status EXCEPT ![r] = t]
                /\ bot' = [bot EXCEPT ![t].phase = "searching"]
           ELSE /\ bot' = [bot EXCEPT ![t].phase = "searching", ![t].stop = TRUE]
                /\ UNCHANGED status
  /\ UNCHANGED <<quitWithoutWaiting, openVars, freed, queueVars, apiVars, workerVars,
                 writeVars>>

(* The first playout; one that is under way when the search is stopped may finish.   *)
FirstPlayout(t) ==
  /\ bot[t].phase = "searching"
  /\ ~bot[t].results
  /\ bot' = [bot EXCEPT ![t].results = TRUE]
  /\ UNCHANGED <<quitWithoutWaiting, status, openVars, freed, queueVars, apiVars,
                 workerVars, writeVars>>

(* The periodic callback of a request that reports during its search.                *)
ReportDuringSearch(t) ==
  /\ bot[t].phase = "searching"
  /\ bot[t].results
  /\ working[t] \in Reporting
  /\ bot[t].reports < MaxDuring
  /\ PushToWrite(working[t], "during")
  /\ bot' = [bot EXCEPT ![t].reports = @ + 1]
  /\ UNCHANGED <<quitWithoutWaiting, status, openVars, freed, queueVars, apiVars,
                 workerVars, writeReadOnly, output>>

(* The search has made all the visits its parameters allow.                          *)
SearchReachesLimit(t) ==
  /\ bot[t].phase = "searching"
  /\ bot[t].results
  /\ ~bot[t].stop
  /\ StopBot(t)
  /\ UNCHANGED <<quitWithoutWaiting, status, openVars, freed, queueVars, apiVars,
                 workerVars, writeVars>>

SearchEnds(t) ==
  /\ bot[t].phase = "searching"
  /\ bot[t].stop
  /\ bot' = [bot EXCEPT ![t].phase = "idle"]
  /\ UNCHANGED <<quitWithoutWaiting, status, openVars, freed, queueVars, apiVars,
                 workerVars, writeVars>>

(* Killed before the search started.                                                 *)
SearchDropped(t) ==
  /\ bot[t].phase = "queued"
  /\ bot[t].killed
  /\ bot' = [bot EXCEPT ![t].phase = "idle"]
  /\ UNCHANGED <<quitWithoutWaiting, status, openVars, freed, queueVars, apiVars,
                 workerVars, writeVars>>

-------------------------------------------------------------------------------
(* The write thread: writeLoop.                                                   *)
WriteResponse ==
  /\ toWrite # <<>>
  /\ output' = [output EXCEPT ![Head(toWrite)[1]] = Append(@, Head(toWrite)[2])]
  /\ toWrite' = Tail(toWrite)
  /\ UNCHANGED <<quitWithoutWaiting, status, openVars, freed, queueVars, apiVars,
                 workerVars, bot, writeReadOnly>>

-------------------------------------------------------------------------------
(* Input arrives as its sender likes.                                             *)
Input ==
  \/ \E S \in SUBSET Requests : ReadQuery(S) \/ ReadTerminate(S)
  \/ ReadEof

ApiContinues ==
  \/ \E r \in Requests : PushRequest(r) \/ TerminateRequest(r)
  \/ ReportNoAnalysisFromApi
  \/ StopTerminated
  \/ TerminateDone
  \/ HaltWriting
  \/ HaltAnalyzing
  \/ \E t \in Threads : StopBots(t) \/ KillBots(t)
  \/ JoinWorkers
  \/ JoinWriter

Worker(t) ==
  \/ PopRequest(t)
  \/ PopFails(t)
  \/ ClaimRequest(t)
  \/ GenMove(t)
  \/ ReportAnalysis(t)
  \/ ReportNoAnalysis(t)
  \/ ClearSearch(t)
  \/ EraseRequest(t)

BotProgresses(t) ==
  \/ BotStarts(t)
  \/ OnSearchBegun(t)
  \/ FirstPlayout(t)
  \/ SearchEnds(t)
  \/ SearchDropped(t)

Exited == apiPc = "exited" /\ UNCHANGED vars

Next ==
  \/ Input
  \/ ApiContinues
  \/ \E t \in Threads :
       Worker(t) \/ BotProgresses(t) \/ ReportDuringSearch(t) \/ SearchReachesLimit(t)
  \/ WriteResponse
  \/ Exited

Spec == Init /\ [][Next]_vars

(* Threads run, the mutex is not withheld for ever from a thread that wants it,    *)
(* and a search that is told to stop stops.  Nothing makes input arrive, a search   *)
(* reach its limit, or a report come due.                                           *)
Fairness ==
  /\ WF_vars(ApiContinues)
  /\ \A t \in Threads :
       /\ WF_vars(Worker(t))
       /\ SF_vars(EraseRequest(t))
       /\ WF_vars(BotProgresses(t))
  /\ WF_vars(WriteResponse)

FairSpec == Spec /\ Fairness

-------------------------------------------------------------------------------
(* A final response was printed.                                                  *)
Printed(r) == \E i \in DOMAIN output[r] : output[r][i] \in Finals

(* quitWithoutWaiting gives up the output that is not queued yet.                  *)
OutputGivenUp == quitWithoutWaiting /\ writeReadOnly

(* However a terminate races with the claim, the start and the end of the search,   *)
(* no request gets two final responses, and no report from during the search        *)
(* follows the final one.                                                           *)
FinalIsLast ==
  /\ \A r \in Requests, i \in DOMAIN toWrite : toWrite[i][1] = r => ~Printed(r)
  /\ \A i, j \in DOMAIN toWrite :
       i < j /\ toWrite[i][1] = toWrite[j][1] => toWrite[i][2] \notin Finals
  /\ \A r \in Requests : \A i \in DOMAIN output[r] :
       output[r][i] \in Finals => i = Len(output[r])

(* A deleted request is reachable from no map, queue, thread or bot callback.        *)
NoUseAfterFree ==
  /\ freed \cap (openRequests \cup apiTodo \cup {apiRequest}) = {}
  /\ \A i \in DOMAIN toAnalyze : toAnalyze[i] \notin freed
  /\ \A t \in Threads : working[t] \notin freed

(* A terminate stops the bot it found in the status only while that bot still works  *)
(* on the same request: it never cuts the search of the next request short.           *)
StopsItsOwnSearch ==
  apiPc = "stopBot" => working[apiThread] = apiRequest

(* A terminated request is answered, even if no search ever reaches a limit; if       *)
(* searches do reach their limits, every request is answered.                         *)
RequestsAreAnswered ==
  /\ \A r \in Requests : status[r] = Terminated ~> Printed(r) \/ OutputGivenUp
  /\ (\A t \in Threads : WF_vars(SearchReachesLimit(t))) =>
       \A r \in Requests : status[r] # Nothing ~> Printed(r) \/ OutputGivenUp

(* Quitting without waiting ends the program although searches may have no limit and   *)
(* requests are still queued: a stop alone could be lost to the next search, a kill    *)
(* cannot.                                                                             *)
QuitExits == apiPc = "haltWriting" ~> apiPc = "exited"

(* The engine keeps to the service that AsyncBot provides.                             *)
Bot(t) == INSTANCE SearchService WITH
  MaxSearchId <- 0,
  phase   <- IF bot[t].phase = "starting" THEN "searching" ELSE bot[t].phase,
  stop    <- bot[t].stop,
  killed  <- bot[t].killed,
  owed    <- 0,
  answers <- <<>>

BotsFollowService ==
  /\ \A t \in Threads : Bot(t)!Init
  /\ [][\A t \in Threads : [Bot(t)!Next]_(Bot(t)!service)]_vars
===============================================================================
