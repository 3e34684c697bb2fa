------------------------- MODULE AnalysisEngine_proofs -------------------------
(* Proofs about AnalysisEngine, for any number of threads and requests: its type   *)
(* invariant, that no request is used after it is deleted, that a terminate stops   *)
(* only the search it is meant for, that a final response is the last one, and that  *)
(* the bots keep to SearchService; then about the queue that the threads share.       *)
EXTENDS AnalysisEngine, ThreadSafeQueue, SequenceTheorems, TLAPS

(* The api thread holds openRequestsMutex.                                         *)
Terminating == {"terminating", "reportNone", "stopBot"}

(* The requests that are allocated.                                                 *)
Live == {r \in Requests : status[r] # Nothing} \ freed

(* A thread has a request except between two of them, no other thread has the same,  *)
(* and its bot is busy only while the thread waits for it.                            *)
WorkerInv ==
  /\ \A t \in Threads : working[t] = Nothing <=> workerPc[t] \in {"pop", "ended"}
  /\ \A t, u \in Threads : working[t] = working[u] /\ t # u => working[t] = Nothing
  /\ \A t \in Threads : bot[t].phase # "idle" => workerPc[t] = "search"

(* A request is in one place: to be pushed, in the queue, or with a thread.            *)
QueueInv ==
  /\ \A i, j \in 1..Len(toAnalyze) : toAnalyze[i] = toAnalyze[j] => i = j
  /\ \A i \in 1..Len(toAnalyze) : \A t \in Threads : toAnalyze[i] # working[t]
  /\ apiPc = "pushing" =>
       \A r \in apiTodo : /\ \A i \in 1..Len(toAnalyze) : toAnalyze[i] # r
                          /\ \A t \in Threads : working[t] # r

(* Whatever refers to a request refers to one that is allocated.                       *)
LiveInv ==
  /\ \A i \in 1..Len(toAnalyze) : toAnalyze[i] \in Live
  /\ \A t \in Threads : working[t] # Nothing => working[t] \in Live
  /\ openRequests \subseteq Live
  /\ apiTodo \subseteq Live
  /\ \A r \in freed : status[r] # Nothing

(* With the mutex, the api thread works on open requests only, and the thread whose     *)
(* index it has read stays on the request it was read from.                             *)
ApiInv ==
  /\ openMutex <=> apiPc \in Terminating
  /\ apiPc \in Terminating => apiTodo \subseteq openRequests
  /\ apiPc \notin Terminating \cup {"pushing"} => apiTodo = {}
  /\ IF apiPc \in {"reportNone", "stopBot"} THEN apiRequest \in openRequests
                                            ELSE apiRequest = Nothing
  /\ apiPc = "stopBot" => apiThread \in Threads /\ working[apiThread] = apiRequest

(* A status that is a thread index names the thread that has the request.               *)
StatusInv ==
  \A r \in Live : status[r] \in Threads => working[status[r]] = r

Inv ==
  /\ TypeOK
  /\ WorkerInv
  /\ QueueInv
  /\ LiveInv
  /\ ApiInv
  /\ StatusInv

-------------------------------------------------------------------------------
(* What a pop leaves in the queue: the others, in their order.                           *)
LEMMA RemoveProperties ==
  ASSUME NEW S, NEW s \in Seq(S), NEW i \in 1..Len(s), NEW rest,
         rest = SubSeq(s, 1, i - 1) \o SubSeq(s, i + 1, Len(s))
  PROVE  /\ rest \in Seq(S)
         /\ Len(rest) = Len(s) - 1
         /\ \A j \in 1..Len(rest) : rest[j] = IF j < i THEN s[j] ELSE s[j + 1]
<1> DEFINE front == SubSeq(s, 1, i - 1)
           back  == SubSeq(s, i + 1, Len(s))
<1>0. rest = front \o back
  OBVIOUS
<1>1. Len(s) \in Nat /\ i \in Nat /\ \A j \in 1..Len(s) : s[j] \in S
  BY ElementOfSeq
<1>2. /\ front \in Seq(S) /\ Len(front) = i - 1
      /\ \A j \in 1..(i - 1) : front[j] = s[j]
  <2>1. \A j \in 1..(i - 1) : s[j] \in S
    BY <1>1
  <2> QED
    BY <1>1, <2>1, SubSeqProperties
<1>3. /\ back \in Seq(S) /\ Len(back) = Len(s) - i
      /\ \A j \in 1..(Len(s) - i) : back[j] = s[i + j]
  <2>1. \A j \in i + 1 .. Len(s) : s[j] \in S
    BY <1>1
  <2> QED
    BY <1>1, <2>1, SubSeqProperties
<1> HIDE DEF front, back
<1>4. /\ rest \in Seq(S) /\ Len(rest) = Len(s) - 1
      /\ \A j \in 1 .. Len(s) - 1 :
           rest[j] = IF j <= i - 1 THEN front[j] ELSE back[j - (i - 1)]
  <2> DEFINE whole == front \o back
  <2>1. /\ whole \in Seq(S) /\ Len(whole) = Len(front) + Len(back)
        /\ \A j \in 1 .. Len(front) + Len(back) :
             whole[j] = IF j <= Len(front) THEN front[j] ELSE back[j - Len(front)]
    BY <1>2, <1>3, ConcatProperties
  <2>2. Len(front) + Len(back) = Len(s) - 1
    BY <1>1, <1>2, <1>3
  <2> HIDE DEF whole
  <2>3. /\ whole \in Seq(S) /\ Len(whole) = Len(s) - 1
        /\ \A j \in 1 .. Len(s) - 1 :
             whole[j] = IF j <= i - 1 THEN front[j] ELSE back[j - (i - 1)]
    BY <1>2, <2>1, <2>2
  <2> QED
    BY <1>0, <2>3 DEF whole
<1>5. \A j \in 1..Len(rest) : rest[j] = IF j < i THEN s[j] ELSE s[j + 1]
  <2> TAKE j \in 1..Len(rest)
  <2>0. j \in 1 .. Len(s) - 1
    BY <1>4
  <2>1. CASE j < i
    <3>1. j <= i - 1 /\ j \in 1..(i - 1)
      BY <1>1, <2>0, <2>1
    <3>2. rest[j] = front[j]
      BY <1>4, <2>0, <3>1
    <3> QED
      BY <1>2, <2>1, <3>1, <3>2
  <2>2. CASE ~(j < i)
    <3>1. j - (i - 1) \in 1..(Len(s) - i) /\ ~(j <= i - 1) /\ i + (j - (i - 1)) = j + 1
      BY <1>1, <2>0, <2>2
    <3>2. rest[j] = back[j - (i - 1)]
      BY <1>4, <2>0, <3>1
    <3>3. back[j - (i - 1)] = s[i + (j - (i - 1))]
      BY <1>3, <3>1
    <3> QED
      BY <2>2, <3>1, <3>2, <3>3
  <2> QED
    BY <2>1, <2>2
<1> QED
  BY <1>1, <1>2, <1>3, <1>4, <1>5

(* The element a pop takes, and the queue it leaves.                                      *)
LEMMA PopProperties ==
  ASSUME Inv, NEW t \in Threads, PopRequest(t)
  PROVE  \E i \in 1..Len(toAnalyze) :
           /\ working' = [working EXCEPT ![t] = toAnalyze[i]]
           /\ toAnalyze[i] \in Requests
           /\ toAnalyze' \in Seq(Requests)
           /\ Len(toAnalyze) \in Nat
           /\ Len(toAnalyze') = Len(toAnalyze) - 1
           /\ \A j \in 1..Len(toAnalyze') :
                toAnalyze'[j] = IF j < i THEN toAnalyze[j] ELSE toAnalyze[j + 1]
<1> toAnalyze \in Seq(Requests)
  BY DEF Inv, TypeOK
<1> DOMAIN toAnalyze = 1..Len(toAnalyze) /\ Len(toAnalyze) \in Nat
  BY LenProperties
<1>1. PICK i \in 1..Len(toAnalyze) :
        /\ working' = [working EXCEPT ![t] = toAnalyze[i]]
        /\ toAnalyze' = SubSeq(toAnalyze, 1, i - 1)
                          \o SubSeq(toAnalyze, i + 1, Len(toAnalyze))
  BY DEF PopRequest
<1>2. /\ toAnalyze' \in Seq(Requests)
      /\ Len(toAnalyze') = Len(toAnalyze) - 1
      /\ \A j \in 1..Len(toAnalyze') :
           toAnalyze'[j] = IF j < i THEN toAnalyze[j] ELSE toAnalyze[j + 1]
  <2> DEFINE rest == toAnalyze'
  <2>1. rest = SubSeq(toAnalyze, 1, i - 1) \o SubSeq(toAnalyze, i + 1, Len(toAnalyze))
    BY <1>1
  <2> HIDE DEF rest
  <2>2. /\ rest \in Seq(Requests)
        /\ Len(rest) = Len(toAnalyze) - 1
        /\ \A j \in 1..Len(rest) :
             rest[j] = IF j < i THEN toAnalyze[j] ELSE toAnalyze[j + 1]
    BY ONLY toAnalyze \in Seq(Requests), i \in 1..Len(toAnalyze), <2>1, RemoveProperties, ZenonT(60)
  <2> QED
    BY <2>2 DEF rest
<1>3. toAnalyze[i] \in Requests
  BY ElementOfSeq
<1> QED
  BY <1>1, <1>2, <1>3

-------------------------------------------------------------------------------
(* The invariant holds in the beginning.                                              *)
LEMMA InitInv == Init => Inv
<1> SUFFICES ASSUME Init PROVE Inv
  OBVIOUS
<1> USE ConstantsAssumption DEF Init, ConstantsAssumption
<1>1. TypeOK
  <2>1. <<>> \in Seq(Requests) /\ <<>> \in Seq(Requests \X Kinds) /\ <<>> \in Seq(Kinds)
    BY EmptySeq
  <2>2. bot \in [Threads -> Bots]
    BY DEF Bots
  <2>3. /\ status \in [Requests -> Statuses \cup {Nothing}]
        /\ working \in [Threads -> Requests \cup {Nothing}]
        /\ workerPc \in [Threads -> WorkerPcs]
        /\ output \in [Requests -> Seq(Kinds)]
    BY <2>1 DEF WorkerPcs
  <2> QED
    BY <2>1, <2>2, <2>3 DEF TypeOK, ApiPcs
<1>2. WorkerInv /\ QueueInv /\ LiveInv /\ ApiInv /\ StatusInv
  BY DEF WorkerInv, QueueInv, LiveInv, ApiInv, StatusInv, Live, Terminating
<1> QED
  BY <1>1, <1>2 DEF Inv

-------------------------------------------------------------------------------
(* Every step keeps every variable in its type.                                            *)
LEMMA PushToWriteType ==
  ASSUME TypeOK, NEW r \in Requests, NEW kind \in Kinds, PushToWrite(r, kind)
  PROVE  toWrite' \in Seq(Requests \X Kinds)
<1>1. <<r, kind>> \in Requests \X Kinds
  OBVIOUS
<1> QED
  BY <1>1, AppendProperties DEF PushToWrite, TypeOK

(* What the steps make of a bot is a bot, and a bot is replaced by a bot.                     *)
LEMMA BotEdits ==
  ASSUME NEW b \in Bots
  PROVE  /\ [b EXCEPT !.stop = TRUE, !.killed = TRUE] \in Bots
         /\ [b EXCEPT !.stop = TRUE, !.results = FALSE] \in Bots
         /\ [b EXCEPT !.phase = "queued", !.stop = FALSE, !.results = FALSE, !.reports = 0] \in Bots
         /\ [b EXCEPT !.phase = "starting"] \in Bots
         /\ [b EXCEPT !.phase = "searching"] \in Bots
         /\ [b EXCEPT !.phase = "searching", !.stop = TRUE] \in Bots
         /\ [b EXCEPT !.phase = "idle"] \in Bots
         /\ [b EXCEPT !.results = TRUE] \in Bots
         /\ b.reports < MaxDuring => [b EXCEPT !.reports = @ + 1] \in Bots
<1>1. 0 \in 0..MaxDuring
  BY ConstantsAssumption DEF ConstantsAssumption
<1>2. [b EXCEPT !.phase = "queued", !.stop = FALSE, !.results = FALSE, !.reports = 0] \in Bots
  BY <1>1 DEF Bots
<1>3. b.reports < MaxDuring => [b EXCEPT !.reports = @ + 1] \in Bots
  BY ConstantsAssumption DEF ConstantsAssumption, Bots
<1>4. /\ [b EXCEPT !.stop = TRUE, !.killed = TRUE] \in Bots
      /\ [b EXCEPT !.stop = TRUE, !.results = FALSE] \in Bots
      /\ [b EXCEPT !.phase = "starting"] \in Bots
      /\ [b EXCEPT !.phase = "searching"] \in Bots
      /\ [b EXCEPT !.phase = "searching", !.stop = TRUE] \in Bots
      /\ [b EXCEPT !.phase = "idle"] \in Bots
      /\ [b EXCEPT !.results = TRUE] \in Bots
  BY DEF Bots
<1> QED
  BY <1>2, <1>3, <1>4

(* A bot is replaced by a bot.                                                        *)
LEMMA BotType ==
  ASSUME TypeOK, NEW t \in Threads, NEW b \in Bots, bot' = [bot EXCEPT ![t] = b]
  PROVE  bot' \in [Threads -> Bots]
BY DEF TypeOK

(* Stopping a bot leaves its phase.                                                   *)
LEMMA StopBotType ==
  ASSUME TypeOK, NEW t \in Threads, StopBot(t)
  PROVE  /\ bot' \in [Threads -> Bots]
         /\ \A u \in Threads : bot'[u].phase = bot[u].phase
BY DEF StopBot, TypeOK, Bots

(* Every step keeps the types.                                                        *)
LEMMA NextTypeOK == Inv /\ [Next]_vars => TypeOK'
<1> SUFFICES ASSUME Inv, [Next]_vars PROVE TypeOK'
  OBVIOUS
<1> TypeOK
  BY DEF Inv
<1> USE ConstantsAssumption
    DEF ConstantsAssumption, openVars, queueVars, apiVars, apiLocals, workerVars, writeVars
<1>1. ASSUME NEW S \in SUBSET Requests, ReadQuery(S) PROVE TypeOK'
  BY <1>1 DEF ReadQuery, TypeOK, ApiPcs, Statuses
<1>2. ASSUME NEW S \in SUBSET Requests, ReadTerminate(S) PROVE TypeOK'
  BY <1>2 DEF ReadTerminate, TypeOK, ApiPcs
<1>3. CASE ReadEof \/ HaltWriting \/ HaltAnalyzing \/ JoinWorkers \/ JoinWriter \/ TerminateDone
  BY <1>3 DEF ReadEof, HaltWriting, HaltAnalyzing, JoinWorkers, JoinWriter, TerminateDone, TypeOK,
              ApiPcs
<1>4. ASSUME NEW r \in Requests, PushRequest(r) PROVE TypeOK'
  <2>1. toAnalyze' \in Seq(Requests)
    BY <1>4, AppendProperties DEF PushRequest, TypeOK
  <2> QED
    BY <1>4, <2>1 DEF PushRequest, TypeOK, ApiPcs
<1>5. ASSUME NEW r \in Requests, TerminateRequest(r) PROVE TypeOK'
  BY <1>5 DEF TerminateRequest, TypeOK, ApiPcs, Statuses
<1>6. CASE ReportNoAnalysisFromApi
  <2>1. apiRequest \in Requests
    BY <1>6 DEF ReportNoAnalysisFromApi, Inv, ApiInv, TypeOK
  <2>2. toWrite' \in Seq(Requests \X Kinds)
    BY <1>6, <2>1, PushToWriteType DEF ReportNoAnalysisFromApi, Kinds, Finals
  <2> QED
    BY <1>6, <2>2 DEF ReportNoAnalysisFromApi, TypeOK, ApiPcs
<1>7. CASE StopTerminated
  <2>1. bot' \in [Threads -> Bots]
    BY <1>7, StopBotType DEF StopTerminated, Inv, ApiInv
  <2> QED
    BY <1>7, <2>1 DEF StopTerminated, TypeOK, ApiPcs
<1>8. ASSUME NEW t \in Threads, StopBots(t) PROVE TypeOK'
  BY <1>8, StopBotType DEF StopBots, TypeOK, ApiPcs
<1>9. ASSUME NEW t \in Threads, KillBots(t) PROVE TypeOK'
  <2>1. bot' \in [Threads -> Bots]
    <3> DEFINE b == [bot[t] EXCEPT !.stop = TRUE, !.killed = TRUE]
    <3>1. b \in Bots
      BY BotEdits DEF TypeOK
    <3>2. bot' = [bot EXCEPT ![t] = b]
      BY <1>9 DEF KillBots, TypeOK
    <3> QED
      BY <3>1, <3>2, BotType
  <2> QED
    BY <1>9, <2>1 DEF KillBots, TypeOK, ApiPcs
<1>10. ASSUME NEW t \in Threads, PopRequest(t) PROVE TypeOK'
  <2>1. toAnalyze' \in Seq(Requests) /\ working' \in [Threads -> Requests \cup {Nothing}]
    BY <1>10, PopProperties DEF TypeOK
  <2> QED
    BY <1>10, <2>1 DEF PopRequest, TypeOK, WorkerPcs
<1>11. ASSUME NEW t \in Threads, PopFails(t) \/ ClaimRequest(t) PROVE TypeOK'
  <2>1. ClaimRequest(t) => working[t] \in Requests
    BY DEF ClaimRequest, Inv, WorkerInv, TypeOK
  <2> QED
    BY <1>11, <2>1 DEF PopFails, ClaimRequest, TypeOK, WorkerPcs, Statuses
<1>12. ASSUME NEW t \in Threads, GenMove(t) PROVE TypeOK'
  <2>1. bot' \in [Threads -> Bots]
    <3>1. CASE bot[t].killed
      <4> DEFINE b == [bot[t] EXCEPT !.stop = TRUE, !.results = FALSE]
      <4>1. b \in Bots
        BY BotEdits DEF TypeOK
      <4>2. bot' = [bot EXCEPT ![t] = b]
        BY <1>12, <3>1 DEF GenMove, TypeOK
      <4> QED
        BY <4>1, <4>2, BotType
    <3>2. CASE ~bot[t].killed
      <4> DEFINE b == [bot[t] EXCEPT !.phase = "queued", !.stop = FALSE, !.results = FALSE, !.reports = 0]
      <4>1. b \in Bots
        BY BotEdits DEF TypeOK
      <4>2. bot' = [bot EXCEPT ![t] = b]
        BY <1>12, <3>2 DEF GenMove, TypeOK
      <4> QED
        BY <4>1, <4>2, BotType
    <3> QED
      BY <1>12, <3>1, <3>2 DEF GenMove
  <2> QED
    BY <1>12, <2>1 DEF GenMove, TypeOK, WorkerPcs
<1>13. ASSUME NEW t \in Threads, ReportAnalysis(t) \/ ReportNoAnalysis(t) PROVE TypeOK'
  <2>1. working[t] \in Requests
    BY <1>13 DEF ReportAnalysis, ReportNoAnalysis, Inv, WorkerInv, TypeOK
  <2>2. toWrite' \in Seq(Requests \X Kinds)
    BY <1>13, <2>1, PushToWriteType DEF ReportAnalysis, ReportNoAnalysis, TypeOK, Kinds, Finals
  <2> QED
    BY <1>13, <2>2 DEF ReportAnalysis, ReportNoAnalysis, TypeOK, WorkerPcs
<1>14. ASSUME NEW t \in Threads, ClearSearch(t) PROVE TypeOK'
  <2>1. bot' \in [Threads -> Bots]
    <3> DEFINE b == [bot[t] EXCEPT !.stop = TRUE, !.results = FALSE]
    <3>1. b \in Bots
      BY BotEdits DEF TypeOK
    <3>2. bot' = [bot EXCEPT ![t] = b]
      BY <1>14 DEF ClearSearch, TypeOK
    <3> QED
      BY <3>1, <3>2, BotType
  <2> QED
    BY <1>14, <2>1 DEF ClearSearch, TypeOK, WorkerPcs
<1>15. ASSUME NEW t \in Threads, EraseRequest(t) PROVE TypeOK'
  <2>1. working[t] \in Requests
    BY <1>15 DEF EraseRequest, Inv, WorkerInv, TypeOK
  <2> QED
    BY <1>15, <2>1 DEF EraseRequest, TypeOK, WorkerPcs
<1>16. ASSUME NEW t \in Threads,
              BotStarts(t) \/ FirstPlayout(t) \/ SearchEnds(t) \/ SearchDropped(t)
       PROVE  TypeOK'
  <2>1. bot' \in [Threads -> Bots]
    <3>1. CASE BotStarts(t)
      <4> DEFINE b == [bot[t] EXCEPT !.phase = "starting"]
      <4>1. b \in Bots
        BY BotEdits DEF TypeOK
      <4>2. bot' = [bot EXCEPT ![t] = b]
        BY <1>16, <3>1 DEF BotStarts, TypeOK
      <4> QED
        BY <4>1, <4>2, BotType
    <3>2. CASE FirstPlayout(t)
      <4> DEFINE b == [bot[t] EXCEPT !.results = TRUE]
      <4>1. b \in Bots
        BY BotEdits DEF TypeOK
      <4>2. bot' = [bot EXCEPT ![t] = b]
        BY <1>16, <3>2 DEF FirstPlayout, TypeOK
      <4> QED
        BY <4>1, <4>2, BotType
    <3>3. CASE SearchEnds(t)
      <4> DEFINE b == [bot[t] EXCEPT !.phase = "idle"]
      <4>1. b \in Bots
        BY BotEdits DEF TypeOK
      <4>2. bot' = [bot EXCEPT ![t] = b]
        BY <1>16, <3>3 DEF SearchEnds, TypeOK
      <4> QED
        BY <4>1, <4>2, BotType
    <3>4. CASE SearchDropped(t)
      <4> DEFINE b == [bot[t] EXCEPT !.phase = "idle"]
      <4>1. b \in Bots
        BY BotEdits DEF TypeOK
      <4>2. bot' = [bot EXCEPT ![t] = b]
        BY <1>16, <3>4 DEF SearchDropped, TypeOK
      <4> QED
        BY <4>1, <4>2, BotType
    <3> QED
      BY <1>16, <3>1, <3>2, <3>3, <3>4
  <2> QED
    BY <1>16, <2>1 DEF BotStarts, FirstPlayout, SearchEnds, SearchDropped, TypeOK
<1>17. ASSUME NEW t \in Threads, OnSearchBegun(t) PROVE TypeOK'
  <2>1. bot' \in [Threads -> Bots]
    <3>1. CASE status[working[t]] = Popped
      <4> DEFINE b == [bot[t] EXCEPT !.phase = "searching"]
      <4>1. b \in Bots
        BY BotEdits DEF TypeOK
      <4>2. bot' = [bot EXCEPT ![t] = b]
        BY <1>17, <3>1 DEF OnSearchBegun, TypeOK
      <4> QED
        BY <4>1, <4>2, BotType
    <3>2. CASE status[working[t]] # Popped
      <4> DEFINE b == [bot[t] EXCEPT !.phase = "searching", !.stop = TRUE]
      <4>1. b \in Bots
        BY BotEdits DEF TypeOK
      <4>2. bot' = [bot EXCEPT ![t] = b]
        BY <1>17, <3>2 DEF OnSearchBegun, TypeOK
      <4> QED
        BY <4>1, <4>2, BotType
    <3> QED
      BY <1>17, <3>1, <3>2 DEF OnSearchBegun
  <2>2. status' \in [Requests -> Statuses \cup {Nothing}]
    <3>1. working[t] \in Requests
      BY <1>17 DEF OnSearchBegun, Inv, WorkerInv, TypeOK
    <3>2. t \in Statuses
      BY DEF Statuses
    <3>3. status' = status \/ status' = [status EXCEPT ![working[t]] = t]
      BY <1>17 DEF OnSearchBegun
    <3>4. ASSUME status' = [status EXCEPT ![working[t]] = t]
          PROVE  status' \in [Requests -> Statuses \cup {Nothing}]
      <4> status \in [Requests -> Statuses \cup {Nothing}] /\ t \in Statuses \cup {Nothing}
        BY <3>2 DEF TypeOK
      <4> QED
        BY <3>1, <3>4
    <3> QED
      BY <3>3, <3>4 DEF TypeOK
  <2> QED
    BY <1>17, <2>1, <2>2 DEF OnSearchBegun, TypeOK
<1>18. ASSUME NEW t \in Threads, ReportDuringSearch(t) PROVE TypeOK'
  <2>1. working[t] \in Requests
    BY <1>18 DEF ReportDuringSearch
  <2>2. toWrite' \in Seq(Requests \X Kinds)
    BY <1>18, <2>1, PushToWriteType DEF ReportDuringSearch, Kinds
  <2>3. bot' \in [Threads -> Bots]
    <3> DEFINE b == [bot[t] EXCEPT !.reports = @ + 1]
    <3>1. b \in Bots
      BY <1>18, BotEdits DEF ReportDuringSearch, TypeOK
    <3>2. bot' = [bot EXCEPT ![t] = b]
      BY <1>18 DEF ReportDuringSearch, TypeOK
    <3> QED
      BY <3>1, <3>2, BotType
  <2> QED
    BY <1>18, <2>2, <2>3 DEF ReportDuringSearch, TypeOK
<1>19. ASSUME NEW t \in Threads, SearchReachesLimit(t) PROVE TypeOK'
  BY <1>19, StopBotType DEF SearchReachesLimit, TypeOK
<1>20. CASE WriteResponse
  <2>1. Head(toWrite) \in Requests \X Kinds /\ Tail(toWrite) \in Seq(Requests \X Kinds)
    BY <1>20, HeadTailProperties DEF WriteResponse, TypeOK
  <2>2. Head(toWrite)[1] \in Requests /\ Head(toWrite)[2] \in Kinds
    BY <2>1
  <2>3. output' \in [Requests -> Seq(Kinds)]
    BY <1>20, <2>2, AppendProperties DEF WriteResponse, TypeOK
  <2> QED
    BY <1>20, <2>1, <2>3 DEF WriteResponse, TypeOK
<1>21. CASE Exited \/ UNCHANGED vars
  BY <1>21 DEF Exited, vars, TypeOK
<1> QED
  BY <1>1, <1>2, <1>3, <1>4, <1>5, <1>6, <1>7, <1>8, <1>9, <1>10, <1>11, <1>12, <1>13, <1>14,
     <1>15, <1>16, <1>17, <1>18, <1>19, <1>20, <1>21
  DEF Next, Input, ApiContinues, Worker, BotProgresses

-------------------------------------------------------------------------------
(* Every step keeps the threads to their requests.                                          *)
LEMMA NextWorkerInv == Inv /\ [Next]_vars => WorkerInv'
<1> SUFFICES ASSUME Inv, [Next]_vars PROVE WorkerInv'
  OBVIOUS
<1> TypeOK /\ WorkerInv
  BY DEF Inv
<1> USE ConstantsAssumption DEF ConstantsAssumption, workerVars
<1>1. ASSUME UNCHANGED workerVars, \A t \in Threads : bot'[t].phase = bot[t].phase
      PROVE  WorkerInv'
  BY <1>1 DEF WorkerInv
<1>2. CASE \/ \E S \in SUBSET Requests : ReadQuery(S) \/ ReadTerminate(S)
           \/ ReadEof \/ HaltWriting \/ HaltAnalyzing \/ JoinWorkers \/ JoinWriter
           \/ TerminateDone \/ ReportNoAnalysisFromApi \/ WriteResponse
           \/ \E r \in Requests : PushRequest(r) \/ TerminateRequest(r)
  BY <1>1, <1>2
  DEF ReadQuery, ReadTerminate, ReadEof, HaltWriting, HaltAnalyzing, JoinWorkers, JoinWriter,
      TerminateDone, ReportNoAnalysisFromApi, WriteResponse, PushRequest, TerminateRequest
<1>3. CASE Exited \/ UNCHANGED vars
  BY <1>1, <1>3 DEF Exited, vars
<1>4. CASE StopTerminated
  BY <1>1, <1>4, StopBotType DEF StopTerminated, Inv, ApiInv
<1>5. ASSUME NEW t \in Threads, StopBots(t) \/ SearchReachesLimit(t) PROVE WorkerInv'
  BY <1>1, <1>5, StopBotType DEF StopBots, SearchReachesLimit
<1>6. ASSUME NEW t \in Threads, KillBots(t) \/ FirstPlayout(t) \/ ReportDuringSearch(t)
      PROVE  WorkerInv'
  <2>1. \A u \in Threads : bot'[u].phase = bot[u].phase
    <3>1. KillBots(t) => \A u \in Threads : bot'[u].phase = bot[u].phase
      BY DEF KillBots, TypeOK, Bots
    <3>2. FirstPlayout(t) => \A u \in Threads : bot'[u].phase = bot[u].phase
      BY DEF FirstPlayout, TypeOK, Bots
    <3>3. ReportDuringSearch(t) => \A u \in Threads : bot'[u].phase = bot[u].phase
      BY DEF ReportDuringSearch, TypeOK, Bots
    <3> QED
      BY <1>6, <3>1, <3>2, <3>3
  <2> QED
    BY <1>1, <1>6, <2>1 DEF KillBots, FirstPlayout, ReportDuringSearch
<1>7. ASSUME NEW t \in Threads, PopRequest(t) PROVE WorkerInv'
  <2>1. PICK i \in 1..Len(toAnalyze) :
          working' = [working EXCEPT ![t] = toAnalyze[i]] /\ toAnalyze[i] \in Requests
    BY <1>7, PopProperties
  <2>2. \A u \in Threads : toAnalyze[i] # working[u]
    BY DEF Inv, QueueInv
  <2>3. \A u \in Threads : working'[u] = Nothing <=> workerPc'[u] \in {"pop", "ended"}
    BY <1>7, <2>1 DEF PopRequest, WorkerInv, TypeOK
  <2>4. \A u, v \in Threads : working'[u] = working'[v] /\ u # v => working'[u] = Nothing
    BY <2>1, <2>2 DEF WorkerInv, TypeOK
  <2>5. \A u \in Threads : bot'[u].phase # "idle" => workerPc'[u] = "search"
    BY <1>7 DEF PopRequest, WorkerInv, TypeOK
  <2> QED
    BY <2>3, <2>4, <2>5 DEF WorkerInv
<1>8. ASSUME NEW t \in Threads,
             \/ PopFails(t) \/ ClaimRequest(t)
             \/ ReportAnalysis(t) \/ ReportNoAnalysis(t)
      PROVE  WorkerInv'
  <2>1. /\ UNCHANGED <<working, bot>>
        /\ \E to \in WorkerPcs :
             /\ workerPc' = [workerPc EXCEPT ![t] = to]
             /\ to \in {"pop", "ended"} <=> workerPc[t] \in {"pop", "ended"}
             /\ workerPc[t] = "search" => bot[t].phase = "idle"
    BY <1>8 DEF PopFails, ClaimRequest, ReportAnalysis, ReportNoAnalysis, WorkerPcs
  <2> QED
    BY <2>1 DEF WorkerInv, TypeOK
<1>9. ASSUME NEW t \in Threads, GenMove(t) \/ ClearSearch(t) PROVE WorkerInv'
  <2>1. /\ UNCHANGED working
        /\ workerPc[t] \notin {"pop", "ended"} /\ workerPc'[t] \notin {"pop", "ended"}
        /\ \A u \in Threads \ {t} : workerPc'[u] = workerPc[u]
    BY <1>9 DEF GenMove, ClearSearch, TypeOK
  <2>2. \A u \in Threads \ {t} : bot'[u] = bot[u]
    BY <1>9 DEF GenMove, ClearSearch, TypeOK
  <2>3. bot'[t].phase # "idle" => workerPc'[t] = "search"
    <3>1. GenMove(t) => workerPc'[t] = "search"
      BY DEF GenMove, TypeOK
    <3>2. ClearSearch(t) => bot'[t].phase = bot[t].phase /\ workerPc[t] = "clear"
      BY DEF ClearSearch, TypeOK, Bots
    <3> QED
      BY <1>9, <3>1, <3>2 DEF WorkerInv
  <2> QED
    BY <2>1, <2>2, <2>3 DEF WorkerInv
<1>10. ASSUME NEW t \in Threads, EraseRequest(t) PROVE WorkerInv'
  BY <1>10 DEF EraseRequest, WorkerInv, TypeOK
<1>11. ASSUME NEW t \in Threads,
              BotStarts(t) \/ OnSearchBegun(t) \/ SearchEnds(t) \/ SearchDropped(t)
       PROVE  WorkerInv'
  <2>1. UNCHANGED workerVars /\ bot[t].phase # "idle"
    BY <1>11 DEF BotStarts, OnSearchBegun, SearchEnds, SearchDropped
  <2>2. \A u \in Threads \ {t} : bot'[u] = bot[u]
    BY <1>11 DEF BotStarts, OnSearchBegun, SearchEnds, SearchDropped, TypeOK
  <2> QED
    BY <2>1, <2>2 DEF WorkerInv
<1> QED
  BY <1>2, <1>3, <1>4, <1>5, <1>6, <1>7, <1>8, <1>9, <1>10, <1>11
  DEF Next, Input, ApiContinues, Worker, BotProgresses

-------------------------------------------------------------------------------
(* Every step keeps a request in one place.                                                  *)
LEMMA NextQueueInv == Inv /\ [Next]_vars => QueueInv'
<1> SUFFICES ASSUME Inv, [Next]_vars PROVE QueueInv'
  OBVIOUS
<1> TypeOK /\ QueueInv
  BY DEF Inv
<1> USE ConstantsAssumption
    DEF ConstantsAssumption, openVars, queueVars, apiVars, apiLocals, workerVars, writeVars
<1>1. ASSUME NEW S \in SUBSET Requests, ReadQuery(S) PROVE QueueInv'
  <2>1. /\ UNCHANGED <<toAnalyze, working>> /\ apiTodo' = S
        /\ \A r \in S : r \in Requests /\ status[r] = Nothing
    BY <1>1 DEF ReadQuery, Unsent
  <2>2. \A r \in S : /\ \A i \in 1..Len(toAnalyze) : toAnalyze[i] # r
                    /\ \A t \in Threads : working[t] # r
    BY <2>1 DEF Inv, LiveInv, Live
  <2> QED
    BY <2>1, <2>2 DEF QueueInv
<1>2. ASSUME NEW r \in Requests, PushRequest(r) PROVE QueueInv'
  <2>1. /\ toAnalyze \in Seq(Requests) /\ Len(toAnalyze) \in Nat
        /\ Len(toAnalyze') = Len(toAnalyze) + 1
        /\ \A i \in 1..Len(toAnalyze) : toAnalyze'[i] = toAnalyze[i]
        /\ toAnalyze'[Len(toAnalyze) + 1] = r
    BY <1>2, AppendProperties, LenProperties DEF PushRequest, TypeOK
  <2>2. /\ apiPc = "pushing" /\ r \in apiTodo /\ apiTodo' = apiTodo \ {r}
        /\ UNCHANGED working
    BY <1>2 DEF PushRequest
  <2>3. \A i \in 1..Len(toAnalyze') : i \in 1..Len(toAnalyze) \/ i = Len(toAnalyze) + 1
    BY <2>1
  <2>4. /\ \A i \in 1..Len(toAnalyze) : toAnalyze[i] # r
        /\ \A t \in Threads : working[t] # r
    BY <2>2 DEF QueueInv
  <2>5. \A i, j \in 1..Len(toAnalyze') : toAnalyze'[i] = toAnalyze'[j] => i = j
    BY <2>1, <2>3, <2>4 DEF QueueInv
  <2>6. \A i \in 1..Len(toAnalyze') : \A t \in Threads : toAnalyze'[i] # working'[t]
    BY <2>1, <2>2, <2>3, <2>4 DEF QueueInv
  <2>7. \A q \in apiTodo' : /\ \A i \in 1..Len(toAnalyze') : toAnalyze'[i] # q
                            /\ \A t \in Threads : working'[t] # q
    BY <2>1, <2>2, <2>3 DEF QueueInv
  <2> QED
    BY <2>5, <2>6, <2>7 DEF QueueInv
<1>3. ASSUME NEW t \in Threads, PopRequest(t) PROVE QueueInv'
  <2>1. PICK i \in 1..Len(toAnalyze) :
           /\ working' = [working EXCEPT ![t] = toAnalyze[i]]
           /\ Len(toAnalyze) \in Nat
           /\ Len(toAnalyze') = Len(toAnalyze) - 1
           /\ \A j \in 1..Len(toAnalyze') :
                toAnalyze'[j] = IF j < i THEN toAnalyze[j] ELSE toAnalyze[j + 1]
    BY <1>3, PopProperties
  <2>2. UNCHANGED <<apiPc, apiTodo>>
    BY <1>3 DEF PopRequest
  <2>3. \A u \in Threads : working'[u] = IF u = t THEN toAnalyze[i] ELSE working[u]
    BY <2>1 DEF TypeOK
  <2> DEFINE old(j) == IF j < i THEN j ELSE j + 1
  <2>4. \A j \in 1..Len(toAnalyze') :
          old(j) \in 1..Len(toAnalyze) /\ old(j) # i /\ toAnalyze'[j] = toAnalyze[old(j)]
    BY <2>1
  <2>5. \A j, k \in 1..Len(toAnalyze') : old(j) = old(k) => j = k
    BY <2>1
  <2> HIDE DEF old
  <2>6. \A j, k \in 1..Len(toAnalyze') : toAnalyze'[j] = toAnalyze'[k] => j = k
    BY <2>4, <2>5 DEF QueueInv
  <2>7. \A j \in 1..Len(toAnalyze') : \A u \in Threads : toAnalyze'[j] # working'[u]
    BY <2>3, <2>4 DEF QueueInv
  <2>8. apiPc' = "pushing" =>
          \A r \in apiTodo' : /\ \A j \in 1..Len(toAnalyze') : toAnalyze'[j] # r
                              /\ \A u \in Threads : working'[u] # r
    BY <2>2, <2>3, <2>4 DEF QueueInv
  <2> QED
    BY <2>6, <2>7, <2>8 DEF QueueInv
<1>4. ASSUME NEW t \in Threads, EraseRequest(t) PROVE QueueInv'
  <2>1. /\ UNCHANGED <<toAnalyze, apiPc, apiTodo>>
        /\ \A u \in Threads : working'[u] = IF u = t THEN Nothing ELSE working[u]
    BY <1>4 DEF EraseRequest, TypeOK
  <2>2. /\ \A i \in 1..Len(toAnalyze) : toAnalyze[i] # Nothing
        /\ Nothing \notin apiTodo
    BY DEF Inv, LiveInv, Live
  <2> QED
    BY <2>1, <2>2 DEF QueueInv
<1>5. ASSUME UNCHANGED <<toAnalyze, working>>, apiPc' # "pushing" PROVE QueueInv'
  BY <1>5 DEF QueueInv
<1>6. CASE \/ \E S \in SUBSET Requests : ReadTerminate(S)
           \/ ReadEof \/ HaltWriting \/ HaltAnalyzing \/ JoinWorkers \/ JoinWriter
           \/ TerminateDone \/ ReportNoAnalysisFromApi \/ StopTerminated
           \/ \E r \in Requests : TerminateRequest(r)
           \/ \E t \in Threads : StopBots(t) \/ KillBots(t)
  BY <1>5, <1>6
  DEF ReadTerminate, ReadEof, HaltWriting, HaltAnalyzing, JoinWorkers, JoinWriter, TerminateDone,
      ReportNoAnalysisFromApi, StopTerminated, TerminateRequest, StopBots, KillBots
<1>7. ASSUME UNCHANGED <<toAnalyze, working, apiPc, apiTodo>> PROVE QueueInv'
  BY <1>7 DEF QueueInv
<1>8. ASSUME NEW t \in Threads,
             \/ PopFails(t) \/ ClaimRequest(t) \/ GenMove(t) \/ ReportAnalysis(t)
             \/ ReportNoAnalysis(t) \/ ClearSearch(t)
             \/ BotProgresses(t) \/ ReportDuringSearch(t) \/ SearchReachesLimit(t)
      PROVE  QueueInv'
  BY <1>7, <1>8
  DEF PopFails, ClaimRequest, GenMove, ReportAnalysis, ReportNoAnalysis, ClearSearch,
      BotProgresses, BotStarts, OnSearchBegun, FirstPlayout, SearchEnds, SearchDropped,
      ReportDuringSearch, SearchReachesLimit
<1>9. CASE WriteResponse \/ Exited \/ UNCHANGED vars
  BY <1>7, <1>9 DEF WriteResponse, Exited, vars
<1> QED
  BY <1>1, <1>2, <1>3, <1>4, <1>6, <1>8, <1>9 DEF Next, Input, ApiContinues, Worker

-------------------------------------------------------------------------------
(* Every step keeps what refers to requests to allocated ones.                                *)
LEMMA NextLiveInv == Inv /\ [Next]_vars => LiveInv'
<1> SUFFICES ASSUME Inv, [Next]_vars PROVE LiveInv'
  OBVIOUS
<1> TypeOK /\ LiveInv
  BY DEF Inv
<1> USE ConstantsAssumption
    DEF ConstantsAssumption, openVars, queueVars, apiVars, apiLocals, workerVars, writeVars
<1>1. ASSUME NEW S \in SUBSET Requests, ReadQuery(S) PROVE LiveInv'
  <2>1. /\ UNCHANGED <<toAnalyze, working, freed>>
        /\ apiTodo' = S /\ openRequests' = openRequests \cup S
        /\ \A r \in Requests : status'[r] = IF r \in S THEN InQueue ELSE status[r]
        /\ \A r \in S : status[r] = Nothing
    BY <1>1 DEF ReadQuery, Unsent
  <2>2. Live \subseteq Live' /\ S \subseteq Live'
    BY <2>1 DEF Live, LiveInv
  <2>3. freed \subseteq Requests
    BY DEF TypeOK
  <2> QED
    BY <2>1, <2>2, <2>3 DEF LiveInv
<1>2. ASSUME NEW r \in Requests, PushRequest(r) PROVE LiveInv'
  <2>1. /\ Len(toAnalyze) \in Nat
        /\ Len(toAnalyze') = Len(toAnalyze) + 1
        /\ \A i \in 1..Len(toAnalyze) : toAnalyze'[i] = toAnalyze[i]
        /\ toAnalyze'[Len(toAnalyze) + 1] = r
    BY <1>2, AppendProperties, LenProperties DEF PushRequest, TypeOK
  <2>2. /\ r \in apiTodo /\ apiTodo' = apiTodo \ {r}
        /\ UNCHANGED <<working, openRequests, freed, status>>
    BY <1>2 DEF PushRequest
  <2>3. \A i \in 1..Len(toAnalyze') : i \in 1..Len(toAnalyze) \/ i = Len(toAnalyze) + 1
    BY <2>1
  <2> QED
    BY <2>1, <2>2, <2>3 DEF LiveInv, Live
<1>3. ASSUME NEW t \in Threads, PopRequest(t) PROVE LiveInv'
  <2>1. PICK i \in 1..Len(toAnalyze) :
           /\ working' = [working EXCEPT ![t] = toAnalyze[i]]
           /\ Len(toAnalyze) \in Nat
           /\ Len(toAnalyze') = Len(toAnalyze) - 1
           /\ \A j \in 1..Len(toAnalyze') :
                toAnalyze'[j] = IF j < i THEN toAnalyze[j] ELSE toAnalyze[j + 1]
    BY <1>3, PopProperties
  <2>2. UNCHANGED <<apiTodo, openRequests, freed, status>>
    BY <1>3 DEF PopRequest
  <2>3. \A u \in Threads : working'[u] = IF u = t THEN toAnalyze[i] ELSE working[u]
    BY <2>1 DEF TypeOK
  <2>4. \A j \in 1..Len(toAnalyze') : \E k \in 1..Len(toAnalyze) : toAnalyze'[j] = toAnalyze[k]
    <3> TAKE j \in 1..Len(toAnalyze')
    <3>1. j \in 1..Len(toAnalyze) /\ j + 1 \in 1..Len(toAnalyze)
      BY <2>1
    <3> QED
      BY <2>1, <3>1
  <2> QED
    BY <2>2, <2>3, <2>4 DEF LiveInv, Live
<1>4. ASSUME NEW t \in Threads, EraseRequest(t) PROVE LiveInv'
  <2> DEFINE q == working[t]
  <2>1. /\ q \in Live /\ ~openMutex /\ workerPc[t] = "erase"
        /\ UNCHANGED <<toAnalyze, apiPc, apiTodo, status>>
        /\ openRequests' = openRequests \ {q} /\ freed' = freed \cup {q}
        /\ \A u \in Threads : working'[u] = IF u = t THEN Nothing ELSE working[u]
    BY <1>4 DEF EraseRequest, TypeOK, Inv, WorkerInv, LiveInv
  <2>2. Live' = Live \ {q}
    BY <2>1 DEF Live
  <2>3. /\ \A i \in 1..Len(toAnalyze) : toAnalyze[i] # q
        /\ q \notin apiTodo
    BY <2>1 DEF Inv, QueueInv, ApiInv, Terminating
  <2>4. \A u \in Threads : u # t => working[u] # q
    BY <2>1 DEF Inv, WorkerInv, Live
  <2>5. \A r \in freed' : status'[r] # Nothing
    BY <2>1 DEF LiveInv, Live
  <2> HIDE DEF q
  <2> QED
    BY <2>1, <2>2, <2>3, <2>4, <2>5 DEF LiveInv
<1>5. ASSUME UNCHANGED <<toAnalyze, working, openRequests, freed>>,
             apiTodo' \subseteq apiTodo \cup openRequests,
             \A r \in Requests : status[r] # Nothing => status'[r] # Nothing
      PROVE  LiveInv'
  <2>1. Live \subseteq Live' /\ freed \subseteq Requests
    BY <1>5 DEF Live, TypeOK
  <2> QED
    BY <1>5, <2>1 DEF LiveInv
<1>6. ASSUME NEW S \in SUBSET Requests, ReadTerminate(S) PROVE LiveInv'
  BY <1>5, <1>6 DEF ReadTerminate
<1>7. ASSUME NEW r \in Requests, TerminateRequest(r) PROVE LiveInv'
  <2>1. \A q \in Requests : status[q] # Nothing => status'[q] # Nothing
    BY <1>7 DEF TerminateRequest, TypeOK
  <2> QED
    BY <1>5, <1>7, <2>1 DEF TerminateRequest
<1>8. ASSUME NEW t \in Threads, ClaimRequest(t) \/ OnSearchBegun(t) PROVE LiveInv'
  <2>1. \A q \in Requests : status[q] # Nothing => status'[q] # Nothing
    BY <1>8 DEF ClaimRequest, OnSearchBegun, TypeOK
  <2> QED
    BY <1>5, <1>8, <2>1 DEF ClaimRequest, OnSearchBegun
<1>9. CASE \/ ReadEof \/ HaltWriting \/ HaltAnalyzing \/ JoinWorkers \/ JoinWriter
           \/ TerminateDone \/ ReportNoAnalysisFromApi \/ StopTerminated
           \/ \E t \in Threads : StopBots(t) \/ KillBots(t)
  BY <1>5, <1>9
  DEF ReadEof, HaltWriting, HaltAnalyzing, JoinWorkers, JoinWriter, TerminateDone,
      ReportNoAnalysisFromApi, StopTerminated, StopBots, KillBots
<1>10. ASSUME NEW t \in Threads,
             \/ PopFails(t) \/ GenMove(t) \/ ReportAnalysis(t)
             \/ ReportNoAnalysis(t) \/ ClearSearch(t)
             \/ BotStarts(t) \/ FirstPlayout(t) \/ SearchEnds(t) \/ SearchDropped(t)
             \/ ReportDuringSearch(t) \/ SearchReachesLimit(t)
      PROVE  LiveInv'
  BY <1>5, <1>10
  DEF PopFails, GenMove, ReportAnalysis, ReportNoAnalysis, ClearSearch,
      BotStarts, FirstPlayout, SearchEnds, SearchDropped, ReportDuringSearch, SearchReachesLimit
<1>11. CASE WriteResponse \/ Exited \/ UNCHANGED vars
  BY <1>5, <1>11 DEF WriteResponse, Exited, vars
<1> QED
  BY <1>1, <1>2, <1>3, <1>4, <1>6, <1>7, <1>8, <1>9, <1>10, <1>11
  DEF Next, Input, ApiContinues, Worker, BotProgresses

-------------------------------------------------------------------------------
(* A status that is a thread index goes with the request that thread has, until the request     *)
(* is erased: only the thread that searches it writes its index.                                *)
LEMMA NextStatusInv == Inv /\ [Next]_vars => StatusInv'
<1> SUFFICES ASSUME Inv, [Next]_vars PROVE StatusInv'
  OBVIOUS
<1> TypeOK /\ StatusInv
  BY DEF Inv
<1> USE ConstantsAssumption
    DEF ConstantsAssumption, openVars, queueVars, apiVars, apiLocals, workerVars, writeVars
<1>1. ASSUME UNCHANGED <<working, freed>>,
             \A r \in Requests : status'[r] = status[r] \/ status'[r] \notin Threads \cup {Nothing}
      PROVE  StatusInv'
  BY <1>1 DEF StatusInv, Live
<1>2. ASSUME NEW S \in SUBSET Requests, ReadQuery(S) PROVE StatusInv'
  BY <1>1, <1>2 DEF ReadQuery
<1>3. ASSUME NEW r \in Requests, TerminateRequest(r) PROVE StatusInv'
  <2>1. \A q \in Requests : status'[q] = status[q] \/ status'[q] = Terminated
    BY <1>3 DEF TerminateRequest, TypeOK
  <2> QED
    BY <1>1, <1>3, <2>1 DEF TerminateRequest
<1>4. ASSUME NEW t \in Threads, ClaimRequest(t) PROVE StatusInv'
  <2>1. \A q \in Requests : status'[q] = status[q] \/ status'[q] = Popped
    BY <1>4 DEF ClaimRequest, TypeOK
  <2> QED
    BY <1>1, <1>4, <2>1 DEF ClaimRequest
<1>5. ASSUME NEW t \in Threads, OnSearchBegun(t) PROVE StatusInv'
  <2>1. UNCHANGED <<working, freed>> /\ working[t] \in Live
    BY <1>5 DEF OnSearchBegun, Inv, WorkerInv, LiveInv
  <2>2. \A q \in Requests : status'[q] = status[q] \/ (q = working[t] /\ status'[q] = t)
    <3>1. status' = status \/ status' = [status EXCEPT ![working[t]] = t]
      BY <1>5 DEF OnSearchBegun
    <3>2. status \in [Requests -> Statuses \cup {Nothing}]
      BY DEF TypeOK
    <3>3. ASSUME status' = [status EXCEPT ![working[t]] = t]
          PROVE  \A q \in Requests : status'[q] = IF q = working[t] THEN t ELSE status[q]
      BY <3>2, <3>3
    <3> QED
      BY <3>1, <3>3
  <2>3. \A q \in Live' : q \in Live
    BY <2>1, <2>2 DEF Live
  <2> QED
    BY <2>1, <2>2, <2>3 DEF StatusInv, Live
<1>6. ASSUME NEW t \in Threads, PopRequest(t) PROVE StatusInv'
  <2>1. /\ UNCHANGED <<status, freed>> /\ working[t] = Nothing
        /\ \A u \in Threads : u # t => working'[u] = working[u]
    BY <1>6, PopProperties DEF PopRequest, Inv, WorkerInv, TypeOK
  <2> QED
    BY <2>1 DEF StatusInv, Live
<1>7. ASSUME NEW t \in Threads, EraseRequest(t) PROVE StatusInv'
  <2>1. /\ UNCHANGED status /\ freed' = freed \cup {working[t]}
        /\ \A u \in Threads : u # t => working'[u] = working[u]
    BY <1>7 DEF EraseRequest, TypeOK
  <2> QED
    BY <2>1 DEF StatusInv, Live
<1>8. CASE \/ \E S \in SUBSET Requests : ReadTerminate(S)
           \/ ReadEof \/ HaltWriting \/ HaltAnalyzing \/ JoinWorkers \/ JoinWriter
           \/ TerminateDone \/ ReportNoAnalysisFromApi \/ StopTerminated
           \/ \E r \in Requests : PushRequest(r)
           \/ \E t \in Threads : StopBots(t) \/ KillBots(t)
  BY <1>1, <1>8
  DEF ReadTerminate, ReadEof, HaltWriting, HaltAnalyzing, JoinWorkers, JoinWriter, TerminateDone,
      ReportNoAnalysisFromApi, StopTerminated, PushRequest, StopBots, KillBots
<1>9. ASSUME NEW t \in Threads,
             \/ PopFails(t) \/ GenMove(t) \/ ReportAnalysis(t)
             \/ ReportNoAnalysis(t) \/ ClearSearch(t)
             \/ BotStarts(t) \/ FirstPlayout(t) \/ SearchEnds(t) \/ SearchDropped(t)
             \/ ReportDuringSearch(t) \/ SearchReachesLimit(t)
      PROVE  StatusInv'
  BY <1>1, <1>9
  DEF PopFails, GenMove, ReportAnalysis, ReportNoAnalysis, ClearSearch,
      BotStarts, FirstPlayout, SearchEnds, SearchDropped, ReportDuringSearch, SearchReachesLimit
<1>10. CASE WriteResponse \/ Exited \/ UNCHANGED vars
  BY <1>1, <1>10 DEF WriteResponse, Exited, vars
<1> QED
  BY <1>2, <1>3, <1>4, <1>5, <1>6, <1>7, <1>8, <1>9, <1>10
  DEF Next, Input, ApiContinues, Worker, BotProgresses

-------------------------------------------------------------------------------
(* Every step keeps the api thread, while it holds the mutex, on open requests and their threads. *)
LEMMA NextApiInv == Inv /\ [Next]_vars => ApiInv'
<1> SUFFICES ASSUME Inv, [Next]_vars PROVE ApiInv'
  OBVIOUS
<1> TypeOK /\ ApiInv
  BY DEF Inv
<1> USE ConstantsAssumption
    DEF ConstantsAssumption, Terminating, openVars, queueVars, apiVars, apiLocals, workerVars, writeVars
<1>1. ASSUME NEW S \in SUBSET Requests, ReadQuery(S) \/ ReadTerminate(S) PROVE ApiInv'
  BY <1>1 DEF ReadQuery, ReadTerminate, ApiInv
<1>2. ASSUME NEW r \in Requests, PushRequest(r) PROVE ApiInv'
  BY <1>2 DEF PushRequest, ApiInv
<1>3. ASSUME NEW r \in Requests, TerminateRequest(r) PROVE ApiInv'
  <2>1. r \in openRequests /\ r \in Live
    BY <1>3 DEF TerminateRequest, ApiInv, Inv, LiveInv
  <2>2. status[r] \in Threads => working[status[r]] = r
    BY <2>1 DEF Inv, StatusInv
  <2> QED
    BY <1>3, <2>1, <2>2 DEF TerminateRequest, ApiInv
<1>4. CASE ReportNoAnalysisFromApi \/ StopTerminated \/ TerminateDone
  BY <1>4 DEF ReportNoAnalysisFromApi, StopTerminated, TerminateDone, ApiInv
<1>5. CASE ReadEof \/ HaltWriting \/ HaltAnalyzing \/ JoinWorkers \/ JoinWriter
  BY <1>5 DEF ReadEof, HaltWriting, HaltAnalyzing, JoinWorkers, JoinWriter, ApiInv
<1>6. ASSUME NEW t \in Threads, StopBots(t) \/ KillBots(t) PROVE ApiInv'
  BY <1>6 DEF StopBots, KillBots, ApiInv
<1>7. ASSUME NEW t \in Threads, PopRequest(t) PROVE ApiInv'
  <2>1. /\ UNCHANGED <<apiPc, apiTodo, apiRequest, apiThread, openRequests, openMutex>>
        /\ working[t] = Nothing
        /\ \A u \in Threads : u # t => working'[u] = working[u]
    BY <1>7, PopProperties DEF PopRequest, Inv, WorkerInv, TypeOK
  <2>2. apiPc = "stopBot" => apiRequest # Nothing
    BY DEF ApiInv, Inv, LiveInv, Live
  <2> QED
    BY <2>1, <2>2 DEF ApiInv
<1>8. ASSUME NEW t \in Threads, EraseRequest(t) PROVE ApiInv'
  BY <1>8 DEF EraseRequest, ApiInv
<1>9. ASSUME UNCHANGED <<apiPc, apiTodo, apiRequest, apiThread, openRequests, openMutex, working>>
      PROVE  ApiInv'
  BY <1>9 DEF ApiInv
<1>10. ASSUME NEW t \in Threads,
              \/ PopFails(t) \/ ClaimRequest(t) \/ GenMove(t) \/ ReportAnalysis(t)
              \/ ReportNoAnalysis(t) \/ ClearSearch(t)
              \/ BotProgresses(t) \/ ReportDuringSearch(t) \/ SearchReachesLimit(t)
       PROVE  ApiInv'
  BY <1>9, <1>10
  DEF PopFails, ClaimRequest, GenMove, ReportAnalysis, ReportNoAnalysis, ClearSearch,
      BotProgresses, BotStarts, OnSearchBegun, FirstPlayout, SearchEnds, SearchDropped,
      ReportDuringSearch, SearchReachesLimit
<1>11. CASE WriteResponse \/ Exited \/ UNCHANGED vars
  BY <1>9, <1>11 DEF WriteResponse, Exited, vars
<1> QED
  BY <1>1, <1>2, <1>3, <1>4, <1>5, <1>6, <1>7, <1>8, <1>10, <1>11
  DEF Next, Input, ApiContinues, Worker

(* The invariant holds in every state of every behaviour.                             *)
LEMMA SpecInv == Spec => []Inv
<1>1. Inv /\ [Next]_vars => Inv'
  BY NextTypeOK, NextWorkerInv, NextQueueInv, NextLiveInv, NextApiInv, NextStatusInv DEF Inv
<1> QED
  BY <1>1, InitInv, PTL DEF Spec

-------------------------------------------------------------------------------
(* Every variable of the engine stays in its type.                                               *)
THEOREM TypeCorrect == Spec => []TypeOK
<1>1. Inv => TypeOK
  BY DEF Inv
<1> QED
  BY <1>1, SpecInv, PTL

(* A request that has been deleted is in nobody's hands: not open, not queued, not with a thread,  *)
(* not under a terminate that goes on.                                                             *)
THEOREM RequestsOutliveTheirUse == Spec => []NoUseAfterFree
<1>1. Inv => NoUseAfterFree
  <2> SUFFICES ASSUME Inv PROVE NoUseAfterFree
    OBVIOUS
  <2> TypeOK /\ LiveInv /\ ApiInv
    BY DEF Inv
  <2>1. freed \cap Live = {} /\ Nothing \notin freed
    BY ConstantsAssumption DEF Live, ConstantsAssumption, TypeOK
  <2>2. apiRequest \in Live \cup {Nothing}
    BY DEF ApiInv, LiveInv
  <2>3. DOMAIN toAnalyze = 1..Len(toAnalyze)
    BY LenProperties DEF TypeOK
  <2> QED
    BY <2>1, <2>2, <2>3 DEF LiveInv, NoUseAfterFree
<1> QED
  BY <1>1, SpecInv, PTL

(* A terminate stops the search of the request it names and no other, however the thread whose      *)
(* index it has read goes on.                                                                       *)
THEOREM TerminatesStopTheirOwnSearch == Spec => []StopsItsOwnSearch
<1>1. Inv => StopsItsOwnSearch
  BY DEF Inv, ApiInv, StopsItsOwnSearch
<1> QED
  BY <1>1, SpecInv, PTL

-------------------------------------------------------------------------------
(* No final response to r was written yet, printed or queued.                                     *)
Unanswered(r) ==
  /\ ~Printed(r)
  /\ \A i \in DOMAIN toWrite : toWrite[i][1] = r => toWrite[i][2] \notin Finals

(* Nobody has answered a request that nobody has claimed.  A thread that has claimed one is the only *)
(* one to answer it; if the api thread is to do so, no thread has.                                  *)
Answering == {"genMove", "search", "dummy"}
OwedInv ==
  /\ \A r \in Requests : status[r] \in {Nothing, InQueue} => Unanswered(r)
  /\ \A t \in Threads : workerPc[t] \in Answering =>
       /\ Unanswered(working[t]) /\ status[working[t]] # InQueue
       /\ apiPc = "reportNone" => apiRequest # working[t]
  /\ apiPc = "reportNone" => Unanswered(apiRequest) /\ status[apiRequest] = Terminated

(* A response to a request that is unanswered keeps the final ones last.                            *)
LEMMA PushKeepsFinalsLast ==
  ASSUME TypeOK, FinalIsLast, NEW r \in Requests, NEW kind \in Kinds, PushToWrite(r, kind),
         Unanswered(r), output' = output
  PROVE  /\ FinalIsLast'
         /\ \A q \in Requests : Unanswered(q) /\ (q # r \/ kind \notin Finals) => Unanswered(q)'
<1>1. \A q \in Requests : Printed(q)' <=> Printed(q)
  BY DEF Printed
<1>2. CASE toWrite' = toWrite
  BY <1>1, <1>2 DEF FinalIsLast, Unanswered
<1>3. CASE toWrite' = Append(toWrite, <<r, kind>>)
  <2>1. PICK n \in Nat : n = Len(toWrite)
    BY DEF TypeOK
  <2>2. DOMAIN toWrite = 1..n /\ <<r, kind>> \in Requests \X Kinds
    BY <2>1 DEF TypeOK
  <2>3. /\ DOMAIN toWrite' = 1..(n + 1) /\ toWrite'[n + 1] = <<r, kind>>
        /\ \A i \in 1..n : toWrite'[i] = toWrite[i]
    <3>1. /\ toWrite' \in Seq(Requests \X Kinds) /\ Len(toWrite') = n + 1
          /\ toWrite'[n + 1] = <<r, kind>> /\ \A i \in 1..n : toWrite'[i] = toWrite[i]
      BY <1>3, <2>1, <2>2, AppendProperties DEF TypeOK
    <3> QED
      BY <3>1
  <2>4. \A i \in 1..(n + 1) : i \in 1..n \/ i = n + 1
    BY <2>1
  <2>5. \A i \in 1..n : ~(n + 1 < i)
    BY <2>1
  <2>6. \A q \in Requests, i \in DOMAIN toWrite' : toWrite'[i][1] = q => ~Printed(q)'
    BY <1>1, <2>2, <2>3, <2>4 DEF FinalIsLast, Unanswered
  <2>7. \A i, j \in DOMAIN toWrite' :
          i < j /\ toWrite'[i][1] = toWrite'[j][1] => toWrite'[i][2] \notin Finals
    <3> SUFFICES ASSUME NEW i \in 1..(n + 1), NEW j \in 1..(n + 1), i < j,
                        toWrite'[i][1] = toWrite'[j][1]
                 PROVE  toWrite'[i][2] \notin Finals
      BY <2>3
    <3>1. i \in 1..n
      BY <2>1
    <3>2. CASE j \in 1..n
      BY <2>2, <2>3, <3>1, <3>2 DEF FinalIsLast
    <3>3. CASE j = n + 1
      BY <2>2, <2>3, <3>1, <3>3 DEF Unanswered
    <3> QED
      BY <2>4, <3>2, <3>3
  <2>8. FinalIsLast'
    BY <2>6, <2>7 DEF FinalIsLast
  <2> QED
    BY <1>1, <2>2, <2>3, <2>4, <2>8 DEF Unanswered
<1> QED
  BY <1>2, <1>3 DEF PushToWrite

(* So does the printing of one that is queued.                                                      *)
LEMMA PrintKeepsFinalsLast ==
  ASSUME TypeOK, FinalIsLast, WriteResponse
  PROVE  FinalIsLast' /\ \A q \in Requests : Unanswered(q) => Unanswered(q)'
<1>1. PICK n \in Nat : n = Len(toWrite)
  BY DEF TypeOK
<1>2. /\ n > 0 /\ DOMAIN toWrite = 1..n /\ toWrite[1] \in Requests \X Kinds
      /\ Head(toWrite) = toWrite[1]
  BY <1>1, HeadTailProperties DEF TypeOK, WriteResponse
<1>3. PICK r \in Requests, kind \in Kinds : r = toWrite[1][1] /\ kind = toWrite[1][2]
  BY <1>2
<1>4. DOMAIN toWrite' = 1..(n - 1) /\ \A i \in 1..(n - 1) : toWrite'[i] = toWrite[i + 1]
  <2>1. /\ toWrite' \in Seq(Requests \X Kinds) /\ Len(toWrite') = n - 1
        /\ \A i \in 1..(n - 1) : toWrite'[i] = toWrite[i + 1]
    BY <1>1, <1>2, HeadTailProperties DEF TypeOK, WriteResponse
  <2> QED
    BY <2>1
<1>5. output[r] \in Seq(Kinds) /\ DOMAIN output = Requests
  BY DEF TypeOK
<1>6. output' = [output EXCEPT ![r] = Append(output[r], kind)]
  BY <1>2, <1>3 DEF WriteResponse
<1>7. PICK k \in Nat : k = Len(output[r])
  BY <1>5
<1>8. /\ \A q \in Requests \ {r} : output'[q] = output[q]
      /\ output'[r] = Append(output[r], kind)
  BY <1>5, <1>6
<1>9. /\ DOMAIN output[r] = 1..k /\ DOMAIN output'[r] = 1..(k + 1) /\ Len(output'[r]) = k + 1
      /\ output'[r][k + 1] = kind /\ \A i \in 1..k : output'[r][i] = output[r][i]
  <2>1. /\ output'[r] \in Seq(Kinds) /\ Len(output'[r]) = k + 1 /\ output'[r][k + 1] = kind
        /\ \A i \in 1..k : output'[r][i] = output[r][i]
    BY <1>5, <1>7, <1>8, AppendProperties
  <2> QED
    BY <1>5, <1>7, <2>1
<1>10. \A i \in 1..(n - 1) : i + 1 \in 1..n /\ 1 < i + 1
  BY <1>1
<1>11. \A i \in 1..k : output[r][i] \notin Finals
  <2>1. 1 \in DOMAIN toWrite /\ toWrite[1][1] = r
    BY <1>2, <1>3
  <2>2. ~Printed(r)
    BY <2>1 DEF FinalIsLast
  <2> QED
    BY <1>9, <2>2 DEF Printed
<1>12. \A i \in 1..(k + 1) : output'[r][i] \in Finals => i = k + 1 /\ kind \in Finals
  <2>1. \A i \in 1..(k + 1) : i \in 1..k \/ i = k + 1
    BY <1>7
  <2> QED
    BY <1>9, <1>11, <2>1
<1>13. \A q \in Requests : Printed(q)' => Printed(q) \/ (q = r /\ kind \in Finals)
  BY <1>8, <1>9, <1>12 DEF Printed
<1>14. \A q \in Requests, i \in DOMAIN toWrite' : toWrite'[i][1] = q => ~Printed(q)'
  <2> SUFFICES ASSUME NEW q \in Requests, NEW i \in 1..(n - 1), toWrite'[i][1] = q
               PROVE  ~Printed(q)'
    BY <1>4
  <2>1. i + 1 \in DOMAIN toWrite /\ 1 \in DOMAIN toWrite /\ toWrite[i + 1][1] = q
    BY <1>2, <1>4, <1>10
  <2>2. ~Printed(q)
    BY <2>1 DEF FinalIsLast
  <2>3. q = r => kind \notin Finals
    BY <1>3, <1>10, <2>1 DEF FinalIsLast
  <2> QED
    BY <1>13, <2>2, <2>3
<1>15. \A i, j \in DOMAIN toWrite' :
         i < j /\ toWrite'[i][1] = toWrite'[j][1] => toWrite'[i][2] \notin Finals
  <2> SUFFICES ASSUME NEW i \in 1..(n - 1), NEW j \in 1..(n - 1), i < j,
                      toWrite'[i][1] = toWrite'[j][1]
               PROVE  toWrite'[i][2] \notin Finals
    BY <1>4
  <2>1. i + 1 \in DOMAIN toWrite /\ j + 1 \in DOMAIN toWrite /\ i + 1 < j + 1
    BY <1>2, <1>10
  <2> QED
    BY <1>4, <2>1 DEF FinalIsLast
<1>16. \A q \in Requests : \A i \in DOMAIN output'[q] : output'[q][i] \in Finals => i = Len(output'[q])
  BY <1>8, <1>9, <1>12 DEF FinalIsLast
<1>17. FinalIsLast'
  BY <1>14, <1>15, <1>16 DEF FinalIsLast
<1>18. ASSUME NEW q \in Requests, Unanswered(q) PROVE Unanswered(q)'
  <2>1. ~Printed(q)'
    BY <1>2, <1>3, <1>13, <1>18 DEF Unanswered
  <2>2. \A i \in DOMAIN toWrite' : toWrite'[i][1] = q => toWrite'[i][2] \notin Finals
    BY <1>2, <1>4, <1>10, <1>18 DEF Unanswered
  <2> QED
    BY <2>1, <2>2 DEF Unanswered
<1> QED
  BY <1>17, <1>18

(* Every step writes a final response only to a request that it owes one.                           *)
LEMMA NextOwedInv ==
  Inv /\ FinalIsLast /\ OwedInv /\ [Next]_vars => FinalIsLast' /\ OwedInv'
<1> SUFFICES ASSUME Inv, FinalIsLast, OwedInv, [Next]_vars PROVE FinalIsLast' /\ OwedInv'
  OBVIOUS
<1> TypeOK /\ WorkerInv /\ ApiInv
  BY DEF Inv
<1> USE ConstantsAssumption DEF ConstantsAssumption, Answering
<1>a. \A t \in Threads : workerPc[t] \in Answering \cup {"claim"} => working[t] \in Requests
  BY DEF WorkerInv, TypeOK
<1>b. apiPc \in {"reportNone", "stopBot"} => apiRequest \in Requests
  BY DEF ApiInv, TypeOK
<1>1. ASSUME UNCHANGED <<toWrite, output>>
      PROVE  FinalIsLast' /\ \A q \in Requests : Unanswered(q) => Unanswered(q)'
  BY <1>1 DEF FinalIsLast, Unanswered, Printed
<1>2. ASSUME \A q \in Requests : Unanswered(q) => Unanswered(q)',
             UNCHANGED <<status, working, apiRequest>>,
             apiPc' = "reportNone" => apiPc = "reportNone",
             \A t \in Threads : workerPc'[t] \in Answering => workerPc[t] \in Answering
      PROVE  OwedInv'
  BY <1>a, <1>b, <1>2 DEF OwedInv
<1>3. ASSUME NEW S \in SUBSET Requests, ReadQuery(S) PROVE FinalIsLast' /\ OwedInv'
  <2>1. /\ FinalIsLast' /\ \A q \in Requests : Unanswered(q) => Unanswered(q)'
        /\ UNCHANGED <<working, workerPc>> /\ apiPc' = "pushing" /\ S \subseteq Unsent
        /\ \A r \in Requests : status'[r] = IF r \in S THEN InQueue ELSE status[r]
    BY <1>1, <1>3 DEF ReadQuery, workerVars, writeVars
  <2>2. \A t \in Threads : workerPc[t] \in Answering => status[working[t]] # Nothing
    BY <1>a DEF Inv, LiveInv, Live
  <2> QED
    BY <1>a, <2>1, <2>2 DEF OwedInv, Unsent
<1>4. ASSUME NEW r \in Requests, TerminateRequest(r) PROVE FinalIsLast' /\ OwedInv'
  <2>1. /\ FinalIsLast' /\ \A q \in Requests : Unanswered(q) => Unanswered(q)'
        /\ UNCHANGED <<working, workerPc>> /\ apiPc = "terminating"
        /\ \A q \in Requests : status'[q] = IF q = r THEN Terminated ELSE status[q]
    BY <1>1, <1>4 DEF TerminateRequest, workerVars, writeVars, TypeOK
  <2>2. apiPc' = "reportNone" => apiRequest' = r /\ status[r] = InQueue
    BY <1>4, <2>1 DEF TerminateRequest
  <2> QED
    BY <1>a, <2>1, <2>2 DEF OwedInv
<1>5. CASE ReportNoAnalysisFromApi
  <2>1. /\ apiPc = "reportNone" /\ apiRequest \in Requests /\ Unanswered(apiRequest)
        /\ PushToWrite(apiRequest, "noResults") /\ output' = output /\ apiPc' = "terminating"
        /\ UNCHANGED <<working, workerPc, status>> /\ status[apiRequest] = Terminated
    BY <1>5, <1>b DEF ReportNoAnalysisFromApi, workerVars, OwedInv
  <2>2. FinalIsLast' /\ \A q \in Requests \ {apiRequest} : Unanswered(q) => Unanswered(q)'
    BY <2>1, PushKeepsFinalsLast DEF Kinds, Finals
  <2> QED
    BY <1>a, <2>1, <2>2 DEF OwedInv
<1>6. ASSUME NEW t \in Threads, PopRequest(t) PROVE FinalIsLast' /\ OwedInv'
  <2>1. /\ FinalIsLast' /\ \A q \in Requests : Unanswered(q) => Unanswered(q)'
        /\ UNCHANGED <<status, apiPc, apiRequest>> /\ workerPc'[t] = "claim"
        /\ \A u \in Threads \ {t} : workerPc'[u] = workerPc[u] /\ working'[u] = working[u]
    BY <1>1, <1>6 DEF PopRequest, apiVars, apiLocals, writeVars, TypeOK
  <2> QED
    BY <1>a, <1>b, <2>1 DEF OwedInv
<1>7. ASSUME NEW t \in Threads, ClaimRequest(t) PROVE FinalIsLast' /\ OwedInv'
  <2>1. /\ FinalIsLast' /\ \A q \in Requests : Unanswered(q) => Unanswered(q)'
        /\ UNCHANGED <<working, apiPc, apiRequest>> /\ working[t] \in Requests
        /\ \A u \in Threads \ {t} : workerPc'[u] = workerPc[u]
    BY <1>1, <1>7, <1>a DEF ClaimRequest, apiVars, apiLocals, writeVars, TypeOK
  <2>2. \/ /\ workerPc'[t] = "genMove" /\ status[working[t]] = InQueue
           /\ \A r \in Requests : status'[r] = IF r = working[t] THEN Popped ELSE status[r]
        \/ workerPc'[t] = "clear" /\ status' = status
    BY <1>7, <2>1 DEF ClaimRequest, TypeOK
  <2>3. CASE workerPc'[t] = "clear" /\ status' = status
    BY <1>a, <1>b, <2>1, <2>3 DEF OwedInv
  <2>4. CASE /\ workerPc'[t] = "genMove" /\ status[working[t]] = InQueue
             /\ \A r \in Requests : status'[r] = IF r = working[t] THEN Popped ELSE status[r]
    BY <1>a, <1>b, <2>1, <2>4 DEF OwedInv
  <2> QED
    BY <2>2, <2>3, <2>4
<1>8. ASSUME NEW t \in Threads, ReportAnalysis(t) \/ ReportNoAnalysis(t)
      PROVE  FinalIsLast' /\ OwedInv'
  <2>1. /\ UNCHANGED <<status, working, apiPc, apiRequest, output>> /\ working[t] \in Requests
        /\ \A u \in Threads \ {t} : workerPc'[u] = workerPc[u]
        /\ workerPc[t] \in Answering /\ Unanswered(working[t])
    BY <1>8, <1>a DEF ReportAnalysis, ReportNoAnalysis, apiVars, apiLocals, TypeOK, OwedInv
  <2>2. \/ workerPc'[t] \in {"clear", "dummy"} /\ toWrite' = toWrite
        \/ /\ workerPc'[t] = "clear"
           /\ \E kind \in Finals : PushToWrite(working[t], kind)
    BY <1>8 DEF ReportAnalysis, ReportNoAnalysis, TypeOK, Finals
  <2>3. CASE workerPc'[t] \in {"clear", "dummy"} /\ toWrite' = toWrite
    <3>1. FinalIsLast' /\ \A q \in Requests : Unanswered(q) => Unanswered(q)'
      BY <1>1, <2>1, <2>3
    <3> QED
      BY <1>2, <2>1, <2>3, <3>1
  <2>4. CASE workerPc'[t] = "clear" /\ \E kind \in Finals : PushToWrite(working[t], kind)
    <3>1. FinalIsLast' /\ \A q \in Requests \ {working[t]} : Unanswered(q) => Unanswered(q)'
      BY <2>1, <2>4, PushKeepsFinalsLast DEF Kinds
    <3>2. \A u \in Threads \ {t} : workerPc[u] \in Answering => working[u] # working[t]
      BY <1>a, <2>1 DEF WorkerInv
    <3>3. status[working[t]] \notin {Nothing, InQueue}
      BY <1>a, <2>1 DEF OwedInv, Inv, LiveInv, Live
    <3> QED
      BY <1>a, <1>b, <2>1, <2>4, <3>1, <3>2, <3>3 DEF OwedInv
  <2> QED
    BY <2>2, <2>3, <2>4
<1>9. ASSUME NEW t \in Threads, EraseRequest(t) PROVE FinalIsLast' /\ OwedInv'
  <2>1. /\ FinalIsLast' /\ \A q \in Requests : Unanswered(q) => Unanswered(q)'
        /\ UNCHANGED <<status, apiPc, apiRequest>> /\ workerPc'[t] = "pop"
        /\ \A u \in Threads \ {t} : workerPc'[u] = workerPc[u] /\ working'[u] = working[u]
    BY <1>1, <1>9 DEF EraseRequest, apiVars, apiLocals, writeVars, TypeOK
  <2> QED
    BY <1>a, <1>b, <2>1 DEF OwedInv
<1>10. ASSUME NEW t \in Threads, OnSearchBegun(t) PROVE FinalIsLast' /\ OwedInv'
  <2>1. /\ FinalIsLast' /\ \A q \in Requests : Unanswered(q) => Unanswered(q)'
        /\ UNCHANGED <<working, workerPc, apiPc, apiRequest>> /\ working[t] \in Requests
    BY <1>1, <1>10, <1>a DEF OnSearchBegun, apiVars, apiLocals, workerVars, writeVars, WorkerInv
  <2>2. \/ status' = status
        \/ /\ status[working[t]] = Popped
           /\ \A r \in Requests : status'[r] = IF r = working[t] THEN t ELSE status[r]
    BY <1>10, <2>1 DEF OnSearchBegun, TypeOK
  <2>3. CASE status' = status
    BY <1>2, <2>1, <2>3
  <2>4. CASE /\ status[working[t]] = Popped
             /\ \A r \in Requests : status'[r] = IF r = working[t] THEN t ELSE status[r]
    BY <1>a, <1>b, <2>1, <2>4 DEF OwedInv
  <2> QED
    BY <2>2, <2>3, <2>4
<1>11. ASSUME NEW t \in Threads, ReportDuringSearch(t) PROVE FinalIsLast' /\ OwedInv'
  <2>1. /\ UNCHANGED <<status, working, workerPc, apiPc, apiRequest, output>>
        /\ working[t] \in Requests /\ Unanswered(working[t]) /\ PushToWrite(working[t], "during")
    BY <1>11, <1>a DEF ReportDuringSearch, apiVars, apiLocals, workerVars, WorkerInv, OwedInv
  <2>2. FinalIsLast' /\ \A q \in Requests : Unanswered(q) => Unanswered(q)'
    BY <2>1, PushKeepsFinalsLast DEF Kinds, Finals
  <2> QED
    BY <1>2, <2>1, <2>2
<1>12. CASE WriteResponse
  BY <1>2, <1>12, PrintKeepsFinalsLast DEF WriteResponse, apiVars, apiLocals, workerVars
<1>13. CASE \/ \E S \in SUBSET Requests : ReadTerminate(S)
            \/ ReadEof \/ HaltWriting \/ HaltAnalyzing \/ JoinWorkers \/ JoinWriter
            \/ TerminateDone
            \/ \E r \in Requests : PushRequest(r)
            \/ \E t \in Threads : StopBots(t) \/ KillBots(t)
  <2>1. /\ UNCHANGED <<status, working, workerPc, apiRequest, toWrite, output>>
        /\ apiPc' # "reportNone"
    BY <1>13
    DEF ReadTerminate, ReadEof, HaltWriting, HaltAnalyzing, JoinWorkers, JoinWriter, TerminateDone,
        PushRequest, StopBots, KillBots, apiLocals, workerVars, writeVars
  <2> QED
    BY <1>1, <1>2, <2>1
<1>14. CASE StopTerminated
  <2>1. /\ UNCHANGED <<status, working, workerPc, toWrite, output>> /\ apiPc' = "terminating"
    BY <1>14 DEF StopTerminated, workerVars, writeVars
  <2> QED
    BY <1>1, <1>a, <2>1 DEF OwedInv
<1>15. ASSUME NEW t \in Threads,
              \/ PopFails(t) \/ GenMove(t) \/ ClearSearch(t)
              \/ BotStarts(t) \/ FirstPlayout(t) \/ SearchEnds(t) \/ SearchDropped(t)
              \/ SearchReachesLimit(t)
       PROVE  FinalIsLast' /\ OwedInv'
  <2>1. UNCHANGED <<status, working, apiPc, apiRequest, toWrite, output>>
    BY <1>15
    DEF PopFails, GenMove, ClearSearch, BotStarts, FirstPlayout, SearchEnds, SearchDropped,
        SearchReachesLimit, apiVars, apiLocals, workerVars, writeVars
  <2>2. \A u \in Threads : workerPc'[u] \in Answering => workerPc[u] \in Answering
    BY <1>15
    DEF PopFails, GenMove, ClearSearch, BotStarts, FirstPlayout, SearchEnds, SearchDropped,
        SearchReachesLimit, workerVars, TypeOK
  <2> QED
    BY <1>1, <1>2, <2>1, <2>2
<1>16. CASE Exited \/ UNCHANGED vars
  BY <1>1, <1>2, <1>16 DEF Exited, vars, apiVars, apiLocals, workerVars, writeVars
<1> QED
  BY <1>3, <1>4, <1>5, <1>6, <1>7, <1>8, <1>9, <1>10, <1>11, <1>12, <1>13, <1>14, <1>15, <1>16
  DEF Next, Input, ApiContinues, Worker, BotProgresses

(* However a terminate races with the claim, the start and the end of the search: no request gets   *)
(* two final responses, and none from during the search after the final one, in the order in which   *)
(* responses are queued and printed.                                                                 *)
THEOREM FinalResponseIsLast == Spec => []FinalIsLast
<1>1. Init => FinalIsLast /\ OwedInv
  BY DEF Init, FinalIsLast, OwedInv, Unanswered, Printed, Answering
<1>2. Inv /\ (FinalIsLast /\ OwedInv) /\ [Next]_vars => (FinalIsLast /\ OwedInv)'
  BY NextOwedInv
<1> QED
  BY <1>1, <1>2, SpecInv, PTL DEF Spec

-------------------------------------------------------------------------------
(* What the steps make of the bot of one thread are steps of the service, or nothing it shows.      *)
LEMMA QuietBot ==
  ASSUME NEW t \in Threads, bot'[t] = bot[t]
  PROVE  UNCHANGED Bot(t)!service
BY DEF Bot!service

(* A bot that is stopped, whether its results are dropped or not.                     *)
LEMMA StoppedBot ==
  ASSUME NEW t \in Threads, bot[t] \in Bots,
         \/ bot'[t] = [bot[t] EXCEPT !.stop = TRUE]
         \/ bot'[t] = [bot[t] EXCEPT !.stop = TRUE, !.results = FALSE]
  PROVE  Bot(t)!Stop
BY DEF Bots, Bot!Stop

(* Every step of the engine is one of the service for each thread's bot, or none.     *)
LEMMA ServiceStep ==
  ASSUME Inv, [Next]_vars, NEW t \in Threads
  PROVE  [Bot(t)!Next]_(Bot(t)!service)
<1> TypeOK /\ bot \in [Threads -> Bots] /\ bot[t] \in Bots
  BY DEF Inv, TypeOK
<1> USE DEF Bot!Next
<1>1. CASE bot'[t] = bot[t]
  BY <1>1, QuietBot
<1>2. ASSUME NEW u \in Threads, StopBots(u) \/ SearchReachesLimit(u)
      PROVE  [Bot(t)!Next]_(Bot(t)!service)
  BY <1>1, <1>2, StoppedBot DEF StopBots, SearchReachesLimit, StopBot
<1>3. CASE StopTerminated
  BY <1>1, <1>3, StoppedBot DEF StopTerminated, StopBot
<1>4. ASSUME NEW u \in Threads, KillBots(u) PROVE [Bot(t)!Next]_(Bot(t)!service)
  <2>1. CASE u = t
    <3>1. bot'[t] = [bot[t] EXCEPT !.stop = TRUE, !.killed = TRUE]
      BY <1>4, <2>1 DEF KillBots
    <3>2. Bot(t)!Kill
      BY <3>1 DEF Bots, Bot!Kill
    <3> QED
      BY <3>2
  <2> QED
    BY <1>1, <1>4, <2>1 DEF KillBots
<1>5. ASSUME NEW u \in Threads, GenMove(u) PROVE [Bot(t)!Next]_(Bot(t)!service)
  <2>1. CASE u = t /\ bot[t].killed
    BY <1>5, <2>1, StoppedBot DEF GenMove
  <2>2. CASE u = t /\ ~bot[t].killed
    <3>1. bot'[t] = [bot[t] EXCEPT !.phase = "queued", !.stop = FALSE, !.results = FALSE, !.reports = 0]
      BY <1>5, <2>2 DEF GenMove
    <3>2. bot[t].phase = "idle"
      BY <1>5, <2>2 DEF GenMove, Inv, WorkerInv
    <3>3. Bot(t)!Accept
      BY <2>2, <3>1, <3>2 DEF Bots, Bot!Accept
    <3> QED
      BY <3>3
  <2> QED
    BY <1>1, <1>5, <2>1, <2>2 DEF GenMove
<1>6. ASSUME NEW u \in Threads, ClearSearch(u) PROVE [Bot(t)!Next]_(Bot(t)!service)
  BY <1>1, <1>6, StoppedBot DEF ClearSearch
<1>7. ASSUME NEW u \in Threads, BotStarts(u) PROVE [Bot(t)!Next]_(Bot(t)!service)
  <2>1. CASE u = t
    <3>1. bot'[t] = [bot[t] EXCEPT !.phase = "starting"] /\ bot[t].phase = "queued" /\ ~bot[t].killed
      BY <1>7, <2>1 DEF BotStarts
    <3>2. Bot(t)!Start
      BY <3>1 DEF Bots, Bot!Start
    <3> QED
      BY <3>2
  <2> QED
    BY <1>1, <1>7, <2>1 DEF BotStarts
<1>8. ASSUME NEW u \in Threads, OnSearchBegun(u) PROVE [Bot(t)!Next]_(Bot(t)!service)
  <2>1. CASE u = t /\ status[working[t]] = Popped
    <3>1. bot'[t] = [bot[t] EXCEPT !.phase = "searching"] /\ bot[t].phase = "starting"
      BY <1>8, <2>1 DEF OnSearchBegun
    <3>2. UNCHANGED Bot(t)!service
      BY <3>1 DEF Bots, Bot!service
    <3> QED
      BY <3>2
  <2>2. CASE u = t /\ status[working[t]] # Popped
    <3>1. bot'[t] = [bot[t] EXCEPT !.phase = "searching", !.stop = TRUE] /\ bot[t].phase = "starting"
      BY <1>8, <2>2 DEF OnSearchBegun
    <3>2. Bot(t)!Stop
      BY <3>1 DEF Bots, Bot!Stop
    <3> QED
      BY <3>2
  <2>3. CASE u # t
    <3>1. bot'[t] = bot[t]
      BY <1>8, <2>3 DEF OnSearchBegun
    <3> QED
      BY <1>1, <3>1
  <2> QED
    BY <2>1, <2>2, <2>3
<1>9. ASSUME NEW u \in Threads, FirstPlayout(u) \/ ReportDuringSearch(u)
      PROVE  [Bot(t)!Next]_(Bot(t)!service)
  <2>1. /\ bot'[t].phase = bot[t].phase /\ bot'[t].stop = bot[t].stop
        /\ bot'[t].killed = bot[t].killed
    <3>1. FirstPlayout(u) => bot' = [bot EXCEPT ![u].results = TRUE]
      BY DEF FirstPlayout
    <3>2. ReportDuringSearch(u) => bot' = [bot EXCEPT ![u].reports = @ + 1]
      BY DEF ReportDuringSearch
    <3> QED
      BY <1>9, <3>1, <3>2 DEF Bots
  <2>2. UNCHANGED Bot(t)!service
    BY <2>1 DEF Bot!service
  <2> QED
    BY <2>2
<1>10. ASSUME NEW u \in Threads, SearchEnds(u) PROVE [Bot(t)!Next]_(Bot(t)!service)
  <2>1. CASE u = t
    <3>1. bot'[t] = [bot[t] EXCEPT !.phase = "idle"] /\ bot[t].phase = "searching" /\ bot[t].stop
      BY <1>10, <2>1 DEF SearchEnds
    <3>2. <<>> = [i \in 1..0 |-> <<>>[i] + IF i = 0 THEN 1 ELSE 0]
      OBVIOUS
    <3>3. Bot(t)!Finish
      BY <3>1, <3>2 DEF Bots, Bot!Finish
    <3> QED
      BY <3>3
  <2> QED
    BY <1>1, <1>10, <2>1 DEF SearchEnds
<1>11. ASSUME NEW u \in Threads, SearchDropped(u) PROVE [Bot(t)!Next]_(Bot(t)!service)
  <2>1. CASE u = t
    <3>1. bot'[t] = [bot[t] EXCEPT !.phase = "idle"] /\ bot[t].phase = "queued" /\ bot[t].killed
      BY <1>11, <2>1 DEF SearchDropped
    <3>2. Bot(t)!Drop
      BY <3>1 DEF Bots, Bot!Drop
    <3> QED
      BY <3>2
  <2> QED
    BY <1>1, <1>11, <2>1 DEF SearchDropped
<1>12. CASE UNCHANGED bot
  BY <1>1, <1>12
<1>13. CASE \/ Input \/ WriteResponse \/ Exited \/ UNCHANGED vars
            \/ ReportNoAnalysisFromApi \/ TerminateDone \/ HaltWriting \/ HaltAnalyzing
            \/ JoinWorkers \/ JoinWriter
            \/ \E r \in Requests : PushRequest(r) \/ TerminateRequest(r)
            \/ \E u \in Threads : PopRequest(u) \/ PopFails(u) \/ ClaimRequest(u)
                                 \/ ReportAnalysis(u) \/ ReportNoAnalysis(u) \/ EraseRequest(u)
  BY <1>12, <1>13
  DEF Input, ReadQuery, ReadTerminate, ReadEof, WriteResponse, Exited, vars,
      ReportNoAnalysisFromApi, TerminateDone, HaltWriting, HaltAnalyzing, JoinWorkers, JoinWriter,
      PushRequest, TerminateRequest, PopRequest, PopFails, ClaimRequest, ReportAnalysis,
      ReportNoAnalysis, EraseRequest
<1> QED
  BY <1>2, <1>3, <1>4, <1>5, <1>6, <1>7, <1>8, <1>9, <1>10, <1>11, <1>13
  DEF Next, ApiContinues, Worker, BotProgresses

(* The bots of the engine, as the engine drives them, do no more than an AsyncBot is proved to do.   *)
THEOREM BotsKeepToTheService == Spec => BotsFollowService
<1>1. Init => \A t \in Threads : Bot(t)!Init
  BY DEF Init, Bot!Init
<1>2. Inv /\ [Next]_vars => [\A t \in Threads : [Bot(t)!Next]_(Bot(t)!service)]_vars
  BY ServiceStep
<1> QED
  BY <1>1, <1>2, SpecInv, PTL DEF Spec, BotsFollowService

-------------------------------------------------------------------------------
(* ThreadSafeQueue, through which the engine's threads hand each other requests and   *)
(* responses, for any threads, any capacity and any number of elements: its type       *)
(* invariant, that no wakeup is lost, and that it is a FIFO.                            *)

(* The elements pushed and popped are numbered in order, and what is in the vector *)
(* from headIdx on carries on where the elements popped end.                       *)
FifoOrder ==
  /\ \A i \in 1..Len(pushed) : pushed[i] = i
  /\ \A i \in 1..Len(popped) : popped[i] = i
  /\ Len(popped) <= Len(pushed)
  /\ ~closed => /\ headIdx <= Len(elts)
                /\ Len(popped) + Size = Len(pushed)
                /\ \A i \in headIdx + 1 .. Len(elts) : elts[i] = Len(popped) + i - headIdx

FifoInv == QueueTypeOK /\ FifoOrder /\ NoMissedWakeup

-------------------------------------------------------------------------------
(* A notification leaves every thread that is not parked alone, and leaves no       *)
(* thread of T parked.                                                              *)
LEMMA NotifyAllProperties ==
  ASSUME NEW T, NEW f \in [Callers -> {"idle", "waitPush", "waitPop", "parked"}]
  PROVE  /\ NotifyAll(T, f) \in [Callers -> {"idle", "waitPush", "waitPop", "parked"}]
         /\ \A t \in Callers : NotifyAll(T, f)[t] = "parked" => t \notin T /\ f[t] = "parked"
BY DEF NotifyAll

(* Appending to the vector and popping from it keep the vector a sequence, and what   *)
(* is left of it after the shift is the rest, moved down.                             *)
LEMMA ShiftProperties ==
  ASSUME NEW S, NEW s \in Seq(S), NEW h \in Nat, h < Len(s)
  PROVE  LET rest == SubSeq(s, h + 2, Len(s))
         IN  /\ rest \in Seq(S)
             /\ Len(rest) = Len(s) - h - 1
             /\ \A i \in 1..Len(rest) : rest[i] = s[h + 1 + i]
<1> DEFINE rest == SubSeq(s, h + 2, Len(s))
<1>1. Len(s) \in Nat /\ \A i \in 1..Len(s) : s[i] \in S
  OBVIOUS
<1>2. \A i \in h + 2 .. Len(s) : s[i] \in S
  BY <1>1
<1>3. rest \in Seq(S)
  BY <1>1, <1>2, SubSeqProperties
<1>4. Len(rest) = Len(s) - h - 1
  BY <1>1
<1>5. \A i \in 1..Len(rest) : rest[i] = s[h + 1 + i]
  BY <1>1, <1>4
<1> QED
  BY <1>3, <1>4, <1>5

(* An empty vector is one.                                                            *)
LEMMA NoElements == <<>> \in Seq(1..MaxPushes)
BY EmptySeq

(* The lengths are numbers, and in an open queue they add up.                           *)
LEMMA LengthProperties ==
  ASSUME QueueTypeOK
  PROVE  /\ Len(elts) \in Nat /\ headIdx \in Nat /\ Len(pushed) \in Nat /\ Len(popped) \in Nat
         /\ Size = Len(elts) - headIdx
         /\ \A i \in 1..Len(elts) : elts[i] \in 1..MaxPushes
         /\ \A i \in 1..Len(pushed) : pushed[i] \in 1..MaxPushes
<1>1. /\ \A i \in 1..Len(elts) : elts[i] \in 1..MaxPushes
      /\ \A i \in 1..Len(pushed) : pushed[i] \in 1..MaxPushes
  BY ElementOfSeq DEF QueueTypeOK
<1> QED
  BY <1>1 DEF QueueTypeOK, Size

-------------------------------------------------------------------------------
(* The invariant holds in the beginning.                                              *)
LEMMA FifoInit == QueueInit => FifoInv
<1> SUFFICES ASSUME QueueInit PROVE FifoInv
  OBVIOUS
<1> USE DEF QueueInit
<1>1. QueueTypeOK
  BY NoElements DEF QueueTypeOK
<1>2. FifoOrder
  BY DEF FifoOrder, Size
<1>3. NoMissedWakeup
  BY DEF NoMissedWakeup
<1> QED
  BY <1>1, <1>2, <1>3 DEF FifoInv

(* A push, by waitPush or by forcePush: the element comes last, and if the queue was  *)
(* empty no consumer stays parked.                                                     *)
LEMMA FifoPush ==
  ASSUME FifoInv, NEW p \in Producers, pc[p] # "parked", ~closed, ~readOnly, Push(p)
  PROVE  FifoInv'
<1> USE QueueAssumption DEF QueueAssumption
<1> QueueTypeOK /\ FifoOrder /\ NoMissedWakeup
  BY DEF FifoInv
<1> DEFINE returned == [pc EXCEPT ![p] = "idle"]
<1>1. /\ returned \in [Callers -> {"idle", "waitPush", "waitPop", "parked"}]
      /\ \A t \in Callers : returned[t] = "parked" => pc[t] = "parked"
  BY DEF QueueTypeOK, Callers
<1>2. /\ pc' \in [Callers -> {"idle", "waitPush", "waitPop", "parked"}]
      /\ \A t \in Callers : pc'[t] = "parked" => pc[t] = "parked"
      /\ Len(elts') - headIdx = 1 => \A t \in Consumers : pc'[t] # "parked"
  <2>1. CASE Len(elts') - headIdx = 1
    <3> pc' = NotifyAll(Consumers, returned)
      BY <2>1 DEF Push
    <3> HIDE DEF returned
    <3> QED
      BY <1>1, NotifyAllProperties DEF Callers
  <2>2. CASE Len(elts') - headIdx # 1
    BY <1>1, <2>2 DEF Push
  <2> QED
    BY <2>1, <2>2
<1>3. /\ elts' \in Seq(1..MaxPushes) /\ Len(elts') = Len(elts) + 1
      /\ pushed' \in Seq(1..MaxPushes) /\ Len(pushed') = Len(pushed) + 1
      /\ \A i \in 1..Len(elts) : elts'[i] = elts[i]
      /\ \A i \in 1..Len(pushed) : pushed'[i] = pushed[i]
      /\ elts'[Len(elts) + 1] = Len(pushed) + 1
      /\ pushed'[Len(pushed) + 1] = Len(pushed) + 1
  BY DEF QueueTypeOK, Push
<1>4. UNCHANGED <<headIdx, closed, readOnly, popped>>
  BY DEF Push
<1>5. QueueTypeOK'
  BY <1>2, <1>3, <1>4 DEF QueueTypeOK
<1>6. FifoOrder'
  <2>1. Size' = Size + 1
    BY <1>3, <1>4 DEF Size, QueueTypeOK
  <2>2. \A i \in headIdx + 1 .. Len(elts') : elts'[i] = Len(popped) + i - headIdx
    <3> TAKE i \in headIdx + 1 .. Len(elts')
    <3>1. CASE i \in headIdx + 1 .. Len(elts)
      BY <3>1, <1>3 DEF FifoOrder, QueueTypeOK
    <3>2. CASE i = Len(elts) + 1
      <4>1. Len(popped) + (Len(elts) - headIdx) = Len(pushed)
        BY DEF FifoOrder, Size
      <4>2. elts'[i] = Len(pushed) + 1
        BY <3>2, <1>3
      <4> QED
        BY <3>2, <4>1, <4>2, LengthProperties
    <3> QED
      BY <3>1, <3>2, <1>3, LengthProperties
  <2>3. \A i \in 1..Len(pushed') : pushed'[i] = i
    <3> TAKE i \in 1..Len(pushed')
    <3>1. i \in 1..Len(pushed) \/ i = Len(pushed) + 1
      BY <1>3, LengthProperties
    <3> QED
      BY <3>1, <1>3 DEF FifoOrder
  <2>4. Len(popped') <= Len(pushed') /\ headIdx' <= Len(elts') /\ Len(popped') + Size' = Len(pushed')
    <3>1. Len(popped) <= Len(pushed) /\ headIdx <= Len(elts) /\ Len(popped) + Size = Len(pushed)
      BY DEF FifoOrder
    <3>2. /\ Len(elts') = Len(elts) + 1 /\ Len(pushed') = Len(pushed) + 1 /\ Size' = Size + 1
          /\ Len(popped') = Len(popped) /\ headIdx' = headIdx
      BY <1>3, <1>4, <2>1
    <3>3. /\ Len(elts) \in Nat /\ headIdx \in Nat /\ Len(pushed) \in Nat /\ Len(popped) \in Nat
          /\ Size \in Int
      BY LengthProperties
    <3> QED
      BY ONLY <3>1, <3>2, <3>3
  <2>5. \A i \in 1..Len(popped') : popped'[i] = i
    BY <1>4 DEF FifoOrder
  <2> QED
    BY <1>4, <2>2, <2>3, <2>4, <2>5 DEF FifoOrder
<1>7. NoMissedWakeup'
  <2> SUFFICES ASSUME NEW t \in Callers, pc'[t] = "parked"
               PROVE  IF t \in Producers THEN Size' >= MaxSize ELSE Size' = 0
    BY <1>4 DEF NoMissedWakeup
  <2>1. pc[t] = "parked"
    BY <1>2
  <2>2. CASE t \in Producers
    BY <2>1, <2>2, <1>3, <1>4 DEF NoMissedWakeup, Size, QueueTypeOK
  <2>3. CASE t \in Consumers
    BY <2>1, <2>3, <1>2, <1>3, <1>4 DEF NoMissedWakeup, Size, QueueTypeOK, Callers
  <2> QED
    BY <2>2, <2>3 DEF Callers
<1> QED
  BY <1>5, <1>6, <1>7 DEF FifoInv

(* A pop, by waitPop or by tryPop: it takes the element that is due, and if the queue  *)
(* was exactly full no producer stays parked.                                          *)
LEMMA FifoPop ==
  ASSUME FifoInv, NEW c \in Consumers, pc[c] # "parked", Pop(c)
  PROVE  FifoInv'
<1> USE QueueAssumption DEF QueueAssumption
<1> QueueTypeOK /\ FifoOrder /\ NoMissedWakeup
  BY DEF FifoInv
<1> DEFINE returned == [pc EXCEPT ![c] = "idle"]
<1>1. /\ returned \in [Callers -> {"idle", "waitPush", "waitPop", "parked"}]
      /\ \A t \in Callers : returned[t] = "parked" => pc[t] = "parked"
  BY DEF QueueTypeOK, Callers
<1>2. /\ pc' \in [Callers -> {"idle", "waitPush", "waitPop", "parked"}]
      /\ \A t \in Callers : pc'[t] = "parked" => pc[t] = "parked"
      /\ Size = MaxSize => \A t \in Producers : pc'[t] # "parked"
  <2>1. CASE Size = MaxSize
    <3> pc' = NotifyAll(Producers, returned)
      BY <2>1 DEF Pop
    <3> HIDE DEF returned
    <3> QED
      BY <1>1, NotifyAllProperties DEF Callers
  <2>2. CASE Size # MaxSize
    BY <1>1, <2>2 DEF Pop
  <2> QED
    BY <2>1, <2>2
<1>3. /\ ~closed /\ Size > 0
      /\ UNCHANGED <<closed, readOnly, pushed>>
  BY DEF Pop
<1>4. headIdx < Len(elts) /\ elts[headIdx + 1] = Len(popped) + 1
  BY <1>3 DEF Size, FifoOrder, QueueTypeOK
<1>5. /\ popped' \in Seq(1..MaxPushes) /\ Len(popped') = Len(popped) + 1
      /\ \A i \in 1..Len(popped) : popped'[i] = popped[i]
      /\ popped'[Len(popped) + 1] = Len(popped) + 1
  <2>1. popped' = Append(popped, elts[headIdx + 1]) /\ elts[headIdx + 1] \in 1..MaxPushes
    BY <1>4 DEF Pop, PopElement, QueueTypeOK
  <2> QED
    BY <1>4, <2>1 DEF QueueTypeOK
<1>6. /\ elts' \in Seq(1..MaxPushes) /\ headIdx' \in Nat /\ headIdx' <= Len(elts')
      /\ Size' = Size - 1
      /\ \A i \in headIdx' + 1 .. Len(elts') : elts'[i] = Len(popped) + 1 + i - headIdx'
  <2>1. CASE headIdx + 1 > Len(elts) \div 2
    <3>1. elts' = SubSeq(elts, headIdx + 2, Len(elts)) /\ headIdx' = 0
      BY <2>1 DEF Pop, PopElement
    <3>2. /\ elts' \in Seq(1..MaxPushes) /\ Len(elts') = Len(elts) - headIdx - 1
          /\ \A i \in 1..Len(elts') : elts'[i] = elts[headIdx + 1 + i]
      <4>1. elts \in Seq(1..MaxPushes) /\ headIdx \in Nat /\ headIdx < Len(elts)
        BY <1>4 DEF QueueTypeOK
      <4> QED
        BY ONLY <4>1, <3>1, ShiftProperties, Zenon
    <3>3. \A i \in 1..Len(elts') : elts'[i] = Len(popped) + 1 + i
      BY <1>3, <3>2 DEF FifoOrder, QueueTypeOK
    <3>4. Size' = Size - 1
      BY <3>1, <3>2, LengthProperties DEF Size
    <3>5. Len(elts') \in Nat
      BY <3>2, <1>4, LengthProperties
    <3> QED
      BY <3>1, <3>2, <3>3, <3>4, <3>5, LengthProperties
  <2>2. CASE ~(headIdx + 1 > Len(elts) \div 2)
    <3>1. elts' = elts /\ headIdx' = headIdx + 1
      BY <2>2 DEF Pop, PopElement
    <3> QED
      BY <1>3, <1>4, <3>1 DEF Size, FifoOrder, QueueTypeOK
  <2> QED
    BY <2>1, <2>2
<1>7. QueueTypeOK'
  BY <1>2, <1>3, <1>5, <1>6 DEF QueueTypeOK
<1>8. FifoOrder'
  <2>1. \A i \in 1..Len(popped') : popped'[i] = i
    <3> TAKE i \in 1..Len(popped')
    <3>1. i \in 1..Len(popped) \/ i = Len(popped) + 1
      BY <1>5, LengthProperties
    <3> QED
      BY <3>1, <1>5 DEF FifoOrder
  <2>2. Len(popped') + Size' = Len(pushed') /\ Len(popped') <= Len(pushed')
    BY <1>3, <1>4, <1>5, <1>6, LengthProperties DEF FifoOrder
  <2>3. \A i \in 1..Len(pushed') : pushed'[i] = i
    BY <1>3 DEF FifoOrder
  <2> QED
    BY <1>5, <1>6, <2>1, <2>2, <2>3 DEF FifoOrder
<1>9. NoMissedWakeup'
  <2> SUFFICES ASSUME NEW t \in Callers, pc'[t] = "parked"
               PROVE  IF t \in Producers THEN Size' >= MaxSize ELSE Size' = 0
    BY <1>2, <1>3 DEF NoMissedWakeup
  <2> Size \in Int
    BY DEF Size, QueueTypeOK
  <2>1. pc[t] = "parked" /\ (t \in Producers => Size # MaxSize)
    BY <1>2
  <2> QED
    BY <2>1, <1>3, <1>6 DEF NoMissedWakeup, Callers
<1> QED
  BY <1>7, <1>8, <1>9 DEF FifoInv

(* The steps that only move a thread that is not going to be parked: calls, failing    *)
(* returns and spurious wakeups.                                                        *)
LEMMA FifoMove ==
  ASSUME FifoInv, UNCHANGED <<elts, headIdx, closed, readOnly, pushed, popped>>,
         pc' \in [Callers -> {"idle", "waitPush", "waitPop", "parked"}],
         \A t \in Callers : pc'[t] = "parked" => pc[t] = "parked"
  PROVE  FifoInv'
BY DEF FifoInv, QueueTypeOK, FifoOrder, NoMissedWakeup, Size

(* close and setReadOnly park nobody, and wake everybody.                               *)
LEMMA FifoEnd == FifoInv /\ (Close \/ SetReadOnly) => FifoInv'
<1> SUFFICES ASSUME FifoInv, Close \/ SetReadOnly PROVE FifoInv'
  OBVIOUS
<1> QueueTypeOK /\ FifoOrder /\ NoMissedWakeup
  BY DEF FifoInv
<1>1. /\ pc' \in [Callers -> {"idle", "waitPush", "waitPop", "parked"}]
      /\ \A t \in Callers : pc'[t] # "parked"
  BY NotifyAllProperties DEF QueueTypeOK, Close, SetReadOnly
<1>2. QueueTypeOK'
  BY <1>1, NoElements DEF QueueTypeOK, Close, SetReadOnly
<1>3. FifoOrder'
  BY DEF FifoOrder, QueueTypeOK, Size, Close, SetReadOnly
<1>4. NoMissedWakeup'
  BY <1>1 DEF NoMissedWakeup
<1> QED
  BY <1>2, <1>3, <1>4 DEF FifoInv

(* A thread parks only when it has just found nothing to do.                            *)
LEMMA FifoPark ==
  ASSUME FifoInv, NEW t \in Callers,
         \/ t \in Producers /\ WaitNotFull(t)
         \/ t \in Consumers /\ WaitNotEmpty(t)
  PROVE  FifoInv'
<1> QueueTypeOK /\ FifoOrder /\ NoMissedWakeup
  BY DEF FifoInv
<1>1. /\ UNCHANGED <<elts, headIdx, closed, readOnly, pushed, popped>>
      /\ pc' = [pc EXCEPT ![t] = "parked"]
      /\ ~closed /\ ~readOnly
      /\ IF t \in Producers THEN Size >= MaxSize ELSE Size <= 0
  BY QueueAssumption DEF QueueAssumption, WaitNotFull, WaitNotEmpty
<1>2. QueueTypeOK'
  BY <1>1 DEF QueueTypeOK
<1>3. FifoOrder'
  BY <1>1 DEF FifoOrder, Size
<1>4. Size <= 0 => Size = 0
  BY <1>1 DEF FifoOrder, Size, QueueTypeOK
<1>5. NoMissedWakeup'
  BY <1>1, <1>4 DEF NoMissedWakeup, Size, QueueTypeOK
<1> QED
  BY <1>2, <1>3, <1>5 DEF FifoInv

(* Every step keeps the invariant.                                                    *)
LEMMA FifoNext == FifoInv /\ [QueueNext]_queue => FifoInv'
<1> SUFFICES ASSUME FifoInv, [QueueNext]_queue PROVE FifoInv'
  OBVIOUS
<1>0. pc \in [Callers -> {"idle", "waitPush", "waitPop", "parked"}]
  BY DEF FifoInv, QueueTypeOK
<1>1. ASSUME NEW p \in Producers, CallWaitPush(p) \/ WaitPushFails(p) PROVE FifoInv'
  BY <1>0, <1>1, FifoMove DEF CallWaitPush, WaitPushFails, Callers
<1>2. ASSUME NEW p \in Producers, ForcePush(p) \/ WaitPushSucceeds(p) PROVE FifoInv'
  BY <1>2, FifoPush DEF ForcePush, WaitPushSucceeds
<1>3. ASSUME NEW c \in Consumers, CallWaitPop(c) \/ WaitPopFails(c) PROVE FifoInv'
  BY <1>0, <1>3, FifoMove DEF CallWaitPop, WaitPopFails, Callers
<1>4. ASSUME NEW c \in Consumers, TryPop(c) \/ WaitPopSucceeds(c) PROVE FifoInv'
  BY <1>4, FifoPop DEF TryPop, WaitPopSucceeds
<1>5. ASSUME NEW t \in Callers,
             \/ t \in Producers /\ WaitNotFull(t)
             \/ t \in Consumers /\ WaitNotEmpty(t)
      PROVE  FifoInv'
  BY <1>5, FifoPark
<1>6. ASSUME NEW t \in Callers, SpuriousWakeup(t) PROVE FifoInv'
  BY <1>0, <1>6, FifoMove, NotifyAllProperties DEF SpuriousWakeup
<1>7. CASE Close \/ SetReadOnly
  BY <1>7, FifoEnd
<1>8. CASE UNCHANGED queue
  BY <1>0, <1>8, FifoMove DEF queue
<1> QED
  BY <1>1, <1>2, <1>3, <1>4, <1>5, <1>6, <1>7, <1>8
  DEF QueueNext, ProducerContinues, ConsumerContinues, Callers

(* The invariant holds in every state of every behaviour.                             *)
LEMMA FifoAlways == QueueSpec => []FifoInv
BY FifoInit, FifoNext, PTL DEF QueueSpec

-------------------------------------------------------------------------------
(* The vector and its head index stay what their types say, through every shift.        *)
THEOREM QueueTypeCorrect == QueueSpec => []QueueTypeOK
<1>1. FifoInv => QueueTypeOK
  BY DEF FifoInv
<1> QED
  BY <1>1, FifoAlways, PTL

(* No wakeup is lost: a producer sleeps only on a full queue, a consumer only on an      *)
(* empty one, and neither on one that is closed or read-only.                            *)
THEOREM WakeupsAreNotMissed == QueueSpec => []NoMissedWakeup
<1>1. FifoInv => NoMissedWakeup
  BY DEF FifoInv
<1> QED
  BY <1>1, FifoAlways, PTL

(* What was popped followed by what is in the queue is what was pushed, as long as the   *)
(* queue is open; what was popped is a prefix of what was pushed ever after.             *)
LEMMA InvFirstInFirstOut == FifoInv => FirstInFirstOut
<1> SUFFICES ASSUME FifoInv PROVE FirstInFirstOut
  OBVIOUS
<1> QueueTypeOK /\ FifoOrder
  BY DEF FifoInv
<1>1. ASSUME ~closed PROVE popped \o Contents = pushed
  <2> DEFINE rest == SubSeq(elts, headIdx + 1, Len(elts))
             all  == popped \o rest
  <2>1. /\ rest \in Seq(1..MaxPushes) /\ Len(rest) = Len(elts) - headIdx
        /\ \A i \in 1..Len(rest) : rest[i] = elts[headIdx + i]
    <3>1. \A i \in headIdx + 1 .. Len(elts) : elts[i] \in 1..MaxPushes
      BY LengthProperties
    <3>2. Len(elts) \in Nat /\ headIdx \in Nat /\ headIdx <= Len(elts)
      BY <1>1 DEF QueueTypeOK, FifoOrder
    <3>3. rest \in Seq(1..MaxPushes)
      BY <3>1, <3>2, SubSeqProperties DEF QueueTypeOK
    <3> QED
      BY <3>2, <3>3
  <2>2. /\ all \in Seq(1..MaxPushes) /\ Len(all) = Len(pushed)
        /\ \A i \in 1..Len(all) :
             all[i] = IF i <= Len(popped) THEN popped[i] ELSE rest[i - Len(popped)]
    <3> HIDE DEF rest
    <3> QED
      BY <1>1, <2>1 DEF QueueTypeOK, FifoOrder, Size
  <2>3. \A i \in 1..Len(all) : all[i] = pushed[i]
    <3> HIDE DEF rest, all
    <3> TAKE i \in 1..Len(all)
    <3>1. CASE i <= Len(popped)
      BY <3>1, <2>2 DEF FifoOrder, QueueTypeOK
    <3>2. CASE i > Len(popped)
      <4>1. /\ i - Len(popped) \in 1..Len(rest)
            /\ headIdx + (i - Len(popped)) \in headIdx + 1 .. Len(elts)
        BY <1>1, <3>2, <2>1, <2>2 DEF FifoOrder, QueueTypeOK, Size
      <4>2. rest[i - Len(popped)] = elts[headIdx + (i - Len(popped))]
        BY <4>1, <2>1
      <4>3. elts[headIdx + (i - Len(popped))] = i
        BY <1>1, <4>1, <3>2 DEF FifoOrder, QueueTypeOK
      <4> QED
        BY <3>2, <2>2, <4>2, <4>3 DEF FifoOrder, QueueTypeOK
    <3> QED
      BY <3>1, <3>2, <2>2 DEF QueueTypeOK
  <2>4. all = pushed
    <3> HIDE DEF rest, all
    <3> QED
      BY <2>2, <2>3, SeqEqual DEF QueueTypeOK
  <2> QED
    BY <1>1, <2>4 DEF Contents
<1>2. popped = SubSeq(pushed, 1, Len(popped))
  <2> DEFINE prefix == SubSeq(pushed, 1, Len(popped))
  <2>1. \A i \in 1 .. Len(popped) : pushed[i] \in 1..MaxPushes
    BY LengthProperties DEF FifoOrder
  <2>2. /\ prefix \in Seq(1..MaxPushes) /\ Len(prefix) = Len(popped)
        /\ \A i \in 1..Len(popped) : prefix[i] = pushed[i]
    BY <2>1, SubSeqProperties, LengthProperties
  <2>3. \A i \in 1..Len(popped) : prefix[i] = popped[i]
    BY <2>2, LengthProperties DEF FifoOrder
  <2> HIDE DEF prefix
  <2> QED
    BY <2>2, <2>3, SeqEqual DEF QueueTypeOK
<1> QED
  BY <1>1, <1>2 DEF FirstInFirstOut

(* First in, first out, nothing lost and nothing twice, whatever the threads do.          *)
THEOREM QueueIsFIFO == QueueSpec => []FirstInFirstOut
BY InvFirstInFirstOut, FifoAlways, PTL
===============================================================================
