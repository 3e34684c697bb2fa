------------------------- MODULE NNEvaluator_proofs -------------------------
(* Proofs about NNEvaluator, for any clients, servers, batch size and ring that  *)
(* the code's formula admits: a call is in exactly one row of one batch until a   *)
(* server has answered it, and gets what it asked for.                            *)
(* The second part is about GenBook, whose searches are of that net: for any       *)
(* positions, threads and lines, the links of the book stay whole, and every value *)
(* in its file is of a search that left out the moves the file has.                *)
EXTENDS NNEvaluator, GenBook, FiniteSetTheorems, SequenceTheorems, WellFoundedInduction, TLAPS

(* TypeOK without the counters, whose types follow from what they count (Counts).    *)
Types ==
  /\ resultBufss \in [Idxs -> Batches]
  /\ currentLen \in Rows /\ currentIdx \in Idxs /\ oldestIdx \in Idxs
  /\ mainPc \in MainPcs
  /\ serverPc \in [Servers -> ServerPcs]
  /\ serverBuf \in [Servers -> Batches]
  /\ serverRows \in [Servers -> 0..MaxNumRows]
  /\ serverRow \in [Servers -> Rows]
  /\ clientPc \in [Clients -> ClientPcs]
  /\ request \in [Clients -> Outputs]
  /\ hasResult \in [Clients -> BOOLEAN]
  /\ result \in [Clients -> Outputs]
  /\ cache \in [Slots -> Outputs]

(* A client whose row has not been answered.                                       *)
Waiting(c) == clientPc[c] \in {"await", "parked"} /\ ~hasResult[c]

(* Batches of the ring that are full and that no server has taken: those from the   *)
(* oldest up to the one that is being filled.                                       *)
Full(i) ==
  IF oldestIdx <= currentIdx THEN oldestIdx <= i /\ i < currentIdx
                             ELSE oldestIdx <= i \/ i < currentIdx

(* The rows in use are those of the full batches and the first of the current one.   *)
RingInv ==
  \A i \in Idxs, r \in Rows :
    resultBufss[i][r] # Nobody <=> Full(i) \/ (i = currentIdx /\ r < currentLen)

(* A server works on a batch exactly while rows of it are to be answered, and has no  *)
(* batch while the threads are down.                                                  *)
ServerInv ==
  /\ mainPc = "down" => \A s \in Servers : serverPc[s] = "none"
  /\ \A s \in Servers :
       /\ serverPc[s] = "serving" <=> serverRow[s] < serverRows[s]
       /\ \A r \in Rows : serverBuf[s][r] # Nobody <=> serverRow[s] <= r /\ r < serverRows[s]

(* No two rows belong to one client.                                                  *)
RowsDiffer ==
  /\ \A i, j \in Idxs, r, q \in Rows :
       resultBufss[i][r] # Nobody /\ resultBufss[i][r] = resultBufss[j][q] => i = j /\ r = q
  /\ \A s, t \in Servers, r, q \in Rows :
       serverBuf[s][r] # Nobody /\ serverBuf[s][r] = serverBuf[t][q] => s = t /\ r = q
  /\ \A i \in Idxs, s \in Servers, r, q \in Rows :
       resultBufss[i][r] # Nobody => resultBufss[i][r] # serverBuf[s][q]

(* The rows belong to the clients that wait.                                          *)
InRing(c)   == \E i \in Idxs, r \in Rows : resultBufss[i][r] = c
InServer(c) == \E s \in Servers, r \in Rows : serverBuf[s][r] = c
RowsAreWaiting ==
  \A c \in Clients : Waiting(c) <=> InRing(c) \/ InServer(c)

(* A call that still needs a row has no result: hasResult was cleared.               *)
CallInv == \A c \in Clients : clientPc[c] = "enqueue" => ~hasResult[c]

Inv == Types /\ RingInv /\ ServerInv /\ RowsDiffer /\ RowsAreWaiting /\ CallInv

-------------------------------------------------------------------------------
(* Batches and ring have room for a row at least, and the ring, whose length is that of   *)
(* the constructor's formula, for more full batches than the clients can fill.            *)
LEMMA Sizes ==
  /\ MaxNumRows \in Nat \ {0} /\ NumResultBufss \in Nat /\ NumResultBufss >= 3
  /\ MaxConcurrentEvals < (NumResultBufss - 2) * MaxNumRows
  /\ 0 \in Rows /\ 0 \in Idxs /\ \A i \in Idxs : NextIdx(i) \in Idxs /\ NextIdx(i) # i
<1> DEFINE q == MaxConcurrentEvals \div MaxNumRows
<1>1. MaxNumRows \in Nat \ {0} /\ MaxConcurrentEvals \in Nat \ {0} /\ NumResultBufss \in Nat
  BY ConstantsAssumption, RingAssumption DEF ConstantsAssumption, RingAssumption
<1>2. q \in Nat /\ MaxConcurrentEvals < (q + 1) * MaxNumRows
  BY <1>1, SMT
<1>3. NumResultBufss >= q + 3
  BY RingAssumption DEF RingAssumption
<1>4. (NumResultBufss - 2) * MaxNumRows >= (q + 1) * MaxNumRows
  <2> HIDE DEF q
  <2> QED
    BY <1>1, <1>2, <1>3, SMT
<1>5. (NumResultBufss - 2) * MaxNumRows \in Int /\ (q + 1) * MaxNumRows \in Int
  BY <1>1, <1>2
<1>6. MaxConcurrentEvals < (NumResultBufss - 2) * MaxNumRows
  <2> HIDE DEF q
  <2> QED
    BY <1>1, <1>2, <1>4, <1>5
<1>7. NumResultBufss >= 3
  BY <1>1, <1>2, <1>3
<1> HIDE DEF q
<1> QED
  BY <1>1, <1>6, <1>7 DEF Rows, Idxs, NextIdx

(* There is always a batch to go on to: the next one is not still waiting for a server. *)
LEMMA RingHasRoom ==
  ASSUME Inv
  PROVE  NextIdx(currentIdx) # oldestIdx
<1> SUFFICES ASSUME NextIdx(currentIdx) = oldestIdx
             PROVE  FALSE
  OBVIOUS
<1> DEFINE full == Idxs \ {currentIdx}
           rows == full \X Rows
           f == [p \in rows |-> resultBufss[p[1]][p[2]]]
<1>1. \A i \in full : Full(i)
  BY Sizes DEF Inv, Types, Full, NextIdx, Idxs
<1>2. f \in Injection(rows, Clients)
  <2>1. \A p \in rows : p[1] \in Idxs /\ p[2] \in Rows /\ resultBufss[p[1]][p[2]] # Nobody
    BY <1>1 DEF Inv, RingInv
  <2>2. \A p \in rows : f[p] \in Clients
    BY <2>1 DEF Inv, Types, Batches
  <2>3. \A p, o \in rows : f[p] = f[o] => p = o
    BY <2>1 DEF Inv, RowsDiffer
  <2> QED
    BY <2>2, <2>3 DEF Injection, IsInjective
<1>3. IsFiniteSet(Idxs) /\ Cardinality(Idxs) = NumResultBufss
  BY Sizes, FS_Interval DEF Idxs
<1>4. IsFiniteSet(Rows) /\ Cardinality(Rows) = MaxNumRows
  BY Sizes, FS_Interval DEF Rows
<1>5. IsFiniteSet(full) /\ Cardinality(full) = NumResultBufss - 1
  BY <1>3, FS_RemoveElement DEF Inv, Types
<1>6. Cardinality(rows) = (NumResultBufss - 1) * MaxNumRows
  BY <1>4, <1>5, FS_Product
<1>7. Cardinality(rows) <= Cardinality(Clients) /\ Cardinality(Clients) <= MaxConcurrentEvals
  <2> HIDE DEF f, rows
  <2> QED
    BY <1>2, FS_Injection, ConstantsAssumption DEF ConstantsAssumption
<1>8. (NumResultBufss - 2) * MaxNumRows <= (NumResultBufss - 1) * MaxNumRows
  BY Sizes, SMT
<1> QED
  BY <1>6, <1>7, <1>8, Sizes, ConstantsAssumption, FS_CardinalityType DEF ConstantsAssumption

-------------------------------------------------------------------------------
(* The evaluator starts with empty batches and nobody in a call.                          *)
LEMMA InitInv == Init => Inv
<1> SUFFICES ASSUME Init PROVE Inv
  OBVIOUS
<1>1. NoBatch \in Batches /\ NoOutput \in Outputs
  BY DEF NoBatch, Batches, NoOutput, Outputs
<1>2. Types
  BY <1>1, Sizes DEF Init, Types, MainPcs, ServerPcs, ClientPcs
<1>3. /\ \A i \in Idxs, r \in Rows : resultBufss[i][r] = Nobody
      /\ \A s \in Servers, r \in Rows : serverBuf[s][r] = Nobody
  BY DEF Init, NoBatch
<1>4. RingInv
  BY <1>3 DEF Init, RingInv, Full, Idxs, Rows
<1>5. ServerInv
  BY <1>3 DEF Init, ServerInv, Rows
<1>6. RowsDiffer
  BY <1>3 DEF RowsDiffer
<1>7. RowsAreWaiting
  BY <1>3, ConstantsAssumption DEF Init, RowsAreWaiting, Waiting, InRing, InServer, ConstantsAssumption
<1>8. CallInv
  BY DEF Init, CallInv
<1> QED
  BY <1>2, <1>4, <1>5, <1>6, <1>7, <1>8 DEF Inv

(* Steps that leave the batches alone, and who waits for an answer.                     *)
LEMMA BatchesUnchanged ==
  ASSUME Inv, Types', UNCHANGED <<ringVars, batchVars>>,
         \A c \in Clients : Waiting(c)' <=> Waiting(c),
         \A s \in Servers : serverPc'[s] = "serving" <=> serverPc[s] = "serving",
         mainPc' = "down" => \A s \in Servers : serverPc'[s] = "none",
         \A c \in Clients : clientPc'[c] = "enqueue" => ~hasResult'[c]
  PROVE  Inv'
<1>1. RingInv'
  BY DEF Inv, RingInv, Full, ringVars
<1>2. ServerInv'
  BY DEF Inv, ServerInv, batchVars
<1>3. RowsDiffer'
  BY DEF Inv, RowsDiffer, ringVars, batchVars
<1>4. RowsAreWaiting'
  BY DEF Inv, RowsAreWaiting, InRing, InServer, ringVars, batchVars
<1>5. CallInv'
  BY DEF CallInv
<1> QED
  BY <1>1, <1>2, <1>3, <1>4, <1>5 DEF Inv

(* Back from a batch, a server lets waiters for the next batch go, and nobody else.      *)
LEMMA CountBatchDoneKeeps ==
  ASSUME Types, NEW s \in Servers, CountBatchDone(s)
  PROVE  /\ clientPc' \in [Clients -> ClientPcs]
         /\ \A c \in Clients : clientPc'[c] = clientPc[c] \/ (clientPc[c] = "waitParked" /\ clientPc'[c] = "waitCheck")
BY DEF Types, CountBatchDone, ClientPcs, WaitPcs

-------------------------------------------------------------------------------
(* Spawning and killing the servers touches no batch: no server serves then.               *)
LEMMA OwnerKeepsInv ==
  ASSUME Inv, SpawnServerThreads \/ KillServerThreads \/ Owner
  PROVE  Inv'
<1> USE DEF Inv, ringVars, waitVars, mainVars, batchVars, clientData
<1>1. CASE SpawnServerThreads
  <2>1. Types'
    BY <1>1 DEF SpawnServerThreads, Types, MainPcs, ServerPcs
  <2> QED
    BY <1>1, <2>1, BatchesUnchanged DEF SpawnServerThreads, Waiting, CallInv, ServerInv
<1>2. CASE KillServerThreads
  <2>1. Types'
    BY <1>2 DEF KillServerThreads, Types, MainPcs, ServerPcs
  <2>2. \A s \in Servers : serverPc'[s] = "serving" <=> serverPc[s] = "serving"
    BY <1>2 DEF KillServerThreads, Types
  <2> QED
    BY <1>2, <2>1, <2>2, BatchesUnchanged DEF KillServerThreads, Waiting, CallInv
<1>3. CASE WaitForSpawn
  <2>1. Types'
    BY <1>3 DEF WaitForSpawn, Types, MainPcs
  <2> QED
    BY <1>3, <2>1, BatchesUnchanged DEF WaitForSpawn, Waiting, CallInv
<1>4. CASE JoinServerThreads
  <2>1. Types'
    BY <1>4 DEF JoinServerThreads, Types, MainPcs, ServerPcs
  <2> QED
    BY <1>4, <2>1, BatchesUnchanged DEF JoinServerThreads, Waiting, CallInv
<1> QED
  BY <1>1, <1>2, <1>3, <1>4 DEF Owner

(* A call clears hasResult, or is answered from the table and needs no row.                 *)
LEMMA CallsKeepInv ==
  ASSUME Inv, NEW c \in Clients, Calls(c)
  PROVE  Inv'
<1> USE DEF Inv, ringVars, waitVars, mainVars, batchVars, clientData
<1>1. ASSUME NEW q \in Requests, NEW skipCache \in BOOLEAN, CallEvaluate(c, q, skipCache)
      PROVE  Inv'
  <2>1. q \in Outputs /\ NoOutput \in Outputs
    BY DEF Outputs
  <2>2. FoundInCache(c, q) => cache[SlotOf[q.pos]] \in Outputs
    BY ConstantsAssumption DEF FoundInCache, ConstantsAssumption, Requests, Types
  <2>3. Types'
    BY <1>1, <2>1, <2>2 DEF CallEvaluate, Types, ClientPcs
  <2>4. \A d \in Clients : d # c => clientPc'[d] = clientPc[d] /\ hasResult'[d] = hasResult[d]
    BY <1>1 DEF CallEvaluate, Types
  <2>5. clientPc[c] = "idle" /\ clientPc'[c] \in {"idle", "enqueue"} /\ (clientPc'[c] = "enqueue" => ~hasResult'[c])
    BY <1>1 DEF CallEvaluate, Types
  <2>6. mainPc' = "up" /\ UNCHANGED <<ringVars, batchVars, serverPc>>
    BY <1>1 DEF CallEvaluate
  <2>7. \A d \in Clients : Waiting(d)' <=> Waiting(d)
    BY <2>4, <2>5 DEF Waiting
  <2>8. \A d \in Clients : clientPc'[d] = "enqueue" => ~hasResult'[d]
    BY <2>4, <2>5 DEF CallInv
  <2> QED
    BY <2>3, <2>6, <2>7, <2>8, BatchesUnchanged
<1>2. CASE CallWaitForNext(c)
  <2>1. Types'
    BY <1>2 DEF CallWaitForNext, Types, ClientPcs, WaitPcs
  <2>2. /\ mainPc' = "up" /\ UNCHANGED <<ringVars, batchVars, serverPc, hasResult>>
        /\ \A d \in Clients : clientPc'[d] = clientPc[d] \/ (clientPc[d] = "idle" /\ clientPc'[d] = "waitParked")
    BY <1>2 DEF CallWaitForNext, Types
  <2> QED
    BY <2>1, <2>2, BatchesUnchanged DEF Waiting, CallInv
<1> QED
  BY <1>1, <1>2 DEF Calls

(* A spurious wakeup only makes a thread look again.                                       *)
LEMMA WakeupKeepsInv ==
  ASSUME Inv, Wakeup
  PROVE  Inv'
<1> USE DEF Inv, ringVars, waitVars, mainVars, batchVars, clientData
<1>1. Types'
  BY DEF Wakeup, SpuriousWakeup, Types, MainPcs, ServerPcs, ClientPcs, WaitPcs
<1>2. /\ \A d \in Clients : clientPc'[d] = clientPc[d] \/ (clientPc[d] = "parked" /\ clientPc'[d] = "await")
                              \/ (clientPc[d] = "waitParked" /\ clientPc'[d] = "waitCheck")
      /\ \A s \in Servers : serverPc'[s] = serverPc[s] \/ (serverPc[s] = "parked" /\ serverPc'[s] = "check")
      /\ mainPc' = "down" => mainPc = "down"
      /\ UNCHANGED <<ringVars, batchVars, hasResult>>
  BY DEF Wakeup, SpuriousWakeup, Types
<1>3. mainPc' = "down" => \A s \in Servers : serverPc'[s] = "none"
  BY <1>2 DEF ServerInv
<1> QED
  BY <1>1, <1>2, <1>3, BatchesUnchanged DEF Waiting, CallInv

(* A client goes to sleep without an answer, and returns with one.                         *)
LEMMA ClientKeepsInv ==
  ASSUME Inv, NEW c \in Clients, AwaitResult(c) \/ ReturnResult(c) \/ WaitForNext(c)
  PROVE  Inv'
<1> USE DEF Inv, ringVars, waitVars, mainVars, batchVars, clientData
<1>1. CASE AwaitResult(c)
  <2>1. Types'
    BY <1>1 DEF AwaitResult, Types, ClientPcs
  <2> QED
    BY <1>1, <2>1, BatchesUnchanged DEF AwaitResult, Types, Waiting, CallInv, ServerInv
<1>2. CASE ReturnResult(c)
  <2>1. Types'
    BY <1>2 DEF ReturnResult, Types, ClientPcs
  <2>2. /\ UNCHANGED <<ringVars, batchVars, serverPc, mainPc, hasResult>>
        /\ hasResult[c] /\ clientPc'[c] = "idle"
        /\ \A d \in Clients : d # c => clientPc'[d] = clientPc[d]
    BY <1>2 DEF ReturnResult, Types
  <2> QED
    BY <2>1, <2>2, BatchesUnchanged DEF Waiting, CallInv, ServerInv
<1>3. CASE WaitForNext(c)
  <2>1. Types'
    BY <1>3 DEF WaitForNext, Types, ClientPcs, WaitPcs
  <2>2. /\ UNCHANGED <<ringVars, batchVars, serverPc, mainPc, hasResult>>
        /\ clientPc[c] = "waitCheck" /\ clientPc'[c] \in {"idle", "waitParked"}
        /\ \A d \in Clients : d # c => clientPc'[d] = clientPc[d]
    BY <1>3 DEF WaitForNext, Types
  <2> QED
    BY <2>1, <2>2, BatchesUnchanged DEF Waiting, CallInv, ServerInv
<1> QED
  BY <1>1, <1>2, <1>3

(* A server that takes no batch changes none.                                              *)
LEMMA ServerLoopKeepsInv ==
  ASSUME Inv, NEW s \in Servers, ServerStarts(s) \/ ServerWaits(s) \/ ServerEnds(s)
  PROVE  Inv'
<1> USE DEF Inv, ringVars, waitVars, mainVars, batchVars, clientData
<1>1. CASE ServerStarts(s)
  <2>1. Types'
    BY <1>1 DEF ServerStarts, Types, ServerPcs, MainPcs
  <2>2. mainPc' # "down"
    BY <1>1 DEF ServerStarts, ServerInv
  <2>3. \A t \in Servers : serverPc'[t] = "serving" <=> serverPc[t] = "serving"
    BY <1>1 DEF ServerStarts, Types
  <2> QED
    BY <1>1, <2>1, <2>2, <2>3, BatchesUnchanged DEF ServerStarts, Waiting, CallInv
<1>2. CASE ServerWaits(s) \/ ServerEnds(s)
  <2>1. /\ clientPc' \in [Clients -> ClientPcs]
        /\ \A c \in Clients : clientPc'[c] = clientPc[c] \/ (clientPc[c] = "waitParked" /\ clientPc'[c] = "waitCheck")
    BY <1>2, CountBatchDoneKeeps DEF ServerWaits, ServerEnds
  <2>2. Types'
    BY <1>2, <2>1 DEF ServerWaits, ServerEnds, Types, ServerPcs
  <2>3. mainPc' # "down" /\ UNCHANGED <<ringVars, batchVars, hasResult>>
    BY <1>2 DEF ServerWaits, ServerEnds, ServerInv, AtLoopHead
  <2>4. \A t \in Servers : serverPc'[t] = "serving" <=> serverPc[t] = "serving"
    BY <1>2 DEF ServerWaits, ServerEnds, AtLoopHead, Types
  <2> QED
    BY <2>1, <2>2, <2>3, <2>4, BatchesUnchanged DEF Waiting, CallInv
<1> QED
  BY <1>1, <1>2

(* The table has no part in the batches.                                                   *)
LEMMA ClearCacheKeepsInv ==
  ASSUME Inv, NEW i \in Slots, ClearCacheEntry(i)
  PROVE  Inv'
<1> USE DEF Inv, ringVars, waitVars, mainVars, batchVars, clientData
<1>1. Types'
  BY DEF ClearCacheEntry, Types, NoOutput, Outputs
<1> QED
  BY <1>1, BatchesUnchanged DEF ClearCacheEntry, Waiting, CallInv, ServerInv

-------------------------------------------------------------------------------
(* A call adds one row, in a place that is free.                                          *)
LEMMA EnqueueKeepsInv ==
  ASSUME Inv, NEW c \in Clients, Enqueue(c)
  PROVE  Inv'
<1> USE DEF Inv, waitVars, mainVars, batchVars, clientData
<1>1. /\ c # Nobody /\ clientPc[c] = "enqueue" /\ ~hasResult[c]
      /\ resultBufss[currentIdx][currentLen] = Nobody
      /\ ~InRing(c) /\ ~InServer(c)
  <2>1. c # Nobody /\ clientPc[c] = "enqueue" /\ ~hasResult[c] /\ ~Waiting(c)
    BY ConstantsAssumption DEF Enqueue, ConstantsAssumption, CallInv, Waiting
  <2>2. resultBufss[currentIdx][currentLen] = Nobody
    BY DEF RingInv, Full, Types, Idxs, Rows
  <2> QED
    BY <2>1, <2>2 DEF RowsAreWaiting
<1>2. /\ currentIdx' \in Idxs /\ currentLen' \in Rows
      /\ resultBufss' \in [Idxs -> Batches]
      /\ \A i \in Idxs, r \in Rows :
           resultBufss'[i][r] = IF i = currentIdx /\ r = currentLen THEN c ELSE resultBufss[i][r]
  <2>1. currentIdx' \in Idxs /\ currentLen' \in Rows
    BY Sizes DEF Enqueue, Types, Rows
  <2>2. resultBufss' \in [Idxs -> Batches]
    BY DEF Enqueue, Types, Batches
  <2>3. ASSUME NEW i \in Idxs, NEW r \in Rows
        PROVE  resultBufss'[i][r] = IF i = currentIdx /\ r = currentLen THEN c ELSE resultBufss[i][r]
    BY DEF Enqueue, Types, Batches
  <2> QED
    BY <2>1, <2>2, <2>3
<1>3. /\ UNCHANGED <<oldestIdx, mainPc, batchVars, clientData>>
      /\ \A t \in Servers : serverPc'[t] = serverPc[t] \/ (serverPc[t] = "parked" /\ serverPc'[t] = "check")
      /\ serverPc' \in [Servers -> ServerPcs]
      /\ clientPc' = [clientPc EXCEPT ![c] = "await"]
  BY DEF Enqueue, NotifyOneServer, Types, ServerPcs
<1>4. Types'
  BY <1>2, <1>3 DEF Types, ClientPcs
<1>5. RingInv'
  <2>1. CASE currentLen + 1 >= MaxNumRows
    <3>1. currentLen' = 0 /\ currentIdx' = NextIdx(currentIdx) /\ currentLen = MaxNumRows - 1 /\ currentIdx' # oldestIdx
      BY <2>1, Sizes, RingHasRoom DEF Enqueue, Types, Rows
    <3>2. \A i \in Idxs : Full(i)' <=> Full(i) \/ i = currentIdx
      BY <3>1, <1>3, Sizes DEF Full, NextIdx, Types, Idxs
    <3> QED
      BY <1>1, <1>2, <1>3, <3>1, <3>2, Sizes DEF RingInv, Rows, Types
  <2>2. CASE ~(currentLen + 1 >= MaxNumRows)
    <3>1. currentLen' = currentLen + 1 /\ currentIdx' = currentIdx
      BY <2>2 DEF Enqueue
    <3>2. \A i \in Idxs : Full(i)' <=> Full(i)
      BY <3>1, <1>3 DEF Full
    <3> QED
      BY <1>1, <1>2, <1>3, <3>1, <3>2 DEF RingInv, Rows, Types
  <2> QED
    BY <2>1, <2>2
<1>6. ServerInv'
  BY <1>3 DEF ServerInv
<1>7. RowsDiffer'
  BY <1>1, <1>2, <1>3 DEF RowsDiffer, InRing, InServer
<1>8. RowsAreWaiting'
  <2>1. InRing(c)'
    BY <1>2 DEF InRing, Types
  <2>2. Waiting(c)'
    BY <1>1, <1>3 DEF Waiting, Types
  <2>3. ASSUME NEW d \in Clients, d # c
        PROVE  (InRing(d)' <=> InRing(d)) /\ (InServer(d)' <=> InServer(d)) /\ (Waiting(d)' <=> Waiting(d))
    <3>1. InRing(d)' <=> InRing(d)
      BY <2>3, <1>1, <1>2, ConstantsAssumption DEF InRing, ConstantsAssumption
    <3>2. InServer(d)' <=> InServer(d)
      BY <1>3 DEF InServer
    <3>3. Waiting(d)' <=> Waiting(d)
      BY <2>3, <1>3 DEF Waiting, Types
    <3> QED
      BY <3>1, <3>2, <3>3
  <2> QED
    BY <2>1, <2>2, <2>3 DEF RowsAreWaiting
<1>9. CallInv'
  BY <1>3 DEF CallInv, Types
<1> QED
  BY <1>4, <1>5, <1>6, <1>7, <1>8, <1>9
(* A server takes the rows of one batch and leaves its own, which is empty, in place.     *)
LEMMA TakeBatchKeepsInv ==
  ASSUME Inv, NEW s \in Servers, TakeBatch(s)
  PROVE  Inv'
<1> USE DEF Inv, mainVars, clientData
<1>1. \A r \in Rows : serverBuf[s][r] = Nobody
  BY DEF TakeBatch, AtLoopHead, ServerInv, Types, Rows
<1>2. /\ resultBufss' \in [Idxs -> Batches] /\ serverBuf' \in [Servers -> Batches]
      /\ \A i \in Idxs, r \in Rows :
           resultBufss'[i][r] = IF i = oldestIdx THEN Nobody ELSE resultBufss[i][r]
      /\ \A t \in Servers, r \in Rows :
           serverBuf'[t][r] = IF t = s THEN resultBufss[oldestIdx][r] ELSE serverBuf[t][r]
  BY <1>1 DEF TakeBatch, Types
<1>3. /\ serverRow' = [serverRow EXCEPT ![s] = 0]
      /\ serverPc' = [serverPc EXCEPT ![s] = "serving"]
      /\ oldestIdx' = NextIdx(oldestIdx)
      /\ UNCHANGED <<mainPc, hasResult, request, result, cache>>
      /\ mainPc # "down"
  BY DEF TakeBatch, AtLoopHead, ServerInv
<1>4. /\ clientPc' \in [Clients -> ClientPcs]
      /\ \A c \in Clients : clientPc'[c] = clientPc[c] \/ (clientPc[c] = "waitParked" /\ clientPc'[c] = "waitCheck")
  BY CountBatchDoneKeeps DEF TakeBatch
<1>5. \/ /\ currentIdx = oldestIdx /\ currentLen > 0
         /\ serverRows' = [serverRows EXCEPT ![s] = currentLen]
         /\ currentIdx' = NextIdx(oldestIdx) /\ currentLen' = 0
      \/ /\ currentIdx # oldestIdx
         /\ serverRows' = [serverRows EXCEPT ![s] = MaxNumRows]
         /\ currentIdx' = currentIdx /\ currentLen' = currentLen
  BY DEF TakeBatch, HasWork
<1>6. Types'
  <2>1. serverRows' \in [Servers -> 0..MaxNumRows] /\ currentIdx' \in Idxs /\ currentLen' \in Rows
    BY <1>5, Sizes DEF Types, Rows
  <2> QED
    BY <1>2, <1>3, <1>4, <2>1, Sizes DEF Types, ServerPcs
<1>7. RingInv'
  <2>1. CASE currentIdx = oldestIdx
    <3>1. \A i \in Idxs : ~Full(i) /\ ~Full(i)'
      BY <2>1, <1>3, <1>5, Sizes DEF Full, Types, Idxs
    <3>2. \A i \in Idxs, r \in Rows : resultBufss'[i][r] = Nobody
      BY <2>1, <3>1, <1>2 DEF RingInv
    <3> QED
      BY <2>1, <3>1, <3>2, <1>5 DEF RingInv, Rows
  <2>2. CASE currentIdx # oldestIdx
    <3>1. \A i \in Idxs : Full(i)' <=> Full(i) /\ i # oldestIdx
      BY <2>2, <1>3, <1>5, Sizes DEF Full, NextIdx, Types, Idxs
    <3> QED
      BY <2>2, <3>1, <1>2, <1>5 DEF RingInv
  <2> QED
    BY <2>1, <2>2
<1>8. ServerInv'
  <2>1. serverRows'[s] > 0 /\ serverRow'[s] = 0 /\ serverPc'[s] = "serving"
    BY <1>3, <1>5, Sizes DEF Types, Rows
  <2>2. \A r \in Rows : resultBufss[oldestIdx][r] # Nobody <=> r < serverRows'[s]
    <3>1. CASE currentIdx = oldestIdx
      BY <3>1, <1>5 DEF RingInv, Full, Types, Idxs
    <3>2. CASE currentIdx # oldestIdx
      BY <3>2, <1>5, Sizes DEF RingInv, Full, Types, Idxs, Rows
    <3> QED
      BY <3>1, <3>2
  <2>3. ASSUME NEW t \in Servers
        PROVE  /\ serverPc'[t] = "serving" <=> serverRow'[t] < serverRows'[t]
               /\ \A r \in Rows : serverBuf'[t][r] # Nobody <=> serverRow'[t] <= r /\ r < serverRows'[t]
    <3>1. CASE t = s
      BY <3>1, <2>1, <2>2, <1>2 DEF Rows
    <3>2. CASE t # s
      <4>1. serverPc'[t] = serverPc[t] /\ serverRow'[t] = serverRow[t] /\ serverRows'[t] = serverRows[t]
        BY <3>2, <1>3, <1>5 DEF Types
      <4>2. \A r \in Rows : serverBuf'[t][r] = serverBuf[t][r]
        BY <3>2, <1>2
      <4> QED
        BY <4>1, <4>2 DEF ServerInv
    <3> QED
      BY <3>1, <3>2
  <2> QED
    BY <2>3, <1>3 DEF ServerInv
<1>9. RowsDiffer'
  <2> oldestIdx \in Idxs
    BY DEF Types
  <2>1. \A i, j \in Idxs, r, q \in Rows :
          resultBufss'[i][r] # Nobody /\ resultBufss'[i][r] = resultBufss'[j][q] => i = j /\ r = q
    BY <1>2 DEF RowsDiffer
  <2>2. \A t, u \in Servers, r, q \in Rows :
          serverBuf'[t][r] # Nobody /\ serverBuf'[t][r] = serverBuf'[u][q] => t = u /\ r = q
    BY <1>2 DEF RowsDiffer
  <2>3. ASSUME NEW i \in Idxs, NEW t \in Servers, NEW r \in Rows, NEW q \in Rows,
               resultBufss'[i][r] # Nobody
        PROVE  resultBufss'[i][r] # serverBuf'[t][q]
    <3>1. i # oldestIdx /\ resultBufss'[i][r] = resultBufss[i][r]
      BY <2>3, <1>2
    <3>2. CASE t = s
      <4>1. serverBuf'[t][q] = resultBufss[oldestIdx][q]
        BY <3>2, <1>2
      <4> QED
        BY <3>1, <4>1, <2>3 DEF RowsDiffer
    <3>3. CASE t # s
      <4>1. serverBuf'[t][q] = serverBuf[t][q]
        BY <3>3, <1>2
      <4> QED
        BY <3>1, <4>1, <2>3 DEF RowsDiffer
    <3> QED
      BY <3>2, <3>3
  <2> QED
    BY <2>1, <2>2, <2>3 DEF RowsDiffer
<1>10. RowsAreWaiting'
  <2>1. ASSUME NEW c \in Clients
        PROVE  InRing(c)' \/ InServer(c)' <=> InRing(c) \/ InServer(c)
    <3>1. c # Nobody
      BY ConstantsAssumption DEF ConstantsAssumption
    <3>2. InRing(c) => InRing(c)' \/ InServer(c)'
      BY <3>1, <1>2 DEF InRing, InServer
    <3>3. InServer(c) => InServer(c)'
      BY <3>1, <1>1, <1>2 DEF InServer
    <3>4. InRing(c)' => InRing(c)
      BY <3>1, <1>2 DEF InRing
    <3>5. InServer(c)' => InRing(c) \/ InServer(c)
      <4>1. ASSUME NEW t \in Servers, NEW r \in Rows, serverBuf'[t][r] = c
            PROVE  InRing(c) \/ InServer(c)
        <5>1. oldestIdx \in Idxs
          BY DEF Types
        <5>2. CASE t = s
          BY <4>1, <5>1, <5>2, <1>2 DEF InRing
        <5>3. CASE t # s
          BY <4>1, <5>3, <1>2 DEF InServer
        <5> QED
          BY <5>2, <5>3
      <4> QED
        BY <4>1 DEF InServer
    <3> QED
      BY <3>2, <3>3, <3>4, <3>5
  <2>2. \A c \in Clients : Waiting(c)' <=> Waiting(c)
    BY <1>3, <1>4 DEF Waiting
  <2> QED
    BY <2>1, <2>2 DEF RowsAreWaiting
<1>11. CallInv'
  BY <1>3, <1>4 DEF CallInv
<1> QED
  BY <1>6, <1>7, <1>8, <1>9, <1>10, <1>11

(* The row that is answered is that of a client that waits, and of no other row.          *)
LEMMA AnswerRowKeepsInv ==
  ASSUME Inv, NEW s \in Servers, AnswerRow(s)
  PROVE  /\ Inv'
         /\ serverBuf[s][serverRow[s]] \in Clients
<1> USE DEF Inv, ringVars, waitVars, mainVars
<1>1. PICK row \in Rows :
        row = serverRow[s] /\ row < serverRows[s] /\ serverPc[s] = "serving" /\ mainPc # "down"
  BY DEF AnswerRow, ServerInv, Types
<1>2. PICK c \in Clients : c # Nobody /\ c = serverBuf[s][row]
  <2>1. serverBuf[s] \in Batches /\ serverRow[s] <= row
    BY <1>1 DEF Types, Rows
  <2>2. serverBuf[s][row] \in Clients \cup {Nobody}
    BY <2>1 DEF Batches
  <2>3. serverBuf[s][row] # Nobody
    BY <1>1, <2>1 DEF ServerInv
  <2> QED
    BY <2>2, <2>3
<1>3. Waiting(c)
  BY <1>1, <1>2 DEF RowsAreWaiting, InServer
<1>4. /\ hasResult' = [hasResult EXCEPT ![c] = TRUE]
      /\ result' = [result EXCEPT ![c] = request[c]]
      /\ clientPc' = [clientPc EXCEPT ![c] = IF @ = "parked" THEN "await" ELSE @]
      /\ serverBuf' = [serverBuf EXCEPT ![s][row] = Nobody]
      /\ UNCHANGED <<resultBufss, currentLen, currentIdx, oldestIdx, mainPc, request, cache>>
  BY <1>1, <1>2 DEF AnswerRow
<1>5. \/ /\ row + 1 < serverRows[s]
         /\ serverRow' = [serverRow EXCEPT ![s] = row + 1]
         /\ serverRows' = serverRows /\ serverPc' = serverPc
      \/ /\ row + 1 >= serverRows[s]
         /\ serverRow' = [serverRow EXCEPT ![s] = 0]
         /\ serverRows' = [serverRows EXCEPT ![s] = 0]
         /\ serverPc' = [serverPc EXCEPT ![s] = "done"]
  BY <1>1 DEF AnswerRow, Types, Rows
<1>6. /\ serverBuf' \in [Servers -> Batches]
      /\ \A t \in Servers, r \in Rows :
           serverBuf'[t][r] = IF t = s /\ r = row THEN Nobody ELSE serverBuf[t][r]
  BY <1>1, <1>4 DEF Types, Batches
<1>7. Types'
  <2>1. serverRows' \in [Servers -> 0..MaxNumRows] /\ serverRow' \in [Servers -> Rows] /\ serverPc' \in [Servers -> ServerPcs]
    BY <1>1, <1>5, Sizes DEF Types, Rows, ServerPcs
  <2> QED
    BY <1>2, <1>4, <1>6, <2>1 DEF Types, ClientPcs
<1>8. RingInv'
  BY <1>4 DEF RingInv, Full
<1>9. ServerInv'
  <2>1. ASSUME NEW t \in Servers
        PROVE  /\ serverPc'[t] = "serving" <=> serverRow'[t] < serverRows'[t]
               /\ \A r \in Rows : serverBuf'[t][r] # Nobody <=> serverRow'[t] <= r /\ r < serverRows'[t]
    <3>1. CASE t = s
      <4>1. serverRow[s] = row /\ serverRows[s] \in 0..MaxNumRows /\ row \in 0..MaxNumRows - 1
        BY <1>1 DEF Types, Rows
      <4>2. \A r \in Rows : serverBuf[s][r] # Nobody <=> row <= r /\ r < serverRows[s]
        BY <4>1 DEF ServerInv
      <4>3. \A r \in Rows : serverBuf'[s][r] # Nobody <=> row + 1 <= r /\ r < serverRows[s]
        BY <4>1, <4>2, <1>6, Sizes DEF Rows
      <4>4. CASE row + 1 < serverRows[s]
        <5>1. serverRow'[s] = row + 1 /\ serverRows'[s] = serverRows[s] /\ serverPc'[s] = "serving"
          BY <4>1, <4>4, <1>1, <1>5 DEF Types
        <5> QED
          BY <3>1, <4>3, <4>4, <5>1
      <4>5. CASE row + 1 >= serverRows[s]
        <5>1. serverRow'[s] = 0 /\ serverRows'[s] = 0 /\ serverPc'[s] = "done"
          BY <4>1, <4>5, <1>5 DEF Types
        <5>2. \A r \in Rows : serverBuf'[s][r] = Nobody
          BY <4>1, <4>3, <4>5 DEF Rows
        <5> QED
          BY <3>1, <5>1, <5>2 DEF Rows
      <4> QED
        BY <4>1, <4>4, <4>5
    <3>2. CASE t # s
      BY <3>2, <1>5, <1>6 DEF ServerInv, Types
    <3> QED
      BY <3>1, <3>2
  <2> QED
    BY <2>1, <1>1, <1>4 DEF ServerInv
<1>10. RowsDiffer'
  BY <1>4, <1>6 DEF RowsDiffer
<1>11. RowsAreWaiting'
  <2>1. ~InServer(c)' /\ ~InRing(c)' /\ ~Waiting(c)'
    <3>1. serverBuf[s][row] = c
      BY <1>2
    <3>2. ~InRing(c)'
      BY <3>1, <1>1, <1>2, <1>4, ConstantsAssumption DEF InRing, RowsDiffer, ConstantsAssumption
    <3>3. ~InServer(c)'
      <4>1. ASSUME NEW t \in Servers, NEW r \in Rows, serverBuf'[t][r] = c
            PROVE  FALSE
        <5>1. ~(t = s /\ r = row) /\ serverBuf[t][r] = c
          BY <4>1, <1>2, <1>6
        <5> QED
          BY <3>1, <5>1, <1>1, <1>2 DEF RowsDiffer
      <4> QED
        BY <4>1 DEF InServer
    <3> QED
      <4>1. hasResult'[c]
        BY <1>2, <1>4 DEF Types
      <4> QED
        BY <3>2, <3>3, <4>1 DEF Waiting
  <2>2. ASSUME NEW d \in Clients, d # c
        PROVE  (InRing(d)' <=> InRing(d)) /\ (InServer(d)' <=> InServer(d)) /\ (Waiting(d)' <=> Waiting(d))
    <3>1. d # Nobody /\ serverBuf[s][row] = c
      BY <1>2, ConstantsAssumption DEF ConstantsAssumption
    <3>2. InRing(d)' <=> InRing(d)
      BY <1>4 DEF InRing
    <3>3. InServer(d)' <=> InServer(d)
      BY <2>2, <3>1, <1>6 DEF InServer
    <3>4. Waiting(d)' <=> Waiting(d)
      BY <2>2, <1>2, <1>4 DEF Waiting, Types
    <3> QED
      BY <3>2, <3>3, <3>4
  <2>3. \A d \in Clients : Waiting(d)' <=> InRing(d)' \/ InServer(d)'
    BY <2>1, <2>2 DEF RowsAreWaiting
  <2> QED
    BY <2>3 DEF RowsAreWaiting
<1>12. CallInv'
  BY <1>2, <1>3, <1>4 DEF CallInv, Waiting, Types
<1> QED
  BY <1>1, <1>2, <1>7, <1>8, <1>9, <1>10, <1>11, <1>12

-------------------------------------------------------------------------------
(* Every step keeps the invariant, whichever thread takes it.                             *)
LEMMA NextInv == Inv /\ [Next]_vars => Inv'
<1> SUFFICES ASSUME Inv, [Next]_vars PROVE Inv'
  OBVIOUS
<1>1. CASE SpawnServerThreads \/ KillServerThreads \/ Owner
  BY <1>1, OwnerKeepsInv
<1>2. ASSUME NEW c \in Clients, Calls(c)
      PROVE  Inv'
  BY <1>2, CallsKeepInv
<1>3. ASSUME NEW c \in Clients, Client(c)
      PROVE  Inv'
  BY <1>3, EnqueueKeepsInv, ClientKeepsInv DEF Client
<1>4. ASSUME NEW s \in Servers, Server(s)
      PROVE  Inv'
  BY <1>4, ServerLoopKeepsInv, TakeBatchKeepsInv, AnswerRowKeepsInv DEF Server
<1>5. ASSUME NEW i \in Slots, ClearCacheEntry(i)
      PROVE  Inv'
  BY <1>5, ClearCacheKeepsInv
<1>6. CASE Wakeup
  BY <1>6, WakeupKeepsInv
<1>7. CASE UNCHANGED vars
  <2>1. Types'
    BY <1>7 DEF vars, ringVars, waitVars, mainVars, batchVars, clientData, Inv, Types
  <2> QED
    BY <1>7, <2>1, BatchesUnchanged
       DEF vars, mainVars, clientData, Waiting, Inv, CallInv, ServerInv
<1> QED
  BY <1>1, <1>2, <1>3, <1>4, <1>5, <1>6, <1>7 DEF Next

(* The batches, the ring and the program counters stay consistent in every behaviour.     *)
THEOREM Invariance == Spec => []Inv
<1>1. Init => Inv
  BY InitInv
<1>2. Inv /\ [Next]_vars => Inv'
  BY NextInv
<1> QED
  BY <1>1, <1>2, PTL DEF Spec

(* The next batch of the ring is always free: with the length that the constructor gives  *)
(* the ring, clients that fill a batch never run into one that no server has taken.        *)
THEOREM RingNeverOverflows == Spec => [](NextIdx(currentIdx) # oldestIdx)
<1>1. Inv => NextIdx(currentIdx) # oldestIdx
  BY RingHasRoom
<1> QED
  BY <1>1, Invariance, PTL

(* At most one element.                                                                   *)
LEMMA AtMostOne ==
  ASSUME NEW S, \A x, y \in S : x = y
  PROVE  Cardinality(S) = IF S = {} THEN 0 ELSE 1
<1>1. CASE S = {}
  BY <1>1, FS_EmptySet
<1>2. CASE S # {}
  <2>1. PICK x \in S : S = {x}
    BY <1>2
  <2> QED
    BY <2>1, FS_Singleton
<1> QED
  BY <1>1, <1>2

(* A client in evaluate has exactly one row, in the ring or with a server, from the time   *)
(* it is put there until it is answered; the rows a server has yet to answer are filled.   *)
THEOREM CallsHaveOneRow == Spec => []OneRowPerCall
<1>1. ASSUME Inv
      PROVE  OneRowPerCall
  <2>1. ASSUME NEW c \in Clients
        PROVE  Cardinality(RingRows(c)) + Cardinality(ServerRows(c)) =
                 IF clientPc[c] \in {"await", "parked"} /\ ~hasResult[c] THEN 1 ELSE 0
    <3>1. c # Nobody
      BY ConstantsAssumption DEF ConstantsAssumption
    <3>2. \A p, o \in RingRows(c) : p = o
      BY <1>1, <3>1 DEF Inv, RowsDiffer, RingRows
    <3>3. \A p, o \in ServerRows(c) : p = o
      BY <1>1, <3>1 DEF Inv, RowsDiffer, ServerRows
    <3>4. (RingRows(c) # {} <=> InRing(c)) /\ (ServerRows(c) # {} <=> InServer(c))
      <4>1. ASSUME NEW i \in Idxs, NEW r \in Rows, resultBufss[i][r] = c
            PROVE  <<i, r>> \in RingRows(c)
        BY <4>1 DEF RingRows
      <4>2. ASSUME NEW t \in Servers, NEW r \in Rows, serverBuf[t][r] = c
            PROVE  <<t, r>> \in ServerRows(c)
        BY <4>2 DEF ServerRows
      <4>3. (RingRows(c) # {} => InRing(c)) /\ (ServerRows(c) # {} => InServer(c))
        BY DEF RingRows, ServerRows, InRing, InServer
      <4> QED
        BY <4>1, <4>2, <4>3 DEF InRing, InServer
    <3>5. ~(InRing(c) /\ InServer(c))
      BY <1>1, <3>1 DEF Inv, RowsDiffer, InRing, InServer
    <3>6. InRing(c) \/ InServer(c) <=> clientPc[c] \in {"await", "parked"} /\ ~hasResult[c]
      BY <1>1 DEF Inv, RowsAreWaiting, Waiting
    <3>7. /\ Cardinality(RingRows(c)) = IF InRing(c) THEN 1 ELSE 0
          /\ Cardinality(ServerRows(c)) = IF InServer(c) THEN 1 ELSE 0
      BY <3>2, <3>3, <3>4, AtMostOne
    <3> QED
      BY <3>5, <3>6, <3>7
  <2> QED
    BY <2>1, <1>1 DEF OneRowPerCall, Inv, ServerInv
<1> QED
  BY <1>1, Invariance, PTL

-------------------------------------------------------------------------------
(* An answer is for the position its client asks for, from the moment it is there.        *)
Answered ==
  \A c \in Clients :
    hasResult[c] => result[c].pos = request[c].pos /\ (request[c].owner => result[c].owner)

(* A step that gives a client an answer gives it one to its own request.                  *)
LEMMA AnsweredStep == Inv /\ Answered /\ [Next]_vars => Answered'
<1> SUFFICES ASSUME Inv, Answered, [Next]_vars PROVE Answered'
  OBVIOUS
<1> USE DEF Inv, Types
<1>1. ASSUME UNCHANGED <<request, hasResult, result>>
      PROVE  Answered'
  BY <1>1 DEF Answered
<1>2. ASSUME NEW c \in Clients, NEW q \in Requests, NEW skipCache \in BOOLEAN,
             CallEvaluate(c, q, skipCache)
      PROVE  Answered'
  <2>1. \A d \in Clients : d # c => /\ request'[d] = request[d] /\ hasResult'[d] = hasResult[d]
                                    /\ result'[d] = result[d]
    BY <1>2 DEF CallEvaluate
  <2>2. request'[c] = q
    BY <1>2 DEF CallEvaluate
  <2>3. hasResult'[c] => result'[c].pos = q.pos /\ (q.owner => result'[c].owner)
    BY <1>2 DEF CallEvaluate, FoundInCache
  <2> QED
    BY <2>1, <2>2, <2>3 DEF Answered
<1>3. ASSUME NEW s \in Servers, AnswerRow(s)
      PROVE  Answered'
  <2> DEFINE c == serverBuf[s][serverRow[s]]
  <2>1. c \in Clients
    BY <1>3, AnswerRowKeepsInv
  <2>2. /\ result' = [result EXCEPT ![c] = request[c]] /\ request' = request
        /\ hasResult' = [hasResult EXCEPT ![c] = TRUE]
    BY <1>3 DEF AnswerRow
  <2> HIDE DEF c
  <2> QED
    BY <2>1, <2>2 DEF Answered
<1>4. ASSUME NEW c \in Clients, Calls(c)
      PROVE  Answered'
  BY <1>4, <1>1, <1>2 DEF Calls, CallWaitForNext, clientData
<1>5. ASSUME NEW c \in Clients, Client(c)
      PROVE  Answered'
  BY <1>5, <1>1 DEF Client, Enqueue, AwaitResult, ReturnResult, WaitForNext, clientData
<1>6. ASSUME NEW s \in Servers, Server(s)
      PROVE  Answered'
  BY <1>6, <1>1, <1>3 DEF Server, ServerStarts, ServerWaits, ServerEnds, TakeBatch, clientData
<1>7. CASE SpawnServerThreads \/ KillServerThreads \/ Owner
  BY <1>7, <1>1 DEF SpawnServerThreads, KillServerThreads, Owner, WaitForSpawn, JoinServerThreads, clientData
<1>8. CASE Wakeup \/ (\E i \in Slots : ClearCacheEntry(i))
  BY <1>8, <1>1 DEF Wakeup, ClearCacheEntry, clientData
<1>9. CASE UNCHANGED vars
  BY <1>9, <1>1 DEF vars, clientData
<1> QED
  BY <1>4, <1>5, <1>6, <1>7, <1>8, <1>9 DEF Next

(* evaluate returns the output for its own position, although results come by way of       *)
(* batches that are swapped and of a table whose entries any position may overwrite.       *)
THEOREM AnswersAreTheOnesAsked == Spec => []ResultIsTheOneAsked
<1>1. Init => Answered
  BY DEF Init, Answered
<1>2. Inv /\ Answered /\ [Next]_vars => Answered'
  BY AnsweredStep
<1>3. Answered => ResultIsTheOneAsked
  BY DEF Answered, ResultIsTheOneAsked
<1> QED
  BY <1>1, <1>2, <1>3, Invariance, PTL DEF Spec
-------------------------------------------------------------------------------
(* What the counters count.                                                                *)
Ongoing  == {s \in Servers : serverPc[s] \in {"serving", "done"}}
Starting == {s \in Servers : serverPc[s] = "starting"}
Waiters  == {c \in Clients : clientPc[c] \in WaitPcs}

ServerCounts ==
  /\ numOngoingEvals = Cardinality(Ongoing)
  /\ startingUp = Cardinality(Starting)
  /\ isKilled \in BOOLEAN

(* Nobody sleeps while there is a token to be had, and nobody waits for a batch that is    *)
(* not being computed.                                                                     *)
WaiterCounts ==
  /\ numWaitingEvals \in Nat /\ numEvalsToAwaken \in Nat
  /\ numWaitingEvals + numEvalsToAwaken = Cardinality(Waiters)
  /\ numWaitingEvals > 0 => numOngoingEvals > 0
  /\ \A c \in Clients : clientPc[c] = "waitParked" => numEvalsToAwaken = 0

(* The sets that are counted are finite.                                                   *)
LEMMA CountedSets ==
  /\ IsFiniteSet(Ongoing) /\ Cardinality(Ongoing) \in Nat /\ Cardinality(Ongoing) <= Cardinality(Servers)
  /\ IsFiniteSet(Starting) /\ Cardinality(Starting) \in Nat /\ Cardinality(Starting) <= Cardinality(Servers)
  /\ IsFiniteSet(Waiters) /\ Cardinality(Waiters) \in Nat /\ Cardinality(Waiters) <= Cardinality(Clients)
<1>1. IsFiniteSet(Servers) /\ IsFiniteSet(Clients)
  BY ConstantsAssumption DEF ConstantsAssumption
<1>2. Ongoing \subseteq Servers /\ Starting \subseteq Servers /\ Waiters \subseteq Clients
  BY DEF Ongoing, Starting, Waiters
<1> QED
  BY <1>1, <1>2, FS_Subset, FS_CardinalityType

(* A batch is counted while a server works on it, and a server until it has started.       *)
LEMMA ServerCountsStep == Inv /\ ServerCounts /\ [Next]_vars => ServerCounts'
<1> SUFFICES ASSUME Inv, ServerCounts, [Next]_vars PROVE ServerCounts'
  OBVIOUS
<1> USE DEF Inv, Types, ServerCounts
<1>1. ASSUME UNCHANGED <<numOngoingEvals, startingUp>>, isKilled' \in BOOLEAN,
             \A s \in Servers : /\ serverPc'[s] = "starting" <=> serverPc[s] = "starting"
                                /\ serverPc'[s] \in {"serving", "done"} <=> serverPc[s] \in {"serving", "done"}
      PROVE  ServerCounts'
  <2>1. Ongoing' = Ongoing /\ Starting' = Starting
    BY <1>1 DEF Ongoing, Starting
  <2> QED
    BY <1>1, <2>1
<1>2. CASE SpawnServerThreads
  <2>1. \A s \in Servers : serverPc[s] = "none" /\ serverPc'[s] = "starting"
    BY <1>2 DEF SpawnServerThreads, ServerInv
  <2>2. Ongoing' = Ongoing /\ Starting' = Servers
    BY <2>1 DEF Ongoing, Starting
  <2> QED
    BY <1>2, <2>2 DEF SpawnServerThreads, waitVars
<1>3. CASE KillServerThreads \/ WaitForSpawn \/ JoinServerThreads
  BY <1>3, <1>1 DEF KillServerThreads, WaitForSpawn, JoinServerThreads, waitVars, mainVars
<1>4. ASSUME NEW c \in Clients, Calls(c) \/ Client(c)
      PROVE  ServerCounts'
  <2>1. UNCHANGED <<numOngoingEvals, startingUp, isKilled>>
    BY <1>4 DEF Calls, CallEvaluate, CallWaitForNext, Client, Enqueue, AwaitResult, ReturnResult,
                WaitForNext, waitVars, mainVars
  <2>2. \A t \in Servers : serverPc'[t] = serverPc[t] \/ (serverPc[t] = "parked" /\ serverPc'[t] = "check")
    BY <1>4 DEF Calls, CallEvaluate, CallWaitForNext, Client, Enqueue, NotifyOneServer, AwaitResult,
                ReturnResult, WaitForNext
  <2> QED
    BY <2>1, <2>2, <1>1
<1>5. ASSUME NEW s \in Servers, ServerStarts(s)
      PROVE  ServerCounts'
  <2>1. /\ UNCHANGED <<numOngoingEvals, isKilled>> /\ startingUp' = startingUp - 1
        /\ serverPc[s] = "starting" /\ serverPc' = [serverPc EXCEPT ![s] = "check"]
    BY <1>5 DEF ServerStarts, waitVars
  <2>2. Ongoing' = Ongoing /\ Starting' = Starting \ {s} /\ s \in Starting
    BY <2>1 DEF Ongoing, Starting
  <2> QED
    BY <2>1, <2>2, CountedSets, FS_RemoveElement
<1>6. ASSUME NEW s \in Servers, ServerWaits(s) \/ ServerEnds(s)
      PROVE  ServerCounts'
  <2>1. /\ UNCHANGED <<startingUp, isKilled>> /\ numOngoingEvals' = OngoingWithout(s)
        /\ serverPc[s] \in {"check", "done"}
        /\ serverPc' \in [Servers -> ServerPcs] /\ serverPc'[s] \in {"parked", "ended"}
        /\ \A t \in Servers : t # s => serverPc'[t] = serverPc[t]
    BY <1>6 DEF ServerWaits, ServerEnds, AtLoopHead, mainVars, ServerPcs
  <2>2. Ongoing' = Ongoing \ {s} /\ Starting' = Starting /\ (s \in Ongoing <=> serverPc[s] = "done")
    BY <2>1 DEF Ongoing, Starting
  <2> QED
    BY <2>1, <2>2, CountedSets, FS_RemoveElement DEF OngoingWithout
<1>7. ASSUME NEW s \in Servers, TakeBatch(s)
      PROVE  ServerCounts'
  <2>1. /\ UNCHANGED <<startingUp, isKilled>> /\ numOngoingEvals' = OngoingWithout(s) + 1
        /\ serverPc[s] \in {"check", "done"} /\ serverPc' = [serverPc EXCEPT ![s] = "serving"]
    BY <1>7 DEF TakeBatch, AtLoopHead, mainVars
  <2>2. Ongoing' = Ongoing \cup {s} /\ Starting' = Starting /\ (s \in Ongoing <=> serverPc[s] = "done")
    BY <2>1 DEF Ongoing, Starting
  <2>3. Cardinality(Ongoing') = IF serverPc[s] = "done" THEN Cardinality(Ongoing) ELSE Cardinality(Ongoing) + 1
    BY <2>2, CountedSets, FS_AddElement
  <2> QED
    BY <2>1, <2>2, <2>3, CountedSets DEF OngoingWithout
<1>8. ASSUME NEW s \in Servers, AnswerRow(s)
      PROVE  ServerCounts'
  <2>1. /\ UNCHANGED <<numOngoingEvals, startingUp, isKilled>>
        /\ serverPc[s] = "serving" /\ serverPc' \in [Servers -> ServerPcs]
        /\ serverPc'[s] \in {"serving", "done"} /\ \A t \in Servers : t # s => serverPc'[t] = serverPc[t]
    BY <1>8 DEF AnswerRow, waitVars, mainVars, ServerPcs
  <2> QED
    BY <2>1, <1>1
<1>9. CASE Wakeup
  BY <1>9, <1>1 DEF Wakeup, SpuriousWakeup, waitVars
<1>10. CASE (\E i \in Slots : ClearCacheEntry(i)) \/ UNCHANGED vars
  BY <1>10, <1>1 DEF ClearCacheEntry, vars, waitVars, mainVars
<1> QED
  BY <1>2, <1>3, <1>4, <1>5, <1>6, <1>7, <1>8, <1>9, <1>10 DEF Next, Owner, Server

(* Back from a batch, a server turns every waiter that is counted into a token.            *)
LEMMA CountBatchDoneCounts ==
  ASSUME Inv, ServerCounts, WaiterCounts, NEW s \in Servers, AtLoopHead(s), CountBatchDone(s),
         numOngoingEvals' = OngoingWithout(s) \/ numOngoingEvals' = OngoingWithout(s) + 1
  PROVE  WaiterCounts'
<1> USE DEF Inv, Types, WaiterCounts
<1>1. \A c \in Clients : clientPc'[c] \in WaitPcs <=> clientPc[c] \in WaitPcs
  BY CountBatchDoneKeeps DEF WaitPcs
<1>2. Waiters' = Waiters
  BY <1>1 DEF Waiters
<1>3. numOngoingEvals \in Nat
  BY CountedSets DEF ServerCounts
<1>4. CASE serverPc[s] = "done"
  <2>1. numWaitingEvals' = 0 /\ numEvalsToAwaken' = numEvalsToAwaken + numWaitingEvals
    BY <1>4 DEF CountBatchDone
  <2>2. ASSUME NEW c \in Clients, clientPc'[c] = "waitParked"
        PROVE  numEvalsToAwaken' = 0
    BY <1>4, <2>1, <2>2, CountBatchDoneKeeps DEF CountBatchDone
  <2> QED
    BY <1>2, <2>1, <2>2
<1>5. CASE serverPc[s] # "done"
  BY <1>2, <1>3, <1>5 DEF CountBatchDone, OngoingWithout
<1> QED
  BY <1>4, <1>5

(* A newcomer may take a token, but is then counted in place of the one it was meant for.  *)
LEMMA WaiterCountsStep == Inv /\ ServerCounts /\ WaiterCounts /\ [Next]_vars => WaiterCounts'
<1> SUFFICES ASSUME Inv, ServerCounts, WaiterCounts, [Next]_vars PROVE WaiterCounts'
  OBVIOUS
<1> USE DEF Inv, Types, WaiterCounts
<1>1. ASSUME UNCHANGED waitVars,
             \A c \in Clients : /\ clientPc'[c] \in WaitPcs <=> clientPc[c] \in WaitPcs
                                /\ clientPc'[c] = "waitParked" => clientPc[c] = "waitParked"
      PROVE  WaiterCounts'
  <2>1. Waiters' = Waiters
    BY <1>1 DEF Waiters
  <2> QED
    BY <1>1, <2>1 DEF waitVars
<1>2. CASE SpawnServerThreads \/ KillServerThreads \/ Owner
  BY <1>2, <1>1 DEF SpawnServerThreads, KillServerThreads, Owner, WaitForSpawn, JoinServerThreads
<1>3. ASSUME NEW c \in Clients, CallWaitForNext(c)
      PROVE  WaiterCounts'
  <2>1. clientPc[c] = "idle" /\ numOngoingEvals > 0 /\ numOngoingEvals' = numOngoingEvals
    BY <1>3 DEF CallWaitForNext
  <2>2. CASE numEvalsToAwaken > 0
    <3>1. /\ numWaitingEvals' = numWaitingEvals + 1 /\ numEvalsToAwaken' = numEvalsToAwaken - 1
          /\ clientPc' = clientPc
      BY <1>3, <2>2 DEF CallWaitForNext
    <3>2. Waiters' = Waiters
      BY <3>1 DEF Waiters
    <3> QED
      BY <2>1, <2>2, <3>1, <3>2
  <2>3. CASE numEvalsToAwaken = 0
    <3>1. /\ numWaitingEvals' = numWaitingEvals + 1 /\ numEvalsToAwaken' = 0
          /\ clientPc' = [clientPc EXCEPT ![c] = "waitParked"]
      BY <1>3, <2>3 DEF CallWaitForNext
    <3>2. Waiters' = Waiters \cup {c} /\ c \notin Waiters
      BY <2>1, <3>1 DEF Waiters, WaitPcs
    <3>3. Cardinality(Waiters') = Cardinality(Waiters) + 1
      BY <3>2, CountedSets, FS_AddElement
    <3> QED
      BY <2>1, <2>3, <3>1, <3>3
  <2> QED
    BY <2>2, <2>3
<1>4. ASSUME NEW c \in Clients, WaitForNext(c)
      PROVE  WaiterCounts'
  <2>1. clientPc[c] = "waitCheck" /\ UNCHANGED <<numOngoingEvals, numWaitingEvals>>
    BY <1>4 DEF WaitForNext
  <2>2. CASE numEvalsToAwaken > 0
    <3>1. numEvalsToAwaken' = numEvalsToAwaken - 1 /\ clientPc' = [clientPc EXCEPT ![c] = "idle"]
      BY <1>4, <2>2 DEF WaitForNext
    <3>2. Waiters' = Waiters \ {c} /\ c \in Waiters
      BY <2>1, <3>1 DEF Waiters, WaitPcs
    <3>3. Cardinality(Waiters') = Cardinality(Waiters) - 1
      BY <3>2, CountedSets, FS_RemoveElement
    <3>4. \A d \in Clients : clientPc'[d] # "waitParked"
      BY <2>2, <3>1
    <3> QED
      BY <2>1, <2>2, <3>1, <3>3, <3>4
  <2>3. CASE numEvalsToAwaken = 0
    <3>1. numEvalsToAwaken' = 0 /\ clientPc' = [clientPc EXCEPT ![c] = "waitParked"]
      BY <1>4, <2>3 DEF WaitForNext
    <3>2. Waiters' = Waiters
      BY <2>1, <3>1 DEF Waiters, WaitPcs
    <3> QED
      BY <2>1, <2>3, <3>1, <3>2
  <2> QED
    BY <2>2, <2>3
<1>5. ASSUME NEW c \in Clients, NEW q \in Requests, NEW skipCache \in BOOLEAN,
             CallEvaluate(c, q, skipCache)
      PROVE  WaiterCounts'
  <2>1. \A d \in Clients : clientPc'[d] = clientPc[d] \/ (clientPc[d] = "idle" /\ clientPc'[d] = "enqueue")
    BY <1>5 DEF CallEvaluate
  <2> QED
    BY <2>1, <1>1, <1>5 DEF CallEvaluate, WaitPcs
<1>6. ASSUME NEW c \in Clients, Enqueue(c) \/ AwaitResult(c) \/ ReturnResult(c)
      PROVE  WaiterCounts'
  <2>1. clientPc[c] \notin WaitPcs /\ clientPc'[c] \notin WaitPcs /\ UNCHANGED waitVars
    BY <1>6 DEF Enqueue, AwaitResult, ReturnResult, WaitPcs
  <2>2. \A d \in Clients : d # c => clientPc'[d] = clientPc[d]
    BY <1>6 DEF Enqueue, AwaitResult, ReturnResult
  <2> QED
    BY <2>1, <2>2, <1>1 DEF WaitPcs
<1>7. ASSUME NEW s \in Servers, ServerWaits(s) \/ ServerEnds(s) \/ TakeBatch(s)
      PROVE  WaiterCounts'
  BY <1>7, CountBatchDoneCounts DEF ServerWaits, ServerEnds, TakeBatch
<1>8. ASSUME NEW s \in Servers, ServerStarts(s) \/ AnswerRow(s)
      PROVE  WaiterCounts'
  <2>1. /\ UNCHANGED waitVars
        /\ \A d \in Clients : clientPc'[d] = clientPc[d] \/ (clientPc[d] = "parked" /\ clientPc'[d] = "await")
    BY <1>8 DEF ServerStarts, AnswerRow
  <2> QED
    BY <2>1, <1>1 DEF WaitPcs
<1>9. CASE Wakeup
  BY <1>9, <1>1 DEF Wakeup, SpuriousWakeup, WaitPcs
<1>10. CASE (\E i \in Slots : ClearCacheEntry(i)) \/ UNCHANGED vars
  BY <1>10, <1>1 DEF ClearCacheEntry, vars
<1> QED
  BY <1>2, <1>3, <1>4, <1>5, <1>6, <1>7, <1>8, <1>9, <1>10 DEF Next, Calls, Client, Server

(* All the counters count what they should, in every behaviour.                            *)
THEOREM Counts == Spec => [](ServerCounts /\ WaiterCounts)
<1>1. Init => ServerCounts /\ WaiterCounts
  <2> SUFFICES ASSUME Init PROVE ServerCounts /\ WaiterCounts
    OBVIOUS
  <2>1. Ongoing = {} /\ Starting = {} /\ Waiters = {}
    BY DEF Init, Ongoing, Starting, Waiters, WaitPcs
  <2>2. Cardinality(Ongoing) = 0 /\ Cardinality(Starting) = 0 /\ Cardinality(Waiters) = 0
    BY <2>1, FS_EmptySet
  <2>3. numOngoingEvals = 0 /\ startingUp = 0 /\ numWaitingEvals = 0 /\ numEvalsToAwaken = 0
    BY DEF Init
  <2>4. isKilled \in BOOLEAN
    BY DEF Init
  <2>5. WaiterCounts
    BY <2>2, <2>3 DEF WaiterCounts
  <2> QED
    BY <2>2, <2>3, <2>4, <2>5 DEF ServerCounts
<1>2. Inv /\ ServerCounts /\ [Next]_vars => ServerCounts'
  BY ServerCountsStep
<1>3. Inv /\ ServerCounts /\ WaiterCounts /\ [Next]_vars => WaiterCounts'
  BY WaiterCountsStep
<1> QED
  BY <1>1, <1>2, <1>3, Invariance, PTL DEF Spec

(* The state has its type: in particular the counters, which the code only increments and  *)
(* decrements, stay within the number of the threads that they count.                      *)
THEOREM TypeCorrect == Spec => []TypeOK
<1>1. ASSUME Inv, ServerCounts, WaiterCounts
      PROVE  TypeOK
  <2>1. startingUp \in 0..Cardinality(Servers) /\ numOngoingEvals \in 0..Cardinality(Servers)
    BY <1>1, CountedSets, FS_CardinalityType, ConstantsAssumption DEF ServerCounts, ConstantsAssumption
  <2>2. numWaitingEvals \in 0..Cardinality(Clients) /\ numEvalsToAwaken \in 0..Cardinality(Clients)
    BY <1>1, CountedSets, FS_CardinalityType, ConstantsAssumption DEF WaiterCounts, ConstantsAssumption
  <2> QED
    BY <1>1, <2>1, <2>2 DEF Inv, Types, ServerCounts, TypeOK
<1> QED
  BY <1>1, Invariance, Counts, PTL

(* Every waiter of waitForNextNNEvalIfAny is accounted for, whichever of them takes the     *)
(* tokens; none sleeps while there is one, or waits for a batch that nobody computes.       *)
THEOREM EveryWaiterIsCounted == Spec => []WaitersAccounted
<1>1. ASSUME ServerCounts, WaiterCounts
      PROVE  WaitersAccounted
  <2>1. ASSUME NEW c \in Clients, clientPc[c] = "waitParked"
        PROVE  numWaitingEvals > 0 /\ numOngoingEvals > 0 /\ numEvalsToAwaken = 0
    <3>1. Waiters # {}
      BY <2>1 DEF Waiters, WaitPcs
    <3>2. Cardinality(Waiters) > 0
      BY <3>1, CountedSets, FS_EmptySet
    <3> QED
      BY <1>1, <2>1, <3>2 DEF WaiterCounts
  <2> QED
    BY <1>1, <2>1 DEF WaitersAccounted, WaiterCounts, Waiters
<1> QED
  BY <1>1, Counts, PTL

-----------------------------------------------------------------------------
(* GenBook.  What a book is, and what the operators of Book do to one.                 *)
(* The links a book can have: a legal move in a position.                              *)
BookLinks == UNION {{<<p, m>> : m \in LegalMoves(p)} : p \in Hashes}

(* r has the fields of a SymBookNode, in this form so that a prover can see them.      *)
IsBookNode(r) ==
  r = [moves |-> r.moves, parents |-> r.parents, this |-> r.this, avoided |-> r.avoided,
       canExpand |-> r.canExpand, rec |-> r.rec, cost |-> r.cost]

(* r can be the node of n.                                                             *)
IsNode(n, r) ==
  /\ IsBookNode(r)
  /\ r.moves \subseteq LegalMoves(n)
  /\ r.parents \in Seq(BookLinks)

(* A well-formed book: its nodes are of positions, the root has one, and a node's      *)
(* moves are the links its children name as parents, once each; all but the root have   *)
(* a parent.                                                                           *)
IsBook(b) ==
  /\ b = [nodes |-> b.nodes, at |-> b.at]
  /\ b.nodes \in Seq(Hashes)
  /\ DOMAIN b.at \subseteq Hashes
  /\ Root \in DOMAIN b.at
  /\ \A n \in DOMAIN b.at : IsNode(n, b.at[n])
  /\ \A n \in DOMAIN b.at \ {Root} : b.at[n].parents # <<>>
  /\ LinksAgree(b)

(* The nodes whose value is not of a search that left out their moves:                 *)
(* FileIsEvaluated says the file has none.                                             *)
Unevaluated(b) == {n \in DOMAIN b.at : b.at[n].avoided # b.at[n].moves}

(* c has the nodes of b, with the same links.                                          *)
SameLinks(b, c) ==
  /\ c = [nodes |-> b.nodes, at |-> c.at]
  /\ DOMAIN c.at = DOMAIN b.at
  /\ \A n \in DOMAIN b.at :
       /\ c.at[n].moves = b.at[n].moves /\ c.at[n].parents = b.at[n].parents
       /\ IsBookNode(c.at[n])

(* What changes no link leaves a book a book.                                          *)
LEMMA SameLinksIsBook ==
  ASSUME NEW b, NEW c, IsBook(b), SameLinks(b, c)
  PROVE  IsBook(c)
<1>1. c.nodes = b.nodes /\ DOMAIN c.at = DOMAIN b.at
  BY DEF SameLinks
<1>2. c = [nodes |-> c.nodes, at |-> c.at]
  BY <1>1 DEF SameLinks
<1>3. \A n \in DOMAIN b.at : IsNode(n, c.at[n])
  BY DEF SameLinks, IsBook, IsNode
<1>4. \A n \in DOMAIN b.at : c.at[n].moves = b.at[n].moves /\ c.at[n].parents = b.at[n].parents
  BY DEF SameLinks
<1>5. LinksAgree(c)
  <2>1. \A n \in DOMAIN b.at : Children(c, n) = Children(b, n)
    BY <1>4 DEF Children
  <2>2. \A n \in DOMAIN b.at :
          UNION {{<<p, m>> : m \in {k \in c.at[p].moves : Child[p][k] = n}} : p \in DOMAIN b.at}
            = UNION {{<<p, m>> : m \in {k \in b.at[p].moves : Child[p][k] = n}} : p \in DOMAIN b.at}
    BY <1>4
  <2>3. LinksAgree(b)
    BY DEF IsBook
  <2> QED  BY <1>1, <1>4, <2>1, <2>2, <2>3 DEF LinksAgree
<1>6. \A n \in DOMAIN c.at \ {Root} : c.at[n].parents # <<>>
  BY <1>1, <1>4 DEF IsBook
<1> QED  BY <1>1, <1>2, <1>3, <1>5, <1>6 DEF IsBook

(* A book has finitely many nodes.                                                     *)
LEMMA BookIsFinite ==
  ASSUME NEW b, IsBook(b)
  PROVE  IsFiniteSet(DOMAIN b.at)
<1>1. b.nodes \in Seq(Hashes) /\ Range(b.nodes) = DOMAIN b.at
  BY DEF IsBook, LinksAgree
<1>2. Len(b.nodes) \in Nat /\ DOMAIN b.nodes = 1..Len(b.nodes)
  BY <1>1, LenProperties
<1>3. IsFiniteSet(1..Len(b.nodes))
  BY <1>2, FS_Interval
<1>4. \A e \in DOMAIN b.at : \E i \in 1..Len(b.nodes) : b.nodes[i] = e
  BY <1>1, <1>2 DEF Range
<1>5. \A i \in 1..Len(b.nodes) : b.nodes[i] \in DOMAIN b.at
  BY <1>1, <1>2 DEF Range
<1>6. [i \in 1..Len(b.nodes) |-> b.nodes[i]] \in Surjection(1..Len(b.nodes), DOMAIN b.at)
  BY <1>4, <1>5 DEF Surjection
<1> QED
  BY <1>3, <1>6, FS_Surjection

(* The empty book is a book, and owes no value.                                        *)
LEMMA NewBookIsBook ==
  IsBook(NewBook) /\ Unevaluated(NewBook) = {}
<1>1. Root \in Hashes
  BY PositionsAssumption DEF Hashes
<1>2. /\ NewBook.nodes = <<Root>> /\ DOMAIN NewBook.at = {Root} /\ NewBook.at[Root] = NewNode
      /\ NewBook = [nodes |-> NewBook.nodes, at |-> NewBook.at]
  BY DEF NewBook
<1>3. /\ NewNode.moves = {} /\ NewNode.parents = <<>> /\ NewNode.avoided = {}
      /\ IsBookNode(NewNode)
  BY DEF NewNode, IsBookNode
<1>4. <<>> \in Seq(BookLinks) /\ <<Root>> \in Seq(Hashes)
  BY <1>1
<1>5. IsNode(Root, NewNode)
  BY <1>3, <1>4 DEF IsNode
<1>6. LinksAgree(NewBook)
  <2>1. IsInjective(<<Root>>) /\ Range(<<Root>>) = {Root}
    BY DEF IsInjective, Range
  <2>2. IsInjective(<<>>) /\ Range(<<>>) = {}
    BY DEF IsInjective, Range
  <2>3. Children(NewBook, Root) = {}
    BY <1>2, <1>3 DEF Children
  <2>4. UNION {{<<p, m>> : m \in {k \in NewBook.at[p].moves : Child[p][k] = Root}} : p \in {Root}} = {}
    BY <1>2, <1>3
  <2> QED  BY <1>2, <1>3, <2>1, <2>2, <2>3, <2>4 DEF LinksAgree
<1> QED
  BY <1>1, <1>2, <1>3, <1>4, <1>5, <1>6 DEF IsBook, Unevaluated

(* Where the search found what it left out, c has what b has.                          *)
SameSearches(b, c) == \A n \in DOMAIN b.at : c.at[n].avoided = b.at[n].avoided

(* What changes no move and no value owes the same values.                             *)
LEMMA SameUnevaluated ==
  ASSUME NEW b, NEW c, SameLinks(b, c), SameSearches(b, c)
  PROVE  Unevaluated(c) = Unevaluated(b)
BY DEF SameLinks, SameSearches, Unevaluated

(* The fields of a node built field by field.                                          *)
LEMMA BookNodeOf ==
  ASSUME NEW r, NEW m, NEW p, NEW v, NEW a, NEW e, NEW x, NEW y,
         r = [moves |-> m, parents |-> p, this |-> v, avoided |-> a, canExpand |-> e, rec |-> x, cost |-> y]
  PROVE  /\ IsBookNode(r) /\ r.moves = m /\ r.parents = p /\ r.avoided = a
         /\ r.this = v /\ r.canExpand = e /\ r.rec = x /\ r.cost = y
BY DEF IsBookNode

(* q is r recomputed, searched, or m, p, v, a and e read from the file.                *)
IsRecomputed(q, r, x, y)     == q = [r EXCEPT !.rec = x, !.cost = y]
IsSearched(q, r, v, a)       == q = [[r EXCEPT !.this = v] EXCEPT !.avoided = a]
IsSaved(q, m, p, v, a, e)    ==
  q = [NewNode EXCEPT !.moves = m, !.parents = p, !.this = v, !.avoided = a, !.canExpand = e]

(* Recomputing a node's values keeps its links and its search.                         *)
LEMMA RecomputedNode ==
  ASSUME NEW r, IsBookNode(r), NEW x, NEW y, NEW q, IsRecomputed(q, r, x, y)
  PROVE  /\ IsBookNode(q) /\ q.moves = r.moves /\ q.parents = r.parents /\ q.avoided = r.avoided
         /\ q.this = r.this /\ q.canExpand = r.canExpand /\ q.rec = x /\ q.cost = y
<1>1. PICK m, p, t, s, c, u, w :
        r = [moves |-> m, parents |-> p, this |-> t, avoided |-> s, canExpand |-> c, rec |-> u, cost |-> w]
  BY DEF IsBookNode
<1>2. q = [moves |-> m, parents |-> p, this |-> t, avoided |-> s, canExpand |-> c, rec |-> x, cost |-> y]
  BY <1>1 DEF IsRecomputed
<1> QED  BY <1>1, <1>2, BookNodeOf

(* A node opened or closed to expansion keeps its links and its search.                *)
LEMMA OpenedNode ==
  ASSUME NEW r, IsBookNode(r), NEW e, NEW q, q = [r EXCEPT !.canExpand = e]
  PROVE  /\ IsBookNode(q) /\ q.moves = r.moves /\ q.parents = r.parents /\ q.avoided = r.avoided
         /\ q.this = r.this /\ q.rec = r.rec
<1>1. PICK m, p, t, s, c, u, w :
        r = [moves |-> m, parents |-> p, this |-> t, avoided |-> s, canExpand |-> c, rec |-> u, cost |-> w]
  BY DEF IsBookNode
<1>2. q = [moves |-> m, parents |-> p, this |-> t, avoided |-> s, canExpand |-> e, rec |-> u, cost |-> w]
  BY <1>1
<1> QED  BY <1>1, <1>2, BookNodeOf

(* A node with the values of a search.                                                 *)
LEMMA SearchedNode ==
  ASSUME NEW r, IsBookNode(r), NEW v, NEW a, NEW q, IsSearched(q, r, v, a)
  PROVE  IsBookNode(q) /\ q.moves = r.moves /\ q.parents = r.parents /\ q.avoided = a /\ q.rec = r.rec
<1>1. PICK m, p, t, s, c, u, w :
        r = [moves |-> m, parents |-> p, this |-> t, avoided |-> s, canExpand |-> c, rec |-> u, cost |-> w]
  BY DEF IsBookNode
<1>2. q = [moves |-> m, parents |-> p, this |-> v, avoided |-> a, canExpand |-> c, rec |-> u, cost |-> w]
  BY <1>1 DEF IsSearched
<1> QED  BY <1>1, <1>2, BookNodeOf

(* A node written to the file and read back has the links and the search it had.       *)
LEMMA SavedNode ==
  ASSUME NEW m, NEW p, NEW v, NEW a, NEW e, NEW q, IsSaved(q, m, p, v, a, e)
  PROVE  IsBookNode(q) /\ q.moves = m /\ q.parents = p /\ q.avoided = a
<1>1. PICK x, y : NewNode = [moves |-> {}, parents |-> <<>>, this |-> 0, avoided |-> {}, canExpand |-> TRUE,
                             rec |-> x, cost |-> y]
  BY DEF NewNode
<1>2. q = [moves |-> m, parents |-> p, this |-> v, avoided |-> a, canExpand |-> e, rec |-> x, cost |-> y]
  BY <1>1 DEF IsSaved
<1> QED  BY <1>2, BookNodeOf

(* Books of the same nodes and pointwise the same links have the same links.           *)
LEMMA SameLinksOf ==
  ASSUME NEW b, NEW c, NEW at, c = [nodes |-> b.nodes, at |-> at], DOMAIN at = DOMAIN b.at,
         \A n \in DOMAIN b.at : /\ at[n].moves = b.at[n].moves /\ at[n].parents = b.at[n].parents
                                /\ IsBookNode(at[n])
  PROVE  SameLinks(b, c) /\ c.at = at
<1>1. c.at = at
  OBVIOUS
<1> QED  BY <1>1 DEF SameLinks

(* recomputeOver changes values and costs, no link and no search.                      *)
LEMMA RecomputeKeeps ==
  ASSUME NEW b, NEW dirty, IsBook(b)
  PROVE  SameLinks(b, RecomputeOver(b, dirty)) /\ SameSearches(b, RecomputeOver(b, dirty))
<1> DEFINE recs  == NewRecs(b, ChildrenFirst(b, dirty))
           costs == NewCosts(b, recs, ParentsFirst(b))
           c     == RecomputeOver(b, dirty)
           at    == [n \in DOMAIN b.at |-> [b.at[n] EXCEPT !.rec = recs[n], !.cost = costs[n]]]
<1>0. c = RecomputeOver(b, dirty)
  OBVIOUS
<1>1. c = [nodes |-> b.nodes, at |-> at]
  BY DEF RecomputeOver
<1> HIDE DEF recs, costs
<1>2. \A n \in DOMAIN b.at : IsBookNode(b.at[n])
  BY DEF IsBook, IsNode
<1>3. DOMAIN at = DOMAIN b.at /\ \A n \in DOMAIN b.at : at[n] = [b.at[n] EXCEPT !.rec = recs[n], !.cost = costs[n]]
  OBVIOUS
<1> HIDE DEF at, c
<1>4. ASSUME NEW n \in DOMAIN b.at
      PROVE  /\ at[n].moves = b.at[n].moves /\ at[n].parents = b.at[n].parents
             /\ at[n].avoided = b.at[n].avoided /\ IsBookNode(at[n])
  <2> DEFINE r == b.at[n]
             q == at[n]
  <2>1. IsRecomputed(q, r, recs[n], costs[n])
    BY <1>3 DEF IsRecomputed
  <2>2. IsBookNode(r)
    BY <1>2
  <2> HIDE DEF r, q
  <2>3. IsBookNode(q) /\ q.moves = r.moves /\ q.parents = r.parents /\ q.avoided = r.avoided
    BY <2>1, <2>2, RecomputedNode
  <2> QED  BY <2>3 DEF r, q
<1>5. SameLinks(b, c) /\ c.at = at
  BY <1>1, <1>3, <1>4, SameLinksOf
<1> QED  BY <1>0, <1>4, <1>5 DEF SameSearches

(* saveToFile writes a book that owes what the book in memory owes.                    *)
LEMMA SavedIsBook ==
  ASSUME NEW b, IsBook(b)
  PROVE  IsBook(SaveToFile(b)) /\ Unevaluated(SaveToFile(b)) = Unevaluated(b)
<1> DEFINE c == SaveToFile(b)
           at == [n \in DOMAIN b.at |->
             [NewNode EXCEPT !.moves = b.at[n].moves, !.parents = b.at[n].parents, !.this = b.at[n].this,
                             !.avoided = b.at[n].avoided, !.canExpand = b.at[n].canExpand]]
<1>0. c = SaveToFile(b)
  OBVIOUS
<1>1. c = [nodes |-> b.nodes, at |-> at]
  BY DEF SaveToFile
<1>2. \A n \in DOMAIN b.at : IsBookNode(b.at[n])
  BY DEF IsBook, IsNode
<1>3. DOMAIN at = DOMAIN b.at
      /\ \A n \in DOMAIN b.at :
           at[n] = [NewNode EXCEPT !.moves = b.at[n].moves, !.parents = b.at[n].parents, !.this = b.at[n].this,
                                   !.avoided = b.at[n].avoided, !.canExpand = b.at[n].canExpand]
  OBVIOUS
<1> HIDE DEF at, c
<1>4. ASSUME NEW n \in DOMAIN b.at
      PROVE  /\ at[n].moves = b.at[n].moves /\ at[n].parents = b.at[n].parents
             /\ at[n].avoided = b.at[n].avoided /\ IsBookNode(at[n])
  <2> DEFINE r == b.at[n]
             q == at[n]
  <2>1. IsSaved(q, r.moves, r.parents, r.this, r.avoided, r.canExpand)
    BY <1>3 DEF IsSaved
  <2>2. IsBookNode(r)
    BY <1>2
  <2> HIDE DEF r, q
  <2>3. IsBookNode(q) /\ q.moves = r.moves /\ q.parents = r.parents /\ q.avoided = r.avoided
    BY <2>1, <2>2, SavedNode
  <2> QED  BY <2>3 DEF r, q
<1>5. SameLinks(b, c) /\ c.at = at
  BY <1>1, <1>3, <1>4, SameLinksOf
<1>6. SameSearches(b, c)
  BY <1>4, <1>5 DEF SameSearches
<1> QED  BY <1>0, <1>5, <1>6, SameLinksIsBook, SameUnevaluated

(* The book loadFromFile reads, before it computes the rest.                           *)
Opened(f) == [nodes |-> f.nodes, at |-> [n \in DOMAIN f.at |-> [f.at[n] EXCEPT !.canExpand = TRUE]]]

LEMMA OpenedIsBook ==
  ASSUME NEW f, IsBook(f)
  PROVE  IsBook(Opened(f)) /\ Unevaluated(Opened(f)) = Unevaluated(f)
<1> DEFINE at == [n \in DOMAIN f.at |-> [f.at[n] EXCEPT !.canExpand = TRUE]]
           c  == Opened(f)
<1>1. c = [nodes |-> f.nodes, at |-> at]
  BY DEF Opened
<1>2. \A n \in DOMAIN f.at : IsBookNode(f.at[n])
  BY DEF IsBook, IsNode
<1>3. DOMAIN at = DOMAIN f.at /\ \A n \in DOMAIN f.at : at[n] = [f.at[n] EXCEPT !.canExpand = TRUE]
  OBVIOUS
<1> HIDE DEF c, at
<1>4. ASSUME NEW n \in DOMAIN f.at
      PROVE  /\ at[n].moves = f.at[n].moves /\ at[n].parents = f.at[n].parents
             /\ at[n].avoided = f.at[n].avoided /\ IsBookNode(at[n])
  <2> DEFINE r == f.at[n]
             q == at[n]
  <2>1. q = [r EXCEPT !.canExpand = TRUE]
    BY <1>3
  <2>2. IsBookNode(r)
    BY <1>2
  <2> HIDE DEF r, q
  <2>3. IsBookNode(q) /\ q.moves = r.moves /\ q.parents = r.parents /\ q.avoided = r.avoided
    BY <2>1, <2>2, OpenedNode
  <2> QED  BY <2>3 DEF r, q
<1>5. SameLinks(f, c) /\ c.at = at
  BY <1>1, <1>3, <1>4, SameLinksOf
<1>6. SameSearches(f, c)
  BY <1>4, <1>5 DEF SameSearches
<1>7. IsBook(c) /\ Unevaluated(c) = Unevaluated(f)
  BY <1>5, <1>6, SameLinksIsBook, SameUnevaluated
<1> QED  BY <1>7 DEF c

(* So it is a book once it has.                                                        *)
LEMMA LoadedIsBook ==
  ASSUME NEW f, IsBook(f)
  PROVE  IsBook(LoadFromFile(f)) /\ Unevaluated(LoadFromFile(f)) = Unevaluated(f)
<1> DEFINE c     == Opened(f)
           dirty == DOMAIN c.at
<1>1. LoadFromFile(f) = RecomputeOver(c, dirty)
  BY DEF LoadFromFile, RecomputeEverything, Opened
<1> HIDE DEF dirty, c
<1>2. IsBook(c) /\ Unevaluated(c) = Unevaluated(f)
  BY OpenedIsBook DEF c
<1>3. SameLinks(c, RecomputeOver(c, dirty)) /\ SameSearches(c, RecomputeOver(c, dirty))
  BY <1>2, RecomputeKeeps
<1>4. IsBook(RecomputeOver(c, dirty)) /\ Unevaluated(RecomputeOver(c, dirty)) = Unevaluated(c)
  BY <1>2, <1>3, SameLinksIsBook, SameUnevaluated
<1> QED  BY <1>1, <1>2, <1>4

(* One node of b has become r.                                                         *)
Became(b, c, n, r) == c = [nodes |-> b.nodes, at |-> [b.at EXCEPT ![n] = r]]

(* A book with one node changed, its links kept, is a book.                            *)
LEMMA NodeBecame ==
  ASSUME NEW b, IsBook(b), NEW n \in DOMAIN b.at, NEW c, NEW r, Became(b, c, n, r), IsBookNode(r),
         r.moves = b.at[n].moves, r.parents = b.at[n].parents
  PROVE  /\ SameLinks(b, c)
         /\ c.at[n] = r
         /\ \A k \in DOMAIN b.at \ {n} : c.at[k] = b.at[k]
<1> DEFINE at == [b.at EXCEPT ![n] = r]
<1>1. c = [nodes |-> b.nodes, at |-> at]
  BY DEF Became
<1>2. DOMAIN at = DOMAIN b.at /\ at[n] = r /\ \A k \in DOMAIN b.at \ {n} : at[k] = b.at[k]
  OBVIOUS
<1> HIDE DEF at
<1>3. \A k \in DOMAIN b.at : IsBookNode(b.at[k])
  BY DEF IsBook, IsNode
<1>4. \A k \in DOMAIN b.at : at[k].moves = b.at[k].moves /\ at[k].parents = b.at[k].parents /\ IsBookNode(at[k])
  BY <1>2, <1>3
<1>5. SameLinks(b, c) /\ c.at = at
  BY <1>1, <1>2, <1>4, SameLinksOf
<1> QED  BY <1>2, <1>5

(* setNodeThisValuesFromFinishedSearch, and closing a node to expansion, change no     *)
(* link, and nothing but their node.                                                   *)
Searches(b, c, n, left) ==
  /\ SameLinks(b, c)
  /\ c.at[n].avoided = left
  /\ \A k \in DOMAIN b.at \ {n} : c.at[k].avoided = b.at[k].avoided

(* c has what the values of b follow from, and the values of b, except for the nodes of X. *)
SameValuesBut(b, c, X) ==
  /\ DOMAIN b.at \subseteq DOMAIN c.at /\ DOMAIN c.at \subseteq DOMAIN b.at \union X
  /\ \A n \in DOMAIN b.at :
       /\ c.at[n].rec = b.at[n].rec
       /\ n \notin X => c.at[n].moves = b.at[n].moves /\ c.at[n].this = b.at[n].this

(* Closing a node to expansion, in a book of the same links.                           *)
LEMMA ClosedInBook ==
  ASSUME NEW b, IsBook(b), NEW n, NEW c, c = [b EXCEPT !.at[n].canExpand = FALSE]
  PROVE  Became(b, c, n, [b.at[n] EXCEPT !.canExpand = FALSE])
<1>1. PICK nodes, at : b = [nodes |-> nodes, at |-> at]
  BY DEF IsBook
<1> DEFINE r == [at[n] EXCEPT !.canExpand = FALSE]
<1>2. b.nodes = nodes /\ b.at = at
  BY <1>1
<1>3. c = [b EXCEPT !.at = [at EXCEPT ![n] = r]]
  BY <1>2
<1> DEFINE as == [at EXCEPT ![n] = r]
<1> HIDE DEF as
<1>4. c = [nodes |-> nodes, at |-> as]
  BY <1>1, <1>3 DEF as
<1> QED  BY <1>2, <1>4 DEF Became, as

(* A node with new values, in a book of the same links.                                *)
LEMMA SearchedInBook ==
  ASSUME NEW b, IsBook(b), NEW n \in DOMAIN b.at, NEW v, NEW left
  PROVE  Became(b, SetValues(b, n, left, v), n, [[b.at[n] EXCEPT !.this = v] EXCEPT !.avoided = left])
<1>1. PICK nodes, at : b = [nodes |-> nodes, at |-> at]
  BY DEF IsBook
<1>2. b.nodes = nodes /\ b.at = at
  BY <1>1
<1> DEFINE c  == [b EXCEPT !.at[n].this = v]
           d  == [c EXCEPT !.at[n].avoided = left]
           r  == [at[n] EXCEPT !.this = v]
           q  == [r EXCEPT !.avoided = left]
           as == [at EXCEPT ![n] = r]
           bs == [at EXCEPT ![n] = q]
<1>3. c = [b EXCEPT !.at = as]
  BY <1>2
<1>4. SetValues(b, n, left, v) = d
  BY DEF SetValues
<1>5. DOMAIN at = DOMAIN as /\ as[n] = r /\ \A k \in DOMAIN at \ {n} : as[k] = at[k]
  BY <1>2
<1> HIDE DEF as, c
<1>6. c = [nodes |-> nodes, at |-> as]
  BY <1>1, <1>3
<1>7. c.at = as
  BY <1>6
<1>8. d = [c EXCEPT !.at = [as EXCEPT ![n] = [as[n] EXCEPT !.avoided = left]]]
  BY <1>7
<1> HIDE DEF r, q
<1>9. [as EXCEPT ![n] = [as[n] EXCEPT !.avoided = left]] = [as EXCEPT ![n] = q]
  BY <1>5 DEF q
<1>10. [as EXCEPT ![n] = q] = bs
  BY <1>5 DEF as
<1> HIDE DEF d, bs
<1>11. d = [c EXCEPT !.at = bs]
  BY <1>8, <1>9, <1>10
<1>12. d = [nodes |-> nodes, at |-> bs]
  BY <1>6, <1>11
<1> QED  BY <1>2, <1>4, <1>12 DEF Became, bs, q, r

(* Closing a node to expansion changes no link and no value.                           *)
LEMMA CloseKeeps ==
  ASSUME NEW b, IsBook(b), NEW n \in DOMAIN b.at
  PROVE  /\ SameLinks(b, [b EXCEPT !.at[n].canExpand = FALSE])
         /\ SameSearches(b, [b EXCEPT !.at[n].canExpand = FALSE])
         /\ SameValuesBut(b, [b EXCEPT !.at[n].canExpand = FALSE], {})
<1> DEFINE d == [b EXCEPT !.at[n].canExpand = FALSE]
           r == [b.at[n] EXCEPT !.canExpand = FALSE]
<1>1. Became(b, d, n, r)
  BY ClosedInBook
<1>2. /\ IsBookNode(r) /\ r.moves = b.at[n].moves /\ r.parents = b.at[n].parents /\ r.avoided = b.at[n].avoided
      /\ r.this = b.at[n].this /\ r.rec = b.at[n].rec
  <2>1. IsBookNode(b.at[n])
    BY DEF IsBook, IsNode
  <2>2. r = [b.at[n] EXCEPT !.canExpand = FALSE]
    OBVIOUS
  <2> HIDE DEF r
  <2> QED  BY <2>1, <2>2, OpenedNode
<1> HIDE DEF d, r
<1>3. SameLinks(b, d) /\ d.at[n] = r /\ \A k \in DOMAIN b.at \ {n} : d.at[k] = b.at[k]
  BY <1>1, <1>2, NodeBecame
<1>4. SameSearches(b, d)
  BY <1>2, <1>3 DEF SameSearches
<1>5. DOMAIN d.at = DOMAIN b.at
  BY <1>3 DEF SameLinks
<1>6. SameValuesBut(b, d, {})
  BY <1>2, <1>3, <1>5 DEF SameValuesBut
<1> QED  BY <1>3, <1>4, <1>6 DEF d

(* setNodeThisValuesFromFinishedSearch records what its search left out.               *)
LEMMA SetValuesKeeps ==
  ASSUME NEW b, IsBook(b), NEW n \in DOMAIN b.at, NEW left, NEW v
  PROVE  /\ Searches(b, SetValues(b, n, left, v), n, left)
         /\ Searches(b, [SetValues(b, n, left, v) EXCEPT !.at[n].canExpand = FALSE], n, left)
         /\ SameValuesBut(b, SetValues(b, n, left, v), {n})
         /\ SameValuesBut(b, [SetValues(b, n, left, v) EXCEPT !.at[n].canExpand = FALSE], {n})
<1> DEFINE c == SetValues(b, n, left, v)
           r == [[b.at[n] EXCEPT !.this = v] EXCEPT !.avoided = left]
           d == [c EXCEPT !.at[n].canExpand = FALSE]
<1>1. Became(b, c, n, r)
  BY SearchedInBook
<1>2. /\ IsBookNode(r) /\ r.moves = b.at[n].moves /\ r.parents = b.at[n].parents /\ r.avoided = left
      /\ r.rec = b.at[n].rec
  <2> DEFINE was == b.at[n]
  <2>1. IsBookNode(was) /\ IsSearched(r, was, v, left)
    BY DEF IsBook, IsNode, IsSearched
  <2> HIDE DEF was, r
  <2>2. IsBookNode(r) /\ r.moves = was.moves /\ r.parents = was.parents /\ r.avoided = left /\ r.rec = was.rec
    BY <2>1, SearchedNode
  <2> QED  BY <2>2 DEF was
<1> HIDE DEF c, r
<1>3. SameLinks(b, c) /\ c.at[n] = r /\ \A k \in DOMAIN b.at \ {n} : c.at[k] = b.at[k]
  BY <1>1, <1>2, NodeBecame
<1>4. IsBook(c) /\ n \in DOMAIN c.at
  BY <1>3, SameLinksIsBook DEF SameLinks
<1>5. SameLinks(c, d) /\ SameSearches(c, d) /\ SameValuesBut(c, d, {})
  BY <1>4, CloseKeeps
<1> HIDE DEF d
<1>6. DOMAIN c.at = DOMAIN b.at /\ c.nodes = b.nodes
      /\ \A k \in DOMAIN b.at : c.at[k].moves = b.at[k].moves /\ c.at[k].parents = b.at[k].parents
  BY <1>3 DEF SameLinks
<1>7. SameLinks(b, d)
  BY <1>5, <1>6 DEF SameLinks
<1>8. \A k \in DOMAIN b.at : d.at[k].avoided = c.at[k].avoided
  BY <1>5, <1>6 DEF SameSearches
<1>9. SameValuesBut(b, c, {n})
  BY <1>2, <1>3, <1>6 DEF SameValuesBut
<1>10. SameValuesBut(b, d, {n})
  BY <1>5, <1>6, <1>9 DEF SameValuesBut
<1> QED  BY <1>2, <1>3, <1>7, <1>8, <1>9, <1>10 DEF Searches, c, d

(* The values of a sequence with one more at its end.                                  *)
LEMMA AppendRange ==
  ASSUME NEW S, NEW q \in Seq(S), NEW e \in S
  PROVE  /\ Append(q, e) \in Seq(S)
         /\ Range(Append(q, e)) = Range(q) \union {e}
         /\ IsInjective(q) /\ e \notin Range(q) => IsInjective(Append(q, e))
<1> DEFINE n == Len(q)
           a == Append(q, e)
<1>1. /\ n \in Nat /\ DOMAIN q = 1..n /\ a \in Seq(S) /\ Len(a) = n + 1
      /\ \A i \in 1..n : a[i] = q[i]
      /\ a[n + 1] = e
  BY AppendProperties, LenProperties
<1>2. DOMAIN a = 1..(n + 1)
  BY <1>1, LenProperties
<1> HIDE DEF n, a
<1>3. \A i : i \in 1..(n + 1) <=> i \in 1..n \/ i = n + 1
  BY <1>1
<1>4. Range(a) = Range(q) \union {e}
  BY <1>1, <1>2, <1>3 DEF Range
<1>5. ASSUME IsInjective(q), e \notin Range(q)  PROVE IsInjective(a)
  <2>1. \A i \in 1..n : q[i] # e
    BY <1>1, <1>5 DEF Range
  <2> QED  BY <1>1, <1>2, <1>3, <1>5, <2>1 DEF IsInjective
<1> QED  BY <1>1, <1>4, <1>5 DEF a

(* Playing e[2] in e[1] leads to n, and the book b has that move.                      *)
Leads(b, e, n) == \E p \in DOMAIN b.at : \E k \in b.at[p].moves : Child[p][k] = n /\ e = <<p, k>>

(* The links to n are those that lead there.                                           *)
LEMMA LeadsIs ==
  ASSUME NEW b, NEW n
  PROVE  \A e : e \in UNION {{<<p, m>> : m \in {k \in b.at[p].moves : Child[p][k] = n}} : p \in DOMAIN b.at}
                  <=> Leads(b, e, n)
BY DEF Leads

(* LinksAgree by way of Leads: a node's parents are without repetition the links that  *)
(* lead to it.                                                                         *)
LEMMA LinksAgreeIs ==
  ASSUME NEW b
  PROVE  LinksAgree(b) <=>
           /\ IsInjective(b.nodes) /\ Range(b.nodes) = DOMAIN b.at
           /\ \A n \in DOMAIN b.at :
                /\ IsInjective(b.at[n].parents)
                /\ \A m \in b.at[n].moves : Child[n][m] \in DOMAIN b.at
                /\ \A e : e \in Range(b.at[n].parents) <=> Leads(b, e, n)
<1> DEFINE In(n) == UNION {{<<p, m>> : m \in {k \in b.at[p].moves : Child[p][k] = n}} : p \in DOMAIN b.at}
<1>1. \A n : \A e : e \in In(n) <=> Leads(b, e, n)
  BY LeadsIs
<1>2. LinksAgree(b) <=>
           /\ IsInjective(b.nodes) /\ Range(b.nodes) = DOMAIN b.at
           /\ \A n \in DOMAIN b.at :
                /\ IsInjective(b.at[n].parents)
                /\ Children(b, n) \subseteq DOMAIN b.at
                /\ Range(b.at[n].parents) = In(n)
  BY DEF LinksAgree
<1> HIDE DEF In
<1>3. \A n : Children(b, n) \subseteq DOMAIN b.at <=> \A m \in b.at[n].moves : Child[n][m] \in DOMAIN b.at
  BY DEF Children
<1> QED  BY <1>1, <1>2, <1>3

(* A node with other parents, or with other moves, keeps the rest.                     *)
LEMMA LinkedNode ==
  ASSUME NEW r, IsBookNode(r), NEW ps, NEW ms, NEW q,
         q = [r EXCEPT !.parents = ps] \/ q = [r EXCEPT !.moves = ms]
  PROVE  /\ IsBookNode(q) /\ q.avoided = r.avoided /\ q.this = r.this /\ q.rec = r.rec
         /\ q = [r EXCEPT !.parents = ps] => q.moves = r.moves /\ q.parents = ps
         /\ q = [r EXCEPT !.moves = ms] => q.moves = ms /\ q.parents = r.parents
<1>1. PICK m, p, t, s, c, u, w :
        r = [moves |-> m, parents |-> p, this |-> t, avoided |-> s, canExpand |-> c, rec |-> u, cost |-> w]
  BY DEF IsBookNode
<1>2. ASSUME q = [r EXCEPT !.parents = ps]
      PROVE  q = [moves |-> m, parents |-> ps, this |-> t, avoided |-> s, canExpand |-> c, rec |-> u, cost |-> w]
  BY <1>1, <1>2
<1>3. ASSUME q = [r EXCEPT !.moves = ms]
      PROVE  q = [moves |-> ms, parents |-> p, this |-> t, avoided |-> s, canExpand |-> c, rec |-> u, cost |-> w]
  BY <1>1, <1>3
<1>4. CASE q = [r EXCEPT !.parents = ps]
  <2>1. /\ IsBookNode(q) /\ q.avoided = r.avoided /\ q.moves = r.moves /\ q.parents = ps
        /\ q.this = r.this /\ q.rec = r.rec
    BY <1>1, <1>2, <1>4, BookNodeOf
  <2> QED  BY <1>1, <1>3, <2>1, BookNodeOf
<1>5. CASE q = [r EXCEPT !.moves = ms]
  <2>1. /\ IsBookNode(q) /\ q.avoided = r.avoided /\ q.moves = ms /\ q.parents = r.parents
        /\ q.this = r.this /\ q.rec = r.rec
    BY <1>1, <1>3, <1>5, BookNodeOf
  <2> QED  BY <1>1, <1>2, <2>1, BookNodeOf
<1> QED  BY <1>4, <1>5

(* What playAndAddMove leaves: d is b with one more move in n, leading to c.           *)
Added(b, d, n, c) ==
  /\ IsBook(d)
  /\ DOMAIN d.at = DOMAIN b.at \union {c}
  /\ \A k \in DOMAIN b.at : d.at[k].avoided = b.at[k].avoided
  /\ \A k \in DOMAIN b.at \ {n} : d.at[k].moves = b.at[k].moves
  /\ c \notin DOMAIN b.at => d.at[c].moves = {} /\ d.at[c].avoided = {}
  /\ SameValuesBut(b, d, {n, c})

(* playAndAddMove of a move that is not in the node: the book has one more link, and   *)
(* a node for where it leads.                                                          *)
LEMMA AddMoveIsBook ==
  ASSUME NEW b, IsBook(b), NEW n \in DOMAIN b.at, NEW m \in LegalMoves(n), ~IsMoveInBook(b, n, m)
  PROVE  Added(b, AddMove(b, n, m), n, Child[n][m])
<1> DEFINE c     == Child[n][m]
           p     == Polite[n][m]
           d     == AddMove(b, n, m)
           grown == [k \in DOMAIN b.at \union {c} |-> IF InBook(b, k) THEN b.at[k] ELSE NewNode]
           one   == [grown EXCEPT ![c].parents = Append(@, <<n, p>>)]
           at    == [one EXCEPT ![n].moves = @ \union {p}]
<1>1. /\ n \in Hashes /\ c \in Hashes /\ p \in LegalMoves(n) /\ Child[n][p] = c
      /\ p \notin b.at[n].moves /\ <<n, p>> \in BookLinks
  BY PositionsAssumption DEF IsBook, IsMoveInBook, Hashes, LegalMoves, BookLinks
<1>2. /\ IsBookNode(NewNode) /\ NewNode.moves = {} /\ NewNode.parents = <<>> /\ NewNode.avoided = {}
      /\ <<>> \in Seq(BookLinks) /\ IsInjective(<<>>) /\ Range(<<>>) = {}
  BY DEF NewNode, IsBookNode, IsInjective, Range
<1>3. \A k \in DOMAIN b.at : /\ IsBookNode(b.at[k]) /\ b.at[k].moves \subseteq LegalMoves(k)
                             /\ b.at[k].parents \in Seq(BookLinks)
  BY DEF IsBook, IsNode
<1>4. d = [nodes |-> IF c \in DOMAIN b.at THEN b.nodes ELSE Append(b.nodes, c), at |-> at]
  BY DEF AddMove, InBook
<1>5. /\ DOMAIN grown = DOMAIN b.at \union {c}
      /\ \A k \in DOMAIN b.at : grown[k] = b.at[k]
      /\ c \notin DOMAIN b.at => grown[c] = NewNode
  BY DEF InBook
<1>6. /\ DOMAIN one = DOMAIN grown
      /\ one[c] = [grown[c] EXCEPT !.parents = Append(grown[c].parents, <<n, p>>)]
      /\ \A k \in DOMAIN grown \ {c} : one[k] = grown[k]
  BY <1>5
<1>7. /\ DOMAIN at = DOMAIN grown
      /\ at[n] = [one[n] EXCEPT !.moves = one[n].moves \union {p}]
      /\ \A k \in DOMAIN grown \ {n} : at[k] = one[k]
  BY <1>5, <1>6
<1> DEFINE nodes == IF c \in DOMAIN b.at THEN b.nodes ELSE Append(b.nodes, c)
<1> HIDE DEF grown, one, at, d, nodes
<1>8. d = [nodes |-> d.nodes, at |-> d.at] /\ d.at = at /\ d.nodes = nodes
  BY <1>4 DEF nodes
<1> HIDE DEF c, p
<1>9. \A k \in DOMAIN grown : IsBookNode(grown[k]) /\ grown[k].parents \in Seq(BookLinks)
  BY <1>2, <1>3, <1>5
<1>10. /\ IsBookNode(one[c]) /\ one[c].avoided = grown[c].avoided /\ one[c].moves = grown[c].moves
       /\ one[c].this = grown[c].this /\ one[c].rec = grown[c].rec
       /\ one[c].parents = Append(grown[c].parents, <<n, p>>)
  <2> DEFINE r  == grown[c]
             q  == one[c]
             ps == Append(grown[c].parents, <<n, p>>)
  <2>1. IsBookNode(r) /\ q = [r EXCEPT !.parents = ps]
    BY <1>5, <1>6, <1>9
  <2> HIDE DEF r, q, ps
  <2>2. /\ IsBookNode(q) /\ q.avoided = r.avoided /\ q.moves = r.moves /\ q.parents = ps
        /\ q.this = r.this /\ q.rec = r.rec
    BY <2>1, LinkedNode
  <2> QED  BY <2>2 DEF r, q, ps
<1>11. \A k \in DOMAIN grown : /\ IsBookNode(one[k]) /\ one[k].avoided = grown[k].avoided
                               /\ one[k].moves = grown[k].moves
                               /\ one[k].this = grown[k].this /\ one[k].rec = grown[k].rec
                               /\ k # c => one[k].parents = grown[k].parents
  BY <1>6, <1>9, <1>10
<1>12. /\ IsBookNode(at[n]) /\ at[n].avoided = one[n].avoided /\ at[n].parents = one[n].parents
       /\ at[n].this = one[n].this /\ at[n].rec = one[n].rec
       /\ at[n].moves = one[n].moves \union {p}
  <2> DEFINE r  == one[n]
             q  == at[n]
             ms == one[n].moves \union {p}
  <2>1. IsBookNode(r) /\ q = [r EXCEPT !.moves = ms]
    BY <1>5, <1>7, <1>11
  <2> HIDE DEF r, q, ms
  <2>2. /\ IsBookNode(q) /\ q.avoided = r.avoided /\ q.moves = ms /\ q.parents = r.parents
        /\ q.this = r.this /\ q.rec = r.rec
    BY <2>1, LinkedNode
  <2> QED  BY <2>2 DEF r, q, ms
<1>13. \A k \in DOMAIN grown : /\ IsBookNode(at[k]) /\ at[k].avoided = grown[k].avoided
                               /\ at[k].parents = one[k].parents
                               /\ at[k].this = grown[k].this /\ at[k].rec = grown[k].rec
                               /\ k # n => at[k].moves = grown[k].moves
  <2> SUFFICES ASSUME NEW k \in DOMAIN grown
               PROVE  /\ IsBookNode(at[k]) /\ at[k].avoided = grown[k].avoided
                      /\ at[k].parents = one[k].parents
                      /\ at[k].this = grown[k].this /\ at[k].rec = grown[k].rec
                      /\ k # n => at[k].moves = grown[k].moves
    OBVIOUS
  <2>1. CASE k = n
    BY <1>11, <1>12, <2>1
  <2>2. CASE k # n
    <3>1. at[k] = one[k]
      BY <1>7, <2>2
    <3> QED  BY <1>11, <3>1
  <2> QED  BY <2>1, <2>2
<1>14. at[n].moves = b.at[n].moves \union {p}
  BY <1>5, <1>11, <1>12
<1>15. \A k \in DOMAIN grown : at[k].moves \subseteq LegalMoves(k)
  BY <1>1, <1>2, <1>3, <1>5, <1>13, <1>14
<1>16. /\ LinksAgree(b)
       /\ IsInjective(b.nodes) /\ Range(b.nodes) = DOMAIN b.at /\ b.nodes \in Seq(Hashes)
  BY DEF IsBook, LinksAgree
<1>17. /\ d.nodes \in Seq(Hashes) /\ IsInjective(d.nodes) /\ Range(d.nodes) = DOMAIN d.at
  BY <1>1, <1>5, <1>7, <1>8, <1>16, AppendRange DEF nodes
<1>18. \A k \in DOMAIN b.at :
         /\ IsInjective(b.at[k].parents)
         /\ \A l \in b.at[k].moves : Child[k][l] \in DOMAIN b.at
         /\ \A e : e \in Range(b.at[k].parents) <=> Leads(b, e, k)
  BY <1>16, LinksAgreeIs
<1>19. \A k \in DOMAIN grown : \A e : Leads(d, e, k) <=> Leads(b, e, k) \/ (k = c /\ e = <<n, p>>)
  <2>1. \A q \in DOMAIN grown \ DOMAIN b.at : at[q].moves = {}
    BY <1>2, <1>5, <1>13
  <2>2. \A q \in DOMAIN b.at \ {n} : at[q].moves = b.at[q].moves
    BY <1>5, <1>13
  <2>3. DOMAIN d.at = DOMAIN grown
    BY <1>7, <1>8
  <2>4. ASSUME NEW k \in DOMAIN grown, NEW e, Leads(d, e, k)
        PROVE  Leads(b, e, k) \/ (k = c /\ e = <<n, p>>)
    BY <1>1, <1>5, <1>8, <1>14, <2>1, <2>2, <2>3, <2>4 DEF Leads
  <2>5. ASSUME NEW k \in DOMAIN grown, NEW e, Leads(b, e, k) \/ (k = c /\ e = <<n, p>>)
        PROVE  Leads(d, e, k)
    BY <1>1, <1>5, <1>8, <1>14, <2>2, <2>3, <2>5 DEF Leads
  <2> QED  BY <2>4, <2>5
<1>20. \A k \in DOMAIN grown :
         /\ IsInjective(grown[k].parents)
         /\ \A e : e \in Range(grown[k].parents) <=> Leads(b, e, k)
  <2>1. c \notin DOMAIN b.at => \A e : ~Leads(b, e, c)
    BY <1>18 DEF Leads
  <2> QED  BY <1>2, <1>5, <1>18, <2>1
<1>21. ~Leads(b, <<n, p>>, c)
  BY <1>1 DEF Leads
<1>22. /\ one[c].parents \in Seq(BookLinks) /\ IsInjective(one[c].parents)
       /\ Range(one[c].parents) = Range(grown[c].parents) \union {<<n, p>>}
  <2> DEFINE ps == grown[c].parents
  <2>1. ps \in Seq(BookLinks) /\ IsInjective(ps) /\ <<n, p>> \notin Range(ps)
    BY <1>5, <1>9, <1>20, <1>21
  <2>2. one[c].parents = Append(ps, <<n, p>>)
    BY <1>10
  <2> HIDE DEF ps
  <2>3. /\ Append(ps, <<n, p>>) \in Seq(BookLinks)
        /\ Range(Append(ps, <<n, p>>)) = Range(ps) \union {<<n, p>>}
        /\ IsInjective(Append(ps, <<n, p>>))
    BY <1>1, <2>1, AppendRange
  <2> QED  BY <2>2, <2>3 DEF ps
<1>23. \A k \in DOMAIN grown :
         /\ at[k].parents \in Seq(BookLinks) /\ IsInjective(at[k].parents)
         /\ \A e : e \in Range(at[k].parents) <=> Leads(d, e, k)
  BY <1>9, <1>11, <1>13, <1>19, <1>20, <1>22
<1>24. \A k \in DOMAIN grown : \A l \in at[k].moves : Child[k][l] \in DOMAIN grown
  BY <1>1, <1>2, <1>5, <1>13, <1>14, <1>18
<1>25. LinksAgree(d)
  BY <1>7, <1>8, <1>17, <1>23, <1>24, LinksAgreeIs
<1>26. \A k \in DOMAIN grown : IsNode(k, at[k])
  BY <1>13, <1>15, <1>23 DEF IsNode
<1>27. IsBook(d)
  <2>1. DOMAIN b.at \subseteq Hashes /\ Root \in DOMAIN b.at /\ \A k \in DOMAIN b.at \ {Root} : b.at[k].parents # <<>>
    BY DEF IsBook
  <2>2. one[c].parents # <<>>
    <3>1. <<n, p>> \in Range(one[c].parents)
      BY <1>22
    <3>2. Range(<<>>) = {}
      BY DEF Range
    <3> QED  BY <3>1, <3>2
  <2>3. \A k \in DOMAIN grown \ {Root} : at[k].parents # <<>>
    BY <1>5, <1>11, <1>13, <2>1, <2>2
  <2> QED  BY <1>1, <1>5, <1>7, <1>8, <1>17, <1>25, <1>26, <2>1, <2>3 DEF IsBook
<1>28. SameValuesBut(b, d, {n, c})
  BY <1>5, <1>7, <1>8, <1>13 DEF SameValuesBut
<1>29. Added(b, d, n, c)
  BY <1>2, <1>5, <1>7, <1>8, <1>13, <1>27, <1>28 DEF Added
<1> QED  BY <1>29 DEF d, c

(* Induction over the numbers up to n, for what a set can say.                          *)
LessThan == {p \in Nat \X Nat : p[1] < p[2]}

(* The order of the numbers is well founded.                                           *)
LEMMA Least ==
  ASSUME NEW T \in SUBSET Nat, T # {}
  PROVE  \E x \in T : \A y \in T : x <= y
<1>1. OpToRel(<, Nat) = LessThan
  BY DEF OpToRel, LessThan
<1>2. IsWellFoundedOn(LessThan, Nat)
  BY <1>1, NatLessThanWellFounded
<1>3. \E x \in T : \A y \in T : <<y, x>> \notin LessThan
  <2> HIDE DEF LessThan
  <2> QED  BY <1>2, WFMin
<1>4. \A x, y \in T : <<y, x>> \notin LessThan => x <= y
  BY DEF LessThan
<1> QED
  BY <1>3, <1>4

LEMMA Induction ==
  ASSUME NEW n \in Nat, NEW S, 0 \in S, \A k \in 0..(n - 1) : k \in S => k + 1 \in S
  PROVE  \A k \in 0..n : k \in S
<1> DEFINE T == {k \in 0..n : k \notin S}
<1> SUFFICES ASSUME T # {} PROVE FALSE
  OBVIOUS
<1>1. T \in SUBSET Nat
  OBVIOUS
<1>2. PICK x \in T : \A y \in T : x <= y
  BY <1>1, Least
<1>3. x \in 0..n /\ x \notin S /\ x # 0
  OBVIOUS
<1>4. x - 1 \in 0..(n - 1) /\ x - 1 \in 0..n /\ (x - 1) + 1 = x /\ x - 1 \notin T
  BY <1>2, <1>3
<1> QED
  BY <1>3, <1>4

(* The nodes follow comes through, and the books addVariationToBookWithoutUpdate does.  *)
FollowedTo(b, n, ms) ==
  LET after[k \in 0..Len(ms)] == IF k = 0 THEN [node |-> n, rest |-> ms] ELSE FollowMove(b, after[k - 1])
  IN after

AddedTo(s, n, ms) ==
  LET after[k \in 0..Len(ms)] == IF k = 0 THEN s ELSE AddIfNew(after[k - 1], n, ms[k])
  IN after

(* Following one more move.                                                            *)
LEMMA FollowSteps ==
  ASSUME NEW b, NEW at, NEW ms, Len(ms) \in Nat
  PROVE  /\ FollowedTo(b, at, ms)[0] = [node |-> at, rest |-> ms]
         /\ \A k \in 1..Len(ms) : FollowedTo(b, at, ms)[k] = FollowMove(b, FollowedTo(b, at, ms)[k - 1])
<1> DEFINE n == Len(ms)
           Step(q, k) == FollowMove(b, q)
           Is(g, m) == g = [k \in 0..m |-> IF k = 0 THEN [node |-> at, rest |-> ms] ELSE Step(g[k - 1], k)]
           S == {m \in 0..n : \E g : Is(g, m)}
<1>1. 0 \in S
  <2> DEFINE h == [k \in 0..0 |-> [node |-> at, rest |-> ms]]
  <2>1. Is(h, 0)
    <3>1. \A k \in 0..0 : h[k] = (IF k = 0 THEN [node |-> at, rest |-> ms] ELSE Step(h[k - 1], k))
      OBVIOUS
    <3> HIDE DEF Step
    <3> QED  BY <3>1
  <2> HIDE DEF h
  <2> QED  BY <2>1
<1>2. ASSUME NEW m \in 0..(n - 1), m \in S  PROVE m + 1 \in S
  <2> HIDE DEF Step
  <2>1. PICK g : Is(g, m)
    BY <1>2
  <2> DEFINE h == [k \in 0..(m + 1) |-> IF k = m + 1 THEN Step(g[m], k) ELSE g[k]]
  <2>2. ASSUME NEW k \in 0..(m + 1)
        PROVE  h[k] = IF k = 0 THEN [node |-> at, rest |-> ms] ELSE Step(h[k - 1], k)
    <3>1. CASE k = m + 1
      BY <3>1
    <3>2. CASE k # m + 1
      BY <2>1, <3>2
    <3> QED  BY <3>1, <3>2
  <2>3. Is(h, m + 1)
    BY <2>2
  <2> HIDE DEF h, Is
  <2> QED  BY <2>3
<1>3. n \in S
  <2>1. n \in Nat
    OBVIOUS
  <2>2. \A k \in 0..(n - 1) : k \in S => k + 1 \in S
    BY <1>2
  <2> HIDE DEF S, n
  <2>3. \A k \in 0..n : k \in S
    BY <1>1, <2>1, <2>2, Induction
  <2> QED  BY <2>1, <2>3
<1>4. PICK g : Is(g, n)
  BY <1>3
<1>5. FollowedTo(b, at, ms) = CHOOSE f : Is(f, n)
  BY DEF FollowedTo
<1>6. Is(FollowedTo(b, at, ms), n)
  <2> HIDE DEF Is
  <2> QED  BY <1>4, <1>5
<1> HIDE DEF Step
<1>7. FollowedTo(b, at, ms)[0] = [node |-> at, rest |-> ms] /\ \A k \in 1..n : FollowedTo(b, at, ms)[k] = Step(FollowedTo(b, at, ms)[k - 1], k)
  <2> DEFINE fs == FollowedTo(b, at, ms)
  <2>1. fs = [k \in 0..n |-> IF k = 0 THEN [node |-> at, rest |-> ms] ELSE Step(fs[k - 1], k)]
    BY <1>6
  <2> HIDE DEF fs
  <2> QED  BY <2>1 DEF fs
<1> QED
  BY <1>7 DEF Step

(* Adding one more move.                                                               *)
LEMMA AddSteps ==
  ASSUME NEW s, NEW at, NEW ms, Len(ms) \in Nat
  PROVE  /\ AddedTo(s, at, ms)[0] = s
         /\ \A k \in 1..Len(ms) : AddedTo(s, at, ms)[k] = AddIfNew(AddedTo(s, at, ms)[k - 1], at, ms[k])
<1> DEFINE n == Len(ms)
           Step(q, k) == AddIfNew(q, at, ms[k])
           Is(g, m) == g = [k \in 0..m |-> IF k = 0 THEN s ELSE Step(g[k - 1], k)]
           S == {m \in 0..n : \E g : Is(g, m)}
<1>1. 0 \in S
  <2> DEFINE h == [k \in 0..0 |-> s]
  <2>1. Is(h, 0)
    <3>1. \A k \in 0..0 : h[k] = (IF k = 0 THEN s ELSE Step(h[k - 1], k))
      OBVIOUS
    <3> HIDE DEF Step
    <3> QED  BY <3>1
  <2> HIDE DEF h
  <2> QED  BY <2>1
<1>2. ASSUME NEW m \in 0..(n - 1), m \in S  PROVE m + 1 \in S
  <2> HIDE DEF Step
  <2>1. PICK g : Is(g, m)
    BY <1>2
  <2> DEFINE h == [k \in 0..(m + 1) |-> IF k = m + 1 THEN Step(g[m], k) ELSE g[k]]
  <2>2. ASSUME NEW k \in 0..(m + 1)
        PROVE  h[k] = IF k = 0 THEN s ELSE Step(h[k - 1], k)
    <3>1. CASE k = m + 1
      BY <3>1
    <3>2. CASE k # m + 1
      BY <2>1, <3>2
    <3> QED  BY <3>1, <3>2
  <2>3. Is(h, m + 1)
    BY <2>2
  <2> HIDE DEF h, Is
  <2> QED  BY <2>3
<1>3. n \in S
  <2>1. n \in Nat
    OBVIOUS
  <2>2. \A k \in 0..(n - 1) : k \in S => k + 1 \in S
    BY <1>2
  <2> HIDE DEF S, n
  <2>3. \A k \in 0..n : k \in S
    BY <1>1, <2>1, <2>2, Induction
  <2> QED  BY <2>1, <2>3
<1>4. PICK g : Is(g, n)
  BY <1>3
<1>5. AddedTo(s, at, ms) = CHOOSE f : Is(f, n)
  BY DEF AddedTo
<1>6. Is(AddedTo(s, at, ms), n)
  <2> HIDE DEF Is
  <2> QED  BY <1>4, <1>5
<1> HIDE DEF Step
<1>7. AddedTo(s, at, ms)[0] = s /\ \A k \in 1..n : AddedTo(s, at, ms)[k] = Step(AddedTo(s, at, ms)[k - 1], k)
  <2> DEFINE fs == AddedTo(s, at, ms)
  <2>1. fs = [k \in 0..n |-> IF k = 0 THEN s ELSE Step(fs[k - 1], k)]
    BY <1>6
  <2> HIDE DEF fs
  <2> QED  BY <2>1 DEF fs
<1> QED
  BY <1>7 DEF Step


(* Where a move of a node leads is in the book.                                        *)
LEMMA ChildInBook ==
  ASSUME NEW b, IsBook(b), NEW n \in DOMAIN b.at, NEW m \in LegalMoves(n), IsMoveInBook(b, n, m)
  PROVE  Child[n][m] \in DOMAIN b.at
<1>1. Child[n][Polite[n][m]] = Child[n][m]
  BY PositionsAssumption DEF IsBook, Hashes, LegalMoves
<1>2. Child[n][Polite[n][m]] \in DOMAIN b.at
  BY LinksAgreeIs DEF IsBook, IsMoveInBook
<1> QED  BY <1>1, <1>2

(* Following moves of the book stays in the book.                                      *)
LEMMA FollowInBook ==
  ASSUME NEW b, IsBook(b), NEW n \in DOMAIN b.at, NEW ms \in Seq(Nat)
  PROVE  Follow(b, n, ms).node \in DOMAIN b.at /\ Follow(b, n, ms).rest \in Seq(Nat)
<1> DEFINE f == FollowedTo(b, n, ms)
           l == Len(ms)
           S == {k \in 0..l : f[k].node \in DOMAIN b.at /\ f[k].rest \in Seq(Nat)}
<1>1. l \in Nat
  BY LenProperties
<1>2. f[0] = [node |-> n, rest |-> ms] /\ \A k \in 1..l : f[k] = FollowMove(b, f[k - 1])
  BY <1>1, FollowSteps
<1>3. Follow(b, n, ms) = f[l]
  BY DEF Follow, FollowedTo
<1> HIDE DEF f, l
<1>4. 0 \in S
  BY <1>1, <1>2
<1>5. \A k \in 0..(l - 1) : k \in S => k + 1 \in S
  <2> SUFFICES ASSUME NEW k \in 0..(l - 1), k \in S  PROVE k + 1 \in S
    OBVIOUS
  <2> DEFINE w == f[k]
  <2>1. k + 1 \in 1..l /\ k + 1 \in 0..l /\ (k + 1) - 1 = k
    BY <1>1
  <2>2. f[k + 1] = FollowMove(b, w)
    BY <1>2, <2>1
  <2>3. w.node \in DOMAIN b.at /\ w.rest \in Seq(Nat)
    OBVIOUS
  <2> HIDE DEF w
  <2>4. CASE w.rest = <<>> \/ Head(w.rest) \notin LegalMoves(w.node) \/ ~IsMoveInBook(b, w.node, Head(w.rest))
    BY <2>1, <2>2, <2>3, <2>4 DEF FollowMove
  <2>5. CASE ~(w.rest = <<>> \/ Head(w.rest) \notin LegalMoves(w.node) \/ ~IsMoveInBook(b, w.node, Head(w.rest)))
    <3>1. f[k + 1].node = Child[w.node][Head(w.rest)] /\ f[k + 1].rest = Tail(w.rest)
      BY <2>2, <2>5 DEF FollowMove
    <3>2. Tail(w.rest) \in Seq(Nat)
      BY <2>3, <2>5
    <3>3. Child[w.node][Head(w.rest)] \in DOMAIN b.at
      BY <2>3, <2>5, ChildInBook
    <3> QED  BY <2>1, <3>1, <3>2, <3>3
  <2> QED  BY <2>4, <2>5
<1>6. l \in 0..l
  BY <1>1
<1> HIDE DEF S
<1>7. l \in S
  BY <1>1, <1>4, <1>5, <1>6, Induction
<1> QED  BY <1>3, <1>7 DEF S

(* What a trace has done to the book: whatever it left with a value of other moves is    *)
(* among the nodes to update.                                                            *)
Noted(s, n) ==
  /\ IsBook(s.book) /\ n \in DOMAIN s.book.at /\ n \in s.changed
  /\ s.changed \subseteq DOMAIN s.book.at
  /\ Unevaluated(s.book) \subseteq s.changed

(* A move that is in the node already, or a new one, leaves the book well-formed and   *)
(* its node noted as changed.                                                          *)
LEMMA AddIfNewNotes ==
  ASSUME NEW s, NEW n, Noted(s, n), NEW m \in LegalMoves(n)
  PROVE  Noted(AddIfNew(s, n, m), n) /\ DOMAIN s.book.at \subseteq DOMAIN AddIfNew(s, n, m).book.at
<1> DEFINE d  == AddMove(s.book, n, m)
           c  == Child[n][m]
           r  == AddIfNew(s, n, m)
           ch == s.changed \union (IF InBook(s.book, c) THEN {} ELSE {c})
<1>1. CASE IsMoveInBook(s.book, n, m)
  BY <1>1 DEF AddIfNew
<1>2. CASE ~IsMoveInBook(s.book, n, m)
  <2>1. Added(s.book, d, n, c)
    BY <1>2, AddMoveIsBook DEF Noted
  <2>2. r = [book |-> d, changed |-> ch]
    BY <1>2 DEF AddIfNew
  <2>3. ch \subseteq DOMAIN s.book.at \union {c} /\ s.changed \subseteq ch /\ n \in ch
    BY DEF Noted, InBook
  <2> HIDE DEF d, r, ch, c
  <2>4. r.book = d /\ r.changed = ch
    BY <2>2
  <2>5. Unevaluated(d) \subseteq Unevaluated(s.book) \union {n}
    BY <2>1 DEF Added, Unevaluated
  <2> QED  BY <2>1, <2>3, <2>4, <2>5 DEF Added, Noted, r
<1> QED  BY <1>1, <1>2

(* So does the whole of a variation's extra moves.                                     *)
LEMMA AddAllNewNotes ==
  ASSUME NEW s, NEW n, Noted(s, n), NEW ms \in Seq(LegalMoves(n))
  PROVE  Noted(AddAllNew(s, n, ms), n) /\ DOMAIN s.book.at \subseteq DOMAIN AddAllNew(s, n, ms).book.at
<1> DEFINE f == AddedTo(s, n, ms)
           l == Len(ms)
           S == {k \in 0..l : Noted(f[k], n) /\ DOMAIN s.book.at \subseteq DOMAIN f[k].book.at}
<1>1. l \in Nat /\ \A k \in 1..l : ms[k] \in LegalMoves(n)
  BY LenProperties, ElementOfSeq
<1>2. f[0] = s /\ \A k \in 1..l : f[k] = AddIfNew(f[k - 1], n, ms[k])
  BY <1>1, AddSteps
<1>3. AddAllNew(s, n, ms) = f[l]
  BY DEF AddAllNew, AddedTo
<1> HIDE DEF f, l
<1>4. 0 \in S
  BY <1>1, <1>2
<1>5. \A k \in 0..(l - 1) : k \in S => k + 1 \in S
  <2> SUFFICES ASSUME NEW k \in 0..(l - 1), k \in S  PROVE k + 1 \in S
    OBVIOUS
  <2>1. k + 1 \in 1..l /\ k + 1 \in 0..l /\ (k + 1) - 1 = k
    BY <1>1
  <2>2. f[k + 1] = AddIfNew(f[k], n, ms[k + 1]) /\ ms[k + 1] \in LegalMoves(n)
    BY <1>1, <1>2, <2>1
  <2>3. Noted(f[k + 1], n) /\ DOMAIN f[k].book.at \subseteq DOMAIN f[k + 1].book.at
    BY <2>2, AddIfNewNotes
  <2> QED  BY <2>1, <2>3
<1>6. l \in 0..l
  BY <1>1
<1> HIDE DEF S
<1>7. l \in S
  BY <1>1, <1>4, <1>5, <1>6, Induction
<1> QED  BY <1>3, <1>7 DEF S

(* What popping a work queue leaves.                                                   *)
LEMMA PoppedQueue ==
  ASSUME NEW S, NEW q \in Seq(S), q # <<>>
  PROVE  /\ Head(q) \in S /\ Tail(q) \in Seq(S)
         /\ Range(q) = {Head(q)} \union Range(Tail(q))
         /\ IsInjective(q) => IsInjective(Tail(q)) /\ Head(q) \notin Range(Tail(q))
<1> DEFINE n == Len(q)
           r == Tail(q)
<1>1. /\ n \in Nat /\ n # 0 /\ DOMAIN q = 1..n /\ Head(q) = q[1] /\ r \in Seq(S) /\ Len(r) = n - 1
      /\ \A i \in 1..(n - 1) : r[i] = q[i + 1]
  BY HeadTailProperties, EmptySeq, LenProperties
<1>2. DOMAIN r = 1..(n - 1)
  BY <1>1, LenProperties
<1>3. \A i \in 1..n : q[i] \in S
  BY ElementOfSeq
<1> HIDE DEF n, r
<1>4. \A i : i \in 1..n <=> i = 1 \/ (i - 1 \in 1..(n - 1) /\ i = (i - 1) + 1 /\ i \in Nat)
  BY <1>1
<1>5. 1 \in 1..n /\ \A i \in 1..(n - 1) : i + 1 \in 1..n /\ i + 1 # 1
  BY <1>1
<1>6. Range(q) = {q[1]} \union Range(r)
  <2>1. ASSUME NEW e \in Range(q)  PROVE e \in {q[1]} \union Range(r)
    <3>1. PICK i \in 1..n : e = q[i]
      BY <1>1 DEF Range
    <3>2. CASE i = 1
      BY <3>1, <3>2
    <3>3. CASE i # 1
      <4>1. i - 1 \in 1..(n - 1) /\ (i - 1) + 1 = i
        BY <1>4, <3>3
      <4>2. r[i - 1] = q[i]
        BY <1>1, <4>1
      <4> QED  BY <1>2, <3>1, <4>1, <4>2 DEF Range
    <3> QED  BY <3>2, <3>3
  <2>2. ASSUME NEW e \in Range(r)  PROVE e \in Range(q)
    <3>1. PICK i \in 1..(n - 1) : e = r[i]
      BY <1>2 DEF Range
    <3> QED  BY <1>1, <1>5, <3>1 DEF Range
  <2>3. q[1] \in Range(q)
    BY <1>1, <1>5 DEF Range
  <2> QED  BY <2>1, <2>2, <2>3
<1>7. ASSUME IsInjective(q)  PROVE IsInjective(r) /\ q[1] \notin Range(r)
  <2>1. \A i, j \in 1..n : q[i] = q[j] => i = j
    BY <1>1, <1>7 DEF IsInjective
  <2>2. \A i, j \in 1..(n - 1) : r[i] = r[j] => i = j
    <3> SUFFICES ASSUME NEW i \in 1..(n - 1), NEW j \in 1..(n - 1), r[i] = r[j]  PROVE i = j
      OBVIOUS
    <3>1. i + 1 = j + 1
      BY <1>1, <1>5, <2>1
    <3> QED  BY <3>1
  <2>3. \A i \in 1..(n - 1) : r[i] # q[1]
    BY <1>1, <1>5, <2>1
  <2> QED  BY <1>2, <2>2, <2>3 DEF IsInjective, Range
<1> QED  BY <1>1, <1>3, <1>5, <1>6, <1>7 DEF r

(* A sequence of a set in some order has the set's members.                            *)
LEMMA InOrder ==
  ASSUME NEW b, NEW S, IsFiniteSet(S), NEW q \in InCostOrder(b, S)
  PROVE  q \in Seq(S) /\ IsInjective(q)
<1>1. Cardinality(S) \in Nat
  BY FS_CardinalityType
<1>2. q \in [1..Cardinality(S) -> S] /\ IsInjective(q)
  BY DEF InCostOrder
<1> QED  BY <1>1, <1>2

(* The positions to search are nodes of the book, each once.                           *)
LEMMA ExpandedInBook ==
  ASSUME NEW b, IsBook(b), NEW k, NEW q \in NextToExpand(b, k)
  PROVE  q \in Seq(DOMAIN b.at) /\ IsInjective(q)
<1>1. PICK S \in SUBSET DOMAIN b.at : q \in InCostOrder(b, {n \in S : b.at[n].canExpand})
  BY DEF NextToExpand
<1> DEFINE E == {n \in S : b.at[n].canExpand}
<1>2. IsFiniteSet(E) /\ E \subseteq DOMAIN b.at
  BY BookIsFinite, FS_Subset
<1> HIDE DEF E
<1>3. q \in Seq(E) /\ IsInjective(q)
  BY <1>1, <1>2, InOrder DEF E
<1> QED  BY <1>2, <1>3

(* The changed nodes as a queue.                                                       *)
LEMMA AsQueue ==
  ASSUME NEW S, IsFiniteSet(S)
  PROVE  SetToSeq(S) \in Seq(S) /\ Range(SetToSeq(S)) = S
<1> DEFINE n == Cardinality(S)
           q == SetToSeq(S)
<1>1. n \in Nat /\ ExistsBijection(1..n, S)
  BY FS_CardinalityType
<1>2. PICK f : f \in Bijection(1..n, S)
  BY <1>1 DEF ExistsBijection
<1>3. f \in [1..n -> S] /\ IsInjective(f)
  BY <1>2 DEF Bijection, Injection
<1>4. q \in [1..n -> S] /\ IsInjective(q)
  BY <1>3 DEF SetToSeq
<1>5. q \in Injection(1..n, S)
  BY <1>4 DEF Injection
<1>6. Cardinality(1..n) = n
  BY <1>1, FS_Interval
<1> HIDE DEF n, q
<1>7. q \in Surjection(1..n, S)
  BY <1>5, <1>6, FS_Injection DEF n
<1>8. q \in Seq(S)
  BY <1>1, <1>4
<1>9. Range(q) = S
  BY <1>4, <1>7 DEF Surjection, Range
<1> QED  BY <1>8, <1>9 DEF q

-----------------------------------------------------------------------------
(* The invariant.  Owing threads have the value of their node still to set.             *)
Owing == {"childValues", "update", "noneLeft", "searchRest"}
Owes(t, n) == node[t] = n /\ pc[t] \in Owing
Works(t) == pc[t] \notin {"pop", "returned"}

(* The threads' nodes are of the book.                                                 *)
ThreadsInv ==
  /\ pc = [t \in Threads |-> pc[t]]
  /\ node \in [Threads -> DOMAIN book.at]
  /\ avoid = [t \in Threads |-> avoid[t]]
  /\ rest = [t \in Threads |-> rest[t]]

(* A thread about to set the value of the child it added: the child has no move, and     *)
(* nobody is to give it one in this iteration.                                           *)
HasNewChild(t) ==
  \E m \in LegalMoves(node[t]) :
    LET c == Child[node[t]][m] IN
      /\ rest[t] = <<m>>
      /\ c \in DOMAIN book.at /\ book.at[c].moves = {}
      /\ c \notin Range(queue)
      /\ \A u \in Threads : Works(u) => node[u] # c

(* A thread that expands has a node nobody else is to get, and knows its moves until   *)
(* it changes them.                                                                    *)
ExpandsWell(t) ==
  /\ pc[t] \in {"pop", "returned", "findMoves", "search"} \union Owing
  /\ Works(t) => node[t] \notin Range(queue)
  /\ pc[t] \in {"search", "noneLeft", "searchRest"} => avoid[t] = book.at[node[t]].moves
  /\ pc[t] = "childValues" => HasNewChild(t)

(* No two threads work on a node.                                                      *)
NodesApart == \A t, u \in Threads : t # u /\ Works(t) /\ Works(u) => node[t] # node[u]

(* While the book is expanded, every value that is missing is some thread's to set.    *)
ExpandInv ==
  /\ queue \in Seq(DOMAIN book.at) /\ IsInjective(queue)
  /\ \A t \in Threads : ExpandsWell(t)
  /\ NodesApart
  /\ \A n \in Unevaluated(book) : \E t \in Threads : Owes(t, n)

(* A thread that traces is at a node from which its line goes on.                      *)
TracesWell(t) ==
  /\ pc[t] \in {"pop", "returned", "policy"}
  /\ pc[t] = "policy" => rest[t] \in Seq(Nat) /\ rest[t] # <<>> /\ Head(rest[t]) \in LegalMoves(node[t])

(* While a trace is added, what misses a value is noted as changed.                    *)
TraceInv ==
  /\ queue \in Seq(Seq(Nat))
  /\ changed \subseteq DOMAIN book.at
  /\ Unevaluated(book) \subseteq changed
  /\ \A t \in Threads : TracesWell(t)

(* A thread that updates has its node's moves, which nobody adds to.                   *)
UpdatesWell(t) ==
  /\ pc[t] \in {"pop", "returned", "update", "noneLeft", "searchRest"}
  /\ pc[t] \in {"noneLeft", "searchRest"} => avoid[t] = book.at[node[t]].moves
  /\ pc[t] = "returned" => shouldStop \/ queue = <<>>

(* While the changed nodes are searched, what misses a value is queued or some         *)
(* thread's, unless the program is to stop.                                            *)
UpdateInv ==
  /\ queue \in Seq(DOMAIN book.at)
  /\ \A t \in Threads : UpdatesWell(t)
  /\ \A n \in Unevaluated(book) : shouldStop \/ n \in Range(queue) \/ \E t \in Threads : Owes(t, n)

(* Before an iteration or a save no value is missing.                                  *)
PhaseInv ==
  /\ phase \in {"iterate", "startTrace", "save"} => Unevaluated(book) = {}
  /\ phase = "expand" => ExpandInv
  /\ phase = "trace" => TraceInv
  /\ phase = "update" => UpdateInv

(* The book and its file are well-formed, and the file misses no value.                *)
BookInv ==
  /\ IsBook(book) /\ IsBook(file) /\ Unevaluated(file) = {}
  /\ ThreadsInv /\ PhaseInv

(* It holds of a new book.                                                             *)
LEMMA BookInitially == BookInit => BookInv
<1> SUFFICES ASSUME BookInit  PROVE BookInv
  OBVIOUS
<1>1. IsBook(NewBook) /\ Unevaluated(NewBook) = {}
  BY NewBookIsBook
<1> DEFINE dirty == DOMAIN NewBook.at
<1>2. book = RecomputeOver(NewBook, dirty) /\ file = SaveToFile(NewBook)
  BY DEF BookInit, RecomputeEverything
<1> HIDE DEF dirty
<1>3. IsBook(file) /\ Unevaluated(file) = {}
  BY <1>1, <1>2, SavedIsBook
<1>4. IsBook(book) /\ Unevaluated(book) = {}
  BY <1>1, <1>2, RecomputeKeeps, SameLinksIsBook, SameUnevaluated
<1>5. Root \in DOMAIN book.at
  BY <1>4 DEF IsBook
<1>6. ThreadsInv
  BY <1>5 DEF BookInit, ThreadsInv
<1>7. phase \in {"iterate", "startTrace"}
  BY DEF BookInit
<1>8. PhaseInv
  BY <1>4, <1>7 DEF PhaseInv
<1> QED  BY <1>3, <1>4, <1>6, <1>8 DEF BookInv

-----------------------------------------------------------------------------
(* The main thread.                                                                      *)
LEMMA BeginIterationKeeps ==
  ASSUME BookInv, BeginIteration
  PROVE  BookInv'
<1>1. /\ phase = "iterate" /\ phase' = "expand" /\ book' = book
      /\ pc' = [t \in Threads |-> "pop"] /\ node' = node /\ avoid' = avoid /\ rest' = rest
      /\ file' = IF iteration % SaveEveryIterations = 0 /\ iteration # 0 THEN SaveToFile(book) ELSE file
  BY DEF BeginIteration, StartThreads
<1>2. PICK k : queue' \in NextToExpand(book, k)
  BY DEF BeginIteration, StartThreads
<1>3. IsBook(book) /\ IsBook(file) /\ Unevaluated(file) = {} /\ Unevaluated(book) = {} /\ ThreadsInv
  BY <1>1 DEF BookInv, PhaseInv
<1>4. IsBook(file') /\ Unevaluated(file') = {}
  <2>1. IsBook(SaveToFile(book)) /\ Unevaluated(SaveToFile(book)) = {}
    BY <1>3, SavedIsBook
  <2>2. file' = SaveToFile(book) \/ file' = file
    BY <1>1
  <2> QED  BY <1>3, <2>1, <2>2
<1>5. queue' \in Seq(DOMAIN book.at) /\ IsInjective(queue')
  BY <1>2, <1>3, ExpandedInBook
<1>6. \A t \in Threads : pc'[t] = "pop"
  BY <1>1
<1>7. ThreadsInv'
  BY <1>1, <1>3, <1>6 DEF ThreadsInv
<1>8. \A t \in Threads : ExpandsWell(t)'
  BY <1>6 DEF ExpandsWell, Works
<1>9. NodesApart'
  BY <1>6 DEF NodesApart, Works
<1>10. ExpandInv'
  BY <1>1, <1>3, <1>5, <1>8, <1>9 DEF ExpandInv
<1>11. PhaseInv'
  BY <1>1, <1>10 DEF PhaseInv
<1> QED  BY <1>1, <1>3, <1>4, <1>7, <1>11 DEF BookInv

(* What recomputing leaves of a book.                                                    *)
LEMMA Recomputed ==
  ASSUME NEW b, IsBook(b), NEW dirty
  PROVE  /\ IsBook(RecomputeOver(b, dirty)) /\ Unevaluated(RecomputeOver(b, dirty)) = Unevaluated(b)
         /\ DOMAIN RecomputeOver(b, dirty).at = DOMAIN b.at
<1> DEFINE c == RecomputeOver(b, dirty)
<1>1. SameLinks(b, c) /\ SameSearches(b, c)
  BY RecomputeKeeps
<1> HIDE DEF c
<1>2. IsBook(c) /\ Unevaluated(c) = Unevaluated(b) /\ DOMAIN c.at = DOMAIN b.at
  BY <1>1, SameLinksIsBook, SameUnevaluated DEF SameLinks
<1> QED  BY <1>2 DEF c

LEMMA EndIterationKeeps ==
  ASSUME BookInv, EndIteration
  PROVE  BookInv'
<1> DEFINE dirty == Dirty(book, changed)
<1>1. /\ phase = "expand" /\ phase' \in {"save", "iterate"} /\ book' = RecomputeOver(book, dirty)
      /\ file' = file /\ pc' = pc /\ node' = node /\ avoid' = avoid /\ rest' = rest
      /\ \A t \in Threads : pc[t] = "returned"
  BY DEF EndIteration, Recompute, Joined
<1> HIDE DEF dirty
<1>2. IsBook(book) /\ IsBook(file) /\ Unevaluated(file) = {} /\ ThreadsInv /\ ExpandInv
  BY <1>1 DEF BookInv, PhaseInv
<1>3. Unevaluated(book) = {}
  BY <1>1, <1>2 DEF ExpandInv, Owes, Owing
<1>4. IsBook(book') /\ Unevaluated(book') = {} /\ DOMAIN book'.at = DOMAIN book.at
  BY <1>1, <1>2, <1>3, Recomputed
<1>5. ThreadsInv'
  BY <1>1, <1>2, <1>4 DEF ThreadsInv
<1>6. PhaseInv'
  BY <1>1, <1>4 DEF PhaseInv
<1> QED  BY <1>1, <1>2, <1>4, <1>5, <1>6 DEF BookInv

LEMMA EndTraceKeeps ==
  ASSUME BookInv, EndTrace
  PROVE  BookInv'
<1> DEFINE dirty == DOMAIN book.at
<1>1. /\ phase = "update" /\ file' = file /\ pc' = pc /\ node' = node /\ avoid' = avoid /\ rest' = rest
      /\ \A t \in Threads : pc[t] = "returned"
      /\ (shouldStop /\ phase' = "exited" /\ book' = book)
           \/ (~shouldStop /\ phase' = "save" /\ book' = RecomputeOver(book, dirty))
  BY DEF EndTrace, RecomputeEverything, Joined
<1> HIDE DEF dirty
<1>2. IsBook(book) /\ IsBook(file) /\ Unevaluated(file) = {} /\ ThreadsInv /\ UpdateInv
  BY <1>1 DEF BookInv, PhaseInv
<1>3. CASE shouldStop /\ phase' = "exited" /\ book' = book
  <2>1. ThreadsInv'
    BY <1>1, <1>2, <1>3 DEF ThreadsInv
  <2>2. PhaseInv'
    BY <1>3 DEF PhaseInv
  <2> QED  BY <1>1, <1>2, <1>3, <2>1, <2>2 DEF BookInv
<1>4. CASE ~shouldStop /\ phase' = "save" /\ book' = RecomputeOver(book, dirty)
  <2>1. PICK t \in Threads : TRUE
    BY GenBookAssumption
  <2>2. queue = <<>>
    BY <1>1, <1>2, <1>4, <2>1 DEF UpdateInv, UpdatesWell
  <2>3. Range(queue) = {}
    BY <2>2 DEF Range
  <2>4. Unevaluated(book) = {}
    BY <1>1, <1>2, <1>4, <2>3 DEF UpdateInv, Owes, Owing
  <2>5. IsBook(book') /\ Unevaluated(book') = {} /\ DOMAIN book'.at = DOMAIN book.at
    BY <1>2, <1>4, <2>4, Recomputed
  <2>6. ThreadsInv'
    BY <1>1, <1>2, <2>5 DEF ThreadsInv
  <2>7. PhaseInv'
    BY <1>4, <2>5 DEF PhaseInv
  <2> QED  BY <1>1, <1>2, <2>5, <2>6, <2>7 DEF BookInv
<1> QED  BY <1>1, <1>3, <1>4

LEMMA StartTraceKeeps ==
  ASSUME BookInv, StartTrace
  PROVE  BookInv'
<1>1. /\ phase = "startTrace" /\ phase' = "trace" /\ queue' = Lines /\ changed' = {}
      /\ pc' = [t \in Threads |-> "pop"]
      /\ book' = book /\ file' = file /\ node' = node /\ avoid' = avoid /\ rest' = rest
  BY DEF StartTrace, StartThreads
<1>2. IsBook(book) /\ IsBook(file) /\ Unevaluated(file) = {} /\ Unevaluated(book) = {} /\ ThreadsInv
  BY <1>1 DEF BookInv, PhaseInv
<1>3. \A t \in Threads : pc'[t] = "pop"
  BY <1>1
<1>4. ThreadsInv'
  BY <1>1, <1>2, <1>3 DEF ThreadsInv
<1>5. TraceInv'
  BY <1>1, <1>2, <1>3, GenBookAssumption DEF TraceInv, TracesWell
<1>6. PhaseInv'
  BY <1>1, <1>5 DEF PhaseInv
<1> QED  BY <1>1, <1>2, <1>4, <1>6 DEF BookInv

LEMMA StartUpdateKeeps ==
  ASSUME BookInv, StartUpdate
  PROVE  BookInv'
<1>1. /\ phase = "trace" /\ phase' = "update" /\ queue' = SetToSeq(changed)
      /\ pc' = [t \in Threads |-> "pop"]
      /\ book' = book /\ file' = file /\ node' = node /\ avoid' = avoid /\ rest' = rest
  BY DEF StartUpdate, StartThreads
<1>2. IsBook(book) /\ IsBook(file) /\ Unevaluated(file) = {} /\ TraceInv /\ ThreadsInv
  BY <1>1 DEF BookInv, PhaseInv
<1>3. \A t \in Threads : pc'[t] = "pop"
  BY <1>1
<1>4. ThreadsInv'
  BY <1>1, <1>2, <1>3 DEF ThreadsInv
<1>5. IsFiniteSet(changed) /\ changed \subseteq DOMAIN book.at
  BY <1>2, BookIsFinite, FS_Subset DEF TraceInv
<1>6. queue' \in Seq(changed) /\ Range(queue') = changed
  BY <1>1, <1>5, AsQueue
<1>7. queue' \in Seq(DOMAIN book.at)
  BY <1>5, <1>6
<1>8. UpdateInv'
  BY <1>1, <1>2, <1>3, <1>6, <1>7 DEF UpdateInv, UpdatesWell, TraceInv
<1>9. PhaseInv'
  BY <1>1, <1>8 DEF PhaseInv
<1> QED  BY <1>1, <1>2, <1>4, <1>9 DEF BookInv

LEMMA RestOfMainKeeps ==
  ASSUME BookInv, EndIterations \/ Save \/ Signal \/ Restart
  PROVE  BookInv'
<1>1. CASE EndIterations
  <2>1. /\ phase = "iterate" /\ phase' = "save"
        /\ book' = book /\ file' = file /\ pc' = pc /\ node' = node /\ avoid' = avoid /\ rest' = rest
    BY <1>1 DEF EndIterations
  <2>2. ThreadsInv' /\ PhaseInv'
    BY <2>1 DEF BookInv, ThreadsInv, PhaseInv
  <2> QED  BY <2>1, <2>2 DEF BookInv
<1>2. CASE Save
  <2>1. /\ phase = "save" /\ phase' = "exited" /\ file' = SaveToFile(book)
        /\ book' = book /\ pc' = pc /\ node' = node /\ avoid' = avoid /\ rest' = rest
    BY <1>2 DEF Save
  <2>2. IsBook(file') /\ Unevaluated(file') = {}
    BY <2>1, SavedIsBook DEF BookInv, PhaseInv
  <2>3. ThreadsInv' /\ PhaseInv'
    BY <2>1 DEF BookInv, ThreadsInv, PhaseInv
  <2> QED  BY <2>1, <2>2, <2>3 DEF BookInv
<1>3. CASE Signal
  <2>1. /\ shouldStop' = TRUE /\ phase' = phase /\ queue' = queue /\ changed' = changed
        /\ book' = book /\ file' = file /\ pc' = pc /\ node' = node /\ avoid' = avoid /\ rest' = rest
    BY <1>3 DEF Signal
  <2>2. ThreadsInv'
    BY <2>1 DEF BookInv, ThreadsInv
  <2>3. ExpandInv => ExpandInv'
    BY <2>1 DEF ExpandInv, ExpandsWell, HasNewChild, NodesApart, Works, Owes
  <2>4. TraceInv => TraceInv'
    BY <2>1 DEF TraceInv, TracesWell
  <2>5. UpdateInv => UpdateInv'
    BY <2>1 DEF UpdateInv, UpdatesWell, Owes
  <2>6. PhaseInv'
    BY <2>1, <2>3, <2>4, <2>5 DEF BookInv, PhaseInv
  <2> QED  BY <2>1, <2>2, <2>6 DEF BookInv
<1>4. CASE Restart
  <2>1. /\ phase' \in {"iterate", "startTrace"} /\ book' = LoadFromFile(file) /\ file' = file
        /\ pc' = [t \in Threads |-> "returned"] /\ node' = [t \in Threads |-> Root]
        /\ avoid' = [t \in Threads |-> {}] /\ rest' = [t \in Threads |-> <<>>]
    BY <1>4 DEF Restart
  <2>2. IsBook(book') /\ Unevaluated(book') = {}
    BY <2>1, LoadedIsBook DEF BookInv
  <2>3. Root \in DOMAIN book'.at
    BY <2>2 DEF IsBook
  <2>4. ThreadsInv'
    BY <2>1, <2>3 DEF ThreadsInv
  <2>5. PhaseInv'
    BY <2>1, <2>2 DEF PhaseInv
  <2> QED  BY <2>1, <2>2, <2>4, <2>5 DEF BookInv
<1> QED  BY <1>1, <1>2, <1>3, <1>4

-----------------------------------------------------------------------------
(* The threads.  What a step of t leaves alone.                                          *)
OthersSame(t) ==
  /\ phase' = phase /\ file' = file /\ shouldStop' = shouldStop
  /\ pc' = [u \in Threads |-> pc'[u]] /\ avoid' = [u \in Threads |-> avoid'[u]] /\ rest' = [u \in Threads |-> rest'[u]]
  /\ node' = [u \in Threads |-> node'[u]]
  /\ \A u \in Threads \ {t} : pc'[u] = pc[u] /\ node'[u] = node[u] /\ avoid'[u] = avoid[u] /\ rest'[u] = rest[u]

(* A step that leaves the file alone and keeps the threads' nodes and its phase's      *)
(* part.                                                                               *)
LEMMA StepKeeps ==
  ASSUME BookInv, NEW t \in Threads, OthersSame(t), IsBook(book'), DOMAIN book.at \subseteq DOMAIN book'.at,
         node'[t] \in DOMAIN book'.at,
         phase \in Threading,
         phase = "expand" => ExpandInv', phase = "trace" => TraceInv', phase = "update" => UpdateInv'
  PROVE  BookInv'
<1>1. node' \in [Threads -> DOMAIN book'.at]
  <2>1. \A u \in Threads : node'[u] \in DOMAIN book'.at
    BY DEF OthersSame, BookInv, ThreadsInv
  <2> QED  BY <2>1 DEF OthersSame
<1>2. ThreadsInv'
  BY <1>1 DEF ThreadsInv, OthersSame
<1>3. PhaseInv'
  BY DEF PhaseInv, OthersSame, Threading
<1> QED  BY <1>2, <1>3 DEF BookInv, OthersSame

(* Each step of a thread keeps the invariant.                                          *)
LEMMA ReturnKeeps ==
  ASSUME BookInv, NEW t \in Threads, Return(t)
  PROVE  BookInv'
<1>1. /\ phase \in Threading /\ pc[t] = "pop" /\ (shouldStop \/ queue = <<>>)
      /\ pc' = [pc EXCEPT ![t] = "returned"]
      /\ phase' = phase /\ file' = file /\ shouldStop' = shouldStop
      /\ book' = book /\ queue' = queue /\ changed' = changed /\ node' = node /\ avoid' = avoid /\ rest' = rest
  BY DEF Return, At, Goto, mainThread
<1>2. ThreadsInv /\ IsBook(book)
  BY DEF BookInv
<1>3. pc'[t] = "returned" /\ OthersSame(t)
  BY <1>1, <1>2 DEF ThreadsInv, OthersSame
<1>4. ASSUME phase = "expand"  PROVE ExpandInv'
  <2>1. ExpandInv
    BY <1>4 DEF BookInv, PhaseInv
  <2>2. \A u \in Threads : Works(u)' <=> Works(u)
    BY <1>1, <1>3 DEF Works, OthersSame
  <2>3. \A u \in Threads : ExpandsWell(u)'
    BY <1>1, <1>3, <2>1, <2>2 DEF ExpandInv, ExpandsWell, HasNewChild, OthersSame
  <2>4. NodesApart'
    BY <1>1, <2>1, <2>2 DEF ExpandInv, NodesApart
  <2>5. \A n \in Unevaluated(book) : \E u \in Threads : Owes(u, n)'
    BY <1>1, <1>3, <2>1 DEF ExpandInv, Owes, Owing, OthersSame
  <2> QED  BY <1>1, <2>1, <2>3, <2>4, <2>5 DEF ExpandInv
<1>5. ASSUME phase = "trace"  PROVE TraceInv'
  BY <1>1, <1>3, <1>5 DEF BookInv, PhaseInv, TraceInv, TracesWell, OthersSame
<1>6. ASSUME phase = "update"  PROVE UpdateInv'
  <2>1. UpdateInv
    BY <1>6 DEF BookInv, PhaseInv
  <2>2. \A u \in Threads : UpdatesWell(u)'
    BY <1>1, <1>3, <2>1 DEF UpdateInv, UpdatesWell, OthersSame
  <2>3. \A n : (\E u \in Threads : Owes(u, n)) => \E u \in Threads : Owes(u, n)'
    BY <1>1, <1>3 DEF Owes, Owing, OthersSame
  <2> QED  BY <1>1, <2>1, <2>2, <2>3 DEF UpdateInv
<1>7. node'[t] \in DOMAIN book'.at
  BY <1>1, <1>2 DEF ThreadsInv
<1> QED  BY <1>1, <1>2, <1>3, <1>4, <1>5, <1>6, <1>7, StepKeeps

LEMMA PopToExpandKeeps ==
  ASSUME BookInv, NEW t \in Threads, PopToExpand(t)
  PROVE  BookInv'
<1> DEFINE n == Head(queue)
<1>1. /\ phase = "expand" /\ pc[t] = "pop" /\ queue # <<>>
      /\ queue' = Tail(queue) /\ node' = [node EXCEPT ![t] = n]
      /\ (pc' = pc /\ book' = [book EXCEPT !.at[n].canExpand = FALSE])
           \/ (pc' = [pc EXCEPT ![t] = "findMoves"] /\ book' = book)
      /\ phase' = phase /\ file' = file /\ shouldStop' = shouldStop
      /\ avoid' = avoid /\ rest' = rest
  BY DEF PopToExpand, At, Goto, mainThread, CannotExpand
<1>2. ThreadsInv /\ IsBook(book) /\ ExpandInv
  BY <1>1 DEF BookInv, PhaseInv
<1>3. /\ n \in DOMAIN book.at /\ queue' \in Seq(DOMAIN book.at)
      /\ Range(queue) = {n} \union Range(queue') /\ IsInjective(queue') /\ n \notin Range(queue')
  BY <1>1, <1>2, PoppedQueue DEF ExpandInv
<1> HIDE DEF n
<1>4. SameLinks(book, book') /\ SameSearches(book, book')
  <2>1. CASE book' = book
    BY <1>2, <2>1 DEF SameLinks, SameSearches, IsBook, IsNode
  <2>2. CASE book' = [book EXCEPT !.at[n].canExpand = FALSE]
    <3> DEFINE d == [book EXCEPT !.at[n].canExpand = FALSE]
    <3>1. SameLinks(book, d) /\ SameSearches(book, d)
      BY <1>2, <1>3, CloseKeeps
    <3>2. book' = d
      BY <2>2
    <3> HIDE DEF d
    <3> QED  BY <3>1, <3>2
  <2> QED  BY <1>1, <2>1, <2>2
<1>5. /\ IsBook(book') /\ DOMAIN book'.at = DOMAIN book.at /\ Unevaluated(book') = Unevaluated(book)
      /\ \A k \in DOMAIN book.at : book'.at[k].moves = book.at[k].moves
  BY <1>2, <1>4, SameLinksIsBook, SameUnevaluated DEF SameLinks
<1>6. pc'[t] \in {"pop", "findMoves"} /\ node'[t] = n /\ OthersSame(t)
  BY <1>1, <1>2 DEF ThreadsInv, OthersSame
<1>7. \A u \in Threads \ {t} : (Works(u)' <=> Works(u)) /\ (Works(u) => node[u] \notin Range(queue))
                               /\ node[u] \in DOMAIN book.at
  BY <1>2, <1>6 DEF Works, OthersSame, ExpandInv, ExpandsWell, ThreadsInv
<1>8. NodesApart'
  BY <1>2, <1>3, <1>6, <1>7 DEF NodesApart, OthersSame, ExpandInv
<1>9. ExpandsWell(t)'
  BY <1>3, <1>6 DEF ExpandsWell
<1>10. ASSUME NEW u \in Threads \ {t}  PROVE ExpandsWell(u)'
  <2>1. ExpandsWell(u)
    BY <1>2 DEF ExpandInv
  <2>2. ASSUME pc[u] = "childValues"  PROVE HasNewChild(u)'
    <3>1. PICK m \in LegalMoves(node[u]) :
            /\ rest[u] = <<m>> /\ Child[node[u]][m] \in DOMAIN book.at /\ book.at[Child[node[u]][m]].moves = {}
            /\ Child[node[u]][m] \notin Range(queue)
            /\ \A v \in Threads : Works(v) => node[v] # Child[node[u]][m]
      BY <2>1, <2>2 DEF ExpandsWell, HasNewChild
    <3>2. \A v \in Threads : Works(v)' => node'[v] # Child[node[u]][m]
      BY <1>3, <1>6, <1>7, <3>1 DEF OthersSame
    <3> QED  BY <1>3, <1>5, <1>6, <3>1, <3>2 DEF HasNewChild, OthersSame
  <2> QED  BY <1>3, <1>5, <1>6, <1>7, <2>1, <2>2 DEF ExpandsWell, OthersSame
<1>11. \A k \in Unevaluated(book) : \E u \in Threads : Owes(u, k)'
  BY <1>1, <1>2, <1>6 DEF ExpandInv, Owes, Owing, OthersSame
<1>12. ExpandInv'
  BY <1>3, <1>5, <1>8, <1>9, <1>10, <1>11 DEF ExpandInv
<1> QED  BY <1>1, <1>3, <1>5, <1>6, <1>12, StepKeeps DEF Threading

LEMMA FindMovesKeeps ==
  ASSUME BookInv, NEW t \in Threads, FindMoves(t)
  PROVE  BookInv'
<1>1. /\ phase \in Threading /\ pc[t] = "findMoves"
      /\ (pc' = [pc EXCEPT ![t] = "pop"] /\ avoid' = avoid /\ book' = [book EXCEPT !.at[node[t]].canExpand = FALSE])
           \/ (pc' = [pc EXCEPT ![t] = "search"] /\ avoid' = [avoid EXCEPT ![t] = book.at[node[t]].moves] /\ book' = book)
      /\ phase' = phase /\ file' = file /\ shouldStop' = shouldStop
      /\ queue' = queue /\ node' = node /\ rest' = rest
  BY DEF FindMoves, At, Goto, mainThread, CannotExpand
<1>2. ThreadsInv /\ IsBook(book)
  BY DEF BookInv
<1>3. phase = "expand" /\ ExpandInv
  BY <1>1 DEF Threading, BookInv, PhaseInv, TraceInv, UpdateInv, TracesWell, UpdatesWell
<1> DEFINE n == node[t]
<1>4. n \in DOMAIN book.at
  BY <1>2 DEF ThreadsInv
<1>5. SameLinks(book, book') /\ SameSearches(book, book')
  <2>1. CASE book' = book
    BY <1>2, <2>1 DEF SameLinks, SameSearches, IsBook, IsNode
  <2>2. CASE book' = [book EXCEPT !.at[n].canExpand = FALSE]
    <3> DEFINE d == [book EXCEPT !.at[n].canExpand = FALSE]
    <3>1. SameLinks(book, d) /\ SameSearches(book, d)
      BY <1>2, <1>4, CloseKeeps
    <3>2. book' = d
      BY <2>2
    <3> HIDE DEF d
    <3> QED  BY <3>1, <3>2
  <2> QED  BY <1>1, <2>1, <2>2
<1>6. /\ IsBook(book') /\ DOMAIN book'.at = DOMAIN book.at /\ Unevaluated(book') = Unevaluated(book)
      /\ \A k \in DOMAIN book.at : book'.at[k].moves = book.at[k].moves
  BY <1>2, <1>5, SameLinksIsBook, SameUnevaluated DEF SameLinks
<1>7. OthersSame(t)
  BY <1>1, <1>2 DEF ThreadsInv, OthersSame
<1>8. pc'[t] = "pop" \/ (pc'[t] = "search" /\ avoid'[t] = book.at[n].moves)
  BY <1>1, <1>2 DEF ThreadsInv
<1>9. \A u \in Threads : Works(u)' => Works(u)
  BY <1>1, <1>7 DEF Works, OthersSame
<1>10. NodesApart'
  BY <1>1, <1>3, <1>9 DEF NodesApart, ExpandInv
<1>11. ExpandsWell(t)'
  BY <1>1, <1>3, <1>4, <1>6, <1>8, <1>9 DEF ExpandsWell, ExpandInv
<1>12. ASSUME NEW u \in Threads \ {t}  PROVE ExpandsWell(u)'
  <2>1. ExpandsWell(u) /\ node[u] \in DOMAIN book.at
    BY <1>2, <1>3 DEF ExpandInv, ThreadsInv
  <2>2. ASSUME pc[u] = "childValues"  PROVE HasNewChild(u)'
    BY <1>1, <1>6, <1>7, <1>9, <2>1, <2>2 DEF ExpandsWell, HasNewChild, OthersSame
  <2> QED  BY <1>1, <1>6, <1>7, <1>9, <2>1, <2>2 DEF ExpandsWell, OthersSame
<1>13. \A k \in Unevaluated(book) : \E u \in Threads : Owes(u, k)'
  BY <1>1, <1>3, <1>7 DEF ExpandInv, Owes, Owing, OthersSame
<1>14. ExpandInv'
  BY <1>1, <1>3, <1>6, <1>10, <1>11, <1>12, <1>13 DEF ExpandInv
<1> QED  BY <1>1, <1>3, <1>4, <1>6, <1>7, <1>14, StepKeeps DEF Threading

LEMMA StopAfterSearchKeeps ==
  ASSUME BookInv, NEW t \in Threads, StopAfterSearch(t)
  PROVE  BookInv'
<1>1. /\ phase \in Threading /\ pc[t] = "search" /\ pc' = [pc EXCEPT ![t] = "pop"]
      /\ phase' = phase /\ file' = file /\ shouldStop' = shouldStop
      /\ book' = book /\ queue' = queue /\ node' = node /\ avoid' = avoid /\ rest' = rest
  BY DEF StopAfterSearch, At, Goto, mainThread
<1>2. ThreadsInv /\ IsBook(book)
  BY DEF BookInv
<1>3. phase = "expand" /\ ExpandInv
  BY <1>1 DEF Threading, BookInv, PhaseInv, TraceInv, UpdateInv, TracesWell, UpdatesWell
<1>4. OthersSame(t) /\ pc'[t] = "pop" /\ node'[t] \in DOMAIN book'.at
  BY <1>1, <1>2 DEF ThreadsInv, OthersSame
<1>5. \A u \in Threads : Works(u)' => Works(u)
  BY <1>1, <1>4 DEF Works, OthersSame
<1>6. NodesApart'
  BY <1>1, <1>3, <1>5 DEF NodesApart, ExpandInv
<1>7. \A u \in Threads : ExpandsWell(u)'
  BY <1>1, <1>3, <1>4, <1>5 DEF ExpandInv, ExpandsWell, HasNewChild, OthersSame
<1>8. \A k \in Unevaluated(book) : \E u \in Threads : Owes(u, k)'
  BY <1>1, <1>3, <1>4 DEF ExpandInv, Owes, Owing, OthersSame
<1>9. ExpandInv'
  BY <1>1, <1>3, <1>6, <1>7, <1>8 DEF ExpandInv
<1> QED  BY <1>1, <1>2, <1>3, <1>4, <1>9, StepKeeps DEF Threading

LEMMA AddChildKeeps ==
  ASSUME BookInv, NEW t \in Threads, AddChild(t)
  PROVE  BookInv'
<1> DEFINE n == node[t]
<1>1. /\ phase \in Threading /\ pc[t] = "search"
      /\ phase' = phase /\ file' = file /\ shouldStop' = shouldStop
      /\ queue' = queue /\ node' = node /\ avoid' = avoid
  BY DEF AddChild, At, mainThread
<1>2. ThreadsInv /\ IsBook(book)
  BY DEF BookInv
<1>3. phase = "expand" /\ ExpandInv
  BY <1>1 DEF Threading, BookInv, PhaseInv, TraceInv, UpdateInv, TracesWell, UpdatesWell
<1>4. n \in DOMAIN book.at /\ avoid[t] = book.at[n].moves /\ n \notin Range(queue)
  BY <1>1, <1>2, <1>3 DEF ThreadsInv, ExpandInv, ExpandsWell, Works
<1>5. PICK m \in Searched(n, avoid[t]) :
        /\ book' = AddMove(book, n, m)
        /\ IF InBook(book, Child[n][m]) THEN pc' = [pc EXCEPT ![t] = "update"] /\ rest' = rest
           ELSE pc' = [pc EXCEPT ![t] = "childValues"] /\ rest' = [rest EXCEPT ![t] = <<m>>]
  BY DEF AddChild, Goto
<1> DEFINE c == Child[n][m]
<1>6. m \in LegalMoves(n) /\ ~IsMoveInBook(book, n, m)
  BY <1>4, <1>5 DEF Searched, IsMoveInBook
<1>7. Added(book, book', n, c)
  BY <1>2, <1>4, <1>5, <1>6, AddMoveIsBook
<1>8. \/ c \in DOMAIN book.at /\ pc'[t] = "update"
      \/ c \notin DOMAIN book.at /\ pc'[t] = "childValues" /\ rest'[t] = <<m>>
  BY <1>2, <1>5 DEF InBook, ThreadsInv
<1>9. OthersSame(t)
  BY <1>1, <1>2, <1>5 DEF ThreadsInv, OthersSame
<1>10. /\ IsBook(book') /\ DOMAIN book'.at = DOMAIN book.at \union {c}
       /\ \A k \in DOMAIN book.at : book'.at[k].avoided = book.at[k].avoided
       /\ \A k \in DOMAIN book.at \ {n} : book'.at[k].moves = book.at[k].moves
       /\ c \notin DOMAIN book.at => book'.at[c].moves = {} /\ book'.at[c].avoided = {}
  BY <1>7 DEF Added
<1>11. \A u \in Threads : /\ Works(u)' <=> Works(u)
                          /\ node[u] \in DOMAIN book.at
                          /\ u # t /\ Works(u) => node[u] # n
  BY <1>1, <1>2, <1>3, <1>8, <1>9 DEF Works, OthersSame, ThreadsInv, ExpandInv, NodesApart
<1> HIDE DEF c
<1>12. NodesApart'
  BY <1>1, <1>3, <1>11 DEF NodesApart, ExpandInv
<1>13. \A k \in Range(queue) : k \in DOMAIN book.at
  BY <1>3, ElementOfSeq, LenProperties DEF ExpandInv, Range
<1>14. ExpandsWell(t)'
  <2>1. ASSUME pc'[t] = "childValues"  PROVE HasNewChild(t)'
    <3>1. c \notin DOMAIN book.at /\ rest'[t] = <<m>>
      BY <1>8, <2>1
    <3>2. c \notin Range(queue') /\ \A u \in Threads : node'[u] # c
      BY <1>1, <1>11, <1>13, <3>1
    <3>3. c \in DOMAIN book'.at /\ book'.at[c].moves = {}
      BY <1>10, <3>1
    <3>4. node'[t] = n
      BY <1>1
    <3> QED  BY <1>6, <3>1, <3>2, <3>3, <3>4 DEF HasNewChild, c
  <2>2. pc'[t] \in {"update", "childValues"}
    BY <1>8
  <2> QED  BY <1>1, <1>4, <2>1, <2>2 DEF ExpandsWell, Owing
<1>15. ASSUME NEW u \in Threads \ {t}  PROVE ExpandsWell(u)'
  <2>1. ExpandsWell(u) /\ (Works(u) => node[u] # n)
    BY <1>3, <1>11 DEF ExpandInv
  <2>2. ASSUME pc[u] = "childValues"  PROVE HasNewChild(u)'
    <3>1. PICK l \in LegalMoves(node[u]) :
            /\ rest[u] = <<l>> /\ Child[node[u]][l] \in DOMAIN book.at /\ book.at[Child[node[u]][l]].moves = {}
            /\ Child[node[u]][l] \notin Range(queue)
            /\ \A v \in Threads : Works(v) => node[v] # Child[node[u]][l]
      BY <2>1, <2>2 DEF ExpandsWell, HasNewChild
    <3>2. Child[node[u]][l] # n
      BY <1>1, <3>1 DEF Works
    <3> QED  BY <1>1, <1>9, <1>10, <1>11, <3>1, <3>2 DEF HasNewChild, OthersSame
  <2>3. pc[u] \in {"search", "noneLeft", "searchRest"} => book'.at[node[u]].moves = book.at[node[u]].moves
    BY <1>10, <1>11, <2>1 DEF Works
  <2> QED  BY <1>1, <1>9, <1>11, <2>1, <2>2, <2>3 DEF ExpandsWell, OthersSame
<1>16. \A k \in Unevaluated(book') : \E u \in Threads : Owes(u, k)'
  <2> SUFFICES ASSUME NEW k \in Unevaluated(book')  PROVE \E u \in Threads : Owes(u, k)'
    OBVIOUS
  <2>1. CASE k = n
    BY <1>1, <1>8, <2>1 DEF Owes, Owing
  <2>2. CASE k # n
    <3>1. k \in Unevaluated(book)
      BY <1>10, <2>2 DEF Unevaluated
    <3>2. PICK u \in Threads : Owes(u, k)
      BY <1>3, <3>1 DEF ExpandInv
    <3> QED  BY <1>1, <1>9, <2>2, <3>2 DEF Owes, OthersSame
  <2> QED  BY <2>1, <2>2
<1>17. queue' \in Seq(DOMAIN book'.at) /\ IsInjective(queue')
  BY <1>1, <1>3, <1>10 DEF ExpandInv
<1>18. ExpandInv'
  BY <1>12, <1>14, <1>15, <1>16, <1>17 DEF ExpandInv
<1>19. node'[t] \in DOMAIN book'.at /\ DOMAIN book.at \subseteq DOMAIN book'.at
  BY <1>1, <1>4, <1>10
<1> QED  BY <1>1, <1>3, <1>9, <1>10, <1>18, <1>19, StepKeeps DEF Threading

LEMMA SetChildValuesKeeps ==
  ASSUME BookInv, NEW t \in Threads, SetChildValues(t)
  PROVE  BookInv'
<1>1. /\ phase \in Threading /\ pc[t] = "childValues"
      /\ phase' = phase /\ file' = file /\ shouldStop' = shouldStop
      /\ queue' = queue /\ node' = node /\ avoid' = avoid
      /\ pc' = [pc EXCEPT ![t] = "update"] /\ rest' = [rest EXCEPT ![t] = <<>>]
  BY DEF SetChildValues, At, Goto, mainThread
<1>2. ThreadsInv /\ IsBook(book)
  BY DEF BookInv
<1>3. phase = "expand" /\ ExpandInv
  BY <1>1 DEF Threading, BookInv, PhaseInv, TraceInv, UpdateInv, TracesWell, UpdatesWell
<1> DEFINE c == Child[node[t]][Head(rest[t])]
<1>4. c \in DOMAIN book.at /\ book.at[c].moves = {}
  <2>1. HasNewChild(t)
    BY <1>1, <1>3 DEF ExpandInv, ExpandsWell
  <2>2. PICK m \in LegalMoves(node[t]) :
          rest[t] = <<m>> /\ Child[node[t]][m] \in DOMAIN book.at /\ book.at[Child[node[t]][m]].moves = {}
    BY <2>1 DEF HasNewChild
  <2>3. Head(rest[t]) = m
    BY <2>2
  <2> QED  BY <2>2, <2>3
<1>5. PICK v : book' = SetValues(book, c, {}, v)
  BY DEF SetChildValues
<1> HIDE DEF c
<1>6. Searches(book, book', c, {})
  BY <1>2, <1>4, <1>5, SetValuesKeeps
<1>7. /\ IsBook(book') /\ DOMAIN book'.at = DOMAIN book.at
      /\ \A k \in DOMAIN book.at : book'.at[k].moves = book.at[k].moves
      /\ Unevaluated(book') \subseteq Unevaluated(book)
  <2>1. SameLinks(book, book')
    BY <1>6 DEF Searches
  <2>2. IsBook(book')
    BY <1>2, <2>1, SameLinksIsBook
  <2> QED  BY <1>4, <1>6, <2>1, <2>2 DEF Searches, SameLinks, Unevaluated
<1>8. OthersSame(t) /\ pc'[t] = "update"
  BY <1>1, <1>2 DEF ThreadsInv, OthersSame
<1>9. \A u \in Threads : (Works(u)' <=> Works(u)) /\ node[u] \in DOMAIN book.at
  BY <1>1, <1>2, <1>8 DEF Works, OthersSame, ThreadsInv
<1>10. NodesApart'
  BY <1>1, <1>3, <1>9 DEF NodesApart, ExpandInv
<1>11. \A u \in Threads : ExpandsWell(u)'
  <2>1. ExpandsWell(t)'
    BY <1>1, <1>3, <1>8, <1>9 DEF ExpandInv, ExpandsWell, Owing
  <2>2. ASSUME NEW u \in Threads \ {t}  PROVE ExpandsWell(u)'
    <3>1. ExpandsWell(u)
      BY <1>3 DEF ExpandInv
    <3>2. HasNewChild(u) => HasNewChild(u)'
      BY <1>1, <1>7, <1>8, <1>9 DEF HasNewChild, OthersSame
    <3> QED  BY <1>1, <1>7, <1>8, <1>9, <3>1, <3>2 DEF ExpandsWell, OthersSame
  <2> QED  BY <2>1, <2>2
<1>12. \A k \in Unevaluated(book') : \E u \in Threads : Owes(u, k)'
  <2> SUFFICES ASSUME NEW k \in Unevaluated(book')  PROVE \E u \in Threads : Owes(u, k)'
    OBVIOUS
  <2>1. PICK u \in Threads : Owes(u, k)
    BY <1>3, <1>7 DEF ExpandInv
  <2> QED  BY <1>1, <1>8, <2>1 DEF Owes, Owing, OthersSame
<1>13. ExpandInv'
  BY <1>1, <1>3, <1>7, <1>10, <1>11, <1>12 DEF ExpandInv
<1>14. node'[t] \in DOMAIN book'.at
  BY <1>1, <1>7, <1>9
<1> QED  BY <1>1, <1>3, <1>7, <1>8, <1>13, <1>14, StepKeeps DEF Threading

(* updateNodeThisValues at its end: the node has the value of a search that left out its  *)
(* moves, and is nobody's any more.                                                      *)
LEMMA EvaluatedKeeps ==
  ASSUME BookInv, NEW t \in Threads, phase \in Threading,
         pc[t] \in {"update", "noneLeft", "searchRest"},
         pc' = [pc EXCEPT ![t] = "pop"],
         phase' = phase, file' = file, shouldStop' = shouldStop,
         queue' = queue, node' = node, avoid' = avoid, rest' = rest,
         Searches(book, book', node[t], book.at[node[t]].moves)
  PROVE  BookInv'
<1> DEFINE n == node[t]
<1>1. ThreadsInv /\ IsBook(book)
  BY DEF BookInv
<1>2. /\ IsBook(book') /\ DOMAIN book'.at = DOMAIN book.at
      /\ \A k \in DOMAIN book.at : book'.at[k].moves = book.at[k].moves
      /\ Unevaluated(book') \subseteq Unevaluated(book) \ {n}
  <2>1. SameLinks(book, book')
    BY DEF Searches
  <2>2. IsBook(book')
    BY <1>1, <2>1, SameLinksIsBook
  <2>3. n \in DOMAIN book.at
    BY <1>1 DEF ThreadsInv
  <2> QED  BY <2>1, <2>2, <2>3 DEF Searches, SameLinks, Unevaluated
<1>3. OthersSame(t) /\ pc'[t] = "pop" /\ node'[t] \in DOMAIN book'.at
  BY <1>1, <1>2 DEF ThreadsInv, OthersSame
<1>4. \A u \in Threads : (Works(u)' => Works(u)) /\ node[u] \in DOMAIN book.at
  BY <1>1, <1>3 DEF Works, OthersSame, ThreadsInv
<1>5. \A k : k # n /\ (\E u \in Threads : Owes(u, k)) => \E u \in Threads : Owes(u, k)'
  BY <1>3 DEF Owes, OthersSame
<1>6. ASSUME phase = "expand"  PROVE ExpandInv'
  <2>1. ExpandInv
    BY <1>6 DEF BookInv, PhaseInv
  <2>2. NodesApart'
    BY <1>4, <2>1 DEF NodesApart, ExpandInv
  <2>3. ASSUME NEW u \in Threads  PROVE ExpandsWell(u)'
    <3>1. ExpandsWell(u)
      BY <2>1 DEF ExpandInv
    <3>2. HasNewChild(u) => HasNewChild(u)'
      BY <1>2, <1>4 DEF HasNewChild
    <3> QED  BY <1>2, <1>3, <1>4, <3>1, <3>2 DEF ExpandsWell, OthersSame
  <2>4. \A k \in Unevaluated(book') : \E u \in Threads : Owes(u, k)'
    BY <1>2, <1>5, <2>1 DEF ExpandInv
  <2> QED  BY <1>2, <2>1, <2>2, <2>3, <2>4 DEF ExpandInv
<1>7. ASSUME phase = "trace"  PROVE FALSE
  BY <1>7 DEF BookInv, PhaseInv, TraceInv, TracesWell
<1>8. ASSUME phase = "update"  PROVE UpdateInv'
  <2>1. UpdateInv
    BY <1>8 DEF BookInv, PhaseInv
  <2>2. \A u \in Threads : UpdatesWell(u)'
    BY <1>2, <1>3, <1>4, <2>1 DEF UpdateInv, UpdatesWell, OthersSame
  <2>3. \A k \in Unevaluated(book') : shouldStop \/ k \in Range(queue) \/ \E u \in Threads : Owes(u, k)'
    BY <1>2, <1>5, <2>1 DEF UpdateInv
  <2> QED  BY <1>2, <2>1, <2>2, <2>3 DEF UpdateInv
<1> QED  BY <1>2, <1>3, <1>6, <1>7, <1>8, StepKeeps

LEMMA EvaluationKeeps ==
  ASSUME BookInv, NEW t \in Threads, UpdateFinished(t) \/ UpdateNoneLeft(t) \/ UpdateFromSearch(t)
  PROVE  BookInv'
<1> DEFINE n == node[t]
<1>1. ThreadsInv /\ IsBook(book) /\ n \in DOMAIN book.at
  BY DEF BookInv, ThreadsInv
<1>2. CASE UpdateFinished(t)
  <2> DEFINE left == book.at[n].moves
  <2>1. PICK v : book' = [SetValues(book, n, left, v) EXCEPT !.at[n].canExpand = FALSE]
    BY <1>2 DEF UpdateFinished
  <2>2. Searches(book, [SetValues(book, n, left, v) EXCEPT !.at[n].canExpand = FALSE], n, left)
    BY <1>1, SetValuesKeeps
  <2>3. Searches(book, book', n, left)
    <3> DEFINE d == [SetValues(book, n, left, v) EXCEPT !.at[n].canExpand = FALSE]
    <3>1. book' = d /\ Searches(book, d, n, left)
      BY <2>1, <2>2
    <3> HIDE DEF d
    <3> QED  BY <3>1
  <2> QED  BY <1>2, <2>3, EvaluatedKeeps DEF UpdateFinished, At, Goto, mainThread
<1>3. CASE UpdateNoneLeft(t) \/ UpdateFromSearch(t)
  <2> DEFINE left == avoid[t]
  <2>1. phase \in Threading /\ pc[t] \in {"noneLeft", "searchRest"}
    BY <1>3 DEF UpdateNoneLeft, UpdateFromSearch, At
  <2>2. left = book.at[n].moves
    BY <2>1 DEF Threading, BookInv, PhaseInv, ExpandInv, TraceInv, UpdateInv, ExpandsWell, TracesWell, UpdatesWell
  <2>3. Searches(book, book', n, left)
    <3>1. CASE UpdateNoneLeft(t)
      <4> DEFINE v == WorthNothing(n)
                 d == [SetValues(book, n, left, v) EXCEPT !.at[n].canExpand = FALSE]
      <4>1. book' = d
        BY <3>1 DEF UpdateNoneLeft
      <4> HIDE DEF v, left
      <4>2. Searches(book, d, n, left)
        BY <1>1, SetValuesKeeps
      <4> HIDE DEF d
      <4> QED  BY <4>1, <4>2
    <3>2. CASE UpdateFromSearch(t)
      <4>1. PICK v : book' = SetValues(book, n, left, v)
        BY <3>2 DEF UpdateFromSearch
      <4> DEFINE d == SetValues(book, n, left, v)
      <4> HIDE DEF left
      <4>2. Searches(book, d, n, left)
        BY <1>1, SetValuesKeeps
      <4> QED  BY <4>1, <4>2
    <3> QED  BY <1>3, <3>1, <3>2
  <2>4. Searches(book, book', n, book.at[n].moves)
    BY <2>2, <2>3
  <2> HIDE DEF left
  <2> QED  BY <1>3, <2>1, <2>4, EvaluatedKeeps DEF UpdateNoneLeft, UpdateFromSearch, Goto, mainThread
<1> QED  BY <1>2, <1>3

LEMMA PopToUpdateKeeps ==
  ASSUME BookInv, NEW t \in Threads, PopToUpdate(t)
  PROVE  BookInv'
<1> SUFFICES ASSUME NEW n, n = Head(queue)  PROVE BookInv'
  OBVIOUS
<1>1. /\ phase = "update" /\ pc[t] = "pop" /\ queue # <<>>
      /\ queue' = Tail(queue) /\ node' = [node EXCEPT ![t] = n] /\ pc' = [pc EXCEPT ![t] = "update"]
      /\ phase' = phase /\ file' = file /\ shouldStop' = shouldStop
      /\ book' = book /\ avoid' = avoid /\ rest' = rest
  BY DEF PopToUpdate, At, Goto, mainThread
<1>2. ThreadsInv /\ IsBook(book) /\ UpdateInv
  BY <1>1 DEF BookInv, PhaseInv
<1>3. /\ n \in DOMAIN book.at /\ queue' \in Seq(DOMAIN book.at)
      /\ Range(queue) = {n} \union Range(queue')
  BY <1>1, <1>2, PoppedQueue DEF UpdateInv
<1>4. OthersSame(t) /\ pc'[t] = "update" /\ node'[t] = n
  BY <1>1, <1>2 DEF ThreadsInv, OthersSame
<1>5. \A u \in Threads : UpdatesWell(u)'
  BY <1>1, <1>2, <1>4 DEF UpdateInv, UpdatesWell, OthersSame
<1>6. Owes(t, n)'
  BY <1>4 DEF Owes, Owing
<1>7. ASSUME NEW k, NEW u \in Threads, Owes(u, k)
      PROVE  \E w \in Threads : Owes(w, k)'
  <2>1. u # t
    BY <1>1, <1>7 DEF Owes, Owing
  <2> QED  BY <1>4, <1>7, <2>1 DEF Owes, OthersSame
<1>8. \A k \in Unevaluated(book) : shouldStop \/ k \in Range(queue') \/ \E u \in Threads : Owes(u, k)'
  BY <1>2, <1>3, <1>6, <1>7 DEF UpdateInv
<1>9. UpdateInv'
  BY <1>1, <1>3, <1>4, <1>5, <1>8 DEF UpdateInv
<1> QED  BY <1>1, <1>2, <1>3, <1>4, <1>9, StepKeeps DEF Threading

LEMMA FindRemainingKeeps ==
  ASSUME BookInv, NEW t \in Threads, FindRemaining(t)
  PROVE  BookInv'
<1> DEFINE next == IF NewMoves(book, node[t]) = {} THEN "noneLeft" ELSE "searchRest"
<1>0. next \in {"noneLeft", "searchRest"}
  OBVIOUS
<1>1. /\ phase \in Threading /\ pc[t] = "update" /\ pc' = [pc EXCEPT ![t] = next]
      /\ avoid' = [avoid EXCEPT ![t] = book.at[node[t]].moves]
      /\ phase' = phase /\ file' = file /\ shouldStop' = shouldStop
      /\ book' = book /\ queue' = queue /\ node' = node /\ rest' = rest
  BY DEF FindRemaining, At, Goto, mainThread
<1> HIDE DEF next
<1>2. ThreadsInv /\ IsBook(book)
  BY DEF BookInv
<1>3. OthersSame(t) /\ pc'[t] = next /\ avoid'[t] = book.at[node[t]].moves /\ node'[t] \in DOMAIN book'.at
  BY <1>1, <1>2 DEF ThreadsInv, OthersSame
<1>4. \A u \in Threads : Works(u)' <=> Works(u)
  BY <1>0, <1>1, <1>3 DEF Works, OthersSame
<1>5. \A k : (\E u \in Threads : Owes(u, k)) => \E u \in Threads : Owes(u, k)'
  BY <1>0, <1>1, <1>3 DEF Owes, Owing, OthersSame
<1>6. ASSUME phase = "expand"  PROVE ExpandInv'
  <2>1. ExpandInv
    BY <1>6 DEF BookInv, PhaseInv
  <2>2. NodesApart'
    BY <1>1, <1>4, <2>1 DEF NodesApart, ExpandInv
  <2>3. ASSUME NEW u \in Threads  PROVE ExpandsWell(u)'
    <3>1. ExpandsWell(u)
      BY <2>1 DEF ExpandInv
    <3>2. CASE u = t
      BY <1>0, <1>1, <1>3, <3>1, <3>2 DEF ExpandsWell, Owing, Works
    <3>3. CASE u # t
      <4>1. HasNewChild(u) => HasNewChild(u)'
        BY <1>1, <1>4 DEF HasNewChild
      <4> QED  BY <1>1, <1>3, <1>4, <3>1, <3>3, <4>1 DEF ExpandsWell, OthersSame
    <3> QED  BY <3>2, <3>3
  <2>4. \A k \in Unevaluated(book) : \E u \in Threads : Owes(u, k)'
    BY <1>5, <2>1 DEF ExpandInv
  <2> QED  BY <1>1, <2>1, <2>2, <2>3, <2>4 DEF ExpandInv
<1>7. ASSUME phase = "trace"  PROVE FALSE
  BY <1>1, <1>7 DEF BookInv, PhaseInv, TraceInv, TracesWell
<1>8. ASSUME phase = "update"  PROVE UpdateInv'
  <2>1. UpdateInv
    BY <1>8 DEF BookInv, PhaseInv
  <2>2. \A u \in Threads : UpdatesWell(u)'
    BY <1>0, <1>1, <1>3, <2>1 DEF UpdateInv, UpdatesWell, OthersSame
  <2>3. \A k \in Unevaluated(book) : shouldStop \/ k \in Range(queue) \/ \E u \in Threads : Owes(u, k)'
    BY <1>5, <2>1 DEF UpdateInv
  <2> QED  BY <1>1, <2>1, <2>2, <2>3 DEF UpdateInv
<1> QED  BY <1>1, <1>2, <1>3, <1>6, <1>7, <1>8, StepKeeps

LEMMA WalkOnKeeps ==
  ASSUME NEW t \in Threads, ThreadsInv, NEW b, IsBook(b), NEW n \in DOMAIN b.at, NEW ms \in Seq(Nat),
         WalkOn(t, b, n, ms),
         phase' = phase, file' = file, shouldStop' = shouldStop, avoid' = avoid
  PROVE  /\ IsBook(book') /\ DOMAIN book'.at = DOMAIN b.at /\ Unevaluated(book') = Unevaluated(b)
         /\ OthersSame(t) /\ node'[t] \in DOMAIN book'.at /\ TracesWell(t)'
<1> DEFINE f  == Follow(b, n, ms)
           on == f.node
           to == f.rest
<1>1. on \in DOMAIN b.at /\ to \in Seq(Nat)
  BY FollowInBook
<1>2. /\ node' = [node EXCEPT ![t] = on]
      /\ \/ /\ to # <<>> /\ Head(to) \in LegalMoves(on)
            /\ pc' = [pc EXCEPT ![t] = "policy"] /\ rest' = [rest EXCEPT ![t] = to] /\ book' = b
         \/ /\ pc' = [pc EXCEPT ![t] = "pop"] /\ rest' = [rest EXCEPT ![t] = <<>>]
            /\ book' = b \/ book' = [b EXCEPT !.at[on].canExpand = FALSE]
  BY DEF WalkOn, Goto
<1> HIDE DEF f, on, to
<1>3. SameLinks(b, book') /\ SameSearches(b, book')
  <2>1. CASE book' = b
    BY <2>1 DEF SameLinks, SameSearches, IsBook, IsNode
  <2>2. CASE book' = [b EXCEPT !.at[on].canExpand = FALSE]
    <3> DEFINE d == [b EXCEPT !.at[on].canExpand = FALSE]
    <3>1. SameLinks(b, d) /\ SameSearches(b, d)
      BY <1>1, CloseKeeps
    <3>2. book' = d
      BY <2>2
    <3> HIDE DEF d
    <3> QED  BY <3>1, <3>2
  <2> QED  BY <1>2, <2>1, <2>2
<1>4. IsBook(book') /\ DOMAIN book'.at = DOMAIN b.at /\ Unevaluated(book') = Unevaluated(b)
  BY <1>3, SameLinksIsBook, SameUnevaluated DEF SameLinks
<1>5. OthersSame(t) /\ node'[t] = on
  BY <1>2 DEF ThreadsInv, OthersSame
<1>6. TracesWell(t)'
  BY <1>1, <1>2, <1>5 DEF ThreadsInv, TracesWell
<1> QED  BY <1>1, <1>4, <1>5, <1>6

LEMMA PopLineKeeps ==
  ASSUME BookInv, NEW t \in Threads, PopLine(t)
  PROVE  BookInv'
<1> DEFINE line == Head(queue)
<1>1. /\ phase = "trace" /\ pc[t] = "pop" /\ queue # <<>> /\ queue' = Tail(queue)
      /\ WalkOn(t, book, Root, line)
      /\ phase' = phase /\ file' = file /\ shouldStop' = shouldStop /\ changed' = changed /\ avoid' = avoid
  BY DEF PopLine, At, mainThread
<1>2. ThreadsInv /\ IsBook(book) /\ TraceInv
  BY <1>1 DEF BookInv, PhaseInv
<1>3. line \in Seq(Nat) /\ queue' \in Seq(Seq(Nat))
  BY <1>1, <1>2, PoppedQueue DEF TraceInv
<1> HIDE DEF line
<1>4. Root \in DOMAIN book.at
  BY <1>2 DEF IsBook
<1>5. /\ IsBook(book') /\ DOMAIN book'.at = DOMAIN book.at /\ Unevaluated(book') = Unevaluated(book)
      /\ OthersSame(t) /\ node'[t] \in DOMAIN book'.at /\ TracesWell(t)'
  BY <1>1, <1>2, <1>3, <1>4, WalkOnKeeps
<1>6. \A u \in Threads : TracesWell(u)'
  BY <1>2, <1>5 DEF TraceInv, TracesWell, OthersSame
<1>7. TraceInv'
  BY <1>1, <1>2, <1>3, <1>5, <1>6 DEF TraceInv
<1> QED  BY <1>1, <1>5, <1>7, StepKeeps DEF Threading

LEMMA AddFromPolicyKeeps ==
  ASSUME BookInv, NEW t \in Threads, AddFromPolicy(t)
  PROVE  BookInv'
<1> DEFINE n == node[t]
           m == Head(rest[t])
           s == [book |-> book, changed |-> changed \union {n}]
<1>1. /\ phase \in Threading /\ pc[t] = "policy"
      /\ phase' = phase /\ file' = file /\ shouldStop' = shouldStop /\ queue' = queue /\ avoid' = avoid
  BY DEF AddFromPolicy, At, mainThread
<1>2. ThreadsInv /\ IsBook(book) /\ phase = "trace" /\ TraceInv
  BY <1>1 DEF Threading, BookInv, PhaseInv, ExpandInv, UpdateInv, ExpandsWell, UpdatesWell, Owing
<1>3. n \in DOMAIN book.at /\ rest[t] \in Seq(Nat) /\ m \in LegalMoves(n)
  BY <1>1, <1>2 DEF ThreadsInv, TraceInv, TracesWell
<1>4. PICK extra \in Better(n, m) :
        /\ changed' = AddAllNew(s, n, <<m>> \o extra).changed
        /\ WalkOn(t, AddAllNew(s, n, <<m>> \o extra).book, n, rest[t])
  BY DEF AddFromPolicy
<1> DEFINE r == AddAllNew(s, n, <<m>> \o extra)
<1>5. Noted(s, n)
  BY <1>2, <1>3 DEF Noted, TraceInv
<1>6. <<m>> \o extra \in Seq(LegalMoves(n))
  <2>1. PICK k \in Nat : extra \in [1..k -> LegalMoves(n)]
    <3>1. PICK k \in 0..Cardinality(LegalMoves(n)) : extra \in [1..k -> LegalMoves(n) \ {m}]
      BY DEF Better
    <3>2. k \in Nat
      BY <3>1
    <3>3. extra \in [1..k -> LegalMoves(n)]
      BY <3>1
    <3> QED  BY <3>2, <3>3
  <2> HIDE DEF n, m
  <2>2. extra \in Seq(LegalMoves(n)) /\ <<m>> \in Seq(LegalMoves(n))
    BY <1>3, <2>1
  <2> QED  BY <2>2, ConcatProperties
<1>7. Noted(r, n) /\ DOMAIN book.at \subseteq DOMAIN r.book.at
  <2>1. s.book = book
    OBVIOUS
  <2> HIDE DEF s, n, m
  <2> QED  BY <1>5, <1>6, <2>1, AddAllNewNotes
<1> HIDE DEF s
<1>8. changed' = r.changed /\ WalkOn(t, r.book, n, rest[t])
  BY <1>4
<1> HIDE DEF r
<1>9. IsBook(r.book) /\ n \in DOMAIN r.book.at
  BY <1>7 DEF Noted
<1>10. /\ IsBook(book') /\ DOMAIN book'.at = DOMAIN r.book.at /\ Unevaluated(book') = Unevaluated(r.book)
       /\ OthersSame(t) /\ node'[t] \in DOMAIN book'.at /\ TracesWell(t)'
  BY <1>1, <1>2, <1>3, <1>8, <1>9, WalkOnKeeps
<1>11. \A u \in Threads : TracesWell(u)'
  BY <1>2, <1>10 DEF TraceInv, TracesWell, OthersSame
<1>12. TraceInv'
  BY <1>1, <1>2, <1>7, <1>8, <1>10, <1>11 DEF TraceInv, Noted
<1> QED  BY <1>1, <1>2, <1>7, <1>10, <1>12, StepKeeps

(* Every step keeps the invariant.                                                     *)
LEMMA BookKept == BookInv /\ [BookNext]_bookVars => BookInv'
<1> SUFFICES ASSUME BookInv, [BookNext]_bookVars  PROVE BookInv'
  OBVIOUS
<1>1. CASE UNCHANGED bookVars
  BY <1>1 DEF bookVars, BookInv, ThreadsInv, PhaseInv, ExpandInv, ExpandsWell, HasNewChild, NodesApart, Works,
              Owes, TraceInv, TracesWell, UpdateInv, UpdatesWell
<1>2. CASE BeginIteration \/ EndIteration \/ EndTrace
  BY <1>2, BeginIterationKeeps, EndIterationKeeps, EndTraceKeeps
<1>3. CASE StartTrace \/ StartUpdate \/ EndIterations \/ Save \/ Signal \/ Restart
  BY <1>3, StartTraceKeeps, StartUpdateKeeps, RestOfMainKeeps
<1>4. ASSUME NEW t \in Threads, ThreadStep(t)  PROVE BookInv'
  <2>1. CASE Return(t) \/ PopToExpand(t) \/ FindMoves(t) \/ StopAfterSearch(t)
    BY <2>1, ReturnKeeps, PopToExpandKeeps, FindMovesKeeps, StopAfterSearchKeeps
  <2>2. CASE AddChild(t) \/ SetChildValues(t)
    BY <2>2, AddChildKeeps, SetChildValuesKeeps
  <2>3. CASE PopToUpdate(t) \/ FindRemaining(t)
    BY <2>3, PopToUpdateKeeps, FindRemainingKeeps
  <2>4. CASE UpdateFinished(t) \/ UpdateNoneLeft(t) \/ UpdateFromSearch(t)
    BY <2>4, EvaluationKeeps
  <2>5. CASE PopLine(t) \/ AddFromPolicy(t)
    BY <2>5, PopLineKeeps, AddFromPolicyKeeps
  <2> QED  BY <1>4, <2>1, <2>2, <2>3, <2>4, <2>5 DEF ThreadStep
<1> QED  BY <1>1, <1>2, <1>3, <1>4 DEF BookNext

(* The invariant gives what the runs check.                                            *)
LEMMA BookShown == BookInv => LinksStayWhole /\ FileIsEvaluated
<1> SUFFICES ASSUME BookInv  PROVE LinksStayWhole /\ FileIsEvaluated
  OBVIOUS
<1>1. LinksAgree(book) /\ LinksAgree(file)
  BY DEF BookInv, IsBook
<1>2. ValuesAreOfNewMoves(file)
  BY DEF BookInv, Unevaluated, ValuesAreOfNewMoves
<1> QED  BY <1>1, <1>2 DEF LinksStayWhole, FileIsEvaluated

(* The invariant of genbook: in an iteration the threads have nodes of their own, what a  *)
(* search leaves out is what its node has, and any node whose value is of other moves is  *)
(* owed a value by a thread, or is still to be updated.                                   *)
THEOREM BookIsKept == BookSpec => []BookInv
BY BookInitially, BookKept, PTL DEF BookSpec

(* Whatever threads grow the book and however they interleave, no move enters it twice    *)
(* and no position has two nodes, in memory or in the file (genbook.cpp:624).             *)
THEOREM LinksAreWhole == BookSpec => []LinksStayWhole
BY BookIsKept, BookShown, PTL

(* However the program is stopped or killed, every value in the file is of a search that  *)
(* left out the moves the file has there.                                                 *)
THEOREM FileIsOfSearches == BookSpec => []FileIsEvaluated
BY BookIsKept, BookShown, PTL
-----------------------------------------------------------------------------
(* The walks of the book, and what a recompute leaves.                                   *)

(* A walk from its start on, and values and costs as they are recomputed in turn.          *)
Walked(next, allowed, start, steps) ==
  LET walk[k \in 0..steps] == IF k = 0 THEN start ELSE WalkStep(next, allowed, walk[k - 1])
  IN walk

RecsAfter(b, order) ==
  LET recs[k \in 0..Len(order)] ==
        IF k = 0 THEN Recs(b)
        ELSE [recs[k - 1] EXCEPT ![order[k]] = RecomputeNodeValues(b, recs[k - 1], order[k])]
  IN recs

CostsAfter(b, recs, order) ==
  LET costs[k \in 0..Len(order)] ==
        IF k = 0 THEN Costs(b)
        ELSE [costs[k - 1] EXCEPT ![order[k]] = RecomputeNodeCost(b, recs, costs[k - 1], order[k])]
  IN costs

RecStep(b, order, r, k) == [r EXCEPT ![order[k]] = RecomputeNodeValues(b, r, order[k])]

CostStep(b, recs, order, r, k) == [r EXCEPT ![order[k]] = RecomputeNodeCost(b, recs, r, order[k])]

(* One step more of a walk.                                                            *)
LEMMA WalkSteps ==
  ASSUME NEW next, NEW allowed, NEW start, NEW steps \in Nat
  PROVE  /\ Walked(next, allowed, start, steps)[0] = start
         /\ \A k \in 1..steps : Walked(next, allowed, start, steps)[k] = WalkStep(next, allowed, Walked(next, allowed, start, steps)[k - 1])
<1> DEFINE n == steps
           Step(q, k) == WalkStep(next, allowed, q)
           Is(g, m) == g = [k \in 0..m |-> IF k = 0 THEN start ELSE Step(g[k - 1], k)]
           S == {m \in 0..n : \E g : Is(g, m)}
<1>1. 0 \in S
  <2> DEFINE h == [k \in 0..0 |-> start]
  <2>1. Is(h, 0)
    <3>1. \A k \in 0..0 : h[k] = (IF k = 0 THEN start ELSE Step(h[k - 1], k))
      OBVIOUS
    <3> HIDE DEF Step
    <3> QED  BY <3>1
  <2> HIDE DEF h
  <2> QED  BY <2>1
<1>2. ASSUME NEW m \in 0..(n - 1), m \in S  PROVE m + 1 \in S
  <2> HIDE DEF Step
  <2>1. PICK g : Is(g, m)
    BY <1>2
  <2> DEFINE h == [k \in 0..(m + 1) |-> IF k = m + 1 THEN Step(g[m], k) ELSE g[k]]
  <2>2. ASSUME NEW k \in 0..(m + 1)
        PROVE  h[k] = IF k = 0 THEN start ELSE Step(h[k - 1], k)
    <3>1. CASE k = m + 1
      BY <3>1
    <3>2. CASE k # m + 1
      BY <2>1, <3>2
    <3> QED  BY <3>1, <3>2
  <2>3. Is(h, m + 1)
    BY <2>2
  <2> HIDE DEF h, Is
  <2> QED  BY <2>3
<1>3. n \in S
  <2>1. n \in Nat
    OBVIOUS
  <2>2. \A k \in 0..(n - 1) : k \in S => k + 1 \in S
    BY <1>2
  <2> HIDE DEF S, n
  <2>3. \A k \in 0..n : k \in S
    BY <1>1, <2>1, <2>2, Induction
  <2> QED  BY <2>1, <2>3
<1>4. PICK g : Is(g, n)
  BY <1>3
<1>5. Walked(next, allowed, start, steps) = CHOOSE f : Is(f, n)
  BY DEF Walked
<1>6. Is(Walked(next, allowed, start, steps), n)
  <2> HIDE DEF Is
  <2> QED  BY <1>4, <1>5
<1> HIDE DEF Step
<1>7. Walked(next, allowed, start, steps)[0] = start /\ \A k \in 1..n : Walked(next, allowed, start, steps)[k] = Step(Walked(next, allowed, start, steps)[k - 1], k)
  <2> DEFINE fs == Walked(next, allowed, start, steps)
  <2>1. fs = [k \in 0..n |-> IF k = 0 THEN start ELSE Step(fs[k - 1], k)]
    BY <1>6
  <2> HIDE DEF fs
  <2> QED  BY <2>1 DEF fs
<1> QED
  BY <1>7 DEF Step

(* Recomputing the values of one node more.                                            *)
LEMMA RecsSteps ==
  ASSUME NEW b, NEW order, Len(order) \in Nat
  PROVE  /\ RecsAfter(b, order)[0] = Recs(b)
         /\ \A k \in 1..Len(order) : RecsAfter(b, order)[k] = RecStep(b, order, RecsAfter(b, order)[k - 1], k)
<1> DEFINE n == Len(order)
           Step(q, k) == RecStep(b, order, q, k)
           Is(g, m) == g = [k \in 0..m |-> IF k = 0 THEN Recs(b) ELSE Step(g[k - 1], k)]
           S == {m \in 0..n : \E g : Is(g, m)}
<1>1. 0 \in S
  <2> DEFINE h == [k \in 0..0 |-> Recs(b)]
  <2>1. Is(h, 0)
    <3>1. \A k \in 0..0 : h[k] = (IF k = 0 THEN Recs(b) ELSE Step(h[k - 1], k))
      OBVIOUS
    <3> HIDE DEF Step
    <3> QED  BY <3>1
  <2> HIDE DEF h
  <2> QED  BY <2>1
<1>2. ASSUME NEW m \in 0..(n - 1), m \in S  PROVE m + 1 \in S
  <2> HIDE DEF Step
  <2>1. PICK g : Is(g, m)
    BY <1>2
  <2> DEFINE h == [k \in 0..(m + 1) |-> IF k = m + 1 THEN Step(g[m], k) ELSE g[k]]
  <2>2. ASSUME NEW k \in 0..(m + 1)
        PROVE  h[k] = IF k = 0 THEN Recs(b) ELSE Step(h[k - 1], k)
    <3>1. CASE k = m + 1
      BY <3>1
    <3>2. CASE k # m + 1
      BY <2>1, <3>2
    <3> QED  BY <3>1, <3>2
  <2>3. Is(h, m + 1)
    BY <2>2
  <2> HIDE DEF h, Is
  <2> QED  BY <2>3
<1>3. n \in S
  <2>1. n \in Nat
    OBVIOUS
  <2>2. \A k \in 0..(n - 1) : k \in S => k + 1 \in S
    BY <1>2
  <2> HIDE DEF S, n
  <2>3. \A k \in 0..n : k \in S
    BY <1>1, <2>1, <2>2, Induction
  <2> QED  BY <2>1, <2>3
<1>4. PICK g : Is(g, n)
  BY <1>3
<1>5. RecsAfter(b, order) = CHOOSE f : Is(f, n)
  BY DEF RecsAfter, RecStep
<1>6. Is(RecsAfter(b, order), n)
  <2> HIDE DEF Is
  <2> QED  BY <1>4, <1>5
<1> HIDE DEF Step
<1>7. RecsAfter(b, order)[0] = Recs(b) /\ \A k \in 1..n : RecsAfter(b, order)[k] = Step(RecsAfter(b, order)[k - 1], k)
  <2> DEFINE fs == RecsAfter(b, order)
  <2>1. fs = [k \in 0..n |-> IF k = 0 THEN Recs(b) ELSE Step(fs[k - 1], k)]
    BY <1>6
  <2> HIDE DEF fs
  <2> QED  BY <2>1 DEF fs
<1> QED
  BY <1>7 DEF Step

(* And the costs of one node more.                                                     *)
LEMMA CostsSteps ==
  ASSUME NEW b, NEW recs, NEW order, Len(order) \in Nat
  PROVE  /\ CostsAfter(b, recs, order)[0] = Costs(b)
         /\ \A k \in 1..Len(order) : CostsAfter(b, recs, order)[k] = CostStep(b, recs, order, CostsAfter(b, recs, order)[k - 1], k)
<1> DEFINE n == Len(order)
           Step(q, k) == CostStep(b, recs, order, q, k)
           Is(g, m) == g = [k \in 0..m |-> IF k = 0 THEN Costs(b) ELSE Step(g[k - 1], k)]
           S == {m \in 0..n : \E g : Is(g, m)}
<1>1. 0 \in S
  <2> DEFINE h == [k \in 0..0 |-> Costs(b)]
  <2>1. Is(h, 0)
    <3>1. \A k \in 0..0 : h[k] = (IF k = 0 THEN Costs(b) ELSE Step(h[k - 1], k))
      OBVIOUS
    <3> HIDE DEF Step
    <3> QED  BY <3>1
  <2> HIDE DEF h
  <2> QED  BY <2>1
<1>2. ASSUME NEW m \in 0..(n - 1), m \in S  PROVE m + 1 \in S
  <2> HIDE DEF Step
  <2>1. PICK g : Is(g, m)
    BY <1>2
  <2> DEFINE h == [k \in 0..(m + 1) |-> IF k = m + 1 THEN Step(g[m], k) ELSE g[k]]
  <2>2. ASSUME NEW k \in 0..(m + 1)
        PROVE  h[k] = IF k = 0 THEN Costs(b) ELSE Step(h[k - 1], k)
    <3>1. CASE k = m + 1
      BY <3>1
    <3>2. CASE k # m + 1
      BY <2>1, <3>2
    <3> QED  BY <3>1, <3>2
  <2>3. Is(h, m + 1)
    BY <2>2
  <2> HIDE DEF h, Is
  <2> QED  BY <2>3
<1>3. n \in S
  <2>1. n \in Nat
    OBVIOUS
  <2>2. \A k \in 0..(n - 1) : k \in S => k + 1 \in S
    BY <1>2
  <2> HIDE DEF S, n
  <2>3. \A k \in 0..n : k \in S
    BY <1>1, <2>1, <2>2, Induction
  <2> QED  BY <2>1, <2>3
<1>4. PICK g : Is(g, n)
  BY <1>3
<1>5. CostsAfter(b, recs, order) = CHOOSE f : Is(f, n)
  BY DEF CostsAfter, CostStep
<1>6. Is(CostsAfter(b, recs, order), n)
  <2> HIDE DEF Is
  <2> QED  BY <1>4, <1>5
<1> HIDE DEF Step
<1>7. CostsAfter(b, recs, order)[0] = Costs(b) /\ \A k \in 1..n : CostsAfter(b, recs, order)[k] = Step(CostsAfter(b, recs, order)[k - 1], k)
  <2> DEFINE fs == CostsAfter(b, recs, order)
  <2>1. fs = [k \in 0..n |-> IF k = 0 THEN Costs(b) ELSE Step(fs[k - 1], k)]
    BY <1>6
  <2> HIDE DEF fs
  <2> QED  BY <2>1 DEF fs
<1> QED
  BY <1>7 DEF Step

(* A walk along next, which always leads to a higher rank.                                *)
IsWalk(next, allowed, starts, rank) ==
  /\ IsFiniteSet(allowed) /\ allowed \subseteq DOMAIN next
  /\ starts \in Seq(DOMAIN next)
  /\ \A n \in DOMAIN next : next[n] \in Seq(DOMAIN next)
  /\ rank \in [DOMAIN next -> Int]
  /\ \A n \in DOMAIN next : \A i \in DOMAIN next[n] : rank[next[n][i]] > rank[n]

Tasks(next) == {"visit", "leave"} \X DOMAIN next

Seen(w, n) == n \in Range(w.done) \/ Leave(n) \in Range(w.todo)

(* c is seen, or is a task in front of place j.                                             *)
Ahead(w, c, j) == Seen(w, c) \/ \E i \in DOMAIN w.todo : i < j /\ w.todo[i] = Visit(c)

TodoInv(next, allowed, rank, w) ==
  /\ w.todo \in Seq(Tasks(next)) /\ w.done \in Seq(allowed)
  /\ \A i, j \in DOMAIN w.todo : i < j /\ w.todo[j][1] = "leave" => rank[w.todo[i][2]] > rank[w.todo[j][2]]
  /\ \A i \in DOMAIN w.todo : w.todo[i][1] = "leave" => w.todo[i][2] \in allowed /\ w.todo[i][2] \notin Range(w.done)

(* What a node that is to be left leads to is seen, or will be before.                      *)
AheadInv(next, allowed, w) ==
  \A j \in DOMAIN w.todo : w.todo[j][1] = "leave" =>
    \A i \in DOMAIN next[w.todo[j][2]] :
      next[w.todo[j][2]][i] \in allowed => Ahead(w, next[w.todo[j][2]][i], j)

DoneInv(next, allowed, d) ==
  /\ IsInjective(d)
  /\ \A k \in DOMAIN d : \A i \in DOMAIN next[d[k]] :
       next[d[k]][i] \in allowed => \E j \in DOMAIN d : j < k /\ d[j] = next[d[k]][i]

StartInv(allowed, starts, w) ==
  \A i \in DOMAIN starts : starts[i] \in allowed => Seen(w, starts[i]) \/ Visit(starts[i]) \in Range(w.todo)

WalkInv(next, allowed, starts, rank, w) ==
  /\ TodoInv(next, allowed, rank, w) /\ AheadInv(next, allowed, w)
  /\ DoneInv(next, allowed, w.done) /\ StartInv(allowed, starts, w)

(* The first task is taken off the list.                                                    *)
LEMMA TaskTaken ==
  ASSUME NEW S, NEW q \in Seq(S), q # <<>>
  PROVE  /\ Head(q) \in S /\ Tail(q) \in Seq(S) /\ Head(q) = q[1] /\ 1 \in DOMAIN q
         /\ Len(Tail(q)) = Len(q) - 1
         /\ \A i \in DOMAIN Tail(q) : i + 1 \in DOMAIN q /\ Tail(q)[i] = q[i + 1]
         /\ \A i \in DOMAIN q : i # 1 => i - 1 \in DOMAIN Tail(q) /\ Tail(q)[i - 1] = q[i]
<1> DEFINE n == Len(q)
           r == Tail(q)
<1>1. n \in Nat /\ n # 0 /\ DOMAIN q = 1..n
  BY EmptySeq, LenProperties
<1>2. r \in Seq(S) /\ Len(r) = n - 1 /\ (\A i \in 1..Len(r) : r[i] = q[i + 1]) /\ Head(q) \in S /\ Head(q) = q[1]
  BY HeadTailProperties
<1>3. DOMAIN r = 1..(n - 1)
  BY <1>1, <1>2, LenProperties
<1> HIDE DEF n, r
<1>4. \A i \in 1..(n - 1) : i + 1 \in 1..n /\ r[i] = q[i + 1]
  BY <1>1, <1>2, <1>3
<1>5. \A i \in 1..n : i # 1 => i - 1 \in 1..(n - 1) /\ r[i - 1] = q[i]
  <2> SUFFICES ASSUME NEW i \in 1..n, i # 1  PROVE i - 1 \in 1..(n - 1) /\ r[i - 1] = q[i]
    OBVIOUS
  <2>1. i - 1 \in 1..(n - 1) /\ (i - 1) + 1 = i
    BY <1>1
  <2> QED  BY <2>1, <1>4
<1> QED  BY <1>1, <1>2, <1>3, <1>4, <1>5 DEF n, r

(* Or is done without: its node is seen, or is not one to see.                              *)
LEMMA DropKeeps ==
  ASSUME NEW next, NEW allowed, NEW starts, NEW rank, IsWalk(next, allowed, starts, rank),
         NEW w, WalkInv(next, allowed, starts, rank, w), w.todo # <<>>,
         NEW n, Head(w.todo) = Visit(n), n \notin allowed \/ Seen(w, n),
         NEW v, v.todo = Tail(w.todo), v.done = w.done
  PROVE  WalkInv(next, allowed, starts, rank, v) /\ \A k : Seen(v, k) <=> Seen(w, k)
<1> DEFINE q == w.todo
           r == v.todo
<1>1. q \in Seq(Tasks(next))
  BY DEF WalkInv, TodoInv
<1>2. /\ r \in Seq(Tasks(next)) /\ q[1] = Visit(n) /\ 1 \in DOMAIN q
      /\ \A i \in DOMAIN r : i + 1 \in DOMAIN q /\ r[i] = q[i + 1]
      /\ \A i \in DOMAIN q : i # 1 => i - 1 \in DOMAIN r /\ r[i - 1] = q[i]
  BY <1>1, TaskTaken
<1>3. DOMAIN q \subseteq Nat \ {0} /\ DOMAIN r \subseteq Nat
  BY <1>1, <1>2, LenProperties
<1>4. \A k : Visit(n) # Leave(k)
  BY DEF Visit, Leave
<1>5. \A k : Leave(k) \in Range(q) <=> Leave(k) \in Range(r)
  <2> HIDE DEF q, r
  <2> QED  BY <1>2, <1>4 DEF Range
<1>6. \A k : Seen(v, k) <=> Seen(w, k)
  BY <1>5 DEF Seen
<1>7. TodoInv(next, allowed, rank, v)
  <2>1. \A i, j \in DOMAIN q : i < j /\ q[j][1] = "leave" => rank[q[i][2]] > rank[q[j][2]]
    BY DEF WalkInv, TodoInv
  <2>2. \A i \in DOMAIN q : q[i][1] = "leave" => q[i][2] \in allowed /\ q[i][2] \notin Range(w.done)
    BY DEF WalkInv, TodoInv
  <2>3. w.done \in Seq(allowed)
    BY DEF WalkInv, TodoInv
  <2> HIDE DEF q
  <2>4. \A i, j \in DOMAIN r : i < j /\ r[j][1] = "leave" => rank[r[i][2]] > rank[r[j][2]]
    <3> SUFFICES ASSUME NEW i \in DOMAIN r, NEW j \in DOMAIN r, i < j, r[j][1] = "leave"
                 PROVE  rank[r[i][2]] > rank[r[j][2]]
      OBVIOUS
    <3> HIDE DEF r
    <3>1. i + 1 < j + 1 /\ r[i] = q[i + 1] /\ r[j] = q[j + 1] /\ i + 1 \in DOMAIN q /\ j + 1 \in DOMAIN q
      BY <1>2, <1>3
    <3> QED  BY <2>1, <3>1
  <2>5. \A i \in DOMAIN r : r[i][1] = "leave" => r[i][2] \in allowed /\ r[i][2] \notin Range(w.done)
    BY <1>2, <2>2
  <2> QED  BY <1>2, <2>3, <2>4, <2>5 DEF TodoInv
<1>8. \A c \in allowed, j \in DOMAIN r : Ahead(w, c, j + 1) => Ahead(v, c, j)
  <2> SUFFICES ASSUME NEW c \in allowed, NEW j \in DOMAIN r, Ahead(w, c, j + 1), ~Seen(w, c)
               PROVE  Ahead(v, c, j)
    BY <1>6 DEF Ahead
  <2>1. PICK i \in DOMAIN q : i < j + 1 /\ q[i] = Visit(c)
    BY DEF Ahead
  <2>2. i # 1
    <3> SUFFICES ASSUME i = 1 PROVE FALSE
      OBVIOUS
    <3>1. Visit(n) = Visit(c)
      BY <1>2, <2>1
    <3>2. n = c
      BY <3>1 DEF Visit
    <3> QED  BY <3>2
  <2> HIDE DEF q
  <2>3. i - 1 \in DOMAIN r /\ r[i - 1] = Visit(c) /\ i - 1 < j
    BY <1>2, <1>3, <2>1, <2>2
  <2> QED  BY <2>3 DEF Ahead
<1>9. AheadInv(next, allowed, v)
  <2> SUFFICES ASSUME NEW j \in DOMAIN r, r[j][1] = "leave", NEW i \in DOMAIN next[r[j][2]], next[r[j][2]][i] \in allowed
               PROVE  Ahead(v, next[r[j][2]][i], j)
    BY DEF AheadInv
  <2>1. j + 1 \in DOMAIN q /\ r[j] = q[j + 1]
    BY <1>2
  <2>2. Ahead(w, next[r[j][2]][i], j + 1)
    BY <2>1 DEF WalkInv, AheadInv
  <2> QED  BY <1>8, <2>2
<1>10. StartInv(allowed, starts, v)
  <2> SUFFICES ASSUME NEW i \in DOMAIN starts, starts[i] \in allowed, ~Seen(w, starts[i])
               PROVE  Visit(starts[i]) \in Range(r)
    BY <1>6 DEF StartInv
  <2> DEFINE c == starts[i]
  <2>1. Visit(c) \in Range(q)
    BY DEF WalkInv, StartInv
  <2>2. n # c
    OBVIOUS
  <2> HIDE DEF c, q, r
  <2>3. PICK k \in DOMAIN q : q[k] = Visit(c)
    BY <2>1 DEF Range
  <2>4. k # 1
    BY <1>2, <2>2, <2>3 DEF Visit
  <2>5. Visit(c) \in Range(r)
    BY <1>2, <2>3, <2>4 DEF Range
  <2> QED  BY <2>5 DEF c, r
<1>11. DoneInv(next, allowed, v.done)
  BY DEF WalkInv
<1> QED  BY <1>6, <1>7, <1>9, <1>10, <1>11 DEF WalkInv

(* A node is left: all it leads to has been left before.                                    *)
LEMMA LeaveKeeps ==
  ASSUME NEW next, NEW allowed, NEW starts, NEW rank, IsWalk(next, allowed, starts, rank),
         NEW w, WalkInv(next, allowed, starts, rank, w), w.todo # <<>>,
         NEW n, Head(w.todo) = Leave(n),
         NEW v, v.todo = Tail(w.todo), v.done = Append(w.done, n)
  PROVE  WalkInv(next, allowed, starts, rank, v) /\ \A k : Seen(v, k) <=> Seen(w, k)
<1> DEFINE q == w.todo
           r == v.todo
           d == w.done
           e == v.done
           l == Len(d)
<1>1. q \in Seq(Tasks(next)) /\ d \in Seq(allowed)
  BY DEF WalkInv, TodoInv
<1>2. /\ r \in Seq(Tasks(next)) /\ q[1] = Leave(n) /\ 1 \in DOMAIN q
      /\ \A i \in DOMAIN r : i + 1 \in DOMAIN q /\ r[i] = q[i + 1]
      /\ \A i \in DOMAIN q : i # 1 => i - 1 \in DOMAIN r /\ r[i - 1] = q[i]
  BY <1>1, TaskTaken
<1>3. DOMAIN q \subseteq Nat \ {0} /\ DOMAIN r \subseteq Nat \ {0}
  BY <1>1, <1>2, LenProperties
<1>4. \A i, j \in DOMAIN q : i < j /\ q[j][1] = "leave" => rank[q[i][2]] > rank[q[j][2]]
  BY DEF WalkInv, TodoInv
<1>5. \A i \in DOMAIN q : q[i][1] = "leave" => q[i][2] \in allowed /\ q[i][2] \notin Range(d)
  BY DEF WalkInv, TodoInv
<1>6. n \in allowed /\ n \notin Range(d) /\ n \in DOMAIN next /\ rank[n] \in Int
  BY <1>2, <1>5 DEF Leave, IsWalk
<1>7. /\ e \in Seq(allowed) /\ DOMAIN e = 1..(l + 1) /\ DOMAIN d = 1..l /\ l \in Nat
      /\ e[l + 1] = n /\ \A i \in 1..l : e[i] = d[i]
  BY <1>1, <1>6, AppendProperties, LenProperties
<1>8. \A k : k \in Range(e) <=> k = n \/ k \in Range(d)
  <2> HIDE DEF d, e, l
  <2>1. l + 1 \in 1..(l + 1) /\ \A i \in 1..l : i \in 1..(l + 1)
    BY <1>7
  <2>2. \A i \in 1..(l + 1) : i \in 1..l \/ i = l + 1
    BY <1>7
  <2> QED  BY <1>7, <2>1, <2>2 DEF Range
<1> HIDE DEF q, r, d, e, l
<1>9. \A i \in DOMAIN q : i # 1 /\ q[i][1] = "leave" => rank[n] > rank[q[i][2]]
  <2> SUFFICES ASSUME NEW i \in DOMAIN q, i # 1, q[i][1] = "leave"  PROVE rank[n] > rank[q[i][2]]
    OBVIOUS
  <2>1. 1 < i /\ q[1][2] = n
    BY <1>2, <1>3 DEF Leave
  <2> QED  BY <1>2, <1>4, <2>1
<1>10. \A k : Leave(k) \in Range(q) <=> k = n \/ Leave(k) \in Range(r)
  <2>1. \A k : Leave(k) = Leave(n) => k = n
    BY DEF Leave
  <2> QED  BY <1>2, <2>1 DEF Range
<1>11. \A k : Seen(v, k) <=> Seen(w, k)
  BY <1>8, <1>10 DEF Seen, q, r, d, e
<1>12. \A i \in DOMAIN r : r[i][1] = "leave" => r[i][2] \in allowed /\ r[i][2] \notin Range(e)
  <2> SUFFICES ASSUME NEW i \in DOMAIN r, r[i][1] = "leave"
               PROVE  r[i][2] \in allowed /\ r[i][2] \notin Range(e)
    OBVIOUS
  <2>1. i + 1 \in DOMAIN q /\ r[i] = q[i + 1] /\ i + 1 # 1
    BY <1>2, <1>3
  <2>2. rank[n] > rank[r[i][2]]
    BY <1>9, <2>1
  <2>3. r[i][2] # n
    BY <1>6, <2>2
  <2> QED  BY <1>5, <1>8, <2>1, <2>3
<1>13. \A i, j \in DOMAIN r : i < j /\ r[j][1] = "leave" => rank[r[i][2]] > rank[r[j][2]]
  <2> SUFFICES ASSUME NEW i \in DOMAIN r, NEW j \in DOMAIN r, i < j, r[j][1] = "leave"
               PROVE  rank[r[i][2]] > rank[r[j][2]]
    OBVIOUS
  <2>1. i + 1 < j + 1 /\ r[i] = q[i + 1] /\ r[j] = q[j + 1] /\ i + 1 \in DOMAIN q /\ j + 1 \in DOMAIN q
    BY <1>2, <1>3
  <2> QED  BY <1>4, <2>1
<1>14. TodoInv(next, allowed, rank, v)
  BY <1>2, <1>7, <1>12, <1>13 DEF TodoInv, r, e
<1>15. AheadInv(next, allowed, v)
  <2> SUFFICES ASSUME NEW j \in DOMAIN r, r[j][1] = "leave", NEW i \in DOMAIN next[r[j][2]], next[r[j][2]][i] \in allowed
               PROVE  Ahead(v, next[r[j][2]][i], j)
    BY DEF AheadInv, r
  <2> DEFINE c == next[r[j][2]][i]
  <2>1. j + 1 \in DOMAIN q /\ r[j] = q[j + 1]
    BY <1>2
  <2>2. Ahead(w, c, j + 1)
    BY <2>1 DEF WalkInv, AheadInv, q
  <2> HIDE DEF c
  <2>3. CASE Seen(w, c)
    BY <1>11, <2>3 DEF Ahead, c
  <2>4. CASE ~Seen(w, c)
    <3>1. PICK k \in DOMAIN q : k < j + 1 /\ q[k] = Visit(c)
      BY <2>2, <2>4 DEF Ahead, q
    <3>2. k # 1
      BY <1>2, <3>1 DEF Visit, Leave
    <3>3. k - 1 \in DOMAIN r /\ r[k - 1] = Visit(c) /\ k - 1 < j
      BY <1>2, <1>3, <3>1, <3>2
    <3> QED  BY <3>3 DEF Ahead, c, r
  <2> QED  BY <2>3, <2>4
<1>16. StartInv(allowed, starts, v)
  <2> SUFFICES ASSUME NEW i \in DOMAIN starts, starts[i] \in allowed, ~Seen(w, starts[i])
               PROVE  Visit(starts[i]) \in Range(r)
    BY <1>11 DEF StartInv, r
  <2> DEFINE c == starts[i]
  <2>1. Visit(c) \in Range(q)
    BY DEF WalkInv, StartInv, q
  <2> HIDE DEF c
  <2>2. PICK k \in DOMAIN q : q[k] = Visit(c)
    BY <2>1 DEF Range
  <2>3. k # 1
    BY <1>2, <2>2 DEF Visit, Leave
  <2>4. Visit(c) \in Range(r)
    BY <1>2, <2>2, <2>3 DEF Range
  <2> QED  BY <2>4 DEF c
<1>17. \A i \in DOMAIN next[n] : next[n][i] \in allowed => next[n][i] \in Range(d)
  <2> SUFFICES ASSUME NEW i \in DOMAIN next[n], next[n][i] \in allowed  PROVE next[n][i] \in Range(d)
    OBVIOUS
  <2> DEFINE c == next[n][i]
  <2>1. rank[c] > rank[n] /\ rank[c] \in Int
    <3>1. next[n] \in Seq(DOMAIN next) /\ rank \in [DOMAIN next -> Int] /\ rank[c] > rank[n]
      BY <1>6 DEF IsWalk
    <3>2. next[n][i] \in DOMAIN next
      BY <3>1, LenProperties
    <3> HIDE DEF c
    <3>3. c \in DOMAIN next
      BY <3>2 DEF c
    <3>4. rank \in [DOMAIN next -> Int]
      BY <3>1
    <3>5. rank[c] \in Int
      BY <3>3, <3>4
    <3> QED  BY <3>1, <3>5
  <2>2. Ahead(w, c, 1)
    <3>1. q[1][1] = "leave" /\ q[1][2] = n
      BY <1>2 DEF Leave
    <3>2. \A j \in DOMAIN q : q[j][1] = "leave" =>
            \A k \in DOMAIN next[q[j][2]] : next[q[j][2]][k] \in allowed => Ahead(w, next[q[j][2]][k], j)
      BY DEF WalkInv, AheadInv, q
    <3> QED  BY <1>2, <3>1, <3>2
  <2> HIDE DEF c
  <2>3. Seen(w, c)
    BY <1>3, <2>2 DEF Ahead, q
  <2>4. CASE Leave(c) \in Range(q)
    <3>1. PICK k \in DOMAIN q : q[k] = Leave(c)
      BY <2>4 DEF Range
    <3>2. k = 1 \/ rank[n] > rank[c]
      BY <1>9, <3>1 DEF Leave
    <3>3. k = 1 => c = n
      BY <1>2, <3>1 DEF Leave
    <3> QED  BY <1>6, <2>1, <3>2, <3>3
  <2> QED  BY <2>3, <2>4 DEF Seen, q, d, c
<1>18. DoneInv(next, allowed, e)
  <2>1. /\ IsInjective(d)
        /\ \A k \in DOMAIN d : \A i \in DOMAIN next[d[k]] :
             next[d[k]][i] \in allowed => \E j \in DOMAIN d : j < k /\ d[j] = next[d[k]][i]
    BY DEF WalkInv, DoneInv, d
  <2>2. IsInjective(e)
    <3> SUFFICES ASSUME NEW i \in DOMAIN e, NEW j \in DOMAIN e, e[i] = e[j]  PROVE i = j
      BY DEF IsInjective
    <3>1. i \in DOMAIN d \/ i = l + 1
      BY <1>7
    <3>2. j \in DOMAIN d \/ j = l + 1
      BY <1>7
    <3>3. \A k \in DOMAIN d : d[k] # n /\ e[k] = d[k]
      BY <1>6, <1>7 DEF Range
    <3> QED  BY <1>7, <2>1, <3>1, <3>2, <3>3 DEF IsInjective
  <2>3. ASSUME NEW k \in DOMAIN e, NEW i \in DOMAIN next[e[k]], next[e[k]][i] \in allowed
        PROVE  \E j \in DOMAIN e : j < k /\ e[j] = next[e[k]][i]
    <3>1. CASE k = l + 1
      <4>1. next[n][i] \in Range(d) /\ e[k] = n
        BY <1>7, <1>17, <2>3, <3>1
      <4>2. PICK j \in DOMAIN d : d[j] = next[n][i]
        BY <4>1 DEF Range
      <4>3. j \in DOMAIN e /\ j < k /\ e[j] = d[j]
        BY <1>7, <3>1
      <4> QED  BY <4>1, <4>2, <4>3
    <3>2. CASE k # l + 1
      <4>1. k \in DOMAIN d /\ e[k] = d[k]
        BY <1>7, <3>2
      <4>2. PICK j \in DOMAIN d : j < k /\ d[j] = next[e[k]][i]
        BY <2>1, <2>3, <4>1
      <4>3. j \in DOMAIN e /\ e[j] = d[j]
        BY <1>7
      <4> QED  BY <4>2, <4>3
    <3> QED  BY <3>1, <3>2
  <2> QED  BY <2>2, <2>3 DEF DoneInv
<1> QED  BY <1>11, <1>14, <1>15, <1>16, <1>18 DEF WalkInv, e

(* Tasks in the place of the first one.                                                     *)
IsSplice(S, a, x, q, t) ==
  /\ t \in Seq(S) /\ DOMAIN t = 1..(Len(a) + Len(q))
  /\ \A i \in 1..Len(a) : t[i] = a[i]
  /\ t[Len(a) + 1] = x
  /\ \A i \in DOMAIN q : i # 1 => t[i + Len(a)] = q[i]
  /\ \A i \in DOMAIN t : i <= Len(a) \/ i = Len(a) + 1 \/ (i - Len(a) \in DOMAIN q /\ i - Len(a) # 1)

LEMMA Spliced ==
  ASSUME NEW S, NEW a \in Seq(S), NEW x \in S, NEW q \in Seq(S), q # <<>>, NEW t, t = a \o <<x>> \o Tail(q)
  PROVE  IsSplice(S, a, x, q, t)
<1> DEFINE k == Len(a)
           l == Len(q)
           r == Tail(q)
           o == <<x>>
           p == a \o o
<1>1. /\ k \in Nat /\ l \in Nat \ {0} /\ DOMAIN q = 1..l /\ r \in Seq(S) /\ Len(r) = l - 1
      /\ \A i \in 1..(l - 1) : r[i] = q[i + 1]
  BY EmptySeq, LenProperties, HeadTailProperties
<1>2. o \in Seq(S) /\ Len(o) = 1 /\ o[1] = x
  OBVIOUS
<1> HIDE DEF r, o
<1>3. /\ p \in Seq(S) /\ Len(p) = k + 1
      /\ \A i \in 1..(k + 1) : p[i] = IF i <= k THEN a[i] ELSE o[i - k]
  <2>1. /\ p \in Seq(S) /\ Len(p) = Len(a) + Len(o)
        /\ \A i \in 1..(Len(a) + Len(o)) : p[i] = IF i <= Len(a) THEN a[i] ELSE o[i - Len(a)]
    BY <1>2, ConcatProperties
  <2> HIDE DEF p
  <2> QED  BY <1>2, <2>1
<1>4. (\A i \in 1..k : p[i] = a[i]) /\ p[k + 1] = x
  <2> HIDE DEF p, k, l
  <2>1. \A i \in 1..k : i \in 1..(k + 1) /\ i <= k
    BY <1>1
  <2>2. k + 1 \in 1..(k + 1) /\ ~(k + 1 <= k) /\ (k + 1) - k = 1
    BY <1>1
  <2> QED  BY <1>2, <1>3, <2>1, <2>2
<1> HIDE DEF p
<1>5. t = p \o r
  BY DEF p, o, r
<1>6. /\ t \in Seq(S) /\ Len(t) = (k + 1) + (l - 1)
      /\ \A i \in 1..((k + 1) + (l - 1)) : t[i] = IF i <= k + 1 THEN p[i] ELSE r[i - (k + 1)]
  <2>1. /\ p \o r \in Seq(S) /\ Len(p \o r) = Len(p) + Len(r)
        /\ \A i \in 1..(Len(p) + Len(r)) : (p \o r)[i] = IF i <= Len(p) THEN p[i] ELSE r[i - Len(p)]
    BY <1>1, <1>3, ConcatProperties
  <2>2. Len(p) = k + 1 /\ Len(r) = l - 1
    BY <1>1, <1>3
  <2> HIDE DEF k, l
  <2>3. /\ t \in Seq(S) /\ Len(t) = Len(p) + Len(r)
        /\ \A i \in 1..(Len(p) + Len(r)) : t[i] = IF i <= Len(p) THEN p[i] ELSE r[i - Len(p)]
    BY <1>5, <2>1
  <2> QED  BY <2>2, <2>3
<1>7. DOMAIN t = 1..Len(t)
  BY <1>6, LenProperties
<1> HIDE DEF k, l
<1>8. (k + 1) + (l - 1) = k + l
  BY <1>1
<1>9. DOMAIN t = 1..(k + l) /\ \A i \in 1..(k + l) : t[i] = IF i <= k + 1 THEN p[i] ELSE r[i - (k + 1)]
  BY <1>6, <1>7, <1>8
<1>10. \A i \in 1..k : t[i] = a[i]
  <2>1. \A i \in 1..k : i \in 1..(k + l) /\ i <= k + 1
    BY <1>1
  <2> QED  BY <1>4, <1>9, <2>1
<1>11. t[k + 1] = x
  <2>1. k + 1 \in 1..(k + l) /\ k + 1 <= k + 1
    BY <1>1
  <2> QED  BY <1>4, <1>9, <2>1
<1>12. ASSUME NEW i \in 1..l, i # 1  PROVE t[i + k] = q[i]
  <2>1. i + k \in 1..(k + l) /\ ~(i + k <= k + 1) /\ (i + k) - (k + 1) = i - 1 /\ i - 1 \in 1..(l - 1) /\ (i - 1) + 1 = i
    BY <1>1, <1>12
  <2>2. t[i + k] = r[i - 1]
    BY <1>9, <2>1
  <2> QED  BY <1>1, <2>1, <2>2
<1>13. \A i \in 1..(k + l) : i <= k \/ i = k + 1 \/ (i - k \in 1..l /\ i - k # 1)
  BY <1>1
<1> QED  BY <1>1, <1>6, <1>9, <1>10, <1>11, <1>12, <1>13 DEF k, l, IsSplice

(* The tasks of a node that is seen for the first time.                                       *)
Expanded(next, n, todo) == [i \in DOMAIN next[n] |-> Visit(next[n][i])] \o <<Leave(n)>> \o Tail(todo)

(* A walk after that.                                                                         *)
WalkedOn(next, allowed, starts, rank, w, n, v) ==
  /\ WalkInv(next, allowed, starts, rank, v)
  /\ \A k : Seen(v, k) <=> Seen(w, k) \/ k = n
  /\ Len(v.todo) = Len(next[n]) + Len(w.todo)

(* What it leads to is visited before it is left.                                             *)
LEMMA ExpandKeeps ==
  ASSUME NEW next, NEW allowed, NEW starts, NEW rank, IsWalk(next, allowed, starts, rank),
         NEW w, WalkInv(next, allowed, starts, rank, w), w.todo # <<>>,
         NEW n, Head(w.todo) = Visit(n), n \in allowed, ~Seen(w, n),
         NEW v, v.done = w.done, v.todo = Expanded(next, n, w.todo)
  PROVE  WalkedOn(next, allowed, starts, rank, w, n, v)
<1> DEFINE q == w.todo
           t == v.todo
           a == [i \in DOMAIN next[n] |-> Visit(next[n][i])]
           l == Len(a)
<1>1. q \in Seq(Tasks(next)) /\ n \in DOMAIN next /\ next[n] \in Seq(DOMAIN next)
  BY DEF WalkInv, TodoInv, IsWalk
<1>2. q[1] = Visit(n) /\ 1 \in DOMAIN q
  BY <1>1, TaskTaken
<1>3. DOMAIN q = 1..Len(q) /\ Len(q) \in Nat
  BY <1>1, LenProperties
<1>4. DOMAIN next[n] = 1..Len(next[n]) /\ Len(next[n]) \in Nat /\ \A i \in DOMAIN next[n] : next[n][i] \in DOMAIN next
  BY <1>1, LenProperties
<1>5. \A k \in DOMAIN next : Visit(k) \in Tasks(next) /\ Leave(k) \in Tasks(next)
  BY DEF Visit, Leave, Tasks
<1>6. a \in Seq(Tasks(next)) /\ l = Len(next[n]) /\ \A i \in 1..l : a[i] = Visit(next[n][i])
  BY <1>4, <1>5
<1> HIDE DEF a
<1>7. t = a \o <<Leave(n)>> \o Tail(q)
  BY DEF a, Expanded
<1> HIDE DEF q, t
<1>8. /\ t \in Seq(Tasks(next)) /\ DOMAIN t = 1..(l + Len(q))
      /\ \A i \in 1..l : t[i] = a[i]
      /\ t[l + 1] = Leave(n)
      /\ \A i \in DOMAIN q : i # 1 => t[i + l] = q[i]
      /\ \A i \in DOMAIN t : i <= l \/ i = l + 1 \/ (i - l \in DOMAIN q /\ i - l # 1)
  <2>1. q # <<>> /\ Leave(n) \in Tasks(next)
    BY <1>1, <1>5 DEF q
  <2> DEFINE S == Tasks(next)
             x == Leave(n)
  <2>2. a \in Seq(S) /\ x \in S /\ q \in Seq(S) /\ q # <<>> /\ t = a \o <<x>> \o Tail(q)
    BY <1>1, <1>6, <1>7, <2>1
  <2> HIDE DEF S, x
  <2>3. IsSplice(S, a, x, q, t)
    BY <2>2, Spliced
  <2> QED  BY <2>3 DEF IsSplice, S, x
<1>9. Len(t) = l + Len(q)
  BY <1>3, <1>4, <1>6, <1>8, LenProperties
<1>10. l \in Nat /\ \A i \in 1..l : i \in DOMAIN next[n] /\ t[i] = Visit(next[n][i])
  BY <1>4, <1>6, <1>8
<1> HIDE DEF l
<1>11. DOMAIN t \subseteq Nat \ {0} /\ DOMAIN q \subseteq Nat \ {0} /\ l + 1 \in DOMAIN t
  BY <1>2, <1>3, <1>8, <1>10
<1>12. \A i \in DOMAIN q : i # 1 => i + l \in DOMAIN t
  BY <1>3, <1>8, <1>10
<1>13. \A i \in DOMAIN t : \/ i \in 1..l /\ t[i] = Visit(next[n][i])
                           \/ i = l + 1 /\ t[i] = Leave(n)
                           \/ i > l + 1 /\ i - l \in DOMAIN q /\ i - l # 1 /\ t[i] = q[i - l]
  <2> SUFFICES ASSUME NEW i \in DOMAIN t
               PROVE  \/ i \in 1..l /\ t[i] = Visit(next[n][i])
                      \/ i = l + 1 /\ t[i] = Leave(n)
                      \/ i > l + 1 /\ i - l \in DOMAIN q /\ i - l # 1 /\ t[i] = q[i - l]
    OBVIOUS
  <2>1. CASE i <= l
    BY <1>10, <1>11, <2>1
  <2>2. CASE i = l + 1
    BY <1>8, <2>2
  <2>3. CASE i - l \in DOMAIN q /\ i - l # 1
    <3>1. (i - l) + l = i /\ i > l + 1
      <4>1. i \in Nat /\ i - l \in Nat \ {0} /\ i - l # 1
        BY <1>11, <2>3
      <4> QED  BY <1>10, <4>1
    <3> QED  BY <1>8, <2>3, <3>1
  <2> QED  BY <1>8, <2>1, <2>2, <2>3
<1>14. /\ \A i, j \in DOMAIN q : i < j /\ q[j][1] = "leave" => rank[q[i][2]] > rank[q[j][2]]
       /\ \A i \in DOMAIN q : q[i][1] = "leave" => q[i][2] \in allowed /\ q[i][2] \notin Range(w.done)
       /\ w.done \in Seq(allowed)
  BY DEF WalkInv, TodoInv, q
<1>15. \A k : Leave(k) \in Range(t) <=> k = n \/ Leave(k) \in Range(q)
  <2>1. ASSUME NEW k, Leave(k) \in Range(t)  PROVE k = n \/ Leave(k) \in Range(q)
    <3>1. PICK i \in DOMAIN t : t[i] = Leave(k)
      BY <2>1 DEF Range
    <3> QED  BY <1>13, <3>1 DEF Range, Leave, Visit
  <2>2. ASSUME NEW k, Leave(k) \in Range(q)  PROVE Leave(k) \in Range(t)
    <3>1. PICK i \in DOMAIN q : q[i] = Leave(k)
      BY <2>2 DEF Range
    <3>2. i # 1
      BY <1>2, <3>1 DEF Leave, Visit
    <3> QED  BY <1>8, <1>12, <3>1, <3>2 DEF Range
  <2> QED  BY <1>8, <1>11, <2>1, <2>2 DEF Range
<1>16. \A k : Seen(v, k) <=> Seen(w, k) \/ k = n
  BY <1>15 DEF Seen, q, t
<1>17. \A i \in DOMAIN next[n] : rank[next[n][i]] > rank[n] /\ rank[next[n][i]] \in Int
  BY <1>1, <1>4 DEF IsWalk
<1>18. \A j \in DOMAIN q : j # 1 /\ q[j][1] = "leave" => rank[n] > rank[q[j][2]] /\ rank[q[j][2]] \in Int
  <2> SUFFICES ASSUME NEW j \in DOMAIN q, j # 1, q[j][1] = "leave"
               PROVE  rank[n] > rank[q[j][2]] /\ rank[q[j][2]] \in Int
    OBVIOUS
  <2>1. 1 < j /\ q[1][2] = n
    BY <1>2, <1>11 DEF Visit
  <2>2. rank \in [DOMAIN next -> Int] /\ allowed \subseteq DOMAIN next
    BY DEF IsWalk
  <2> QED  BY <1>2, <1>14, <2>1, <2>2
<1>19. rank[n] \in Int
  BY <1>1 DEF IsWalk
<1>20. ASSUME NEW i \in DOMAIN t, NEW j \in DOMAIN t, i < j, t[j][1] = "leave"
       PROVE  rank[t[i][2]] > rank[t[j][2]]
  <2>1. (j = l + 1 /\ t[j][2] = n) \/ (j > l + 1 /\ j - l \in DOMAIN q /\ j - l # 1 /\ t[j] = q[j - l])
    <3>1. ~(t[j] = Visit(next[n][j]))
      BY <1>20 DEF Visit
    <3>2. t[j] = Leave(n) => t[j][2] = n
      BY DEF Leave
    <3>3. \/ j \in 1..l /\ t[j] = Visit(next[n][j])
          \/ j = l + 1 /\ t[j] = Leave(n)
          \/ j > l + 1 /\ j - l \in DOMAIN q /\ j - l # 1 /\ t[j] = q[j - l]
      BY <1>13
    <3>4. CASE j \in 1..l /\ t[j] = Visit(next[n][j])
      BY <3>1, <3>4
    <3>5. CASE j = l + 1 /\ t[j] = Leave(n)
      BY <3>2, <3>5
    <3>6. CASE j > l + 1 /\ j - l \in DOMAIN q /\ j - l # 1 /\ t[j] = q[j - l]
      BY <3>6
    <3> QED  BY <3>3, <3>4, <3>5, <3>6
  <2>2. CASE i \in 1..l
    <3>1. rank[t[i][2]] > rank[n] /\ rank[t[i][2]] \in Int
      BY <1>10, <1>17, <2>2 DEF Visit
    <3>2. t[j][2] = n \/ (rank[n] > rank[t[j][2]] /\ rank[t[j][2]] \in Int)
      BY <1>18, <1>20, <2>1
    <3> QED  BY <1>19, <3>1, <3>2
  <2>3. CASE i = l + 1
    <3>1. t[i][2] = n
      BY <1>8, <2>3 DEF Leave
    <3> QED  BY <1>18, <1>20, <2>1, <2>3, <3>1
  <2>4. CASE i > l + 1 /\ i - l \in DOMAIN q /\ i - l # 1 /\ t[i] = q[i - l]
    <3>1. j - l \in DOMAIN q /\ i - l < j - l /\ t[j] = q[j - l]
      BY <1>10, <1>11, <1>20, <2>1, <2>4
    <3> QED  BY <1>14, <1>20, <2>4, <3>1
  <2> QED  BY <1>13, <2>2, <2>3, <2>4
<1>21. \A i \in DOMAIN t : t[i][1] = "leave" => t[i][2] \in allowed /\ t[i][2] \notin Range(w.done)
  <2>1. n \notin Range(w.done)
    BY DEF Seen
  <2> QED  BY <1>13, <1>14, <2>1 DEF Visit, Leave
<1>22. TodoInv(next, allowed, rank, v)
  BY <1>8, <1>14, <1>20, <1>21 DEF TodoInv, t
<1>23. ASSUME NEW c \in allowed, NEW j \in DOMAIN q, j # 1, Ahead(w, c, j)
       PROVE  Ahead(v, c, j + l)
  <2>1. CASE Seen(w, c) \/ c = n
    BY <1>16, <2>1 DEF Ahead
  <2>2. CASE ~Seen(w, c) /\ c # n
    <3>1. PICK i \in DOMAIN q : i < j /\ q[i] = Visit(c)
      BY <1>23, <2>2 DEF Ahead, q
    <3>2. i # 1
      BY <1>2, <2>2, <3>1 DEF Visit
    <3>3. i + l \in DOMAIN t /\ t[i + l] = Visit(c) /\ i + l < j + l
      BY <1>8, <1>10, <1>11, <1>12, <3>1, <3>2
    <3> QED  BY <3>3 DEF Ahead, t
  <2> QED  BY <2>1, <2>2
<1>24. AheadInv(next, allowed, v)
  <2> SUFFICES ASSUME NEW j \in DOMAIN t, t[j][1] = "leave", NEW i \in DOMAIN next[t[j][2]], next[t[j][2]][i] \in allowed
               PROVE  Ahead(v, next[t[j][2]][i], j)
    BY DEF AheadInv, t
  <2> DEFINE c == next[t[j][2]][i]
  <2>1. CASE j = l + 1
    <3>1. t[j][2] = n
      BY <1>8, <2>1 DEF Leave
    <3>2. i \in DOMAIN next[n] /\ c = next[n][i]
      BY <3>1
    <3>3. l = Len(next[n])
      BY <1>6 DEF l
    <3> HIDE DEF c
    <3>4. i \in 1..l
      BY <1>4, <3>2, <3>3
    <3>5. i \in DOMAIN t /\ i < j /\ t[i] = Visit(c)
      BY <1>3, <1>8, <1>10, <2>1, <3>2, <3>4
    <3> QED  BY <3>5 DEF Ahead, t, c
  <2>2. CASE j > l + 1 /\ j - l \in DOMAIN q /\ j - l # 1 /\ t[j] = q[j - l]
    <3>1. \A k \in DOMAIN q : q[k][1] = "leave" =>
            \A m \in DOMAIN next[q[k][2]] : next[q[k][2]][m] \in allowed => Ahead(w, next[q[k][2]][m], k)
      BY DEF WalkInv, AheadInv, q
    <3>2. Ahead(w, c, j - l)
      BY <2>2, <3>1
    <3> HIDE DEF c
    <3>3. c \in allowed
      BY DEF c
    <3>4. Ahead(v, c, (j - l) + l)
      BY <1>23, <2>2, <3>2, <3>3
    <3>5. (j - l) + l = j
      BY <1>10, <1>11
    <3> QED  BY <3>4, <3>5 DEF c
  <2> QED  BY <1>13, <2>1, <2>2 DEF Visit
<1>25. StartInv(allowed, starts, v)
  <2> SUFFICES ASSUME NEW i \in DOMAIN starts, starts[i] \in allowed, ~Seen(w, starts[i]), starts[i] # n
               PROVE  Visit(starts[i]) \in Range(t)
    BY <1>16 DEF StartInv, t
  <2> DEFINE c == starts[i]
  <2>1. Visit(c) \in Range(q) /\ c # n
    BY DEF WalkInv, StartInv, q
  <2> HIDE DEF c
  <2>2. PICK k \in DOMAIN q : q[k] = Visit(c)
    BY <2>1 DEF Range
  <2>3. k # 1
    BY <1>2, <2>1, <2>2 DEF Visit
  <2>4. Visit(c) \in Range(t)
    BY <1>8, <1>12, <2>2, <2>3 DEF Range
  <2> QED  BY <2>4 DEF c
<1>26. DoneInv(next, allowed, v.done)
  BY DEF WalkInv
<1>27. Len(v.todo) = Len(next[n]) + Len(w.todo)
  BY <1>6, <1>9 DEF t, q, l
<1> QED  BY <1>16, <1>22, <1>24, <1>25, <1>26, <1>27 DEF WalkInv, WalkedOn

(* The places of a walk's links.                                                            *)
Links(next, allowed) == UNION {{n} \X DOMAIN next[n] : n \in allowed}

LEMMA LinksAreFinite ==
  ASSUME NEW next, NEW allowed, NEW starts, NEW rank, IsWalk(next, allowed, starts, rank)
  PROVE  /\ IsFiniteSet(Links(next, allowed)) /\ Cardinality(Links(next, allowed)) \in Nat
         /\ \A n \in allowed : Len(next[n]) \in Nat /\ Len(next[n]) <= Cardinality(Links(next, allowed))
<1> DEFINE L == Links(next, allowed)
           T == {{n} \X DOMAIN next[n] : n \in allowed}
<1>1. \A n \in allowed : next[n] \in Seq(DOMAIN next)
  BY DEF IsWalk
<1>2. ASSUME NEW n \in allowed
      PROVE  /\ Len(next[n]) \in Nat /\ IsFiniteSet({n} \X DOMAIN next[n])
             /\ Cardinality({n} \X DOMAIN next[n]) = Len(next[n])
  <2>1. Len(next[n]) \in Nat /\ DOMAIN next[n] = 1..Len(next[n])
    BY <1>1, LenProperties
  <2> DEFINE k == Len(next[n])
             A == {n}
             D == DOMAIN next[n]
  <2> HIDE DEF k
  <2>2. k \in Nat /\ D = 1..k
    BY <2>1 DEF k
  <2>3. IsFiniteSet(D) /\ Cardinality(D) = k
    BY <2>2, FS_Interval
  <2>4. IsFiniteSet(A) /\ Cardinality(A) = 1
    BY FS_Singleton
  <2> HIDE DEF A, D
  <2>5. IsFiniteSet(A \X D) /\ Cardinality(A \X D) = Cardinality(A) * Cardinality(D)
    BY <2>3, <2>4, FS_Product
  <2>6. Cardinality(A \X D) = k
    BY <2>2, <2>3, <2>4, <2>5
  <2> QED  BY <2>1, <2>5, <2>6 DEF A, D, k
<1>3. IsFiniteSet(T)
  <2> DEFINE f == [n \in allowed |-> {n} \X DOMAIN next[n]]
  <2>1. f \in Surjection(allowed, T)
    BY DEF Surjection
  <2>2. IsFiniteSet(allowed)
    BY DEF IsWalk
  <2> HIDE DEF f, T
  <2> QED  BY <2>1, <2>2, FS_Surjection
<1>4. \A X \in T : IsFiniteSet(X)
  BY <1>2
<1>5. IsFiniteSet(L)
  <2> HIDE DEF T
  <2>1. IsFiniteSet(UNION T)
    BY <1>3, <1>4, FS_UNION
  <2> QED  BY <2>1 DEF L, T, Links
<1>6. Cardinality(L) \in Nat
  BY <1>5, FS_CardinalityType
<1>7. ASSUME NEW n \in allowed  PROVE Len(next[n]) \in Nat /\ Len(next[n]) <= Cardinality(L)
  <2> DEFINE X == {n} \X DOMAIN next[n]
  <2>1. X \in SUBSET L
    BY DEF Links
  <2>2. Cardinality(X) = Len(next[n]) /\ Len(next[n]) \in Nat
    BY <1>2
  <2> HIDE DEF X, L
  <2>3. Cardinality(X) <= Cardinality(L)
    BY <1>5, <2>1, FS_Subset
  <2> QED  BY <2>2, <2>3
<1> QED  BY <1>5, <1>6, <1>7

(* What a walk has still to do, at most.                                                    *)
Unseen(allowed, w) == {n \in allowed : ~Seen(w, n)}

StepsLeft(next, allowed, w) ==
  Cardinality(Unseen(allowed, w)) * (Cardinality(Links(next, allowed)) + 1) + Len(w.todo)

(* A step of a walk keeps its invariant, and is one less to do.                             *)
LEMMA WalkStepKeeps ==
  ASSUME NEW next, NEW allowed, NEW starts, NEW rank, IsWalk(next, allowed, starts, rank),
         NEW w, WalkInv(next, allowed, starts, rank, w), w.todo # <<>>
  PROVE  /\ WalkInv(next, allowed, starts, rank, WalkStep(next, allowed, w))
         /\ StepsLeft(next, allowed, w) \in Nat
         /\ StepsLeft(next, allowed, WalkStep(next, allowed, w)) <= StepsLeft(next, allowed, w) - 1
<1> DEFINE q == w.todo
           n == Head(q)[2]
           v == WalkStep(next, allowed, w)
           K == Cardinality(Links(next, allowed)) + 1
           U == Unseen(allowed, w)
           V == Unseen(allowed, v)
<1>1. q \in Seq(Tasks(next)) /\ q # <<>>
  BY DEF WalkInv, TodoInv
<1>2. Head(q) \in Tasks(next) /\ Tail(q) \in Seq(Tasks(next)) /\ Len(Tail(q)) = Len(q) - 1
  <2> DEFINE S == Tasks(next)
  <2>1. q \in Seq(S)
    BY <1>1
  <2> HIDE DEF S, q
  <2>2. Head(q) \in S /\ Tail(q) \in Seq(S) /\ Len(Tail(q)) = Len(q) - 1
    BY <1>1, <2>1, TaskTaken
  <2> QED  BY <2>2 DEF S
<1>3. n \in DOMAIN next /\ (Head(q) = Visit(n) \/ Head(q) = Leave(n))
  BY <1>2 DEF Tasks, Visit, Leave
<1>4. Len(q) \in Nat
  BY <1>1, LenProperties
<1>5. IsFiniteSet(U) /\ Cardinality(U) \in Nat
  <2>1. IsFiniteSet(allowed) /\ U \in SUBSET allowed
    BY DEF IsWalk, Unseen
  <2> HIDE DEF U
  <2>2. IsFiniteSet(U)
    BY <2>1, FS_Subset
  <2> QED  BY <2>2, FS_CardinalityType
<1>6. K \in Nat /\ \A k \in allowed : Len(next[k]) \in Nat /\ Len(next[k]) <= K - 1
  BY LinksAreFinite
<1>7. StepsLeft(next, allowed, w) = Cardinality(U) * K + Len(q)
  BY DEF StepsLeft
<1>8. StepsLeft(next, allowed, v) = Cardinality(V) * K + Len(v.todo)
  BY DEF StepsLeft
<1>9. Cardinality(U) * K \in Nat
  <2> HIDE DEF U, K
  <2> QED  BY <1>5, <1>6
<1>10. StepsLeft(next, allowed, w) \in Nat
  <2> DEFINE p == Cardinality(U) * K
  <2> HIDE DEF p, q
  <2>1. p \in Nat /\ StepsLeft(next, allowed, w) = p + Len(q)
    BY <1>7, <1>9 DEF p
  <2> QED  BY <1>4, <2>1
<1>11. ASSUME WalkInv(next, allowed, starts, rank, v), \A k : Seen(v, k) <=> Seen(w, k), v.todo = Tail(q)
       PROVE  StepsLeft(next, allowed, v) <= StepsLeft(next, allowed, w) - 1
  <2>1. V = U
    BY <1>11 DEF Unseen
  <2> DEFINE p == Cardinality(U) * K
  <2>2. StepsLeft(next, allowed, v) = p + Len(Tail(q)) /\ StepsLeft(next, allowed, w) = p + Len(q) /\ p \in Nat
    BY <1>7, <1>8, <1>9, <1>11, <2>1
  <2> HIDE DEF p, q, v
  <2> QED  BY <1>2, <1>4, <2>2
<1>12. CASE Head(q) = Leave(n)
  <2>1. v = [todo |-> Tail(q), done |-> Append(w.done, n)]
    BY <1>1, <1>12 DEF WalkStep
  <2>2. v.todo = Tail(w.todo) /\ v.done = Append(w.done, n)
    BY <2>1
  <2> HIDE DEF v
  <2>3. WalkInv(next, allowed, starts, rank, v) /\ \A k : Seen(v, k) <=> Seen(w, k)
    BY <1>12, <2>2, LeaveKeeps
  <2>4. StepsLeft(next, allowed, v) <= StepsLeft(next, allowed, w) - 1
    BY <1>11, <2>2, <2>3
  <2> QED  BY <1>10, <2>3, <2>4 DEF v
<1>13. CASE Head(q) = Visit(n)
  <2>1. Head(q) # Leave(n)
    BY <1>13 DEF Visit, Leave
  <2>2. CASE n \notin allowed \/ Seen(w, n)
    <3>1. v = [todo |-> Tail(q), done |-> w.done]
      BY <1>1, <2>1, <2>2 DEF WalkStep, Seen
    <3>2. v.todo = Tail(w.todo) /\ v.done = w.done
      BY <3>1
    <3> HIDE DEF v
    <3>3. WalkInv(next, allowed, starts, rank, v) /\ \A k : Seen(v, k) <=> Seen(w, k)
      BY <1>13, <2>2, <3>2, DropKeeps
    <3>4. StepsLeft(next, allowed, v) <= StepsLeft(next, allowed, w) - 1
      BY <1>11, <3>2, <3>3
    <3> QED  BY <1>10, <3>3, <3>4 DEF v
  <2>3. CASE n \in allowed /\ ~Seen(w, n)
    <3>1. v = [todo |-> Expanded(next, n, q), done |-> w.done]
      BY <1>1, <2>1, <2>3 DEF WalkStep, Seen, Expanded
    <3>2. v.todo = Expanded(next, n, q) /\ v.done = w.done
      BY <3>1
    <3> HIDE DEF v
    <3>3. /\ WalkInv(next, allowed, starts, rank, v) /\ \A k : Seen(v, k) <=> Seen(w, k) \/ k = n
          /\ Len(v.todo) = Len(next[n]) + Len(q)
      <4>1. Head(w.todo) = Visit(n) /\ n \in allowed /\ ~Seen(w, n)
        BY <1>13, <2>3
      <4> HIDE DEF n
      <4> HIDE DEF q
      <4>2. v.todo = Expanded(next, n, w.todo) /\ v.done = w.done
        BY <3>2 DEF q
      <4>3. WalkedOn(next, allowed, starts, rank, w, n, v)
        BY <4>1, <4>2, ExpandKeeps
      <4> QED  BY <4>3 DEF q, WalkedOn
    <3>4. V = U \ {n} /\ n \in U
      BY <2>3, <3>3 DEF Unseen
    <3>5. Cardinality(V) = Cardinality(U) - 1
      <4> HIDE DEF U, V
      <4> QED  BY <1>5, <3>4, FS_RemoveElement
    <3>6. Cardinality(V) * K = Cardinality(U) * K - K
      <4> HIDE DEF U, V, K
      <4> QED  BY <1>5, <1>6, <3>5
    <3> DEFINE p == Cardinality(U) * K
    <3>7. StepsLeft(next, allowed, v) = (p - K) + (Len(next[n]) + Len(q)) /\ StepsLeft(next, allowed, w) = p + Len(q) /\ p \in Nat
      BY <1>7, <1>8, <1>9, <3>3, <3>6
    <3>8. Len(next[n]) \in Nat /\ Len(next[n]) <= K - 1
      BY <1>6, <2>3
    <3> HIDE DEF p, q, n, K
    <3>9. StepsLeft(next, allowed, v) <= StepsLeft(next, allowed, w) - 1
      BY <1>4, <1>6, <3>7, <3>8
    <3> QED  BY <1>10, <3>3, <3>9 DEF v
  <2> QED  BY <2>2, <2>3
<1> QED  BY <1>3, <1>12, <1>13

(* A walk as it begins.                                                                     *)
LEMMA WalkBegins ==
  ASSUME NEW next, NEW allowed, NEW starts, NEW rank, IsWalk(next, allowed, starts, rank),
         NEW w, w.todo = [i \in DOMAIN starts |-> Visit(starts[i])], w.done = <<>>
  PROVE  /\ WalkInv(next, allowed, starts, rank, w)
         /\ StepsLeft(next, allowed, w) = Len(starts) + Cardinality(allowed) * (Cardinality(Links(next, allowed)) + 1)
<1> DEFINE q == w.todo
<1>1. Len(starts) \in Nat /\ DOMAIN starts = 1..Len(starts) /\ \A i \in DOMAIN starts : starts[i] \in DOMAIN next
  BY LenProperties DEF IsWalk
<1>2. q = [i \in DOMAIN starts |-> Visit(starts[i])] /\ \A k \in DOMAIN next : Visit(k) \in Tasks(next)
  BY DEF Visit, Tasks
<1> DEFINE l == Len(starts)
<1>3. q \in [1..l -> Tasks(next)] /\ \A i \in DOMAIN starts : q[i] = Visit(starts[i])
  BY <1>1, <1>2
<1>4. l \in Nat
  BY <1>1
<1> HIDE DEF q, l
<1>5. q \in Seq(Tasks(next)) /\ Len(q) = l /\ DOMAIN q = DOMAIN starts
  <2>1. q \in Seq(Tasks(next)) /\ DOMAIN q = 1..l
    BY <1>3, <1>4
  <2>2. Len(q) = l
    BY <1>4, <2>1, LenProperties
  <2> QED  BY <1>1, <2>1, <2>2 DEF l
<1>6. \A i \in DOMAIN q : q[i][1] # "leave"
  BY <1>3, <1>5 DEF Visit
<1>7. \A k : ~Seen(w, k)
  <2>1. Range(w.done) = {}
    BY DEF Range
  <2>2. \A k : Leave(k) \notin Range(q)
    BY <1>6 DEF Range, Leave
  <2> QED  BY <2>1, <2>2 DEF Seen, q
<1>8. TodoInv(next, allowed, rank, w)
  <2>1. w.done \in Seq(allowed)
    OBVIOUS
  <2> QED  BY <1>5, <1>6, <2>1 DEF TodoInv, q
<1>9. AheadInv(next, allowed, w)
  BY <1>6 DEF AheadInv, q
<1>10. DoneInv(next, allowed, w.done)
  BY DEF DoneInv, IsInjective
<1>11. StartInv(allowed, starts, w)
  <2>1. \A i \in DOMAIN starts : Visit(starts[i]) \in Range(q)
    BY <1>3, <1>5 DEF Range
  <2> QED  BY <2>1 DEF StartInv, q
<1>12. Unseen(allowed, w) = allowed
  BY <1>7 DEF Unseen
<1>13. StepsLeft(next, allowed, w) = Cardinality(allowed) * (Cardinality(Links(next, allowed)) + 1) + Len(starts)
  BY <1>5, <1>12 DEF StepsLeft, q, l
<1>14. StepsLeft(next, allowed, w) = Len(starts) + Cardinality(allowed) * (Cardinality(Links(next, allowed)) + 1)
  <2>1. IsFiniteSet(allowed)
    BY DEF IsWalk
  <2>2. Cardinality(allowed) \in Nat /\ Cardinality(Links(next, allowed)) \in Nat
    BY <2>1, FS_CardinalityType, LinksAreFinite
  <2> QED  BY <1>1, <1>13, <2>2
<1> QED  BY <1>8, <1>9, <1>10, <1>11, <1>14 DEF WalkInv

(* The calls of a walk: each of its nodes once, after the ones it leads to, and all its starts. *)
LEMMA PostOrderIs ==
  ASSUME NEW next, NEW allowed, NEW starts, NEW rank, IsWalk(next, allowed, starts, rank)
  PROVE  /\ PostOrder(next, allowed, starts) \in Seq(allowed)
         /\ DoneInv(next, allowed, PostOrder(next, allowed, starts))
         /\ \A i \in DOMAIN starts : starts[i] \in allowed => starts[i] \in Range(PostOrder(next, allowed, starts))
<1> DEFINE start == [todo |-> [i \in DOMAIN starts |-> Visit(starts[i])], done |-> <<>>]
           steps == Len(starts) + Cardinality(allowed) * (Cardinality(Links(next, allowed)) + 1)
           W     == Walked(next, allowed, start, steps)
<1>1. PostOrder(next, allowed, starts) = W[steps].done
  BY DEF PostOrder, Walked, Links
<1>2. start.todo = [i \in DOMAIN starts |-> Visit(starts[i])] /\ start.done = <<>>
  OBVIOUS
<1> HIDE DEF start
<1>3. WalkInv(next, allowed, starts, rank, start) /\ StepsLeft(next, allowed, start) = steps
  BY <1>2, WalkBegins
<1>4. steps \in Nat
  <2>1. IsFiniteSet(allowed) /\ starts \in Seq(DOMAIN next)
    BY DEF IsWalk
  <2>2. Cardinality(allowed) \in Nat /\ Cardinality(Links(next, allowed)) \in Nat /\ Len(starts) \in Nat
    BY <2>1, FS_CardinalityType, LinksAreFinite, LenProperties
  <2> QED  BY <2>2
<1> HIDE DEF steps
<1>5. W[0] = start /\ \A k \in 1..steps : W[k] = WalkStep(next, allowed, W[k - 1])
  BY <1>4, WalkSteps
<1> HIDE DEF W
<1> DEFINE S == {k \in 0..steps : /\ WalkInv(next, allowed, starts, rank, W[k])
                                  /\ W[k].todo = <<>> \/ StepsLeft(next, allowed, W[k]) <= steps - k}
<1>6. 0 \in S
  BY <1>3, <1>4, <1>5
<1>7. ASSUME NEW k \in 0..(steps - 1), k \in S  PROVE k + 1 \in S
  <2> DEFINE w == W[k]
             v == W[k + 1]
  <2>1. k + 1 \in 1..steps /\ (k + 1) - 1 = k /\ k + 1 \in 0..steps /\ k \in Nat
    BY <1>4
  <2>2. v = WalkStep(next, allowed, w)
    <3>1. W[k + 1] = WalkStep(next, allowed, W[(k + 1) - 1])
      BY <1>5, <2>1
    <3> QED  BY <2>1, <3>1
  <2>3. WalkInv(next, allowed, starts, rank, w) /\ (w.todo = <<>> \/ StepsLeft(next, allowed, w) <= steps - k)
    BY <1>7
  <2> HIDE DEF w
  <2>4. CASE w.todo = <<>>
    <3>1. v = w
      BY <2>2, <2>4 DEF WalkStep
    <3> QED  BY <2>1, <2>3, <2>4, <3>1
  <2>5. CASE w.todo # <<>>
    <3>1. /\ WalkInv(next, allowed, starts, rank, v) /\ StepsLeft(next, allowed, w) \in Nat
          /\ StepsLeft(next, allowed, v) <= StepsLeft(next, allowed, w) - 1
      BY <2>2, <2>3, <2>5, WalkStepKeeps
    <3>2. StepsLeft(next, allowed, v) \in Int
      <4>1. v.todo \in Seq(Tasks(next))
        BY <3>1 DEF WalkInv, TodoInv
      <4>2. CASE v.todo # <<>>
        BY <3>1, <4>2, WalkStepKeeps
      <4>3. CASE v.todo = <<>>
        <5>1. IsFiniteSet(allowed) /\ Unseen(allowed, v) \in SUBSET allowed
          BY DEF IsWalk, Unseen
        <5>2. IsFiniteSet(Unseen(allowed, v))
          BY <5>1, FS_Subset
        <5>3. Cardinality(Unseen(allowed, v)) \in Nat /\ Cardinality(Links(next, allowed)) \in Nat
          BY <5>2, FS_CardinalityType, LinksAreFinite
        <5>4. Len(v.todo) \in Nat
          BY <4>1, LenProperties
        <5> QED  BY <5>3, <5>4 DEF StepsLeft
      <4> QED  BY <4>2, <4>3
    <3> HIDE DEF v
    <3>3. StepsLeft(next, allowed, v) <= steps - (k + 1)
      BY <1>4, <2>1, <2>3, <2>5, <3>1, <3>2
    <3> QED  BY <2>1, <3>1, <3>3 DEF v
  <2> QED  BY <2>4, <2>5
<1>8. steps \in S
  <2>1. \A k \in 0..(steps - 1) : k \in S => k + 1 \in S
    BY <1>7
  <2> HIDE DEF S
  <2>2. \A k \in 0..steps : k \in S
    BY <1>4, <1>6, <2>1, Induction
  <2> QED  BY <1>4, <2>2
<1> DEFINE w == W[steps]
<1>9. WalkInv(next, allowed, starts, rank, w) /\ (w.todo = <<>> \/ StepsLeft(next, allowed, w) <= steps - steps)
  BY <1>8
<1> HIDE DEF w
<1>10. w.todo = <<>>
  <2> SUFFICES ASSUME w.todo # <<>>  PROVE FALSE
    OBVIOUS
  <2> DEFINE c == Cardinality(Unseen(allowed, w))
             K == Cardinality(Links(next, allowed)) + 1
  <2>1. w.todo \in Seq(Tasks(next))
    BY <1>9 DEF WalkInv, TodoInv
  <2>2. Len(w.todo) \in Nat /\ Len(w.todo) # 0
    BY <2>1, EmptySeq, LenProperties
  <2>3. IsFiniteSet(allowed) /\ Unseen(allowed, w) \in SUBSET allowed
    BY DEF IsWalk, Unseen
  <2>4. IsFiniteSet(Unseen(allowed, w))
    BY <2>3, FS_Subset
  <2>5. c \in Nat /\ K \in Nat
    BY <2>4, FS_CardinalityType, LinksAreFinite
  <2>6. StepsLeft(next, allowed, w) = c * K + Len(w.todo)
    BY DEF StepsLeft
  <2> HIDE DEF c, K
  <2>7. c * K \in Nat
    BY <2>5
  <2> DEFINE p == c * K
  <2> HIDE DEF p
  <2>8. p \in Nat /\ StepsLeft(next, allowed, w) = p + Len(w.todo)
    BY <2>6, <2>7 DEF p
  <2> QED  BY <1>4, <1>9, <2>2, <2>8
<1>11. w.done \in Seq(allowed) /\ DoneInv(next, allowed, w.done)
  BY <1>9 DEF WalkInv, TodoInv
<1>12. \A i \in DOMAIN starts : starts[i] \in allowed => starts[i] \in Range(w.done)
  <2>1. Range(w.todo) = {}
    BY <1>10 DEF Range
  <2> QED  BY <1>9, <2>1 DEF WalkInv, StartInv, Seen
<1> QED  BY <1>1, <1>11, <1>12 DEF w

(* Where iterateDirtyNodesPostOrder and iterateEntireBookPreOrder go on from each node.     *)
Down(b) == [n \in DOMAIN b.at |-> LET ms == SetToSeq(b.at[n].moves) IN [i \in DOMAIN ms |-> Child[n][ms[i]]]]

Up(b) == [n \in DOMAIN b.at |-> [i \in DOMAIN b.at[n].parents |-> b.at[n].parents[i][1]]]

(* A node's parents are the nodes it is a child of; all but the root have one.              *)
LEMMA ParentsAre ==
  ASSUME NEW b, IsBook(b), NEW n \in DOMAIN b.at
  PROVE  /\ \A p : p \in Parents(b, n) <=> p \in DOMAIN b.at /\ n \in Children(b, p)
         /\ \A e \in Range(b.at[n].parents) : e = <<e[1], e[2]>> /\ e[1] \in DOMAIN b.at /\ e[2] \in b.at[e[1]].moves
         /\ n # Root => Parents(b, n) # {}
         /\ Children(b, n) \subseteq DOMAIN b.at
<1>1. LinksAgree(b) /\ b.at[n].parents \in Seq(BookLinks)
  BY DEF IsBook, IsNode
<1>2. \A e : e \in Range(b.at[n].parents) <=> Leads(b, e, n)
  BY <1>1, LinksAgreeIs
<1>3. \A p : p \in Parents(b, n) <=> \E e \in Range(b.at[n].parents) : p = e[1]
  BY DEF Parents, Range
<1>4. ASSUME NEW p, p \in Parents(b, n)  PROVE p \in DOMAIN b.at /\ n \in Children(b, p)
  BY <1>2, <1>3, <1>4 DEF Leads, Children
<1>5. ASSUME NEW p \in DOMAIN b.at, n \in Children(b, p)  PROVE p \in Parents(b, n)
  <2>1. PICK m \in b.at[p].moves : Child[p][m] = n
    BY <1>5 DEF Children
  <2>2. <<p, m>> \in Range(b.at[n].parents)
    BY <1>2, <2>1 DEF Leads
  <2> QED  BY <1>3, <2>2
<1>6. \A e \in Range(b.at[n].parents) : e = <<e[1], e[2]>> /\ e[1] \in DOMAIN b.at /\ e[2] \in b.at[e[1]].moves
  BY <1>2 DEF Leads
<1>7. n # Root => Parents(b, n) # {}
  <2> SUFFICES ASSUME n # Root  PROVE Parents(b, n) # {}
    OBVIOUS
  <2>1. b.at[n].parents # <<>>
    BY DEF IsBook
  <2>2. 1 \in DOMAIN b.at[n].parents
    BY <1>1, <2>1, EmptySeq, LenProperties
  <2> QED  BY <2>2 DEF Parents
<1>8. Children(b, n) \subseteq DOMAIN b.at
  BY <1>1 DEF LinksAgree
<1> QED  BY <1>4, <1>5, <1>6, <1>7, <1>8

(* A node has finitely many moves.                                                           *)
LEMMA MovesAreFinite ==
  ASSUME NEW b, IsBook(b), NEW n \in DOMAIN b.at
  PROVE  IsFiniteSet(b.at[n].moves)
<1> DEFINE T == {Range(b.at[k].parents) : k \in DOMAIN b.at}
           E == UNION T
           M == {e[2] : e \in E}
<1>1. IsFiniteSet(DOMAIN b.at)
  BY BookIsFinite
<1>2. IsFiniteSet(T)
  <2> DEFINE f == [k \in DOMAIN b.at |-> Range(b.at[k].parents)]
  <2>1. f \in Surjection(DOMAIN b.at, T)
    BY DEF Surjection
  <2> HIDE DEF f, T
  <2> QED  BY <1>1, <2>1, FS_Surjection
<1>3. \A X \in T : IsFiniteSet(X)
  <2> SUFFICES ASSUME NEW k \in DOMAIN b.at  PROVE IsFiniteSet(Range(b.at[k].parents))
    OBVIOUS
  <2> DEFINE q == b.at[k].parents
  <2>1. q \in Seq(BookLinks)
    BY DEF IsBook, IsNode
  <2> HIDE DEF q
  <2>2. Len(q) \in Nat /\ DOMAIN q = 1..Len(q)
    BY <2>1, LenProperties
  <2>3. IsFiniteSet(1..Len(q))
    BY <2>2, FS_Interval
  <2>4. [i \in 1..Len(q) |-> q[i]] \in Surjection(1..Len(q), Range(q))
    BY <2>2 DEF Surjection, Range
  <2>5. IsFiniteSet(Range(q))
    BY <2>3, <2>4, FS_Surjection
  <2> QED  BY <2>5 DEF q
<1>4. IsFiniteSet(E)
  <2> HIDE DEF T
  <2> QED  BY <1>2, <1>3, FS_UNION
<1>5. IsFiniteSet(M)
  <2> DEFINE f == [e \in E |-> e[2]]
  <2>1. f \in Surjection(E, M)
    BY DEF Surjection
  <2> HIDE DEF f, E, M
  <2> QED  BY <1>4, <2>1, FS_Surjection
<1>6. b.at[n].moves \in SUBSET M
  <2> SUFFICES ASSUME NEW m \in b.at[n].moves  PROVE m \in M
    OBVIOUS
  <2> DEFINE c == Child[n][m]
  <2>1. c \in DOMAIN b.at
    BY ParentsAre DEF Children
  <2>2. Leads(b, <<n, m>>, c)
    BY DEF Leads
  <2>3. \A e : e \in Range(b.at[c].parents) <=> Leads(b, e, c)
    BY <2>1, LinksAgreeIs DEF IsBook
  <2> HIDE DEF c
  <2>4. <<n, m>> \in E
    BY <2>1, <2>2, <2>3
  <2>5. <<n, m>>[2] = m
    OBVIOUS
  <2> HIDE DEF E
  <2> QED  BY <2>4, <2>5
<1> HIDE DEF M
<1> QED  BY <1>5, <1>6, FS_Subset

(* Down leads to the children, up to the parents.                                            *)
LEMMA DownIs ==
  ASSUME NEW b, IsBook(b), NEW n \in DOMAIN b.at
  PROVE  Down(b)[n] \in Seq(DOMAIN b.at) /\ Range(Down(b)[n]) = Children(b, n)
<1> DEFINE S  == b.at[n].moves
           ms == SetToSeq(S)
           d  == [i \in DOMAIN ms |-> Child[n][ms[i]]]
           D  == DOMAIN b.at
<1>1. IsFiniteSet(S)
  BY MovesAreFinite
<1>2. \A m \in S : Child[n][m] \in D
  BY ParentsAre DEF Children
<1>3. Down(b)[n] = d
  BY DEF Down
<1>4. Children(b, n) = {Child[n][m] : m \in S}
  BY DEF Children
<1> HIDE DEF S
<1>5. ms \in Seq(S) /\ Range(ms) = S
  BY <1>1, AsQueue
<1> HIDE DEF ms, D
<1>6. Len(ms) \in Nat /\ DOMAIN ms = 1..Len(ms)
  BY <1>5, LenProperties
<1>7. \A i \in DOMAIN ms : ms[i] \in S
  BY <1>5 DEF Range
<1>8. d \in [1..Len(ms) -> D]
  BY <1>2, <1>6, <1>7
<1>9. d \in Seq(D)
  <2> HIDE DEF d
  <2> QED  BY <1>6, <1>8
<1>10. Range(d) = {Child[n][m] : m \in S}
  BY <1>5 DEF Range
<1> QED  BY <1>3, <1>4, <1>9, <1>10 DEF D

LEMMA UpIs ==
  ASSUME NEW b, IsBook(b), NEW n \in DOMAIN b.at
  PROVE  Up(b)[n] \in Seq(DOMAIN b.at) /\ Range(Up(b)[n]) = Parents(b, n)
<1> DEFINE ps == b.at[n].parents
           u  == [i \in DOMAIN ps |-> ps[i][1]]
           D  == DOMAIN b.at
<1>1. ps \in Seq(BookLinks)
  BY DEF IsBook, IsNode
<1>2. Len(ps) \in Nat /\ DOMAIN ps = 1..Len(ps)
  BY <1>1, LenProperties
<1>3. Up(b)[n] = u
  BY DEF Up
<1>4. Parents(b, n) = {ps[i][1] : i \in DOMAIN ps}
  BY DEF Parents
<1>5. Parents(b, n) \subseteq D
  BY ParentsAre
<1> HIDE DEF ps, D
<1>6. u \in [1..Len(ps) -> D]
  BY <1>2, <1>4, <1>5
<1>7. Range(u) = {ps[i][1] : i \in DOMAIN ps}
  BY DEF Range
<1>8. u \in Seq(D)
  <2> HIDE DEF u
  <2> QED  BY <1>2, <1>6
<1> QED  BY <1>3, <1>4, <1>7, <1>8 DEF D

(* Positions only lead on: down a walk there are more stones, up it fewer.                   *)
LEMMA Ranks ==
  ASSUME NEW b, IsBook(b), NEW n \in DOMAIN b.at
  PROVE  /\ Progress[n] \in Nat
         /\ \A c \in Children(b, n) : Progress[c] \in Nat /\ Progress[c] > Progress[n]
         /\ \A p \in Parents(b, n) : Progress[p] \in Nat /\ Progress[n] > Progress[p]
<1>1. \A k \in DOMAIN b.at : k \in Hashes /\ b.at[k].moves \subseteq LegalMoves(k)
  BY DEF IsBook, IsNode
<1>2. \A k \in Hashes : Progress[k] \in Nat /\ \A m \in LegalMoves(k) : Child[k][m] \in Hashes /\ Progress[Child[k][m]] > Progress[k]
  BY PositionsAssumption DEF Hashes, LegalMoves
<1>3. \A k \in DOMAIN b.at : \A c \in Children(b, k) : Progress[c] \in Nat /\ Progress[c] > Progress[k]
  BY <1>1, <1>2 DEF Children
<1> QED  BY <1>1, <1>2, <1>3, ParentsAre

LEMMA DownIsWalk ==
  ASSUME NEW b, IsBook(b), NEW dirty \in SUBSET DOMAIN b.at
  PROVE  IsWalk(Down(b), dirty, <<Root>>, [n \in DOMAIN b.at |-> Progress[n]])
<1> DEFINE d    == Down(b)
           rank == [n \in DOMAIN b.at |-> Progress[n]]
<1>1. DOMAIN d = DOMAIN b.at
  BY DEF Down
<1>2. \A n \in DOMAIN b.at : d[n] \in Seq(DOMAIN b.at) /\ Range(d[n]) = Children(b, n)
  BY DownIs
<1> HIDE DEF d
<1>3. IsFiniteSet(dirty)
  BY BookIsFinite, FS_Subset
<1>4. <<Root>> \in Seq(DOMAIN b.at)
  BY DEF IsBook
<1>5. rank \in [DOMAIN b.at -> Int]
  BY Ranks
<1>6. ASSUME NEW n \in DOMAIN b.at, NEW i \in DOMAIN d[n]  PROVE rank[d[n][i]] > rank[n]
  <2>1. d[n][i] \in Children(b, n)
    BY <1>2 DEF Range
  <2>2. d[n][i] \in DOMAIN b.at
    BY <2>1, ParentsAre
  <2> QED  BY <2>1, <2>2, Ranks
<1> HIDE DEF rank
<1>7. IsWalk(d, dirty, <<Root>>, rank)
  BY <1>1, <1>2, <1>3, <1>4, <1>5, <1>6 DEF IsWalk
<1> QED  BY <1>7 DEF d, rank

LEMMA UpIsWalk ==
  ASSUME NEW b, IsBook(b)
  PROVE  IsWalk(Up(b), DOMAIN b.at, b.nodes, [n \in DOMAIN b.at |-> 0 - Progress[n]])
<1> DEFINE d    == Up(b)
           rank == [n \in DOMAIN b.at |-> 0 - Progress[n]]
<1>1. DOMAIN d = DOMAIN b.at
  BY DEF Up
<1>2. \A n \in DOMAIN b.at : d[n] \in Seq(DOMAIN b.at) /\ Range(d[n]) = Parents(b, n)
  BY UpIs
<1> HIDE DEF d
<1>3. IsFiniteSet(DOMAIN b.at)
  BY BookIsFinite
<1>4. b.nodes \in Seq(DOMAIN b.at)
  <2>1. b.nodes \in Seq(Hashes) /\ Range(b.nodes) = DOMAIN b.at
    BY DEF IsBook, LinksAgree
  <2>2. Len(b.nodes) \in Nat /\ b.nodes \in [1..Len(b.nodes) -> DOMAIN b.at]
    BY <2>1, LenProperties DEF Range
  <2> QED  BY <2>2
<1>5. rank \in [DOMAIN b.at -> Int]
  <2>1. \A n \in DOMAIN b.at : 0 - Progress[n] \in Int
    BY Ranks
  <2> QED  BY <2>1
<1>6. ASSUME NEW n \in DOMAIN b.at, NEW i \in DOMAIN d[n]  PROVE rank[d[n][i]] > rank[n]
  <2>1. d[n][i] \in Parents(b, n)
    BY <1>2 DEF Range
  <2>2. d[n][i] \in DOMAIN b.at
    BY <2>1, ParentsAre
  <2> DEFINE p == d[n][i]
  <2>3. rank[p] = 0 - Progress[p] /\ rank[n] = 0 - Progress[n]
    BY <2>2
  <2> HIDE DEF p, rank
  <2>4. Progress[p] \in Nat /\ Progress[n] \in Nat /\ Progress[n] > Progress[p]
    BY <2>1, Ranks DEF p
  <2>5. rank[p] > rank[n]
    BY <2>3, <2>4
  <2> QED  BY <2>5 DEF p
<1> HIDE DEF rank
<1>7. IsWalk(d, DOMAIN b.at, b.nodes, rank)
  BY <1>1, <1>2, <1>3, <1>4, <1>5, <1>6 DEF IsWalk
<1> QED  BY <1>7 DEF d, rank

(* A sequence of all of S without repetition.                                                *)
Enumerates(d, S) == d \in Seq(S) /\ IsInjective(d) /\ Range(d) = S

(* All that leads to a node of dirty is dirty.                                               *)
IsDirty(b, dirty) == dirty \subseteq DOMAIN b.at /\ \A n \in dirty : Parents(b, n) \subseteq dirty

(* Every dirty node is called on, once and after its dirty children.                         *)
LEMMA ChildrenFirstIs ==
  ASSUME NEW b, IsBook(b), NEW dirty, IsDirty(b, dirty)
  PROVE  /\ Enumerates(ChildrenFirst(b, dirty), dirty)
         /\ \A k \in DOMAIN ChildrenFirst(b, dirty) : \A c \in Children(b, ChildrenFirst(b, dirty)[k]) :
              c \in dirty => \E j \in DOMAIN ChildrenFirst(b, dirty) : j < k /\ ChildrenFirst(b, dirty)[j] = c
<1> DEFINE d == ChildrenFirst(b, dirty)
<1>1. dirty \subseteq DOMAIN b.at
  BY DEF IsDirty
<1>2. d = PostOrder(Down(b), dirty, <<Root>>)
  BY DEF ChildrenFirst, Down
<1>3. /\ d \in Seq(dirty) /\ DoneInv(Down(b), dirty, d)
      /\ \A i \in DOMAIN <<Root>> : <<Root>>[i] \in dirty => <<Root>>[i] \in Range(d)
  BY <1>1, <1>2, DownIsWalk, PostOrderIs
<1> HIDE DEF d
<1>4. Root \in dirty => Root \in Range(d)
  <2>1. 1 \in DOMAIN <<Root>> /\ <<Root>>[1] = Root
    OBVIOUS
  <2> QED  BY <1>3, <2>1
<1>5. Range(d) \subseteq dirty
  BY <1>3, LenProperties DEF Range
<1>6. ASSUME NEW k \in DOMAIN d, NEW c \in Children(b, d[k]), c \in dirty
      PROVE  \E j \in DOMAIN d : j < k /\ d[j] = c
  <2>1. d[k] \in DOMAIN b.at
    BY <1>1, <1>5 DEF Range
  <2>2. c \in Range(Down(b)[d[k]])
    BY <2>1, DownIs
  <2>3. PICK i \in DOMAIN Down(b)[d[k]] : Down(b)[d[k]][i] = c
    BY <2>2 DEF Range
  <2> QED  BY <1>3, <1>6, <2>3 DEF DoneInv
<1>7. dirty \subseteq Range(d)
  <2> DEFINE T == {Progress[n] : n \in dirty \ Range(d)}
  <2> SUFFICES ASSUME T # {}  PROVE FALSE
    OBVIOUS
  <2>1. T \in SUBSET Nat
    BY <1>1, Ranks
  <2> HIDE DEF T
  <2>2. PICK x \in T : \A y \in T : x <= y
    BY <2>1, Least
  <2>3. PICK n \in dirty \ Range(d) : Progress[n] = x
    BY <2>2 DEF T
  <2>4. n # Root
    BY <1>4, <2>3
  <2>5. PICK p : p \in Parents(b, n)
    BY <1>1, <2>4, ParentsAre
  <2>6. p \in dirty /\ p \in DOMAIN b.at /\ n \in Children(b, p)
    BY <1>1, <2>5, ParentsAre DEF IsDirty
  <2>7. Progress[n] > Progress[p] /\ Progress[p] \in Nat /\ Progress[n] \in Nat
    BY <1>1, <2>5, Ranks
  <2>8. Progress[p] \notin T
    BY <2>2, <2>3, <2>7
  <2>9. p \in Range(d)
    BY <2>6, <2>8 DEF T
  <2>10. PICK k \in DOMAIN d : d[k] = p
    BY <2>9 DEF Range
  <2>11. PICK j \in DOMAIN d : d[j] = n
    BY <1>6, <2>3, <2>6, <2>10
  <2> QED  BY <2>3, <2>11 DEF Range
<1>8. IsInjective(d)
  BY <1>3 DEF DoneInv
<1> QED  BY <1>3, <1>5, <1>6, <1>7, <1>8 DEF Enumerates, d

(* Every node is called on, once and after all its parents.                                  *)
LEMMA ParentsFirstIs ==
  ASSUME NEW b, IsBook(b)
  PROVE  /\ Enumerates(ParentsFirst(b), DOMAIN b.at)
         /\ \A k \in DOMAIN ParentsFirst(b) : \A p \in Parents(b, ParentsFirst(b)[k]) :
              \E j \in DOMAIN ParentsFirst(b) : j < k /\ ParentsFirst(b)[j] = p
<1> DEFINE d == ParentsFirst(b)
           D == DOMAIN b.at
<1>1. d = PostOrder(Up(b), D, b.nodes)
  BY DEF ParentsFirst, Up
<1>2. /\ d \in Seq(D) /\ DoneInv(Up(b), D, d)
      /\ \A i \in DOMAIN b.nodes : b.nodes[i] \in D => b.nodes[i] \in Range(d)
  <2> DEFINE rank == [n \in DOMAIN b.at |-> 0 - Progress[n]]
  <2>1. IsWalk(Up(b), D, b.nodes, rank)
    BY UpIsWalk
  <2> HIDE DEF rank, D, d
  <2> QED  BY <1>1, <2>1, PostOrderIs
<1> HIDE DEF d
<1>3. Range(d) = D
  <2>1. Range(b.nodes) = D
    BY DEF IsBook, LinksAgree
  <2>2. D \subseteq Range(d)
    BY <1>2, <2>1 DEF Range
  <2>3. Range(d) \subseteq D
    BY <1>2, LenProperties DEF Range
  <2> QED  BY <2>2, <2>3
<1>4. ASSUME NEW k \in DOMAIN d, NEW p \in Parents(b, d[k])
      PROVE  \E j \in DOMAIN d : j < k /\ d[j] = p
  <2>1. d[k] \in D
    BY <1>3 DEF Range
  <2>2. p \in Range(Up(b)[d[k]]) /\ p \in D
    BY <2>1, UpIs, ParentsAre
  <2>3. PICK i \in DOMAIN Up(b)[d[k]] : Up(b)[d[k]][i] = p
    BY <2>2 DEF Range
  <2> QED  BY <1>2, <2>2, <2>3 DEF DoneInv
<1>5. IsInjective(d)
  BY <1>2 DEF DoneInv
<1> QED  BY <1>2, <1>3, <1>4, <1>5 DEF Enumerates, d

(* markDirty leaves the changed nodes dirty, and all that leads to them.                     *)
LEMMA DirtyIs ==
  ASSUME NEW b, IsBook(b), NEW touched \in SUBSET DOMAIN b.at
  PROVE  IsDirty(b, Dirty(b, touched)) /\ touched \subseteq Dirty(b, touched)
<1>1. touched \subseteq Dirty(b, touched) /\ Dirty(b, touched) \subseteq DOMAIN b.at
  BY DEF Dirty
<1>2. ASSUME NEW n \in Dirty(b, touched), NEW p \in Parents(b, n)  PROVE p \in Dirty(b, touched)
  <2>1. p \in DOMAIN b.at
    BY <1>1, ParentsAre
  <2> QED  BY <1>2, <2>1 DEF Dirty
<1> QED  BY <1>1, <1>2 DEF IsDirty

(* A value depends on those of the children, a cost on those of the parents.                 *)
LEMMA ValueOfChildren ==
  ASSUME NEW b, NEW r, NEW s, NEW n, \A c \in Children(b, n) : r[c] = s[c]
  PROVE  RecomputeNodeValues(b, r, n) = RecomputeNodeValues(b, s, n)
<1>1. {r[c] : c \in Children(b, n)} = {s[c] : c \in Children(b, n)}
  OBVIOUS
<1> QED  BY <1>1 DEF RecomputeNodeValues

LEMMA CostOfParents ==
  ASSUME NEW b, IsBook(b), NEW recs, NEW r, NEW s, NEW n \in DOMAIN b.at, \A p \in Parents(b, n) : r[p] = s[p]
  PROVE  RecomputeNodeCost(b, recs, r, n) = RecomputeNodeCost(b, recs, s, n)
<1> DEFINE E == Range(b.at[n].parents)
<1>1. \A e \in E : e[1] \in Parents(b, n)
  BY DEF Parents, Range
<1> HIDE DEF E
<1>2. {r[e[1]].move[e[2]] : e \in E} = {s[e[1]].move[e[2]] : e \in E}
  BY <1>1
<1>3. CostFromParents(b, r, n) = CostFromParents(b, s, n)
  BY <1>2 DEF CostFromParents, E
<1> QED  BY <1>3 DEF RecomputeNodeCost

(* Recomputed in turn, each after the ones it depends on, the nodes of an order have the      *)
(* values that follow from those of their children, and the others the values they had.      *)
LEMMA NewRecsAre ==
  ASSUME NEW b, IsBook(b), NEW dirty \in SUBSET DOMAIN b.at, NEW order, Enumerates(order, dirty),
         \A k \in DOMAIN order : \A c \in Children(b, order[k]) :
           c \in dirty => \E j \in DOMAIN order : j < k /\ order[j] = c
  PROVE  /\ NewRecs(b, order) = [n \in DOMAIN b.at |-> NewRecs(b, order)[n]]
         /\ \A n \in dirty : NewRecs(b, order)[n] = RecomputeNodeValues(b, NewRecs(b, order), n)
         /\ \A n \in DOMAIN b.at \ dirty : NewRecs(b, order)[n] = b.at[n].rec
<1> DEFINE R == RecsAfter(b, order)
           D == DOMAIN b.at
           l == Len(order)
<1>1. NewRecs(b, order) = R[l]
  BY DEF NewRecs, RecsAfter
<1>2. order \in Seq(dirty) /\ IsInjective(order) /\ Range(order) = dirty
  BY DEF Enumerates
<1>3. l \in Nat /\ DOMAIN order = 1..l /\ \A k \in 1..l : order[k] \in dirty
  BY <1>2, LenProperties
<1>4. R[0] = Recs(b) /\ \A k \in 1..l : R[k] = RecStep(b, order, R[k - 1], k)
  <2>1. Len(order) \in Nat
    BY <1>3
  <2> QED  BY <2>1, RecsSteps
<1> HIDE DEF R, l
<1> DEFINE Fine(r, k) ==
             /\ r = [n \in D |-> r[n]]
             /\ \A j \in 1..k : r[order[j]] = RecomputeNodeValues(b, r, order[j])
             /\ \A n \in D \ dirty : r[n] = b.at[n].rec
           S == {k \in 0..l : Fine(R[k], k)}
<1>5. 0 \in S
  <2>1. Recs(b) = [n \in D |-> Recs(b)[n]] /\ \A n \in D : Recs(b)[n] = b.at[n].rec
    BY DEF Recs
  <2>2. 1..0 = {}
    OBVIOUS
  <2>3. Fine(R[0], 0)
    BY <1>4, <2>1, <2>2
  <2> HIDE DEF Fine
  <2> QED  BY <1>3, <2>3
<1>6. ASSUME NEW k \in 0..(l - 1), k \in S  PROVE k + 1 \in S
  <2>1. k + 1 \in 1..l /\ (k + 1) - 1 = k /\ k \in Nat /\ k + 1 \in 0..l
    BY <1>3
  <2> DEFINE r == R[k]
             s == R[k + 1]
             o == order[k + 1]
             v == RecomputeNodeValues(b, r, o)
  <2>2. s = [r EXCEPT ![o] = v]
    <3>1. R[k + 1] = RecStep(b, order, R[(k + 1) - 1], k + 1)
      BY <1>4, <2>1
    <3> QED  BY <2>1, <3>1 DEF RecStep
  <2>3. Fine(r, k)
    BY <1>6
  <2>4. o \in dirty
    BY <1>3, <2>1
  <2> HIDE DEF r, s, v
  <2>5. DOMAIN r = D /\ s = [n \in D |-> s[n]] /\ s[o] = v /\ \A n \in D : n # o => s[n] = r[n]
    BY <2>2, <2>3, <2>4
  <2>6. \A n \in D \ dirty : s[n] = b.at[n].rec
    BY <2>3, <2>4, <2>5
  <2>7. ASSUME NEW j \in 1..(k + 1), NEW c \in Children(b, order[j])  PROVE s[c] = r[c]
    <3>1. j \in 1..l /\ order[j] \in D
      BY <1>3, <2>1
    <3>2. c \in D
      BY <3>1, ParentsAre
    <3>3. c # o
      <4> SUFFICES ASSUME c = o  PROVE FALSE
        OBVIOUS
      <4>1. PICK i \in DOMAIN order : i < j /\ order[i] = c
        BY <1>3, <2>4, <3>1
      <4>2. i # k + 1 /\ i \in 1..l
        BY <1>3, <2>1, <4>1
      <4> QED  BY <1>2, <1>3, <2>1, <4>1, <4>2 DEF IsInjective
    <3> QED  BY <2>5, <3>2, <3>3
  <2>8. ASSUME NEW j \in 1..(k + 1)  PROVE s[order[j]] = RecomputeNodeValues(b, s, order[j])
    <3>1. RecomputeNodeValues(b, s, order[j]) = RecomputeNodeValues(b, r, order[j])
      BY <2>7, ValueOfChildren
    <3>2. CASE j = k + 1
      BY <2>5, <3>1, <3>2 DEF v
    <3>3. CASE j # k + 1
      <4>1. j \in 1..k /\ j \in 1..l
        BY <1>3, <2>1, <3>3
      <4>2. order[j] # o /\ order[j] \in D
        BY <1>2, <1>3, <2>1, <3>3, <4>1 DEF IsInjective
      <4> QED  BY <2>3, <2>5, <3>1, <4>1, <4>2
    <3> QED  BY <3>2, <3>3
  <2>9. Fine(s, k + 1)
    BY <2>5, <2>6, <2>8
  <2> HIDE DEF Fine
  <2> QED  BY <2>1, <2>9 DEF s
<1>7. l \in S
  <2>1. \A k \in 0..(l - 1) : k \in S => k + 1 \in S
    BY <1>6
  <2> HIDE DEF S
  <2>2. \A k \in 0..l : k \in S
    BY <1>3, <1>5, <2>1, Induction
  <2> QED  BY <1>3, <2>2
<1> DEFINE r == NewRecs(b, order)
<1>8. Fine(r, l)
  <2> HIDE DEF Fine
  <2> QED  BY <1>1, <1>7
<1> HIDE DEF r
<1>9. \A n \in dirty : r[n] = RecomputeNodeValues(b, r, n)
  <2> SUFFICES ASSUME NEW n \in dirty  PROVE r[n] = RecomputeNodeValues(b, r, n)
    OBVIOUS
  <2>1. PICK j \in 1..l : order[j] = n
    BY <1>2, <1>3 DEF Range
  <2> QED  BY <1>8, <2>1
<1> QED  BY <1>8, <1>9 DEF r

(* And each after its parents, the costs that follow from those of their parents.            *)
LEMMA NewCostsAre ==
  ASSUME NEW b, IsBook(b), NEW recs, NEW order, Enumerates(order, DOMAIN b.at),
         \A k \in DOMAIN order : \A c \in Parents(b, order[k]) : \E j \in DOMAIN order : j < k /\ order[j] = c
  PROVE  /\ NewCosts(b, recs, order) = [n \in DOMAIN b.at |-> NewCosts(b, recs, order)[n]]
         /\ \A n \in DOMAIN b.at : NewCosts(b, recs, order)[n] = RecomputeNodeCost(b, recs, NewCosts(b, recs, order), n)
<1> DEFINE R == CostsAfter(b, recs, order)
           D == DOMAIN b.at
           l == Len(order)
<1>1. NewCosts(b, recs, order) = R[l]
  BY DEF NewCosts, CostsAfter
<1>2. order \in Seq(D) /\ IsInjective(order) /\ Range(order) = D
  BY DEF Enumerates
<1>3. l \in Nat /\ DOMAIN order = 1..l /\ \A k \in 1..l : order[k] \in D
  BY <1>2, LenProperties
<1>4. R[0] = Costs(b) /\ \A k \in 1..l : R[k] = CostStep(b, recs, order, R[k - 1], k)
  <2>1. Len(order) \in Nat
    BY <1>3
  <2> QED  BY <2>1, CostsSteps
<1> HIDE DEF R, l
<1> DEFINE Fine(r, k) ==
             /\ r = [n \in D |-> r[n]]
             /\ \A j \in 1..k : r[order[j]] = RecomputeNodeCost(b, recs, r, order[j])
           S == {k \in 0..l : Fine(R[k], k)}
<1>5. 0 \in S
  <2>1. Costs(b) = [n \in D |-> Costs(b)[n]] 
    BY DEF Costs
  <2>2. 1..0 = {}
    OBVIOUS
  <2>3. Fine(R[0], 0)
    BY <1>4, <2>1, <2>2
  <2> HIDE DEF Fine
  <2> QED  BY <1>3, <2>3
<1>6. ASSUME NEW k \in 0..(l - 1), k \in S  PROVE k + 1 \in S
  <2>1. k + 1 \in 1..l /\ (k + 1) - 1 = k /\ k \in Nat /\ k + 1 \in 0..l
    BY <1>3
  <2> DEFINE r == R[k]
             s == R[k + 1]
             o == order[k + 1]
             v == RecomputeNodeCost(b, recs, r, o)
  <2>2. s = [r EXCEPT ![o] = v]
    <3>1. R[k + 1] = CostStep(b, recs, order, R[(k + 1) - 1], k + 1)
      BY <1>4, <2>1
    <3> QED  BY <2>1, <3>1 DEF CostStep
  <2>3. Fine(r, k)
    BY <1>6
  <2>4. o \in D
    BY <1>3, <2>1
  <2> HIDE DEF r, s, v
  <2>5. DOMAIN r = D /\ s = [n \in D |-> s[n]] /\ s[o] = v /\ \A n \in D : n # o => s[n] = r[n]
    BY <2>2, <2>3, <2>4
  <2>7. ASSUME NEW j \in 1..(k + 1), NEW c \in Parents(b, order[j])  PROVE s[c] = r[c]
    <3>1. j \in 1..l /\ order[j] \in D
      BY <1>3, <2>1
    <3>2. c \in D
      BY <3>1, ParentsAre
    <3>3. c # o
      <4> SUFFICES ASSUME c = o  PROVE FALSE
        OBVIOUS
      <4>1. PICK i \in DOMAIN order : i < j /\ order[i] = c
        BY <1>3, <2>4, <3>1
      <4>2. i # k + 1 /\ i \in 1..l
        BY <1>3, <2>1, <4>1
      <4> QED  BY <1>2, <1>3, <2>1, <4>1, <4>2 DEF IsInjective
    <3> QED  BY <2>5, <3>2, <3>3
  <2>8. ASSUME NEW j \in 1..(k + 1)  PROVE s[order[j]] = RecomputeNodeCost(b, recs, s, order[j])
    <3>1. RecomputeNodeCost(b, recs, s, order[j]) = RecomputeNodeCost(b, recs, r, order[j])
      BY <1>3, <2>1, <2>7, CostOfParents
    <3>2. CASE j = k + 1
      BY <2>5, <3>1, <3>2 DEF v
    <3>3. CASE j # k + 1
      <4>1. j \in 1..k /\ j \in 1..l
        BY <1>3, <2>1, <3>3
      <4>2. order[j] # o /\ order[j] \in D
        BY <1>2, <1>3, <2>1, <3>3, <4>1 DEF IsInjective
      <4> QED  BY <2>3, <2>5, <3>1, <4>1, <4>2
    <3> QED  BY <3>2, <3>3
  <2>9. Fine(s, k + 1)
    BY <2>5, <2>8
  <2> HIDE DEF Fine
  <2> QED  BY <2>1, <2>9 DEF s
<1>7. l \in S
  <2>1. \A k \in 0..(l - 1) : k \in S => k + 1 \in S
    BY <1>6
  <2> HIDE DEF S
  <2>2. \A k \in 0..l : k \in S
    BY <1>3, <1>5, <2>1, Induction
  <2> QED  BY <1>3, <2>2
<1> DEFINE r == NewCosts(b, recs, order)
<1>8. Fine(r, l)
  <2> HIDE DEF Fine
  <2> QED  BY <1>1, <1>7
<1> HIDE DEF r
<1>9. \A n \in D : r[n] = RecomputeNodeCost(b, recs, r, n)
  <2> SUFFICES ASSUME NEW n \in D  PROVE r[n] = RecomputeNodeCost(b, recs, r, n)
    OBVIOUS
  <2>1. PICK j \in 1..l : order[j] = n
    BY <1>2, <1>3 DEF Range
  <2> QED  BY <1>8, <2>1
<1> QED  BY <1>8, <1>9 DEF r

(* The nodes whose value is not the minimax of what the book has.                            *)
Unsettled(b) == {n \in DOMAIN b.at : b.at[n].rec # RecomputeNodeValues(b, Recs(b), n)}

(* A recomputed book has its new values and costs, and else what it had.                     *)
LEMMA RecomputedBook ==
  ASSUME NEW b, IsBook(b), NEW dirty, NEW recs, recs = NewRecs(b, ChildrenFirst(b, dirty)),
         NEW costs, costs = NewCosts(b, recs, ParentsFirst(b)), NEW c, c = RecomputeOver(b, dirty)
  PROVE  /\ DOMAIN c.at = DOMAIN b.at
         /\ \A n \in DOMAIN b.at : /\ c.at[n].moves = b.at[n].moves /\ c.at[n].parents = b.at[n].parents
                                   /\ c.at[n].this = b.at[n].this /\ c.at[n].canExpand = b.at[n].canExpand
                                   /\ c.at[n].rec = recs[n] /\ c.at[n].cost = costs[n]
<1> DEFINE at == [n \in DOMAIN b.at |-> [b.at[n] EXCEPT !.rec = recs[n], !.cost = costs[n]]]
<1>1. c = [nodes |-> b.nodes, at |-> at]
  BY DEF RecomputeOver
<1>2. DOMAIN at = DOMAIN b.at /\ \A n \in DOMAIN b.at : at[n] = [b.at[n] EXCEPT !.rec = recs[n], !.cost = costs[n]]
  OBVIOUS
<1> HIDE DEF at
<1>4. c.at = at
  BY <1>1
<1>3. ASSUME NEW n \in DOMAIN b.at
      PROVE  /\ at[n].moves = b.at[n].moves /\ at[n].parents = b.at[n].parents
             /\ at[n].this = b.at[n].this /\ at[n].canExpand = b.at[n].canExpand
             /\ at[n].rec = recs[n] /\ at[n].cost = costs[n]
  <2> DEFINE r == b.at[n]
             q == at[n]
             x == recs[n]
             y == costs[n]
  <2>1. IsRecomputed(q, r, x, y) /\ IsBookNode(r)
    BY <1>2 DEF IsRecomputed, IsBook, IsNode
  <2> HIDE DEF r, q, x, y
  <2>2. /\ q.moves = r.moves /\ q.parents = r.parents /\ q.this = r.this /\ q.canExpand = r.canExpand
        /\ q.rec = x /\ q.cost = y
    BY <2>1, RecomputedNode
  <2> QED  BY <2>2 DEF r, q, x, y
<1> QED  BY <1>2, <1>3, <1>4

(* What value and cost a node should have is a matter of its links, the value of its search    *)
(* and whether it can be expanded.                                                           *)
LEMMA SameRecompute ==
  ASSUME NEW b, NEW c, NEW n, c.at[n].moves = b.at[n].moves, c.at[n].parents = b.at[n].parents, c.at[n].this = b.at[n].this
  PROVE  /\ Children(c, n) = Children(b, n)
         /\ \A r : RecomputeNodeValues(c, r, n) = RecomputeNodeValues(b, r, n)
         /\ c.at[n].canExpand = b.at[n].canExpand =>
              \A r, s : RecomputeNodeCost(c, r, s, n) = RecomputeNodeCost(b, r, s, n)
<1>1. Children(c, n) = Children(b, n)
  BY DEF Children
<1>2. \A r : RecomputeNodeValues(c, r, n) = RecomputeNodeValues(b, r, n)
  BY <1>1 DEF RecomputeNodeValues
<1>3. \A s : CostFromParents(c, s, n) = CostFromParents(b, s, n)
  BY DEF CostFromParents
<1>4. ASSUME c.at[n].canExpand = b.at[n].canExpand, NEW r, NEW s
      PROVE  RecomputeNodeCost(c, r, s, n) = RecomputeNodeCost(b, r, s, n)
  BY <1>3, <1>4 DEF RecomputeNodeCost
<1> QED  BY <1>1, <1>2, <1>4

(* recomputeOver settles a book if all of it is dirty that is unsettled or leads there.        *)
LEMMA RecomputeSettles ==
  ASSUME NEW b, IsBook(b), NEW dirty, IsDirty(b, dirty), Unsettled(b) \subseteq dirty
  PROVE  IsSettled(RecomputeOver(b, dirty))
<1> DEFINE down  == ChildrenFirst(b, dirty)
           up    == ParentsFirst(b)
           recs  == NewRecs(b, down)
           costs == NewCosts(b, recs, up)
           c     == RecomputeOver(b, dirty)
           D     == DOMAIN b.at
<1>1. dirty \in SUBSET D
  BY DEF IsDirty
<1>2. /\ DOMAIN c.at = D
      /\ \A n \in D : /\ c.at[n].moves = b.at[n].moves /\ c.at[n].parents = b.at[n].parents
                      /\ c.at[n].this = b.at[n].this /\ c.at[n].canExpand = b.at[n].canExpand
                      /\ c.at[n].rec = recs[n] /\ c.at[n].cost = costs[n]
  BY RecomputedBook
<1>3. /\ Enumerates(down, dirty)
      /\ \A k \in DOMAIN down : \A n \in Children(b, down[k]) : n \in dirty => \E j \in DOMAIN down : j < k /\ down[j] = n
  BY ChildrenFirstIs
<1>4. /\ Enumerates(up, D)
      /\ \A k \in DOMAIN up : \A n \in Parents(b, up[k]) : \E j \in DOMAIN up : j < k /\ up[j] = n
  BY ParentsFirstIs
<1> HIDE DEF c, down, up
<1>5. /\ recs = [n \in D |-> recs[n]]
      /\ \A n \in dirty : recs[n] = RecomputeNodeValues(b, recs, n)
      /\ \A n \in D \ dirty : recs[n] = b.at[n].rec
  BY <1>1, <1>3, NewRecsAre
<1> HIDE DEF recs
<1>6. /\ costs = [n \in D |-> costs[n]]
      /\ \A n \in D : costs[n] = RecomputeNodeCost(b, recs, costs, n)
  BY <1>4, NewCostsAre
<1> HIDE DEF costs
<1>7. ASSUME NEW n \in D \ dirty  PROVE recs[n] = RecomputeNodeValues(b, recs, n)
  <2>1. ASSUME NEW k \in Children(b, n)  PROVE Recs(b)[k] = recs[k]
    <3>1. k \in D /\ n \in Parents(b, k)
      BY ParentsAre
    <3>2. k \notin dirty
      BY <3>1 DEF IsDirty
    <3> QED  BY <1>5, <3>1, <3>2 DEF Recs
  <2>2. RecomputeNodeValues(b, Recs(b), n) = RecomputeNodeValues(b, recs, n)
    BY <2>1, ValueOfChildren
  <2>3. b.at[n].rec = RecomputeNodeValues(b, Recs(b), n)
    BY DEF Unsettled
  <2> QED  BY <1>5, <2>2, <2>3
<1>8. Recs(c) = recs
  <2>1. Recs(c) = [n \in D |-> recs[n]]
    BY <1>2 DEF Recs
  <2> QED  BY <1>5, <2>1
<1>9. Costs(c) = costs
  <2>1. Costs(c) = [n \in D |-> costs[n]]
    BY <1>2 DEF Costs
  <2> QED  BY <1>6, <2>1
<1>10. ASSUME NEW n \in D
       PROVE  /\ c.at[n].rec = RecomputeNodeValues(c, Recs(c), n)
              /\ c.at[n].cost = RecomputeNodeCost(c, Recs(c), Costs(c), n)
  <2>1. c.at[n].rec = RecomputeNodeValues(b, recs, n) /\ c.at[n].cost = RecomputeNodeCost(b, recs, costs, n)
    BY <1>2, <1>5, <1>6, <1>7
  <2>2. /\ RecomputeNodeValues(c, recs, n) = RecomputeNodeValues(b, recs, n)
        /\ RecomputeNodeCost(c, recs, costs, n) = RecomputeNodeCost(b, recs, costs, n)
    BY <1>2, SameRecompute
  <2> QED  BY <1>8, <1>9, <2>1, <2>2
<1>11. IsSettled(c)
  BY <1>2, <1>10 DEF IsSettled
<1> QED  BY <1>11 DEF c

(* So recompute does, when what is unsettled is among the changed nodes, and always over all.  *)
LEMMA ChangedSettle ==
  ASSUME NEW b, IsBook(b), NEW touched \in SUBSET DOMAIN b.at, Unsettled(b) \subseteq touched
  PROVE  IsSettled(Recompute(b, touched))
<1>1. IsDirty(b, Dirty(b, touched)) /\ touched \subseteq Dirty(b, touched)
  BY DirtyIs
<1>2. IsSettled(RecomputeOver(b, Dirty(b, touched)))
  BY <1>1, RecomputeSettles
<1> QED  BY <1>2 DEF Recompute

LEMMA EverythingSettles ==
  ASSUME NEW b, IsBook(b)
  PROVE  IsSettled(RecomputeEverything(b))
<1>1. IsDirty(b, DOMAIN b.at)
  BY ParentsAre DEF IsDirty
<1>2. IsSettled(RecomputeOver(b, DOMAIN b.at))
  BY <1>1, RecomputeSettles DEF Unsettled
<1> QED  BY <1>2 DEF RecomputeEverything

-----------------------------------------------------------------------------
(* The invariant behind BookIsSettled.  What t works on is noted as changed, the child it    *)
(* has added included.                                                                       *)
Noticed(t) ==
  /\ Works(t) => node[t] \in changed
  /\ pc[t] = "childValues" => Child[node[t]][Head(rest[t])] \in changed

(* While the book is expanded, all whose value may be out of date is noted as changed.       *)
ChangesNoted ==
  /\ changed \subseteq DOMAIN book.at /\ Unsettled(book) \subseteq changed
  /\ Range(queue) \subseteq changed
  /\ \A t \in Threads : Noticed(t)

SettleInv == BookIsSettled /\ (phase = "expand" => ChangesNoted)

(* A settled book has no value that is out of date, and what leaves the rest alone adds none. *)
LEMMA SettledIs ==
  ASSUME NEW b, IsSettled(b)
  PROVE  Unsettled(b) = {}
BY DEF IsSettled, Unsettled

LEMMA UnsettledBy ==
  ASSUME NEW b, IsBook(b), NEW c, NEW X, SameValuesBut(b, c, X)
  PROVE  Unsettled(c) \subseteq Unsettled(b) \union X
<1> SUFFICES ASSUME NEW n \in Unsettled(c), n \notin X  PROVE n \in Unsettled(b)
  OBVIOUS
<1>1. n \in DOMAIN b.at /\ n \in DOMAIN c.at
  BY DEF Unsettled, SameValuesBut
<1>2. c.at[n].rec = b.at[n].rec /\ c.at[n].moves = b.at[n].moves /\ c.at[n].this = b.at[n].this
  BY <1>1 DEF SameValuesBut
<1>3. Children(c, n) = Children(b, n)
  BY <1>2 DEF Children
<1>4. \A k \in Children(b, n) : Recs(c)[k] = Recs(b)[k]
  <2> SUFFICES ASSUME NEW k \in Children(b, n)  PROVE Recs(c)[k] = Recs(b)[k]
    OBVIOUS
  <2>1. k \in DOMAIN b.at
    BY <1>1, ParentsAre
  <2> QED  BY <2>1 DEF Recs, SameValuesBut
<1>5. RecomputeNodeValues(b, Recs(c), n) = RecomputeNodeValues(b, Recs(b), n)
  BY <1>4, ValueOfChildren
<1>6. RecomputeNodeValues(c, Recs(c), n) = RecomputeNodeValues(b, Recs(c), n)
  BY <1>2, <1>3 DEF RecomputeNodeValues
<1> QED  BY <1>1, <1>2, <1>5, <1>6 DEF Unsettled

(* It holds of a new book, and the main thread keeps it.                                      *)
LEMMA SettledInitially == BookInit => SettleInv
<1> SUFFICES ASSUME BookInit  PROVE SettleInv
  OBVIOUS
<1>1. IsSettled(book)
  BY NewBookIsBook, EverythingSettles DEF BookInit
<1>2. phase # "expand"
  BY DEF BookInit
<1> QED  BY <1>1, <1>2 DEF SettleInv, BookIsSettled

LEMMA MainSettles ==
  ASSUME BookInv, SettleInv,
         \/ BeginIteration \/ EndIteration \/ EndIterations
         \/ StartTrace \/ StartUpdate \/ EndTrace \/ Save \/ Signal \/ Restart
  PROVE  SettleInv'
<1>1. CASE BeginIteration
  <2>1. /\ phase = "iterate" /\ phase' = "expand" /\ book' = book
        /\ pc' = [t \in Threads |-> "pop"] /\ changed' = Range(queue')
    BY <1>1 DEF BeginIteration, StartThreads
  <2>2. PICK k : queue' \in NextToExpand(book, k)
    BY <1>1 DEF BeginIteration, StartThreads
  <2>3. IsBook(book) /\ IsSettled(book)
    BY <2>1 DEF BookInv, SettleInv, BookIsSettled
  <2>4. queue' \in Seq(DOMAIN book.at)
    BY <2>2, <2>3, ExpandedInBook
  <2>5. changed' \subseteq DOMAIN book'.at
    BY <2>1, <2>4, ElementOfSeq, LenProperties DEF Range
  <2>6. Unsettled(book') = {}
    BY <2>1, <2>3, SettledIs
  <2>7. \A t \in Threads : Noticed(t)'
    BY <2>1 DEF Noticed, Works
  <2> QED  BY <2>1, <2>5, <2>6, <2>7 DEF SettleInv, BookIsSettled, ChangesNoted
<1>2. CASE EndIteration
  <2>1. phase = "expand" /\ phase' \in {"save", "iterate"} /\ book' = Recompute(book, changed)
    BY <1>2 DEF EndIteration
  <2>2. IsBook(book) /\ changed \in SUBSET DOMAIN book.at /\ Unsettled(book) \subseteq changed
    BY <2>1 DEF BookInv, SettleInv, ChangesNoted
  <2>3. IsSettled(book')
    BY <2>1, <2>2, ChangedSettle
  <2> QED  BY <2>1, <2>3 DEF SettleInv, BookIsSettled
<1>3. CASE EndIterations
  <2>1. phase = "iterate" /\ phase' = "save" /\ book' = book
    BY <1>3 DEF EndIterations
  <2> QED  BY <2>1 DEF SettleInv, BookIsSettled
<1>4. CASE StartTrace \/ StartUpdate
  <2>1. phase' \in {"trace", "update"}
    BY <1>4 DEF StartTrace, StartUpdate
  <2> QED  BY <2>1 DEF SettleInv, BookIsSettled
<1>5. CASE EndTrace
  <2>1. phase' = "exited" \/ (phase' = "save" /\ book' = RecomputeEverything(book))
    BY <1>5 DEF EndTrace
  <2>2. IsSettled(RecomputeEverything(book))
    BY EverythingSettles DEF BookInv
  <2> QED  BY <2>1, <2>2 DEF SettleInv, BookIsSettled
<1>6. CASE Save
  <2>1. phase' = "exited"
    BY <1>6 DEF Save
  <2> QED  BY <2>1 DEF SettleInv, BookIsSettled
<1>7. CASE Signal
  <2>1. phase' = phase /\ book' = book /\ queue' = queue /\ changed' = changed /\ pc' = pc /\ node' = node /\ rest' = rest
    BY <1>7 DEF Signal
  <2> QED  BY <2>1 DEF SettleInv, BookIsSettled, ChangesNoted, Noticed, Works
<1>8. CASE Restart
  <2>1. phase' \in {"iterate", "startTrace"} /\ book' = LoadFromFile(file)
    BY <1>8 DEF Restart
  <2>2. LoadFromFile(file) = RecomputeEverything(Opened(file))
    BY DEF LoadFromFile, Opened
  <2>3. IsBook(Opened(file))
    BY OpenedIsBook DEF BookInv
  <2>4. IsSettled(book')
    BY <2>1, <2>2, <2>3, EverythingSettles
  <2> QED  BY <2>1, <2>4 DEF SettleInv, BookIsSettled
<1> QED  BY <1>1, <1>2, <1>3, <1>4, <1>5, <1>6, <1>7, <1>8

(* A step of t in an iteration that changes no value but those of X, all noted.               *)
LEMMA ThreadSettles ==
  ASSUME BookInv, SettleInv, NEW t \in Threads, phase = "expand", phase' = "expand",
         NEW X, SameValuesBut(book, book', X), X \subseteq changed', changed \subseteq changed', changed' \subseteq DOMAIN book'.at,
         Range(queue') \subseteq changed',
         \A u \in Threads \ {t} : pc'[u] = pc[u] /\ node'[u] = node[u] /\ rest'[u] = rest[u],
         Noticed(t)'
  PROVE  SettleInv'
<1>1. IsBook(book) /\ Unsettled(book) \subseteq changed /\ \A u \in Threads : Noticed(u)
  BY DEF BookInv, SettleInv, ChangesNoted
<1>2. Unsettled(book') \subseteq changed'
  BY <1>1, UnsettledBy
<1>3. \A u \in Threads : Noticed(u)'
  BY <1>1 DEF Noticed, Works
<1> QED  BY <1>2, <1>3 DEF SettleInv, BookIsSettled, ChangesNoted

(* Its hypotheses, for a step that leaves the changed nodes and the queue alone.              *)
LEMMA QuietStep ==
  ASSUME BookInv, SettleInv, NEW t \in Threads, phase = "expand", phase' = "expand",
         changed' = changed, queue' = queue,
         NEW X, SameValuesBut(book, book', X), X \subseteq changed,
         \A u \in Threads \ {t} : pc'[u] = pc[u] /\ node'[u] = node[u] /\ rest'[u] = rest[u],
         Noticed(t)'
  PROVE  SettleInv'
<1>1. changed \subseteq DOMAIN book'.at /\ Range(queue) \subseteq changed
  BY DEF SettleInv, ChangesNoted, SameValuesBut
<1> QED  BY <1>1, ThreadSettles

(* A thread's step, in an iteration.                                                         *)
LEMMA ThreadStepSettles ==
  ASSUME BookInv, SettleInv, NEW t \in Threads, ThreadStep(t), phase = "expand"
  PROVE  SettleInv'
<1>1. /\ IsBook(book) /\ ThreadsInv /\ ExpandInv /\ ChangesNoted /\ node[t] \in DOMAIN book.at
  BY DEF BookInv, PhaseInv, SettleInv, ThreadsInv
<1>2. pc = [u \in Threads |-> pc[u]] /\ node = [u \in Threads |-> node[u]] /\ rest = [u \in Threads |-> rest[u]]
  BY <1>1 DEF ThreadsInv
<1>3. Noticed(t) /\ ExpandsWell(t) /\ Range(queue) \subseteq changed /\ changed \subseteq DOMAIN book.at
  BY <1>1 DEF ChangesNoted, ExpandInv
<1>4. SameValuesBut(book, book, {})
  BY DEF SameValuesBut
<1>5. phase' = phase
  BY DEF ThreadStep, Return, PopToExpand, FindMoves, StopAfterSearch, AddChild, SetChildValues, PopToUpdate,
         UpdateFinished, FindRemaining, UpdateNoneLeft, UpdateFromSearch, PopLine, AddFromPolicy, mainThread
<1>6. CASE Return(t) \/ StopAfterSearch(t)
  <2>1. /\ book' = book /\ queue' = queue /\ changed' = changed /\ node' = node /\ rest' = rest
        /\ \E w \in {"pop", "returned"} : pc' = [pc EXCEPT ![t] = w]
    BY <1>6 DEF Return, StopAfterSearch, Goto
  <2>2. pc'[t] \in {"pop", "returned"} /\ \A u \in Threads \ {t} : pc'[u] = pc[u]
    BY <1>2, <2>1
  <2>3. Noticed(t)'
    BY <2>2 DEF Noticed, Works
  <2> QED  BY <1>4, <1>5, <2>1, <2>2, <2>3, QuietStep
<1>7. CASE PopToExpand(t)
  <2>1. /\ queue # <<>> /\ queue' = Tail(queue) /\ node' = [node EXCEPT ![t] = Head(queue)]
        /\ changed' = changed /\ rest' = rest
        /\ \/ book' = [book EXCEPT !.at[Head(queue)].canExpand = FALSE] /\ pc' = pc /\ pc[t] = "pop"
           \/ book' = book /\ pc' = [pc EXCEPT ![t] = "findMoves"]
    BY <1>7 DEF PopToExpand, CannotExpand, Goto, At
  <2>2. queue \in Seq(DOMAIN book.at)
    BY <1>1 DEF ExpandInv
  <2>3. Head(queue) \in DOMAIN book.at /\ Range(queue) = {Head(queue)} \union Range(Tail(queue))
    BY <2>1, <2>2, PoppedQueue
  <2>4. SameValuesBut(book, book', {})
    <3>1. \A n \in DOMAIN book.at : SameValuesBut(book, [book EXCEPT !.at[n].canExpand = FALSE], {})
      BY <1>1, CloseKeeps
    <3> QED  BY <1>4, <2>1, <2>3, <3>1
  <2>5. node'[t] \in changed /\ \A u \in Threads \ {t} : node'[u] = node[u] /\ pc'[u] = pc[u]
    BY <1>2, <1>3, <2>1, <2>3
  <2>6. pc'[t] # "childValues"
    BY <1>2, <2>1
  <2>7. Noticed(t)'
    BY <2>1, <2>5, <2>6 DEF Noticed
  <2>8. changed' \subseteq DOMAIN book'.at /\ Range(queue') \subseteq changed'
    BY <1>3, <2>1, <2>3, <2>4 DEF SameValuesBut
  <2> QED  BY <1>5, <2>1, <2>4, <2>5, <2>7, <2>8, ThreadSettles
<1>8. CASE FindMoves(t)
  <2>1. /\ pc[t] = "findMoves" /\ queue' = queue /\ changed' = changed /\ node' = node /\ rest' = rest
        /\ \/ book' = [book EXCEPT !.at[node[t]].canExpand = FALSE] /\ pc' = [pc EXCEPT ![t] = "pop"]
           \/ book' = book /\ pc' = [pc EXCEPT ![t] = "search"]
    BY <1>8 DEF FindMoves, CannotExpand, Goto, At
  <2>2. SameValuesBut(book, book', {})
    BY <1>1, <1>4, <2>1, CloseKeeps
  <2>3. pc'[t] \in {"pop", "search"} /\ \A u \in Threads \ {t} : pc'[u] = pc[u]
    BY <1>2, <2>1
  <2>4. Noticed(t)'
    BY <1>3, <2>1, <2>3 DEF Noticed, Works
  <2> QED  BY <1>5, <2>1, <2>2, <2>3, <2>4, QuietStep
<1>9. CASE AddChild(t)
  <2> DEFINE n == node[t]
  <2>1. pc[t] = "search" /\ queue' = queue /\ node' = node
    BY <1>9 DEF AddChild, At
  <2>2. PICK m \in Searched(n, avoid[t]) :
          /\ book' = AddMove(book, n, m) /\ changed' = changed \union {Child[n][m]}
          /\ IF InBook(book, Child[n][m]) THEN pc' = [pc EXCEPT ![t] = "update"] /\ rest' = rest
             ELSE pc' = [pc EXCEPT ![t] = "childValues"] /\ rest' = [rest EXCEPT ![t] = <<m>>]
    BY <1>9 DEF AddChild, Goto
  <2> DEFINE c == Child[n][m]
  <2>3. n \in changed /\ avoid[t] = book.at[n].moves
    BY <1>3, <2>1 DEF Noticed, Works, ExpandsWell
  <2>4. m \in LegalMoves(n) /\ ~IsMoveInBook(book, n, m)
    BY <2>2, <2>3 DEF Searched, IsMoveInBook
  <2>5. Added(book, book', n, c)
    BY <1>1, <2>2, <2>4, AddMoveIsBook
  <2>6. SameValuesBut(book, book', {n, c}) /\ DOMAIN book'.at = DOMAIN book.at \union {c}
    BY <2>5 DEF Added
  <2>7. \/ pc'[t] = "update"
        \/ pc'[t] = "childValues" /\ rest'[t] = <<m>>
    BY <1>2, <2>2
  <2>8. \A u \in Threads \ {t} : pc'[u] = pc[u] /\ rest'[u] = rest[u]
    BY <1>2, <2>2
  <2>9. Noticed(t)'
    <3>1. n \in changed' /\ c \in changed'
      BY <2>2, <2>3
    <3>2. Head(<<m>>) = m
      OBVIOUS
    <3> QED  BY <2>1, <2>7, <3>1, <3>2 DEF Noticed
  <2>10. changed' \subseteq DOMAIN book'.at /\ changed \subseteq changed' /\ {n, c} \subseteq changed' /\ Range(queue') \subseteq changed'
    BY <1>3, <2>1, <2>2, <2>3, <2>6
  <2> QED  BY <1>5, <2>1, <2>6, <2>8, <2>9, <2>10, ThreadSettles
<1>10. CASE SetChildValues(t)
  <2> DEFINE c == Child[node[t]][Head(rest[t])]
  <2>1. /\ pc[t] = "childValues" /\ queue' = queue /\ changed' = changed /\ node' = node
        /\ pc' = [pc EXCEPT ![t] = "update"] /\ rest' = [rest EXCEPT ![t] = <<>>]
    BY <1>10 DEF SetChildValues, At, Goto
  <2>2. PICK v : book' = SetValues(book, c, {}, v)
    BY <1>10 DEF SetChildValues
  <2>3. c \in changed /\ node[t] \in changed /\ c \in DOMAIN book.at
    BY <1>3, <2>1 DEF Noticed, Works
  <2> HIDE DEF c
  <2>4. SameValuesBut(book, book', {c})
    BY <1>1, <2>2, <2>3, SetValuesKeeps
  <2>5. pc'[t] = "update" /\ \A u \in Threads \ {t} : pc'[u] = pc[u] /\ rest'[u] = rest[u]
    BY <1>2, <2>1
  <2>6. Noticed(t)'
    BY <2>1, <2>3, <2>5 DEF Noticed
  <2> QED  BY <1>5, <2>1, <2>3, <2>4, <2>5, <2>6, QuietStep
<1>11. CASE UpdateFinished(t) \/ UpdateNoneLeft(t) \/ UpdateFromSearch(t)
  <2> DEFINE n == node[t]
  <2>1. /\ pc[t] \in {"update", "noneLeft", "searchRest"}
        /\ queue' = queue /\ changed' = changed /\ node' = node /\ rest' = rest
        /\ pc' = [pc EXCEPT ![t] = "pop"]
    BY <1>11 DEF UpdateFinished, UpdateNoneLeft, UpdateFromSearch, At, Goto
  <2>2. PICK left, v : \/ book' = SetValues(book, n, left, v)
                       \/ book' = [SetValues(book, n, left, v) EXCEPT !.at[n].canExpand = FALSE]
    BY <1>11 DEF UpdateFinished, UpdateNoneLeft, UpdateFromSearch
  <2>3. n \in changed
    BY <1>3, <2>1 DEF Noticed, Works
  <2>4. SameValuesBut(book, book', {n})
    <3>1. n \in DOMAIN book.at
      BY <1>1
    <3> HIDE DEF n
    <3>2. /\ SameValuesBut(book, SetValues(book, n, left, v), {n})
          /\ SameValuesBut(book, [SetValues(book, n, left, v) EXCEPT !.at[n].canExpand = FALSE], {n})
      BY <1>1, <3>1, SetValuesKeeps
    <3> QED  BY <2>2, <3>2
  <2>5. pc'[t] = "pop" /\ \A u \in Threads \ {t} : pc'[u] = pc[u]
    BY <1>2, <2>1
  <2>6. Noticed(t)'
    BY <2>5 DEF Noticed, Works
  <2> QED  BY <1>5, <2>1, <2>3, <2>4, <2>5, <2>6, QuietStep
<1>12. CASE FindRemaining(t)
  <2>1. /\ pc[t] = "update" /\ book' = book /\ queue' = queue /\ changed' = changed /\ node' = node /\ rest' = rest
        /\ \E w \in {"noneLeft", "searchRest"} : pc' = [pc EXCEPT ![t] = w]
    BY <1>12 DEF FindRemaining, At, Goto
  <2>2. pc'[t] \in {"noneLeft", "searchRest"} /\ \A u \in Threads \ {t} : pc'[u] = pc[u]
    BY <1>2, <2>1
  <2>3. Noticed(t)'
    BY <1>3, <2>1, <2>2 DEF Noticed, Works
  <2> QED  BY <1>4, <1>5, <2>1, <2>2, <2>3, QuietStep
<1>13. CASE PopToUpdate(t) \/ PopLine(t)
  BY <1>13 DEF PopToUpdate, PopLine
<1>14. CASE AddFromPolicy(t)
  <2>1. pc[t] = "policy"
    BY <1>14 DEF AddFromPolicy, At
  <2> QED  BY <1>3, <2>1 DEF ExpandsWell, Owing
<1> QED  BY <1>6, <1>7, <1>8, <1>9, <1>10, <1>11, <1>12, <1>13, <1>14 DEF ThreadStep

LEMMA SettledKept == BookInv /\ SettleInv /\ [BookNext]_bookVars => SettleInv'
<1> SUFFICES ASSUME BookInv, SettleInv, [BookNext]_bookVars  PROVE SettleInv'
  OBVIOUS
<1>1. CASE UNCHANGED bookVars
  BY <1>1 DEF bookVars, SettleInv, BookIsSettled, ChangesNoted, Noticed, Works
<1>2. CASE \/ BeginIteration \/ EndIteration \/ EndIterations
           \/ StartTrace \/ StartUpdate \/ EndTrace \/ Save \/ Signal \/ Restart
  BY <1>2, MainSettles
<1>3. ASSUME NEW t \in Threads, ThreadStep(t)  PROVE SettleInv'
  <2>1. phase \in Threading /\ phase' = phase
    BY <1>3 DEF ThreadStep, Return, PopToExpand, FindMoves, StopAfterSearch, AddChild, SetChildValues, PopToUpdate,
                UpdateFinished, FindRemaining, UpdateNoneLeft, UpdateFromSearch, PopLine, AddFromPolicy, mainThread, At
  <2>2. CASE phase = "expand"
    BY <1>3, <2>2, ThreadStepSettles
  <2>3. CASE phase # "expand"
    BY <2>1, <2>3 DEF SettleInv, BookIsSettled, Threading
  <2> QED  BY <2>2, <2>3
<1> QED  BY <1>1, <1>2, <1>3 DEF BookNext

(* Whenever the main thread chooses what to expand or saves, every value in the book is the  *)
(* minimax of its children's and every cost that of its cheapest path, though recompute only *)
(* visits what changed and what leads there (book.cpp:807, Book::recompute).                 *)
THEOREM BookSettles == BookSpec => []BookIsSettled
<1>1. BookInit => BookInv /\ SettleInv
  BY BookInitially, SettledInitially
<1>2. BookInv /\ SettleInv /\ [BookNext]_bookVars => (BookInv /\ SettleInv)'
  BY BookKept, SettledKept
<1>3. SettleInv => BookIsSettled
  BY DEF SettleInv
<1> QED  BY <1>1, <1>2, <1>3, PTL DEF BookSpec
=============================================================================
