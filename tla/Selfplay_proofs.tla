-------------------------- MODULE Selfplay_proofs ---------------------------
(* Proofs about Selfplay over SelfplayManager, for any number of threads, addresses and    *)
(* names: no net is deleted while a game holds it, although unused nets are removed while   *)
(* games go on and deleted by another thread; and no finished game is lost.                 *)
EXTENDS Selfplay, FiniteSetTheorems, SequenceTheorems, TLAPS

Models == [alive : BOOLEAN, modelName : Names \cup {NoModel}, acquireCount : Int,
           hasDataWriteLoop : BOOLEAN, queued : Int, readOnly : BOOLEAN,
           writeLoop : {"none", "pop", "flushed", "delete", "deleted"}]
Held == [GameThreads -> Datas \cup {NoModel}]
GamePcs == {"unborn", "top", "start", "play", "give_up", "check", "push", "room", "release", "end"}

Types ==
  /\ modelDatas \in Seq(Datas)
  /\ data \in [Datas -> Models]
  /\ removing \subseteq ToSet(modelDatas)
  /\ game \in [GameThreads -> GamePcs]
  /\ nnEval \in Held /\ newNNEval \in Held
  /\ main \in {"load", "join", "join_loader", "wait", "quit", "aborted"}

NoRepeats(s) == \A i, j \in 1..Len(s) : s[i] = s[j] => i = j

(* How many threads hold a model in this place.                                            *)
HoldersOf(place, d) == Cardinality({t \in GameThreads : place[t] = d})

(* A model that is listed has its thread, which goes on to the files only when no more     *)
(* games come, and that is only when the model is about to leave the list.                  *)
ListInv ==
  /\ NoRepeats(modelDatas)
  /\ \A d \in ToSet(modelDatas) :
       /\ data[d].alive /\ data[d].hasDataWriteLoop
       /\ data[d].writeLoop \in {"pop", "flushed"}
       /\ data[d].writeLoop = "flushed" => data[d].readOnly
       /\ data[d].readOnly => d \in removing
  /\ main \in {"join", "join_loader"} =>
       modelDatas # <<>> /\ Last(modelDatas) \notin removing

(* The users of a listed model are counted, and no other model has any.                    *)
CountInv ==
  /\ \A d \in ToSet(modelDatas) :
       data[d].acquireCount = HoldersOf(nnEval, d) + HoldersOf(newNNEval, d)
  /\ \A t \in GameThreads : /\ nnEval[t] # NoModel => nnEval[t] \in ToSet(modelDatas) \ removing
                            /\ newNNEval[t] # NoModel => newNNEval[t] \in ToSet(modelDatas) \ removing

(* What a thread holds follows from where it is; none plays before the first net is there   *)
(* or after the main thread has joined it.                                                  *)
GameInv ==
  /\ \A t \in GameThreads :
       /\ nnEval[t] = NoModel <=> game[t] \in {"unborn", "top", "end"}
       /\ newNNEval[t] = NoModel <=> game[t] # "check"
  /\ main = "load" => \A t \in GameThreads : game[t] = "unborn"
  /\ main \in {"join_loader", "wait", "quit"} => \A t \in GameThreads : game[t] = "end"

Inv == Types /\ ListInv /\ CountInv /\ GameInv

-------------------------------------------------------------------------------
(* The elements of a sequence are the values at its places.                                *)
LEMMA Elements ==
  ASSUME NEW S, NEW s \in Seq(S)
  PROVE  /\ \A d : d \in ToSet(s) <=> \E i \in 1..Len(s) : s[i] = d
         /\ ToSet(s) \subseteq S /\ Len(s) \in Nat
BY DEF ToSet

(* Append puts a new element last.                                                         *)
LEMMA Appended ==
  ASSUME NEW S, NEW s \in Seq(S), NEW d \in S, NoRepeats(s), d \notin ToSet(s)
  PROVE  /\ Append(s, d) \in Seq(S) /\ NoRepeats(Append(s, d))
         /\ ToSet(Append(s, d)) = ToSet(s) \cup {d}
         /\ Append(s, d) # <<>> /\ Last(Append(s, d)) = d
<1> DEFINE a == Append(s, d)
<1>1. a \in Seq(S) /\ Len(a) = Len(s) + 1 /\ a[Len(s) + 1] = d /\ \A i \in 1..Len(s) : a[i] = s[i]
  OBVIOUS
<1>2. Len(s) \in Nat /\ \A i \in 1..Len(s) : s[i] # d
  BY Elements
<1> HIDE DEF a
<1>3. NoRepeats(a)
  BY <1>1, <1>2 DEF NoRepeats
<1>4. ToSet(a) = ToSet(s) \cup {d}
  <2>1. ASSUME NEW x
        PROVE  x \in ToSet(a) <=> x \in ToSet(s) \/ x = d
    <3>1. x \in ToSet(a) <=> \E i \in 1..Len(a) : a[i] = x
      BY <1>1, Elements
    <3>2. x \in ToSet(s) <=> \E i \in 1..Len(s) : s[i] = x
      BY Elements
    <3> QED
      BY <1>1, <1>2, <3>1, <3>2
  <2> QED
    BY <2>1
<1>5. a # <<>> /\ Last(a) = d
  BY <1>1, <1>2 DEF Last
<1> QED
  BY <1>1, <1>3, <1>4, <1>5 DEF a

(* All but the last.                                                                       *)
LEMMA InFront ==
  ASSUME NEW S, NEW s \in Seq(S), NoRepeats(s), s # <<>>
  PROVE  ToSet(Front(s)) \subseteq ToSet(s) \ {Last(s)} /\ Last(s) \in ToSet(s)
<1>1. Len(s) \in Nat \ {0} /\ Last(s) = s[Len(s)]
  BY DEF Last
<1>2. Front(s) \in Seq(S) /\ Len(Front(s)) = Len(s) - 1 /\ \A i \in 1..Len(s) - 1 : Front(s)[i] = s[i]
  <2> DEFINE n == Len(s) - 1
             f == SubSeq(s, 1, n)
  <2>1. n \in Nat /\ \A i \in 1..n : s[i] \in S
    BY <1>1
  <2> HIDE DEF n
  <2>2. f \in Seq(S) /\ Len(f) = (IF 1 <= n THEN n - 1 + 1 ELSE 0) /\ \A i \in 1..n - 1 + 1 : f[i] = s[1 + i - 1]
    BY <2>1, SubSeqProperties
  <2> HIDE DEF f
  <2>3. Len(f) = n /\ \A i \in 1..n : f[i] = s[i]
    <3>1. \A i \in 1..n : i \in 1..n - 1 + 1 /\ 1 + i - 1 = i
      BY <2>1
    <3> QED
      BY <2>1, <2>2, <3>1
  <2> QED
    BY <2>2, <2>3 DEF f, n, Front
<1>3. ASSUME NEW x \in ToSet(Front(s))
      PROVE  x \in ToSet(s) /\ x # Last(s)
  <2>1. PICK i \in 1..Len(s) - 1 : s[i] = x
    BY <1>2, Elements
  <2> QED
    BY <1>1, <2>1, Elements DEF NoRepeats
<1>4. Last(s) \in ToSet(s)
  BY <1>1, Elements
<1> QED
  BY <1>3, <1>4

(* Erasing a place takes out its element, and leaves the last in place unless it is that.   *)
LEMMA Removed ==
  ASSUME NEW S, NEW s \in Seq(S), NoRepeats(s), NEW k \in 1..Len(s)
  PROVE  /\ RemoveAt(s, k) \in Seq(S) /\ NoRepeats(RemoveAt(s, k))
         /\ ToSet(RemoveAt(s, k)) = ToSet(s) \ {s[k]}
         /\ s[k] # Last(s) => RemoveAt(s, k) # <<>> /\ Last(RemoveAt(s, k)) = Last(s)
<1> DEFINE r == RemoveAt(s, k)
<1>1. Len(s) \in Nat /\ k \in Nat /\ 1 <= k /\ k <= Len(s)
  OBVIOUS
<1>2. /\ r \in Seq(S) /\ Len(r) = Len(s) - 1
      /\ \A i \in 1..Len(s) - 1 : r[i] = IF i < k THEN s[i] ELSE s[i + 1]
  <2> DEFINE p == SubSeq(s, 1, k - 1)
             q == SubSeq(s, k + 1, Len(s))
  <2>1. p \in Seq(S) /\ Len(p) = k - 1 /\ \A i \in 1..k - 1 : p[i] = s[i]
    BY <1>1
  <2>2. q \in Seq(S) /\ Len(q) = Len(s) - k /\ \A i \in 1..Len(s) - k : q[i] = s[i + k]
    BY <1>1
  <2>3. r = p \o q
    BY DEF RemoveAt
  <2> HIDE DEF p, q, r
  <2>4. r \in Seq(S) /\ Len(r) = Len(s) - 1
    <3>1. p \o q \in Seq(S) /\ Len(p \o q) = Len(p) + Len(q)
      BY <2>1, <2>2, ConcatProperties
    <3> QED
      BY <1>1, <2>1, <2>2, <2>3, <3>1
  <2>5. ASSUME NEW i \in 1..Len(s) - 1
        PROVE  r[i] = IF i < k THEN s[i] ELSE s[i + 1]
    <3>1. CASE i < k
      <4>1. i \in 1..Len(p) /\ i \in 1..k - 1
        BY <1>1, <2>1, <3>1
      <4> QED
        BY <2>1, <2>2, <2>3, <3>1, <4>1
    <3>2. CASE i >= k
      <4>1. i - (k - 1) \in 1..Len(s) - k /\ (i - (k - 1)) + k = i + 1
        BY <1>1, <3>2
      <4>2. r[i] = q[i - (k - 1)]
        BY <1>1, <2>1, <2>2, <2>3, <3>2
      <4>3. q[i - (k - 1)] = s[i + 1]
        BY <2>2, <4>1
      <4> QED
        BY <1>1, <3>2, <4>2, <4>3
    <3> QED
      BY <1>1, <3>1, <3>2
  <2> QED
    BY <2>4, <2>5
<1> HIDE DEF r
<1>3. NoRepeats(r)
  BY <1>1, <1>2 DEF NoRepeats
<1>4. ToSet(r) = ToSet(s) \ {s[k]}
  <2>1. ASSUME NEW x \in ToSet(r)
        PROVE  x \in ToSet(s) \ {s[k]}
    <3>1. PICK i \in 1..Len(s) - 1 : r[i] = x
      BY <1>2, Elements
    <3> QED
      BY <1>1, <1>2, <3>1, Elements DEF NoRepeats
  <2>2. ASSUME NEW x \in ToSet(s) \ {s[k]}
        PROVE  x \in ToSet(r)
    <3>1. PICK i \in 1..Len(s) : s[i] = x /\ i # k
      BY Elements
    <3>2. PICK j \in 1..Len(s) - 1 : r[j] = x
      <4>1. CASE i < k
        BY <1>1, <1>2, <3>1, <4>1
      <4>2. CASE i > k
        <5>1. i - 1 \in 1..Len(s) - 1 /\ ~(i - 1 < k) /\ (i - 1) + 1 = i
          BY <1>1, <3>1, <4>2
        <5> QED
          BY <1>2, <3>1, <5>1
      <4> QED
        BY <1>1, <3>1, <4>1, <4>2
    <3> QED
      BY <1>2, <3>2, Elements
  <2> QED
    BY <2>1, <2>2
<1>5. ASSUME s[k] # Last(s)
      PROVE  r # <<>> /\ Last(r) = Last(s)
  <2>1. k < Len(s)
    BY <1>1, <1>5 DEF Last
  <2>2. Len(r) >= 1 /\ r[Len(r)] = s[Len(s)]
    BY <1>1, <1>2, <2>1
  <2> QED
    BY <2>2 DEF Last
<1> QED
  BY <1>2, <1>3, <1>4, <1>5 DEF r

(* A thread that changes what it holds is counted where it was and where it is.             *)
LEMMA HoldersChange ==
  ASSUME NEW f \in Held, NEW t \in GameThreads, NEW e \in Datas \cup {NoModel}, NEW d,
         NEW g, g[t] = e, \A u \in GameThreads \ {t} : g[u] = f[u]
  PROVE  HoldersOf(g, d) = HoldersOf(f, d) - (IF f[t] = d THEN 1 ELSE 0) + (IF e = d THEN 1 ELSE 0)
<1> DEFINE H(h) == {u \in GameThreads : h[u] = d}
<1>1. IsFiniteSet(H(f)) /\ Cardinality(H(f)) \in Nat
  BY SelfplayAssumption, FS_Subset, FS_CardinalityType DEF SelfplayAssumption
<1>2. H(g) = IF e = d THEN H(f) \cup {t} ELSE H(f) \ {t}
  BY DEF Held
<1>3. t \in H(f) <=> f[t] = d
  OBVIOUS
<1> HIDE DEF H
<1>4. Cardinality(H(g)) = Cardinality(H(f)) - (IF f[t] = d THEN 1 ELSE 0) + (IF e = d THEN 1 ELSE 0)
  <2>1. CASE e = d
    <3>1. Cardinality(H(f) \cup {t}) = IF f[t] = d THEN Cardinality(H(f)) ELSE Cardinality(H(f)) + 1
      BY <1>1, <1>3, FS_AddElement
    <3> QED
      BY <1>1, <1>2, <2>1, <3>1
  <2>2. CASE e # d
    <3>1. Cardinality(H(f) \ {t}) = IF f[t] = d THEN Cardinality(H(f)) - 1 ELSE Cardinality(H(f))
      BY <1>1, <1>3, FS_RemoveElement
    <3> QED
      BY <1>1, <1>2, <2>2, <3>1
  <2> QED
    BY <2>1, <2>2
<1> QED
  BY <1>1, <1>4 DEF H, HoldersOf

(* Nobody holds what nobody is counted for.                                                *)
LEMMA NoHolders ==
  ASSUME NEW f \in Held, NEW d
  PROVE  HoldersOf(f, d) \in Nat /\ (HoldersOf(f, d) = 0 <=> \A t \in GameThreads : f[t] # d)
<1>1. IsFiniteSet({u \in GameThreads : f[u] = d})
  BY SelfplayAssumption, FS_Subset DEF SelfplayAssumption
<1> QED
  BY <1>1, FS_CardinalityType, FS_EmptySet DEF HoldersOf
-------------------------------------------------------------------------------
(* A thread that is in its loop has a main thread that waits for it.                        *)
LEMMA Playing ==
  ASSUME Inv, NEW t \in GameThreads, game[t] \notin {"unborn", "end"}
  PROVE  main \in {"join", "aborted"}
BY DEF Inv, Types, GameInv

(* While the mutex is free, no listed model has been told that no more games come.          *)
LEMMA ListedAreOpen ==
  ASSUME Inv, MutexIsFree
  PROVE  \A d \in ToSet(modelDatas) :
           data[d].alive /\ data[d].hasDataWriteLoop /\ data[d].writeLoop = "pop" /\ ~data[d].readOnly
BY DEF Inv, ListInv, MutexIsFree

(* While games are played, the latest model is there to be acquired.                        *)
LEMMA LatestIsListed ==
  ASSUME Inv, main \in {"join", "join_loader"}
  PROVE  Latest \in ToSet(modelDatas) \ removing /\ Latest \in Datas
<1>1. modelDatas # <<>> /\ Last(modelDatas) \notin removing /\ NoRepeats(modelDatas)
  BY DEF Inv, ListInv
<1>2. modelDatas \in Seq(Datas)
  BY DEF Inv, Types
<1> QED
  BY <1>1, <1>2, InFront, Elements DEF Latest

(* What the steps write into a model is a model.                                            *)
LEMMA ModelUpdates ==
  ASSUME NEW m \in Models
  PROVE  /\ [m EXCEPT !.readOnly = TRUE] \in Models
         /\ \A n \in Int : [m EXCEPT !.acquireCount = n] \in Models
         /\ \A n \in Int : [m EXCEPT !.queued = n] \in Models
         /\ \A w \in {"none", "pop", "flushed", "delete", "deleted"} : [m EXCEPT !.writeLoop = w] \in Models
         /\ \A name \in Names : [Free EXCEPT !.alive = TRUE, !.modelName = name, !.hasDataWriteLoop = TRUE,
                                             !.writeLoop = "pop"] \in Models
         /\ Free \in Models /\ [Free EXCEPT !.writeLoop = "deleted"] \in Models
         /\ m.acquireCount \in Int /\ m.queued \in Int
<1>1. [m EXCEPT !.readOnly = TRUE] \in Models
  BY DEF Models
<1>2. ASSUME NEW n \in Int
      PROVE  [m EXCEPT !.acquireCount = n] \in Models /\ [m EXCEPT !.queued = n] \in Models
  BY DEF Models
<1>3. ASSUME NEW w \in {"none", "pop", "flushed", "delete", "deleted"}
      PROVE  [m EXCEPT !.writeLoop = w] \in Models
  BY DEF Models
<1>4. Free \in Models
  BY DEF Models, Free
<1>5. /\ [Free EXCEPT !.writeLoop = "deleted"] \in Models
      /\ \A name \in Names : [Free EXCEPT !.alive = TRUE, !.modelName = name, !.hasDataWriteLoop = TRUE,
                                          !.writeLoop = "pop"] \in Models
  BY <1>4 DEF Models
<1>6. m.acquireCount \in Int /\ m.queued \in Int
  BY DEF Models
<1> QED
  BY <1>1, <1>2, <1>3, <1>4, <1>5, <1>6

(* Removal tells the doomed models, and them only, that no more games come.                 *)
LEMMA RemovalStarts ==
  ASSUME NEW models \in Seq(Datas), NEW datas \in [Datas -> Models], NEW doomed \in SUBSET ToSet(models),
         \A d \in ToSet(models) :
           datas[d].alive /\ datas[d].hasDataWriteLoop /\ datas[d].writeLoop = "pop" /\ ~datas[d].readOnly,
         StartRemoval(models, datas, doomed)
  PROVE  /\ modelDatas' = models /\ removing' = doomed /\ data' \in [Datas -> Models]
         /\ \A d \in ToSet(models) :
              /\ data'[d].alive /\ data'[d].hasDataWriteLoop /\ data'[d].writeLoop = "pop"
              /\ data'[d].readOnly => d \in doomed
              /\ data'[d].acquireCount = datas[d].acquireCount
<1>1. modelDatas' = models /\ removing' = doomed
  BY DEF StartRemoval
<1>2. ToSet(models) \subseteq Datas
  BY Elements
<1>3. ASSUME NEW d \in Datas
      PROVE  /\ d \notin doomed => data'[d] = datas[d]
             /\ d \in doomed => data'[d] = [datas[d] EXCEPT !.readOnly = TRUE]
  BY <1>3 DEF StartRemoval
<1>4. data' \in [Datas -> Models]
  <2>1. data' = [d \in Datas |-> data'[d]]
    BY DEF StartRemoval
  <2>2. \A d \in Datas : data'[d] \in Models
    BY <1>3, ModelUpdates
  <2> QED
    BY <2>1, <2>2
<1>5. ASSUME NEW d \in ToSet(models)
      PROVE  /\ data'[d].alive /\ data'[d].hasDataWriteLoop /\ data'[d].writeLoop = "pop"
             /\ data'[d].readOnly => d \in doomed
             /\ data'[d].acquireCount = datas[d].acquireCount
  BY <1>2, <1>3 DEF Models
<1> QED
  BY <1>1, <1>4, <1>5

(* A thread moves on with what it holds.                                                    *)
LEMMA MovesKeepInv ==
  ASSUME Inv, NEW t \in GameThreads, NEW to \in GamePcs, game[t] \notin {"unborn", "end"},
         game' = [game EXCEPT ![t] = to],
         game[t] = "top" <=> to \in {"unborn", "top", "end"}, game[t] = "check" <=> to = "check",
         UNCHANGED <<modelDatas, data, removing, nnEval, newNNEval, main>>
  PROVE  Inv'
<1>1. main \in {"join", "aborted"}
  BY Playing
<1>2. Types'
  BY DEF Inv, Types
<1>3. ListInv' /\ CountInv'
  BY DEF Inv, ListInv, CountInv, HoldersOf
<1>4. GameInv'
  BY <1>1 DEF Inv, Types, GameInv
<1> QED
  BY <1>2, <1>3, <1>4 DEF Inv

(* To load a model adds it to the list, with no users; the unused ones may be doomed.       *)
LEMMA LoadKeeps ==
  ASSUME Inv, NEW d \in Datas, NEW name \in Names, ~data[d].alive, LoadModel(d, name, TRUE),
         UNCHANGED <<nnEval, newNNEval>>
  PROVE  /\ modelDatas' \in Seq(Datas) /\ data' \in [Datas -> Models] /\ removing' \subseteq ToSet(modelDatas')
         /\ ListInv' /\ CountInv'
<1> DEFINE models == Append(modelDatas, d)
           datas == [data EXCEPT ![d] = [Free EXCEPT !.alive = TRUE, !.modelName = name,
                                           !.hasDataWriteLoop = TRUE, !.writeLoop = "pop"]]
           doomed == Unused(models, datas)
<1>1. MutexIsFree /\ StartRemoval(models, datas, doomed)
  BY DEF LoadModel
<1>2. d \notin ToSet(modelDatas) /\ modelDatas \in Seq(Datas) /\ NoRepeats(modelDatas)
  BY DEF Inv, ListInv, Types
<1>3. /\ models \in Seq(Datas) /\ NoRepeats(models) /\ models # <<>> /\ Last(models) = d
      /\ ToSet(models) = ToSet(modelDatas) \cup {d}
  BY <1>2, Appended
<1>4. /\ datas \in [Datas -> Models] /\ \A e \in Datas : e # d => datas[e] = data[e]
      /\ datas[d].alive /\ datas[d].hasDataWriteLoop /\ datas[d].writeLoop = "pop" /\ ~datas[d].readOnly
      /\ datas[d].acquireCount = 0
  <2> DEFINE m == [Free EXCEPT !.alive = TRUE, !.modelName = name,
                              !.hasDataWriteLoop = TRUE, !.writeLoop = "pop"]
  <2>1. data \in [Datas -> Models]
    BY DEF Inv, Types
  <2>2. Free \in Models
    BY DEF Models, Free
  <2>3. m \in Models
    BY <2>2, ModelUpdates
  <2>4. m.alive /\ m.hasDataWriteLoop /\ m.writeLoop = "pop" /\ ~m.readOnly /\ m.acquireCount = 0
    BY DEF Free
  <2>5. datas = [data EXCEPT ![d] = m]
    OBVIOUS
  <2> HIDE DEF m, datas
  <2> QED
    BY <2>1, <2>3, <2>4, <2>5
<1> HIDE DEF models, datas
<1>5. /\ doomed \subseteq ToSet(models) \ {d}
      /\ \A e \in doomed : datas[e].acquireCount <= 0
  BY <1>3, InFront DEF Unused
<1> HIDE DEF doomed
<1>6. \A e \in ToSet(models) :
        datas[e].alive /\ datas[e].hasDataWriteLoop /\ datas[e].writeLoop = "pop" /\ ~datas[e].readOnly
  BY <1>1, <1>2, <1>3, <1>4, ListedAreOpen, Elements
<1>7. /\ modelDatas' = models /\ removing' = doomed /\ data' \in [Datas -> Models]
      /\ \A e \in ToSet(models) :
           /\ data'[e].alive /\ data'[e].hasDataWriteLoop /\ data'[e].writeLoop = "pop"
           /\ data'[e].readOnly => e \in doomed
           /\ data'[e].acquireCount = datas[e].acquireCount
  BY <1>1, <1>3, <1>4, <1>5, <1>6, RemovalStarts
<1>8. ListInv'
  BY <1>3, <1>5, <1>7 DEF ListInv
<1>9. \A e : HoldersOf(nnEval, e)' = HoldersOf(nnEval, e) /\ HoldersOf(newNNEval, e)' = HoldersOf(newNNEval, e)
  BY DEF HoldersOf
<1>10. \A t \in GameThreads : /\ nnEval[t] # NoModel => nnEval[t] \in ToSet(modelDatas)
                              /\ newNNEval[t] # NoModel => newNNEval[t] \in ToSet(modelDatas)
  BY DEF Inv, CountInv
<1>11. \A e \in ToSet(models) : datas[e].acquireCount = HoldersOf(nnEval, e) + HoldersOf(newNNEval, e)
  <2>1. HoldersOf(nnEval, d) = 0 /\ HoldersOf(newNNEval, d) = 0
    <3>1. d # NoModel
      BY ManagerAssumption DEF ManagerAssumption
    <3> QED
      BY <3>1, <1>2, <1>10, NoHolders DEF Inv, Types
  <2>2. \A e \in ToSet(modelDatas) : datas[e] = data[e]
    BY <1>2, <1>4, Elements
  <2> QED
    BY <1>3, <1>4, <2>1, <2>2 DEF Inv, CountInv
<1>12. \A e \in doomed, t \in GameThreads : nnEval[t] # e /\ newNNEval[t] # e
  <2> TAKE e \in doomed
  <2>1. HoldersOf(nnEval, e) \in Nat /\ HoldersOf(newNNEval, e) \in Nat
    BY NoHolders DEF Inv, Types
  <2>2. HoldersOf(nnEval, e) = 0 /\ HoldersOf(newNNEval, e) = 0
    BY <2>1, <1>5, <1>11
  <2> QED
    BY <2>2, NoHolders DEF Inv, Types
<1>13. CountInv'
  BY <1>3, <1>7, <1>9, <1>10, <1>11, <1>12 DEF CountInv
<1> QED
  BY <1>3, <1>5, <1>7, <1>8, <1>13

(* To release a model dooms it only if nobody else uses it, and it is not the latest.        *)
LEMMA ReleaseKeeps ==
  ASSUME Inv, main \in {"join", "join_loader"}, UNCHANGED main,
         NEW d \in ToSet(modelDatas), Release(d), nnEval' \in Held, newNNEval' \in Held,
         \A e \in Datas : HoldersOf(nnEval', e) + HoldersOf(newNNEval', e) =
                            HoldersOf(nnEval, e) + HoldersOf(newNNEval, e) - (IF e = d THEN 1 ELSE 0),
         \A t \in GameThreads : /\ nnEval'[t] # NoModel => nnEval'[t] \in ToSet(modelDatas)
                                /\ newNNEval'[t] # NoModel => newNNEval'[t] \in ToSet(modelDatas)
  PROVE  /\ modelDatas' \in Seq(Datas) /\ data' \in [Datas -> Models] /\ removing' \subseteq ToSet(modelDatas')
         /\ ListInv' /\ CountInv'
<1> DEFINE datas == [data EXCEPT ![d].acquireCount = @ - 1]
           doomed == Unused(modelDatas, datas)
<1>1. MutexIsFree /\ StartRemoval(modelDatas, datas, doomed)
  BY DEF Release
<1>2. modelDatas \in Seq(Datas) /\ NoRepeats(modelDatas) /\ modelDatas # <<>> /\ ToSet(modelDatas) \subseteq Datas
  BY Elements DEF Inv, ListInv, Types
<1>3. /\ datas \in [Datas -> Models]
      /\ \A e \in Datas : /\ datas[e].alive = data[e].alive /\ datas[e].readOnly = data[e].readOnly
                          /\ datas[e].hasDataWriteLoop = data[e].hasDataWriteLoop
                          /\ datas[e].writeLoop = data[e].writeLoop
                          /\ datas[e].acquireCount = data[e].acquireCount - (IF e = d THEN 1 ELSE 0)
  <2>1. data \in [Datas -> Models] /\ d \in Datas /\ data[d] \in Models
    BY <1>2 DEF Inv, Types
  <2> DEFINE m == [data[d] EXCEPT !.acquireCount = data[d].acquireCount - 1]
  <2>2. m \in Models
    <3>1. data[d].acquireCount - 1 \in Int
      BY <2>1 DEF Models
    <3> QED
      BY <2>1, <3>1, ModelUpdates
  <2>3. /\ m.alive = data[d].alive /\ m.readOnly = data[d].readOnly
        /\ m.hasDataWriteLoop = data[d].hasDataWriteLoop /\ m.writeLoop = data[d].writeLoop
        /\ m.acquireCount = data[d].acquireCount - 1
    BY <2>1 DEF Models
  <2>4. datas = [data EXCEPT ![d] = m]
    BY <2>1
  <2>5. \A e \in Datas : data[e].acquireCount \in Int
    BY <2>1, ModelUpdates
  <2> HIDE DEF m, datas
  <2> QED
    BY <2>1, <2>2, <2>3, <2>4, <2>5
<1> HIDE DEF datas
<1>4. /\ doomed \subseteq ToSet(modelDatas) \ {Last(modelDatas)}
      /\ \A e \in doomed : datas[e].acquireCount <= 0
  BY <1>2, InFront DEF Unused
<1> HIDE DEF doomed
<1>5. \A e \in ToSet(modelDatas) :
        datas[e].alive /\ datas[e].hasDataWriteLoop /\ datas[e].writeLoop = "pop" /\ ~datas[e].readOnly
  BY <1>1, <1>2, <1>3, ListedAreOpen
<1>6. /\ modelDatas' = modelDatas /\ removing' = doomed /\ data' \in [Datas -> Models]
      /\ \A e \in ToSet(modelDatas) :
           /\ data'[e].alive /\ data'[e].hasDataWriteLoop /\ data'[e].writeLoop = "pop"
           /\ data'[e].readOnly => e \in doomed
           /\ data'[e].acquireCount = datas[e].acquireCount
  BY <1>1, <1>2, <1>3, <1>4, <1>5, RemovalStarts
<1>7. ListInv'
  <2>1. NoRepeats(modelDatas') /\ modelDatas' # <<>> /\ Last(modelDatas') \notin removing'
    BY <1>2, <1>4, <1>6
  <2>2. \A e \in ToSet(modelDatas') :
          /\ data'[e].alive /\ data'[e].hasDataWriteLoop /\ data'[e].writeLoop = "pop"
          /\ data'[e].readOnly => e \in removing'
    BY <1>6
  <2> QED
    BY <2>1, <2>2 DEF ListInv
<1>8. ASSUME NEW e \in ToSet(modelDatas)
      PROVE  datas[e].acquireCount = HoldersOf(nnEval', e) + HoldersOf(newNNEval', e)
  <2>1. e \in Datas /\ data[e].acquireCount = HoldersOf(nnEval, e) + HoldersOf(newNNEval, e)
    BY <1>2 DEF Inv, CountInv
  <2>2. /\ HoldersOf(nnEval, e) \in Nat /\ HoldersOf(newNNEval, e) \in Nat
        /\ HoldersOf(nnEval', e) \in Nat /\ HoldersOf(newNNEval', e) \in Nat
    BY NoHolders DEF Inv, Types
  <2> QED
    BY <2>1, <2>2, <1>3
<1>9. \A e \in doomed, t \in GameThreads : nnEval'[t] # e /\ newNNEval'[t] # e
  <2> TAKE e \in doomed
  <2>1. HoldersOf(nnEval', e) \in Nat /\ HoldersOf(newNNEval', e) \in Nat
    BY NoHolders
  <2>2. HoldersOf(nnEval', e) = 0 /\ HoldersOf(newNNEval', e) = 0
    BY <2>1, <1>4, <1>8
  <2> QED
    BY <2>2, NoHolders
<1>10. CountInv'
  BY <1>6, <1>8, <1>9 DEF CountInv, HoldersOf
<1> QED
  BY <1>2, <1>4, <1>6, <1>7, <1>10
(* A step of a model, listed or not, that keeps what its users and the list rely on.         *)
LEMMA DataKeeps ==
  ASSUME Inv, NEW d \in Datas, NEW m \in Models, data' = [data EXCEPT ![d] = m],
         d \in ToSet(modelDatas) =>
           /\ m.alive /\ m.hasDataWriteLoop /\ m.acquireCount = data[d].acquireCount
           /\ m.writeLoop \in {"pop", "flushed"} /\ (m.writeLoop = "flushed" => m.readOnly)
           /\ m.readOnly => data[d].readOnly,
         UNCHANGED <<modelDatas, removing, nnEval, newNNEval, main>>
  PROVE  data' \in [Datas -> Models] /\ ListInv' /\ CountInv'
<1>1. data \in [Datas -> Models] /\ ToSet(modelDatas) \subseteq Datas
  BY Elements DEF Inv, Types
<1>2. data' \in [Datas -> Models] /\ data'[d] = m /\ \A e \in Datas : e # d => data'[e] = data[e]
  BY <1>1
<1>3. ASSUME NEW e \in ToSet(modelDatas)
      PROVE  /\ data'[e].alive /\ data'[e].hasDataWriteLoop
             /\ data'[e].writeLoop \in {"pop", "flushed"}
             /\ data'[e].writeLoop = "flushed" => data'[e].readOnly
             /\ data'[e].readOnly => e \in removing
             /\ data'[e].acquireCount = data[e].acquireCount
  <2>1. CASE e = d
    BY <1>2, <2>1 DEF Inv, ListInv
  <2>2. CASE e # d
    BY <1>1, <1>2, <2>2 DEF Inv, ListInv
  <2> QED
    BY <2>1, <2>2
<1>4. ListInv'
  BY <1>3 DEF Inv, ListInv
<1>5. CountInv'
  BY <1>3 DEF Inv, CountInv, HoldersOf
<1> QED
  BY <1>2, <1>4, <1>5

(* The thread of a model writes its games, and deletes it when it has left the list: it      *)
(* has taken the mutex after the list was told that no more games come.                     *)
LEMMA WriteLoopKeepsInv ==
  ASSUME Inv, NEW d \in Datas, WriteLoop(d), UNCHANGED threads
  PROVE  Inv'
<1>1. data \in [Datas -> Models] /\ data[d] \in Models
  BY DEF Inv, Types
<1>2. UNCHANGED <<modelDatas, removing, game, nnEval, newNNEval, main>>
  BY DEF WriteLoop, WriteGame, EndOfGames, AwaitRemoval, DeleteModel, WriteLoopEnds, AtWriteLoop, threads
<1>3. d \in ToSet(modelDatas) =>
        /\ data[d].alive /\ data[d].hasDataWriteLoop /\ data[d].writeLoop \in {"pop", "flushed"}
        /\ data[d].writeLoop = "flushed" => data[d].readOnly
        /\ data[d].readOnly => d \in removing
  BY DEF Inv, ListInv
<1>4. ASSUME NEW m \in Models, data' = [data EXCEPT ![d] = m],
             d \in ToSet(modelDatas) =>
               /\ m.alive /\ m.hasDataWriteLoop /\ m.acquireCount = data[d].acquireCount
               /\ m.writeLoop \in {"pop", "flushed"} /\ (m.writeLoop = "flushed" => m.readOnly)
               /\ m.readOnly => data[d].readOnly
      PROVE  Inv'
  <2>1. data' \in [Datas -> Models] /\ ListInv' /\ CountInv'
    BY <1>2, <1>4, DataKeeps
  <2> QED
    BY <1>2, <2>1 DEF Inv, Types, GameInv
<1>5. CASE WriteGame(d)
  <2> DEFINE m == [data[d] EXCEPT !.queued = data[d].queued - 1]
  <2>1. data' = [data EXCEPT ![d] = m] /\ data[d].writeLoop = "pop"
    BY <1>1, <1>5 DEF WriteGame
  <2>2. m \in Models
    <3>1. data[d].queued - 1 \in Int
      BY <1>1 DEF Models
    <3> QED
      BY <1>1, <3>1, ModelUpdates
  <2>3. /\ m.alive = data[d].alive /\ m.hasDataWriteLoop = data[d].hasDataWriteLoop
        /\ m.acquireCount = data[d].acquireCount /\ m.writeLoop = data[d].writeLoop
        /\ m.readOnly = data[d].readOnly
    BY <1>1 DEF Models
  <2> HIDE DEF m
  <2> QED
    BY <1>3, <1>4, <2>1, <2>2, <2>3
<1>6. CASE EndOfGames(d)
  <2> DEFINE m == [data[d] EXCEPT !.writeLoop = "flushed"]
  <2>1. data' = [data EXCEPT ![d] = m] /\ data[d].readOnly
    BY <1>1, <1>6 DEF EndOfGames, AtWriteLoop
  <2>2. m \in Models
    BY <1>1, ModelUpdates
  <2>3. /\ m.alive = data[d].alive /\ m.hasDataWriteLoop = data[d].hasDataWriteLoop
        /\ m.acquireCount = data[d].acquireCount /\ m.writeLoop = "flushed"
        /\ m.readOnly = data[d].readOnly
    BY <1>1 DEF Models
  <2> HIDE DEF m
  <2> QED
    BY <1>3, <1>4, <2>1, <2>2, <2>3
<1>7. CASE AwaitRemoval(d)
  <2> DEFINE m == [data[d] EXCEPT !.writeLoop = "delete"]
  <2>1. data' = [data EXCEPT ![d] = m] /\ data[d].writeLoop = "flushed" /\ removing = {}
    BY <1>1, <1>7 DEF AwaitRemoval, AtWriteLoop, MutexIsFree
  <2>2. m \in Models
    BY <1>1, ModelUpdates
  <2>3. d \notin ToSet(modelDatas)
    BY <1>3, <2>1
  <2> HIDE DEF m
  <2> QED
    BY <1>4, <2>1, <2>2, <2>3
<1>8. CASE DeleteModel(d) \/ WriteLoopEnds(d)
  <2>1. d \notin ToSet(modelDatas)
    BY <1>3, <1>8 DEF DeleteModel, WriteLoopEnds
  <2>2. PICK m \in Models : data' = [data EXCEPT ![d] = m]
    BY <1>1, <1>8, ModelUpdates DEF DeleteModel, WriteLoopEnds
  <2> QED
    BY <1>4, <2>1, <2>2
<1> QED
  BY <1>5, <1>6, <1>7, <1>8 DEF WriteLoop

(* A model that leaves the list has no users, and the latest stays.                         *)
LEMMA EndRemovalKeepsInv ==
  ASSUME Inv, EndRemoval, UNCHANGED threads
  PROVE  Inv'
<1>1. PICK k \in 1..Len(modelDatas) : /\ modelDatas[k] \in removing
                                      /\ modelDatas' = RemoveAt(modelDatas, k)
                                      /\ removing' = removing \ {modelDatas[k]}
  <2>1. DOMAIN modelDatas = 1..Len(modelDatas)
    BY DEF Inv, Types
  <2> QED
    BY <2>1 DEF EndRemoval
<1>2. UNCHANGED <<data, game, nnEval, newNNEval, main>>
  BY DEF EndRemoval, threads
<1>3. modelDatas \in Seq(Datas) /\ NoRepeats(modelDatas) /\ removing \subseteq ToSet(modelDatas)
  BY DEF Inv, Types, ListInv
<1>4. /\ modelDatas' \in Seq(Datas) /\ NoRepeats(modelDatas')
      /\ ToSet(modelDatas') = ToSet(modelDatas) \ {modelDatas[k]}
      /\ modelDatas[k] # Last(modelDatas) => modelDatas' # <<>> /\ Last(modelDatas') = Last(modelDatas)
  BY <1>1, <1>3, Removed
<1>5. Types'
  BY <1>1, <1>2, <1>3, <1>4 DEF Inv, Types
<1>6. ListInv'
  <2>1. main' \in {"join", "join_loader"} => modelDatas' # <<>> /\ Last(modelDatas') \notin removing'
    BY <1>1, <1>2, <1>4 DEF Inv, ListInv
  <2>2. \A d \in ToSet(modelDatas') :
          /\ data'[d].alive /\ data'[d].hasDataWriteLoop
          /\ data'[d].writeLoop \in {"pop", "flushed"}
          /\ data'[d].writeLoop = "flushed" => data'[d].readOnly
          /\ data'[d].readOnly => d \in removing'
    BY <1>1, <1>2, <1>4 DEF Inv, ListInv
  <2> QED
    BY <1>4, <2>1, <2>2 DEF ListInv
<1>7. CountInv'
  BY <1>1, <1>2, <1>4 DEF Inv, CountInv, HoldersOf
<1>8. GameInv'
  BY <1>2 DEF Inv, GameInv
<1> QED
  BY <1>5, <1>6, <1>7, <1>8 DEF Inv

(* To acquire a listed model counts one user more.                                          *)
LEMMA AcquireKeeps ==
  ASSUME Inv, NEW d \in ToSet(modelDatas), Acquire(d), UNCHANGED main,
         nnEval' \in Held, newNNEval' \in Held,
         \A e \in Datas : HoldersOf(nnEval', e) + HoldersOf(newNNEval', e) =
                            (HoldersOf(nnEval, e) + HoldersOf(newNNEval, e)) + (IF e = d THEN 1 ELSE 0),
         \A t \in GameThreads : /\ nnEval'[t] # NoModel => nnEval'[t] \in ToSet(modelDatas)
                                /\ newNNEval'[t] # NoModel => newNNEval'[t] \in ToSet(modelDatas)
  PROVE  /\ UNCHANGED <<modelDatas, removing>> /\ data' \in [Datas -> Models]
         /\ ListInv' /\ CountInv'
<1> DEFINE m == [data[d] EXCEPT !.acquireCount = data[d].acquireCount + 1]
<1>1. data \in [Datas -> Models] /\ ToSet(modelDatas) \subseteq Datas /\ data[d] \in Models
  BY Elements DEF Inv, Types
<1>2. UNCHANGED <<modelDatas, removing>> /\ removing = {} /\ data' = [data EXCEPT ![d] = m]
  BY <1>1 DEF Acquire, MutexIsFree
<1>3. m \in Models
  <2>1. data[d].acquireCount + 1 \in Int
    BY <1>1 DEF Models
  <2> QED
    BY <1>1, <2>1, ModelUpdates
<1>4. /\ m.alive = data[d].alive /\ m.hasDataWriteLoop = data[d].hasDataWriteLoop
      /\ m.writeLoop = data[d].writeLoop /\ m.readOnly = data[d].readOnly
      /\ m.acquireCount = data[d].acquireCount + 1
  BY <1>1 DEF Models
<1> HIDE DEF m
<1>5. data' \in [Datas -> Models] /\ data'[d] = m /\ \A e \in Datas : e # d => data'[e] = data[e]
  BY <1>1, <1>2, <1>3
<1>6. ListInv'
  <2>1. ASSUME NEW e \in ToSet(modelDatas)
        PROVE  /\ data'[e].alive /\ data'[e].hasDataWriteLoop
               /\ data'[e].writeLoop \in {"pop", "flushed"}
               /\ data'[e].writeLoop = "flushed" => data'[e].readOnly
               /\ data'[e].readOnly => e \in removing
    <3>1. CASE e = d
      BY <1>4, <1>5, <3>1 DEF Inv, ListInv
    <3>2. CASE e # d
      BY <1>1, <1>5, <3>2 DEF Inv, ListInv
    <3> QED
      BY <3>1, <3>2
  <2> QED
    BY <1>2, <2>1 DEF Inv, ListInv
<1>7. ASSUME NEW e \in ToSet(modelDatas)
      PROVE  data'[e].acquireCount = HoldersOf(nnEval', e) + HoldersOf(newNNEval', e)
  <2>1. data[e].acquireCount = HoldersOf(nnEval, e) + HoldersOf(newNNEval, e)
    BY DEF Inv, CountInv
  <2>2. HoldersOf(nnEval, e) \in Nat /\ HoldersOf(newNNEval, e) \in Nat
    BY NoHolders DEF Inv, Types
  <2>3. data'[e].acquireCount = data[e].acquireCount + (IF e = d THEN 1 ELSE 0)
    <3>1. e \in Datas /\ data[e].acquireCount \in Int
      BY <1>1 DEF Models
    <3>2. CASE e = d
      BY <1>4, <1>5, <3>2
    <3>3. CASE e # d
      BY <1>5, <3>1, <3>3
    <3> QED
      BY <3>2, <3>3
  <2> QED
    BY <1>1, <2>1, <2>2, <2>3
<1>8. CountInv'
  BY <1>2, <1>7 DEF CountInv, HoldersOf
<1> QED
  BY <1>2, <1>5, <1>6, <1>8

(* The loop of a game keeps the counts: a thread acquires what it will play with, and        *)
(* releases what it has played with.                                                         *)
LEMMA GameLoopKeepsInv ==
  ASSUME Inv, NEW t \in GameThreads, GameLoop(t)
  PROVE  Inv'
<1> DEFINE eval == nnEval[t]
           newer == newNNEval[t]
<1>1. /\ nnEval \in Held /\ newNNEval \in Held /\ game \in [GameThreads -> GamePcs]
      /\ eval \in Datas \cup {NoModel} /\ newer \in Datas \cup {NoModel} /\ NoModel \notin Datas
  BY ManagerAssumption DEF Inv, Types, Held, ManagerAssumption
<1>2. /\ eval = NoModel <=> game[t] \in {"unborn", "top", "end"}
      /\ newer = NoModel <=> game[t] # "check"
      /\ eval # NoModel => eval \in ToSet(modelDatas) \ removing
      /\ newer # NoModel => newer \in ToSet(modelDatas) \ removing
  BY DEF Inv, GameInv, CountInv
<1>3. UNCHANGED main /\ game[t] \notin {"unborn", "end"} /\ main = "join"
  <2>1. UNCHANGED main /\ game[t] \notin {"unborn", "end"} /\ Running
    BY DEF GameLoop, QuitGames, AcquireLatest, StartGame, CheckForNewNNEval, SwitchNNEval, FinishGame,
           InterruptGame, FindQueue, EnqueueDataToWrite, ReleaseNet, GameStep
  <2> QED
    BY <2>1, Playing DEF Running
<1>4. \A e \in Datas : HoldersOf(nnEval, e) \in Nat /\ HoldersOf(newNNEval, e) \in Nat
  BY <1>1, NoHolders
<1>5. CASE QuitGames(t) \/ StartGame(t) \/ FinishGame(t) \/ InterruptGame(t) \/ FindQueue(t)
  <2>1. UNCHANGED <<modelDatas, data, removing, nnEval, newNNEval, main>>
    BY <1>5 DEF QuitGames, StartGame, FinishGame, InterruptGame, FindQueue, manager
  <2>2. PICK to \in GamePcs : /\ game' = [game EXCEPT ![t] = to]
                              /\ game[t] = "top" <=> to \in {"unborn", "top", "end"}
                              /\ game[t] = "check" <=> to = "check"
    BY <1>5 DEF QuitGames, StartGame, FinishGame, InterruptGame, FindQueue, GameStep, GamePcs
  <2> QED
    BY <1>3, <2>1, <2>2, MovesKeepInv
<1>6. CASE AcquireLatest(t)
  <2>1. /\ Acquire(Latest) /\ nnEval' = [nnEval EXCEPT ![t] = Latest] /\ newNNEval' = newNNEval
        /\ game[t] = "top" /\ game' = [game EXCEPT ![t] = "start"]
    BY <1>6 DEF AcquireLatest, GameStep
  <2>2. Latest \in ToSet(modelDatas) \ removing /\ Latest \in Datas
    BY <1>3, LatestIsListed
  <2>3. nnEval' \in Held /\ nnEval'[t] = Latest /\ \A u \in GameThreads \ {t} : nnEval'[u] = nnEval[u]
    BY <1>1, <2>1, <2>2 DEF Held
  <2>4. ASSUME NEW e \in Datas
        PROVE  HoldersOf(nnEval', e) + HoldersOf(newNNEval', e) =
                 (HoldersOf(nnEval, e) + HoldersOf(newNNEval, e)) + (IF e = Latest THEN 1 ELSE 0)
    <3>1. HoldersOf(nnEval', e) = HoldersOf(nnEval, e) - (IF eval = e THEN 1 ELSE 0) + (IF Latest = e THEN 1 ELSE 0)
      BY <1>1, <2>2, <2>3, HoldersChange
    <3>2. eval # e
      BY <1>1, <1>2, <2>1
    <3> QED
      BY <1>4, <2>1, <3>1, <3>2
  <2>5. \A u \in GameThreads : /\ nnEval'[u] # NoModel => nnEval'[u] \in ToSet(modelDatas)
                               /\ newNNEval'[u] # NoModel => newNNEval'[u] \in ToSet(modelDatas)
    BY <1>1, <2>1, <2>2 DEF Inv, CountInv, Held
  <2>6. UNCHANGED <<modelDatas, removing>> /\ data' \in [Datas -> Models] /\ ListInv' /\ CountInv'
    BY <1>1, <1>3, <2>1, <2>2, <2>3, <2>4, <2>5, AcquireKeeps
  <2>7. GameInv'
    BY <1>1, <1>2, <1>3, <2>1, <2>2 DEF Inv, GameInv, Held
  <2> QED
    BY <1>1, <1>3, <2>1, <2>3, <2>6, <2>7 DEF Inv, Types, GamePcs
<1>7. CASE CheckForNewNNEval(t)
  <2>1. /\ Acquire(Latest) /\ newNNEval' = [newNNEval EXCEPT ![t] = Latest] /\ nnEval' = nnEval
        /\ game[t] = "play" /\ game' = [game EXCEPT ![t] = "check"]
    BY <1>7 DEF CheckForNewNNEval, GameStep
  <2>2. Latest \in ToSet(modelDatas) \ removing /\ Latest \in Datas
    BY <1>3, LatestIsListed
  <2>3. /\ newNNEval' \in Held /\ newNNEval'[t] = Latest
        /\ \A u \in GameThreads \ {t} : newNNEval'[u] = newNNEval[u]
    BY <1>1, <2>1, <2>2 DEF Held
  <2>4. ASSUME NEW e \in Datas
        PROVE  HoldersOf(nnEval', e) + HoldersOf(newNNEval', e) =
                 (HoldersOf(nnEval, e) + HoldersOf(newNNEval, e)) + (IF e = Latest THEN 1 ELSE 0)
    <3>1. HoldersOf(newNNEval', e) = HoldersOf(newNNEval, e) - (IF newer = e THEN 1 ELSE 0) + (IF Latest = e THEN 1 ELSE 0)
      BY <1>1, <2>2, <2>3, HoldersChange
    <3>2. newer # e
      BY <1>1, <1>2, <2>1
    <3> QED
      BY <1>4, <2>1, <3>1, <3>2
  <2>5. \A u \in GameThreads : /\ nnEval'[u] # NoModel => nnEval'[u] \in ToSet(modelDatas)
                               /\ newNNEval'[u] # NoModel => newNNEval'[u] \in ToSet(modelDatas)
    BY <1>1, <2>1, <2>2 DEF Inv, CountInv, Held
  <2>6. UNCHANGED <<modelDatas, removing>> /\ data' \in [Datas -> Models] /\ ListInv' /\ CountInv'
    BY <1>1, <1>3, <2>1, <2>2, <2>3, <2>4, <2>5, AcquireKeeps
  <2>7. GameInv'
    BY <1>1, <1>2, <1>3, <2>1, <2>2 DEF Inv, GameInv, Held
  <2> QED
    BY <1>1, <1>3, <2>1, <2>3, <2>6, <2>7 DEF Inv, Types, GamePcs
<1>8. CASE SwitchNNEval(t)
  <2>1. /\ Release(eval) /\ nnEval' = [nnEval EXCEPT ![t] = newer] /\ newNNEval' = [newNNEval EXCEPT ![t] = NoModel]
        /\ game[t] = "check" /\ game' = [game EXCEPT ![t] = "play"]
    BY <1>8 DEF SwitchNNEval, GameStep
  <2>2. eval \in ToSet(modelDatas) /\ newer \in ToSet(modelDatas) /\ eval # NoModel /\ newer # NoModel
    BY <1>2, <2>1
  <2>3. /\ nnEval' \in Held /\ newNNEval' \in Held /\ nnEval'[t] = newer /\ newNNEval'[t] = NoModel
        /\ \A u \in GameThreads \ {t} : nnEval'[u] = nnEval[u] /\ newNNEval'[u] = newNNEval[u]
    BY <1>1, <2>1 DEF Held
  <2>4. ASSUME NEW e \in Datas
        PROVE  HoldersOf(nnEval', e) + HoldersOf(newNNEval', e) =
                 HoldersOf(nnEval, e) + HoldersOf(newNNEval, e) - (IF e = eval THEN 1 ELSE 0)
    <3>1. HoldersOf(nnEval', e) = HoldersOf(nnEval, e) - (IF eval = e THEN 1 ELSE 0) + (IF newer = e THEN 1 ELSE 0)
      BY <1>1, <2>3, HoldersChange
    <3>2. HoldersOf(newNNEval', e) = HoldersOf(newNNEval, e) - (IF newer = e THEN 1 ELSE 0) + (IF NoModel = e THEN 1 ELSE 0)
      BY <1>1, <2>3, HoldersChange
    <3> QED
      BY <1>1, <1>4, <3>1, <3>2
  <2>5. \A u \in GameThreads : /\ nnEval'[u] # NoModel => nnEval'[u] \in ToSet(modelDatas)
                               /\ newNNEval'[u] # NoModel => newNNEval'[u] \in ToSet(modelDatas)
    BY <1>1, <2>1, <2>2 DEF Inv, CountInv, Held
  <2>6. /\ modelDatas' \in Seq(Datas) /\ data' \in [Datas -> Models] /\ removing' \subseteq ToSet(modelDatas')
        /\ ListInv' /\ CountInv'
    BY <1>3, <2>1, <2>2, <2>3, <2>4, <2>5, ReleaseKeeps
  <2>7. GameInv'
    BY <1>1, <1>2, <1>3, <2>1, <2>2 DEF Inv, GameInv, Held
  <2> QED
    BY <1>1, <1>3, <2>1, <2>3, <2>6, <2>7 DEF Inv, Types, GamePcs
<1>9. CASE EnqueueDataToWrite(t)
  <2> DEFINE m == [data[eval] EXCEPT !.queued = data[eval].queued + (IF data[eval].readOnly THEN 0 ELSE 1)]
  <2>1. Push(eval) /\ UNCHANGED <<nnEval, newNNEval>> /\ game[t] = "room" /\ game' = [game EXCEPT ![t] = "release"]
    BY <1>9 DEF EnqueueDataToWrite, GameStep
  <2>2. eval \in Datas /\ eval \in ToSet(modelDatas) /\ data[eval] \in Models
    BY <1>1, <1>2, <2>1 DEF Inv, Types
  <2>3. data' = [data EXCEPT ![eval] = m] /\ UNCHANGED <<modelDatas, removing>>
    BY <2>1, <2>2 DEF Push, Inv, Types
  <2>4. m \in Models
    <3>1. data[eval].queued + (IF data[eval].readOnly THEN 0 ELSE 1) \in Int
      BY <2>2 DEF Models
    <3> QED
      BY <2>2, <3>1, ModelUpdates
  <2>5. /\ m.alive = data[eval].alive /\ m.hasDataWriteLoop = data[eval].hasDataWriteLoop
        /\ m.acquireCount = data[eval].acquireCount /\ m.writeLoop = data[eval].writeLoop
        /\ m.readOnly = data[eval].readOnly
    BY <2>2 DEF Models
  <2> HIDE DEF m
  <2>6. /\ data[eval].alive /\ data[eval].hasDataWriteLoop /\ data[eval].writeLoop \in {"pop", "flushed"}
        /\ data[eval].writeLoop = "flushed" => data[eval].readOnly
    BY <2>2 DEF Inv, ListInv
  <2>7. data' \in [Datas -> Models] /\ ListInv' /\ CountInv'
    BY <1>3, <2>1, <2>2, <2>3, <2>4, <2>5, <2>6, DataKeeps
  <2>8. GameInv'
    BY <1>1, <1>2, <1>3, <2>1 DEF Inv, GameInv
  <2> QED
    BY <1>1, <1>3, <2>1, <2>3, <2>7, <2>8 DEF Inv, Types, GamePcs
<1>10. CASE ReleaseNet(t)
  <2>1. /\ Release(eval) /\ nnEval' = [nnEval EXCEPT ![t] = NoModel] /\ newNNEval' = newNNEval
        /\ game[t] \in {"release", "give_up"}
        /\ game' = [game EXCEPT ![t] = "top"] \/ game' = [game EXCEPT ![t] = "end"]
    BY <1>10 DEF ReleaseNet, GameStep
  <2>2. eval \in ToSet(modelDatas)
    BY <1>2, <2>1
  <2>3. /\ nnEval' \in Held /\ newNNEval' \in Held /\ nnEval'[t] = NoModel
        /\ \A u \in GameThreads \ {t} : nnEval'[u] = nnEval[u]
    BY <1>1, <2>1 DEF Held
  <2>4. ASSUME NEW e \in Datas
        PROVE  HoldersOf(nnEval', e) + HoldersOf(newNNEval', e) =
                 HoldersOf(nnEval, e) + HoldersOf(newNNEval, e) - (IF e = eval THEN 1 ELSE 0)
    <3>1. HoldersOf(nnEval', e) = HoldersOf(nnEval, e) - (IF eval = e THEN 1 ELSE 0) + (IF NoModel = e THEN 1 ELSE 0)
      BY <1>1, <2>3, HoldersChange
    <3> QED
      BY <1>1, <1>4, <2>1, <3>1
  <2>5. \A u \in GameThreads : /\ nnEval'[u] # NoModel => nnEval'[u] \in ToSet(modelDatas)
                               /\ newNNEval'[u] # NoModel => newNNEval'[u] \in ToSet(modelDatas)
    BY <1>1, <2>1 DEF Inv, CountInv, Held
  <2>6. /\ modelDatas' \in Seq(Datas) /\ data' \in [Datas -> Models] /\ removing' \subseteq ToSet(modelDatas')
        /\ ListInv' /\ CountInv'
    BY <1>3, <2>1, <2>2, <2>3, <2>4, <2>5, ReleaseKeeps
  <2>7. GameInv'
    BY <1>1, <1>2, <1>3, <2>1 DEF Inv, GameInv, Held
  <2> QED
    BY <1>1, <1>3, <2>1, <2>3, <2>6, <2>7 DEF Inv, Types, GamePcs
<1> QED
  BY <1>5, <1>6, <1>7, <1>8, <1>9, <1>10 DEF GameLoop

-------------------------------------------------------------------------------
(* The first net comes before any thread does.                                              *)
LEMMA LoadFirstKeepsInv ==
  ASSUME Inv, NEW d \in Datas, NEW name \in Names, LoadFirst(d, name)
  PROVE  Inv'
<1>1. /\ main = "load" /\ ~data[d].alive /\ LoadModel(d, name, TRUE) /\ UNCHANGED <<nnEval, newNNEval>>
      /\ main' = "join" /\ game' = [t \in GameThreads |-> "top"]
  BY DEF LoadFirst
<1>2. /\ modelDatas' \in Seq(Datas) /\ data' \in [Datas -> Models] /\ removing' \subseteq ToSet(modelDatas')
      /\ ListInv' /\ CountInv'
  BY <1>1, LoadKeeps
<1>3. \A t \in GameThreads : nnEval[t] = NoModel /\ newNNEval[t] = NoModel
  BY <1>1 DEF Inv, GameInv
<1>4. GameInv'
  BY <1>1, <1>3 DEF GameInv
<1>5. game' \in [GameThreads -> GamePcs]
  BY <1>1 DEF GamePcs
<1> QED
  BY <1>1, <1>2, <1>4, <1>5 DEF Inv, Types

(* The main thread moves on, or the process is at its end.                                  *)
LEMMA MainMovesKeepInv ==
  ASSUME Inv, UNCHANGED <<modelDatas, data, removing, game, nnEval, newNNEval>>,
         \/ main' = main
         \/ main' = "aborted"
         \/ main = "wait" /\ main' = "quit"
         \/ main = "join" /\ main' = "join_loader" /\ \A t \in GameThreads : game[t] = "end"
  PROVE  Inv'
<1>1. Types' /\ ListInv'
  BY DEF Inv, Types, ListInv
<1>2. CountInv'
  BY DEF Inv, CountInv, HoldersOf
<1>3. GameInv'
  BY DEF Inv, GameInv
<1> QED
  BY <1>1, <1>2, <1>3 DEF Inv

(* A newer net joins the list, or the process is aborted.                                   *)
LEMMA LoadNewerKeepsInv ==
  ASSUME Inv, NEW d \in Datas, NEW name \in Names, LoadNewer(d, name)
  PROVE  Inv'
<1>1. ~data[d].alive /\ UNCHANGED <<game, nnEval, newNNEval>>
  BY DEF LoadNewer
<1>2. CASE LoadModel(d, name, TRUE) /\ UNCHANGED main
  <2>1. /\ modelDatas' \in Seq(Datas) /\ data' \in [Datas -> Models]
        /\ removing' \subseteq ToSet(modelDatas') /\ ListInv' /\ CountInv'
    BY <1>1, <1>2, LoadKeeps
  <2>2. GameInv'
    BY <1>1, <1>2 DEF Inv, GameInv
  <2> QED
    BY <1>1, <1>2, <2>1, <2>2 DEF Inv, Types
<1>3. CASE main' = "aborted" /\ UNCHANGED manager
  <2>1. UNCHANGED <<modelDatas, data, removing, game, nnEval, newNNEval>>
    BY <1>1, <1>3 DEF manager
  <2> QED
    BY <1>3, <2>1, MainMovesKeepInv
<1> QED
  BY <1>2, <1>3 DEF LoadNewer

(* The manager is destroyed when nobody plays: every model is doomed and none is held.      *)
LEMMA DeleteManagerKeepsInv ==
  ASSUME Inv, DeleteManager
  PROVE  Inv'
<1>1. /\ main = "join_loader" /\ main' = "wait" /\ UNCHANGED <<game, nnEval, newNNEval>>
      /\ MutexIsFree /\ StartRemoval(modelDatas, data, ToSet(modelDatas))
  BY DEF DeleteManager, Destroy
<1>2. /\ modelDatas \in Seq(Datas) /\ data \in [Datas -> Models] /\ NoRepeats(modelDatas)
      /\ \A t \in GameThreads : nnEval[t] = NoModel /\ newNNEval[t] = NoModel
  BY <1>1 DEF Inv, Types, ListInv, GameInv
<1>3. /\ modelDatas' = modelDatas /\ removing' = ToSet(modelDatas) /\ data' \in [Datas -> Models]
      /\ \A d \in ToSet(modelDatas) :
           /\ data'[d].alive /\ data'[d].hasDataWriteLoop /\ data'[d].writeLoop = "pop"
           /\ data'[d].acquireCount = data[d].acquireCount
  BY <1>1, <1>2, ListedAreOpen, RemovalStarts
<1>4. ListInv'
  BY <1>1, <1>2, <1>3 DEF ListInv
<1>5. CountInv'
  BY <1>1, <1>2, <1>3 DEF Inv, CountInv, HoldersOf
<1>6. GameInv'
  BY <1>1 DEF Inv, GameInv
<1> QED
  BY <1>1, <1>3, <1>4, <1>5, <1>6 DEF Inv, Types

(* Nothing is loaded and nobody plays.                                                      *)
LEMMA InitInv == Init => Inv
<1> SUFFICES ASSUME Init
             PROVE  Inv
  OBVIOUS
<1>1. ToSet(<<>>) = {}
  BY DEF ToSet
<1>2. Types
  <2>1. Free \in Models
    BY DEF Models, Free
  <2>2. /\ modelDatas \in Seq(Datas) /\ removing \subseteq ToSet(modelDatas)
        /\ game \in [GameThreads -> GamePcs] /\ nnEval \in Held /\ newNNEval \in Held /\ main = "load"
    BY DEF Init, ManagerInit, GamePcs, Held
  <2> QED
    BY <2>1, <2>2 DEF Types, Init, ManagerInit
<1>3. ListInv
  BY <1>1 DEF ListInv, NoRepeats, Init, ManagerInit
<1>4. CountInv /\ GameInv
  BY <1>1 DEF CountInv, GameInv, Init, ManagerInit
<1> QED
  BY <1>2, <1>3, <1>4 DEF Inv

(* Every step keeps the invariant.                                                          *)
LEMMA NextKeepsInv == Inv /\ [Next]_vars => Inv'
<1> SUFFICES ASSUME Inv, [Next]_vars
             PROVE  Inv'
  OBVIOUS
<1>1. CASE Signal \/ QuitLoading \/ UNCHANGED vars
  <2>1. UNCHANGED <<modelDatas, data, removing, game, nnEval, newNNEval, main>>
    BY <1>1 DEF Signal, QuitLoading, vars, threads, manager
  <2> QED
    BY <2>1, MainMovesKeepInv
<1>2. CASE JoinGames \/ Quit
  BY <1>2, MainMovesKeepInv DEF JoinGames, Quit, manager
<1>3. CASE DeleteManager
  BY <1>3, DeleteManagerKeepsInv
<1>4. CASE \E d \in Datas, name \in Names : LoadFirst(d, name)
  BY <1>4, LoadFirstKeepsInv
<1>5. CASE \E d \in Datas, name \in Names : LoadNewer(d, name)
  BY <1>5, LoadNewerKeepsInv
<1>6. CASE \E t \in GameThreads : GameLoop(t)
  BY <1>6, GameLoopKeepsInv
<1>7. CASE WriteLoops
  <2>1. CASE EndRemoval
    BY <1>7, <2>1, EndRemovalKeepsInv DEF WriteLoops
  <2>2. CASE Threads
    BY <1>7, <2>2, WriteLoopKeepsInv DEF WriteLoops, Threads
  <2> QED
    BY <1>7, <2>1, <2>2 DEF WriteLoops
<1> QED
  BY <1>1, <1>2, <1>3, <1>4, <1>5, <1>6, <1>7 DEF Next, Main, LoadLoop, Stopped

(* The invariant holds of every run, with any number of threads and addresses.              *)
THEOREM Invariance == Spec => []Inv
<1> QED
  BY InitInv, NextKeepsInv, PTL DEF Spec

(* No game ever holds a net that has been deleted or is being removed, the manager lists    *)
(* none that has been deleted, and its counts are those of the games that hold a net.       *)
THEOREM NetsAreNotDeletedInUse == Spec => []NoUseAfterDelete
<1>1. Inv => NoUseAfterDelete
  BY DEF Inv, ListInv, CountInv, NoUseAfterDelete, HoldersOf
<1> QED
  BY <1>1, Invariance, PTL

-------------------------------------------------------------------------------
(* A queue has room for what it holds, and only a net that is there and whose thread still  *)
(* waits for games has any.                                                                 *)
QueueInv ==
  \A d \in Datas : /\ data[d].queued \in 0..maxDataQueueSize
                   /\ data[d].queued > 0 => data[d].alive /\ data[d].writeLoop = "pop"

(* The threads of the models are counted, until there are no more of them.                  *)
Writing == {d \in Datas : data[d].writeLoop # "none"}
LoopsInv ==
  /\ numDataWriteLoopsActive = Cardinality(Writing)
  /\ main = "load" => loader = "unborn" /\ Writing = {}
  /\ main \in {"wait", "quit"} => loader = "end"
  /\ main = "quit" => modelDatas = <<>> /\ numDataWriteLoopsActive = 0

GamesInv == numFinished \in Nat /\ numWritten \in Nat /\ QueueInv /\ LoopsInv /\ NoGameIsLost

(* The places of queues of these lengths.                                                   *)
Places(q) == {p \in Datas \X (1..maxDataQueueSize) : p[2] <= q[p[1]]}
Lengths == [Datas -> 0..maxDataQueueSize]
Queue == [d \in Datas |-> data[d].queued]

(* One more game in one of the queues is one more place.                                    *)
LEMMA OneMorePlace ==
  ASSUME NEW f \in Lengths, NEW g \in Lengths, NEW d \in Datas, g[d] = f[d] + 1,
         \A e \in Datas \ {d} : g[e] = f[e]
  PROVE  Cardinality(Places(f)) \in Nat /\ Cardinality(Places(g)) = Cardinality(Places(f)) + 1
<1> DEFINE P == Datas \X (1..maxDataQueueSize)
<1>1. maxDataQueueSize \in Nat /\ IsFiniteSet(Datas)
  BY ManagerAssumption DEF ManagerAssumption
<1>2. IsFiniteSet(P)
  <2>1. IsFiniteSet(1..maxDataQueueSize)
    BY <1>1, FS_Interval
  <2> QED
    BY <1>1, <2>1, FS_Product
<1>3. Places(f) \subseteq P
  BY DEF Places
<1> HIDE DEF P
<1>4. IsFiniteSet(Places(f)) /\ Cardinality(Places(f)) \in Nat
  BY <1>2, <1>3, FS_Subset, FS_CardinalityType
<1>5. g[d] \in 1..maxDataQueueSize
  BY <1>1 DEF Lengths
<1>6. Places(g) = Places(f) \cup {<<d, g[d]>>}
  <2>1. ASSUME NEW e \in Datas, NEW i \in 1..maxDataQueueSize
        PROVE  i <= g[e] <=> i <= f[e] \/ (e = d /\ i = g[d])
    BY <1>1, <1>5 DEF Lengths
  <2> QED
    BY <1>5, <2>1 DEF Places
<1>7. <<d, g[d]>> \notin Places(f)
  BY <1>1 DEF Places, Lengths
<1> QED
  BY <1>4, <1>6, <1>7, FS_AddElement

(* The games in the queues are at places within their lengths.                              *)
LEMMA Queues == QueueInv => Queue \in Lengths /\ InQueues = Places(Queue)
BY DEF QueueInv, Queue, Lengths, InQueues, Places

(* The threads that have a game in their hands, and the writing threads, are finitely many. *)
LEMMA Finite ==
  /\ IsFiniteSet(InHands) /\ Cardinality(InHands) \in Nat
  /\ IsFiniteSet(Writing) /\ Cardinality(Writing) \in Nat
  /\ IsFiniteSet(InQueues) /\ Cardinality(InQueues) \in Nat
<1>1. IsFiniteSet(GameThreads) /\ IsFiniteSet(Datas) /\ maxDataQueueSize \in Nat
  BY ManagerAssumption, SelfplayAssumption DEF ManagerAssumption, SelfplayAssumption
<1>2. IsFiniteSet(Datas \X (1..maxDataQueueSize))
  <2>1. IsFiniteSet(1..maxDataQueueSize)
    BY <1>1, FS_Interval
  <2> QED
    BY <1>1, <2>1, FS_Product
<1>3. /\ InHands \subseteq GameThreads /\ Writing \subseteq Datas
      /\ InQueues \subseteq Datas \X (1..maxDataQueueSize)
  BY DEF InHands, Writing, InQueues
<1> QED
  BY <1>1, <1>2, <1>3, FS_Subset, FS_CardinalityType

(* A removal leaves the queues and the threads of the models as they are.                   *)
LEMMA RemovalSpares ==
  ASSUME NEW models \in Seq(Datas), NEW datas \in [Datas -> Models], NEW doomed \in SUBSET ToSet(models),
         \A d \in ToSet(models) : datas[d].hasDataWriteLoop,
         StartRemoval(models, datas, doomed), NEW d \in Datas
  PROVE  /\ data'[d].queued = datas[d].queued /\ data'[d].alive = datas[d].alive
         /\ data'[d].writeLoop = datas[d].writeLoop
<1>1. d \notin doomed => data'[d] = datas[d]
  BY DEF StartRemoval
<1>2. d \in doomed => data'[d] = [datas[d] EXCEPT !.readOnly = TRUE]
  BY DEF StartRemoval
<1> QED
  BY <1>1, <1>2 DEF Models

(* A step that leaves the queues and the games alone.                                       *)
LEMMA GamesKept ==
  ASSUME GamesInv,
         \A d \in Datas : /\ data'[d].queued = data[d].queued /\ data'[d].alive = data[d].alive
                          /\ data'[d].writeLoop = data[d].writeLoop,
         InHands' = InHands, UNCHANGED <<numFinished, numWritten, numDataWriteLoopsActive>>,
         main' = "load" => main = "load" /\ loader' = loader,
         main' \in {"wait", "quit"} => loader' = "end",
         main' = "quit" => modelDatas' = <<>> /\ numDataWriteLoopsActive = 0
  PROVE  GamesInv'
<1>1. InQueues' = InQueues /\ Writing' = Writing
  BY DEF InQueues, Writing
<1>2. QueueInv'
  BY DEF GamesInv, QueueInv
<1>3. LoopsInv'
  BY <1>1 DEF GamesInv, LoopsInv
<1>4. NoGameIsLost'
  BY <1>1 DEF GamesInv, NoGameIsLost
<1> QED
  BY <1>2, <1>3, <1>4 DEF GamesInv

(* The model that is loaded starts with an empty queue and a thread of its own.             *)
LEMMA LoadKeepsGames ==
  ASSUME Inv, GamesInv, NEW d \in Datas, NEW name \in Names, LoadModel(d, name, TRUE),
         ~data[d].alive, data[d].writeLoop = "none", InHands' = InHands, UNCHANGED numFinished,
         main' \notin {"load", "wait", "quit"}
  PROVE  GamesInv'
<1> DEFINE m == [Free EXCEPT !.alive = TRUE, !.modelName = name, !.hasDataWriteLoop = TRUE, !.writeLoop = "pop"]
           models == Append(modelDatas, d)
           datas == [data EXCEPT ![d] = m]
           doomed == Unused(models, datas)
<1>1. /\ StartRemoval(models, datas, doomed) /\ MutexIsFree
      /\ numDataWriteLoopsActive' = numDataWriteLoopsActive + 1 /\ numWritten' = numWritten
  BY DEF LoadModel
<1>2. /\ modelDatas \in Seq(Datas) /\ data \in [Datas -> Models] /\ NoRepeats(modelDatas)
      /\ d \notin ToSet(modelDatas)
  BY DEF Inv, Types, ListInv
<1>3. models \in Seq(Datas) /\ ToSet(models) = ToSet(modelDatas) \cup {d} /\ NoRepeats(models)
      /\ models # <<>>
  BY <1>2, Appended
<1>4. m \in Models /\ m.queued = 0 /\ m.alive /\ m.writeLoop = "pop" /\ m.hasDataWriteLoop
  BY <1>2, ModelUpdates DEF Free
<1> HIDE DEF m, models
<1>5. datas \in [Datas -> Models] /\ datas[d] = m /\ \A e \in Datas \ {d} : datas[e] = data[e]
  BY <1>2, <1>4
<1> HIDE DEF datas
<1>6. doomed \subseteq ToSet(models)
  BY <1>3, InFront DEF Unused
<1> HIDE DEF doomed
<1>7. \A e \in ToSet(models) : datas[e].hasDataWriteLoop
  BY <1>1, <1>2, <1>3, <1>4, <1>5, ListedAreOpen, Elements
<1>8. \A e \in Datas : /\ data'[e].queued = datas[e].queued /\ data'[e].alive = datas[e].alive
                       /\ data'[e].writeLoop = datas[e].writeLoop
  BY <1>1, <1>3, <1>5, <1>6, <1>7, RemovalSpares
<1>9. data[d].queued = 0
  BY ManagerAssumption DEF GamesInv, QueueInv, ManagerAssumption
<1>10. \A e \in Datas : data'[e].queued = data[e].queued
  BY <1>4, <1>5, <1>8, <1>9
<1>11. QueueInv'
  BY <1>4, <1>5, <1>8, <1>9, <1>10 DEF GamesInv, QueueInv
<1>12. InQueues' = InQueues
  BY <1>10 DEF InQueues
<1>13. Writing' = Writing \cup {d} /\ d \notin Writing
  BY <1>4, <1>5, <1>8 DEF Writing
<1>14. Cardinality(Writing') = Cardinality(Writing) + 1
  BY <1>13, Finite, FS_AddElement
<1>15. LoopsInv'
  BY <1>1, <1>14 DEF GamesInv, LoopsInv
<1>16. NoGameIsLost'
  BY <1>1, <1>12 DEF GamesInv, NoGameIsLost
<1> QED
  BY <1>1, <1>11, <1>15, <1>16 DEF GamesInv

(* A game thread finishes a game, hands it over to the queue of the net it holds, which is   *)
(* open and whose thread still waits for games, or leaves the games alone.                   *)
LEMMA GameLoopKeepsGames ==
  ASSUME Inv, GamesInv, NEW t \in GameThreads, GameLoop(t)
  PROVE  GamesInv'
<1> DEFINE eval == nnEval[t]
<1>1. /\ modelDatas \in Seq(Datas) /\ data \in [Datas -> Models] /\ game \in [GameThreads -> GamePcs]
      /\ numFinished \in Nat /\ numWritten \in Nat
  BY DEF Inv, Types, GamesInv
<1>2. UNCHANGED <<main, loader>> /\ main = "join"
  <2>1. UNCHANGED <<main, loader>> /\ game[t] \notin {"unborn", "end"} /\ Running
    BY DEF GameLoop, QuitGames, AcquireLatest, StartGame, CheckForNewNNEval, SwitchNNEval, FinishGame,
           InterruptGame, FindQueue, EnqueueDataToWrite, ReleaseNet, GameStep
  <2> QED
    BY <2>1, Playing DEF Running
<1>3. ASSUME NEW to \in GamePcs, game' = [game EXCEPT ![t] = to]
      PROVE  InHands' = IF to \in {"push", "room"} THEN InHands \cup {t} ELSE InHands \ {t}
  BY <1>1, <1>3 DEF InHands
<1>4. t \in InHands <=> game[t] \in {"push", "room"}
  BY DEF InHands
<1>5. CASE QuitGames(t) \/ StartGame(t) \/ InterruptGame(t) \/ FindQueue(t)
  <2>1. UNCHANGED <<modelDatas, data, numFinished, numWritten, numDataWriteLoopsActive>>
    BY <1>5 DEF QuitGames, StartGame, InterruptGame, FindQueue, manager
  <2>2. PICK to \in GamePcs : /\ game' = [game EXCEPT ![t] = to]
                              /\ to \in {"push", "room"} <=> game[t] \in {"push", "room"}
    BY <1>5 DEF QuitGames, StartGame, InterruptGame, FindQueue, GameStep, GamePcs
  <2>3. InHands' = InHands
    BY <1>3, <1>4, <2>2
  <2> QED
    BY <1>2, <2>1, <2>3, GamesKept
<1>6. CASE AcquireLatest(t) \/ CheckForNewNNEval(t)
  <2>1. /\ Acquire(Latest)
        /\ UNCHANGED <<modelDatas, numFinished, numWritten, numDataWriteLoopsActive>>
    BY <1>6 DEF AcquireLatest, CheckForNewNNEval, Acquire
  <2>2. PICK to \in GamePcs : /\ game' = [game EXCEPT ![t] = to]
                              /\ to \notin {"push", "room"} /\ game[t] \notin {"push", "room"}
    BY <1>6 DEF AcquireLatest, CheckForNewNNEval, GameStep, GamePcs
  <2>3. InHands' = InHands
    BY <1>3, <1>4, <2>2
  <2>4. ASSUME NEW d \in Datas
        PROVE  /\ data'[d].queued = data[d].queued /\ data'[d].alive = data[d].alive
               /\ data'[d].writeLoop = data[d].writeLoop
    BY <1>1, <2>1 DEF Acquire, Models
  <2> QED
    BY <1>2, <2>1, <2>3, <2>4, GamesKept
<1>7. CASE SwitchNNEval(t) \/ ReleaseNet(t)
  <2>1. Release(eval) /\ eval \in ToSet(modelDatas) /\ UNCHANGED numFinished
    BY <1>7 DEF SwitchNNEval, ReleaseNet, GameStep, Inv, GameInv, CountInv
  <2>2. PICK to \in GamePcs : /\ game' = [game EXCEPT ![t] = to]
                              /\ to \notin {"push", "room"} /\ game[t] \notin {"push", "room"}
    BY <1>7 DEF SwitchNNEval, ReleaseNet, GameStep, GamePcs
  <2>3. InHands' = InHands
    BY <1>3, <1>4, <2>2
  <2> DEFINE datas == [data EXCEPT ![eval].acquireCount = @ - 1]
             doomed == Unused(modelDatas, datas)
  <2>4. StartRemoval(modelDatas, datas, doomed) /\ MutexIsFree /\ UNCHANGED <<numWritten, numDataWriteLoopsActive>>
    BY <2>1 DEF Release
  <2>5. /\ datas \in [Datas -> Models]
        /\ \A d \in Datas : /\ datas[d].queued = data[d].queued /\ datas[d].alive = data[d].alive
                            /\ datas[d].writeLoop = data[d].writeLoop
                            /\ datas[d].hasDataWriteLoop = data[d].hasDataWriteLoop
    <3>1. eval \in Datas /\ data[eval] \in Models
      BY <1>1, <2>1, Elements
    <3>2. data[eval].acquireCount - 1 \in Int
      BY <3>1 DEF Models
    <3> DEFINE m == [data[eval] EXCEPT !.acquireCount = data[eval].acquireCount - 1]
    <3>3. m \in Models
      BY <3>1, <3>2, ModelUpdates
    <3>4. /\ m.queued = data[eval].queued /\ m.alive = data[eval].alive
          /\ m.writeLoop = data[eval].writeLoop /\ m.hasDataWriteLoop = data[eval].hasDataWriteLoop
      BY <3>1 DEF Models
    <3>5. datas = [data EXCEPT ![eval] = m]
      BY <1>1, <3>1
    <3> HIDE DEF m, datas
    <3> QED
      BY <1>1, <3>1, <3>3, <3>4, <3>5
  <2> HIDE DEF datas
  <2>6. doomed \in SUBSET ToSet(modelDatas)
    <3>1. modelDatas # <<>> /\ NoRepeats(modelDatas)
      BY <1>2 DEF Inv, ListInv
    <3> QED
      BY <1>1, <3>1, InFront DEF Unused
  <2> HIDE DEF doomed
  <2>7. \A d \in ToSet(modelDatas) : datas[d].hasDataWriteLoop
    BY <1>1, <2>4, <2>5, ListedAreOpen, Elements
  <2>8. ASSUME NEW d \in Datas
        PROVE  /\ data'[d].queued = data[d].queued /\ data'[d].alive = data[d].alive
               /\ data'[d].writeLoop = data[d].writeLoop
    BY <1>1, <2>4, <2>5, <2>6, <2>7, RemovalSpares
  <2> QED
    BY <1>2, <2>1, <2>3, <2>4, <2>8, GamesKept
<1>8. CASE FinishGame(t)
  <2>1. /\ UNCHANGED <<modelDatas, data, numWritten, numDataWriteLoopsActive>> /\ numFinished' = numFinished + 1
        /\ game[t] = "play" /\ game' = [game EXCEPT ![t] = "push"]
    BY <1>8 DEF FinishGame, manager, GameStep
  <2>2. InHands' = InHands \cup {t} /\ t \notin InHands
    BY <1>3, <1>4, <2>1 DEF GamePcs
  <2>3. Cardinality(InHands') = Cardinality(InHands) + 1
    BY <2>2, Finite, FS_AddElement
  <2>4. InQueues' = InQueues /\ Writing' = Writing
    BY <2>1 DEF InQueues, Writing
  <2>5. QueueInv' /\ LoopsInv'
    BY <1>2, <2>1, <2>4 DEF GamesInv, QueueInv, LoopsInv
  <2>6. NoGameIsLost'
    BY <1>1, <2>1, <2>3, <2>4, Finite DEF GamesInv, NoGameIsLost
  <2> QED
    BY <1>1, <2>1, <2>5, <2>6 DEF GamesInv
<1>9. CASE EnqueueDataToWrite(t)
  <2>1. Push(eval) /\ UNCHANGED numFinished /\ game[t] = "room" /\ game' = [game EXCEPT ![t] = "release"]
    BY <1>9 DEF EnqueueDataToWrite, GameStep
  <2>2. eval # NoModel /\ eval \in ToSet(modelDatas) \ removing
    BY <2>1 DEF Inv, GameInv, CountInv
  <2>3. /\ eval \in Datas /\ data[eval] \in Models /\ data[eval].alive /\ ~data[eval].readOnly
        /\ data[eval].writeLoop = "pop"
    BY <1>1, <2>2, Elements DEF Inv, ListInv
  <2> DEFINE m == [data[eval] EXCEPT !.queued = data[eval].queued + 1]
  <2>4. /\ data' = [data EXCEPT ![eval] = m] /\ data[eval].queued < maxDataQueueSize
        /\ UNCHANGED <<modelDatas, removing, numDataWriteLoopsActive, numWritten>>
    BY <1>1, <2>1, <2>3 DEF Push
  <2>5. m.queued = data[eval].queued + 1 /\ m.alive /\ m.writeLoop = "pop"
    BY <2>3 DEF Models
  <2> HIDE DEF m
  <2>6. data'[eval] = m /\ \A d \in Datas \ {eval} : data'[d] = data[d]
    BY <1>1, <2>3, <2>4
  <2>7. QueueInv'
    <3>1. data[eval].queued \in 0..maxDataQueueSize /\ maxDataQueueSize \in Nat
      BY <2>3, ManagerAssumption DEF GamesInv, QueueInv, ManagerAssumption
    <3>2. m.queued \in 0..maxDataQueueSize
      BY <2>4, <2>5, <3>1
    <3> QED
      BY <2>5, <2>6, <3>2 DEF GamesInv, QueueInv
  <2>8. Cardinality(InQueues') = Cardinality(InQueues) + 1
    <3>1. PICK f : f = Queue
      OBVIOUS
    <3>2. PICK g : g = Queue'
      OBVIOUS
    <3>3. f \in Lengths /\ InQueues = Places(f)
      BY <3>1, Queues DEF GamesInv
    <3>4. g \in Lengths /\ InQueues' = Places(g)
      <4>1. (QueueInv => Queue \in Lengths /\ InQueues = Places(Queue))'
        BY Queues, PTL
      <4> QED
        BY <2>7, <3>2, <4>1 DEF Places
    <3>5. g[eval] = f[eval] + 1 /\ \A d \in Datas \ {eval} : g[d] = f[d]
      BY <2>3, <2>5, <2>6, <3>1, <3>2 DEF Queue
    <3> QED
      BY <2>3, <3>3, <3>4, <3>5, OneMorePlace
  <2>9. InHands' = InHands \ {t} /\ t \in InHands
    BY <1>3, <1>4, <2>1 DEF GamePcs
  <2>10. Cardinality(InHands') = Cardinality(InHands) - 1
    BY <2>9, Finite, FS_RemoveElement
  <2>11. Writing' = Writing
    BY <2>3, <2>5, <2>6 DEF Writing
  <2>12. LoopsInv'
    BY <1>2, <2>4, <2>11 DEF GamesInv, LoopsInv
  <2>13. NoGameIsLost'
    BY <1>1, <2>1, <2>4, <2>8, <2>10, Finite DEF GamesInv, NoGameIsLost
  <2> QED
    BY <1>1, <2>1, <2>4, <2>7, <2>12, <2>13 DEF GamesInv
<1> QED
  BY <1>5, <1>6, <1>7, <1>8, <1>9 DEF GameLoop

(* The thread of a model takes a game out of the queue to write it, or is counted out; a     *)
(* model is deleted only after its queue was found empty.                                    *)
LEMMA WriteLoopKeepsGames ==
  ASSUME Inv, GamesInv, NEW d \in Datas, WriteLoop(d), UNCHANGED threads
  PROVE  GamesInv'
<1>1. data \in [Datas -> Models] /\ data[d] \in Models /\ numWritten \in Nat /\ numFinished \in Nat
  BY DEF Inv, Types, GamesInv
<1>2. UNCHANGED <<modelDatas, game, main, loader, numFinished>>
  BY DEF WriteLoop, WriteGame, EndOfGames, AwaitRemoval, DeleteModel, WriteLoopEnds, AtWriteLoop, threads
<1>3. InHands' = InHands
  BY <1>2 DEF InHands
<1>4. data[d].writeLoop # "none" /\ main # "load" /\ main # "quit"
  <2>1. data[d].writeLoop # "none"
    BY DEF WriteLoop, WriteGame, EndOfGames, AwaitRemoval, DeleteModel, WriteLoopEnds, AtWriteLoop
  <2>2. Writing # {}
    BY <2>1 DEF Writing
  <2>3. Cardinality(Writing) # 0
    BY <2>2, Finite, FS_EmptySet
  <2> QED
    BY <2>1, <2>2, <2>3 DEF GamesInv, LoopsInv
<1>5. ASSUME NEW m, data' = [data EXCEPT ![d] = m], m.queued = data[d].queued,
             m.queued > 0 => m.alive /\ m.writeLoop = "pop",
             m.writeLoop # "none", UNCHANGED <<numWritten, numDataWriteLoopsActive>>
      PROVE  GamesInv'
  <2>1. data'[d] = m /\ \A e \in Datas \ {d} : data'[e] = data[e]
    BY <1>1, <1>5
  <2>2. InQueues' = InQueues /\ Writing' = Writing
    BY <1>4, <1>5, <2>1 DEF InQueues, Writing
  <2>3. QueueInv'
    BY <1>5, <2>1 DEF GamesInv, QueueInv
  <2>4. LoopsInv' /\ NoGameIsLost'
    BY <1>2, <1>3, <1>5, <2>2 DEF GamesInv, LoopsInv, NoGameIsLost
  <2> QED
    BY <1>1, <1>2, <1>5, <2>3, <2>4 DEF GamesInv
<1>6. CASE WriteGame(d)
  <2> DEFINE m == [data[d] EXCEPT !.queued = data[d].queued - 1]
  <2>1. /\ data' = [data EXCEPT ![d] = m] /\ data[d].queued > 0 /\ numWritten' = numWritten + 1
        /\ UNCHANGED numDataWriteLoopsActive
    BY <1>1, <1>6 DEF WriteGame
  <2>2. m.queued = data[d].queued - 1 /\ m.alive = data[d].alive /\ m.writeLoop = data[d].writeLoop
    BY <1>1 DEF Models
  <2> HIDE DEF m
  <2>3. data'[d] = m /\ \A e \in Datas \ {d} : data'[e] = data[e]
    BY <1>1, <2>1
  <2>4. /\ data[d].queued \in 0..maxDataQueueSize /\ data[d].alive /\ data[d].writeLoop = "pop"
        /\ maxDataQueueSize \in Nat
    BY <2>1, ManagerAssumption DEF GamesInv, QueueInv, ManagerAssumption
  <2>5. m.queued \in 0..maxDataQueueSize
    BY <2>1, <2>2, <2>4
  <2>6. QueueInv'
    BY <2>2, <2>3, <2>4, <2>5 DEF GamesInv, QueueInv
  <2>7. Cardinality(InQueues) = Cardinality(InQueues') + 1 /\ Cardinality(InQueues') \in Nat
    <3>1. PICK f : f = Queue
      OBVIOUS
    <3>2. PICK g : g = Queue'
      OBVIOUS
    <3>3. f \in Lengths /\ InQueues = Places(f)
      BY <3>1, Queues DEF GamesInv
    <3>4. g \in Lengths /\ InQueues' = Places(g)
      <4>1. (QueueInv => Queue \in Lengths /\ InQueues = Places(Queue))'
        BY Queues, PTL
      <4> QED
        BY <2>6, <3>2, <4>1 DEF Places
    <3>5. f[d] = g[d] + 1 /\ \A e \in Datas \ {d} : f[e] = g[e]
      BY <2>2, <2>3, <2>4, <3>1, <3>2 DEF Queue
    <3> QED
      BY <3>3, <3>4, <3>5, OneMorePlace
  <2>8. Writing' = Writing
    BY <2>2, <2>3 DEF Writing
  <2>9. LoopsInv'
    BY <1>2, <2>1, <2>8 DEF GamesInv, LoopsInv
  <2>10. NoGameIsLost'
    BY <1>1, <1>2, <1>3, <2>1, <2>7, Finite DEF GamesInv, NoGameIsLost
  <2> QED
    BY <1>1, <1>2, <2>1, <2>6, <2>9, <2>10 DEF GamesInv
<1>7. CASE EndOfGames(d)
  <2> DEFINE m == [data[d] EXCEPT !.writeLoop = "flushed"]
  <2>1. /\ data' = [data EXCEPT ![d] = m] /\ data[d].queued = 0
        /\ UNCHANGED <<numWritten, numDataWriteLoopsActive>>
    BY <1>7 DEF EndOfGames, AtWriteLoop
  <2>2. m.queued = 0 /\ m.writeLoop = "flushed"
    BY <1>1, <2>1 DEF Models
  <2> HIDE DEF m
  <2>3. ~(m.queued > 0)
    BY <2>2
  <2> QED
    BY <1>5, <2>1, <2>2, <2>3
<1>8. CASE AwaitRemoval(d)
  <2> DEFINE m == [data[d] EXCEPT !.writeLoop = "delete"]
  <2>1. /\ data' = [data EXCEPT ![d] = m] /\ data[d].writeLoop = "flushed"
        /\ UNCHANGED <<numWritten, numDataWriteLoopsActive>>
    BY <1>8 DEF AwaitRemoval, AtWriteLoop
  <2>2. m.queued = data[d].queued /\ m.writeLoop = "delete"
    BY <1>1 DEF Models
  <2>3. data[d].queued = 0
    BY <2>1 DEF GamesInv, QueueInv
  <2> HIDE DEF m
  <2>4. ~(m.queued > 0)
    BY <2>2, <2>3
  <2> QED
    BY <1>5, <2>1, <2>2, <2>3, <2>4
<1>9. CASE DeleteModel(d)
  <2> DEFINE m == [Free EXCEPT !.writeLoop = "deleted"]
  <2>1. /\ data' = [data EXCEPT ![d] = m] /\ data[d].writeLoop = "delete"
        /\ UNCHANGED <<numWritten, numDataWriteLoopsActive>>
    BY <1>9 DEF DeleteModel
  <2>2. m.queued = 0 /\ m.writeLoop = "deleted"
    BY DEF Free
  <2>3. data[d].queued = 0
    BY <2>1 DEF GamesInv, QueueInv
  <2> HIDE DEF m
  <2>4. ~(m.queued > 0)
    BY <2>2, <2>3
  <2> QED
    BY <1>5, <2>1, <2>2, <2>3, <2>4
<1>10. CASE WriteLoopEnds(d)
  <2>1. /\ data' = [data EXCEPT ![d] = Free] /\ data[d].writeLoop = "deleted"
        /\ numDataWriteLoopsActive' = numDataWriteLoopsActive - 1 /\ UNCHANGED numWritten
    BY <1>10 DEF WriteLoopEnds
  <2>2. Free.queued = 0 /\ Free.writeLoop = "none"
    BY DEF Free
  <2>3. data[d].queued = 0
    BY <2>1 DEF GamesInv, QueueInv
  <2>4. data'[d].queued = 0 /\ data'[d].writeLoop = "none" /\ \A e \in Datas \ {d} : data'[e] = data[e]
    BY <1>1, <2>1, <2>2
  <2>5. InQueues' = InQueues
    BY <2>3, <2>4 DEF InQueues
  <2>6. Writing' = Writing \ {d} /\ d \in Writing
    BY <1>4, <2>4 DEF Writing
  <2>7. Cardinality(Writing') = Cardinality(Writing) - 1
    BY <2>6, Finite, FS_RemoveElement
  <2>8. QueueInv'
    BY <2>3, <2>4 DEF GamesInv, QueueInv
  <2>9. LoopsInv'
    BY <1>2, <1>4, <2>1, <2>7 DEF GamesInv, LoopsInv
  <2>10. NoGameIsLost'
    BY <1>2, <1>3, <2>1, <2>5 DEF GamesInv, NoGameIsLost
  <2> QED
    BY <1>1, <1>2, <2>1, <2>8, <2>9, <2>10 DEF GamesInv
<1> QED
  BY <1>6, <1>7, <1>8, <1>9, <1>10 DEF WriteLoop

(* The main thread, the one that loads and the one that removes: the program ends only when  *)
(* no model is listed and no thread of one runs.                                             *)
LEMMA OthersKeepGames ==
  ASSUME Inv, GamesInv,
         Main \/ LoadLoop \/ Signal \/ (EndRemoval /\ UNCHANGED threads) \/ UNCHANGED vars
  PROVE  GamesInv'
<1>1. modelDatas \in Seq(Datas) /\ data \in [Datas -> Models]
  BY DEF Inv, Types
<1>2. ASSUME game' = game
      PROVE  InHands' = InHands
  BY <1>2 DEF InHands
<1>3. CASE Signal \/ JoinGames \/ Quit \/ QuitLoading \/ UNCHANGED vars
  <2>1. UNCHANGED <<data, game, numFinished, numWritten, numDataWriteLoopsActive, modelDatas>>
    BY <1>3 DEF Signal, JoinGames, Quit, QuitLoading, vars, threads, manager
  <2>2. /\ main' = "load" => main = "load" /\ loader' = loader
        /\ main' \in {"wait", "quit"} => loader' = "end"
        /\ main' = "quit" => modelDatas' = <<>> /\ numDataWriteLoopsActive = 0
    BY <1>3 DEF Signal, JoinGames, Quit, QuitLoading, Destroyed, vars, threads, manager, GamesInv, LoopsInv
  <2> QED
    BY <1>2, <2>1, <2>2, GamesKept
<1>4. CASE DeleteManager
  <2>1. /\ StartRemoval(modelDatas, data, ToSet(modelDatas)) /\ MutexIsFree
        /\ UNCHANGED <<game, numFinished, numWritten, numDataWriteLoopsActive, loader>>
        /\ main' = "wait" /\ loader = "end"
    BY <1>4 DEF DeleteManager, Destroy
  <2>2. ASSUME NEW d \in Datas
        PROVE  /\ data'[d].queued = data[d].queued /\ data'[d].alive = data[d].alive
               /\ data'[d].writeLoop = data[d].writeLoop
    BY <1>1, <2>1, ListedAreOpen, RemovalSpares
  <2> QED
    BY <1>2, <2>1, <2>2, GamesKept
<1>5. CASE EndRemoval /\ UNCHANGED threads
  <2>1. /\ UNCHANGED <<data, game, numFinished, numWritten, numDataWriteLoopsActive, main, loader>>
        /\ DOMAIN modelDatas # {}
    BY <1>5 DEF EndRemoval, threads
  <2>2. modelDatas # <<>>
    BY <2>1
  <2> QED
    BY <1>2, <2>1, <2>2, GamesKept DEF GamesInv, LoopsInv
<1>6. CASE \E d \in Datas, name \in Names : LoadFirst(d, name)
  <2>1. PICK d \in Datas, name \in Names : LoadFirst(d, name)
    BY <1>6
  <2>2. /\ LoadModel(d, name, TRUE) /\ ~data[d].alive /\ main = "load" /\ main' = "join"
        /\ game' = [t \in GameThreads |-> "top"] /\ UNCHANGED numFinished
    BY <2>1 DEF LoadFirst
  <2>3. data[d].writeLoop = "none"
    BY <2>2 DEF GamesInv, LoopsInv, Writing
  <2>4. InHands' = InHands
    BY <2>2 DEF InHands, Inv, GameInv
  <2> QED
    BY <2>2, <2>3, <2>4, LoadKeepsGames
<1>7. CASE \E d \in Datas, name \in Names : LoadNewer(d, name)
  <2>1. PICK d \in Datas, name \in Names : LoadNewer(d, name)
    BY <1>7
  <2>2. /\ UNCHANGED <<game, numFinished, loader>> /\ loader = "poll" /\ ~data[d].alive
        /\ data[d].writeLoop = "none"
    BY <2>1 DEF LoadNewer
  <2>3. main \notin {"load", "wait", "quit"}
    BY <2>2 DEF GamesInv, LoopsInv
  <2>4. CASE LoadModel(d, name, TRUE) /\ UNCHANGED main
    BY <1>2, <2>2, <2>3, <2>4, LoadKeepsGames
  <2>5. CASE main' = "aborted" /\ UNCHANGED manager
    BY <1>2, <2>2, <2>5, GamesKept DEF manager
  <2> QED
    BY <2>1, <2>4, <2>5 DEF LoadNewer
<1> QED
  BY <1>3, <1>4, <1>5, <1>6, <1>7 DEF Main, LoadLoop

(* No game is finished yet.                                                                  *)
LEMMA InitGamesInv == Init => GamesInv
<1> SUFFICES ASSUME Init
             PROVE  GamesInv
  OBVIOUS
<1>1. \A d \in Datas : data[d].queued = 0 /\ data[d].writeLoop = "none"
  BY DEF Init, ManagerInit, Free
<1>2. InHands = {} /\ Writing = {} /\ InQueues = {}
  <2>1. InHands = {} /\ Writing = {}
    BY <1>1 DEF Init, InHands, Writing
  <2>2. \A i \in 1..maxDataQueueSize : ~(i <= 0)
    BY ManagerAssumption DEF ManagerAssumption
  <2> QED
    BY <1>1, <2>1, <2>2 DEF InQueues
<1>3. Cardinality({}) = 0
  BY FS_EmptySet
<1>4. QueueInv
  BY <1>1, ManagerAssumption DEF QueueInv, ManagerAssumption
<1>5. LoopsInv /\ NoGameIsLost /\ numFinished = 0 /\ numWritten = 0
  BY <1>2, <1>3 DEF Init, ManagerInit, LoopsInv, NoGameIsLost
<1> QED
  BY <1>4, <1>5 DEF GamesInv

(* Every game is accounted for in every run.                                                 *)
LEMMA GamesInvariance == Spec => []GamesInv
<1>1. Inv /\ GamesInv /\ [Next]_vars => GamesInv'
  <2> SUFFICES ASSUME Inv, GamesInv, [Next]_vars
               PROVE  GamesInv'
    OBVIOUS
  <2>1. CASE Main \/ LoadLoop \/ Signal \/ (EndRemoval /\ UNCHANGED threads) \/ UNCHANGED vars
    BY <2>1, OthersKeepGames
  <2>2. CASE \E t \in GameThreads : GameLoop(t)
    BY <2>2, GameLoopKeepsGames
  <2>3. CASE Threads /\ UNCHANGED threads
    BY <2>3, WriteLoopKeepsGames DEF Threads
  <2> QED
    BY <2>1, <2>2, <2>3 DEF Next, WriteLoops, Stopped
<1> QED
  BY <1>1, InitGamesInv, Invariance, PTL DEF Spec

(* No finished game is lost: it is in the hands of its thread, in a queue, or written, also  *)
(* when its net was told that no more games come, removed or deleted meanwhile.              *)
THEOREM GamesAreNotLost == Spec => []NoGameIsLost
<1>1. GamesInv => NoGameIsLost
  BY DEF GamesInv
<1> QED
  BY <1>1, GamesInvariance, PTL

(* The program that quits has written every game that was finished: the main thread has      *)
(* waited for the threads of all models, which found their queues empty.                     *)
THEOREM AllGamesAreWritten == Spec => [](main = "quit" => numWritten = numFinished)
<1>1. Inv /\ GamesInv => (main = "quit" => numWritten = numFinished)
  <2> SUFFICES ASSUME Inv, GamesInv, main = "quit"
               PROVE  numWritten = numFinished
    OBVIOUS
  <2>1. InHands = {}
    BY DEF Inv, GameInv, InHands
  <2>2. Writing = {}
    BY Finite, FS_EmptySet DEF GamesInv, LoopsInv
  <2>3. InQueues = {}
    <3>1. \A d \in Datas : data[d].queued = 0 /\ maxDataQueueSize \in Nat
      BY <2>2, ManagerAssumption DEF GamesInv, QueueInv, Writing, ManagerAssumption
    <3>2. \A d \in Datas, i \in 1..maxDataQueueSize : ~(i <= data[d].queued)
      BY <3>1
    <3> QED
      BY <3>2 DEF InQueues
  <2>4. Cardinality({}) = 0
    BY FS_EmptySet
  <2> QED
    BY <2>1, <2>3, <2>4 DEF GamesInv, NoGameIsLost
<1> QED
  BY <1>1, Invariance, GamesInvariance, PTL
=============================================================================
