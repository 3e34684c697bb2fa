-------------------------- MODULE Contribute_proofs --------------------------
(* Proofs about Contribute, for any number of threads, nets and matches: a game has its    *)
(* nets from the time that it is put together until it is over, although unused nets are     *)
(* unloaded while games are played; and the rating games and their nets are bounded,         *)
(* although whether one more is allowed is asked long before it starts.                       *)
EXTENDS Contribute, FiniteSetTheorems, SequenceTheorems, TLAPS

Managers == {"selfplay", "rating"}
Games == [isRatingGame : BOOLEAN, manager : [Sides -> Managers \cup {"none"}],
          nnEval : [Sides -> Datas \cup {NoModel}]]
Outside == {"top", "download", "downloading", "failed", "end"}
Before == {"query", "present", "unload", "unload_rating", "choose"}
Together == {"acquire_black", "acquire_white", "push"}

-------------------------------------------------------------------------------
(* A manager: the models that are listed and not about to leave the list are alive, and     *)
(* the rest of the memory is free.                                                           *)
Models == [alive : BOOLEAN, modelName : Names \cup {NoModel}, acquireCount : Nat,
           hasDataWriteLoop : {FALSE}, queued : {0}, readOnly : {FALSE}, writeLoop : {"none"}]
Gone == [alive |-> FALSE, modelName |-> NoModel, acquireCount |-> 0, hasDataWriteLoop |-> FALSE,
         queued |-> 0, readOnly |-> FALSE, writeLoop |-> "none"]

Fresh(name) == [Gone EXCEPT !.alive = TRUE, !.modelName = name, !.hasDataWriteLoop = FALSE,
                            !.writeLoop = IF FALSE THEN "pop" ELSE "none"]

NoRepeats(s) == \A i, j \in 1..Len(s) : s[i] = s[j] => i = j

Managed(models, datas, doomed) ==
  /\ models \in Seq(Datas) /\ NoRepeats(models) /\ doomed \in SUBSET ToSet(models)
  /\ datas \in [Datas -> Models]
  /\ \A d \in ToSet(models) \ doomed : datas[d].alive
  /\ \A d \in Datas : d \notin ToSet(models) \ doomed => datas[d] = Gone

ModelsOf(m) == IF m = "selfplay" THEN sModelDatas ELSE rModelDatas
DataOf(m) == IF m = "selfplay" THEN sData ELSE rData
RemovingOf(m) == IF m = "selfplay" THEN sRemoving ELSE rRemoving
ManagersInv == \A m \in Managers : Managed(ModelsOf(m), DataOf(m), RemovingOf(m))

Named(models, datas, name) == {d \in ToSet(models) : datas[d].modelName = name}

(* The elements of a sequence are the values at its places.                                *)
LEMMA Elements ==
  ASSUME NEW Elems, NEW s \in Seq(Elems)
  PROVE  /\ \A d : d \in ToSet(s) <=> \E i \in 1..Len(s) : s[i] = d
         /\ ToSet(s) \subseteq Elems /\ Len(s) \in Nat
BY DEF ToSet

(* Append adds a new element.                                                              *)
LEMMA Appended ==
  ASSUME NEW Elems, NEW s \in Seq(Elems), NEW d \in Elems, NoRepeats(s), d \notin ToSet(s)
  PROVE  /\ Append(s, d) \in Seq(Elems) /\ NoRepeats(Append(s, d))
         /\ ToSet(Append(s, d)) = ToSet(s) \cup {d}
         /\ Len(Append(s, d)) = Len(s) + 1
<1> DEFINE a == Append(s, d)
<1>1. a \in Seq(Elems) /\ Len(a) = Len(s) + 1 /\ a[Len(s) + 1] = d /\ \A i \in 1..Len(s) : a[i] = s[i]
  OBVIOUS
<1>2. Len(s) \in Nat /\ \A i \in 1..Len(s) : s[i] # d
  BY Elements
<1> HIDE DEF a
<1>3. NoRepeats(a)
  BY <1>1, <1>2 DEF NoRepeats
<1>4. ToSet(a) = ToSet(s) \cup {d}
  <2>1. ASSUME NEW x
        PROVE  x \in ToSet(a) <=> x \in ToSet(s) \/ x = d
    <3>1. x \in ToSet(a) <=> \E i \in 1..Len(a) : a[i] = x
      BY <1>1, Elements
    <3>2. x \in ToSet(s) <=> \E i \in 1..Len(s) : s[i] = x
      BY Elements
    <3> QED
      BY <1>1, <1>2, <3>1, <3>2
  <2> QED
    BY <2>1
<1> QED
  BY <1>1, <1>3, <1>4 DEF a

(* Erasing a place takes out its element.                                                   *)
LEMMA Removed ==
  ASSUME NEW Elems, NEW s \in Seq(Elems), NoRepeats(s), NEW k \in 1..Len(s)
  PROVE  /\ RemoveAt(s, k) \in Seq(Elems) /\ NoRepeats(RemoveAt(s, k))
         /\ ToSet(RemoveAt(s, k)) = ToSet(s) \ {s[k]}
         /\ Len(RemoveAt(s, k)) = Len(s) - 1
<1> DEFINE r == RemoveAt(s, k)
<1>1. Len(s) \in Nat /\ k \in Nat /\ 1 <= k /\ k <= Len(s)
  OBVIOUS
<1>2. /\ r \in Seq(Elems) /\ Len(r) = Len(s) - 1
      /\ \A i \in 1..Len(s) - 1 : r[i] = IF i < k THEN s[i] ELSE s[i + 1]
  <2> DEFINE p == SubSeq(s, 1, k - 1)
             q == SubSeq(s, k + 1, Len(s))
  <2>1. p \in Seq(Elems) /\ Len(p) = k - 1 /\ \A i \in 1..k - 1 : p[i] = s[i]
    BY <1>1
  <2>2. q \in Seq(Elems) /\ Len(q) = Len(s) - k /\ \A i \in 1..Len(s) - k : q[i] = s[i + k]
    BY <1>1
  <2>3. r = p \o q
    BY DEF RemoveAt
  <2> HIDE DEF p, q, r
  <2>4. r \in Seq(Elems) /\ Len(r) = Len(s) - 1
    <3>1. p \o q \in Seq(Elems) /\ Len(p \o q) = Len(p) + Len(q)
      BY <2>1, <2>2, ConcatProperties
    <3> QED
      BY <1>1, <2>1, <2>2, <2>3, <3>1
  <2>5. ASSUME NEW i \in 1..Len(s) - 1
        PROVE  r[i] = IF i < k THEN s[i] ELSE s[i + 1]
    <3>1. CASE i < k
      <4>1. i \in 1..Len(p) /\ i \in 1..k - 1
        BY <1>1, <2>1, <3>1
      <4> QED
        BY <2>1, <2>2, <2>3, <3>1, <4>1
    <3>2. CASE i >= k
      <4>1. i - (k - 1) \in 1..Len(s) - k /\ (i - (k - 1)) + k = i + 1
        BY <1>1, <3>2
      <4>2. r[i] = q[i - (k - 1)]
        BY <1>1, <2>1, <2>2, <2>3, <3>2
      <4>3. q[i - (k - 1)] = s[i + 1]
        BY <2>2, <4>1
      <4> QED
        BY <1>1, <3>2, <4>2, <4>3
    <3> QED
      BY <1>1, <3>1, <3>2
  <2> QED
    BY <2>4, <2>5
<1> HIDE DEF r
<1>3. NoRepeats(r)
  BY <1>1, <1>2 DEF NoRepeats
<1>4. ToSet(r) = ToSet(s) \ {s[k]}
  <2>1. ASSUME NEW x \in ToSet(r)
        PROVE  x \in ToSet(s) \ {s[k]}
    <3>1. PICK i \in 1..Len(s) - 1 : r[i] = x
      BY <1>2, Elements
    <3> QED
      BY <1>1, <1>2, <3>1, Elements DEF NoRepeats
  <2>2. ASSUME NEW x \in ToSet(s) \ {s[k]}
        PROVE  x \in ToSet(r)
    <3>1. PICK i \in 1..Len(s) : s[i] = x /\ i # k
      BY Elements
    <3>2. PICK j \in 1..Len(s) - 1 : r[j] = x
      <4>1. CASE i < k
        BY <1>1, <1>2, <3>1, <4>1
      <4>2. CASE i > k
        <5>1. i - 1 \in 1..Len(s) - 1 /\ ~(i - 1 < k) /\ (i - 1) + 1 = i
          BY <1>1, <3>1, <4>2
        <5> QED
          BY <1>2, <3>1, <5>1
      <4> QED
        BY <1>1, <3>1, <4>1, <4>2
    <3> QED
      BY <1>2, <3>2, Elements
  <2> QED
    BY <2>1, <2>2
<1> QED
  BY <1>2, <1>3, <1>4 DEF r
(* What is free is a model that is not there.                                               *)
LEMMA FreeModel == Gone \in Models /\ S!Free = Gone /\ R!Free = Gone
BY ContributeAssumption DEF Gone, Models, S!Free, R!Free

(* What is loaded.                                                                          *)
LEMMA FreshModel ==
  ASSUME NEW name
  PROVE  /\ name \in Names => Fresh(name) \in Models
         /\ Fresh(name).alive /\ Fresh(name).modelName = name /\ Fresh(name).acquireCount = 0
BY DEF Gone, Fresh, Models

(* A count that is changed by one.                                                          *)
LEMMA Recount ==
  ASSUME NEW models, NEW datas, NEW doomed, Managed(models, datas, doomed),
         NEW d \in ToSet(models) \ doomed, NEW n \in Nat,
         NEW after, after = [e \in Datas |-> after[e]],
         after[d] = [datas[d] EXCEPT !.acquireCount = n], \A e \in Datas \ {d} : after[e] = datas[e]
  PROVE  /\ Managed(models, after, doomed)
         /\ after[d].acquireCount = n
         /\ \A e \in Datas : /\ after[e].modelName = datas[e].modelName
                             /\ e # d => after[e] = datas[e]
<1>1. ToSet(models) \subseteq Datas /\ datas \in [Datas -> Models] /\ d \in Datas /\ datas[d] \in Models
  BY Elements DEF Managed
<1> DEFINE w == [datas[d] EXCEPT !.acquireCount = n]
<1>2. w \in Models /\ w.alive = datas[d].alive /\ w.modelName = datas[d].modelName /\ w.acquireCount = n
  BY <1>1 DEF Models
<1>3. after[d] = w
  OBVIOUS
<1> HIDE DEF w
<1>4. after \in [Datas -> Models] /\ after[d] = w /\ \A e \in Datas \ {d} : after[e] = datas[e]
  <2>1. \A e \in Datas : after[e] \in Models
    BY <1>1, <1>2, <1>3
  <2> QED
    BY <1>3, <2>1
<1>5. Managed(models, after, doomed)
  BY <1>1, <1>2, <1>4 DEF Managed
<1> QED
  BY <1>2, <1>4, <1>5

(* The models that nobody uses are unloaded, and leave the list later.                      *)
LEMMA Cleanup ==
  ASSUME NEW models, NEW datas, Managed(models, datas, {}), NEW doomed \in SUBSET ToSet(models),
         \A d \in doomed : datas[d].acquireCount = 0,
         NEW after, after = [d \in Datas |-> IF d \in doomed THEN Gone ELSE datas[d]]
  PROVE  /\ Managed(models, after, doomed)
         /\ \A d \in Datas : after[d].acquireCount = datas[d].acquireCount
<1>1. Managed(models, after, doomed)
  <2>1. /\ models \in Seq(Datas) /\ NoRepeats(models) /\ datas \in [Datas -> Models]
        /\ \A d \in ToSet(models) : datas[d].alive
        /\ \A d \in Datas : d \notin ToSet(models) => datas[d] = Gone
        /\ ToSet(models) \subseteq Datas
    BY Elements DEF Managed
  <2>2. after \in [Datas -> Models]
    BY <2>1, FreeModel
  <2> QED
    BY <2>1, <2>2 DEF Managed
<1>2. \A d \in Datas : after[d].acquireCount = datas[d].acquireCount
  BY DEF Gone
<1> QED
  BY <1>1, <1>2

(* One of them leaves the list, which loses no other.                                       *)
LEMMA Leaving ==
  ASSUME NEW models, NEW datas, NEW doomed, Managed(models, datas, doomed),
         NEW k \in 1..Len(models), models[k] \in doomed
  PROVE  /\ Managed(RemoveAt(models, k), datas, doomed \ {models[k]})
         /\ Len(RemoveAt(models, k)) = Len(models) - 1 /\ Len(models) \in Nat
         /\ \A name \in Names : Named(RemoveAt(models, k), datas, name) = Named(models, datas, name)
<1>1. models \in Seq(Datas) /\ NoRepeats(models) /\ ToSet(models) \subseteq Datas
  BY Elements DEF Managed
<1>2. /\ RemoveAt(models, k) \in Seq(Datas) /\ NoRepeats(RemoveAt(models, k))
      /\ ToSet(RemoveAt(models, k)) = ToSet(models) \ {models[k]}
      /\ Len(RemoveAt(models, k)) = Len(models) - 1 /\ Len(models) \in Nat
  BY <1>1, Removed, Elements
<1>3. Managed(RemoveAt(models, k), datas, doomed \ {models[k]})
  BY <1>2 DEF Managed
<1>4. \A name \in Names : datas[models[k]].modelName # name
  BY <1>1, ContributeAssumption DEF Managed, Gone, ContributeAssumption
<1> QED
  BY <1>2, <1>3, <1>4 DEF Named

(* A net is loaded into free memory.                                                        *)
Loads(models, datas, d, name, list, after) ==
  /\ Managed(models, datas, {}) /\ ~datas[d].alive /\ list = Append(models, d)
  /\ after \in [Datas -> Models] /\ after[d] = Fresh(name)
  /\ \A e \in Datas \ {d} : after[e] = datas[e]

(* It joins what is there.                                                                  *)
LEMMA Loading ==
  ASSUME NEW models, NEW datas, NEW d \in Datas, NEW name \in Names, NEW list, NEW after,
         Loads(models, datas, d, name, list, after)
  PROVE  /\ Managed(list, after, {}) /\ Len(list) = Len(models) + 1
         /\ \A e \in Datas : after[e].acquireCount = datas[e].acquireCount
         /\ ToSet(list) = ToSet(models) \cup {d} /\ d \notin ToSet(models) /\ ToSet(models) \subseteq Datas
<1>0. /\ Managed(models, datas, {}) /\ ~datas[d].alive /\ list = Append(models, d)
      /\ after \in [Datas -> Models] /\ after[d] = Fresh(name)
      /\ \A e \in Datas \ {d} : after[e] = datas[e]
  BY DEF Loads
<1>1. /\ models \in Seq(Datas) /\ NoRepeats(models) /\ d \notin ToSet(models)
      /\ datas \in [Datas -> Models] /\ datas[d] = Gone /\ ToSet(models) \subseteq Datas
  BY <1>0, Elements DEF Managed
<1>2. /\ list \in Seq(Datas) /\ NoRepeats(list) /\ ToSet(list) = ToSet(models) \cup {d}
      /\ Len(list) = Len(models) + 1
  BY <1>0, <1>1, Appended
<1>3. /\ Fresh(name) \in Models /\ Fresh(name).alive /\ Fresh(name).modelName = name
      /\ Fresh(name).acquireCount = 0
  BY FreshModel
<1>4. Managed(list, after, {})
  BY <1>0, <1>1, <1>2, <1>3 DEF Managed
<1>5. \A e \in Datas : after[e].acquireCount = datas[e].acquireCount
  BY <1>0, <1>1, <1>3 DEF Gone
<1> QED
  BY <1>1, <1>2, <1>4, <1>5

-------------------------------------------------------------------------------
(* The operators of the two instances are the same.                                         *)
LEMMA SameOperators ==
  \A s, i : /\ S!ToSet(s) = ToSet(s) /\ R!ToSet(s) = ToSet(s)
            /\ S!RemoveAt(s, i) = RemoveAt(s, i) /\ R!RemoveAt(s, i) = RemoveAt(s, i)
BY DEF S!ToSet, R!ToSet, ToSet, S!RemoveAt, R!RemoveAt, RemoveAt

(* The models of a manager by their name.                                                   *)
LEMMA NamedModels ==
  ASSUME NEW m \in Managers, NEW name
  PROVE  ModelsNamed(m, name) = Named(ModelsOf(m), DataOf(m), name)
BY SameOperators DEF ModelsNamed, S!ModelsNamed, R!ModelsNamed, Named, ModelsOf, DataOf, Managers

(* One manager has work; the other one is left alone.                                       *)
Only(m) == \A k \in Managers \ {m} : /\ ModelsOf(k)' = ModelsOf(k) /\ DataOf(k)' = DataOf(k)
                                      /\ RemovingOf(k)' = RemovingOf(k)

(* acquireModel counts one more user.                                                       *)
LEMMA AcquireStep ==
  ASSUME ManagersInv, NEW m \in Managers, NEW d \in ToSet(ModelsOf(m)), AcquireModel(m, d)
  PROVE  /\ ManagersInv' /\ RemovingOf(m) = {}
         /\ \A k \in Managers : ModelsOf(k)' = ModelsOf(k) /\ RemovingOf(k)' = RemovingOf(k)
         /\ \A k \in Managers, name \in Names : ModelsNamed(k, name)' = ModelsNamed(k, name)
         /\ \A k \in Managers, e \in Datas : DataOf(k)'[e].acquireCount =
              DataOf(k)[e].acquireCount + (IF k = m /\ e = d THEN 1 ELSE 0)
<1>1. /\ Managed(ModelsOf(m), DataOf(m), RemovingOf(m)) /\ DataOf(m) \in [Datas -> Models]
      /\ \A k \in Managers, e \in Datas : DataOf(k)[e].acquireCount \in Nat
  BY DEF ManagersInv, Managed, Models
<1>2. d \in Datas /\ DataOf(m)[d].acquireCount + 1 \in Nat
  BY <1>1, Elements DEF Managed
<1>3. /\ RemovingOf(m) = {} /\ DataOf(m)' = [DataOf(m) EXCEPT ![d].acquireCount = @ + 1]
      /\ \A k \in Managers : ModelsOf(k)' = ModelsOf(k) /\ RemovingOf(k)' = RemovingOf(k)
      /\ \A k \in Managers \ {m} : DataOf(k)' = DataOf(k)
  BY DEF AcquireModel, OnManager, S!Acquire, R!Acquire, S!MutexIsFree, R!MutexIsFree, Managers,
         ModelsOf, DataOf, RemovingOf, selfplay, rating
<1>4. PICK n \in Nat : n = DataOf(m)[d].acquireCount + 1
  BY <1>2
<1>5. PICK after : after = DataOf(m)'
  OBVIOUS
<1>6. /\ after = [e \in Datas |-> after[e]] /\ after[d] = [DataOf(m)[d] EXCEPT !.acquireCount = n]
      /\ \A e \in Datas \ {d} : after[e] = DataOf(m)[e]
  BY <1>1, <1>2, <1>3, <1>4, <1>5
<1>7. /\ \A k \in Managers : ModelsOf(k)' = ModelsOf(k) /\ RemovingOf(k)' = RemovingOf(k)
      /\ \A k \in Managers \ {m} : DataOf(k)' = DataOf(k)
  BY <1>3
<1>8. /\ Managed(ModelsOf(m), after, {}) /\ after[d].acquireCount = n
      /\ \A e \in Datas : /\ after[e].modelName = DataOf(m)[e].modelName
                          /\ e # d => after[e] = DataOf(m)[e]
  <2>1. Managed(ModelsOf(m), DataOf(m), {}) /\ d \in ToSet(ModelsOf(m)) \ {}
    BY <1>1, <1>3
  <2> QED
    BY <1>6, <2>1, Recount
<1>9. ManagersInv'
  BY <1>3, <1>5, <1>8 DEF ManagersInv
<1>10. ASSUME NEW k \in Managers, NEW name \in Names
      PROVE  ModelsNamed(k, name)' = ModelsNamed(k, name)
  <2>1. ModelsNamed(k, name)' = Named(ModelsOf(k)', DataOf(k)', name)
    BY SameOperators DEF ModelsNamed, S!ModelsNamed, R!ModelsNamed, Named, ModelsOf, DataOf, Managers
  <2>2. ToSet(ModelsOf(k)) \subseteq Datas
    BY Elements DEF ManagersInv, Managed
  <2> QED
    <3>1. CASE k = m
      BY <1>7, <1>5, <1>8, <2>1, <2>2, <3>1, NamedModels DEF Named
    <3>2. CASE k # m
      BY <1>3, <2>1, <3>2, NamedModels
    <3> QED
      BY <3>1, <3>2
<1>11. ASSUME NEW k \in Managers, NEW e \in Datas
       PROVE  DataOf(k)'[e].acquireCount =
                DataOf(k)[e].acquireCount + (IF k = m /\ e = d THEN 1 ELSE 0)
  <2>1. CASE k = m /\ e = d
    BY <1>4, <1>5, <1>8, <2>1
  <2>2. CASE k # m \/ e # d
    BY <1>1, <1>7, <1>5, <1>8, <2>2
  <2> QED
    BY <2>1, <2>2
<1> QED
  BY <1>3, <1>9, <1>10, <1>11

(* release counts one user less, and unloads nothing by itself.                             *)
LEMMA ReleaseStep ==
  ASSUME ManagersInv, NEW m \in Managers, NEW d \in ToSet(ModelsOf(m)) \ RemovingOf(m),
         DataOf(m)[d].acquireCount > 0, Release(m, d)
  PROVE  /\ ManagersInv'
         /\ \A k \in Managers : ModelsOf(k)' = ModelsOf(k) /\ RemovingOf(k)' = RemovingOf(k)
         /\ \A k \in Managers, name \in Names : ModelsNamed(k, name)' = ModelsNamed(k, name)
         /\ \A k \in Managers, e \in Datas : DataOf(k)'[e].acquireCount =
              DataOf(k)[e].acquireCount - (IF k = m /\ e = d THEN 1 ELSE 0)
<1>1. /\ Managed(ModelsOf(m), DataOf(m), RemovingOf(m)) /\ DataOf(m) \in [Datas -> Models]
      /\ \A k \in Managers, e \in Datas : DataOf(k)[e].acquireCount \in Nat
  BY DEF ManagersInv, Managed, Models
<1>2. d \in Datas /\ DataOf(m)[d].acquireCount - 1 \in Nat
  BY <1>1, Elements DEF Managed
<1> DEFINE less == [DataOf(m) EXCEPT ![d].acquireCount = @ - 1]
<1>3. less = [e \in Datas |-> less[e]]
  BY <1>1
<1>4. /\ RemovingOf(m) = {} /\ DataOf(m)' = [e \in Datas |-> less[e]]
      /\ \A k \in Managers : ModelsOf(k)' = ModelsOf(k) /\ RemovingOf(k)' = RemovingOf(k)
      /\ \A k \in Managers \ {m} : DataOf(k)' = DataOf(k)
  <2>1. CASE m = "selfplay"
    <3>0. d \in S!ToSet(sModelDatas)
      BY <2>1, SameOperators DEF ModelsOf
    <3>1. /\ sRemoving = {} /\ UNCHANGED rating
          /\ S!StartRemoval(sModelDatas, less, S!Unused(sModelDatas, less))
      BY <2>1, <3>0 DEF Release, OnManager, S!Release, S!MutexIsFree, ModelsOf, DataOf
    <3>2. S!Unused(sModelDatas, less) = {}
      BY DEF S!Unused
    <3> HIDE DEF less
    <3>3. sModelDatas' = sModelDatas /\ sRemoving' = {} /\ sData' = [e \in Datas |-> less[e]]
      BY <3>1, <3>2 DEF S!StartRemoval
    <3> QED
      BY <2>1, <3>1, <3>3 DEF Managers, ModelsOf, DataOf, RemovingOf, rating
  <2>2. CASE m = "rating"
    <3>0. d \in R!ToSet(rModelDatas)
      BY <2>2, SameOperators DEF ModelsOf
    <3>1. /\ rRemoving = {} /\ UNCHANGED selfplay
          /\ R!StartRemoval(rModelDatas, less, R!Unused(rModelDatas, less))
      BY <2>2, <3>0 DEF Release, OnManager, R!Release, R!MutexIsFree, ModelsOf, DataOf
    <3>2. R!Unused(rModelDatas, less) = {}
      BY DEF R!Unused
    <3> HIDE DEF less
    <3>3. rModelDatas' = rModelDatas /\ rRemoving' = {} /\ rData' = [e \in Datas |-> less[e]]
      BY <3>1, <3>2 DEF R!StartRemoval
    <3> QED
      BY <2>2, <3>1, <3>3 DEF Managers, ModelsOf, DataOf, RemovingOf, selfplay
  <2> QED
    BY <2>1, <2>2 DEF Managers
<1>5. PICK n \in Nat : n = DataOf(m)[d].acquireCount - 1
  BY <1>2
<1>6. PICK after : after = DataOf(m)'
  OBVIOUS
<1>7. /\ after = [e \in Datas |-> after[e]] /\ after[d] = [DataOf(m)[d] EXCEPT !.acquireCount = n]
      /\ \A e \in Datas \ {d} : after[e] = DataOf(m)[e]
  BY <1>1, <1>2, <1>3, <1>4, <1>5, <1>6
<1> HIDE DEF less
<1>8. /\ Managed(ModelsOf(m), after, {}) /\ after[d].acquireCount = n
      /\ \A e \in Datas : /\ after[e].modelName = DataOf(m)[e].modelName
                          /\ e # d => after[e] = DataOf(m)[e]
  <2>1. Managed(ModelsOf(m), DataOf(m), {}) /\ d \in ToSet(ModelsOf(m)) \ {}
    BY <1>1, <1>4
  <2> QED
    BY <1>7, <2>1, Recount
<1>9. ManagersInv'
  BY <1>4, <1>6, <1>8 DEF ManagersInv
<1>10. ASSUME NEW k \in Managers, NEW name \in Names
       PROVE  ModelsNamed(k, name)' = ModelsNamed(k, name)
  <2>1. ModelsNamed(k, name)' = Named(ModelsOf(k)', DataOf(k)', name)
    BY SameOperators DEF ModelsNamed, S!ModelsNamed, R!ModelsNamed, Named, ModelsOf, DataOf, Managers
  <2>2. ToSet(ModelsOf(k)) \subseteq Datas
    BY Elements DEF ManagersInv, Managed
  <2> QED
    BY <1>4, <1>6, <1>8, <2>1, <2>2, NamedModels DEF Named
<1>11. ASSUME NEW k \in Managers, NEW e \in Datas
       PROVE  DataOf(k)'[e].acquireCount =
                DataOf(k)[e].acquireCount - (IF k = m /\ e = d THEN 1 ELSE 0)
  BY <1>1, <1>4, <1>5, <1>6, <1>8
<1> QED
  BY <1>4, <1>9, <1>10, <1>11

(* A removal begins, of models that nobody uses.                                            *)
LEMMA CleanStep ==
  ASSUME ManagersInv, NEW m \in Managers, RemovingOf(m) = {}, Only(m),
         NEW doomed \in SUBSET ToSet(ModelsOf(m)), \A d \in doomed : DataOf(m)[d].acquireCount = 0,
         ModelsOf(m)' = ModelsOf(m), RemovingOf(m)' = doomed,
         DataOf(m)' = [d \in Datas |-> IF d \in doomed THEN Gone ELSE DataOf(m)[d]]
  PROVE  /\ ManagersInv' /\ \A k \in Managers : ModelsOf(k)' = ModelsOf(k)
         /\ \A k \in Managers, e \in Datas : DataOf(k)'[e].acquireCount = DataOf(k)[e].acquireCount
<1>1. Managed(ModelsOf(m), DataOf(m), {})
  BY DEF ManagersInv
<1>2. PICK after : after = DataOf(m)'
  OBVIOUS
<1>3. after = [d \in Datas |-> IF d \in doomed THEN Gone ELSE DataOf(m)[d]]
  BY <1>2
<1>4. /\ Managed(ModelsOf(m), after, doomed)
      /\ \A e \in Datas : after[e].acquireCount = DataOf(m)[e].acquireCount
  BY <1>1, <1>3, Cleanup
<1>5. ManagersInv'
  BY <1>2, <1>4 DEF ManagersInv, Only
<1>6. \A k \in Managers : ModelsOf(k)' = ModelsOf(k)
  BY DEF Only
<1>7. ASSUME NEW k \in Managers, NEW e \in Datas
      PROVE  DataOf(k)'[e].acquireCount = DataOf(k)[e].acquireCount
  BY <1>2, <1>4 DEF Only
<1> QED
  BY <1>5, <1>6, <1>7

(* Memory that is written when a removal begins.                                            *)
LEMMA Doomed ==
  ASSUME NEW models, NEW datas, NEW rem, Managed(models, datas, rem), NEW doomed \in SUBSET ToSet(models),
         S!StartRemoval(models, datas, doomed) \/ R!StartRemoval(models, datas, doomed)
  PROVE  LET after == [d \in Datas |-> IF d \in doomed THEN Gone ELSE datas[d]]
         IN  /\ S!StartRemoval(models, datas, doomed) =>
                  sModelDatas' = models /\ sRemoving' = doomed /\ sData' = after
             /\ R!StartRemoval(models, datas, doomed) =>
                  rModelDatas' = models /\ rRemoving' = doomed /\ rData' = after
<1>1. \A d \in Datas : ~datas[d].hasDataWriteLoop
  BY DEF Managed, Models
<1> QED
  BY <1>1, FreeModel DEF S!StartRemoval, R!StartRemoval

(* cleanupUnusedModelsOlderThan, of one manager.                                            *)
UnloadsUnused(m, old) ==
  IF m = "selfplay" THEN S!CleanupUnusedModels(old) /\ UNCHANGED rating
  ELSE R!CleanupUnusedModels(old) /\ UNCHANGED selfplay

(* It unloads what nobody uses.                                                             *)
LEMMA UnloadStep ==
  ASSUME ManagersInv, NEW m \in Managers, NEW old, UnloadsUnused(m, old)
  PROVE  /\ ManagersInv' /\ RemovingOf(m) = {} /\ Only(m)
         /\ \A k \in Managers : ModelsOf(k)' = ModelsOf(k)
         /\ \A k \in Managers, e \in Datas : DataOf(k)'[e].acquireCount = DataOf(k)[e].acquireCount
<1> DEFINE doomed == {d \in ToSet(ModelsOf(m)) \cap old : DataOf(m)[d].acquireCount <= 0}
<1>1. /\ Managed(ModelsOf(m), DataOf(m), RemovingOf(m)) /\ ToSet(ModelsOf(m)) \subseteq Datas
      /\ \A d \in Datas : DataOf(m)[d].acquireCount \in Nat
  <2>1. Managed(ModelsOf(m), DataOf(m), RemovingOf(m))
    BY DEF ManagersInv
  <2>2. ModelsOf(m) \in Seq(Datas) /\ \A d \in Datas : DataOf(m)[d] \in Models
    BY <2>1 DEF Managed
  <2>3. ToSet(ModelsOf(m)) \subseteq Datas
    BY <2>2, Elements
  <2> QED
    BY <2>1, <2>2, <2>3 DEF Models
<1>2. doomed \in SUBSET ToSet(ModelsOf(m)) /\ \A d \in doomed : DataOf(m)[d].acquireCount = 0
  BY <1>1
<1>3. /\ RemovingOf(m) = {} /\ Only(m) /\ ModelsOf(m)' = ModelsOf(m) /\ RemovingOf(m)' = doomed
      /\ DataOf(m)' = [d \in Datas |-> IF d \in doomed THEN Gone ELSE DataOf(m)[d]]
  <2>1. CASE m = "selfplay"
    <3>1. sRemoving = {} /\ S!StartRemoval(sModelDatas, sData, doomed) /\ UNCHANGED rating
      BY <2>1, SameOperators DEF UnloadsUnused, S!CleanupUnusedModels, S!MutexIsFree, ModelsOf, DataOf
    <3>2. Managed(sModelDatas, sData, sRemoving) /\ doomed \in SUBSET ToSet(sModelDatas)
      BY <1>1, <1>2, <2>1 DEF ModelsOf, DataOf, RemovingOf
    <3> HIDE DEF doomed
    <3>3. /\ sModelDatas' = sModelDatas /\ sRemoving' = doomed
          /\ sData' = [d \in Datas |-> IF d \in doomed THEN Gone ELSE sData[d]]
      BY <3>1, <3>2, Doomed
    <3> QED
      BY <2>1, <3>1, <3>3 DEF Only, Managers, ModelsOf, DataOf, RemovingOf, rating
  <2>2. CASE m = "rating"
    <3>1. rRemoving = {} /\ R!StartRemoval(rModelDatas, rData, doomed) /\ UNCHANGED selfplay
      BY <2>2, SameOperators DEF UnloadsUnused, R!CleanupUnusedModels, R!MutexIsFree, ModelsOf, DataOf
    <3>2. Managed(rModelDatas, rData, rRemoving) /\ doomed \in SUBSET ToSet(rModelDatas)
      BY <1>1, <1>2, <2>2 DEF ModelsOf, DataOf, RemovingOf
    <3> HIDE DEF doomed
    <3>3. /\ rModelDatas' = rModelDatas /\ rRemoving' = doomed
          /\ rData' = [d \in Datas |-> IF d \in doomed THEN Gone ELSE rData[d]]
      BY <3>1, <3>2, Doomed
    <3> QED
      BY <2>2, <3>1, <3>3 DEF Only, Managers, ModelsOf, DataOf, RemovingOf, selfplay
  <2> QED
    BY <2>1, <2>2 DEF Managers
<1> HIDE DEF doomed
<1> QED
  BY <1>2, <1>3, CleanStep

(* The destructor, of one manager.                                                          *)
Destroys(m) ==
  IF m = "selfplay" THEN S!Destroy /\ UNCHANGED rating ELSE R!Destroy /\ UNCHANGED selfplay

(* It unloads every model, when nobody uses any.                                            *)
LEMMA DestroyStep ==
  ASSUME ManagersInv, NEW m \in Managers, Destroys(m),
         \A d \in Datas : DataOf(m)[d].acquireCount = 0
  PROVE  /\ ManagersInv' /\ RemovingOf(m) = {} /\ Only(m)
         /\ \A k \in Managers : ModelsOf(k)' = ModelsOf(k)
         /\ \A k \in Managers, e \in Datas : DataOf(k)'[e].acquireCount = DataOf(k)[e].acquireCount
<1>1. Managed(ModelsOf(m), DataOf(m), RemovingOf(m)) /\ ToSet(ModelsOf(m)) \subseteq Datas
  BY Elements DEF ManagersInv, Managed
<1>2. PICK doomed \in SUBSET ToSet(ModelsOf(m)) : doomed = ToSet(ModelsOf(m))
  OBVIOUS
<1>3. /\ RemovingOf(m) = {} /\ Only(m) /\ ModelsOf(m)' = ModelsOf(m) /\ RemovingOf(m)' = doomed
      /\ DataOf(m)' = [d \in Datas |-> IF d \in doomed THEN Gone ELSE DataOf(m)[d]]
  <2>1. CASE m = "selfplay"
    <3>1. /\ sRemoving = {} /\ S!StartRemoval(sModelDatas, sData, doomed) /\ UNCHANGED rating
          /\ Managed(sModelDatas, sData, sRemoving) /\ doomed \in SUBSET ToSet(sModelDatas)
      BY <1>1, <1>2, <2>1, SameOperators DEF Destroys, S!Destroy, S!MutexIsFree, ModelsOf, DataOf, RemovingOf
    <3>2. /\ sModelDatas' = sModelDatas /\ sRemoving' = doomed
          /\ sData' = [d \in Datas |-> IF d \in doomed THEN Gone ELSE sData[d]]
      BY <3>1, Doomed
    <3> QED
      BY <2>1, <3>1, <3>2 DEF Only, Managers, ModelsOf, DataOf, RemovingOf, rating
  <2>2. CASE m = "rating"
    <3>1. /\ rRemoving = {} /\ R!StartRemoval(rModelDatas, rData, doomed) /\ UNCHANGED selfplay
          /\ Managed(rModelDatas, rData, rRemoving) /\ doomed \in SUBSET ToSet(rModelDatas)
      BY <1>1, <1>2, <2>2, SameOperators DEF Destroys, R!Destroy, R!MutexIsFree, ModelsOf, DataOf, RemovingOf
    <3>2. /\ rModelDatas' = rModelDatas /\ rRemoving' = doomed
          /\ rData' = [d \in Datas |-> IF d \in doomed THEN Gone ELSE rData[d]]
      BY <3>1, Doomed
    <3> QED
      BY <2>2, <3>1, <3>2 DEF Only, Managers, ModelsOf, DataOf, RemovingOf, selfplay
  <2> QED
    BY <2>1, <2>2 DEF Managers
<1> QED
  BY <1>1, <1>2, <1>3, CleanStep

(* A removed model leaves the list of its manager.                                          *)
LEMMA EndRemovalStep ==
  ASSUME ManagersInv, (S!EndRemoval /\ UNCHANGED rating) \/ (R!EndRemoval /\ UNCHANGED selfplay)
  PROVE  /\ ManagersInv' /\ UNCHANGED <<sData, rData>>
         /\ \A k \in Managers : /\ RemovingOf(k)' \subseteq RemovingOf(k)
                                /\ Len(ModelsOf(k)) \in Nat /\ Len(ModelsOf(k)') \in Nat
                                /\ Len(ModelsOf(k)') <= Len(ModelsOf(k))
         /\ \A k \in Managers, name \in Names : ModelsNamed(k, name)' = ModelsNamed(k, name)
<1>0. PICK m \in Managers : \E i \in 1..Len(ModelsOf(m)) :
         /\ ModelsOf(m)[i] \in RemovingOf(m) /\ UNCHANGED <<sData, rData>>
         /\ ModelsOf(m)' = RemoveAt(ModelsOf(m), i) /\ RemovingOf(m)' = RemovingOf(m) \ {ModelsOf(m)[i]}
         /\ Only(m)
  <2>0. sModelDatas \in Seq(Datas) /\ rModelDatas \in Seq(Datas)
    BY DEF ManagersInv, Managed, ModelsOf, Managers
  <2>1. CASE S!EndRemoval /\ UNCHANGED rating
    <3>1. PICK i \in 1..Len(sModelDatas) :
            /\ sModelDatas[i] \in sRemoving /\ sModelDatas' = RemoveAt(sModelDatas, i)
            /\ sRemoving' = sRemoving \ {sModelDatas[i]}
      BY <2>0, <2>1, SameOperators DEF S!EndRemoval
    <3>2. UNCHANGED <<sData, rData, rModelDatas, rRemoving>>
      BY <2>1 DEF S!EndRemoval, rating
    <3>3. /\ "selfplay" \in Managers /\ ModelsOf("selfplay") = sModelDatas /\ RemovingOf("selfplay") = sRemoving
          /\ ModelsOf("selfplay")' = sModelDatas' /\ RemovingOf("selfplay")' = sRemoving' /\ Only("selfplay")
      BY <3>2 DEF Managers, ModelsOf, RemovingOf, DataOf, Only
    <3> QED
      BY <3>1, <3>2, <3>3
  <2>2. CASE R!EndRemoval /\ UNCHANGED selfplay
    <3>1. PICK i \in 1..Len(rModelDatas) :
            /\ rModelDatas[i] \in rRemoving /\ rModelDatas' = RemoveAt(rModelDatas, i)
            /\ rRemoving' = rRemoving \ {rModelDatas[i]}
      BY <2>0, <2>2, SameOperators DEF R!EndRemoval
    <3>2. UNCHANGED <<sData, rData, sModelDatas, sRemoving>>
      BY <2>2 DEF R!EndRemoval, selfplay
    <3>3. /\ "rating" \in Managers /\ ModelsOf("rating") = rModelDatas /\ RemovingOf("rating") = rRemoving
          /\ ModelsOf("rating")' = rModelDatas' /\ RemovingOf("rating")' = rRemoving' /\ Only("rating")
      BY <3>2 DEF Managers, ModelsOf, RemovingOf, DataOf, Only
    <3> QED
      BY <3>1, <3>2, <3>3
  <2> QED
    BY <2>1, <2>2
<1>1. PICK i \in 1..Len(ModelsOf(m)) :
         /\ ModelsOf(m)[i] \in RemovingOf(m) /\ UNCHANGED <<sData, rData>>
         /\ ModelsOf(m)' = RemoveAt(ModelsOf(m), i) /\ RemovingOf(m)' = RemovingOf(m) \ {ModelsOf(m)[i]}
         /\ Only(m)
  BY <1>0
<1>2. \A k \in Managers : DataOf(k)' = DataOf(k) /\ Managed(ModelsOf(k), DataOf(k), RemovingOf(k))
  BY <1>1 DEF DataOf, ManagersInv
<1>3. /\ Managed(ModelsOf(m)', DataOf(m)', RemovingOf(m)')
      /\ Len(ModelsOf(m)') = Len(ModelsOf(m)) - 1 /\ Len(ModelsOf(m)) \in Nat
      /\ \A name \in Names : Named(ModelsOf(m)', DataOf(m)', name) = Named(ModelsOf(m), DataOf(m), name)
  BY <1>1, <1>2, Leaving
<1>4. ManagersInv'
  BY <1>1, <1>2, <1>3 DEF ManagersInv, Only
<1>5. ASSUME NEW k \in Managers
      PROVE  /\ RemovingOf(k)' \subseteq RemovingOf(k)
             /\ Len(ModelsOf(k)) \in Nat /\ Len(ModelsOf(k)') \in Nat
             /\ Len(ModelsOf(k)') <= Len(ModelsOf(k))
  <2>1. CASE k = m
    <3>1. Len(ModelsOf(m)) >= 1
      BY <1>1, <1>3
    <3> QED
      BY <1>1, <1>3, <2>1, <3>1
  <2>2. CASE k # m
    <3>1. Len(ModelsOf(k)) \in Nat
      BY <1>2, Elements DEF Managed
    <3> QED
      BY <1>1, <2>2, <3>1 DEF Only
  <2> QED
    BY <2>1, <2>2
<1>6. ASSUME NEW k \in Managers, NEW name \in Names
      PROVE  ModelsNamed(k, name)' = ModelsNamed(k, name)
  <2>1. ModelsNamed(k, name)' = Named(ModelsOf(k)', DataOf(k)', name)
    BY SameOperators DEF ModelsNamed, S!ModelsNamed, R!ModelsNamed, Named, ModelsOf, DataOf, Managers
  <2> QED
    BY <1>1, <1>2, <1>3, <2>1, NamedModels DEF Only
<1> QED
  BY <1>1, <1>4, <1>5, <1>6

(* A net is loaded that its manager does not have.                                          *)
LEMMA LoadStep ==
  ASSUME ManagersInv, NEW m \in Managers, NEW d \in Datas, NEW name \in Names, ~DataOf(m)[d].alive,
         LoadModel(m, d, name)
  PROVE  /\ ManagersInv' /\ RemovingOf(m) = {}
         /\ \A k \in Managers : /\ RemovingOf(k)' = RemovingOf(k) /\ Len(ModelsOf(k)) \in Nat
                                /\ Len(ModelsOf(k)') = Len(ModelsOf(k)) + (IF k = m THEN 1 ELSE 0)
         /\ \A k \in Managers, e \in Datas : DataOf(k)'[e].acquireCount = DataOf(k)[e].acquireCount
         /\ \A k \in Managers, other \in Names :
              ModelsNamed(k, other)' = IF k = m /\ other = name THEN {d} ELSE ModelsNamed(k, other)
<1>1. /\ \A k \in Managers : Managed(ModelsOf(k), DataOf(k), RemovingOf(k))
      /\ \A k \in Managers : Len(ModelsOf(k)) \in Nat
      /\ DataOf(m) \in [Datas -> Models]
  BY Elements DEF ManagersInv, Managed
<1>2. /\ RemovingOf(m) = {} /\ RemovingOf(m)' = {} /\ Only(m) /\ ModelsNamed(m, name) = {}
      /\ ModelsOf(m)' = Append(ModelsOf(m), d)
      /\ DataOf(m)' = [DataOf(m) EXCEPT ![d] = Fresh(name)]
  <2> DEFINE datas == [DataOf(m) EXCEPT ![d] = Fresh(name)]
  <2>0. datas = [e \in Datas |-> datas[e]]
    BY <1>1
  <2>1. CASE m = "selfplay"
    <3>1. /\ sRemoving = {} /\ UNCHANGED rating /\ S!ModelsNamed(name) = {}
          /\ S!StartRemoval(Append(sModelDatas, d), datas, S!Unused(Append(sModelDatas, d), datas))
      BY <2>1, FreeModel DEF Fresh, LoadModel, OnManager, S!LoadModel, S!MutexIsFree, DataOf
    <3>2. S!Unused(Append(sModelDatas, d), datas) = {}
      BY DEF S!Unused
    <3> HIDE DEF datas
    <3>3. /\ sModelDatas' = Append(sModelDatas, d) /\ sRemoving' = {}
          /\ sData' = [e \in Datas |-> datas[e]]
      BY <3>1, <3>2 DEF S!StartRemoval
    <3>4. sData' = datas
      BY <2>0, <3>3
    <3> QED
      BY <2>1, <3>1, <3>3, <3>4 DEF Only, Managers, ModelsOf, DataOf, RemovingOf, rating, ModelsNamed, datas
  <2>2. CASE m = "rating"
    <3>1. /\ rRemoving = {} /\ UNCHANGED selfplay /\ R!ModelsNamed(name) = {}
          /\ R!StartRemoval(Append(rModelDatas, d), datas, R!Unused(Append(rModelDatas, d), datas))
      BY <2>2, FreeModel DEF Fresh, LoadModel, OnManager, R!LoadModel, R!MutexIsFree, DataOf
    <3>2. R!Unused(Append(rModelDatas, d), datas) = {}
      BY DEF R!Unused
    <3> HIDE DEF datas
    <3>3. /\ rModelDatas' = Append(rModelDatas, d) /\ rRemoving' = {}
          /\ rData' = [e \in Datas |-> datas[e]]
      BY <3>1, <3>2 DEF R!StartRemoval
    <3>4. rData' = datas
      BY <2>0, <3>3
    <3> QED
      BY <2>2, <3>1, <3>3, <3>4 DEF Only, Managers, ModelsOf, DataOf, RemovingOf, selfplay, ModelsNamed, datas
  <2> QED
    BY <2>1, <2>2 DEF Managers
<1>3. PICK after : after = DataOf(m)'
  OBVIOUS
<1>4. PICK list : list = ModelsOf(m)'
  OBVIOUS
<1>5. /\ Managed(list, after, {}) /\ Len(list) = Len(ModelsOf(m)) + 1
      /\ \A e \in Datas : after[e].acquireCount = DataOf(m)[e].acquireCount
      /\ \A other \in Names : other # name =>
           Named(list, after, other) = Named(ModelsOf(m), DataOf(m), other)
      /\ Named(list, after, name) = {d}
  <2>1. /\ after \in [Datas -> Models] /\ after[d] = Fresh(name)
        /\ \A e \in Datas \ {d} : after[e] = DataOf(m)[e]
    BY <1>1, <1>2, <1>3, FreshModel
  <2>2. Managed(ModelsOf(m), DataOf(m), {}) /\ list = Append(ModelsOf(m), d)
    BY <1>1, <1>2, <1>4
  <2>3. PICK datas : datas = DataOf(m)
    OBVIOUS
  <2>4. PICK models : models = ModelsOf(m)
    OBVIOUS
  <2>5. Loads(models, datas, d, name, list, after)
    BY <2>1, <2>2, <2>3, <2>4 DEF Loads
  <2>6. /\ Managed(list, after, {}) /\ Len(list) = Len(models) + 1
        /\ \A e \in Datas : after[e].acquireCount = datas[e].acquireCount
        /\ ToSet(list) = ToSet(models) \cup {d} /\ d \notin ToSet(models) /\ ToSet(models) \subseteq Datas
    BY ONLY <2>5, Loading
  <2>7. Named(models, datas, name) = {}
    BY <1>2, <2>3, <2>4, NamedModels
  <2>8. after[d].modelName = name /\ \A e \in Datas \ {d} : after[e] = datas[e]
    BY <2>5, FreshModel DEF Loads
  <2>9. /\ \A other \in Names : other # name => Named(list, after, other) = Named(models, datas, other)
        /\ Named(list, after, name) = {d}
    BY <2>6, <2>7, <2>8 DEF Named
  <2> QED
    BY <2>3, <2>4, <2>6, <2>9
<1>6. RemovingOf(m) = {} /\ RemovingOf(m)' = {} /\ Only(m) /\ ModelsOf(m)' = list /\ DataOf(m)' = after
  BY <1>2, <1>3, <1>4
<1>7. ManagersInv'
  BY <1>1, <1>5, <1>6 DEF ManagersInv, Only
<1>8. ASSUME NEW k \in Managers
      PROVE  /\ RemovingOf(k)' = RemovingOf(k)
             /\ Len(ModelsOf(k)') = Len(ModelsOf(k)) + (IF k = m THEN 1 ELSE 0)
  <2>1. CASE k = m
    BY <1>5, <1>6, <2>1
  <2>2. CASE k # m
    BY <1>1, <1>6, <2>2 DEF Only
  <2> QED
    BY <2>1, <2>2
<1>9. ASSUME NEW k \in Managers, NEW e \in Datas
      PROVE  DataOf(k)'[e].acquireCount = DataOf(k)[e].acquireCount
  BY <1>5, <1>6 DEF Only
<1>10. ASSUME NEW k \in Managers, NEW other \in Names
       PROVE  ModelsNamed(k, other)' = IF k = m /\ other = name THEN {d} ELSE ModelsNamed(k, other)
  <2>1. ModelsNamed(k, other)' = Named(ModelsOf(k)', DataOf(k)', other)
    BY SameOperators DEF ModelsNamed, S!ModelsNamed, R!ModelsNamed, Named, ModelsOf, DataOf, Managers
  <2>2. CASE k = m
    BY <1>5, <1>6, <2>1, <2>2, NamedModels
  <2>3. CASE k # m
    BY <1>6, <2>1, <2>3, NamedModels DEF Only
  <2> QED
    BY <2>2, <2>3
<1> QED
  BY <1>1, <1>6, <1>7, <1>8, <1>9, <1>10

-------------------------------------------------------------------------------
(* The task loops: the one that has the mutex is inside, where its game comes together.    *)
(* Its nets are loaded when it asks for them.                                               *)
LoopOK(l) ==
  /\ taskLoopMutex = l <=> loop[l] \notin Outside
  /\ loop[l] \notin {"top", "query", "end"} => task[l] \in Tasks
  /\ loop[l] \in {"load"} \cup Together =>
       /\ chosen.isRatingGame = task[l].isRatingGame
       /\ \A i \in Sides : /\ chosen.manager[i] \in Managers
                           /\ chosen.manager[i] = "rating" => task[l].isRatingGame
  /\ loop[l] \in Together => ToLoad(l) = {} /\ rep \in 1..taskRepFactor
  /\ loop[l] \in {"acquire_white", "push"} => chosen.nnEval[1] \in Datas
  /\ loop[l] = "push" => chosen.nnEval[2] \in Datas

LoopsInv ==
  /\ loop \in [TaskLoops -> Outside \cup Before \cup {"load"} \cup Together]
  /\ task \in [TaskLoops -> Tasks \cup {NoTask}]
  /\ chosen \in Games /\ rep \in Nat
  /\ taskLoopMutex \in TaskLoops \cup {NoThread}
  /\ \A l \in TaskLoops : LoopOK(l)

(* The threads that play, and how they end: first the task loops, then the games, and the  *)
(* managers in the end.                                                                     *)
GoodGame(g) ==
  g \in Games /\ \A i \in Sides : g.manager[i] \in Managers /\ g.nnEval[i] \in Datas

GamesInv ==
  /\ gameTaskQueue \in Seq(Games)
  /\ gameTaskQueue # <<>> => Len(gameTaskQueue) = 1 /\ GoodGame(Head(gameTaskQueue))
  /\ game \in [GameThreads -> {"pop", "play", "release_white", "count", "end"}]
  /\ gameTask \in [GameThreads -> Games]
  /\ \A g \in GameThreads : game[g] \in {"play", "release_white"} => GoodGame(gameTask[g])
  /\ \A g \in GameThreads : game[g] = "end" => readOnly /\ gameTaskQueue = <<>>
  /\ readOnly => \A l \in TaskLoops : loop[l] = "end"
  /\ main # "join" => readOnly
  /\ main \notin {"join", "join_games"} => \A g \in GameThreads : game[g] = "end"

(* Every use that a manager counts is one of a game.                                        *)
HoldsInv == \A m \in Managers, d \in Datas : Holds(m, d) = DataOf(m)[d].acquireCount

Inv == ManagersInv /\ LoopsInv /\ GamesInv /\ HoldsInv

-------------------------------------------------------------------------------
CountsKept == \A m \in Managers, d \in Datas : DataOf(m)'[d].acquireCount = DataOf(m)[d].acquireCount
NamesKept == \A m \in Managers, name \in Names : ModelsNamed(m, name)' = ModelsNamed(m, name)
ChosenKept == ChosenSides' = ChosenSides /\ (chosen' = chosen \/ ChosenSides = {})

(* The nets of a task have names.                                                           *)
LEMMA TaskNames ==
  ASSUME NEW t \in Tasks
  PROVE  t.isRatingGame \in BOOLEAN /\ \A i \in Sides : t.model[i] \in Names
<1>1. CASE \E n \in SelfplayNames : t = [isRatingGame |-> FALSE, model |-> <<n, n>>]
  BY <1>1, ContributeAssumption DEF Sides, ContributeAssumption
<1>2. CASE \E p \in RatingPairs : t = [isRatingGame |-> TRUE, model |-> p]
  <2>1. PICK p \in RatingPairs : t = [isRatingGame |-> TRUE, model |-> p]
    BY <1>2
  <2>2. p[1] \in Names /\ p[2] \in Names
    BY ContributeAssumption DEF ContributeAssumption
  <2> QED
    BY <2>1, <2>2 DEF Sides
<1> QED
  BY <1>1, <1>2 DEF Tasks

(* Managers that are left alone.                                                            *)
LEMMA ManagersKept ==
  ASSUME ManagersInv, UNCHANGED <<selfplay, rating>>
  PROVE  /\ ManagersInv' /\ CountsKept /\ NamesKept
         /\ \A m \in Managers : ModelsOf(m)' = ModelsOf(m)
<1>1. /\ UNCHANGED <<sModelDatas, sData, sRemoving, rModelDatas, rData, rRemoving>>
      /\ \A m \in Managers : /\ ModelsOf(m)' = ModelsOf(m) /\ DataOf(m)' = DataOf(m)
                             /\ RemovingOf(m)' = RemovingOf(m)
  BY DEF selfplay, rating, ModelsOf, DataOf, RemovingOf
<1>2. ManagersInv'
  BY <1>1 DEF ManagersInv
<1>3. CountsKept
  BY <1>1 DEF CountsKept
<1>4. NamesKept
  BY <1>1 DEF NamesKept, ModelsNamed, S!ModelsNamed, R!ModelsNamed
<1> QED
  BY <1>1, <1>2, <1>3, <1>4

(* The game that is put together, by the thread that has the mutex.                         *)
LEMMA ChosenAt ==
  ASSUME LoopsInv, NEW l \in TaskLoops, taskLoopMutex = l
  PROVE  /\ ChosenSides = IF loop[l] = "push" THEN Sides
                          ELSE IF loop[l] = "acquire_white" THEN {1} ELSE {}
         /\ \A k \in TaskLoops \ {l} : loop[k] \in Outside
BY DEF LoopsInv, LoopOK, ChosenSides, Outside

(* Without it there is none.                                                                *)
LEMMA ChosenNone ==
  ASSUME LoopsInv, \A l \in TaskLoops : loop[l] \notin {"acquire_white", "push"}
  PROVE  ChosenSides = {}
BY DEF ChosenSides

(* Steps that change no game's nets.                                                        *)
LEMMA HoldsKept ==
  ASSUME HoldsInv, UNCHANGED <<gameTaskQueue, game, gameTask>>, ChosenKept, CountsKept
  PROVE  HoldsInv'
<1>1. ASSUME NEW m \in Managers, NEW d \in Datas
      PROVE  Holds(m, d)' = Holds(m, d)
  <2>1. HeldBy(chosen, ChosenSides, m, d)' = HeldBy(chosen, ChosenSides, m, d)
    BY DEF ChosenKept, HeldBy
  <2>2. Queued(m, d)' = Queued(m, d) /\ Played(m, d)' = Played(m, d)
    BY DEF Queued, Played, HeldBy, PlayedSides
  <2> QED
    BY <2>1, <2>2 DEF Holds
<1> QED
  BY <1>1 DEF HoldsInv, CountsKept

(* What has been loaded stays loaded.                                                       *)
LEMMA ToLoadKept ==
  ASSUME LoopsInv, NamesKept, NEW l \in TaskLoops, loop[l] \in {"load"} \cup Together,
         \A i \in Sides : chosen'.manager[i] = chosen.manager[i], task'[l] = task[l]
  PROVE  ToLoad(l)' = ToLoad(l)
<1>1. task[l] \in Tasks /\ \A i \in Sides : chosen.manager[i] \in Managers
  BY DEF LoopsInv, LoopOK, Together
<1>2. \A i \in Sides : task[l].model[i] \in Names
  BY <1>1, TaskNames
<1>3. ASSUME NEW i \in Sides
      PROVE  ModelsNamed(chosen.manager[i], task[l].model[i])' =
               ModelsNamed(chosen.manager[i], task[l].model[i])
  <2>1. PICK m \in Managers : m = chosen.manager[i]
    BY <1>1
  <2>2. PICK name \in Names : name = task[l].model[i]
    BY <1>2
  <2>3. ModelsNamed(m, name)' = ModelsNamed(m, name)
    BY DEF NamesKept
  <2>4. ModelsNamed(chosen.manager[i], task[l].model[i])' = ModelsNamed(m, name)'
    <3>1. chosen'.manager[i] = m /\ task'[l].model[i] = name
      BY <2>1, <2>2
    <3> QED
      BY <3>1 DEF ModelsNamed, S!ModelsNamed, R!ModelsNamed
  <2> QED
    BY <2>1, <2>2, <2>3, <2>4
<1> QED
  BY <1>3 DEF ToLoad

(* A step of the loop that has the mutex, which keeps it or gives it up.                     *)
LEMMA OwnersStep ==
  ASSUME LoopsInv, NEW l \in TaskLoops, taskLoopMutex = l, NEW to,
         to \in Outside \cup Before \cup {"load"} \cup Together,
         loop' = [loop EXCEPT ![l] = to], taskLoopMutex' \in {l, NoThread},
         task' \in [TaskLoops -> Tasks \cup {NoTask}], \A k \in TaskLoops \ {l} : task'[k] = task[k],
         chosen' \in Games, rep' \in Nat, LoopOK(l)'
  PROVE  LoopsInv'
<1>1. loop' \in [TaskLoops -> Outside \cup Before \cup {"load"} \cup Together]
  BY DEF LoopsInv
<1>2. ASSUME NEW k \in TaskLoops \ {l}
      PROVE  LoopOK(k)'
  <2>1. /\ loop'[k] = loop[k] /\ loop[k] \in Outside /\ task'[k] = task[k] /\ LoopOK(k)
        /\ taskLoopMutex' # k
    BY ChosenAt, ContributeAssumption DEF LoopsInv, ContributeAssumption
  <2>2. Outside \cap ({"query", "load", "acquire_white", "push"} \cup Together) = {}
    BY DEF Outside, Together
  <2> QED
    BY <2>1, <2>2 DEF LoopOK
<1> QED
  BY <1>1, <1>2 DEF LoopsInv

(* A step of a loop without the mutex, which leaves the one that has it alone.               *)
LEMMA OthersStep ==
  ASSUME LoopsInv, NamesKept, NEW l \in TaskLoops, loop[l] \in Outside, NEW to \in Outside,
         loop' = [loop EXCEPT ![l] = to], UNCHANGED <<taskLoopMutex, chosen, rep>>,
         task' \in [TaskLoops -> Tasks \cup {NoTask}], \A k \in TaskLoops \ {l} : task'[k] = task[k],
         to \in {"top", "end"} \/ task'[l] \in Tasks
  PROVE  LoopsInv' /\ ChosenKept
<1>1. loop' \in [TaskLoops -> Outside \cup Before \cup {"load"} \cup Together]
  BY DEF LoopsInv
<1>2. Outside \cap ({"query", "load", "acquire_white", "push"} \cup Together) = {}
  BY DEF Outside, Together
<1>3. ASSUME NEW k \in TaskLoops \ {l}
      PROVE  LoopOK(k)'
  <2>1. /\ loop'[k] = loop[k] /\ task'[k] = task[k] /\ LoopOK(k)
    BY DEF LoopsInv
  <2>2. loop[k] \in Together => ToLoad(k)' = ToLoad(k)
    BY <2>1, ToLoadKept
  <2> QED
    BY <2>1, <2>2 DEF LoopOK
<1>4. LoopOK(l)'
  <2>1. loop'[l] = to /\ LoopOK(l)
    BY DEF LoopsInv
  <2> QED
    BY <1>2, <2>1 DEF LoopOK
<1>5. \A k \in TaskLoops, pc \in {"acquire_white", "push"} : loop'[k] = pc <=> loop[k] = pc
  BY <1>2 DEF LoopsInv
<1>6. ChosenKept
  BY <1>5 DEF ChosenKept, ChosenSides
<1> QED
  BY <1>1, <1>3, <1>4, <1>6 DEF LoopsInv

(* A step of another thread.                                                                *)
LEMMA OutsidersStep ==
  ASSUME LoopsInv, UNCHANGED loops, NamesKept \/ \A l \in TaskLoops : loop[l] \notin Together
  PROVE  LoopsInv' /\ ChosenKept
<1>1. UNCHANGED <<taskLoopMutex, loop, task, chosen, rep>>
  BY DEF loops
<1>2. \A l \in TaskLoops : loop[l] \in Together => ToLoad(l)' = ToLoad(l)
  BY <1>1, ToLoadKept
<1>3. \A l \in TaskLoops : LoopOK(l) => LoopOK(l)'
  BY <1>1, <1>2 DEF LoopOK
<1> QED
  BY <1>1, <1>3 DEF LoopsInv, ChosenKept, ChosenSides

(* A step of a task loop that leaves the threads that play alone.                            *)
LEMMA QuietStep ==
  ASSUME Inv, NEW l \in TaskLoops, loop[l] # "end", NEW to, loop' = [loop EXCEPT ![l] = to],
         UNCHANGED <<gameTaskQueue, games, readOnly, main>>,
         ManagersInv', LoopsInv', CountsKept, ChosenKept
  PROVE  Inv'
<1>1. HoldsInv'
  BY HoldsKept DEF Inv, games
<1>2. GamesInv'
  BY DEF Inv, GamesInv, games
<1> QED
  BY <1>1, <1>2 DEF Inv

(* A step under the mutex before nets are acquired.                                         *)
LEMMA PreparingStep ==
  ASSUME Inv, NEW l \in TaskLoops, NEW from \in Before \cup {"load"},
         NEW to \in Outside \cup Before \cup {"load", "acquire_black"}, Step(l, from, to),
         taskLoopMutex' \in {l, NoThread}, chosen' \in Games, rep' \in Nat,
         task' \in [TaskLoops -> Tasks \cup {NoTask}], \A k \in TaskLoops \ {l} : task'[k] = task[k],
         LoopOK(l)', UNCHANGED gameTaskQueue, ManagersInv', CountsKept
  PROVE  Inv'
<1>1. /\ taskLoopMutex = l /\ loop[l] = from /\ loop' = [loop EXCEPT ![l] = to]
      /\ UNCHANGED <<games, readOnly, main>>
  BY DEF Step
<1>2. {"acquire_white", "push", "end"} \cap (Before \cup {"load"}) = {}
      /\ {"acquire_white", "push"} \cap (Outside \cup Before \cup {"load", "acquire_black"}) = {}
  BY DEF Before, Outside
<1>3. LoopsInv'
  BY <1>1, OwnersStep DEF Inv, Together
<1>4. ChosenSides = {}
  BY <1>1, <1>2, ChosenAt DEF Inv
<1>5. ChosenSides' = {}
  <2>1. loop \in [TaskLoops -> Outside \cup Before \cup {"load"} \cup Together]
    BY DEF Inv, LoopsInv
  <2>2. loop'[l] \notin {"acquire_white", "push"}
    BY <1>1, <1>2, <2>1
  <2>3. \A k \in TaskLoops \ {l} : loop'[k] \notin {"acquire_white", "push"}
    BY <1>1, <2>1, ChosenAt DEF Inv, Outside
  <2> QED
    BY <2>2, <2>3 DEF ChosenSides
<1> QED
  BY <1>1, <1>2, <1>3, <1>4, <1>5, QuietStep DEF ChosenKept

(* It gives up the task.                                                                    *)
LEMMA NextTaskStep ==
  ASSUME Inv, NEW l \in TaskLoops, NEW from \in Before \cup {"load"}, NextTask(l, from),
         UNCHANGED gameTaskQueue, UNCHANGED <<selfplay, rating>>
  PROVE  Inv'
<1>1. NoGame \in Games /\ 0 \in Nat
  BY DEF NoGame, Games, Sides
<1>2. PICK to \in {"end", "top"} : Unlock(l, from, to)
  BY DEF NextTask
<1>3. /\ task' = [task EXCEPT ![l] = NoTask] /\ chosen' = NoGame /\ rep' = 0
  BY DEF NextTask
<1>4. LoopOK(l)'
  <2>1. loop'[l] = to /\ taskLoopMutex' = NoThread
    BY <1>2 DEF Unlock, Step, Inv, LoopsInv
  <2> QED
    BY <2>1, ContributeAssumption DEF LoopOK, Outside, Together, ContributeAssumption
<1>5. /\ task' \in [TaskLoops -> Tasks \cup {NoTask}] /\ \A k \in TaskLoops \ {l} : task'[k] = task[k]
  BY <1>3 DEF Inv, LoopsInv
<1>6. Step(l, from, to) /\ taskLoopMutex' \in {l, NoThread} /\ to \in Outside
  BY <1>2 DEF Unlock, Outside
<1> QED
  BY <1>1, <1>3, <1>4, <1>5, <1>6, ManagersKept, PreparingStep DEF Inv

(* It goes on with the task, with the mutex or for the downloads.                           *)
LEMMA GoOnStep ==
  ASSUME Inv, NEW l \in TaskLoops, NEW from \in Before,
         NEW to \in Before \cup {"download"}, Step(l, from, to),
         taskLoopMutex' = IF to = "download" THEN NoThread ELSE l,
         task' \in [TaskLoops -> Tasks \cup {NoTask}], \A k \in TaskLoops \ {l} : task'[k] = task[k],
         task'[l] \in Tasks,
         UNCHANGED <<chosen, rep, gameTaskQueue>>, ManagersInv', CountsKept
  PROVE  Inv'
<1>1. LoopOK(l)'
  <2>1. loop'[l] = to /\ loop[l] = from
    BY DEF Step, Inv, LoopsInv
  <2> QED
    BY <2>1, ContributeAssumption
       DEF LoopOK, Outside, Before, Together, ContributeAssumption
<1>2. to \in Outside \cup Before /\ taskLoopMutex' \in {l, NoThread}
  BY DEF Outside
<1> QED
  BY <1>1, <1>2, PreparingStep DEF Inv, LoopsInv

(* The task is asked for.                                                                   *)
LEMMA QueryStep ==
  ASSUME Inv, NEW l \in TaskLoops,
         Enter(l) \/ GetNextTask(l) \/ NoNextTask(l) \/ StartDownloads(l) \/ AllPresent(l)
  PROVE  Inv'
<1>0. /\ ManagersInv /\ task \in [TaskLoops -> Tasks \cup {NoTask}]
      /\ loop \in [TaskLoops -> Outside \cup Before \cup {"load"} \cup Together]
      /\ chosen \in Games /\ rep \in Nat /\ LoopOK(l)
  BY DEF Inv, LoopsInv
<1>1. CASE Enter(l)
  <2>1. /\ loop[l] = "top" /\ loop' = [loop EXCEPT ![l] = "query"] /\ taskLoopMutex = NoThread
        /\ taskLoopMutex' = l /\ UNCHANGED <<task, chosen, rep, gameTaskQueue, games, readOnly, main>>
        /\ UnloadsUnused("rating", Datas)
    BY <1>1 DEF Enter, Nothing, UnloadsUnused
  <2>2. ManagersInv' /\ CountsKept
    BY <1>0, <2>1, UnloadStep DEF Managers, CountsKept
  <2>3. \A k \in TaskLoops : loop[k] \in Outside
    BY <2>1, ContributeAssumption DEF Inv, LoopsInv, LoopOK, ContributeAssumption
  <2>4. \A k \in TaskLoops : loop'[k] \in Outside \/ (k = l /\ loop'[k] = "query")
    BY <1>0, <2>1, <2>3
  <2>5. ChosenKept
    BY <2>3, <2>4 DEF ChosenKept, ChosenSides, Outside
  <2>6. ASSUME NEW k \in TaskLoops
        PROVE  LoopOK(k)'
    <3>1. loop'[k] \in {"query"} \cup Outside /\ (loop'[k] \in Outside <=> k # l)
      BY <2>1, <2>4, <1>0 DEF Outside
    <3>2. k # l => loop'[k] = loop[k] /\ LoopOK(k)
      BY <1>0, <2>1 DEF Inv, LoopsInv
    <3> QED
      BY <2>1, <3>1, <3>2 DEF LoopOK, Outside, Together
  <2>7. LoopsInv'
    BY <1>0, <2>1, <2>4, <2>6 DEF LoopsInv, Before
  <2> QED
    BY <2>1, <2>2, <2>5, <2>7, QuietStep
<1>2. CASE GetNextTask(l)
  <2>1. PICK t \in Tasks : task' = [task EXCEPT ![l] = t]
    BY <1>2 DEF GetNextTask
  <2>2. /\ Step(l, "query", "present") /\ taskLoopMutex' = l
        /\ UNCHANGED <<selfplay, rating, chosen, rep, gameTaskQueue>>
    BY <1>2 DEF GetNextTask, Locked, Step
  <2>3. /\ task' \in [TaskLoops -> Tasks \cup {NoTask}] /\ \A k \in TaskLoops \ {l} : task'[k] = task[k]
        /\ task'[l] \in Tasks
    BY <1>0, <2>1
  <2> QED
    BY <1>0, <2>2, <2>3, ManagersKept, GoOnStep DEF Before
<1>3. CASE NoNextTask(l)
  BY <1>3, NextTaskStep DEF NoNextTask, Before
<1>4. ASSUME loop[l] = "present"
      PROVE  task[l] \in Tasks
  BY <1>0, <1>4 DEF LoopOK
<1>5. CASE StartDownloads(l)
  BY <1>0, <1>4, <1>5, ManagersKept, GoOnStep DEF StartDownloads, Unlock, Step, Nothing, Before
<1>6. CASE AllPresent(l)
  <2>1. CASE Locked(l, "present", "unload") /\ UNCHANGED <<task, chosen, rep>>
    <3>1. Step(l, "present", "unload") /\ loop[l] = "present" /\ taskLoopMutex' = l
      BY <2>1 DEF Locked, Step
    <3> QED
      BY <1>0, <1>4, <1>6, <2>1, <3>1, ManagersKept, GoOnStep DEF AllPresent, Before
  <2>2. CASE NextTask(l, "present")
    BY <1>6, <2>2, NextTaskStep DEF AllPresent, Before
  <2> QED
    BY <1>6, <2>1, <2>2 DEF AllPresent
<1> QED
  BY <1>1, <1>2, <1>3, <1>5, <1>6

(* The loop has not got the mutex.                                                          *)
LEMMA AwayStep ==
  ASSUME Inv, NEW l \in TaskLoops, Stop(l) \/ Download(l) \/ EndDownload(l) \/ Relock(l)
  PROVE  Inv'
<1>0. /\ ManagersInv /\ task \in [TaskLoops -> Tasks \cup {NoTask}] /\ LoopOK(l)
      /\ loop \in [TaskLoops -> Outside \cup Before \cup {"load"} \cup Together]
      /\ chosen \in Games /\ rep \in Nat /\ LoopsInv
  BY DEF Inv, LoopsInv
<1>1. /\ UNCHANGED <<selfplay, rating, chosen, rep, gameTaskQueue, games, readOnly, main>>
      /\ loop[l] \in {"top", "download", "downloading", "failed"}
  BY DEF Stop, Download, EndDownload, Relock, Unlocked
<1>2. loop[l] # "end" /\ loop[l] \in Outside
  BY <1>1 DEF Outside
<1>3. ManagersInv' /\ CountsKept /\ NamesKept
  BY <1>0, <1>1, ManagersKept
<1>4. loop[l] # "top" => task[l] \in Tasks
  BY <1>0, <1>1 DEF LoopOK
<1>5. CASE Stop(l) \/ Download(l) \/ EndDownload(l)
  <2>1. PICK to \in Outside : /\ loop' = [loop EXCEPT ![l] = to] /\ UNCHANGED <<task, taskLoopMutex>>
                              /\ loop[l] = "top" => to = "end"
    BY <1>5 DEF Stop, Download, EndDownload, Unlocked, Outside
  <2>2. LoopsInv' /\ ChosenKept
    <3>1. task' \in [TaskLoops -> Tasks \cup {NoTask}] /\ \A k \in TaskLoops \ {l} : task'[k] = task[k]
      BY <1>0, <2>1
    <3>2. to \in {"top", "end"} \/ task'[l] \in Tasks
      BY <1>4, <2>1
    <3>3. UNCHANGED <<taskLoopMutex, chosen, rep>> /\ loop' = [loop EXCEPT ![l] = to]
      BY <1>1, <2>1
    <3> QED
      BY <1>0, <1>2, <1>3, <3>1, <3>2, <3>3, OthersStep
  <2> QED
    BY <1>1, <1>2, <1>3, <2>1, <2>2, QuietStep
<1>6. CASE Relock(l)
  <2>1. CASE ~(loop[l] = "download" /\ ~shouldStopGracefully)
    <3>1. PICK to \in {"end", "top"} : loop' = [loop EXCEPT ![l] = to]
      BY <1>6, <2>1 DEF Relock
    <3>2. task' = [task EXCEPT ![l] = NoTask] /\ UNCHANGED <<taskLoopMutex, chosen, rep>>
      BY <1>6, <2>1 DEF Relock
    <3>3. task' \in [TaskLoops -> Tasks \cup {NoTask}] /\ \A k \in TaskLoops \ {l} : task'[k] = task[k]
      BY <1>0, <3>2
    <3>4. to \in Outside
      BY DEF Outside
    <3>5. LoopsInv' /\ ChosenKept
      BY <1>0, <1>2, <1>3, <3>1, <3>2, <3>3, <3>4, OthersStep
    <3> QED
      BY <1>1, <1>2, <1>3, <3>1, <3>5, QuietStep
  <2>2. CASE loop[l] = "download" /\ ~shouldStopGracefully
    <3>1. /\ loop' = [loop EXCEPT ![l] = "present"] /\ taskLoopMutex = NoThread /\ taskLoopMutex' = l
          /\ UNCHANGED task
      BY <1>6, <2>2 DEF Relock
    <3>2. \A k \in TaskLoops : loop[k] \in Outside
      BY <3>1, ContributeAssumption DEF Inv, LoopsInv, LoopOK, ContributeAssumption
    <3>3. \A k \in TaskLoops : loop'[k] \in Outside \/ (k = l /\ loop'[k] = "present")
      BY <1>0, <3>1, <3>2
    <3>4. ChosenKept
      BY <3>2, <3>3 DEF ChosenKept, ChosenSides, Outside
    <3>5. ASSUME NEW k \in TaskLoops
          PROVE  LoopOK(k)'
      <4>1. loop'[k] \in {"present"} \cup Outside /\ (loop'[k] \in Outside <=> k # l)
        BY <3>1, <3>3, <1>0 DEF Outside
      <4>2. k # l => loop'[k] = loop[k]
        BY <1>0, <3>1
      <4>3. LoopOK(k) /\ task'[l] \in Tasks
        BY <1>4, <2>2, <3>1 DEF Inv, LoopsInv
      <4> QED
        BY <3>1, <4>1, <4>2, <4>3 DEF LoopOK, Outside, Together
    <3>6. LoopsInv'
      BY <1>0, <1>1, <3>1, <3>3, <3>5 DEF LoopsInv, Before
    <3> QED
      BY <1>1, <1>2, <1>3, <3>1, <3>4, <3>6, QuietStep
  <2> QED
    BY <2>1, <2>2
<1> QED
  BY <1>5, <1>6

(* The nets that nobody uses are unloaded, and managers are chosen for those of the task.    *)
LEMMA UnloadingStep ==
  ASSUME Inv, NEW l \in TaskLoops, UnloadSelfplay(l) \/ UnloadRating(l) \/ ChooseManagers(l)
  PROVE  Inv'
<1>0. /\ ManagersInv /\ task \in [TaskLoops -> Tasks \cup {NoTask}] /\ LoopOK(l)
      /\ loop \in [TaskLoops -> Outside \cup Before \cup {"load"} \cup Together]
      /\ chosen \in Games /\ rep \in Nat /\ LoopsInv
  BY DEF Inv, LoopsInv
<1>1. loop[l] \in {"unload", "unload_rating", "choose"} /\ taskLoopMutex' = l
  BY DEF UnloadSelfplay, UnloadRating, ChooseManagers, Locked, Step
<1>2. task[l] \in Tasks
  BY <1>0, <1>1 DEF LoopOK
<1>3. CASE UnloadSelfplay(l)
  <2>1. PICK old : UnloadsUnused("selfplay", old)
    BY <1>3 DEF UnloadSelfplay, UnloadsUnused
  <2>2. ManagersInv' /\ CountsKept
    BY <1>0, <2>1, UnloadStep DEF Managers, CountsKept
  <2> QED
    BY <1>0, <1>1, <1>2, <1>3, <2>2, GoOnStep DEF UnloadSelfplay, Locked, Nothing, Before
<1>4. CASE UnloadRating(l)
  <2>1. Step(l, "unload_rating", "choose") /\ UNCHANGED Nothing /\ UnloadsUnused("rating", Datas)
    BY <1>4 DEF UnloadRating, Locked, UnloadsUnused
  <2>2. ManagersInv' /\ CountsKept
    BY <1>0, <2>1, UnloadStep DEF Managers, CountsKept
  <2> QED
    BY <1>0, <1>1, <1>2, <2>1, <2>2, GoOnStep DEF Nothing, Before
<1>5. CASE ChooseManagers(l)
  <2>1. /\ Step(l, "choose", "load")
        /\ UNCHANGED <<selfplay, rating, task, rep, gameTaskQueue>>
        /\ chosen' = [NoGame EXCEPT !.isRatingGame = task[l].isRatingGame,
             !.manager = [i \in Sides |-> IF ~task[l].isRatingGame \/ S!ModelsNamed(task[l].model[i]) # {}
                                          THEN "selfplay" ELSE "rating"]]
    BY <1>5 DEF ChooseManagers, Locked
  <2>2. task[l].isRatingGame \in BOOLEAN
    BY <1>2, TaskNames
  <2>3. /\ chosen' \in Games /\ chosen'.isRatingGame = task[l].isRatingGame
        /\ \A i \in Sides : /\ chosen'.manager[i] \in Managers
                            /\ chosen'.manager[i] = "rating" => task[l].isRatingGame
    BY <2>1, <2>2 DEF Games, NoGame, Managers, Sides
  <2>4. loop'[l] = "load"
    BY <1>0, <2>1 DEF Step
  <2>5. LoopOK(l)'
    BY <1>1, <1>2, <2>1, <2>3, <2>4 DEF LoopOK, Outside, Together
  <2>6. ManagersInv' /\ CountsKept
    BY <1>0, <2>1, ManagersKept
  <2> QED
    BY <1>0, <1>1, <2>1, <2>3, <2>5, <2>6, PreparingStep DEF Before
<1> QED
  BY <1>3, <1>4, <1>5

(* The nets that are not loaded are loaded; then the first game is put together.             *)
LEMMA LoadingStep ==
  ASSUME Inv, NEW l \in TaskLoops, Load(l) \/ LoadFails(l) \/ Loaded(l)
  PROVE  Inv'
<1>0. /\ ManagersInv /\ task \in [TaskLoops -> Tasks \cup {NoTask}] /\ LoopOK(l)
      /\ loop \in [TaskLoops -> Outside \cup Before \cup {"load"} \cup Together]
      /\ chosen \in Games /\ rep \in Nat /\ LoopsInv /\ taskRepFactor \in Nat \ {0}
  BY ContributeAssumption DEF Inv, LoopsInv, ContributeAssumption
<1>1. CASE Load(l)
  <2>1. /\ Step(l, "load", "load") /\ UNCHANGED taskLoopMutex /\ UNCHANGED Nothing
        /\ loop[l] = "load" /\ taskLoopMutex = l
    BY <1>1 DEF Load, Locked, Step
  <2>2. PICK i \in Sides, d \in Datas :
          /\ ~(IF chosen.manager[i] = "selfplay" THEN sData ELSE rData)[d].alive
          /\ LoadModel(chosen.manager[i], d, task[l].model[i])
    BY <1>1 DEF Load
  <2>3. task[l] \in Tasks /\ chosen.manager[i] \in Managers
    BY <1>0, <2>1 DEF LoopOK
  <2>4. task[l].model[i] \in Names /\ ~DataOf(chosen.manager[i])[d].alive
    BY <2>2, <2>3, TaskNames DEF DataOf
  <2>5. ManagersInv' /\ CountsKept
    BY <1>0, <2>2, <2>3, <2>4, LoadStep DEF CountsKept
  <2>6. loop'[l] = "load" /\ UNCHANGED <<task, chosen, rep, gameTaskQueue>>
    BY <1>0, <2>1 DEF Step, Nothing
  <2>7. LoopOK(l)'
    BY <1>0, <2>1, <2>6 DEF LoopOK, Together
  <2> QED
    BY <1>0, <2>1, <2>5, <2>6, <2>7, PreparingStep
<1>2. CASE LoadFails(l)
  BY <1>2, NextTaskStep DEF LoadFails
<1>3. CASE Loaded(l)
  <2>1. CASE NextTask(l, "load")
    BY <1>3, <2>1, NextTaskStep DEF Loaded
  <2>2. CASE Locked(l, "load", "acquire_black") /\ rep' = 1 /\ UNCHANGED <<task, chosen>>
    <3>1. /\ Step(l, "load", "acquire_black") /\ taskLoopMutex = l /\ taskLoopMutex' = l /\ loop[l] = "load"
          /\ UNCHANGED <<selfplay, rating, gameTaskQueue>> /\ ToLoad(l) = {}
      BY <1>3, <2>2 DEF Loaded, Locked, Step
    <3>2. ManagersInv' /\ CountsKept /\ NamesKept
      BY <1>0, <3>1, ManagersKept
    <3>3. ToLoad(l)' = {}
      BY <1>0, <2>2, <3>1, <3>2, ToLoadKept
    <3>4. loop'[l] = "acquire_black"
      BY <1>0, <3>1 DEF Step
    <3>5. LoopOK(l)'
      BY <1>0, <2>2, <3>1, <3>3, <3>4 DEF LoopOK, Outside, Together
    <3> QED
      BY <1>0, <2>2, <3>1, <3>2, <3>5, PreparingStep
  <2> QED
    BY <1>3, <2>1, <2>2 DEF Loaded
<1> QED
  BY <1>1, <1>2, <1>3

-------------------------------------------------------------------------------
(* Counting sides.                                                                          *)
LEMMA CountSides ==
  ASSUME NEW T \in SUBSET Sides
  PROVE  /\ IsFiniteSet(T) /\ Cardinality(T) \in Nat
         /\ Cardinality(T) = (IF 1 \in T THEN 1 ELSE 0) + (IF 2 \in T THEN 1 ELSE 0)
<1>1. /\ IsFiniteSet({}) /\ Cardinality({}) = 0
      /\ IsFiniteSet({1}) /\ Cardinality({1}) = 1
      /\ IsFiniteSet({2}) /\ Cardinality({2}) = 1
  BY FS_EmptySet, FS_Singleton
<1>2. IsFiniteSet({1} \cup {2}) /\ Cardinality({1} \cup {2}) = 2
  <2>1. Cardinality({1} \cup {2}) = Cardinality({1}) + 1 /\ IsFiniteSet({1} \cup {2})
    <3>1. 2 \notin {1}
      OBVIOUS
    <3> QED
      BY ONLY <1>1, <3>1, FS_AddElement
  <2> QED
    BY <1>1, <2>1
<1>3. CASE 1 \in T /\ 2 \in T
  <2>1. T = {1} \cup {2}
    BY <1>3 DEF Sides
  <2> QED
    BY <1>2, <2>1
<1>4. CASE 1 \in T /\ 2 \notin T
  <2>1. T = {1}
    BY <1>4 DEF Sides
  <2> QED
    BY <1>1, <2>1
<1>5. CASE 1 \notin T /\ 2 \in T
  <2>1. T = {2}
    BY <1>5 DEF Sides
  <2> QED
    BY <1>1, <2>1
<1>6. CASE 1 \notin T /\ 2 \notin T
  <2>1. T = {}
    BY <1>6 DEF Sides
  <2> QED
    BY <1>1, <2>1
<1> QED
  BY <1>3, <1>4, <1>5, <1>6

(* Sides of games that are played.                                                          *)
LEMMA FinitePairs ==
  ASSUME NEW A \in SUBSET (GameThreads \X Sides)
  PROVE  IsFiniteSet(A) /\ Cardinality(A) \in Nat
<1>1. IsFiniteSet(Sides) /\ IsFiniteSet(GameThreads)
  BY CountSides, ContributeAssumption DEF ContributeAssumption
<1>2. IsFiniteSet(GameThreads \X Sides)
  BY ONLY <1>1, FS_Product
<1>3. IsFiniteSet(A)
  BY ONLY <1>2, A \in SUBSET (GameThreads \X Sides), FS_Subset
<1> QED
  BY ONLY <1>3, FS_CardinalityType

(* A game that begins adds its sides.                                                       *)
LEMMA AddSides ==
  ASSUME NEW A \in SUBSET (GameThreads \X Sides), NEW g \in GameThreads, NEW T \in SUBSET Sides,
         \A i \in Sides : <<g, i>> \notin A
  PROVE  Cardinality(A \cup {<<g, i>> : i \in T}) = Cardinality(A) + Cardinality(T)
<1> DEFINE B == IF 1 \in T THEN A \cup {<<g, 1>>} ELSE A
           C == IF 2 \in T THEN B \cup {<<g, 2>>} ELSE B
<1>1. IsFiniteSet(A) /\ Cardinality(A) \in Nat
  BY FinitePairs
<1>2. IsFiniteSet(B) /\ Cardinality(B) = Cardinality(A) + (IF 1 \in T THEN 1 ELSE 0)
  <2>1. <<g, 1>> \notin A
    BY DEF Sides
  <2>2. CASE 1 \in T
    BY <1>1, <2>1, <2>2, FS_AddElement
  <2>3. CASE 1 \notin T
    BY <1>1, <2>3
  <2> QED
    BY <2>2, <2>3
<1>3. Cardinality(C) = Cardinality(B) + (IF 2 \in T THEN 1 ELSE 0)
  <2>1. <<g, 2>> \notin A /\ <<g, 2>> # <<g, 1>>
    BY DEF Sides
  <2>2. CASE 2 \in T
    <3>1. <<g, 2>> \notin B /\ C = B \cup {<<g, 2>>}
      BY <2>1, <2>2
    <3> HIDE DEF B, C
    <3>2. Cardinality(B \cup {<<g, 2>>}) = Cardinality(B) + 1
      BY ONLY <1>2, <3>1, FS_AddElement
    <3> QED
      BY <2>2, <3>1, <3>2
  <2>3. CASE 2 \notin T
    BY <1>1, <1>2, <2>3
  <2> QED
    BY <2>2, <2>3
<1>4. A \cup {<<g, i>> : i \in T} = C
  <2>1. ASSUME NEW p
        PROVE  p \in A \cup {<<g, i>> : i \in T} <=> p \in C
    <3>1. (\E i \in T : p = <<g, i>>) <=> (1 \in T /\ p = <<g, 1>>) \/ (2 \in T /\ p = <<g, 2>>)
      BY DEF Sides
    <3>2. p \in A \cup {<<g, i>> : i \in T} <=> p \in A \/ \E i \in T : p = <<g, i>>
      OBVIOUS
    <3>3. p \in B <=> p \in A \/ (1 \in T /\ p = <<g, 1>>)
      OBVIOUS
    <3> HIDE DEF B
    <3>4. p \in C <=> p \in B \/ (2 \in T /\ p = <<g, 2>>)
      OBVIOUS
    <3> QED
      BY <3>1, <3>2, <3>3, <3>4
  <2> QED
    BY <2>1
<1> HIDE DEF B, C
<1>5. Cardinality(T) = (IF 1 \in T THEN 1 ELSE 0) + (IF 2 \in T THEN 1 ELSE 0)
  BY CountSides
<1>6. Cardinality(C) = Cardinality(A) + Cardinality(T)
  BY ONLY <1>1, <1>2, <1>3, <1>5
<1> QED
  BY ONLY <1>4, <1>6, Zenon

(* acquireModel finds the net that has been loaded.                                         *)
LEMMA AcquireFinds ==
  ASSUME Inv, NEW l \in TaskLoops, NEW i \in Sides, NEW from \in Together, NEW to, Acquire(l, i, from, to)
  PROVE  \E m \in Managers, d \in Datas :
           /\ m = chosen.manager[i] /\ chosen' = [chosen EXCEPT !.nnEval[i] = d]
           /\ ManagersInv' /\ NamesKept /\ rModelDatas' = rModelDatas
           /\ \A k \in Managers, e \in Datas : DataOf(k)'[e].acquireCount =
                DataOf(k)[e].acquireCount + (IF k = m /\ e = d THEN 1 ELSE 0)
<1>1. /\ ManagersInv /\ LoopOK(l) /\ loop[l] = from
      /\ LET found == ModelsNamed(chosen.manager[i], task[l].model[i])
         IN  IF found = {} THEN chosen' = [chosen EXCEPT !.nnEval[i] = NoModel] /\ UNCHANGED <<selfplay, rating>>
             ELSE \E d \in found : AcquireModel(chosen.manager[i], d) /\ chosen' = [chosen EXCEPT !.nnEval[i] = d]
  BY DEF Acquire, Locked, Step, Inv, LoopsInv
<1>2. PICK m \in Managers : m = chosen.manager[i]
  BY <1>1 DEF LoopOK
<1>3. ModelsNamed(m, task[l].model[i]) # {}
  BY <1>1, <1>2 DEF LoopOK, ToLoad
<1>4. PICK d \in ModelsNamed(m, task[l].model[i]) :
        AcquireModel(m, d) /\ chosen' = [chosen EXCEPT !.nnEval[i] = d]
  BY <1>1, <1>2, <1>3
<1>5. d \in ToSet(ModelsOf(m))
  BY NamedModels DEF Named
<1>6. d \in Datas
  BY <1>1, <1>5, Elements DEF ManagersInv, Managed
<1>7. /\ ManagersInv' /\ NamesKept /\ \A k \in Managers : ModelsOf(k)' = ModelsOf(k)
      /\ \A k \in Managers, e \in Datas : DataOf(k)'[e].acquireCount =
           DataOf(k)[e].acquireCount + (IF k = m /\ e = d THEN 1 ELSE 0)
  BY <1>1, <1>4, <1>5, AcquireStep DEF NamesKept
<1>8. rModelDatas' = rModelDatas
  BY <1>7 DEF ModelsOf, Managers
<1> QED
  BY <1>2, <1>4, <1>6, <1>7, <1>8

(* One more use is that of one more side of the game that is put together.                   *)
LEMMA AcquiredHolds ==
  ASSUME Inv, NEW i \in Sides, NEW m \in Managers, NEW d \in Datas, m = chosen.manager[i],
         chosen' = [chosen EXCEPT !.nnEval[i] = d], ChosenSides \in SUBSET Sides, i \notin ChosenSides,
         ChosenSides' = ChosenSides \cup {i}, UNCHANGED <<gameTaskQueue, game, gameTask>>,
         \A k \in Managers, e \in Datas : DataOf(k)'[e].acquireCount =
           DataOf(k)[e].acquireCount + (IF k = m /\ e = d THEN 1 ELSE 0)
  PROVE  HoldsInv'
<1> SUFFICES ASSUME NEW k \in Managers, NEW e \in Datas
             PROVE  (Holds(k, e) = DataOf(k)[e].acquireCount)'
  BY DEF HoldsInv
<1>0. /\ chosen \in Games /\ chosen' \in Games
      /\ Holds(k, e) = DataOf(k)[e].acquireCount
  BY DEF Inv, LoopsInv, HoldsInv, Games
<1>1. /\ chosen'.manager = chosen.manager /\ chosen'.nnEval[i] = d
      /\ \A j \in Sides \ {i} : chosen'.nnEval[j] = chosen.nnEval[j]
  BY <1>0 DEF Games
<1>2. PICK A : A = HeldBy(chosen, ChosenSides, k, e)
  OBVIOUS
<1>3. PICK B : B = HeldBy(chosen', ChosenSides', k, e)
  OBVIOUS
<1>4. /\ A \in SUBSET Sides /\ B \in SUBSET Sides
      /\ \A j \in Sides \ {i} : j \in B <=> j \in A
      /\ i \notin A /\ (i \in B <=> k = m /\ e = d)
  BY <1>1, <1>2, <1>3 DEF HeldBy
<1>5. Cardinality(B) = Cardinality(A) + (IF k = m /\ e = d THEN 1 ELSE 0) /\ Cardinality(A) \in Nat
  <2>1. /\ Cardinality(A) = (IF 1 \in A THEN 1 ELSE 0) + (IF 2 \in A THEN 1 ELSE 0)
        /\ Cardinality(B) = (IF 1 \in B THEN 1 ELSE 0) + (IF 2 \in B THEN 1 ELSE 0)
        /\ Cardinality(A) \in Nat
    BY <1>4, CountSides
  <2>2. i \in {1, 2} /\ Sides = {1, 2}
    BY DEF Sides
  <2> QED
    BY ONLY <1>4, <2>1, <2>2
<1>6. Queued(k, e)' = Queued(k, e) /\ Played(k, e)' = Played(k, e)
  BY DEF Queued, Played, HeldBy, PlayedSides
<1>7. Cardinality(Queued(k, e)) \in Nat /\ Cardinality(Played(k, e)) \in Nat
  <2>1. Queued(k, e) \in SUBSET Sides /\ Played(k, e) \in SUBSET (GameThreads \X Sides)
    BY DEF Queued, Played, HeldBy
  <2> QED
    BY <2>1, CountSides, FinitePairs
<1>8. /\ Holds(k, e) = Cardinality(A) + Cardinality(Queued(k, e)) + Cardinality(Played(k, e))
      /\ Holds(k, e)' = Cardinality(B) + Cardinality(Queued(k, e)) + Cardinality(Played(k, e))
  <2>1. /\ HeldBy(chosen, ChosenSides, k, e)' = B
    BY <1>3 DEF HeldBy
  <2> QED
    BY <1>2, <1>6, <2>1 DEF Holds
<1>9. Holds(k, e)' = Holds(k, e) + (IF k = m /\ e = d THEN 1 ELSE 0)
  BY <1>5, <1>7, <1>8
<1>10. DataOf(k)'[e].acquireCount = DataOf(k)[e].acquireCount + (IF k = m /\ e = d THEN 1 ELSE 0)
  OBVIOUS
<1> QED
  BY <1>0, <1>9, <1>10

(* The nets of a game are acquired.                                                         *)
LEMMA AcquiringStep ==
  ASSUME Inv, NEW l \in TaskLoops, AcquireBlack(l) \/ AcquireWhite(l)
  PROVE  Inv'
<1>0. /\ ManagersInv /\ task \in [TaskLoops -> Tasks \cup {NoTask}] /\ LoopOK(l)
      /\ loop \in [TaskLoops -> Outside \cup Before \cup {"load"} \cup Together]
      /\ chosen \in Games /\ rep \in Nat /\ LoopsInv
  BY DEF Inv, LoopsInv
<1>1. PICK i \in Sides, from \in {"acquire_black", "acquire_white"}, to \in {"acquire_white", "push"} :
        /\ Acquire(l, i, from, to)
        /\ from = "acquire_black" <=> i = 1
        /\ from = "acquire_black" <=> to = "acquire_white"
  BY DEF AcquireBlack, AcquireWhite, Sides
<1>2. /\ Step(l, from, to) /\ taskLoopMutex = l /\ taskLoopMutex' = l
      /\ UNCHANGED <<task, rep, gameTaskQueue>> /\ from \in Together
  BY <1>1 DEF Acquire, Locked, Step, Together
<1>3. PICK m \in Managers, d \in Datas :
           /\ m = chosen.manager[i] /\ chosen' = [chosen EXCEPT !.nnEval[i] = d]
           /\ ManagersInv' /\ NamesKept
           /\ \A k \in Managers, e \in Datas : DataOf(k)'[e].acquireCount =
                DataOf(k)[e].acquireCount + (IF k = m /\ e = d THEN 1 ELSE 0)
  BY <1>1, <1>2, AcquireFinds
<1>4. /\ chosen' \in Games /\ chosen'.manager = chosen.manager
      /\ chosen'.isRatingGame = chosen.isRatingGame /\ chosen'.nnEval[i] = d
      /\ \A j \in Sides \ {i} : chosen'.nnEval[j] = chosen.nnEval[j]
  BY <1>0, <1>3 DEF Games
<1>5. loop[l] = from /\ loop'[l] = to /\ loop' = [loop EXCEPT ![l] = to]
  BY <1>0, <1>2 DEF Step
<1>6. ToLoad(l)' = {} /\ rep' \in 1..taskRepFactor
  <2>1. ToLoad(l)' = ToLoad(l)
    BY <1>0, <1>2, <1>3, <1>4, <1>5, ToLoadKept DEF Together
  <2> QED
    BY <1>0, <1>2, <1>5, <2>1 DEF LoopOK
<1>7. LoopOK(l)'
  <2>1. /\ task[l] \in Tasks /\ chosen.isRatingGame = task[l].isRatingGame
        /\ \A j \in Sides : /\ chosen.manager[j] \in Managers
                            /\ chosen.manager[j] = "rating" => task[l].isRatingGame
        /\ i = 2 => chosen.nnEval[1] \in Datas
    BY <1>0, <1>1, <1>2, <1>5 DEF LoopOK, Together, Sides
  <2>2. chosen'.nnEval[1] \in Datas /\ (to = "push" => chosen'.nnEval[2] \in Datas)
    BY <1>1, <1>4, <2>1 DEF Sides
  <2> QED
    BY <1>2, <1>4, <1>5, <1>6, <2>1, <2>2 DEF LoopOK, Outside, Together
<1>8. LoopsInv'
  BY <1>0, <1>2, <1>4, <1>5, <1>7, OwnersStep DEF Together
<1>9. ChosenSides' = ChosenSides \cup {i} /\ i \notin ChosenSides /\ ChosenSides \in SUBSET Sides
  <2>1. ChosenSides = IF i = 1 THEN {} ELSE {1}
    BY <1>0, <1>1, <1>2, <1>5, ChosenAt
  <2>2. ChosenSides' = IF i = 1 THEN {1} ELSE Sides
    <3>1. \A k \in TaskLoops \ {l} : loop'[k] \in Outside
      BY <1>0, <1>2, <1>5, ChosenAt
    <3> QED
      BY <1>1, <1>5, <3>1 DEF ChosenSides, Outside
  <2> QED
    BY <2>1, <2>2 DEF Sides
<1>10. UNCHANGED <<games, readOnly, main>>
  BY <1>2 DEF Step
<1>11. HoldsInv'
  BY <1>2, <1>3, <1>9, <1>10, AcquiredHolds DEF games
<1>12. GamesInv'
  BY <1>1, <1>2, <1>5, <1>10 DEF Inv, GamesInv, games
<1> QED
  BY <1>3, <1>8, <1>11, <1>12 DEF Inv

(* Whoever plays which side, a game has the same nets.                                       *)
LEMMA SwappedHolds ==
  ASSUME NEW c \in Games, NEW g \in {c, Swapped(c)}
  PROVE  /\ g \in Games /\ g.isRatingGame = c.isRatingGame
         /\ (\A i \in Sides : c.manager[i] \in Managers /\ c.nnEval[i] \in Datas) => GoodGame(g)
         /\ \A k, e : Cardinality(HeldBy(g, Sides, k, e)) = Cardinality(HeldBy(c, Sides, k, e))
<1>1. CASE g = c
  BY <1>1 DEF GoodGame
<1>2. CASE g = Swapped(c)
  <2>1. \A i \in Sides : 3 - i \in Sides
    BY DEF Sides
  <2>2. /\ g \in Games /\ g.isRatingGame = c.isRatingGame
        /\ \A i \in Sides : g.manager[i] = c.manager[3 - i] /\ g.nnEval[i] = c.nnEval[3 - i]
    BY <1>2, <2>1 DEF Swapped, Games
  <2>3. ASSUME NEW k, NEW e
        PROVE  Cardinality(HeldBy(g, Sides, k, e)) = Cardinality(HeldBy(c, Sides, k, e))
    <3>1. PICK A \in SUBSET Sides : A = HeldBy(g, Sides, k, e)
      BY DEF HeldBy
    <3>2. PICK B \in SUBSET Sides : B = HeldBy(c, Sides, k, e)
      BY DEF HeldBy
    <3>3. (1 \in A <=> 2 \in B) /\ (2 \in A <=> 1 \in B)
      <4>1. \A i \in Sides : i \in A <=> 3 - i \in B
        BY <2>1, <2>2, <3>1, <3>2 DEF HeldBy
      <4>2. 3 - 1 = 2 /\ 3 - 2 = 1 /\ 1 \in Sides /\ 2 \in Sides
        BY DEF Sides
      <4> QED
        BY <4>1, <4>2
    <3>4. /\ Cardinality(A) = (IF 1 \in A THEN 1 ELSE 0) + (IF 2 \in A THEN 1 ELSE 0)
          /\ Cardinality(B) = (IF 1 \in B THEN 1 ELSE 0) + (IF 2 \in B THEN 1 ELSE 0)
      BY CountSides
    <3>5. Cardinality(A) = Cardinality(B)
      BY ONLY <3>3, <3>4
    <3> QED
      BY <3>1, <3>2, <3>5
  <2> QED
    BY <2>1, <2>2, <2>3 DEF GoodGame
<1> QED
  BY <1>1, <1>2

(* The game is handed over.                                                                 *)
LEMMA PushingStep ==
  ASSUME Inv, NEW l \in TaskLoops, PushGame(l)
  PROVE  Inv'
<1>0. /\ ManagersInv /\ task \in [TaskLoops -> Tasks \cup {NoTask}] /\ LoopOK(l)
      /\ loop \in [TaskLoops -> Outside \cup Before \cup {"load"} \cup Together]
      /\ chosen \in Games /\ rep \in Nat /\ LoopsInv /\ taskRepFactor \in Nat \ {0}
  BY ContributeAssumption DEF Inv, LoopsInv, ContributeAssumption
<1>1. PICK to \in Outside \cup {"acquire_black"} : Step(l, "push", to)
  BY DEF PushGame, Locked, NextTask, Unlock, Outside
<1>2. /\ taskLoopMutex = l /\ loop[l] = "push" /\ loop' = [loop EXCEPT ![l] = to] /\ loop'[l] = to
      /\ UNCHANGED <<games, readOnly, main, selfplay, rating>>
  BY <1>0, <1>1 DEF Step, PushGame
<1>3. ManagersInv' /\ CountsKept /\ NamesKept
  BY <1>0, <1>2, ManagersKept
<1>4. LoopsInv'
  <2>1. CASE rep < taskRepFactor
    <3>1. /\ Step(l, "push", "acquire_black") /\ rep' = rep + 1 /\ UNCHANGED <<taskLoopMutex, task, chosen>>
      BY <2>1 DEF PushGame, Locked
    <3>2. ToLoad(l)' = {} /\ rep' \in 1..taskRepFactor
      <4>1. ToLoad(l)' = ToLoad(l)
        BY <1>0, <1>2, <1>3, <3>1, ToLoadKept DEF Together
      <4> QED
        BY <1>0, <1>2, <2>1, <3>1, <4>1 DEF LoopOK, Together
    <3>3. loop' = [loop EXCEPT ![l] = "acquire_black"] /\ loop'[l] = "acquire_black"
      BY <1>0, <3>1 DEF Step
    <3>4. LoopOK(l)'
      BY <1>0, <1>2, <3>1, <3>2, <3>3 DEF LoopOK, Outside, Together
    <3>5. /\ task' \in [TaskLoops -> Tasks \cup {NoTask}] /\ \A k \in TaskLoops \ {l} : task'[k] = task[k]
          /\ chosen' \in Games /\ rep' \in Nat /\ taskLoopMutex' \in {l, NoThread}
      BY <1>0, <1>2, <3>1
    <3> QED
      BY <1>0, <1>2, <3>3, <3>4, <3>5, OwnersStep DEF Together
  <2>2. CASE ~(rep < taskRepFactor)
    <3>1. NextTask(l, "push")
      BY <2>2 DEF PushGame
    <3>2. PICK out \in {"end", "top"} : Unlock(l, "push", out)
      BY <3>1 DEF NextTask
    <3>3. /\ task' = [task EXCEPT ![l] = NoTask] /\ chosen' = NoGame /\ rep' = 0
          /\ taskLoopMutex' = NoThread /\ loop' = [loop EXCEPT ![l] = out] /\ loop'[l] = out
      BY <1>0, <3>1, <3>2 DEF NextTask, Unlock, Step
    <3>4. NoGame \in Games /\ 0 \in Nat
      BY DEF NoGame, Games, Sides
    <3>5. LoopOK(l)'
      BY <3>3, ContributeAssumption DEF LoopOK, Outside, Together, ContributeAssumption
    <3>6. task' \in [TaskLoops -> Tasks \cup {NoTask}] /\ \A k \in TaskLoops \ {l} : task'[k] = task[k]
      BY <1>0, <3>3
    <3> QED
      BY <1>0, <1>2, <3>3, <3>4, <3>5, <3>6, OwnersStep DEF Outside
  <2> QED
    BY <2>1, <2>2
<1>5. PICK g \in {chosen, Swapped(chosen)} : gameTaskQueue = <<>> /\ gameTaskQueue' = <<g>>
  BY DEF PushGame
<1>6. /\ g \in Games /\ GoodGame(g)
      /\ \A m, d : Cardinality(HeldBy(g, Sides, m, d)) = Cardinality(HeldBy(chosen, Sides, m, d))
  <2>1. \A i \in Sides : chosen.manager[i] \in Managers /\ chosen.nnEval[i] \in Datas
    BY <1>0, <1>2 DEF LoopOK, Together, Sides
  <2> QED
    BY <1>0, <2>1, SwappedHolds
<1>7. ChosenSides = Sides /\ ChosenSides' = {}
  <2>1. \A k \in TaskLoops \ {l} : loop'[k] \in Outside
    BY <1>0, <1>2, ChosenAt
  <2> QED
    BY <1>0, <1>2, <2>1, ChosenAt DEF ChosenSides, Outside
<1>8. HoldsInv'
  <2> SUFFICES ASSUME NEW k \in Managers, NEW e \in Datas
               PROVE  (Holds(k, e) = DataOf(k)[e].acquireCount)'
    BY DEF HoldsInv
  <2>1. Holds(k, e) = DataOf(k)[e].acquireCount
    BY DEF Inv, HoldsInv
  <2>2. Played(k, e)' = Played(k, e)
    BY <1>2 DEF Played, HeldBy, PlayedSides, games
  <2>3. Queued(k, e)' = HeldBy(g, Sides, k, e) /\ Queued(k, e) = {}
    BY <1>5 DEF Queued, HeldBy
  <2>4. HeldBy(chosen, ChosenSides, k, e)' = {}
    BY <1>7 DEF HeldBy
  <2>5. Cardinality({}) = 0
    BY FS_EmptySet
  <2>6. Cardinality(HeldBy(g, Sides, k, e)) \in Nat /\ Cardinality(Played(k, e)) \in Nat
    <3>1. HeldBy(g, Sides, k, e) \in SUBSET Sides /\ Played(k, e) \in SUBSET (GameThreads \X Sides)
      BY DEF HeldBy, Played
    <3> QED
      BY <3>1, CountSides, FinitePairs
  <2>7. Holds(k, e)' = 0 + Cardinality(HeldBy(g, Sides, k, e)) + Cardinality(Played(k, e))
    BY <2>2, <2>3, <2>4, <2>5 DEF Holds
  <2>8. Holds(k, e) = Cardinality(HeldBy(g, Sides, k, e)) + 0 + Cardinality(Played(k, e))
    BY <1>6, <1>7, <2>3, <2>5 DEF Holds
  <2>9. Holds(k, e)' = Holds(k, e)
    BY <2>6, <2>7, <2>8
  <2>10. DataOf(k)'[e].acquireCount = DataOf(k)[e].acquireCount
    BY <1>3 DEF CountsKept
  <2> QED
    BY <2>1, <2>9, <2>10
<1>9. GamesInv'
  <2>1. gameTaskQueue' \in Seq(Games) /\ Len(gameTaskQueue') = 1 /\ Head(gameTaskQueue') = g
    BY <1>5, <1>6
  <2>2. ~readOnly /\ \A h \in GameThreads : game[h] # "end"
    BY <1>2 DEF Inv, GamesInv
  <2> QED
    BY <1>2, <1>6, <2>1, <2>2 DEF Inv, GamesInv, games, GoodGame
<1> QED
  BY <1>3, <1>4, <1>8, <1>9 DEF Inv

-------------------------------------------------------------------------------
(* The parts of the sum are numbers.                                                        *)
LEMMA HeldParts ==
  ASSUME NEW m, NEW d
  PROVE  /\ ChosenSides \in SUBSET Sides
         /\ Cardinality(HeldBy(chosen, ChosenSides, m, d)) \in Nat
         /\ Queued(m, d) \in SUBSET Sides /\ Cardinality(Queued(m, d)) \in Nat
         /\ Played(m, d) \in SUBSET (GameThreads \X Sides) /\ Cardinality(Played(m, d)) \in Nat
         /\ IsFiniteSet(Played(m, d))
<1>1. ChosenSides \in SUBSET Sides
  BY DEF ChosenSides, Sides
<1>2. /\ HeldBy(chosen, ChosenSides, m, d) \in SUBSET Sides /\ Queued(m, d) \in SUBSET Sides
      /\ Played(m, d) \in SUBSET (GameThreads \X Sides)
  BY <1>1 DEF HeldBy, Queued, Played
<1> QED
  BY <1>1, <1>2, CountSides, FinitePairs

(* A model that is used is there.                                                           *)
LEMMA UsedIsThere ==
  ASSUME ManagersInv, NEW m \in Managers, NEW d \in Datas, DataOf(m)[d].acquireCount > 0
  PROVE  d \in ToSet(ModelsOf(m)) \ RemovingOf(m) /\ DataOf(m)[d].alive
<1>1. Managed(ModelsOf(m), DataOf(m), RemovingOf(m))
  BY DEF ManagersInv
<1>2. Gone.acquireCount = 0 /\ ~(0 > 0)
  BY DEF Gone
<1> QED
  BY <1>1, <1>2 DEF Managed

(* After the only element nothing comes.                                                    *)
LEMMA OneIsLeft ==
  ASSUME NEW s \in Seq(Games), Len(s) = 1
  PROVE  Tail(s) = <<>>
<1>1. Tail(s) \in Seq(Games) /\ Len(Tail(s)) = 0
  BY HeadTailProperties
<1> QED
  BY <1>1, EmptySeq

(* A thread takes the game of the queue.                                                    *)
LEMMA PoppingStep ==
  ASSUME Inv, NEW g \in GameThreads, PopGame(g)
  PROVE  Inv'
<1>1. /\ UNCHANGED <<loops, readOnly, main, selfplay, rating>>
      /\ game[g] = "pop" /\ game' = [game EXCEPT ![g] = "play"]
      /\ gameTaskQueue # <<>> /\ gameTaskQueue' = Tail(gameTaskQueue)
      /\ gameTask' = [gameTask EXCEPT ![g] = Head(gameTaskQueue)]
  BY DEF PopGame, GameStep
<1>2. ManagersInv' /\ CountsKept /\ NamesKept
  BY <1>1, ManagersKept DEF Inv
<1>3. LoopsInv' /\ ChosenKept
  BY <1>1, <1>2, OutsidersStep DEF Inv
<1>4. PICK t \in Games : t = Head(gameTaskQueue) /\ GoodGame(t)
  BY <1>1 DEF Inv, GamesInv, GoodGame
<1>5. gameTaskQueue' = <<>>
  <2>1. gameTaskQueue \in Seq(Games) /\ Len(gameTaskQueue) = 1
    BY <1>1 DEF Inv, GamesInv
  <2> QED
    BY <1>1, <2>1, OneIsLeft
<1>6. /\ game \in [GameThreads -> {"pop", "play", "release_white", "count", "end"}]
      /\ gameTask \in [GameThreads -> Games]
  BY DEF Inv, GamesInv
<1>7. /\ game'[g] = "play" /\ gameTask'[g] = t
      /\ \A h \in GameThreads \ {g} : game'[h] = game[h] /\ gameTask'[h] = gameTask[h]
      /\ game' \in [GameThreads -> {"pop", "play", "release_white", "count", "end"}]
      /\ gameTask' \in [GameThreads -> Games]
  BY <1>1, <1>4, <1>6
<1>8. GamesInv'
  <2>1. UNCHANGED loop /\ <<>> \in Seq(Games)
    BY <1>1 DEF loops
  <2>2. \A h \in GameThreads : game[h] # "end"
    BY <1>1 DEF Inv, GamesInv
  <2> QED
    BY <1>1, <1>4, <1>5, <1>7, <2>1, <2>2 DEF Inv, GamesInv, GoodGame
<1>9. HoldsInv'
  <2> SUFFICES ASSUME NEW k \in Managers, NEW e \in Datas
               PROVE  (Holds(k, e) = DataOf(k)[e].acquireCount)'
    BY DEF HoldsInv
  <2>1. Holds(k, e) = DataOf(k)[e].acquireCount
    BY DEF Inv, HoldsInv
  <2>2. HeldBy(chosen, ChosenSides, k, e)' = HeldBy(chosen, ChosenSides, k, e)
    BY <1>3 DEF ChosenKept, HeldBy
  <2>3. Queued(k, e)' = {} /\ Queued(k, e) = HeldBy(t, Sides, k, e)
    BY <1>1, <1>4, <1>5 DEF Queued
  <2>4. Played(k, e)' = Played(k, e) \cup {<<g, i>> : i \in HeldBy(t, Sides, k, e)}
    <3>1. ASSUME NEW h \in GameThreads, NEW i \in Sides
          PROVE  (i \in HeldBy(gameTask[h], PlayedSides(h), k, e))' <=>
                   IF h = g THEN i \in HeldBy(t, Sides, k, e)
                   ELSE i \in HeldBy(gameTask[h], PlayedSides(h), k, e)
      BY <1>7 DEF HeldBy, PlayedSides
    <3>2. HeldBy(gameTask[g], PlayedSides(g), k, e) = {}
      BY <1>1 DEF HeldBy, PlayedSides
    <3>3. HeldBy(t, Sides, k, e) \subseteq Sides
      BY DEF HeldBy
    <3> QED
      BY <3>1, <3>2, <3>3 DEF Played
  <2>5. \A i \in Sides : <<g, i>> \notin Played(k, e)
    BY <1>1 DEF Played, HeldBy, PlayedSides
  <2>6. Cardinality(Played(k, e))' = Cardinality(Played(k, e)) + Cardinality(HeldBy(t, Sides, k, e))
    <3>1. HeldBy(t, Sides, k, e) \in SUBSET Sides /\ Played(k, e) \in SUBSET (GameThreads \X Sides)
      BY DEF HeldBy, Played
    <3>2. PICK T \in SUBSET Sides : T = HeldBy(t, Sides, k, e)
      BY <3>1
    <3>3. PICK A \in SUBSET (GameThreads \X Sides) : A = Played(k, e)
      BY <3>1
    <3>4. \A i \in Sides : <<g, i>> \notin A
      BY <2>5, <3>3
    <3>5. Cardinality(A \cup {<<g, i>> : i \in T}) = Cardinality(A) + Cardinality(T)
      BY ONLY <3>4, AddSides
    <3>6. Played(k, e)' = A \cup {<<g, i>> : i \in T}
      BY <2>4, <3>2, <3>3
    <3> QED
      BY <3>2, <3>3, <3>5, <3>6
  <2>7. Holds(k, e)' = Holds(k, e)
    <3>1. Cardinality(Queued(k, e)') = 0
      BY <2>3, FS_EmptySet
    <3>2. /\ Cardinality(HeldBy(chosen, ChosenSides, k, e)) \in Nat /\ Cardinality(Played(k, e)) \in Nat
          /\ Cardinality(Queued(k, e)) \in Nat
      BY HeldParts
    <3>3. Holds(k, e)' = Cardinality(HeldBy(chosen, ChosenSides, k, e)) + 0 + Cardinality(Played(k, e))'
      BY <2>2, <3>1 DEF Holds
    <3>4. Holds(k, e) = Cardinality(HeldBy(chosen, ChosenSides, k, e)) + Cardinality(Queued(k, e))
                          + Cardinality(Played(k, e))
      BY DEF Holds
    <3> QED
      BY <2>3, <2>6, <3>2, <3>3, <3>4
  <2> QED
    BY <1>2, <2>1, <2>7 DEF CountsKept
<1> QED
  BY <1>2, <1>3, <1>8, <1>9 DEF Inv

(* A net is released: the use that is no longer counted is that of this side of this game.   *)
LEMMA ReleasingStep ==
  ASSUME Inv, NEW g \in GameThreads, ReleaseBlack(g) \/ ReleaseWhite(g)
  PROVE  Inv'
<1>1. PICK i \in Sides, from \in {"play", "release_white"}, to \in {"release_white", "count"} :
        /\ game[g] = from /\ game' = [game EXCEPT ![g] = to]
        /\ Release(gameTask[g].manager[i], gameTask[g].nnEval[i])
        /\ from = "play" <=> i = 1
        /\ from = "play" <=> to = "release_white"
  BY DEF ReleaseBlack, ReleaseWhite, GameStep, Sides
<1>2. UNCHANGED <<loops, readOnly, main, gameTaskQueue, gameTask>>
  BY DEF ReleaseBlack, ReleaseWhite, GameStep
<1>3. GoodGame(gameTask[g])
  BY <1>1 DEF Inv, GamesInv
<1>4. PICK m \in Managers, d \in Datas : m = gameTask[g].manager[i] /\ d = gameTask[g].nnEval[i]
  BY <1>3 DEF GoodGame
<1>5. game \in [GameThreads -> {"pop", "play", "release_white", "count", "end"}]
  BY DEF Inv, GamesInv
<1>6. i \in PlayedSides(g) /\ PlayedSides(g)' = PlayedSides(g) \ {i}
      /\ \A h \in GameThreads \ {g} : PlayedSides(h)' = PlayedSides(h)
  <2>1. game'[g] = to /\ \A h \in GameThreads \ {g} : game'[h] = game[h]
    BY <1>1, <1>5
  <2> QED
    BY <1>1, <2>1 DEF PlayedSides, Sides
<1>7. \A k \in Managers, e \in Datas :
        Played(k, e)' = IF k = m /\ e = d THEN Played(k, e) \ {<<g, i>>} ELSE Played(k, e)
  BY <1>2, <1>4, <1>6 DEF Played, HeldBy
<1>8. <<g, i>> \in Played(m, d)
  BY <1>4, <1>6 DEF Played, HeldBy
<1>9. Cardinality(Played(m, d) \ {<<g, i>>}) = Cardinality(Played(m, d)) - 1 /\ Cardinality(Played(m, d)) > 0
  <2>1. IsFiniteSet(Played(m, d)) /\ Cardinality(Played(m, d)) \in Nat
    BY HeldParts
  <2>2. /\ IsFiniteSet(Played(m, d) \ {<<g, i>>})
        /\ Cardinality(Played(m, d) \ {<<g, i>>}) = Cardinality(Played(m, d)) - 1
    BY ONLY <1>8, <2>1, FS_RemoveElement
  <2>3. Cardinality(Played(m, d) \ {<<g, i>>}) \in Nat
    BY ONLY <2>2, FS_CardinalityType
  <2> QED
    BY ONLY <2>1, <2>2, <2>3
<1>10. DataOf(m)[d].acquireCount > 0
  <2>1. Holds(m, d) = DataOf(m)[d].acquireCount
    BY DEF Inv, HoldsInv
  <2>2. /\ Cardinality(HeldBy(chosen, ChosenSides, m, d)) \in Nat /\ Cardinality(Queued(m, d)) \in Nat
        /\ Cardinality(Played(m, d)) \in Nat
    BY HeldParts
  <2>3. Holds(m, d) > 0
    BY <1>9, <2>2 DEF Holds
  <2> QED
    BY <2>1, <2>3
<1>11. d \in ToSet(ModelsOf(m)) \ RemovingOf(m) /\ Release(m, d)
  BY <1>1, <1>4, <1>10, UsedIsThere DEF Inv
<1>12. /\ ManagersInv' /\ NamesKept
       /\ \A k \in Managers, e \in Datas : DataOf(k)'[e].acquireCount =
            DataOf(k)[e].acquireCount - (IF k = m /\ e = d THEN 1 ELSE 0)
  BY <1>10, <1>11, ReleaseStep DEF Inv, NamesKept
<1>13. LoopsInv' /\ ChosenKept
  BY <1>2, <1>12, OutsidersStep DEF Inv
<1>14. GamesInv'
  <2>1. /\ game'[g] = to /\ \A h \in GameThreads \ {g} : game'[h] = game[h]
        /\ game' \in [GameThreads -> {"pop", "play", "release_white", "count", "end"}]
    BY <1>1, <1>5
  <2>2. UNCHANGED loop
    BY <1>2 DEF loops
  <2> QED
    BY <1>1, <1>2, <1>3, <2>1, <2>2 DEF Inv, GamesInv
<1>15. HoldsInv'
  <2> SUFFICES ASSUME NEW k \in Managers, NEW e \in Datas
               PROVE  (Holds(k, e) = DataOf(k)[e].acquireCount)'
    BY DEF HoldsInv
  <2>1. Holds(k, e) = DataOf(k)[e].acquireCount
    BY DEF Inv, HoldsInv
  <2>2. HeldBy(chosen, ChosenSides, k, e)' = HeldBy(chosen, ChosenSides, k, e)
    BY <1>13 DEF ChosenKept, HeldBy
  <2>3. Queued(k, e)' = Queued(k, e)
    BY <1>2 DEF Queued, HeldBy
  <2>4. Cardinality(Played(k, e))' = Cardinality(Played(k, e)) - (IF k = m /\ e = d THEN 1 ELSE 0)
    <3>1. Cardinality(Played(k, e)) \in Nat
      BY HeldParts
    <3>2. CASE k = m /\ e = d
      BY <1>7, <1>9, <3>2
    <3>3. CASE ~(k = m /\ e = d)
      BY <1>7, <3>1, <3>3
    <3> QED
      BY <3>2, <3>3
  <2>5. Holds(k, e)' = Holds(k, e) - (IF k = m /\ e = d THEN 1 ELSE 0)
    <3>1. /\ Cardinality(HeldBy(chosen, ChosenSides, k, e)) \in Nat /\ Cardinality(Played(k, e)) \in Nat
          /\ Cardinality(Queued(k, e)) \in Nat
      BY HeldParts
    <3>2. Holds(k, e)' = Cardinality(HeldBy(chosen, ChosenSides, k, e)) + Cardinality(Queued(k, e))
                           + Cardinality(Played(k, e))'
      BY <2>2, <2>3 DEF Holds
    <3>3. Holds(k, e) = Cardinality(HeldBy(chosen, ChosenSides, k, e)) + Cardinality(Queued(k, e))
                          + Cardinality(Played(k, e))
      BY DEF Holds
    <3> QED
      BY <2>4, <3>1, <3>2, <3>3
  <2>6. DataOf(k)'[e].acquireCount = DataOf(k)[e].acquireCount - (IF k = m /\ e = d THEN 1 ELSE 0)
    BY <1>12
  <2> QED
    BY <2>1, <2>5, <2>6
<1> QED
  BY <1>12, <1>13, <1>14, <1>15 DEF Inv

(* The thread looks for another game, or ends.                                              *)
LEMMA EndingStep ==
  ASSUME Inv, NEW g \in GameThreads, CountGame(g) \/ EndOfGames(g)
  PROVE  Inv'
<1>1. /\ UNCHANGED <<loops, readOnly, main, selfplay, rating, gameTaskQueue>>
      /\ game[g] \in {"count", "pop"}
  BY DEF CountGame, EndOfGames, GameStep
<1>2. PICK to \in {"pop", "end"} : game' = [game EXCEPT ![g] = to] /\ (to = "end" => readOnly /\ gameTaskQueue = <<>>)
  BY DEF CountGame, EndOfGames, GameStep
<1>3. /\ game \in [GameThreads -> {"pop", "play", "release_white", "count", "end"}]
      /\ gameTask \in [GameThreads -> Games]
  BY DEF Inv, GamesInv
<1>4. NoGame \in Games
  BY DEF NoGame, Games, Sides
<1>5. /\ gameTask' \in [GameThreads -> Games] /\ \A h \in GameThreads \ {g} : gameTask'[h] = gameTask[h]
  BY <1>3, <1>4 DEF CountGame, EndOfGames
<1>6. /\ game'[g] = to /\ \A h \in GameThreads \ {g} : game'[h] = game[h]
      /\ game' \in [GameThreads -> {"pop", "play", "release_white", "count", "end"}]
  BY <1>2, <1>3
<1>7. ManagersInv' /\ CountsKept /\ NamesKept
  BY <1>1, ManagersKept DEF Inv
<1>8. LoopsInv' /\ ChosenKept
  BY <1>1, <1>7, OutsidersStep DEF Inv
<1>9. GamesInv'
  <2>1. UNCHANGED loop
    BY <1>1 DEF loops
  <2>2. game[g] # "end"
    BY <1>1
  <2> QED
    BY <1>1, <1>2, <1>5, <1>6, <2>1, <2>2 DEF Inv, GamesInv
<1>10. HoldsInv'
  <2> SUFFICES ASSUME NEW k \in Managers, NEW e \in Datas
               PROVE  (Holds(k, e) = DataOf(k)[e].acquireCount)'
    BY DEF HoldsInv
  <2>1. HeldBy(chosen, ChosenSides, k, e)' = HeldBy(chosen, ChosenSides, k, e)
    BY <1>8 DEF ChosenKept, HeldBy
  <2>2. Queued(k, e)' = Queued(k, e)
    BY <1>1 DEF Queued, HeldBy
  <2>3. PlayedSides(g) = {} /\ PlayedSides(g)' = {}
    BY <1>1, <1>6 DEF PlayedSides
  <2>4. Played(k, e)' = Played(k, e)
    BY <1>5, <1>6, <2>3 DEF Played, HeldBy, PlayedSides
  <2>5. Holds(k, e)' = Holds(k, e)
    BY <2>1, <2>2, <2>4 DEF Holds
  <2> QED
    BY <1>7, <2>5 DEF CountsKept, Inv, HoldsInv
<1> QED
  BY <1>7, <1>8, <1>9, <1>10 DEF Inv

(* A step that leaves the game threads and the queue alone.                                  *)
LEMMA StandingStep ==
  ASSUME Inv, UNCHANGED <<loops, games, gameTaskQueue>>, ManagersInv', CountsKept,
         NamesKept \/ \A l \in TaskLoops : loop[l] \notin Together,
         \/ UNCHANGED <<readOnly, main>>
         \/ /\ readOnly' = TRUE /\ \A l \in TaskLoops : loop[l] = "end"
            /\ main' \notin {"join", "join_games"} => \A g \in GameThreads : game[g] = "end"
  PROVE  Inv'
<1>1. LoopsInv' /\ ChosenKept
  BY OutsidersStep DEF Inv
<1>2. UNCHANGED <<game, gameTask, gameTaskQueue, loop>>
  BY DEF games, loops
<1>3. HoldsInv'
  BY <1>1, <1>2, HoldsKept DEF Inv
<1>4. GamesInv'
  BY <1>2 DEF Inv, GamesInv
<1> QED
  BY <1>1, <1>3, <1>4 DEF Inv

(* When every thread has ended, no net is in use.                                           *)
LEMMA NothingHeld ==
  ASSUME Inv, \A l \in TaskLoops : loop[l] = "end", \A g \in GameThreads : game[g] = "end"
  PROVE  \A m \in Managers, d \in Datas : DataOf(m)[d].acquireCount = 0
<1> SUFFICES ASSUME NEW m \in Managers, NEW d \in Datas
             PROVE  DataOf(m)[d].acquireCount = 0
  OBVIOUS
<1>1. ChosenSides = {}
  BY DEF ChosenSides
<1>2. gameTaskQueue = <<>>
  BY ContributeAssumption DEF Inv, GamesInv, ContributeAssumption
<1>3. HeldBy(chosen, ChosenSides, m, d) = {} /\ Queued(m, d) = {} /\ Played(m, d) = {}
  BY <1>1, <1>2 DEF HeldBy, Queued, Played, PlayedSides
<1>4. Holds(m, d) = 0 + 0 + 0
  BY <1>3, FS_EmptySet DEF Holds
<1> QED
  BY <1>4 DEF Inv, HoldsInv

(* The steps of no thread of these.                                                         *)
LEMMA MainStep ==
  ASSUME Inv, Signal \/ EndRemoval \/ Main \/ Stopped \/ UNCHANGED vars
  PROVE  Inv'
<1>0. ManagersInv
  BY DEF Inv
<1>1. CASE Signal \/ Stopped \/ UNCHANGED vars
  <2>1. UNCHANGED <<selfplay, rating, loops, games, gameTaskQueue, readOnly, main>>
    BY <1>1 DEF Signal, Stopped, vars
  <2> QED
    BY <1>0, <2>1, ManagersKept, StandingStep
<1>2. CASE EndRemoval
  <2>1. ManagersInv' /\ CountsKept /\ NamesKept
    <3>1. ManagersInv' /\ UNCHANGED <<sData, rData>> /\ NamesKept
      BY <1>0, <1>2, EndRemovalStep DEF EndRemoval, NamesKept
    <3>2. \A m \in Managers : DataOf(m)' = DataOf(m)
      BY <3>1 DEF DataOf
    <3> QED
      BY <3>1, <3>2 DEF CountsKept
  <2> QED
    BY <1>2, <2>1, StandingStep DEF EndRemoval
<1>3. CASE JoinTaskLoops
  <2>1. /\ UNCHANGED <<selfplay, rating, loops, games, gameTaskQueue>> /\ readOnly' = TRUE
        /\ \A l \in TaskLoops : loop[l] = "end"
        /\ main' = "join_games"
    BY <1>3 DEF JoinTaskLoops, At
  <2> QED
    BY <1>0, <2>1, ManagersKept, StandingStep
<1>4. CASE DeleteManagers
  <2>1. /\ UNCHANGED <<loops, games, gameTaskQueue, readOnly>> /\ main # "join"
        /\ \A g \in GameThreads : game[g] = "end"
    BY <1>4 DEF DeleteManagers, At
  <2>2. readOnly' = TRUE /\ \A l \in TaskLoops : loop[l] = "end"
    <3>1. readOnly
      BY <2>1 DEF Inv, GamesInv
    <3>2. readOnly = TRUE
      BY <2>1, ContributeAssumption DEF Inv, GamesInv, ContributeAssumption
    <3> QED
      BY <2>1, <3>1, <3>2 DEF Inv, GamesInv
  <2>3. \A l \in TaskLoops : loop[l] \notin Together
    BY <2>2 DEF Together
  <2>4. \A m \in Managers, d \in Datas : DataOf(m)[d].acquireCount = 0
    BY <2>1, <2>2, NothingHeld
  <2>5. ManagersInv' /\ CountsKept
    <3>1. CASE UNCHANGED <<selfplay, rating>>
      BY <1>0, <3>1, ManagersKept
    <3>2. CASE Destroys("selfplay")
      BY <1>0, <2>4, <3>2, DestroyStep DEF Managers, CountsKept
    <3>3. CASE Destroys("rating")
      BY <1>0, <2>4, <3>3, DestroyStep DEF Managers, CountsKept
    <3> QED
      BY <1>4, <3>1, <3>2, <3>3 DEF DeleteManagers, Destroys
  <2> QED
    BY <2>1, <2>2, <2>3, <2>5, StandingStep
<1> QED
  BY <1>1, <1>2, <1>3, <1>4 DEF Main

(* It holds at the start.                                                                   *)
LEMMA Start == Init => Inv
<1> SUFFICES ASSUME Init
             PROVE  Inv
  OBVIOUS
<1>1. /\ sModelDatas = <<>> /\ rModelDatas = <<>> /\ sRemoving = {} /\ rRemoving = {}
      /\ sData = [d \in Datas |-> Gone] /\ rData = [d \in Datas |-> Gone]
  BY FreeModel DEF Init, S!ManagerInit, R!ManagerInit
<1>2. \A m \in Managers : /\ ModelsOf(m) = <<>> /\ RemovingOf(m) = {}
                          /\ DataOf(m) = [d \in Datas |-> Gone]
  BY <1>1 DEF ModelsOf, RemovingOf, DataOf
<1>3. ManagersInv
  <2>1. <<>> \in Seq(Datas) /\ NoRepeats(<<>>) /\ ToSet(<<>>) = {}
    BY DEF NoRepeats, ToSet
  <2>2. [d \in Datas |-> Gone] \in [Datas -> Models]
    BY FreeModel
  <2>3. Managed(<<>>, [d \in Datas |-> Gone], {})
    BY <2>1, <2>2 DEF Managed
  <2> QED
    BY <1>2, <2>3 DEF ManagersInv
<1>4. NoGame \in Games
  BY DEF NoGame, Games, Sides
<1>5. \A l \in TaskLoops : loop[l] = "top" /\ taskLoopMutex # l
  BY ContributeAssumption DEF Init, ContributeAssumption
<1>6. LoopsInv
  <2>1. \A l \in TaskLoops : LoopOK(l)
    BY <1>5 DEF LoopOK, Outside, Together
  <2> QED
    BY <1>4, <2>1 DEF Init, LoopsInv, Outside
<1>7. GamesInv
  BY <1>4 DEF Init, GamesInv
<1>8. HoldsInv
  <2> SUFFICES ASSUME NEW m \in Managers, NEW d \in Datas
               PROVE  Holds(m, d) = DataOf(m)[d].acquireCount
    BY DEF HoldsInv
  <2>1. HeldBy(chosen, ChosenSides, m, d) = {} /\ Queued(m, d) = {} /\ Played(m, d) = {}
    BY <1>5 DEF Init, HeldBy, ChosenSides, Queued, Played, PlayedSides
  <2>2. Holds(m, d) = 0 + 0 + 0
    BY <2>1, FS_EmptySet DEF Holds
  <2> QED
    BY <1>2, <2>2 DEF Gone
<1> QED
  BY <1>3, <1>6, <1>7, <1>8 DEF Inv

-------------------------------------------------------------------------------
(* Every step keeps it.                                                                     *)
LEMMA EveryStep ==
  ASSUME Inv, [Next]_vars
  PROVE  Inv'
<1>1. ASSUME NEW l \in TaskLoops, TaskLoop(l)
      PROVE  Inv'
  BY <1>1, QueryStep, AwayStep, UnloadingStep, LoadingStep, AcquiringStep, PushingStep DEF TaskLoop
<1>2. ASSUME NEW g \in GameThreads, GameLoop(g)
      PROVE  Inv'
  BY <1>2, PoppingStep, ReleasingStep, EndingStep DEF GameLoop
<1> QED
  BY <1>1, <1>2, MainStep DEF Next

(* The invariant of the managers, the task loops and the games: every use that a manager    *)
(* counts is one of a game, and a loop that asks for a net finds it.                          *)
THEOREM Invariance == Spec => []Inv
<1>1. Inv /\ [Next]_vars => Inv'
  BY EveryStep
<1> QED
  BY <1>1, Start, PTL DEF Spec

(* A game has its nets, in the manager that it holds them from, until it is over; the         *)
(* managers count no other use.                                                                *)
THEOREM GamesKeepTheirNets == Spec => []GamesHaveTheirNets
<1>1. Inv => GamesHaveTheirNets
  <2> SUFFICES ASSUME Inv
               PROVE  GamesHaveTheirNets
    OBVIOUS
  <2>1. ASSUME NEW d \in Datas
        PROVE  /\ Holds("selfplay", d) = sData[d].acquireCount /\ Holds("rating", d) = rData[d].acquireCount
               /\ sData[d].acquireCount > 0 => d \in ToSet(sModelDatas) \ sRemoving /\ sData[d].alive
               /\ rData[d].acquireCount > 0 => d \in ToSet(rModelDatas) \ rRemoving /\ rData[d].alive
    <3>1. \A m \in Managers : /\ Holds(m, d) = DataOf(m)[d].acquireCount
                              /\ DataOf(m)[d].acquireCount > 0 =>
                                   d \in ToSet(ModelsOf(m)) \ RemovingOf(m) /\ DataOf(m)[d].alive
      BY UsedIsThere DEF Inv, HoldsInv
    <3> QED
      BY <3>1 DEF Managers, DataOf, ModelsOf, RemovingOf
  <2>2. ASSUME NEW m \in Managers
        PROVE  Holds(m, NoModel) = 0
    <3>1. NoModel \notin Datas
      BY ContributeAssumption DEF ContributeAssumption
    <3>2. \A i \in ChosenSides : chosen.nnEval[i] \in Datas
      BY DEF Inv, LoopsInv, LoopOK, ChosenSides, Sides
    <3>3. Queued(m, NoModel) = {}
      BY <3>1 DEF Queued, HeldBy, Inv, GamesInv, GoodGame
    <3>4. Played(m, NoModel) = {}
      BY <3>1 DEF Played, HeldBy, PlayedSides, Inv, GamesInv, GoodGame
    <3>5. HeldBy(chosen, ChosenSides, m, NoModel) = {}
      BY <3>1, <3>2 DEF HeldBy
    <3>6. Holds(m, NoModel) = 0 + 0 + 0
      BY <3>3, <3>4, <3>5, FS_EmptySet DEF Holds
    <3> QED
      BY <3>6
  <2> QED
    BY <2>1, <2>2 DEF GamesHaveTheirNets, Managers
<1> QED
  BY <1>1, Invariance, PTL

-------------------------------------------------------------------------------
(* The tasks of rating games: those that have been asked for, with their games still to      *)
(* come and their nets perhaps to be loaded; and what is left of the one under the mutex.      *)
Asked == {"present", "download", "downloading", "failed", "unload", "unload_rating", "choose", "load"}
RatingIn(l, pcs) == loop[l] \in pcs /\ task[l].isRatingGame
RatingAt(pcs) == {l \in TaskLoops : RatingIn(l, pcs)}

GamesLeft(l) ==
  IF RatingIn(l, {"acquire_black", "acquire_white"}) THEN taskRepFactor - rep + 1
  ELSE IF RatingIn(l, {"push"}) THEN taskRepFactor - rep ELSE 0
NetsLeft(l) == IF loop[l] = "load" THEN {i \in ToLoad(l) : chosen.manager[i] = "rating"} ELSE {}

(* Every other loop can have asked for a match when one was still allowed.                    *)
Matches == maxRatingMatches + Cardinality(TaskLoops) - 1
BoundInv ==
  \A l \in TaskLoops :
    /\ numRatingGamesActive + taskRepFactor * Cardinality(RatingAt(Asked)) + GamesLeft(l)
         <= Matches * taskRepFactor
    /\ Len(rModelDatas) + 2 * Cardinality(RatingAt(Asked \ {"load"})) + Cardinality(NetsLeft(l))
         <= 2 * Matches

(* The rating games that count: handed over soon, in the queue, or played.                     *)
QueuedRating == IF gameTaskQueue # <<>> /\ Head(gameTaskQueue).isRatingGame THEN 1 ELSE 0
PlayedRating ==
  {g \in GameThreads : game[g] \in {"play", "release_white", "count"} /\ gameTask[g].isRatingGame}
CountInv ==
  numRatingGamesActive = Cardinality(RatingAt({"push"})) + QueuedRating + Cardinality(PlayedRating)

(* A step of one loop changes a count of loops by that one.                                   *)
LEMMA Moved ==
  ASSUME NEW l \in TaskLoops, NEW pcs,
         \A k \in TaskLoops \ {l} : loop'[k] = loop[k] /\ task'[k] = task[k]
  PROVE  /\ Cardinality(RatingAt(pcs)) \in Nat /\ Cardinality(TaskLoops) \in Nat \ {0}
         /\ Cardinality(RatingAt(pcs))' =
              Cardinality(RatingAt(pcs)) + (IF RatingIn(l, pcs)' THEN 1 ELSE 0)
                                         - (IF RatingIn(l, pcs) THEN 1 ELSE 0)
         /\ Cardinality(RatingAt(pcs))' \in Nat
         /\ Cardinality(RatingAt(pcs)) <= Cardinality(TaskLoops)
         /\ ~RatingIn(l, pcs) => Cardinality(RatingAt(pcs)) <= Cardinality(TaskLoops) - 1
<1>1. IsFiniteSet(TaskLoops) /\ TaskLoops # {}
  BY ContributeAssumption DEF ContributeAssumption
<1>2. PICK A : A = RatingAt(pcs)
  OBVIOUS
<1>3. PICK B : B = RatingAt(pcs)'
  OBVIOUS
<1>4. /\ A \subseteq TaskLoops /\ B \subseteq TaskLoops /\ A \ {l} = B \ {l}
      /\ l \in A <=> RatingIn(l, pcs)
      /\ l \in B <=> RatingIn(l, pcs)'
  BY <1>2, <1>3 DEF RatingAt, RatingIn
<1>5. PICK C : C = A \ {l}
  OBVIOUS
<1>6. /\ IsFiniteSet(C) /\ Cardinality(C) \in Nat /\ l \notin C
      /\ A = IF l \in A THEN C \cup {l} ELSE C
      /\ B = IF l \in B THEN C \cup {l} ELSE C
  <2>1. C \subseteq TaskLoops
    BY <1>4, <1>5
  <2>2. IsFiniteSet(C)
    BY ONLY <1>1, <2>1, FS_Subset
  <2>3. Cardinality(C) \in Nat
    BY ONLY <2>2, FS_CardinalityType
  <2> QED
    BY <1>4, <1>5, <2>2, <2>3
<1>7. Cardinality(C \cup {l}) = Cardinality(C) + 1
  BY ONLY <1>6, FS_AddElement
<1>8. /\ Cardinality(A) = Cardinality(C) + (IF l \in A THEN 1 ELSE 0)
      /\ Cardinality(B) = Cardinality(C) + (IF l \in B THEN 1 ELSE 0)
  <2>1. ASSUME NEW D, D = IF l \in D THEN C \cup {l} ELSE C
        PROVE  Cardinality(D) = Cardinality(C) + (IF l \in D THEN 1 ELSE 0)
    <3>1. CASE l \in D
      <4>1. D = C \cup {l}
        BY <2>1, <3>1
      <4>2. Cardinality(D) = Cardinality(C) + 1
        BY ONLY <1>7, <4>1
      <4> QED
        BY <3>1, <4>2
    <3>2. CASE l \notin D
      <4>1. D = C
        BY <2>1, <3>2
      <4> QED
        BY <1>6, <3>2, <4>1
    <3> QED
      BY <3>1, <3>2
  <2> QED
    BY <1>6, <2>1
<1>9. Cardinality(C) <= Cardinality(TaskLoops) - 1 /\ Cardinality(TaskLoops) \in Nat \ {0}
  <2>1. C \cup {l} \subseteq TaskLoops
    BY <1>4, <1>5
  <2>2. Cardinality(C \cup {l}) <= Cardinality(TaskLoops)
    BY ONLY <1>1, <2>1, FS_Subset
  <2>3. Cardinality(TaskLoops) \in Nat
    BY ONLY <1>1, FS_CardinalityType
  <2> QED
    BY <1>6, <1>7, <2>2, <2>3
<1> QED
  BY <1>2, <1>3, <1>4, <1>6, <1>8, <1>9

(* What is left is a number; a loop without the mutex has nothing left.                      *)
LEMMA LeftTypes ==
  Inv => /\ Len(rModelDatas) \in Nat /\ rep \in Nat
         /\ \A l \in TaskLoops :
              /\ task[l].isRatingGame \in BOOLEAN
              /\ GamesLeft(l) \in Nat /\ NetsLeft(l) \in SUBSET Sides /\ Cardinality(NetsLeft(l)) \in Nat
              /\ loop[l] \in Outside => GamesLeft(l) = 0 /\ Cardinality(NetsLeft(l)) = 0
              /\ loop[l] \notin Together => GamesLeft(l) = 0
              /\ loop[l] # "load" => Cardinality(NetsLeft(l)) = 0
<1> SUFFICES ASSUME Inv
             PROVE  /\ Len(rModelDatas) \in Nat /\ rep \in Nat
                    /\ \A l \in TaskLoops :
                         /\ task[l].isRatingGame \in BOOLEAN
                         /\ GamesLeft(l) \in Nat /\ NetsLeft(l) \in SUBSET Sides
                         /\ Cardinality(NetsLeft(l)) \in Nat
                         /\ loop[l] \in Outside => GamesLeft(l) = 0 /\ Cardinality(NetsLeft(l)) = 0
                         /\ loop[l] \notin Together => GamesLeft(l) = 0
                         /\ loop[l] # "load" => Cardinality(NetsLeft(l)) = 0
  OBVIOUS
<1>1. Len(rModelDatas) \in Nat /\ rep \in Nat /\ taskRepFactor \in Nat
  <2>1. rModelDatas \in Seq(Datas)
    BY DEF Inv, ManagersInv, Managed, ModelsOf, Managers
  <2> QED
    BY <2>1, ContributeAssumption DEF Inv, LoopsInv, ContributeAssumption
<1>2. ASSUME NEW l \in TaskLoops
      PROVE  /\ task[l].isRatingGame \in BOOLEAN
             /\ GamesLeft(l) \in Nat /\ NetsLeft(l) \in SUBSET Sides /\ Cardinality(NetsLeft(l)) \in Nat
             /\ loop[l] \in Outside => GamesLeft(l) = 0 /\ Cardinality(NetsLeft(l)) = 0
             /\ loop[l] \notin Together => GamesLeft(l) = 0
             /\ loop[l] # "load" => Cardinality(NetsLeft(l)) = 0
  <2>1. LoopOK(l) /\ task[l] \in Tasks \cup {NoTask}
    BY DEF Inv, LoopsInv
  <2>2. task[l].isRatingGame \in BOOLEAN
    <3>1. CASE task[l] \in Tasks
      BY <3>1, TaskNames
    <3>2. CASE task[l] = NoTask
      BY <3>2 DEF NoTask
    <3> QED
      BY <2>1, <3>1, <3>2
  <2>3. NetsLeft(l) \in SUBSET Sides /\ Cardinality(NetsLeft(l)) \in Nat
    <3>1. NetsLeft(l) \in SUBSET Sides
      BY DEF NetsLeft, ToLoad
    <3> QED
      BY <3>1, CountSides
  <2>4. loop[l] \notin Together => GamesLeft(l) = 0
    BY DEF GamesLeft, RatingIn, Together
  <2>5. loop[l] # "load" => Cardinality(NetsLeft(l)) = 0
    BY FS_EmptySet DEF NetsLeft
  <2>6. GamesLeft(l) \in Nat
    BY <1>1, <2>1, <2>4 DEF GamesLeft, RatingIn, LoopOK, Together
  <2>7. "load" \notin Outside /\ Outside \cap Together = {}
    BY DEF Outside, Together
  <2> QED
    BY <2>2, <2>3, <2>4, <2>5, <2>6, <2>7
<1> QED
  BY <1>1, <1>2

(* In the next state too.                                                                   *)
LEMMA LeftTypesNext ==
  ASSUME Inv'
  PROVE  /\ Len(rModelDatas') \in Nat /\ rep' \in Nat
         /\ \A l \in TaskLoops :
              /\ task'[l].isRatingGame \in BOOLEAN
              /\ GamesLeft(l)' \in Nat /\ NetsLeft(l)' \in SUBSET Sides /\ Cardinality(NetsLeft(l))' \in Nat
              /\ loop'[l] \in Outside => GamesLeft(l)' = 0 /\ Cardinality(NetsLeft(l))' = 0
              /\ loop'[l] \notin Together => GamesLeft(l)' = 0
              /\ loop'[l] # "load" => Cardinality(NetsLeft(l))' = 0
<1>1. (Inv => /\ Len(rModelDatas) \in Nat /\ rep \in Nat
              /\ \A l \in TaskLoops :
                   /\ task[l].isRatingGame \in BOOLEAN
                   /\ GamesLeft(l) \in Nat /\ NetsLeft(l) \in SUBSET Sides /\ Cardinality(NetsLeft(l)) \in Nat
                   /\ loop[l] \in Outside => GamesLeft(l) = 0 /\ Cardinality(NetsLeft(l)) = 0
                   /\ loop[l] \notin Together => GamesLeft(l) = 0
                   /\ loop[l] # "load" => Cardinality(NetsLeft(l)) = 0)'
  BY LeftTypes, PTL
<1> QED
  BY <1>1

(* More matches, more games.                                                                *)
LEMMA MoreGames ==
  ASSUME NEW a \in Nat, NEW b \in Nat, a <= b
  PROVE  taskRepFactor * a <= taskRepFactor * b /\ taskRepFactor * a \in Nat
<1>1. PICK f \in Nat : f = taskRepFactor
  BY ContributeAssumption DEF ContributeAssumption
<1>2. PICK c \in Nat : b = a + c
  <2>1. b - a \in Nat /\ b = a + (b - a)
    OBVIOUS
  <2> QED
    BY <2>1
<1>3. f * b = f * a + f * c /\ f * a \in Nat /\ f * c \in Nat
  BY <1>2
<1> QED
  BY <1>1, <1>3

(* Counts and bounds.                                                                       *)
LEMMA MatchesType == Matches \in Nat /\ Cardinality(TaskLoops) \in Nat \ {0} /\ Matches * taskRepFactor \in Nat
<1>1. IsFiniteSet(TaskLoops) /\ TaskLoops # {} /\ maxRatingMatches \in Nat /\ taskRepFactor \in Nat
  BY ContributeAssumption DEF ContributeAssumption
<1>2. Cardinality(TaskLoops) \in Nat
  BY ONLY <1>1, FS_CardinalityType
<1>3. Cardinality(TaskLoops) # 0
  BY ONLY <1>1, FS_EmptySet
<1>4. Matches \in Nat
  BY <1>1, <1>2, <1>3 DEF Matches
<1> QED
  BY <1>1, <1>2, <1>3, <1>4

(* A step after which no more is asked for or left than before.                              *)
LEMMA BoundsFall ==
  ASSUME Inv, Inv', BoundInv, numRatingGamesActive \in Nat, numRatingGamesActive' \in Nat,
         numRatingGamesActive' <= numRatingGamesActive, Len(rModelDatas') <= Len(rModelDatas),
         NEW l \in TaskLoops, \A k \in TaskLoops \ {l} : loop'[k] = loop[k] /\ task'[k] = task[k],
         RatingIn(l, Asked)' => RatingIn(l, Asked),
         RatingIn(l, Asked \ {"load"})' => RatingIn(l, Asked \ {"load"}),
         \A k \in TaskLoops : /\ GamesLeft(k)' <= GamesLeft(k)
                              /\ Cardinality(NetsLeft(k))' <= Cardinality(NetsLeft(k))
  PROVE  BoundInv'
<1> SUFFICES ASSUME NEW k \in TaskLoops
             PROVE  (/\ numRatingGamesActive + taskRepFactor * Cardinality(RatingAt(Asked)) + GamesLeft(k)
                          <= Matches * taskRepFactor
                     /\ Len(rModelDatas) + 2 * Cardinality(RatingAt(Asked \ {"load"}))
                          + Cardinality(NetsLeft(k)) <= 2 * Matches)'
  BY DEF BoundInv
<1>1. PICK a \in Nat : a = Cardinality(RatingAt(Asked))
  BY Moved
<1>2. PICK b \in Nat : b = Cardinality(RatingAt(Asked))' /\ b <= a
  BY <1>1, Moved
<1>3. PICK c \in Nat : c = Cardinality(RatingAt(Asked \ {"load"}))
  BY Moved
<1>4. PICK d \in Nat : d = Cardinality(RatingAt(Asked \ {"load"}))' /\ d <= c
  BY <1>3, Moved
<1>5. taskRepFactor * b <= taskRepFactor * a /\ taskRepFactor * a \in Nat /\ taskRepFactor * b \in Nat
  BY <1>2, MoreGames
<1>6. /\ GamesLeft(k) \in Nat /\ Cardinality(NetsLeft(k)) \in Nat /\ Len(rModelDatas) \in Nat
      /\ GamesLeft(k)' \in Nat /\ Cardinality(NetsLeft(k))' \in Nat /\ Len(rModelDatas') \in Nat
  BY LeftTypes, LeftTypesNext
<1>7. /\ numRatingGamesActive + taskRepFactor * a + GamesLeft(k) <= Matches * taskRepFactor
      /\ Len(rModelDatas) + 2 * c + Cardinality(NetsLeft(k)) <= 2 * Matches
  BY <1>1, <1>3 DEF BoundInv
<1>8. GamesLeft(k)' <= GamesLeft(k) /\ Cardinality(NetsLeft(k))' <= Cardinality(NetsLeft(k))
  OBVIOUS
<1>9. Matches \in Nat /\ Matches * taskRepFactor \in Nat
  BY MatchesType
<1>10. /\ numRatingGamesActive' + taskRepFactor * b + GamesLeft(k)' <= Matches * taskRepFactor
       /\ Len(rModelDatas') + 2 * d + Cardinality(NetsLeft(k))' <= 2 * Matches
  <2>1. PICK x \in Nat : x = taskRepFactor * a
    BY <1>5
  <2>2. PICK y \in Nat : y = taskRepFactor * b
    BY <1>5
  <2>3. PICK z \in Nat : z = Matches * taskRepFactor
    BY <1>9
  <2>4. PICK n \in Nat : n = numRatingGamesActive
    OBVIOUS
  <2>5. PICK o \in Nat : o = numRatingGamesActive' /\ o <= n
    BY <2>4
  <2>6. PICK g \in Nat : g = GamesLeft(k)
    BY <1>6
  <2>7. PICK h \in Nat : h = GamesLeft(k)' /\ h <= g
    BY <1>6, <1>8, <2>6
  <2>8. n + x + g <= z /\ y <= x
    BY <1>5, <1>7, <2>1, <2>2, <2>3, <2>4, <2>6
  <2>9. o + y + h <= z
    BY ONLY <2>5, <2>7, <2>8
  <2>10. Len(rModelDatas') + 2 * d + Cardinality(NetsLeft(k))' <= 2 * Matches
    <3>1. PICK p \in Nat : p = Cardinality(NetsLeft(k))
      BY <1>6
    <3>2. PICK q \in Nat : q = Cardinality(NetsLeft(k))' /\ q <= p
      BY <1>6, <1>8, <3>1
    <3>3. PICK y2 \in Nat : y2 = Len(rModelDatas)
      BY <1>6
    <3>4. PICK o2 \in Nat : o2 = Len(rModelDatas') /\ o2 <= y2
      BY <1>6, <3>3
    <3>5. PICK z2 \in Nat : z2 = Matches
      BY <1>9
    <3>6. y2 + 2 * c + p <= 2 * z2
      BY <1>7, <3>1, <3>3, <3>5
    <3>7. o2 + 2 * d + q <= 2 * z2
      BY ONLY <1>4, <3>2, <3>4, <3>6
    <3> QED
      BY <3>2, <3>4, <3>5, <3>7
  <2> QED
    BY <2>2, <2>3, <2>5, <2>7, <2>9, <2>10
<1> QED
  BY <1>2, <1>4, <1>10 DEF Matches

(* A step of the loop that has the mutex: what counts is what it has asked for and has left.  *)
LEMMA OwnersBounds ==
  ASSUME Inv, Inv', numRatingGamesActive' \in Nat,
         NEW l \in TaskLoops, \A k \in TaskLoops \ {l} : /\ loop'[k] = loop[k] /\ task'[k] = task[k]
                                                         /\ loop[k] \in Outside,
         (/\ numRatingGamesActive + taskRepFactor * Cardinality(RatingAt(Asked)) + GamesLeft(l)
               <= Matches * taskRepFactor
          /\ Len(rModelDatas) + 2 * Cardinality(RatingAt(Asked \ {"load"})) + Cardinality(NetsLeft(l))
               <= 2 * Matches)'
  PROVE  BoundInv'
<1> SUFFICES ASSUME NEW k \in TaskLoops
             PROVE  (/\ numRatingGamesActive + taskRepFactor * Cardinality(RatingAt(Asked)) + GamesLeft(k)
                          <= Matches * taskRepFactor
                     /\ Len(rModelDatas) + 2 * Cardinality(RatingAt(Asked \ {"load"}))
                          + Cardinality(NetsLeft(k)) <= 2 * Matches)'
  BY DEF BoundInv
<1>1. PICK b \in Nat : b = Cardinality(RatingAt(Asked))'
  BY Moved
<1>2. PICK d \in Nat : d = Cardinality(RatingAt(Asked \ {"load"}))'
  BY Moved
<1>3. taskRepFactor * b \in Nat
  BY MoreGames
<1>4. /\ GamesLeft(l)' \in Nat /\ Cardinality(NetsLeft(l))' \in Nat /\ Len(rModelDatas') \in Nat
      /\ k # l => GamesLeft(k)' = 0 /\ Cardinality(NetsLeft(k))' = 0
  BY LeftTypesNext
<1>5. Matches' = Matches /\ Matches \in Nat /\ Matches * taskRepFactor \in Nat
  BY MatchesType DEF Matches
<1>6. /\ numRatingGamesActive' + taskRepFactor * b + GamesLeft(l)' <= Matches * taskRepFactor
      /\ Len(rModelDatas') + 2 * d + Cardinality(NetsLeft(l))' <= 2 * Matches
  BY <1>1, <1>2, <1>5
<1>7. /\ numRatingGamesActive' + taskRepFactor * b + GamesLeft(k)' <= Matches * taskRepFactor
      /\ Len(rModelDatas') + 2 * d + Cardinality(NetsLeft(k))' <= 2 * Matches
  <2>1. CASE k = l
    BY <1>6, <2>1
  <2>2. CASE k # l
    BY <1>3, <1>4, <1>5, <1>6, <2>2
  <2> QED
    BY <2>1, <2>2
<1> QED
  BY <1>1, <1>2, <1>5, <1>7

(* What every step of a loop has in common.                                                 *)
LEMMA LoopMoves ==
  ASSUME Inv, NEW l \in TaskLoops, TaskLoop(l)
  PROVE  \A k \in TaskLoops \ {l} : loop'[k] = loop[k] /\ task'[k] = task[k]
<1>1. PICK to : loop' = [loop EXCEPT ![l] = to]
  BY DEF TaskLoop, Stop, Enter, GetNextTask, NoNextTask, StartDownloads, AllPresent, Download, EndDownload,
         Relock, UnloadSelfplay, UnloadRating, ChooseManagers, Load, LoadFails, Loaded, AcquireBlack,
         AcquireWhite, Acquire, PushGame, Locked, NextTask, Unlock, Step
<1>2. \/ UNCHANGED task
      \/ \E t : task' = [task EXCEPT ![l] = t]
  BY DEF TaskLoop, Stop, Enter, GetNextTask, NoNextTask, StartDownloads, AllPresent, Download, EndDownload,
         Relock, UnloadSelfplay, UnloadRating, ChooseManagers, Load, LoadFails, Loaded, AcquireBlack,
         AcquireWhite, Acquire, PushGame, NextTask, Nothing, Unlocked
<1> QED
  BY <1>1, <1>2 DEF Inv, LoopsInv

(* A step of the loop under the mutex that ends outside or before its nets are loaded.         *)
LEMMA QuietBounds ==
  ASSUME Inv, Inv', BoundInv, numRatingGamesActive \in Nat, UNCHANGED numRatingGamesActive,
         Len(rModelDatas') <= Len(rModelDatas),
         NEW l \in TaskLoops, \A k \in TaskLoops \ {l} : /\ loop'[k] = loop[k] /\ task'[k] = task[k]
                                                         /\ loop[k] \in Outside,
         loop'[l] \in Outside \cup Before,
         \A pc \in Asked : loop'[l] = pc => loop[l] \in Asked \ {"load"} /\ task'[l] = task[l]
  PROVE  BoundInv'
<1>1. \A k \in TaskLoops : /\ GamesLeft(k)' = 0 /\ Cardinality(NetsLeft(k))' = 0
                           /\ GamesLeft(k) \in Nat /\ Cardinality(NetsLeft(k)) \in Nat
  <2>1. "load" \notin Before /\ Before \cap Together = {}
    BY DEF Before, Together
  <2> QED
    BY <2>1, LeftTypes, LeftTypesNext
<1>2. /\ RatingIn(l, Asked)' => RatingIn(l, Asked)
      /\ RatingIn(l, Asked \ {"load"})' => RatingIn(l, Asked \ {"load"})
  BY DEF RatingIn
<1>3. \A k \in TaskLoops : GamesLeft(k)' <= GamesLeft(k) /\ Cardinality(NetsLeft(k))' <= Cardinality(NetsLeft(k))
  BY <1>1
<1>4. /\ numRatingGamesActive' \in Nat /\ numRatingGamesActive' <= numRatingGamesActive
      /\ \A k \in TaskLoops \ {l} : loop'[k] = loop[k] /\ task'[k] = task[k]
  OBVIOUS
<1> QED
  BY <1>2, <1>3, <1>4, BoundsFall

(* The steps that ask for no more.                                                          *)
AsksNoMore(l) ==
  \/ Enter(l) \/ NoNextTask(l) \/ StartDownloads(l) \/ AllPresent(l) \/ UnloadSelfplay(l)
  \/ UnloadRating(l) \/ LoadFails(l) \/ (NextTask(l, "load") /\ Loaded(l))

(* They keep the bounds.                                                                    *)
LEMMA AskingLess ==
  ASSUME Inv, Inv', BoundInv, numRatingGamesActive \in Nat, NEW l \in TaskLoops,
         \A k \in TaskLoops \ {l} : loop'[k] = loop[k] /\ task'[k] = task[k],
         AsksNoMore(l)
  PROVE  BoundInv'
<1> USE DEF AsksNoMore
<1>0. /\ loop \in [TaskLoops -> Outside \cup Before \cup {"load"} \cup Together]
      /\ LoopsInv /\ ManagersInv /\ Len(rModelDatas) \in Nat
  BY LeftTypes DEF Inv, LoopsInv
<1>1. UNCHANGED numRatingGamesActive
  BY DEF Enter, NoNextTask, StartDownloads, AllPresent, UnloadSelfplay, UnloadRating, LoadFails, Loaded, Nothing
<1>2. Len(rModelDatas') <= Len(rModelDatas)
  <2>1. CASE Enter(l) \/ UnloadRating(l)
    <3>1. UnloadsUnused("rating", Datas)
      BY <2>1 DEF Enter, UnloadRating, UnloadsUnused
    <3>2. rModelDatas' = rModelDatas
      BY <1>0, <3>1, UnloadStep DEF Managers, ModelsOf
    <3> QED
      BY <1>0, <3>2
  <2>2. CASE ~(Enter(l) \/ UnloadRating(l))
    <3>1. UNCHANGED rating
      BY <2>2 DEF NoNextTask, StartDownloads, AllPresent, UnloadSelfplay, LoadFails, Loaded, Nothing
    <3>2. rModelDatas' = rModelDatas
      BY <3>1 DEF rating
    <3> QED
      BY <1>0, <3>2
  <2> QED
    BY <2>1, <2>2
<1>3. \A k \in TaskLoops \ {l} : loop[k] \in Outside
  <2>1. CASE Enter(l)
    BY <2>1, ContributeAssumption DEF Enter, Inv, LoopsInv, LoopOK, ContributeAssumption
  <2>2. CASE ~Enter(l)
    <3>1. taskLoopMutex = l
      BY <2>2 DEF NoNextTask, StartDownloads, AllPresent, UnloadSelfplay, UnloadRating, LoadFails,
                  NextTask, Unlock, Locked, Step
    <3> QED
      BY <1>0, <3>1, ChosenAt
  <2> QED
    BY <2>1, <2>2
<1>4. \/ loop'[l] \in {"query", "top", "end"}
      \/ loop'[l] \in {"download", "unload", "unload_rating", "choose"} /\ UNCHANGED task
           /\ loop[l] \in {"present", "unload", "unload_rating"}
  BY <1>0 DEF Enter, NoNextTask, StartDownloads, AllPresent, UnloadSelfplay, UnloadRating, LoadFails, Loaded,
              NextTask, Unlock, Locked, Step, Nothing
<1>5. /\ loop'[l] \in Outside \cup Before
      /\ \A pc \in Asked : loop'[l] = pc => loop[l] \in Asked \ {"load"} /\ task'[l] = task[l]
  BY <1>4 DEF Outside, Before, Asked
<1> QED
  BY <1>1, <1>2, <1>3, <1>5, QuietBounds

(* The steps without the mutex.                                                             *)
LEMMA AwayBounds ==
  ASSUME Inv, Inv', BoundInv, numRatingGamesActive \in Nat, NEW l \in TaskLoops,
         \A k \in TaskLoops \ {l} : loop'[k] = loop[k] /\ task'[k] = task[k],
         Stop(l) \/ Download(l) \/ EndDownload(l) \/ Relock(l)
  PROVE  BoundInv'
<1>0. /\ loop \in [TaskLoops -> Outside \cup Before \cup {"load"} \cup Together]
      /\ LoopsInv /\ ManagersInv /\ Len(rModelDatas) \in Nat
  BY LeftTypes DEF Inv, LoopsInv
<1>1. UNCHANGED <<selfplay, rating, chosen, rep, numRatingGamesActive>>
  BY DEF Stop, Download, EndDownload, Relock, Unlocked
<1>2. \/ loop'[l] \in {"top", "end"}
      \/ /\ loop'[l] \in {"download", "downloading", "failed", "present"} /\ UNCHANGED task
         /\ loop[l] \in {"download", "downloading"}
  BY <1>0 DEF Stop, Download, EndDownload, Relock, Unlocked
<1>3. NamesKept /\ rModelDatas' = rModelDatas
  BY <1>0, <1>1, ManagersKept DEF rating
<1>4. ASSUME NEW k \in TaskLoops
      PROVE  GamesLeft(k)' <= GamesLeft(k) /\ Cardinality(NetsLeft(k))' <= Cardinality(NetsLeft(k))
  <2>0. GamesLeft(k) \in Nat /\ Cardinality(NetsLeft(k)) \in Nat
    BY LeftTypes
  <2>1. CASE k = l
    <3>1. GamesLeft(l)' = 0 /\ Cardinality(NetsLeft(l))' = 0
      <4>1. loop'[l] \notin Together \cup {"load"}
        BY <1>2 DEF Together
      <4> QED
        BY <4>1, LeftTypesNext
    <3> QED
      BY <2>0, <2>1, <3>1
  <2>2. CASE k # l
    <3>1. loop'[k] = loop[k] /\ task'[k] = task[k]
      BY <2>2
    <3>2. GamesLeft(k)' = GamesLeft(k)
      BY <1>1, <3>1 DEF GamesLeft, RatingIn
    <3>3. loop[k] = "load" => ToLoad(k)' = ToLoad(k)
      BY <1>0, <1>1, <1>3, <3>1, ToLoadKept
    <3>4. NetsLeft(k)' = NetsLeft(k)
      BY <1>1, <3>1, <3>3 DEF NetsLeft
    <3> QED
      BY <2>0, <3>2, <3>4
  <2> QED
    BY <2>1, <2>2
<1>5. /\ RatingIn(l, Asked)' => RatingIn(l, Asked)
      /\ RatingIn(l, Asked \ {"load"})' => RatingIn(l, Asked \ {"load"})
  BY <1>2 DEF RatingIn, Asked
<1>6. /\ numRatingGamesActive' \in Nat /\ numRatingGamesActive' <= numRatingGamesActive
      /\ Len(rModelDatas') <= Len(rModelDatas)
  BY <1>0, <1>1, <1>3
<1> QED
  BY <1>4, <1>5, <1>6, BoundsFall

(* Under the mutex the other loops are outside.                                             *)
LEMMA OwnerAlone ==
  ASSUME Inv, NEW l \in TaskLoops, TaskLoop(l), taskLoopMutex = l
  PROVE  \A k \in TaskLoops \ {l} : /\ loop'[k] = loop[k] /\ task'[k] = task[k]
                                    /\ loop[k] \in Outside
BY LoopMoves, ChosenAt DEF Inv

(* A match is asked for when it is allowed.                                                 *)
LEMMA QueryBounds ==
  ASSUME Inv, Inv', BoundInv, numRatingGamesActive \in Nat, NEW l \in TaskLoops, GetNextTask(l)
  PROVE  BoundInv'
<1>1. PICK t \in Tasks : (t.isRatingGame => AllowRatingTask) /\ task' = [task EXCEPT ![l] = t]
  BY DEF GetNextTask
<1>2. /\ taskLoopMutex = l /\ loop[l] = "query" /\ loop'[l] = "present" /\ task'[l] = t
      /\ UNCHANGED <<rating, numRatingGamesActive>> /\ rModelDatas' = rModelDatas
  BY <1>1 DEF GetNextTask, Locked, Step, Inv, LoopsInv, rating
<1>3. \A k \in TaskLoops \ {l} : loop'[k] = loop[k] /\ task'[k] = task[k] /\ loop[k] \in Outside
  BY <1>2, OwnerAlone DEF TaskLoop
<1>4. /\ ~RatingIn(l, Asked) /\ ~RatingIn(l, Asked \ {"load"})
      /\ (RatingIn(l, Asked)' <=> t.isRatingGame) /\ (RatingIn(l, Asked \ {"load"})' <=> t.isRatingGame)
  BY <1>2 DEF RatingIn, Asked
<1>5. PICK a \in Nat : a = Cardinality(RatingAt(Asked))' /\ a <= Cardinality(TaskLoops)
  <2>1. /\ Cardinality(RatingAt(Asked))' =
             Cardinality(RatingAt(Asked)) + (IF t.isRatingGame THEN 1 ELSE 0)
        /\ Cardinality(RatingAt(Asked)) \in Nat /\ Cardinality(TaskLoops) \in Nat
        /\ Cardinality(RatingAt(Asked)) <= Cardinality(TaskLoops) - 1
    BY <1>3, <1>4, Moved
  <2> QED
    BY <2>1
<1>6. PICK c \in Nat : c = Cardinality(RatingAt(Asked \ {"load"}))' /\ c <= Cardinality(TaskLoops)
  <2>1. /\ Cardinality(RatingAt(Asked \ {"load"}))' =
             Cardinality(RatingAt(Asked \ {"load"})) + (IF t.isRatingGame THEN 1 ELSE 0)
        /\ Cardinality(RatingAt(Asked \ {"load"})) \in Nat /\ Cardinality(TaskLoops) \in Nat
        /\ Cardinality(RatingAt(Asked \ {"load"})) <= Cardinality(TaskLoops) - 1
    BY <1>3, <1>4, Moved
  <2> QED
    BY <2>1
<1>7. GamesLeft(l)' = 0 /\ Cardinality(NetsLeft(l))' = 0
  <2>1. loop'[l] \notin Together \cup {"load"}
    BY <1>2 DEF Together
  <2> QED
    BY <2>1, LeftTypesNext
<1>8. CASE t.isRatingGame
  <2>1. /\ maxRatingMatches > 0 /\ Len(rModelDatas) <= 2 * maxRatingMatches - 2
        /\ numRatingGamesActive <= (maxRatingMatches - 1) * taskRepFactor
    BY <1>1, <1>8 DEF AllowRatingTask
  <2>2. /\ maxRatingMatches \in Nat /\ taskRepFactor \in Nat /\ Cardinality(TaskLoops) \in Nat
        /\ Len(rModelDatas) \in Nat
    BY ContributeAssumption, MatchesType, LeftTypes DEF ContributeAssumption
  <2>3. PICK f \in Nat, m \in Nat, n \in Nat, t1 \in Nat :
          f = taskRepFactor /\ m = maxRatingMatches - 1 /\ n = Cardinality(TaskLoops)
          /\ t1 = numRatingGamesActive
    <3>1. maxRatingMatches - 1 \in Nat
      BY <2>1, <2>2
    <3> QED
      BY <2>2, <3>1
  <2>4. Matches = m + n
    BY <2>2, <2>3 DEF Matches
  <2>5. f * a <= f * n /\ f * a \in Nat
    <3>1. a <= n /\ n \in Nat
      BY <1>5, <2>3
    <3>2. taskRepFactor * a <= taskRepFactor * n /\ taskRepFactor * a \in Nat
      BY <3>1, MoreGames
    <3> QED
      BY <2>3, <3>2
  <2>6. t1 + f * a + 0 <= (m + n) * f
    <3>1. t1 <= m * f
      BY <2>1, <2>3
    <3>2. (m + n) * f = m * f + f * n /\ m * f \in Nat /\ f * n \in Nat
      BY ONLY f \in Nat, m \in Nat, n \in Nat
    <3> QED
      BY <2>5, <3>1, <3>2
  <2>7. numRatingGamesActive' + taskRepFactor * Cardinality(RatingAt(Asked))' + GamesLeft(l)'
          <= Matches * taskRepFactor
    BY <1>2, <1>5, <1>7, <2>3, <2>4, <2>6
  <2>8. Len(rModelDatas') + 2 * Cardinality(RatingAt(Asked \ {"load"}))' + Cardinality(NetsLeft(l))'
          <= 2 * Matches
    <3>1. Len(rModelDatas') <= 2 * m
      BY <1>2, <2>1, <2>2, <2>3
    <3>2. c <= n
      BY <1>6, <2>3
    <3> QED
      BY <1>2, <1>6, <1>7, <2>2, <2>4, <3>1, <3>2
  <2> QED
    BY <1>2, <1>3, <2>7, <2>8, OwnersBounds DEF Matches
<1>9. CASE ~t.isRatingGame
  <2>1. \A k \in TaskLoops : GamesLeft(k)' <= GamesLeft(k) /\ Cardinality(NetsLeft(k))' <= Cardinality(NetsLeft(k))
    BY <1>3, <1>7, LeftTypes, LeftTypesNext
  <2>2. /\ numRatingGamesActive' \in Nat /\ numRatingGamesActive' <= numRatingGamesActive
        /\ Len(rModelDatas') <= Len(rModelDatas)
    BY <1>2, LeftTypes
  <2> QED
    BY <1>3, <1>4, <1>9, <2>1, <2>2, BoundsFall
<1> QED
  BY <1>8, <1>9

(* The managers of the nets that a match may have to load.                                   *)
LEMMA ChooseBounds ==
  ASSUME Inv, Inv', BoundInv, numRatingGamesActive \in Nat, NEW l \in TaskLoops, ChooseManagers(l)
  PROVE  BoundInv'
<1>1. /\ taskLoopMutex = l /\ loop[l] = "choose" /\ loop'[l] = "load"
      /\ UNCHANGED <<rating, task, numRatingGamesActive>> /\ rModelDatas' = rModelDatas
  BY DEF ChooseManagers, Locked, Step, Inv, LoopsInv, rating
<1>2. \A k \in TaskLoops \ {l} : loop'[k] = loop[k] /\ task'[k] = task[k] /\ loop[k] \in Outside
  BY <1>1, OwnerAlone DEF TaskLoop
<1>3. /\ RatingIn(l, Asked) <=> task[l].isRatingGame
      /\ RatingIn(l, Asked)' <=> task[l].isRatingGame
      /\ RatingIn(l, Asked \ {"load"}) <=> task[l].isRatingGame
      /\ ~RatingIn(l, Asked \ {"load"})'
  BY <1>1 DEF RatingIn, Asked
<1>4. Cardinality(RatingAt(Asked))' = Cardinality(RatingAt(Asked)) /\ Cardinality(RatingAt(Asked)) \in Nat
  BY <1>2, <1>3, Moved
<1>5. /\ Cardinality(RatingAt(Asked \ {"load"}))' =
           Cardinality(RatingAt(Asked \ {"load"})) - (IF task[l].isRatingGame THEN 1 ELSE 0)
      /\ Cardinality(RatingAt(Asked \ {"load"})) \in Nat
  BY <1>2, <1>3, Moved
<1>6. GamesLeft(l)' = 0 /\ GamesLeft(l) = 0 /\ Cardinality(NetsLeft(l)) = 0
  <2>1. loop'[l] \notin Together /\ loop[l] \notin Together
    BY <1>1 DEF Together
  <2> QED
    BY <1>1, <2>1, LeftTypes, LeftTypesNext
<1>7. Cardinality(NetsLeft(l))' <= 2 * (IF task[l].isRatingGame THEN 1 ELSE 0) /\ Cardinality(NetsLeft(l))' \in Nat
  <2>1. NetsLeft(l)' \in SUBSET Sides
    BY LeftTypesNext
  <2>2. Cardinality(NetsLeft(l)') <= 2 /\ Cardinality(NetsLeft(l)') \in Nat
    BY <2>1, CountSides
  <2>3. CASE ~task[l].isRatingGame
    <3>1. \A i \in Sides : chosen'.manager[i] # "rating"
      BY <1>1, <2>3 DEF Inv, LoopsInv, LoopOK
    <3>2. NetsLeft(l)' = {}
      BY <2>1, <3>1 DEF NetsLeft
    <3> QED
      BY <2>3, <3>2, FS_EmptySet
  <2> QED
    BY <2>2, <2>3
<1>8. numRatingGamesActive' + taskRepFactor * Cardinality(RatingAt(Asked))' + GamesLeft(l)'
        <= Matches * taskRepFactor
  <2>1. numRatingGamesActive + taskRepFactor * Cardinality(RatingAt(Asked)) + GamesLeft(l)
          <= Matches * taskRepFactor
    BY DEF BoundInv
  <2> QED
    BY <1>1, <1>4, <1>6, <2>1
<1>9. Len(rModelDatas') + 2 * Cardinality(RatingAt(Asked \ {"load"}))' + Cardinality(NetsLeft(l))'
        <= 2 * Matches
  <2>1. Len(rModelDatas) + 2 * Cardinality(RatingAt(Asked \ {"load"})) + 0 <= 2 * Matches
    BY <1>6 DEF BoundInv
  <2>2. Len(rModelDatas) \in Nat /\ Matches \in Nat
    BY LeftTypes, MatchesType
  <2> QED
    BY <1>1, <1>5, <1>7, <2>1, <2>2
<1> QED
  BY <1>1, <1>2, <1>8, <1>9, OwnersBounds DEF Matches

(* Fewer sides.                                                                             *)
LEMMA FewerSides ==
  ASSUME NEW A \in SUBSET Sides, NEW B \in SUBSET A
  PROVE  /\ Cardinality(B) <= Cardinality(A)
         /\ A \ B # {} => Cardinality(B) <= Cardinality(A) - 1
<1>1. /\ Cardinality(A) = (IF 1 \in A THEN 1 ELSE 0) + (IF 2 \in A THEN 1 ELSE 0)
      /\ Cardinality(B) = (IF 1 \in B THEN 1 ELSE 0) + (IF 2 \in B THEN 1 ELSE 0)
  BY CountSides
<1>2. /\ 1 \in B => 1 \in A
      /\ 2 \in B => 2 \in A
      /\ A \ B # {} => (1 \in A /\ 1 \notin B) \/ (2 \in A /\ 2 \notin B)
  BY DEF Sides
<1> QED
  BY ONLY <1>1, <1>2

(* A net that a match had to load is loaded.                                                 *)
LEMMA LoadBounds ==
  ASSUME Inv, Inv', BoundInv, numRatingGamesActive \in Nat, NEW l \in TaskLoops, Load(l)
  PROVE  BoundInv'
<1>1. /\ taskLoopMutex = l /\ loop[l] = "load" /\ loop'[l] = "load"
      /\ UNCHANGED <<chosen, task, numRatingGamesActive>>
  BY DEF Load, Locked, Step, Inv, LoopsInv, Nothing
<1>2. \A k \in TaskLoops \ {l} : loop'[k] = loop[k] /\ task'[k] = task[k] /\ loop[k] \in Outside
  BY <1>1, OwnerAlone DEF TaskLoop
<1>3. /\ RatingIn(l, Asked)' <=> RatingIn(l, Asked)
      /\ RatingIn(l, Asked \ {"load"})' <=> RatingIn(l, Asked \ {"load"})
  BY <1>1 DEF RatingIn
<1>4. /\ Cardinality(RatingAt(Asked))' = Cardinality(RatingAt(Asked)) /\ Cardinality(RatingAt(Asked)) \in Nat
      /\ Cardinality(RatingAt(Asked \ {"load"}))' = Cardinality(RatingAt(Asked \ {"load"}))
      /\ Cardinality(RatingAt(Asked \ {"load"})) \in Nat
  BY <1>2, <1>3, Moved
<1>5. GamesLeft(l)' = 0 /\ GamesLeft(l) = 0
  <2>1. loop'[l] \notin Together /\ loop[l] \notin Together
    BY <1>1 DEF Together
  <2> QED
    BY <2>1, LeftTypes, LeftTypesNext
<1>6. PICK i \in Sides, d \in Datas :
        /\ IsNextToLoad(l, i)
        /\ ~(IF chosen.manager[i] = "selfplay" THEN sData ELSE rData)[d].alive
        /\ LoadModel(chosen.manager[i], d, task[l].model[i])
  BY DEF Load
<1>7. /\ task[l] \in Tasks /\ \A j \in Sides : chosen.manager[j] \in Managers /\ task[l].model[j] \in Names
  BY <1>1, TaskNames DEF Inv, LoopsInv, LoopOK
<1>8. PICK m \in Managers, name \in Names : m = chosen.manager[i] /\ name = task[l].model[i]
  BY <1>7
<1>9. /\ \A k \in Managers : /\ Len(ModelsOf(k)) \in Nat
                             /\ Len(ModelsOf(k)') = Len(ModelsOf(k)) + (IF k = m THEN 1 ELSE 0)
      /\ \A k \in Managers, other \in Names :
           ModelsNamed(k, other)' = IF k = m /\ other = name THEN {d} ELSE ModelsNamed(k, other)
  <2>1. ~DataOf(m)[d].alive /\ LoadModel(m, d, name)
    BY <1>6, <1>8 DEF DataOf
  <2> QED
    BY <2>1, LoadStep DEF Inv
<1>10. Len(rModelDatas') = Len(rModelDatas) + (IF m = "rating" THEN 1 ELSE 0) /\ Len(rModelDatas) \in Nat
  <2>1. "rating" \in Managers /\ ModelsOf("rating") = rModelDatas /\ ModelsOf("rating")' = rModelDatas'
    BY DEF Managers, ModelsOf
  <2> QED
    BY <1>9, <2>1
<1>11. /\ NetsLeft(l)' \in SUBSET NetsLeft(l) /\ NetsLeft(l) \in SUBSET Sides
       /\ m = "rating" => i \in NetsLeft(l) \ NetsLeft(l)'
  <2>1. NetsLeft(l) \in SUBSET Sides /\ NetsLeft(l)' \in SUBSET Sides
    BY LeftTypes, LeftTypesNext
  <2>2. ASSUME NEW j \in Sides
        PROVE  ModelsNamed(chosen.manager[j], task[l].model[j])' =
                 IF chosen.manager[j] = m /\ task[l].model[j] = name THEN {d}
                 ELSE ModelsNamed(chosen.manager[j], task[l].model[j])
    <3>1. PICK k \in Managers, other \in Names : k = chosen.manager[j] /\ other = task[l].model[j]
      BY <1>7
    <3>2. ModelsNamed(k, other)' = IF k = m /\ other = name THEN {d} ELSE ModelsNamed(k, other)
      BY <1>9
    <3>3. ModelsNamed(chosen.manager[j], task[l].model[j])' = ModelsNamed(k, other)'
      <4>1. chosen'.manager[j] = k /\ task'[l].model[j] = other
        BY <1>1, <3>1
      <4> QED
        BY <4>1 DEF ModelsNamed, S!ModelsNamed, R!ModelsNamed
    <3> QED
      BY <3>1, <3>2, <3>3
  <2>3. \A j \in Sides : j \in ToLoad(l)' <=> j \in ToLoad(l) /\ ~(chosen.manager[j] = m /\ task[l].model[j] = name)
    BY <2>2 DEF ToLoad
  <2>4. i \in ToLoad(l) /\ i \notin ToLoad(l)'
    BY <1>6, <1>8, <2>3 DEF IsNextToLoad
  <2> QED
    BY <1>1, <1>8, <2>1, <2>3, <2>4 DEF NetsLeft
<1>12. /\ Cardinality(NetsLeft(l))' <= Cardinality(NetsLeft(l)) - (IF m = "rating" THEN 1 ELSE 0)
       /\ Cardinality(NetsLeft(l)) \in Nat /\ Cardinality(NetsLeft(l))' \in Nat
  <2>1. PICK A \in SUBSET Sides : A = NetsLeft(l)
    BY <1>11
  <2>2. PICK B \in SUBSET A : B = NetsLeft(l)'
    BY <1>11, <2>1
  <2>3. /\ Cardinality(B) <= Cardinality(A)
        /\ A \ B # {} => Cardinality(B) <= Cardinality(A) - 1
        /\ Cardinality(A) \in Nat /\ Cardinality(B) \in Nat
    <3>1. B \in SUBSET Sides
      OBVIOUS
    <3> QED
      BY <3>1, FewerSides, CountSides
  <2> QED
    BY <1>11, <2>1, <2>2, <2>3
<1>13. numRatingGamesActive' + taskRepFactor * Cardinality(RatingAt(Asked))' + GamesLeft(l)'
         <= Matches * taskRepFactor
  <2>1. numRatingGamesActive + taskRepFactor * Cardinality(RatingAt(Asked)) + GamesLeft(l)
          <= Matches * taskRepFactor
    BY DEF BoundInv
  <2> QED
    BY <1>1, <1>4, <1>5, <2>1
<1>14. Len(rModelDatas') + 2 * Cardinality(RatingAt(Asked \ {"load"}))' + Cardinality(NetsLeft(l))'
         <= 2 * Matches
  <2>1. Len(rModelDatas) + 2 * Cardinality(RatingAt(Asked \ {"load"})) + Cardinality(NetsLeft(l)) <= 2 * Matches
    BY DEF BoundInv
  <2>2. Matches \in Nat
    BY MatchesType
  <2> QED
    BY <1>4, <1>10, <1>12, <2>1, <2>2
<1>15. numRatingGamesActive' \in Nat
  BY <1>1
<1> QED
  BY <1>2, <1>13, <1>14, <1>15, OwnersBounds DEF Matches

(* The games of a match follow one another.                                                  *)
LEMMA LoadedBounds ==
  ASSUME Inv, Inv', BoundInv, numRatingGamesActive \in Nat, NEW l \in TaskLoops, Loaded(l)
  PROVE  BoundInv'
<1>1. CASE NextTask(l, "load")
  <2>1. \A k \in TaskLoops \ {l} : loop'[k] = loop[k] /\ task'[k] = task[k]
    BY LoopMoves DEF TaskLoop
  <2> QED
    BY <1>1, <2>1, AskingLess DEF AsksNoMore
<1>2. CASE Locked(l, "load", "acquire_black") /\ rep' = 1 /\ UNCHANGED <<task, chosen>>
  <2>1. /\ taskLoopMutex = l /\ loop[l] = "load" /\ loop'[l] = "acquire_black" /\ rep' = 1
        /\ UNCHANGED <<rating, chosen, task, numRatingGamesActive>> /\ rModelDatas' = rModelDatas
    BY <1>2 DEF Loaded, Locked, Step, Inv, LoopsInv, rating
  <2>2. \A k \in TaskLoops \ {l} : loop'[k] = loop[k] /\ task'[k] = task[k] /\ loop[k] \in Outside
    BY <2>1, OwnerAlone DEF TaskLoop
  <2>3. /\ RatingIn(l, Asked) <=> task[l].isRatingGame
        /\ ~RatingIn(l, Asked)'
        /\ ~RatingIn(l, Asked \ {"load"}) /\ ~RatingIn(l, Asked \ {"load"})'
    BY <2>1 DEF RatingIn, Asked
  <2>4. PICK r \in {0, 1} : r = IF task[l].isRatingGame THEN 1 ELSE 0
    OBVIOUS
  <2>5. PICK a \in Nat : a = Cardinality(RatingAt(Asked))' /\ Cardinality(RatingAt(Asked)) = a + r
    <3>1. /\ Cardinality(RatingAt(Asked))' = Cardinality(RatingAt(Asked)) - (IF task[l].isRatingGame THEN 1 ELSE 0)
          /\ Cardinality(RatingAt(Asked)) \in Nat /\ Cardinality(RatingAt(Asked))' \in Nat
      BY <2>2, <2>3, Moved
    <3> QED
      BY <2>4, <3>1
  <2>6. /\ Cardinality(RatingAt(Asked \ {"load"}))' = Cardinality(RatingAt(Asked \ {"load"}))
        /\ Cardinality(RatingAt(Asked \ {"load"})) \in Nat
    BY <2>2, <2>3, Moved
  <2>7. PICK f \in Nat : f = taskRepFactor
    BY ContributeAssumption DEF ContributeAssumption
  <2>8. GamesLeft(l) = 0 /\ GamesLeft(l)' = f * r
    <3>1. loop[l] \notin Together
      BY <2>1 DEF Together
    <3>2. GamesLeft(l)' = IF task[l].isRatingGame THEN f - 1 + 1 ELSE 0
      BY <2>1, <2>7 DEF GamesLeft, RatingIn
    <3> QED
      BY <2>4, <2>7, <3>1, <3>2, LeftTypes
  <2>9. Cardinality(NetsLeft(l))' = 0 /\ Cardinality(NetsLeft(l)) \in Nat
    BY <2>1, LeftTypes, LeftTypesNext
  <2>10. numRatingGamesActive' + taskRepFactor * Cardinality(RatingAt(Asked))' + GamesLeft(l)'
           <= Matches * taskRepFactor
    <3>1. numRatingGamesActive + f * (a + r) + 0 <= Matches * taskRepFactor
      BY <2>5, <2>7, <2>8 DEF BoundInv
    <3>2. f * (a + r) = f * a + f * r /\ f * a \in Nat /\ f * r \in Nat
      BY ONLY f \in Nat, a \in Nat, r \in {0, 1}
    <3>3. PICK x \in Nat, y \in Nat, z \in Nat : x = f * a /\ y = f * r /\ z = numRatingGamesActive
      BY <3>2
    <3>4. z + x + y <= Matches * taskRepFactor
      <4>1. z + (x + y) + 0 <= Matches * taskRepFactor
        BY <3>1, <3>2, <3>3
      <4>2. z + (x + y) + 0 = z + x + y
        OBVIOUS
      <4> QED
        BY <4>1, <4>2
    <3> QED
      BY <2>1, <2>5, <2>7, <2>8, <3>3, <3>4
  <2>11. Len(rModelDatas') + 2 * Cardinality(RatingAt(Asked \ {"load"}))' + Cardinality(NetsLeft(l))'
           <= 2 * Matches
    <3>1. Len(rModelDatas) + 2 * Cardinality(RatingAt(Asked \ {"load"})) + Cardinality(NetsLeft(l)) <= 2 * Matches
      BY DEF BoundInv
    <3>2. Matches \in Nat /\ Len(rModelDatas) \in Nat
      BY MatchesType, LeftTypes
    <3> QED
      BY <2>1, <2>6, <2>9, <3>1, <3>2
  <2>12. numRatingGamesActive' \in Nat
    BY <2>1
  <2> QED
    BY <2>2, <2>10, <2>11, <2>12, OwnersBounds DEF Matches
<1> QED
  BY <1>1, <1>2 DEF Loaded

(* Games begin to count one after another.                                                   *)
LEMMA TogetherBounds ==
  ASSUME Inv, Inv', BoundInv, numRatingGamesActive \in Nat, numRatingGamesActive' \in Nat,
         NEW l \in TaskLoops, AcquireBlack(l) \/ AcquireWhite(l) \/ PushGame(l)
  PROVE  BoundInv'
<1>0. /\ loop \in [TaskLoops -> Outside \cup Before \cup {"load"} \cup Together]
      /\ LoopOK(l) /\ rep \in Nat /\ taskRepFactor \in Nat
  BY ContributeAssumption DEF Inv, LoopsInv, ContributeAssumption
<1>1. taskLoopMutex = l /\ loop[l] \in Together
  BY DEF AcquireBlack, AcquireWhite, Acquire, PushGame, Locked, NextTask, Unlock, Step, Together
<1>2. \A k \in TaskLoops \ {l} : loop'[k] = loop[k] /\ task'[k] = task[k] /\ loop[k] \in Outside
  BY <1>1, OwnerAlone DEF TaskLoop
<1>3. rModelDatas' = rModelDatas
  <2>1. ASSUME NEW i \in Sides, NEW from \in Together, NEW to, Acquire(l, i, from, to)
        PROVE  rModelDatas' = rModelDatas
    BY <2>1, AcquireFinds
  <2>2. CASE AcquireBlack(l) \/ AcquireWhite(l)
    BY <2>1, <2>2 DEF AcquireBlack, AcquireWhite, Sides, Together
  <2>3. CASE PushGame(l)
    BY <2>3 DEF PushGame, rating
  <2> QED
    BY <2>2, <2>3
<1>4. loop'[l] \in Together \cup {"top", "end"}
  BY <1>0 DEF AcquireBlack, AcquireWhite, Acquire, PushGame, Locked, NextTask, Unlock, Step, Together
<1>5. /\ ~RatingIn(l, Asked) /\ ~RatingIn(l, Asked)'
      /\ ~RatingIn(l, Asked \ {"load"}) /\ ~RatingIn(l, Asked \ {"load"})'
  BY <1>1, <1>4 DEF RatingIn, Asked, Together
<1>6. /\ Cardinality(RatingAt(Asked))' = Cardinality(RatingAt(Asked)) /\ Cardinality(RatingAt(Asked)) \in Nat
      /\ Cardinality(RatingAt(Asked \ {"load"}))' = Cardinality(RatingAt(Asked \ {"load"}))
      /\ Cardinality(RatingAt(Asked \ {"load"})) \in Nat
  BY <1>2, <1>5, Moved
<1>7. Cardinality(NetsLeft(l))' = 0 /\ Cardinality(NetsLeft(l)) = 0
  <2>1. loop[l] # "load" /\ loop'[l] # "load"
    BY <1>1, <1>4 DEF Together
  <2> QED
    BY <2>1, LeftTypes, LeftTypesNext
<1>8. numRatingGamesActive' + GamesLeft(l)' <= numRatingGamesActive + GamesLeft(l)
  <2>1. task[l].isRatingGame \in BOOLEAN /\ rep \in 1..taskRepFactor
    BY <1>0, <1>1, LeftTypes DEF LoopOK
  <2>2. CASE AcquireBlack(l)
    <3>1. /\ loop[l] = "acquire_black" /\ loop'[l] = "acquire_white" /\ UNCHANGED <<task, rep, numRatingGamesActive>>
      BY <1>0, <2>2 DEF AcquireBlack, Acquire, Locked, Step
    <3>2. GamesLeft(l)' = GamesLeft(l)
      BY <3>1 DEF GamesLeft, RatingIn
    <3> QED
      BY <3>1, <3>2, LeftTypes
  <2>3. CASE AcquireWhite(l)
    <3>1. /\ loop[l] = "acquire_white" /\ loop'[l] = "push" /\ UNCHANGED <<task, rep>>
          /\ numRatingGamesActive' = numRatingGamesActive + (IF task[l].isRatingGame THEN 1 ELSE 0)
      BY <1>0, <2>3 DEF AcquireWhite, Acquire, Locked, Step
    <3>2. /\ GamesLeft(l) = IF task[l].isRatingGame THEN taskRepFactor - rep + 1 ELSE 0
          /\ GamesLeft(l)' = IF task[l].isRatingGame THEN taskRepFactor - rep ELSE 0
      BY <3>1 DEF GamesLeft, RatingIn
    <3> QED
      BY <1>0, <2>1, <3>1, <3>2
  <2>4. CASE PushGame(l)
    <3>1. loop[l] = "push" /\ UNCHANGED numRatingGamesActive
      BY <2>4 DEF PushGame, Locked, NextTask, Unlock, Step
    <3>2. GamesLeft(l)' <= GamesLeft(l)
      <4>1. CASE rep < taskRepFactor
        <5>1. loop'[l] = "acquire_black" /\ rep' = rep + 1 /\ UNCHANGED task
          BY <1>0, <2>4, <4>1 DEF PushGame, Locked, Step
        <5>2. /\ GamesLeft(l) = IF task[l].isRatingGame THEN taskRepFactor - rep ELSE 0
              /\ GamesLeft(l)' = IF task[l].isRatingGame THEN taskRepFactor - (rep + 1) + 1 ELSE 0
          BY <3>1, <5>1 DEF GamesLeft, RatingIn
        <5> QED
          BY <1>0, <2>1, <5>2
      <4>2. CASE ~(rep < taskRepFactor)
        <5>1. loop'[l] \in {"top", "end"}
          BY <1>0, <2>4, <4>2 DEF PushGame, NextTask, Unlock, Step
        <5>2. GamesLeft(l)' = 0 /\ GamesLeft(l) \in Nat
          BY <5>1, LeftTypes, LeftTypesNext DEF Together
        <5> QED
          BY <5>2
      <4> QED
        BY <4>1, <4>2
    <3> QED
      BY <3>1, <3>2, LeftTypes, LeftTypesNext
  <2> QED
    BY <2>2, <2>3, <2>4
<1>9. numRatingGamesActive' + taskRepFactor * Cardinality(RatingAt(Asked))' + GamesLeft(l)'
        <= Matches * taskRepFactor
  <2>1. numRatingGamesActive + taskRepFactor * Cardinality(RatingAt(Asked)) + GamesLeft(l)
          <= Matches * taskRepFactor
    BY DEF BoundInv
  <2>2. GamesLeft(l) \in Nat /\ GamesLeft(l)' \in Nat /\ Matches * taskRepFactor \in Nat
        /\ taskRepFactor * Cardinality(RatingAt(Asked)) \in Nat
    BY <1>6, LeftTypes, LeftTypesNext, MatchesType, MoreGames
  <2>3. PICK x \in Nat, z \in Nat : x = taskRepFactor * Cardinality(RatingAt(Asked)) /\ z = Matches * taskRepFactor
    BY <2>2
  <2>4. numRatingGamesActive + x + GamesLeft(l) <= z
    BY <2>1, <2>3
  <2>5. numRatingGamesActive' + x + GamesLeft(l)' <= z
    BY <1>8, <2>2, <2>4
  <2> QED
    BY <1>6, <2>3, <2>5
<1>10. Len(rModelDatas') + 2 * Cardinality(RatingAt(Asked \ {"load"}))' + Cardinality(NetsLeft(l))'
         <= 2 * Matches
  <2>1. Len(rModelDatas) + 2 * Cardinality(RatingAt(Asked \ {"load"})) + Cardinality(NetsLeft(l)) <= 2 * Matches
    BY DEF BoundInv
  <2> QED
    BY <1>3, <1>6, <1>7, <2>1
<1> QED
  BY <1>2, <1>9, <1>10, OwnersBounds DEF Matches

(* The steps of the other threads.                                                          *)
LEMMA StandingBounds ==
  ASSUME Inv, Inv', BoundInv, numRatingGamesActive \in Nat, numRatingGamesActive' \in Nat,
         UNCHANGED loops, numRatingGamesActive' <= numRatingGamesActive,
         Len(rModelDatas') <= Len(rModelDatas), NamesKept \/ \A l \in TaskLoops : loop[l] = "end"
  PROVE  BoundInv'
<1>1. UNCHANGED <<loop, task, chosen, rep>>
  BY DEF loops
<1>2. ASSUME NEW k \in TaskLoops
      PROVE  GamesLeft(k)' <= GamesLeft(k) /\ Cardinality(NetsLeft(k))' <= Cardinality(NetsLeft(k))
  <2>1. GamesLeft(k) \in Nat /\ Cardinality(NetsLeft(k)) \in Nat
    BY LeftTypes
  <2>2. GamesLeft(k)' = GamesLeft(k)
    BY <1>1 DEF GamesLeft, RatingIn
  <2>3. loop[k] = "load" => ToLoad(k)' = ToLoad(k)
    BY <1>1, ToLoadKept DEF Inv
  <2>4. NetsLeft(k)' = NetsLeft(k)
    BY <1>1, <2>3 DEF NetsLeft
  <2> QED
    BY <2>1, <2>2, <2>4
<1>3. PICK l \in TaskLoops : TRUE
  BY ContributeAssumption DEF ContributeAssumption
<1>4. /\ RatingIn(l, Asked)' => RatingIn(l, Asked)
      /\ RatingIn(l, Asked \ {"load"})' => RatingIn(l, Asked \ {"load"})
      /\ \A k \in TaskLoops \ {l} : loop'[k] = loop[k] /\ task'[k] = task[k]
  BY <1>1 DEF RatingIn
<1> QED
  BY <1>2, <1>4, BoundsFall

-------------------------------------------------------------------------------
(* The count is a number.                                                                   *)
LEMMA CountTypes ==
  Inv => /\ IsFiniteSet(PlayedRating) /\ Cardinality(PlayedRating) \in Nat /\ QueuedRating \in {0, 1}
         /\ Cardinality(RatingAt({"push"})) \in Nat
         /\ CountInv => numRatingGamesActive \in Nat
<1>1. PlayedRating \subseteq GameThreads /\ IsFiniteSet(GameThreads)
  BY ContributeAssumption DEF PlayedRating, ContributeAssumption
<1>2. IsFiniteSet(PlayedRating)
  BY ONLY <1>1, FS_Subset
<1>3. Cardinality(PlayedRating) \in Nat
  BY ONLY <1>2, FS_CardinalityType
<1>4. QueuedRating \in {0, 1}
  BY DEF QueuedRating
<1>5. Cardinality(RatingAt({"push"})) \in Nat
  <2>1. RatingAt({"push"}) \subseteq TaskLoops /\ IsFiniteSet(TaskLoops)
    BY ContributeAssumption DEF RatingAt, ContributeAssumption
  <2>2. IsFiniteSet(RatingAt({"push"}))
    BY ONLY <2>1, FS_Subset
  <2> QED
    BY ONLY <2>2, FS_CardinalityType
<1>6. CountInv => numRatingGamesActive \in Nat
  BY <1>3, <1>4, <1>5 DEF CountInv
<1> QED
  BY <1>2, <1>3, <1>4, <1>5, <1>6

(* What a task loop adds counts when it is about to be handed over.                           *)
LEMMA LoopCounts ==
  ASSUME Inv, Inv', CountInv, NEW l \in TaskLoops, TaskLoop(l)
  PROVE  CountInv'
<1>0. /\ loop \in [TaskLoops -> Outside \cup Before \cup {"load"} \cup Together]
      /\ LoopOK(l) /\ chosen \in Games /\ task[l].isRatingGame \in BOOLEAN
  BY LeftTypes DEF Inv, LoopsInv
<1>1. UNCHANGED <<game, gameTask>>
  BY DEF TaskLoop, Stop, Enter, GetNextTask, NoNextTask, StartDownloads, AllPresent, Download, EndDownload,
         Relock, UnloadSelfplay, UnloadRating, ChooseManagers, Load, LoadFails, Loaded, AcquireBlack,
         AcquireWhite, Acquire, PushGame, Locked, NextTask, Unlock, Step, Unlocked, games
<1>2. PlayedRating' = PlayedRating
  BY <1>1 DEF PlayedRating
<1>3. /\ Cardinality(PlayedRating) \in Nat /\ QueuedRating \in {0, 1} /\ numRatingGamesActive \in Nat
      /\ Cardinality(RatingAt({"push"})) \in Nat
  BY CountTypes
<1>4. Cardinality(RatingAt({"push"}))' =
        Cardinality(RatingAt({"push"})) + (IF RatingIn(l, {"push"})' THEN 1 ELSE 0)
                                        - (IF RatingIn(l, {"push"}) THEN 1 ELSE 0)
  BY LoopMoves, Moved
<1>5. numRatingGamesActive = Cardinality(RatingAt({"push"})) + QueuedRating + Cardinality(PlayedRating)
  BY DEF CountInv
<1>6. CASE AcquireWhite(l)
  <2>1. /\ loop[l] = "acquire_white" /\ loop'[l] = "push" /\ UNCHANGED <<task, gameTaskQueue>>
        /\ numRatingGamesActive' = numRatingGamesActive + (IF task[l].isRatingGame THEN 1 ELSE 0)
    BY <1>0, <1>6 DEF AcquireWhite, Acquire, Locked, Step
  <2>2. QueuedRating' = QueuedRating
    BY <2>1 DEF QueuedRating
  <2>3. ~RatingIn(l, {"push"}) /\ (RatingIn(l, {"push"})' <=> task[l].isRatingGame)
    BY <2>1 DEF RatingIn
  <2> QED
    BY <1>2, <1>3, <1>4, <1>5, <2>1, <2>2, <2>3 DEF CountInv
<1>7. CASE PushGame(l)
  <2>1. loop[l] = "push" /\ loop'[l] # "push" /\ UNCHANGED numRatingGamesActive /\ gameTaskQueue = <<>>
    BY <1>0, <1>7 DEF PushGame, Locked, NextTask, Unlock, Step
  <2>2. PICK g \in {chosen, Swapped(chosen)} : gameTaskQueue' = <<g>>
    BY <1>7 DEF PushGame
  <2>3. g.isRatingGame = task[l].isRatingGame
    <3>1. chosen.isRatingGame = task[l].isRatingGame
      BY <1>0, <2>1 DEF LoopOK, Together
    <3> QED
      BY <1>0, <3>1, SwappedHolds
  <2>4. QueuedRating = 0 /\ QueuedRating' = IF task[l].isRatingGame THEN 1 ELSE 0
    BY <2>1, <2>2, <2>3 DEF QueuedRating
  <2>5. (RatingIn(l, {"push"}) <=> task[l].isRatingGame) /\ ~RatingIn(l, {"push"})'
    BY <2>1 DEF RatingIn
  <2> QED
    BY <1>2, <1>3, <1>4, <1>5, <2>1, <2>4, <2>5 DEF CountInv
<1>8. CASE ~AcquireWhite(l) /\ ~PushGame(l)
  <2>1. UNCHANGED <<numRatingGamesActive, gameTaskQueue>>
    BY <1>8 DEF TaskLoop, Stop, Enter, GetNextTask, NoNextTask, StartDownloads, AllPresent, Download, EndDownload,
         Relock, UnloadSelfplay, UnloadRating, ChooseManagers, Load, LoadFails, Loaded, AcquireBlack,
         Acquire, Unlocked, Nothing
  <2>2. loop[l] # "push" /\ loop'[l] # "push"
    BY <1>0, <1>8 DEF TaskLoop, Stop, Enter, GetNextTask, NoNextTask, StartDownloads, AllPresent, Download,
         EndDownload, Relock, UnloadSelfplay, UnloadRating, ChooseManagers, Load, LoadFails, Loaded,
         AcquireBlack, Acquire, Locked, NextTask, Unlock, Step
  <2>3. QueuedRating' = QueuedRating
    BY <2>1 DEF QueuedRating
  <2>4. ~RatingIn(l, {"push"}) /\ ~RatingIn(l, {"push"})'
    BY <2>2 DEF RatingIn
  <2> QED
    BY <1>2, <1>3, <1>4, <1>5, <2>1, <2>3, <2>4 DEF CountInv
<1> QED
  BY <1>6, <1>7, <1>8

(* A game counts until its thread has counted it out.                                        *)
LEMMA GameCounts ==
  ASSUME Inv, Inv', CountInv, NEW g \in GameThreads, GameLoop(g)
  PROVE  CountInv' /\ numRatingGamesActive' \in Nat /\ numRatingGamesActive' <= numRatingGamesActive
<1>0. /\ game \in [GameThreads -> {"pop", "play", "release_white", "count", "end"}]
      /\ gameTask \in [GameThreads -> Games] /\ UNCHANGED <<loop, task>>
  BY DEF Inv, GamesInv, GameLoop, PopGame, ReleaseBlack, ReleaseWhite, CountGame, EndOfGames, GameStep, loops
<1>1. /\ IsFiniteSet(PlayedRating) /\ Cardinality(PlayedRating) \in Nat /\ QueuedRating \in {0, 1}
      /\ numRatingGamesActive \in Nat /\ Cardinality(RatingAt({"push"})) \in Nat
  BY CountTypes
<1>2. RatingAt({"push"})' = RatingAt({"push"})
  BY <1>0 DEF RatingAt, RatingIn
<1>3. numRatingGamesActive = Cardinality(RatingAt({"push"})) + QueuedRating + Cardinality(PlayedRating)
  BY DEF CountInv
<1>4. CASE PopGame(g)
  <2>1. /\ game[g] = "pop" /\ game'[g] = "play" /\ \A h \in GameThreads \ {g} : game'[h] = game[h]
        /\ gameTask'[g] = Head(gameTaskQueue) /\ \A h \in GameThreads \ {g} : gameTask'[h] = gameTask[h]
        /\ UNCHANGED numRatingGamesActive /\ gameTaskQueue # <<>>
    BY <1>0, <1>4 DEF PopGame, GameStep
  <2>2. QueuedRating' = 0
    <3>1. gameTaskQueue \in Seq(Games) /\ Len(gameTaskQueue) = 1
      BY <2>1 DEF Inv, GamesInv
    <3>2. Tail(gameTaskQueue) = <<>>
      BY ONLY <3>1, OneIsLeft
    <3>3. gameTaskQueue' = <<>>
      BY <1>4, <3>2 DEF PopGame
    <3> QED
      BY <3>3 DEF QueuedRating
  <2>3. g \notin PlayedRating
        /\ PlayedRating' = IF Head(gameTaskQueue).isRatingGame THEN PlayedRating \cup {g} ELSE PlayedRating
    BY <2>1 DEF PlayedRating
  <2>4. Cardinality(PlayedRating \cup {g}) = Cardinality(PlayedRating) + 1
    BY ONLY <1>1, <2>3, FS_AddElement
  <2>5. QueuedRating = IF Head(gameTaskQueue).isRatingGame THEN 1 ELSE 0
    BY <2>1 DEF QueuedRating
  <2>6. Cardinality(PlayedRating)' = Cardinality(PlayedRating) + QueuedRating
    <3>1. CASE Head(gameTaskQueue).isRatingGame
      BY <2>3, <2>4, <2>5, <3>1
    <3>2. CASE ~Head(gameTaskQueue).isRatingGame
      BY <1>1, <2>3, <2>5, <3>2
    <3> QED
      BY <3>1, <3>2
  <2> QED
    BY <1>1, <1>2, <1>3, <2>1, <2>2, <2>6 DEF CountInv
<1>5. CASE ReleaseBlack(g) \/ ReleaseWhite(g) \/ EndOfGames(g)
  <2>1. UNCHANGED <<gameTask, gameTaskQueue, numRatingGamesActive>>
    BY <1>5 DEF ReleaseBlack, ReleaseWhite, EndOfGames
  <2>2. /\ game[g] \in {"play", "release_white", "count"} <=> game'[g] \in {"play", "release_white", "count"}
        /\ \A h \in GameThreads \ {g} : game'[h] = game[h]
    BY <1>0, <1>5 DEF ReleaseBlack, ReleaseWhite, EndOfGames, GameStep
  <2>3. PlayedRating' = PlayedRating /\ QueuedRating' = QueuedRating
    BY <2>1, <2>2 DEF PlayedRating, QueuedRating
  <2> QED
    BY <1>1, <1>2, <1>3, <2>1, <2>3 DEF CountInv
<1>6. CASE CountGame(g)
  <2>1. /\ game[g] = "count" /\ game'[g] = "pop" /\ \A h \in GameThreads \ {g} : game'[h] = game[h]
        /\ \A h \in GameThreads \ {g} : gameTask'[h] = gameTask[h]
        /\ numRatingGamesActive' = numRatingGamesActive - (IF gameTask[g].isRatingGame THEN 1 ELSE 0)
        /\ UNCHANGED gameTaskQueue
    BY <1>0, <1>6 DEF CountGame, GameStep
  <2>2. QueuedRating' = QueuedRating
    BY <2>1 DEF QueuedRating
  <2>3. /\ g \in PlayedRating <=> gameTask[g].isRatingGame
        /\ PlayedRating' = PlayedRating \ {g}
    BY <2>1 DEF PlayedRating
  <2>4. CASE gameTask[g].isRatingGame
    <3>1. g \in PlayedRating
      BY <2>3, <2>4
    <3>2. /\ IsFiniteSet(PlayedRating \ {g})
          /\ Cardinality(PlayedRating \ {g}) = Cardinality(PlayedRating) - 1
      BY ONLY <1>1, <3>1, FS_RemoveElement
    <3>3. Cardinality(PlayedRating \ {g}) \in Nat
      BY ONLY <3>2, FS_CardinalityType
    <3>4. Cardinality(PlayedRating)' = Cardinality(PlayedRating) - 1 /\ Cardinality(PlayedRating)' \in Nat
      BY <2>3, <3>2, <3>3
    <3> QED
      BY <1>1, <1>2, <1>3, <2>1, <2>2, <2>4, <3>4 DEF CountInv
  <2>5. CASE ~gameTask[g].isRatingGame
    <3>1. PlayedRating' = PlayedRating
      BY <2>3, <2>5
    <3> QED
      BY <1>1, <1>2, <1>3, <2>1, <2>2, <2>5, <3>1 DEF CountInv
  <2> QED
    BY <2>4, <2>5
<1> QED
  BY <1>4, <1>5, <1>6 DEF GameLoop

(* A release takes no net away.                                                             *)
LEMMA ReleasingKeeps ==
  ASSUME Inv, NEW g \in GameThreads, ReleaseBlack(g) \/ ReleaseWhite(g)
  PROVE  NamesKept /\ rModelDatas' = rModelDatas
<1>1. PICK i \in Sides : /\ game[g] = (IF i = 1 THEN "play" ELSE "release_white")
                         /\ Release(gameTask[g].manager[i], gameTask[g].nnEval[i])
  BY DEF ReleaseBlack, ReleaseWhite, GameStep, Sides
<1>2. PICK m \in Managers, d \in Datas : m = gameTask[g].manager[i] /\ d = gameTask[g].nnEval[i]
  BY <1>1 DEF Inv, GamesInv, GoodGame
<1>3. DataOf(m)[d].acquireCount > 0
  <2>1. <<g, i>> \in Played(m, d)
    BY <1>1, <1>2 DEF Played, HeldBy, PlayedSides, Sides
  <2>2. /\ IsFiniteSet(Played(m, d)) /\ Cardinality(Played(m, d)) \in Nat
        /\ Cardinality(HeldBy(chosen, ChosenSides, m, d)) \in Nat /\ Cardinality(Queued(m, d)) \in Nat
    BY HeldParts
  <2>3. Cardinality(Played(m, d)) # 0
    BY ONLY <2>1, <2>2, FS_EmptySet
  <2>4. Holds(m, d) > 0
    BY <2>2, <2>3 DEF Holds
  <2> QED
    BY <2>4 DEF Inv, HoldsInv
<1>4. d \in ToSet(ModelsOf(m)) \ RemovingOf(m) /\ Release(m, d)
  BY <1>1, <1>2, <1>3, UsedIsThere DEF Inv
<1>5. NamesKept /\ \A k \in Managers : ModelsOf(k)' = ModelsOf(k)
  BY <1>3, <1>4, ReleaseStep DEF Inv, NamesKept
<1> QED
  BY <1>5 DEF ModelsOf, Managers

(* The main thread takes nets away when no loop is left.                                      *)
LEMMA MainKeeps ==
  ASSUME Inv, Signal \/ EndRemoval \/ Main \/ Stopped \/ UNCHANGED vars
  PROVE  /\ Len(rModelDatas') <= Len(rModelDatas)
         /\ NamesKept \/ \A l \in TaskLoops : loop[l] = "end"
<1>0. ManagersInv /\ Len(rModelDatas) \in Nat
  BY LeftTypes DEF Inv
<1>1. CASE UNCHANGED <<selfplay, rating>>
  BY <1>0, <1>1, ManagersKept DEF rating
<1>2. CASE EndRemoval
  <2>1. \A k \in Managers : Len(ModelsOf(k)') <= Len(ModelsOf(k))
    BY <1>0, <1>2, EndRemovalStep DEF EndRemoval
  <2>2. NamesKept
    BY <1>0, <1>2, EndRemovalStep DEF EndRemoval, NamesKept
  <2> QED
    BY <2>1, <2>2 DEF Managers, ModelsOf
<1>3. CASE DeleteManagers
  <2>1. (\A g \in GameThreads : game[g] = "end") /\ main # "join"
    BY <1>3 DEF DeleteManagers, At
  <2>2. \A l \in TaskLoops : loop[l] = "end"
    BY <2>1 DEF Inv, GamesInv
  <2>3. \A m \in Managers, d \in Datas : DataOf(m)[d].acquireCount = 0
    BY <2>1, <2>2, NothingHeld
  <2>4. UNCHANGED <<selfplay, rating>> \/ Destroys("selfplay") \/ Destroys("rating")
    BY <1>3 DEF DeleteManagers, Destroys
  <2>5. rModelDatas' = rModelDatas
    <3>1. CASE UNCHANGED <<selfplay, rating>>
      BY <3>1 DEF rating
    <3>2. ASSUME NEW m \in Managers, Destroys(m)
          PROVE  rModelDatas' = rModelDatas
      <4>1. \A k \in Managers : ModelsOf(k)' = ModelsOf(k)
        BY <1>0, <2>3, <3>2, DestroyStep
      <4> QED
        BY <4>1 DEF Managers, ModelsOf
    <3> QED
      BY <2>4, <3>1, <3>2 DEF Managers
  <2> QED
    BY <1>0, <2>2, <2>5
<1> QED
  BY <1>1, <1>2, <1>3 DEF Signal, Main, JoinTaskLoops, Stopped, vars

(* Both are kept by every step.                                                             *)
LEMMA CountingStep ==
  ASSUME Inv, BoundInv, CountInv, [Next]_vars
  PROVE  BoundInv' /\ CountInv'
<1>1. Inv' /\ numRatingGamesActive \in Nat
  BY EveryStep, CountTypes
<1>2. (Inv => /\ IsFiniteSet(PlayedRating) /\ Cardinality(PlayedRating) \in Nat /\ QueuedRating \in {0, 1}
              /\ Cardinality(RatingAt({"push"})) \in Nat
              /\ CountInv => numRatingGamesActive \in Nat)'
  BY CountTypes, PTL
<1>3. ASSUME NEW l \in TaskLoops, TaskLoop(l)
      PROVE  BoundInv' /\ CountInv'
  <2>1. CountInv'
    BY <1>1, <1>3, LoopCounts
  <2>2. numRatingGamesActive' \in Nat
    BY <1>1, <1>2, <2>1
  <2>3. \A k \in TaskLoops \ {l} : loop'[k] = loop[k] /\ task'[k] = task[k]
    BY <1>3, LoopMoves
  <2>4. CASE AsksNoMore(l)
    BY <1>1, <2>1, <2>3, <2>4, AskingLess
  <2>5. CASE Stop(l) \/ Download(l) \/ EndDownload(l) \/ Relock(l)
    BY <1>1, <2>1, <2>3, <2>5, AwayBounds
  <2>6. CASE GetNextTask(l) \/ ChooseManagers(l) \/ Load(l) \/ Loaded(l)
    BY <1>1, <2>1, <2>6, QueryBounds, ChooseBounds, LoadBounds, LoadedBounds
  <2>7. CASE AcquireBlack(l) \/ AcquireWhite(l) \/ PushGame(l)
    BY <1>1, <2>1, <2>2, <2>7, TogetherBounds
  <2> QED
    BY <1>3, <2>4, <2>5, <2>6, <2>7 DEF TaskLoop, AsksNoMore
<1>4. ASSUME NEW g \in GameThreads, GameLoop(g)
      PROVE  BoundInv' /\ CountInv'
  <2>1. CountInv' /\ numRatingGamesActive' \in Nat /\ numRatingGamesActive' <= numRatingGamesActive
    BY <1>1, <1>4, GameCounts
  <2>2. UNCHANGED loops
    BY <1>4 DEF GameLoop, PopGame, ReleaseBlack, ReleaseWhite, CountGame, EndOfGames, GameStep
  <2>3. rModelDatas' = rModelDatas /\ NamesKept
    <3>1. CASE PopGame(g) \/ CountGame(g) \/ EndOfGames(g)
      BY <3>1, ManagersKept DEF PopGame, CountGame, EndOfGames, rating, Inv
    <3>2. CASE ReleaseBlack(g) \/ ReleaseWhite(g)
      BY <3>2, ReleasingKeeps
    <3> QED
      BY <1>4, <3>1, <3>2 DEF GameLoop
  <2>4. Len(rModelDatas') <= Len(rModelDatas)
    BY <2>3, LeftTypes
  <2> QED
    BY <1>1, <2>1, <2>2, <2>3, <2>4, StandingBounds
<1>5. CASE Signal \/ EndRemoval \/ Main \/ Stopped \/ UNCHANGED vars
  <2>1. UNCHANGED <<loops, gameTaskQueue, games, numRatingGamesActive>>
    BY <1>5 DEF Signal, EndRemoval, Main, JoinTaskLoops, DeleteManagers, At, Stopped, vars
  <2>2. RatingAt({"push"})' = RatingAt({"push"}) /\ QueuedRating' = QueuedRating /\ PlayedRating' = PlayedRating
    BY <2>1 DEF loops, games, RatingAt, RatingIn, QueuedRating, PlayedRating
  <2>3. CountInv'
    BY <2>1, <2>2 DEF CountInv
  <2>4. Len(rModelDatas') <= Len(rModelDatas) /\ (NamesKept \/ \A l \in TaskLoops : loop[l] = "end")
    BY <1>5, MainKeeps
  <2> QED
    BY <1>1, <2>1, <2>3, <2>4, StandingBounds
<1> QED
  BY <1>3, <1>4, <1>5 DEF Next

(* The rating games that have been asked for, that are still to come and that count stay       *)
(* within what the other loops can have asked for, and so do the rating nets; and the count     *)
(* is that of the rating games there are.                                                        *)
THEOREM Bounds == Spec => [](BoundInv /\ CountInv)
<1>1. Init => BoundInv /\ CountInv
  <2> SUFFICES ASSUME Init
               PROVE  BoundInv /\ CountInv
    OBVIOUS
  <2>1. /\ \A l \in TaskLoops : loop[l] = "top"
        /\ \A g \in GameThreads : game[g] = "pop"
        /\ numRatingGamesActive = 0 /\ rModelDatas = <<>> /\ gameTaskQueue = <<>>
    BY DEF Init, R!ManagerInit
  <2>2. RatingAt(Asked) = {} /\ RatingAt(Asked \ {"load"}) = {} /\ RatingAt({"push"}) = {}
    BY <2>1 DEF RatingAt, RatingIn, Asked
  <2>3. PlayedRating = {} /\ QueuedRating = 0 /\ Cardinality({}) = 0
    BY <2>1, FS_EmptySet DEF PlayedRating, QueuedRating
  <2>4. \A l \in TaskLoops : GamesLeft(l) = 0 /\ NetsLeft(l) = {}
    BY <2>1 DEF GamesLeft, NetsLeft, RatingIn
  <2>5. CountInv
    <3>1. Cardinality(RatingAt({"push"})) = 0 /\ Cardinality(PlayedRating) = 0
      BY <2>2, <2>3
    <3>2. 0 = 0 + 0 + 0
      OBVIOUS
    <3> QED
      BY <2>1, <2>3, <3>1, <3>2 DEF CountInv
  <2>6. /\ Matches \in Nat /\ Matches * taskRepFactor \in Nat /\ Len(<<>>) = 0
        /\ taskRepFactor * 0 = 0
    BY MatchesType, ContributeAssumption DEF ContributeAssumption
  <2>7. BoundInv
    <3>1. /\ Cardinality(RatingAt(Asked)) = 0 /\ Cardinality(RatingAt(Asked \ {"load"})) = 0
          /\ \A l \in TaskLoops : Cardinality(NetsLeft(l)) = 0 /\ GamesLeft(l) = 0
          /\ Len(rModelDatas) = 0
      BY <2>1, <2>2, <2>3, <2>4, <2>6
    <3>2. 0 + 0 + 0 <= Matches * taskRepFactor /\ 0 + 2 * 0 + 0 <= 2 * Matches
      BY <2>6
    <3> QED
      BY <2>1, <2>6, <3>1, <3>2 DEF BoundInv
  <2> QED
    BY <2>5, <2>7
<1>2. Inv /\ BoundInv /\ CountInv /\ [Next]_vars => (BoundInv /\ CountInv)'
  BY CountingStep
<1> QED
  BY <1>1, <1>2, Invariance, PTL DEF Spec

(* The rating games and their nets are bounded, whatever the other loops have asked for          *)
(* meanwhile.                                                                                      *)
THEOREM RatingIsBounded == Spec => []RatingGamesAreBounded
<1>1. Inv /\ BoundInv /\ CountInv => RatingGamesAreBounded
  <2> SUFFICES ASSUME Inv, BoundInv, CountInv
               PROVE  RatingGamesAreBounded
    OBVIOUS
  <2>1. PICK l \in TaskLoops : TRUE
    BY ContributeAssumption DEF ContributeAssumption
  <2>2. /\ numRatingGamesActive \in Nat /\ Matches \in Nat /\ Matches * taskRepFactor \in Nat
        /\ GamesLeft(l) \in Nat /\ Cardinality(NetsLeft(l)) \in Nat /\ Len(rModelDatas) \in Nat
    BY CountTypes, LeftTypes, MatchesType
  <2>3. Cardinality(RatingAt(Asked)) \in Nat /\ Cardinality(RatingAt(Asked \ {"load"})) \in Nat
    <3>1. ASSUME NEW pcs
          PROVE  Cardinality(RatingAt(pcs)) \in Nat
      <4>1. RatingAt(pcs) \subseteq TaskLoops /\ IsFiniteSet(TaskLoops)
        BY ContributeAssumption DEF RatingAt, ContributeAssumption
      <4>2. IsFiniteSet(RatingAt(pcs))
        BY ONLY <4>1, FS_Subset
      <4> QED
        BY ONLY <4>2, FS_CardinalityType
    <3> QED
      BY <3>1
  <2>4. taskRepFactor * Cardinality(RatingAt(Asked)) \in Nat
    BY <2>3, MoreGames
  <2>5. numRatingGamesActive \in 0 .. Matches * taskRepFactor
    <3>1. PICK x \in Nat, z \in Nat : x = taskRepFactor * Cardinality(RatingAt(Asked)) /\ z = Matches * taskRepFactor
      BY <2>2, <2>4
    <3>2. numRatingGamesActive + x + GamesLeft(l) <= z
      BY <3>1 DEF BoundInv
    <3>3. numRatingGamesActive <= z
      BY <2>2, <3>2
    <3> QED
      BY <2>2, <3>1, <3>3
  <2>6. Len(rModelDatas) <= 2 * Matches
    <3>1. Len(rModelDatas) + 2 * Cardinality(RatingAt(Asked \ {"load"})) + Cardinality(NetsLeft(l)) <= 2 * Matches
      BY DEF BoundInv
    <3> QED
      BY <2>2, <2>3, <3>1
  <2> QED
    BY <2>5, <2>6 DEF RatingGamesAreBounded, Matches
<1> QED
  BY <1>1, Invariance, Bounds, PTL
=============================================================================
