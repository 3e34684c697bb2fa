-------------------------- MODULE SearchTree_proofs --------------------------
(* Proofs about SearchTree, for any graph of positions, any threads and any sizes of *)
(* the arrays, whatever the threads do at the same time.  First: what a node's state  *)
(* publishes is there, states only move forward, and children are never taken away.   *)
(* Then the accounts that rest on it: virtual losses are the calls that hold the node, *)
(* no playout is lost on its way to the root, and a node's visits are those of its     *)
(* edges.                                                                               *)
EXTENDS SearchTree, FiniteSetTheorems, SequenceTheorems, TLAPS

(* The first k slots of an array have a child, the others have none.                    *)
FilledTo(array, k) == \A i \in DOMAIN array : array[i].child # None <=> i <= k

(* A node's state tells which of its parts are there.                                    *)
NodeInv ==
  \A n \in Nodes :
    /\ state[n] >= EXPANDED0 => nnOutput[n] /\ visits[n] >= 1
    /\ \A a \in 0..2 :
         /\ state[n] < 2 * a + 2 => children[n][a] = NoArray
         /\ state[n] >= 2 * a + 2 => /\ children[n][a] \in ArraysOfSize(a)
                                     /\ \E k \in 0..Capacity[a] : FilledTo(children[n][a], k)
         /\ state[n] > 2 * a + 2 => FilledTo(children[n][a], Capacity[a])

(* The state that a call has read is not ahead of its node's, so its array is there; its  *)
(* slot is one of the array; all slots of its array are taken.                             *)
Reading(frame) == frame.st \in EXPANDED0..state[frame.node]
InArray(frame) == Reading(frame) /\ frame.idx \in 1..Capacity[ArrayOf(frame.st)]
AtEnd(frame)   == /\ frame.idx = Capacity[ArrayOf(frame.st)] + 1
                  /\ FilledTo(children[frame.node][ArrayOf(frame.st)], Capacity[ArrayOf(frame.st)])

(* What a thread has made sure of before it goes on.                                       *)
PathInv(t) ==
  /\ pc[t] \notin {"idle", "start", "loop", "ended"} => path[t] # <<>>
  /\ \A i \in 1..(Len(path[t]) - 1) : InArray(path[t][i])

LeafInv(t) ==
  /\ pc[t] \in {"leaf", "claim", "expand"} => nnOutput[Node(t)]
  /\ pc[t] \in {"claim", "expand"} => visits[Node(t)] >= 1
  /\ pc[t] = "recompute" => completed[t] >= 1

ChoiceInv(t) ==
  /\ pc[t] \in {"select", "grow", "reload", "copy", "publish"} => Reading(Top(t))
  /\ pc[t] \in {"newChild", "catchUp", "edgeState", "edge"} => InArray(Top(t))
  /\ pc[t] \in {"grow", "copy", "publish", "newChild"} => Top(t).move \in Moves(Node(t))
  /\ pc[t] \in {"grow", "copy", "publish"} => AtEnd(Top(t))
  /\ pc[t] = "newChild" => \A i \in 1..(Top(t).idx - 1) : Slots(t)[i].child # None
  /\ pc[t] = "catchUp" => Top(t).child \in Nodes

CopyInv(t) ==
  /\ pc[t] \in {"copy", "publish"} => newChildren[t] \in ArraysOfSize(ArrayOf(Top(t).st) + 1)
  /\ pc[t] = "copy" => \E k \in 0..(Capacity[ArrayOf(Top(t).st)] - 1) : FilledTo(newChildren[t], k)
  /\ pc[t] = "publish" => FilledTo(newChildren[t], Capacity[ArrayOf(Top(t).st)])

ThreadInv(t) == PathInv(t) /\ LeafInv(t) /\ ChoiceInv(t) /\ CopyInv(t)

(* The state of a node that a thread expands or grows is the one it has set, and nobody    *)
(* else is at it.                                                                           *)
Holds(t) == pc[t] \in {"expand", "copy", "publish"}
HoldInv ==
  /\ \A t \in Threads :
       /\ pc[t] = "expand" => state[Node(t)] = EVALUATING
       /\ pc[t] \in {"copy", "publish"} =>
            Top(t).st \in {GROWING1, GROWING2} /\ state[Node(t)] = Top(t).st
  /\ \A t, u \in Threads : Holds(t) /\ Holds(u) /\ t # u => Node(t) # Node(u)

Inv ==
  /\ TypeOK
  /\ NodeInv
  /\ \A t \in Threads : ThreadInv(t)
  /\ HoldInv

(* What a step may do to the nodes.                                                         *)
Forward ==
  \A n \in Nodes :
    /\ state'[n] >= state[n]
    /\ nnOutput[n] => nnOutput'[n]
    /\ visits'[n] >= visits[n]
    /\ \A a \in 0..2 : \A i \in DOMAIN children[n][a] :
         children[n][a][i].child # None =>
           /\ i \in DOMAIN children'[n][a]
           /\ children'[n][a][i].child = children[n][a][i].child
           /\ children'[n][a][i].edgeVisits >= children[n][a][i].edgeVisits

(* Only thread t moves.                                                                      *)
OnlyMoves(t) ==
  \A u \in Threads \ {t} :
    /\ pc'[u] = pc[u] /\ path'[u] = path[u]
    /\ completed'[u] = completed[u] /\ newChildren'[u] = newChildren[u]

-------------------------------------------------------------------------------
(* Sizes and empty arrays.                                                                  *)
LEMMA SizeProperties ==
  /\ \A a \in 0..2 : Capacity[a] \in Nat \ {0}
  /\ Capacity[0] < Capacity[1] /\ Capacity[1] < Capacity[2]
  /\ \A s \in States : ArrayOf(s) \in 0..2 /\ (s >= EXPANDED0 => s >= 2 * ArrayOf(s) + 2)
BY SizeAssumption DEF SizeAssumption, ArrayOf, States, UNEVALUATED, EXPANDED0, EXPANDED1, EXPANDED2

(* The arrays of one size, and an empty one of them.                                         *)
LEMMA ArrayProperties ==
  ASSUME NEW a \in 0..2
  PROVE  /\ \A array \in ArraysOfSize(a) : DOMAIN array = 1..Capacity[a] /\ array # NoArray
         /\ ArraysOfSize(a) \subseteq Arrays /\ NoArray \in Arrays
         /\ NewArray(a) \in ArraysOfSize(a) /\ FilledTo(NewArray(a), 0)
<1>1. Capacity[a] \in Nat \ {0}
  BY SizeProperties
<1>2. \A array \in ArraysOfSize(a) : DOMAIN array = 1..Capacity[a] /\ array # NoArray
  <2> TAKE array \in ArraysOfSize(a)
  <2>1. DOMAIN array = 1..Capacity[a] /\ 1 \in DOMAIN array
    BY <1>1 DEF ArraysOfSize
  <2>2. DOMAIN NoArray = {}
    BY DEF NoArray
  <2> QED
    BY <2>1, <2>2
<1>3. ArraysOfSize(a) \subseteq Arrays /\ NoArray \in Arrays
  BY DEF Arrays
<1>4. NewArray(a) \in ArraysOfSize(a)
  <2>1. Empty \in Slot
    BY DEF Empty, Slot
  <2> QED
    BY <2>1 DEF NewArray, ArraysOfSize
<1>5. FilledTo(NewArray(a), 0)
  BY <1>1 DEF NewArray, FilledTo, Empty
<1> QED
  BY <1>2, <1>3, <1>4, <1>5

(* NumFound finds how far an array is filled.                                                 *)
LEMMA NumFoundProperties ==
  ASSUME NEW a \in 0..2, NEW array \in ArraysOfSize(a), NEW k \in 0..Capacity[a], FilledTo(array, k)
  PROVE  NumFound(array) = k
<1>1. Capacity[a] \in Nat /\ DOMAIN array = 1..Capacity[a]
  BY SizeProperties, ArrayProperties
<1>2. {i \in DOMAIN array : array[i].child # None} = 1..k
  BY <1>1 DEF FilledTo
<1>3. Cardinality(1..k) = k
  BY <1>1, FS_Interval
<1> QED
  BY <1>2, <1>3 DEF NumFound

(* The call that a thread is in.                                                               *)
LEMMA TopFrame ==
  ASSUME TypeOK, NEW t \in Threads, path[t] # <<>>
  PROVE  /\ Len(path[t]) \in Nat \ {0}
         /\ Top(t) \in Frames /\ Node(t) \in Nodes
         /\ \A i \in 1..Len(path[t]) : path[t][i] \in Frames
<1>1. path[t] \in Seq(Frames)
  BY DEF TypeOK
<1>2. Len(path[t]) \in Nat \ {0}
  BY <1>1, EmptySeq
<1>3. \A i \in 1..Len(path[t]) : path[t][i] \in Frames
  BY <1>1, ElementOfSeq
<1> QED
  BY <1>2, <1>3 DEF Top, Node, Frames

(* A step that replaces the last call leaves the others.                                     *)
LEMMA SetTopProperties ==
  ASSUME TypeOK, NEW t \in Threads, path[t] # <<>>, NEW frame \in Frames, SetTop(t, frame)
  PROVE  /\ path' \in [Threads -> Seq(Frames)]
         /\ path'[t] # <<>> /\ Len(path'[t]) = Len(path[t])
         /\ path'[t][Len(path[t])] = frame
         /\ \A i \in 1..(Len(path[t]) - 1) : path'[t][i] = path[t][i]
         /\ \A u \in Threads \ {t} : path'[u] = path[u]
<1> DEFINE q == [path[t] EXCEPT ![Len(path[t])] = frame]
<1>1. path[t] \in Seq(Frames) /\ Len(path[t]) \in Nat \ {0}
  BY TopFrame DEF TypeOK
<1>2. /\ q \in Seq(Frames) /\ Len(q) = Len(path[t]) /\ q # <<>>
      /\ q[Len(path[t])] = frame
      /\ \A i \in 1..(Len(path[t]) - 1) : q[i] = path[t][i]
  <2>1. q \in Seq(Frames) /\ Len(q) = Len(path[t])
    BY <1>1, ExceptSeq
  <2>2. q # <<>>
    BY <1>1, <2>1
  <2>3. DOMAIN path[t] = 1..Len(path[t])
    BY <1>1
  <2> QED
    BY <1>1, <2>1, <2>2, <2>3
<1>3. path' = [path EXCEPT ![t] = q]
  BY DEF SetTop
<1> HIDE DEF q
<1> QED
  BY <1>2, <1>3 DEF TypeOK

(* What a call has read of a node stays right when the node moves forward.                      *)
LEMMA StillReading ==
  ASSUME TypeOK, TypeOK', NodeInv, NodeInv', Forward, NEW frame \in Frames, Reading(frame)
  PROVE  /\ Reading(frame)' /\ (InArray(frame) => InArray(frame)')
         /\ (AtEnd(frame) => AtEnd(frame)')
         /\ ArrayOf(frame.st) \in 0..2
         /\ children[frame.node][ArrayOf(frame.st)] \in ArraysOfSize(ArrayOf(frame.st))
         /\ children'[frame.node][ArrayOf(frame.st)] \in ArraysOfSize(ArrayOf(frame.st))
<1> DEFINE n == frame.node
           a == ArrayOf(frame.st)
<1>1. n \in Nodes /\ frame.st \in States /\ frame.idx \in Nat
  BY DEF Frames
<1>2. state[n] \in States /\ state'[n] \in States /\ state'[n] >= state[n]
  BY <1>1 DEF TypeOK, Forward
<1>3. frame.st \in EXPANDED0..state[n] /\ frame.st \in EXPANDED0..state'[n]
  BY <1>1, <1>2 DEF Reading, States, EXPANDED0, UNEVALUATED, EXPANDED2
<1>4. a \in 0..2 /\ frame.st >= 2 * a + 2 /\ state[n] >= 2 * a + 2 /\ state'[n] >= 2 * a + 2
  <2>1. frame.st >= EXPANDED0
    BY <1>3
  <2>2. a \in 0..2 /\ frame.st >= 2 * a + 2
    BY <1>1, <2>1, SizeProperties
  <2> QED
    BY <2>2, <1>1, <1>2, <1>3 DEF States, EXPANDED0, UNEVALUATED, EXPANDED2
<1> HIDE DEF a
<1>5. children[n][a] \in ArraysOfSize(a)
  BY <1>1, <1>4 DEF NodeInv
<1>6. children'[n][a] \in ArraysOfSize(a)
  BY <1>1, <1>4 DEF NodeInv
<1>7. Reading(frame)'
  BY <1>3 DEF Reading
<1>8. InArray(frame) => InArray(frame)'
  BY <1>7 DEF InArray
<1>9. ASSUME AtEnd(frame) PROVE AtEnd(frame)'
  <2>1. Capacity[a] \in Nat /\ DOMAIN children[n][a] = 1..Capacity[a]
                            /\ DOMAIN children'[n][a] = 1..Capacity[a]
    BY <1>4, <1>5, <1>6, SizeProperties, ArrayProperties
  <2>2. FilledTo(children[n][a], Capacity[a]) /\ frame.idx = Capacity[a] + 1
    BY <1>9 DEF AtEnd, a
  <2>3. \A i \in 1..Capacity[a] : children'[n][a][i].child # None
    <3> TAKE i \in 1..Capacity[a]
    <3>1. children[n][a][i].child # None
      BY <2>1, <2>2 DEF FilledTo
    <3> QED
      BY <3>1, <2>1, <1>1, <1>4 DEF Forward
  <2>4. FilledTo(children'[n][a], Capacity[a])
    BY <2>1, <2>3 DEF FilledTo
  <2> QED
    BY <2>2, <2>4 DEF AtEnd, a
<1> QED
  BY <1>4, <1>5, <1>6, <1>7, <1>8, <1>9 DEF a

(* A step that moves the nodes forward leaves what the other threads know right.                  *)
LEMMA OthersKeep ==
  ASSUME Inv, TypeOK', NodeInv', Forward, NEW t \in Threads, OnlyMoves(t), NEW u \in Threads \ {t}
  PROVE  ThreadInv(u)'
<1> TypeOK /\ NodeInv /\ ThreadInv(u)
  BY DEF Inv
<1>1. /\ pc'[u] = pc[u] /\ path'[u] = path[u]
      /\ completed'[u] = completed[u] /\ newChildren'[u] = newChildren[u]
  BY DEF OnlyMoves
<1>2. Top(u)' = Top(u) /\ Node(u)' = Node(u)
  BY <1>1 DEF Top, Node
<1>3. PathInv(u)'
  <2>1. \A i \in 1..(Len(path[u]) - 1) : InArray(path[u][i])'
    <3> TAKE i \in 1..(Len(path[u]) - 1)
    <3>1. path[u] # <<>> /\ InArray(path[u][i])
      BY DEF ThreadInv, PathInv
    <3>2. path[u][i] \in Frames
      BY <3>1, TopFrame
    <3> DEFINE frame == path[u][i]
    <3>3. path'[u][i] = frame
      BY <1>1
    <3> HIDE DEF frame
    <3> QED
      BY <3>1, <3>2, <3>3, StillReading DEF InArray, Reading, frame
  <2> QED
    BY <1>1, <2>1 DEF ThreadInv, PathInv
<1> SUFFICES ASSUME pc[u] \notin {"idle", "start", "loop", "ended"}
             PROVE  LeafInv(u)' /\ ChoiceInv(u)' /\ CopyInv(u)'
  BY <1>1, <1>3 DEF ThreadInv, LeafInv, ChoiceInv, CopyInv
<1>4. Top(u) \in Frames /\ Node(u) \in Nodes /\ Node(u) = Top(u).node
  BY TopFrame DEF ThreadInv, PathInv, Node
<1>5. LeafInv(u)'
  <2>1. nnOutput[Node(u)] => nnOutput'[Node(u)]
    BY <1>4 DEF Forward
  <2>2. visits[Node(u)] >= 1 => visits'[Node(u)] >= 1
    <3>1. visits[Node(u)] \in Nat /\ visits'[Node(u)] \in Nat
      BY <1>4 DEF TypeOK
    <3>2. visits'[Node(u)] >= visits[Node(u)]
      BY <1>4 DEF Forward
    <3> QED
      BY <3>1, <3>2
  <2> QED
    BY <1>1, <1>2, <2>1, <2>2 DEF ThreadInv, LeafInv
<1>6. Reading(Top(u)) => /\ Reading(Top(u))' /\ (InArray(Top(u)) => InArray(Top(u))')
                         /\ (AtEnd(Top(u)) => AtEnd(Top(u))')
  <2> DEFINE frame == Top(u)
  <2>1. Top(u)' = frame
    BY <1>2
  <2> HIDE DEF frame
  <2>2. frame \in Frames
    BY <1>4 DEF frame
  <2>3. Reading(frame) => /\ frame.st \in EXPANDED0..state'[frame.node]
                          /\ (InArray(frame) => frame.idx \in 1..Capacity[ArrayOf(frame.st)])
                          /\ (AtEnd(frame) =>
                                /\ frame.idx = Capacity[ArrayOf(frame.st)] + 1
                                /\ FilledTo(children'[frame.node][ArrayOf(frame.st)],
                                            Capacity[ArrayOf(frame.st)]))
    BY <2>2, StillReading DEF Reading, InArray, AtEnd
  <2> QED
    BY <2>1, <2>3 DEF Reading, InArray, AtEnd, frame
<1>7. ChoiceInv(u)'
  <2>1. /\ pc[u] \in {"select", "grow", "reload", "copy", "publish"} => Reading(Top(u))'
        /\ pc[u] \in {"newChild", "catchUp", "edgeState", "edge"} => InArray(Top(u))'
        /\ pc[u] \in {"grow", "copy", "publish"} => AtEnd(Top(u))'
    BY <1>6 DEF ThreadInv, ChoiceInv, InArray
  <2>2. ASSUME pc[u] = "newChild"
        PROVE  \A i \in 1..(Top(u).idx - 1) : Slots(u)'[i].child # None
    <3> DEFINE n == Node(u)
               a == ArrayOf(Top(u).st)
    <3>1. InArray(Top(u)) /\ Reading(Top(u))
      BY <2>2 DEF ThreadInv, ChoiceInv, InArray
    <3>2. a \in 0..2 /\ children[n][a] \in ArraysOfSize(a) /\ Top(u).idx \in 1..Capacity[a]
      BY <1>4, <3>1, StillReading DEF InArray
    <3>3. Slots(u) = children[n][a] /\ Slots(u)' = children'[n][a]
      BY <1>2 DEF Slots
    <3> HIDE DEF a, n
    <3>4. DOMAIN children[n][a] = 1..Capacity[a] /\ Capacity[a] \in Nat
      BY <3>2, SizeProperties, ArrayProperties
    <3> TAKE i \in 1..(Top(u).idx - 1)
    <3>5. children[n][a][i].child # None /\ i \in DOMAIN children[n][a]
      BY <2>2, <3>2, <3>3, <3>4 DEF ThreadInv, ChoiceInv
    <3>6. children'[n][a][i].child # None
      BY <3>2, <3>5, <1>4 DEF Forward, n
    <3> QED
      BY <3>3, <3>6
  <2>3. pc[u] \in {"grow", "copy", "publish", "newChild"} => Top(u).move \in Moves(Node(u))
    BY DEF ThreadInv, ChoiceInv
  <2>4. pc[u] = "catchUp" => Top(u).child \in Nodes
    BY DEF ThreadInv, ChoiceInv
  <2> QED
    BY <1>1, <1>2, <2>1, <2>2, <2>3, <2>4 DEF ChoiceInv
<1>8. CopyInv(u)'
  BY <1>1, <1>2 DEF ThreadInv, CopyInv
<1> QED
  BY <1>5, <1>7, <1>8

(* Who holds a node after a step of thread t.                                                       *)
HoldStep(t) ==
  /\ \A u \in Threads \ {t} : Holds(u) => state'[Node(u)] = state[Node(u)]
  /\ pc'[t] = "expand" => state'[Node(t)'] = EVALUATING
  /\ pc'[t] \in {"copy", "publish"} =>
       Top(t)'.st \in {GROWING1, GROWING2} /\ state'[Node(t)'] = Top(t)'.st
  /\ Holds(t)' => \A u \in Threads \ {t} : Holds(u) => Node(u) # Node(t)'

(* What is to be shown of a step of one thread.                                              *)
LEMMA StepInv ==
  ASSUME Inv, NEW t \in Threads, OnlyMoves(t),
         TypeOK', NodeInv', Forward, ThreadInv(t)', HoldStep(t)
  PROVE  Inv' /\ Forward
<1>1. \A u \in Threads : ThreadInv(u)'
  <2> TAKE u \in Threads
  <2>1. CASE u = t
    BY <2>1
  <2>2. CASE u # t
    BY <2>2, OthersKeep
  <2> QED
    BY <2>1, <2>2
<1>2. \A u \in Threads \ {t} :
        /\ pc'[u] = pc[u] /\ Top(u)' = Top(u) /\ Node(u)' = Node(u)
        /\ Holds(u)' = Holds(u)
  BY DEF OnlyMoves, Top, Node, Holds
<1>3. HoldInv'
  <2>1. ASSUME NEW u \in Threads
        PROVE  /\ pc'[u] = "expand" => state'[Node(u)'] = EVALUATING
               /\ pc'[u] \in {"copy", "publish"} =>
                    Top(u)'.st \in {GROWING1, GROWING2} /\ state'[Node(u)'] = Top(u)'.st
    <3>1. CASE u = t
      BY <3>1 DEF HoldStep
    <3>2. CASE u # t
      <4>1. /\ pc'[u] = pc[u] /\ Top(u)' = Top(u) /\ Node(u)' = Node(u)
            /\ Holds(u) => state'[Node(u)] = state[Node(u)]
        BY <1>2, <3>2 DEF HoldStep
      <4> QED
        BY <4>1 DEF Inv, HoldInv, Holds
    <3> QED
      BY <3>1, <3>2
  <2>2. ASSUME NEW u \in Threads, NEW v \in Threads, Holds(u)', Holds(v)', u # v
        PROVE  Node(u)' # Node(v)'
    <3>1. CASE u # t /\ v # t
      BY <1>2, <2>2, <3>1 DEF Inv, HoldInv
    <3>2. CASE u = t
      BY <1>2, <2>2, <3>2 DEF HoldStep
    <3>3. CASE v = t
      BY <1>2, <2>2, <3>3 DEF HoldStep
    <3> QED
      BY <3>1, <3>2, <3>3
  <2> QED
    BY <2>1, <2>2 DEF HoldInv
<1> QED
  BY <1>1, <1>3 DEF Inv

(* A step of a thread that does not hold a node afterwards, and leaves the states alone.             *)
LEMMA NoHold ==
  ASSUME NEW t, UNCHANGED state, pc'[t] \notin {"expand", "copy", "publish"}
  PROVE  HoldStep(t)
BY DEF HoldStep, Holds

(* The edge visits are numbers.                                                                       *)
LEMMA EdgeVisitsType ==
  ASSUME TypeOK
  PROVE  \A n \in Nodes, a \in 0..2 : \A i \in DOMAIN children[n][a] :
           children[n][a][i] \in Slot /\ children[n][a][i].edgeVisits \in Nat
<1> TAKE n \in Nodes, a \in 0..2
<1> TAKE i \in DOMAIN children[n][a]
<1>1. children[n][a] \in Arrays
  BY DEF TypeOK
<1>2. CASE children[n][a] = NoArray
  BY <1>2 DEF NoArray
<1>3. CASE \E b \in 0..2 : children[n][a] \in ArraysOfSize(b)
  BY <1>3 DEF ArraysOfSize, Slot
<1> QED
  BY <1>1, <1>2, <1>3 DEF Arrays

(* The states as the numbers that they are.                                                  *)
LEMMA StateType ==
  ASSUME TypeOK
  PROVE  state \in [Nodes -> States] /\ \A n \in Nodes : state[n] \in 0..6 /\ state[n] \in Int
<1>1. state \in [Nodes -> States] /\ States = 0..6
  BY DEF TypeOK, States, UNEVALUATED, EXPANDED2
<1> QED
  BY <1>1

(* A step that leaves the arrays takes no child away.                                        *)
LEMMA ForwardStates ==
  ASSUME TypeOK, UNCHANGED children, \A n \in Nodes : state'[n] >= state[n],
         \A n \in Nodes : visits'[n] >= visits[n] /\ (nnOutput[n] => nnOutput'[n])
  PROVE  Forward
<1>1. \A n \in Nodes, a \in 0..2 : \A i \in DOMAIN children[n][a] :
        children[n][a][i].edgeVisits \in Nat
  BY EdgeVisitsType
<1> QED
  BY <1>1 DEF Forward

(* A step that at most counts visits.                                                                   *)
LEMMA QuietNodes ==
  ASSUME TypeOK, NodeInv, UNCHANGED <<state, children>>,
         \A n \in Nodes : visits'[n] >= visits[n] /\ (nnOutput[n] => nnOutput'[n])
  PROVE  (TypeOK' => NodeInv') /\ Forward
<1>1. Forward
  <2>1. \A n \in Nodes : state'[n] >= state[n]
    BY StateType
  <2> QED
    BY <2>1, ForwardStates
<1>2. ASSUME TypeOK' PROVE NodeInv'
  <2>1. \A n \in Nodes : visits[n] \in Nat /\ visits'[n] \in Nat
    BY <1>2 DEF TypeOK
  <2> QED
    BY <2>1 DEF NodeInv
<1> QED
  BY <1>1, <1>2

(* The calls above the top one, when the top changes or another comes on top of it.                      *)
LEMMA PathStep ==
  ASSUME Inv, TypeOK', NodeInv', Forward, NEW t \in Threads, path'[t] # <<>>,
         \A i \in 1..(Len(path'[t]) - 1) :
           i \in 1..Len(path[t]) /\ path'[t][i] = path[t][i] /\ InArray(path[t][i])
  PROVE  PathInv(t)'
<1> TypeOK /\ NodeInv
  BY DEF Inv
<1>1. \A i \in 1..(Len(path'[t]) - 1) : InArray(path[t][i])'
  <2> TAKE i \in 1..(Len(path'[t]) - 1)
  <2> DEFINE frame == path[t][i]
  <2>1. i \in 1..Len(path[t]) /\ path'[t][i] = frame /\ InArray(frame)
    OBVIOUS
  <2>2. frame \in Frames
    BY <2>1, ElementOfSeq DEF TypeOK
  <2> HIDE DEF frame
  <2>3. frame.st \in EXPANDED0..state'[frame.node] /\ frame.idx \in 1..Capacity[ArrayOf(frame.st)]
    BY <2>1, <2>2, StillReading DEF InArray, Reading
  <2> QED
    BY <2>1, <2>3 DEF InArray, Reading
<1> QED
  BY <1>1 DEF PathInv

(* The calls that stay are calls on arrays that are still there.                             *)
LEMMA SamePath ==
  ASSUME Inv, TypeOK', NodeInv', Forward, NEW t \in Threads, path'[t] = path[t], path[t] # <<>>
  PROVE  PathInv(t)'
<1>1. \A i \in 1..(Len(path[t]) - 1) : i \in 1..Len(path[t]) /\ InArray(path[t][i])
  BY TopFrame DEF Inv, ThreadInv, PathInv
<1> QED
  BY <1>1, PathStep

-------------------------------------------------------------------------------
(* Where a step sends a thread.                                                                            *)
LEMMA GoToProperties ==
  ASSUME TypeOK, NEW t \in Threads, NEW label \in ThreadPcs, GoTo(t, label)
  PROVE  /\ pc' \in [Threads -> ThreadPcs] /\ pc'[t] = label
         /\ \A u \in Threads \ {t} : pc'[u] = pc[u]
<1>1. pc \in [Threads -> ThreadPcs]
  BY DEF TypeOK
<1> QED
  BY <1>1 DEF GoTo

(* A call that returns.                                                                      *)
LEMMA ReturnProperties ==
  ASSUME TypeOK, NEW t \in Threads, NEW b \in BOOLEAN, ReturnWith(t, b)
  PROVE  /\ pc' \in [Threads -> ThreadPcs] /\ pc'[t] = "return"
         /\ \A u \in Threads \ {t} : pc'[u] = pc[u]
         /\ finished' \in [Threads -> BOOLEAN]
<1>1. finished \in [Threads -> BOOLEAN] /\ "return" \in ThreadPcs
  BY DEF TypeOK, ThreadPcs
<1> QED
  BY <1>1, GoToProperties DEF ReturnWith

(* A playout that is under way has a call.                                                   *)
LEMMA InPlayout ==
  ASSUME Inv, NEW t \in Threads, pc[t] \notin {"idle", "start", "loop", "ended"}
  PROVE  /\ TypeOK /\ NodeInv /\ ThreadInv(t)
         /\ path[t] # <<>> /\ Top(t) \in Frames /\ Node(t) \in Nodes /\ Node(t) = Top(t).node
BY TopFrame DEF Inv, ThreadInv, PathInv, Node

(* A step of a playout that at most counts visits, and after which the thread relies on nothing.            *)
LEMMA FreeStep ==
  ASSUME Inv, TypeOK', NEW t \in Threads, OnlyMoves(t),
         path[t] # <<>>, path'[t] = path[t], pc'[t] \in {"evaluate", "stats", "undo", "return"},
         UNCHANGED <<state, children>>,
         \A n \in Nodes : visits'[n] >= visits[n] /\ (nnOutput[n] => nnOutput'[n])
  PROVE  Inv' /\ Forward
<1>1. NodeInv' /\ Forward
  BY QuietNodes DEF Inv
<1>2. PathInv(t)'
  BY <1>1, SamePath
<1>3. LeafInv(t)' /\ ChoiceInv(t)' /\ CopyInv(t)'
  BY DEF LeafInv, ChoiceInv, CopyInv
<1> QED
  BY <1>1, <1>2, <1>3, StepInv, NoHold DEF ThreadInv

(* One more visit.                                                                                             *)
LEMMA CountProperties ==
  ASSUME TypeOK, NEW n \in Nodes, NEW k \in Nat, visits' = [visits EXCEPT ![n] = @ + k]
  PROVE  /\ visits' \in [Nodes -> Nat] /\ visits'[n] = visits[n] + k /\ visits[n] \in Nat
         /\ \A m \in Nodes : visits'[m] >= visits[m]
<1>1. visits \in [Nodes -> Nat]
  BY DEF TypeOK
<1> QED
  BY <1>1

(* VisitTerminal keeps the invariant, and takes nothing back.                                *)
LEMMA VisitTerminalInv == ASSUME Inv, NEW t \in Threads, VisitTerminal(t) PROVE Inv' /\ Forward
<1>1. pc[t] = "visit"
  BY DEF VisitTerminal, At
<1>2. TypeOK /\ path[t] # <<>> /\ Node(t) \in Nodes
  BY <1>1, InPlayout
<1>3. /\ pc' \in [Threads -> ThreadPcs] /\ pc'[t] = "return" /\ finished' \in [Threads -> BOOLEAN]
      /\ \A u \in Threads \ {t} : pc'[u] = pc[u]
  BY <1>2, ReturnProperties DEF VisitTerminal
<1>4. visits' \in [Nodes -> Nat] /\ \A n \in Nodes : visits'[n] >= visits[n]
  BY <1>2, CountProperties DEF VisitTerminal
<1>5. TypeOK'
  BY <1>2, <1>3, <1>4 DEF VisitTerminal, searchVars, TypeOK
<1> QED
  BY <1>2, <1>3, <1>4, <1>5, FreeStep DEF VisitTerminal, OnlyMoves

(* SelectNone keeps the invariant, and takes nothing back.                                   *)
LEMMA SelectNoneInv == ASSUME Inv, NEW t \in Threads, SelectNone(t) PROVE Inv' /\ Forward
<1>1. pc[t] = "select"
  BY DEF SelectNone, At
<1>2. TypeOK /\ path[t] # <<>> /\ Node(t) \in Nodes
  BY <1>1, InPlayout
<1>3. /\ pc' \in [Threads -> ThreadPcs] /\ pc'[t] = "return" /\ finished' \in [Threads -> BOOLEAN]
      /\ \A u \in Threads \ {t} : pc'[u] = pc[u]
  BY <1>2, ReturnProperties DEF SelectNone
<1>4. visits' \in [Nodes -> Nat] /\ \A n \in Nodes : visits'[n] >= visits[n]
  BY <1>2, CountProperties DEF SelectNone
<1>5. TypeOK'
  BY <1>2, <1>3, <1>4 DEF SelectNone, searchVars, TypeOK
<1> QED
  BY <1>2, <1>3, <1>4, <1>5, FreeStep DEF SelectNone, OnlyMoves

(* RecomputeNodeStats keeps the invariant, and takes nothing back.                           *)
LEMMA RecomputeNodeStatsInv == ASSUME Inv, NEW t \in Threads, RecomputeNodeStats(t) PROVE Inv' /\ Forward
<1>1. pc[t] = "recompute"
  BY DEF RecomputeNodeStats, At
<1>2. TypeOK /\ path[t] # <<>> /\ Node(t) \in Nodes
  BY <1>1, InPlayout
<1>3. completed[t] \in Nat
  <2>1. completed[t] \in Int /\ completed[t] >= 1
    BY <1>1 DEF Inv, TypeOK, ThreadInv, LeafInv
  <2> QED
    BY <2>1
<1>4. /\ pc' \in [Threads -> ThreadPcs] /\ pc'[t] = "undo"
      /\ \A u \in Threads \ {t} : pc'[u] = pc[u]
  BY <1>2, GoToProperties DEF RecomputeNodeStats, ThreadPcs
<1>5. visits' \in [Nodes -> Nat] /\ \A n \in Nodes : visits'[n] >= visits[n]
  BY <1>2, <1>3, CountProperties DEF RecomputeNodeStats
<1>6. TypeOK'
  BY <1>2, <1>4, <1>5 DEF RecomputeNodeStats, searchVars, TypeOK
<1> QED
  BY <1>2, <1>4, <1>5, <1>6, FreeStep DEF RecomputeNodeStats, OnlyMoves

(* Evaluate keeps the invariant, and takes nothing back.                                     *)
LEMMA EvaluateInv == ASSUME Inv, NEW t \in Threads, Evaluate(t) PROVE Inv' /\ Forward
<1>1. pc[t] = "evaluate"
  BY DEF Evaluate, At
<1>2. TypeOK /\ path[t] # <<>> /\ Node(t) \in Nodes
  BY <1>1, InPlayout
<1>3. UNCHANGED <<state, children, visits, dirtyCounter, virtualLosses, searchVars, path,
                  completed, newChildren, numPlayouts>>
  BY DEF Evaluate
<1>4. CASE nnOutput[Node(t)] /\ ReturnWith(t, FALSE) /\ UNCHANGED nnOutput
  <2>1. /\ pc' \in [Threads -> ThreadPcs] /\ pc'[t] = "return" /\ finished' \in [Threads -> BOOLEAN]
        /\ \A u \in Threads \ {t} : pc'[u] = pc[u]
    BY <1>2, <1>4, ReturnProperties
  <2>2. TypeOK'
    BY <1>2, <1>3, <1>4, <2>1 DEF searchVars, TypeOK
  <2>3. \A n \in Nodes : visits'[n] >= visits[n] /\ (nnOutput[n] => nnOutput'[n])
    BY <1>2, <1>3, <1>4 DEF TypeOK
  <2> QED
    BY <1>2, <1>3, <2>1, <2>2, <2>3, FreeStep DEF OnlyMoves
<1>5. CASE /\ ~nnOutput[Node(t)] /\ nnOutput' = [nnOutput EXCEPT ![Node(t)] = TRUE]
           /\ GoTo(t, "leaf") /\ UNCHANGED finished
  <2>1. /\ pc' \in [Threads -> ThreadPcs] /\ pc'[t] = "leaf"
        /\ \A u \in Threads \ {t} : pc'[u] = pc[u]
    BY <1>2, <1>5, GoToProperties DEF ThreadPcs
  <2>2. nnOutput' \in [Nodes -> BOOLEAN] /\ nnOutput'[Node(t)]
    BY <1>2, <1>5 DEF TypeOK
  <2>3. TypeOK'
    BY <1>2, <1>3, <1>5, <2>1, <2>2 DEF searchVars, TypeOK
  <2>4. \A n \in Nodes : visits'[n] >= visits[n] /\ (nnOutput[n] => nnOutput'[n])
    BY <1>2, <1>3, <1>5 DEF TypeOK
  <2>5. NodeInv' /\ Forward
    BY <1>3, <2>3, <2>4, QuietNodes DEF Inv
  <2>6. PathInv(t)'
    BY <1>2, <1>3, <2>3, <2>5, SamePath
  <2>7. Node(t)' = Node(t)
    BY <1>3 DEF Node, Top
  <2>8. LeafInv(t)' /\ ChoiceInv(t)' /\ CopyInv(t)'
    BY <2>1, <2>2, <2>7 DEF LeafInv, ChoiceInv, CopyInv
  <2> QED
    BY <1>3, <2>1, <2>3, <2>5, <2>6, <2>8, StepInv, NoHold DEF ThreadInv, OnlyMoves
<1> QED
  BY <1>4, <1>5 DEF Evaluate

(* AddLeafValue keeps the invariant, and takes nothing back.                                 *)
LEMMA AddLeafValueInv == ASSUME Inv, NEW t \in Threads, AddLeafValue(t) PROVE Inv' /\ Forward
<1>1. pc[t] = "leaf"
  BY DEF AddLeafValue, At
<1>2. TypeOK /\ path[t] # <<>> /\ Node(t) \in Nodes /\ nnOutput[Node(t)]
  BY <1>1, InPlayout DEF ThreadInv, LeafInv
<1>3. UNCHANGED <<state, nnOutput, children, dirtyCounter, virtualLosses, searchVars, path,
                  finished, completed, newChildren, numPlayouts>>
  BY DEF AddLeafValue
<1>4. /\ pc' \in [Threads -> ThreadPcs] /\ pc'[t] = "claim"
      /\ \A u \in Threads \ {t} : pc'[u] = pc[u]
  BY <1>2, GoToProperties DEF AddLeafValue, ThreadPcs
<1>5. /\ visits' \in [Nodes -> Nat] /\ \A n \in Nodes : visits'[n] >= visits[n]
      /\ visits'[Node(t)] >= 1
  <2>1. /\ visits' \in [Nodes -> Nat] /\ visits'[Node(t)] = visits[Node(t)] + 1
        /\ visits[Node(t)] \in Nat /\ \A n \in Nodes : visits'[n] >= visits[n]
    BY <1>2, CountProperties DEF AddLeafValue
  <2> QED
    BY <2>1
<1>6. TypeOK'
  BY <1>2, <1>3, <1>4, <1>5 DEF searchVars, TypeOK
<1>7. NodeInv' /\ Forward
  BY <1>3, <1>5, <1>6, QuietNodes DEF Inv
<1>8. PathInv(t)'
  BY <1>2, <1>3, <1>6, <1>7, SamePath
<1>9. Node(t)' = Node(t)
  BY <1>3 DEF Node, Top
<1>10. LeafInv(t)' /\ ChoiceInv(t)' /\ CopyInv(t)'
  BY <1>2, <1>3, <1>4, <1>5, <1>9 DEF LeafInv, ChoiceInv, CopyInv
<1> QED
  BY <1>3, <1>4, <1>6, <1>7, <1>8, <1>10, StepInv, NoHold DEF ThreadInv, OnlyMoves

(* The claim succeeds for an unevaluated node only, which nobody holds.                                        *)
LEMMA ClaimNodeInv == ASSUME Inv, NEW t \in Threads, ClaimNode(t) PROVE Inv' /\ Forward
<1>1. pc[t] = "claim"
  BY DEF ClaimNode, At
<1>2. /\ TypeOK /\ NodeInv /\ path[t] # <<>> /\ Node(t) \in Nodes
      /\ nnOutput[Node(t)] /\ visits[Node(t)] >= 1
  BY <1>1, InPlayout DEF ThreadInv, LeafInv
<1>3. UNCHANGED <<nnOutput, children, visits, dirtyCounter, virtualLosses, searchVars, path,
                  completed, newChildren, numPlayouts>>
  BY DEF ClaimNode
<1>4. CASE state[Node(t)] # UNEVALUATED /\ ReturnWith(t, FALSE) /\ UNCHANGED state
  <2>1. /\ pc' \in [Threads -> ThreadPcs] /\ pc'[t] = "return" /\ finished' \in [Threads -> BOOLEAN]
        /\ \A u \in Threads \ {t} : pc'[u] = pc[u]
    BY <1>2, <1>4, ReturnProperties
  <2>2. TypeOK'
    BY <1>2, <1>3, <1>4, <2>1 DEF searchVars, TypeOK
  <2>3. \A n \in Nodes : visits'[n] >= visits[n] /\ (nnOutput[n] => nnOutput'[n])
    BY <1>2, <1>3 DEF TypeOK
  <2> QED
    BY <1>2, <1>3, <1>4, <2>1, <2>2, <2>3, FreeStep DEF OnlyMoves
<1>5. CASE /\ state[Node(t)] = UNEVALUATED
           /\ state' = [state EXCEPT ![Node(t)] = EVALUATING]
           /\ GoTo(t, "expand") /\ UNCHANGED finished
  <2>1. /\ pc' \in [Threads -> ThreadPcs] /\ pc'[t] = "expand"
        /\ \A u \in Threads \ {t} : pc'[u] = pc[u]
    BY <1>2, <1>5, GoToProperties DEF ThreadPcs
  <2>2. /\ state' \in [Nodes -> States] /\ state'[Node(t)] = EVALUATING
        /\ \A n \in Nodes \ {Node(t)} : state'[n] = state[n]
    BY <1>2, <1>5 DEF TypeOK, States, UNEVALUATED, EVALUATING, EXPANDED2
  <2>3. TypeOK'
    BY <1>2, <1>3, <1>5, <2>1, <2>2 DEF searchVars, TypeOK
  <2>4. NodeInv'
    <3> SUFFICES ASSUME NEW n \in Nodes
                 PROVE  /\ state'[n] >= EXPANDED0 => nnOutput[n] /\ visits[n] >= 1
                        /\ \A a \in 0..2 :
                             /\ state'[n] < 2 * a + 2 => children[n][a] = NoArray
                             /\ state'[n] >= 2 * a + 2 =>
                                  /\ children[n][a] \in ArraysOfSize(a)
                                  /\ \E k \in 0..Capacity[a] : FilledTo(children[n][a], k)
                             /\ state'[n] > 2 * a + 2 => FilledTo(children[n][a], Capacity[a])
      BY <1>3 DEF NodeInv, FilledTo
    <3>1. CASE n # Node(t)
      <4>1. state'[n] = state[n]
        BY <2>2, <3>1
      <4> QED
        BY <1>2, <4>1 DEF NodeInv
    <3>2. CASE n = Node(t)
      <4>1. state'[n] = 1 /\ state[n] = 0
        BY <1>5, <2>2, <3>2 DEF UNEVALUATED, EVALUATING
      <4>2. \A a \in 0..2 : children[n][a] = NoArray
        BY <1>2, <4>1 DEF NodeInv
      <4> QED
        BY <4>1, <4>2 DEF EXPANDED0
    <3> QED
      BY <3>1, <3>2
  <2>5. Forward
    <3>1. \A n \in Nodes : visits'[n] >= visits[n] /\ (nnOutput[n] => nnOutput'[n])
      BY <1>2, <1>3 DEF TypeOK
    <3>2. \A n \in Nodes : state[n] \in Int
      BY <1>2, StateType
    <3>3. \A n \in Nodes : state'[n] >= state[n]
      BY <1>5, <2>2, <3>2 DEF UNEVALUATED, EVALUATING
    <3> QED
      BY <1>2, <1>3, <3>1, <3>3, ForwardStates
  <2>6. PathInv(t)'
    BY <1>2, <1>3, <2>3, <2>4, <2>5, SamePath
  <2>7. Node(t)' = Node(t)
    BY <1>3 DEF Node, Top
  <2>8. LeafInv(t)' /\ ChoiceInv(t)' /\ CopyInv(t)'
    BY <1>2, <1>3, <2>1, <2>7 DEF LeafInv, ChoiceInv, CopyInv
  <2>9. \A u \in Threads \ {t} : Holds(u) => Node(u) # Node(t)
    BY <1>5 DEF Inv, HoldInv, Holds, UNEVALUATED, EVALUATING, GROWING1, GROWING2
  <2>10. HoldStep(t)
    <3>1. \A u \in Threads \ {t} : Holds(u) => state'[Node(u)] = state[Node(u)]
      <4> TAKE u \in Threads \ {t}
      <4>1. Holds(u) => Node(u) \in Nodes
        BY InPlayout DEF Holds
      <4> QED
        BY <4>1, <2>2, <2>9
    <3> QED
      BY <2>1, <2>2, <2>7, <2>9, <3>1 DEF HoldStep
  <2> QED
    BY <1>3, <2>1, <2>3, <2>4, <2>5, <2>6, <2>8, <2>10, StepInv DEF ThreadInv, OnlyMoves
<1> QED
  BY <1>4, <1>5 DEF ClaimNode

(* MarkDirty keeps the invariant, and takes nothing back.                                    *)
LEMMA MarkDirtyInv == ASSUME Inv, NEW t \in Threads, MarkDirty(t) PROVE Inv' /\ Forward
<1>1. pc[t] = "stats"
  BY DEF MarkDirty, At
<1>2. TypeOK /\ path[t] # <<>> /\ Node(t) \in Nodes
  BY <1>1, InPlayout
<1>3. UNCHANGED <<state, nnOutput, children, visits, virtualLosses, searchVars, path,
                  newChildren, numPlayouts>>
  BY DEF MarkDirty
<1>4. dirtyCounter' \in [Nodes -> Int]
  BY <1>2 DEF MarkDirty, TypeOK
<1>5. \A n \in Nodes : visits'[n] >= visits[n] /\ (nnOutput[n] => nnOutput'[n])
  BY <1>2, <1>3 DEF TypeOK
<1>6. CASE ReturnWith(t, TRUE) /\ UNCHANGED completed
  <2>1. /\ pc' \in [Threads -> ThreadPcs] /\ pc'[t] = "return" /\ finished' \in [Threads -> BOOLEAN]
        /\ \A u \in Threads \ {t} : pc'[u] = pc[u]
    BY <1>2, <1>6, ReturnProperties
  <2>2. TypeOK'
    BY <1>2, <1>3, <1>4, <1>6, <2>1 DEF searchVars, TypeOK
  <2> QED
    BY <1>2, <1>3, <1>5, <1>6, <2>1, <2>2, FreeStep DEF OnlyMoves
<1>7. CASE completed' = [completed EXCEPT ![t] = 1] /\ GoTo(t, "recompute") /\ UNCHANGED finished
  <2>1. /\ pc' \in [Threads -> ThreadPcs] /\ pc'[t] = "recompute"
        /\ \A u \in Threads \ {t} : pc'[u] = pc[u]
    BY <1>2, <1>7, GoToProperties DEF ThreadPcs
  <2>2. /\ completed' \in [Threads -> Int] /\ completed'[t] >= 1
        /\ \A u \in Threads \ {t} : completed'[u] = completed[u]
    BY <1>2, <1>7 DEF TypeOK
  <2>3. TypeOK'
    BY <1>2, <1>3, <1>4, <1>7, <2>1, <2>2 DEF searchVars, TypeOK
  <2>4. NodeInv' /\ Forward
    BY <1>3, <1>5, <2>3, QuietNodes DEF Inv
  <2>5. PathInv(t)'
    BY <1>2, <1>3, <2>3, <2>4, SamePath
  <2>6. LeafInv(t)' /\ ChoiceInv(t)' /\ CopyInv(t)'
    BY <2>1, <2>2 DEF LeafInv, ChoiceInv, CopyInv
  <2> QED
    BY <1>3, <2>1, <2>2, <2>3, <2>4, <2>5, <2>6, StepInv, NoHold DEF ThreadInv, OnlyMoves
<1> QED
  BY <1>6, <1>7 DEF MarkDirty

(* UndoDirty keeps the invariant, and takes nothing back.                                    *)
LEMMA UndoDirtyInv == ASSUME Inv, NEW t \in Threads, UndoDirty(t) PROVE Inv' /\ Forward
<1>1. pc[t] = "undo"
  BY DEF UndoDirty, At
<1>2. TypeOK /\ path[t] # <<>> /\ Node(t) \in Nodes
  BY <1>1, InPlayout
<1>3. UNCHANGED <<state, nnOutput, children, visits, virtualLosses, searchVars, path,
                  newChildren, numPlayouts>>
  BY DEF UndoDirty
<1> DEFINE left == dirtyCounter[Node(t)] - completed[t]
<1>4. left \in Int
  BY <1>2 DEF TypeOK
<1>5. /\ dirtyCounter' = [dirtyCounter EXCEPT ![Node(t)] = left]
      /\ completed' = [completed EXCEPT ![t] = left]
      /\ \/ left <= 0 /\ ReturnWith(t, TRUE)
         \/ left > 0 /\ GoTo(t, "recompute") /\ UNCHANGED finished
  BY DEF UndoDirty
<1> HIDE DEF left
<1>6. /\ dirtyCounter' \in [Nodes -> Int]
      /\ completed' \in [Threads -> Int] /\ completed'[t] = left
      /\ \A u \in Threads \ {t} : completed'[u] = completed[u]
  BY <1>2, <1>4, <1>5 DEF TypeOK
<1>7. \A n \in Nodes : visits'[n] >= visits[n] /\ (nnOutput[n] => nnOutput'[n])
  BY <1>2, <1>3 DEF TypeOK
<1>8. CASE ReturnWith(t, TRUE)
  <2>1. /\ pc' \in [Threads -> ThreadPcs] /\ pc'[t] = "return" /\ finished' \in [Threads -> BOOLEAN]
        /\ \A u \in Threads \ {t} : pc'[u] = pc[u]
    BY <1>2, <1>8, ReturnProperties
  <2>2. TypeOK'
    BY <1>2, <1>3, <1>6, <2>1 DEF searchVars, TypeOK
  <2> QED
    BY <1>2, <1>3, <1>6, <1>7, <2>1, <2>2, FreeStep DEF OnlyMoves
<1>9. CASE left > 0 /\ GoTo(t, "recompute") /\ UNCHANGED finished
  <2>1. /\ pc' \in [Threads -> ThreadPcs] /\ pc'[t] = "recompute"
        /\ \A u \in Threads \ {t} : pc'[u] = pc[u]
    BY <1>2, <1>9, GoToProperties DEF ThreadPcs
  <2>2. completed'[t] >= 1
    BY <1>4, <1>6, <1>9
  <2>3. TypeOK'
    BY <1>2, <1>3, <1>6, <1>9, <2>1 DEF searchVars, TypeOK
  <2>4. NodeInv' /\ Forward
    BY <1>3, <1>7, <2>3, QuietNodes DEF Inv
  <2>5. PathInv(t)'
    BY <1>2, <1>3, <2>3, <2>4, SamePath
  <2>6. LeafInv(t)' /\ ChoiceInv(t)' /\ CopyInv(t)'
    BY <2>1, <2>2 DEF LeafInv, ChoiceInv, CopyInv
  <2> QED
    BY <1>3, <1>6, <2>1, <2>3, <2>4, <2>5, <2>6, StepInv, NoHold DEF ThreadInv, OnlyMoves
<1> QED
  BY <1>5, <1>8, <1>9

(* The step of a thread that changes its top call and leaves the nodes alone.                                   *)
LEMMA SetTopStep ==
  ASSUME Inv, NEW t \in Threads, path[t] # <<>>, NEW frame \in Frames, SetTop(t, frame),
         TypeOK', NodeInv', Forward
  PROVE  /\ Top(t)' = frame /\ Node(t)' = frame.node
         /\ PathInv(t)'
         /\ \A u \in Threads \ {t} : path'[u] = path[u]
<1> TypeOK /\ PathInv(t)
  BY DEF Inv, ThreadInv
<1>1. /\ path'[t] # <<>> /\ Len(path'[t]) = Len(path[t])
      /\ path'[t][Len(path[t])] = frame
      /\ \A i \in 1..(Len(path[t]) - 1) : path'[t][i] = path[t][i]
      /\ \A u \in Threads \ {t} : path'[u] = path[u]
  BY SetTopProperties
<1>2. Len(path[t]) \in Nat
  BY TopFrame
<1>3. Top(t)' = frame /\ Node(t)' = frame.node
  BY <1>1 DEF Top, Node
<1>4. \A i \in 1..(Len(path'[t]) - 1) :
        i \in 1..Len(path[t]) /\ path'[t][i] = path[t][i] /\ InArray(path[t][i])
  BY <1>1, <1>2 DEF PathInv
<1>5. PathInv(t)'
  BY <1>1, <1>4, PathStep
<1> QED
  BY <1>1, <1>3, <1>5

(* A step that changes no more than what the last call has read.                      *)
LEMMA TopStep ==
  ASSUME Inv, NEW t \in Threads, path[t] # <<>>, NEW frame \in Frames, SetTop(t, frame),
         NEW label \in ThreadPcs, GoTo(t, label), label \notin {"expand", "copy", "publish", "recompute"},
         label \notin {"leaf", "claim", "newChild"},
         UNCHANGED <<state, nnOutput, children, visits, completed, newChildren>>,
         TypeOK',
         label \in {"select", "grow", "reload"} => Reading(frame),
         label \in {"catchUp", "edgeState", "edge"} => InArray(frame),
         label = "grow" => frame.move \in Moves(frame.node) /\ AtEnd(frame),
         label = "catchUp" => frame.child \in Nodes
  PROVE  Inv' /\ Forward
<1> TypeOK
  BY DEF Inv
<1>1. \A n \in Nodes : visits'[n] >= visits[n] /\ (nnOutput[n] => nnOutput'[n])
  BY DEF TypeOK
<1>2. NodeInv' /\ Forward
  BY <1>1, QuietNodes DEF Inv
<1>3. /\ Top(t)' = frame /\ Node(t)' = frame.node /\ PathInv(t)'
      /\ \A u \in Threads \ {t} : path'[u] = path[u]
  BY <1>2, SetTopStep
<1>4. pc'[t] = label /\ \A u \in Threads \ {t} : pc'[u] = pc[u]
  BY GoToProperties
<1>5. LeafInv(t)' /\ CopyInv(t)'
  BY <1>4 DEF LeafInv, CopyInv
<1>6. ChoiceInv(t)'
  BY <1>3, <1>4 DEF ChoiceInv, Reading, InArray, AtEnd, FilledTo
<1> QED
  BY <1>2, <1>3, <1>4, <1>5, <1>6, StepInv, NoHold DEF ThreadInv, OnlyMoves

(* What a call finds in the array that it has read.                                                               *)
LEMMA ReadArray ==
  ASSUME TypeOK, NodeInv, NEW frame \in Frames, Reading(frame)
  PROVE  LET a     == ArrayOf(frame.st)
             array == children[frame.node][a]
         IN  /\ a \in 0..2 /\ Capacity[a] \in Nat \ {0}
             /\ array \in ArraysOfSize(a) /\ DOMAIN array = 1..Capacity[a]
             /\ NumFound(array) \in 0..Capacity[a] /\ FilledTo(array, NumFound(array))
<1> DEFINE n == frame.node
           a == ArrayOf(frame.st)
<1>1. n \in Nodes /\ frame.st \in States /\ state[n] \in 0..6 /\ frame.st \in EXPANDED0..state[n]
  BY StateType DEF Frames, Reading
<1>2. a \in 0..2 /\ frame.st \in 2..6 /\ frame.st >= 2 * a + 2 /\ state[n] >= frame.st
  BY <1>1, SizeProperties DEF EXPANDED0
<1> HIDE DEF a
<1>3. state[n] >= 2 * a + 2
  BY <1>1, <1>2
<1>4. PICK k \in 0..Capacity[a] : FilledTo(children[n][a], k)
  BY <1>1, <1>2, <1>3 DEF NodeInv
<1>5. children[n][a] \in ArraysOfSize(a)
  BY <1>1, <1>2, <1>3 DEF NodeInv
<1>6. NumFound(children[n][a]) = k
  BY <1>2, <1>4, <1>5, NumFoundProperties
<1> QED
  BY <1>2, <1>4, <1>5, <1>6, SizeProperties, ArrayProperties DEF a

(* Visit keeps the invariant, and takes nothing back.                                        *)
LEMMA VisitInv == ASSUME Inv, NEW t \in Threads, Visit(t) PROVE Inv' /\ Forward
<1>1. pc[t] = "visit"
  BY DEF Visit, At
<1>2. TypeOK /\ path[t] # <<>> /\ Node(t) \in Nodes /\ Top(t) \in Frames /\ Node(t) = Top(t).node
  BY <1>1, InPlayout
<1> DEFINE s     == state[Node(t)]
           frame == [Top(t) EXCEPT !.st = s]
<1>3. s \in States /\ s \in 0..6
  BY <1>2, StateType
<1>4. frame \in Frames /\ frame.st = s /\ frame.node = Node(t)
  BY <1>2, <1>3 DEF Frames
<1>5. UNCHANGED <<nodeVars, searchVars, completed, newChildren, numPlayouts>> /\ SetTop(t, frame)
  BY DEF Visit
<1>6. /\ \/ s = UNEVALUATED /\ GoTo(t, "evaluate") /\ UNCHANGED finished
         \/ s = EVALUATING /\ ReturnWith(t, FALSE)
         \/ s >= EXPANDED0 /\ GoTo(t, "select") /\ UNCHANGED finished
  BY DEF Visit
<1>7. PICK label \in {"evaluate", "return", "select"} :
        GoTo(t, label) /\ (label = "select" => s >= EXPANDED0)
  BY <1>6 DEF ReturnWith
<1>8. finished' \in [Threads -> BOOLEAN]
  BY <1>2, <1>6, ReturnProperties DEF TypeOK
<1>9. label \in ThreadPcs
  BY DEF ThreadPcs
<1>10. label = "select" => Reading(frame)
  BY <1>3, <1>4, <1>7 DEF Reading, EXPANDED0
<1> HIDE DEF frame, s
<1>11. pc' \in [Threads -> ThreadPcs] /\ path' \in [Threads -> Seq(Frames)]
  BY <1>2, <1>4, <1>5, <1>7, <1>9, GoToProperties, SetTopProperties
<1>12. TypeOK'
  BY <1>2, <1>5, <1>8, <1>11 DEF TypeOK, nodeVars, searchVars
<1> QED
  BY <1>2, <1>4, <1>5, <1>7, <1>9, <1>10, <1>12, TopStep DEF nodeVars

(* SelectExisting keeps the invariant, and takes nothing back.                               *)
LEMMA SelectExistingInv == ASSUME Inv, NEW t \in Threads, SelectExisting(t) PROVE Inv' /\ Forward
<1>1. pc[t] = "select"
  BY DEF SelectExisting, At
<1>2. /\ TypeOK /\ NodeInv /\ path[t] # <<>> /\ Node(t) \in Nodes /\ Top(t) \in Frames
      /\ Node(t) = Top(t).node /\ Reading(Top(t))
  BY <1>1, InPlayout DEF ThreadInv, ChoiceInv
<1> DEFINE a == ArrayOf(Top(t).st)
<1>3. /\ a \in 0..2 /\ Capacity[a] \in Nat /\ Slots(t) \in ArraysOfSize(a)
      /\ DOMAIN Slots(t) = 1..Capacity[a]
      /\ NumFound(Slots(t)) \in 0..Capacity[a] /\ FilledTo(Slots(t), NumFound(Slots(t)))
  BY <1>2, ReadArray DEF Slots
<1>4. PICK i \in 1..NumFound(Slots(t)) :
        /\ SetTop(t, [Top(t) EXCEPT !.idx = i, !.move = Slots(t)[i].move, !.child = Slots(t)[i].child])
        /\ virtualLosses' = [virtualLosses EXCEPT ![Slots(t)[i].child] = @ + 1]
  BY DEF SelectExisting
<1> DEFINE slot  == Slots(t)[i]
           frame == [Top(t) EXCEPT !.idx = i, !.move = slot.move, !.child = slot.child]
<1> HIDE DEF a
<1>5. i \in 1..Capacity[a] /\ i \in Nat
  BY <1>3
<1>6. slot \in Slot /\ slot.child # None
  BY <1>3, <1>5 DEF ArraysOfSize, FilledTo
<1>7. slot.child \in Nodes /\ slot.move \in AllMoves \cup {None}
  BY <1>6 DEF Slot
<1>8. /\ frame \in Frames /\ frame.st = Top(t).st /\ frame.node = Node(t) /\ frame.idx = i
      /\ frame.child \in Nodes
  BY <1>2, <1>5, <1>7 DEF Frames
<1>9. UNCHANGED <<state, nnOutput, children, visits, dirtyCounter, searchVars, finished,
                  completed, newChildren, numPlayouts>>
  BY DEF SelectExisting
<1>10. GoTo(t, "catchUp") /\ "catchUp" \in ThreadPcs /\ SetTop(t, frame)
  BY <1>4 DEF SelectExisting, ThreadPcs
<1>11. InArray(frame)
  BY <1>2, <1>5, <1>8 DEF InArray, Reading, a
<1>12. virtualLosses' \in [Nodes -> Int]
  <2>1. PICK c \in Nodes : c = slot.child
    BY <1>7
  <2>2. virtualLosses' = [virtualLosses EXCEPT ![c] = @ + 1]
    BY <1>4, <2>1
  <2>3. virtualLosses \in [Nodes -> Int]
    BY <1>2 DEF TypeOK
  <2> QED
    BY ONLY <2>2, <2>3
<1> HIDE DEF frame, slot
<1>13. pc' \in [Threads -> ThreadPcs] /\ path' \in [Threads -> Seq(Frames)]
  BY <1>2, <1>8, <1>10, GoToProperties, SetTopProperties
<1>14. TypeOK'
  BY <1>2, <1>9, <1>12, <1>13 DEF TypeOK, searchVars
<1> QED
  BY <1>2, <1>8, <1>9, <1>10, <1>11, <1>14, TopStep

(* A new child goes into the next slot, or the array is full.                                                        *)
LEMMA SelectNewInv == ASSUME Inv, NEW t \in Threads, SelectNew(t) PROVE Inv' /\ Forward
<1>1. pc[t] = "select"
  BY DEF SelectNew, At
<1>2. /\ TypeOK /\ NodeInv /\ path[t] # <<>> /\ Node(t) \in Nodes /\ Top(t) \in Frames
      /\ Node(t) = Top(t).node /\ Reading(Top(t))
  BY <1>1, InPlayout DEF ThreadInv, ChoiceInv
<1> DEFINE a == ArrayOf(Top(t).st)
           k == NumFound(Slots(t))
<1>3. /\ a \in 0..2 /\ Capacity[a] \in Nat /\ Slots(t) \in ArraysOfSize(a)
      /\ DOMAIN Slots(t) = 1..Capacity[a]
      /\ k \in 0..Capacity[a] /\ FilledTo(Slots(t), k)
  BY <1>2, ReadArray DEF Slots
<1>4. PICK m \in NewMoves(t) : SetTop(t, [Top(t) EXCEPT !.idx = k + 1, !.move = m])
  BY DEF SelectNew
<1> DEFINE frame == [Top(t) EXCEPT !.idx = k + 1, !.move = m]
           label == IF k + 1 <= Capacity[a] THEN "newChild" ELSE "grow"
<1>5. m \in Moves(Node(t)) /\ m \in AllMoves
  BY <1>2 DEF NewMoves, AllMoves
<1>6. GoTo(t, label) /\ SetTop(t, frame)
  BY <1>4 DEF SelectNew, FitsInArray
<1>7. UNCHANGED <<nodeVars, searchVars, finished, completed, newChildren, numPlayouts>>
  BY DEF SelectNew
<1> HIDE DEF a, k
<1>8. /\ frame \in Frames /\ frame.st = Top(t).st /\ frame.node = Node(t) /\ frame.idx = k + 1
      /\ frame.move = m
  <2>1. k + 1 \in Nat
    BY <1>3
  <2> QED
    BY <1>2, <1>5, <2>1 DEF Frames
<1>9. label \in ThreadPcs
  BY DEF ThreadPcs
<1>10. Reading(frame)
  BY <1>2, <1>8 DEF Reading
<1> HIDE DEF frame
<1>11. pc' \in [Threads -> ThreadPcs] /\ path' \in [Threads -> Seq(Frames)]
       /\ pc'[t] = label /\ \A u \in Threads \ {t} : pc'[u] = pc[u]
  BY <1>2, <1>6, <1>8, <1>9, GoToProperties, SetTopProperties
<1>12. TypeOK'
  BY <1>2, <1>7, <1>11 DEF TypeOK, nodeVars, searchVars
<1>13. CASE ~(k + 1 <= Capacity[a])
  <2>1. k = Capacity[a] /\ label = "grow"
    BY <1>3, <1>13
  <2>2. AtEnd(frame)
    BY <1>2, <1>3, <1>8, <2>1 DEF AtEnd, Slots, a
  <2> QED
    BY <1>2, <1>5, <1>6, <1>7, <1>8, <1>9, <1>10, <1>12, <2>1, <2>2, TopStep DEF nodeVars
<1>14. CASE k + 1 <= Capacity[a]
  <2>1. label = "newChild" /\ k + 1 \in 1..Capacity[a]
    BY <1>3, <1>14
  <2>2. \A n \in Nodes : visits'[n] >= visits[n] /\ (nnOutput[n] => nnOutput'[n])
    BY <1>2, <1>7 DEF TypeOK, nodeVars
  <2>3. NodeInv' /\ Forward
    BY <1>2, <1>7, <1>12, <2>2, QuietNodes DEF nodeVars
  <2>4. /\ Top(t)' = frame /\ Node(t)' = frame.node /\ PathInv(t)'
        /\ \A u \in Threads \ {t} : path'[u] = path[u]
    BY <1>2, <1>6, <1>8, <1>12, <2>3, SetTopStep
  <2>5. LeafInv(t)' /\ CopyInv(t)'
    BY <1>11, <2>1 DEF LeafInv, CopyInv
  <2>6. Slots(t)' = Slots(t)
    BY <1>2, <1>7, <1>8, <2>4 DEF Slots, nodeVars
  <2>7. \A i \in 1..(frame.idx - 1) : Slots(t)[i].child # None
    BY <1>3, <1>8 DEF FilledTo
  <2>8. /\ frame.st \in EXPANDED0..state'[frame.node]
        /\ frame.idx \in 1..Capacity[ArrayOf(frame.st)]
    BY <1>7, <1>8, <1>10, <2>1 DEF Reading, nodeVars, a
  <2>9. ChoiceInv(t)'
    BY <1>5, <1>8, <1>11, <2>1, <2>4, <2>6, <2>7, <2>8 DEF ChoiceInv, InArray, Reading
  <2> QED
    BY <1>7, <1>11, <1>12, <2>1, <2>3, <2>4, <2>5, <2>9, StepInv, NoHold
       DEF ThreadInv, OnlyMoves, nodeVars
<1> QED
  BY <1>13, <1>14

(* ReloadState keeps the invariant, and takes nothing back.                                  *)
LEMMA ReloadStateInv == ASSUME Inv, NEW t \in Threads, ReloadState(t) PROVE Inv' /\ Forward
<1>1. pc[t] = "reload"
  BY DEF ReloadState, At
<1>2. /\ TypeOK /\ path[t] # <<>> /\ Node(t) \in Nodes /\ Top(t) \in Frames
      /\ Node(t) = Top(t).node /\ Reading(Top(t))
  BY <1>1, InPlayout DEF ThreadInv, ChoiceInv
<1> DEFINE frame == [Top(t) EXCEPT !.st = state[Node(t)], !.idx = 0, !.move = None]
<1>3. state[Node(t)] \in States /\ state[Node(t)] \in 0..6
  BY <1>2, StateType
<1>4. frame \in Frames /\ frame.st = state[Node(t)] /\ frame.node = Node(t)
  BY <1>2, <1>3 DEF Frames
<1>5. Reading(frame)
  BY <1>2, <1>3, <1>4 DEF Reading, EXPANDED0
<1>6. SetTop(t, frame) /\ GoTo(t, "select") /\ "select" \in ThreadPcs
  BY DEF ReloadState, ThreadPcs
<1>7. UNCHANGED <<nodeVars, searchVars, finished, completed, newChildren, numPlayouts>>
  BY DEF ReloadState
<1> HIDE DEF frame
<1>8. pc' \in [Threads -> ThreadPcs] /\ path' \in [Threads -> Seq(Frames)]
  BY <1>2, <1>4, <1>6, GoToProperties, SetTopProperties
<1>9. TypeOK'
  BY <1>2, <1>7, <1>8 DEF TypeOK, nodeVars, searchVars
<1> QED
  BY <1>2, <1>4, <1>5, <1>6, <1>7, <1>9, TopStep DEF nodeVars

(* The slot of an edge is one of every later array too.                                                             *)
LEMMA CapacityGrows ==
  ASSUME NEW s \in 2..6, NEW u \in s..6
  PROVE  /\ Capacity[ArrayOf(s)] \in Nat /\ Capacity[ArrayOf(u)] \in Nat
         /\ Capacity[ArrayOf(s)] <= Capacity[ArrayOf(u)]
<1>1. /\ Capacity[0] \in Nat /\ Capacity[1] \in Nat /\ Capacity[2] \in Nat
      /\ Capacity[0] < Capacity[1] /\ Capacity[1] < Capacity[2]
  BY SizeProperties
<1> QED
  BY <1>1 DEF ArrayOf, EXPANDED1, EXPANDED2

(* ReloadForEdge keeps the invariant, and takes nothing back.                                *)
LEMMA ReloadForEdgeInv == ASSUME Inv, NEW t \in Threads, ReloadForEdge(t) PROVE Inv' /\ Forward
<1>1. pc[t] = "edgeState"
  BY DEF ReloadForEdge, At
<1>2. /\ TypeOK /\ path[t] # <<>> /\ Node(t) \in Nodes /\ Top(t) \in Frames
      /\ Node(t) = Top(t).node /\ InArray(Top(t))
  BY <1>1, InPlayout DEF ThreadInv, ChoiceInv
<1> DEFINE s     == state[Node(t)]
           frame == [Top(t) EXCEPT !.st = s]
<1>3. s \in States /\ s \in 0..6
  BY <1>2, StateType
<1>4. frame \in Frames /\ frame.st = s /\ frame.node = Node(t) /\ frame.idx = Top(t).idx
  BY <1>2, <1>3 DEF Frames
<1>5. SetTop(t, frame) /\ GoTo(t, "edge") /\ "edge" \in ThreadPcs
  BY DEF ReloadForEdge, ThreadPcs
<1>6. UNCHANGED <<nodeVars, searchVars, finished, completed, newChildren, numPlayouts>>
  BY DEF ReloadForEdge
<1>7. InArray(frame)
  <2>1. Top(t).st \in 2..6 /\ s \in Top(t).st..6
    BY <1>2, <1>3 DEF InArray, Reading, EXPANDED0
  <2>2. /\ Capacity[ArrayOf(Top(t).st)] \in Nat /\ Capacity[ArrayOf(s)] \in Nat
        /\ Capacity[ArrayOf(Top(t).st)] <= Capacity[ArrayOf(s)]
    BY <2>1, CapacityGrows
  <2>3. Top(t).idx \in 1..Capacity[ArrayOf(Top(t).st)]
    BY <1>2 DEF InArray
  <2>4. frame.idx \in 1..Capacity[ArrayOf(frame.st)]
    BY <1>4, <2>2, <2>3
  <2> QED
    BY <1>3, <1>4, <2>1, <2>4 DEF InArray, Reading, EXPANDED0
<1> HIDE DEF frame, s
<1>8. pc' \in [Threads -> ThreadPcs] /\ path' \in [Threads -> Seq(Frames)]
  BY <1>2, <1>4, <1>5, GoToProperties, SetTopProperties
<1>9. TypeOK'
  BY <1>2, <1>6, <1>8 DEF TypeOK, nodeVars, searchVars
<1> QED
  BY <1>2, <1>4, <1>5, <1>6, <1>7, <1>9, TopStep DEF nodeVars

(* Descend keeps the invariant, and takes nothing back.                                      *)
LEMMA DescendInv == ASSUME Inv, NEW t \in Threads, Descend(t) PROVE Inv' /\ Forward
<1>1. pc[t] = "catchUp"
  BY DEF Descend, At
<1>2. /\ TypeOK /\ path[t] # <<>> /\ Top(t) \in Frames
      /\ InArray(Top(t)) /\ Top(t).child \in Nodes /\ PathInv(t)
  BY <1>1, InPlayout DEF ThreadInv, ChoiceInv
<1> DEFINE frame == Frame(Top(t).child)
           q     == Append(path[t], frame)
<1>3. frame \in Frames
  BY <1>2 DEF Frame, Frames, States, UNEVALUATED, EXPANDED2
<1>4. path[t] \in Seq(Frames) /\ Len(path[t]) \in Nat
  BY <1>2 DEF TypeOK
<1> HIDE DEF frame
<1>5. /\ q \in Seq(Frames) /\ q # <<>> /\ Len(q) = Len(path[t]) + 1
      /\ \A i \in 1..Len(path[t]) : q[i] = path[t][i]
  BY <1>3, <1>4, AppendProperties
<1>6. path' = [path EXCEPT ![t] = q] /\ GoTo(t, "visit") /\ "visit" \in ThreadPcs
  BY DEF Descend, ThreadPcs, frame
<1>7. UNCHANGED <<nodeVars, searchVars, finished, completed, newChildren, numPlayouts>>
  BY DEF Descend
<1> HIDE DEF q
<1>8. /\ path' \in [Threads -> Seq(Frames)] /\ path'[t] = q
      /\ \A u \in Threads \ {t} : path'[u] = path[u]
  BY <1>2, <1>5, <1>6 DEF TypeOK
<1>9. /\ pc' \in [Threads -> ThreadPcs] /\ pc'[t] = "visit"
      /\ \A u \in Threads \ {t} : pc'[u] = pc[u]
  BY <1>2, <1>6, GoToProperties
<1>10. TypeOK'
  BY <1>2, <1>7, <1>8, <1>9 DEF TypeOK, nodeVars, searchVars
<1>11. \A n \in Nodes : visits'[n] >= visits[n] /\ (nnOutput[n] => nnOutput'[n])
  BY <1>2, <1>7 DEF TypeOK, nodeVars
<1>12. NodeInv' /\ Forward
  BY <1>7, <1>10, <1>11, QuietNodes DEF nodeVars, Inv
<1>13. \A i \in 1..(Len(q) - 1) : i \in 1..Len(path[t]) /\ q[i] = path[t][i] /\ InArray(path[t][i])
  <2> TAKE i \in 1..(Len(q) - 1)
  <2>1. i \in 1..Len(path[t]) /\ q[i] = path[t][i]
    BY <1>4, <1>5
  <2>2. CASE i = Len(path[t])
    BY <1>2, <2>1, <2>2 DEF Top
  <2>3. CASE i # Len(path[t])
    BY <1>2, <1>4, <2>1, <2>3 DEF PathInv
  <2> QED
    BY <2>1, <2>2, <2>3
<1>14. PathInv(t)'
  BY <1>5, <1>8, <1>10, <1>12, <1>13, PathStep
<1>15. LeafInv(t)' /\ ChoiceInv(t)' /\ CopyInv(t)'
  BY <1>9 DEF LeafInv, ChoiceInv, CopyInv
<1> QED
  BY <1>7, <1>8, <1>9, <1>10, <1>12, <1>14, <1>15, StepInv, NoHold DEF ThreadInv, OnlyMoves, nodeVars

(* The virtual losses stay numbers.                                                   *)
LEMMA ReleaseChildType == ASSUME TypeOK, NEW t, ReleaseChild(t) PROVE virtualLosses' \in [Nodes -> Int]
<1> DEFINE child == Top(t).child
<1>1. virtualLosses \in [Nodes -> Int]
  BY DEF TypeOK
<1>2. virtualLosses' = IF child = None THEN virtualLosses ELSE [virtualLosses EXCEPT ![child] = @ - 1]
  BY DEF ReleaseChild
<1> HIDE DEF child
<1>3. CASE child \in Nodes
  <2>1. virtualLosses[child] - 1 \in Int
    BY <1>1, <1>3
  <2> QED
    BY <1>1, <1>2, <2>1
<1>4. CASE child \notin Nodes
  BY <1>1, <1>2, <1>4
<1> QED
  BY <1>3, <1>4

(* Return keeps the invariant, and takes nothing back.                                       *)
LEMMA ReturnInv == ASSUME Inv, NEW t \in Threads, Return(t) PROVE Inv' /\ Forward
<1>1. pc[t] = "return" /\ Len(path[t]) > 1
  BY DEF Return, At
<1>2. TypeOK /\ path[t] # <<>> /\ PathInv(t)
  BY <1>1, InPlayout DEF ThreadInv
<1> DEFINE q     == SubSeq(path[t], 1, Len(path[t]) - 1)
           label == IF finished[t] THEN "edgeState" ELSE "return"
<1>3. /\ path[t] \in Seq(Frames) /\ Len(path[t]) \in Nat
      /\ \A i \in 1..Len(path[t]) : path[t][i] \in Frames
  BY <1>2, TopFrame DEF TypeOK
<1>4. /\ q \in Seq(Frames) /\ Len(q) = Len(path[t]) - 1 /\ q # <<>>
      /\ \A i \in 1..Len(q) : q[i] = path[t][i]
  <2>1. \A i \in 1..(Len(path[t]) - 1) : path[t][i] \in Frames
    BY <1>3
  <2>2. /\ q \in Seq(Frames) /\ Len(q) = Len(path[t]) - 1
        /\ \A i \in 1..(Len(path[t]) - 1) : q[i] = path[t][i]
    BY <1>1, <1>3, <2>1, SubSeqProperties
  <2>3. Len(q) # 0
    BY <1>1, <1>3, <2>2
  <2>4. Len(<<>>) = 0
    OBVIOUS
  <2>5. q # <<>>
    BY <2>3, <2>4
  <2> QED
    BY <2>2, <2>5
<1>5. path' = [path EXCEPT ![t] = q] /\ GoTo(t, label) /\ label \in ThreadPcs
  BY DEF Return, ThreadPcs
<1>6. UNCHANGED <<state, nnOutput, children, visits, dirtyCounter, searchVars, finished,
                  completed, newChildren, numPlayouts>>
  BY DEF Return
<1> HIDE DEF q
<1>7. /\ path' \in [Threads -> Seq(Frames)] /\ path'[t] = q
      /\ \A u \in Threads \ {t} : path'[u] = path[u]
  BY <1>2, <1>4, <1>5 DEF TypeOK
<1>8. /\ pc' \in [Threads -> ThreadPcs] /\ pc'[t] = label
      /\ \A u \in Threads \ {t} : pc'[u] = pc[u]
  BY <1>2, <1>5, GoToProperties
<1>9. TypeOK'
  <2>1. virtualLosses' \in [Nodes -> Int]
    BY <1>2, ReleaseChildType DEF Return
  <2> QED
    BY <1>2, <1>6, <1>7, <1>8, <2>1 DEF TypeOK, searchVars
<1>10. \A n \in Nodes : visits'[n] >= visits[n] /\ (nnOutput[n] => nnOutput'[n])
  BY <1>2, <1>6 DEF TypeOK
<1>11. NodeInv' /\ Forward
  BY <1>6, <1>9, <1>10, QuietNodes DEF Inv
<1>12. \A i \in 1..Len(q) : i \in 1..Len(path[t]) /\ q[i] = path[t][i] /\ InArray(path[t][i])
  BY <1>2, <1>3, <1>4 DEF PathInv
<1>13. PathInv(t)'
  <2>1. \A i \in 1..(Len(q) - 1) : i \in 1..Len(path[t]) /\ q[i] = path[t][i] /\ InArray(path[t][i])
    BY <1>3, <1>4, <1>12
  <2> QED
    BY <1>4, <1>7, <1>9, <1>11, <2>1, PathStep
<1>14. ChoiceInv(t)'
  <2> DEFINE frame == path[t][Len(path[t]) - 1]
  <2>1. Len(q) \in 1..Len(q) /\ frame = q[Len(q)]
    BY <1>1, <1>3, <1>4
  <2>2. InArray(frame) /\ Top(t)' = frame
    BY <1>4, <1>7, <1>12, <2>1 DEF Top
  <2>3. /\ frame.st \in EXPANDED0..state'[frame.node]
        /\ frame.idx \in 1..Capacity[ArrayOf(frame.st)]
    BY <1>6, <2>2 DEF InArray, Reading
  <2> HIDE DEF frame
  <2> QED
    BY <1>8, <2>2, <2>3 DEF ChoiceInv, InArray, Reading
<1>15. LeafInv(t)' /\ CopyInv(t)'
  BY <1>8 DEF LeafInv, CopyInv
<1> QED
  BY <1>6, <1>7, <1>8, <1>9, <1>11, <1>13, <1>14, <1>15, StepInv, NoHold DEF ThreadInv, OnlyMoves

-------------------------------------------------------------------------------
(* A step of a thread between two playouts, or into or out of one.                                                   *)
LEMMA BetweenPlayouts ==
  ASSUME Inv, TypeOK', NEW t \in Threads, OnlyMoves(t),
         UNCHANGED <<state, nnOutput, children, visits>>,
         pc'[t] \in {"loop", "ended", "visit"}, pc'[t] = "visit" => path'[t] # <<>>,
         path'[t] = path[t] \/ Len(path'[t]) <= 1
  PROVE  Inv' /\ Forward
<1>1. \A n \in Nodes : visits'[n] >= visits[n] /\ (nnOutput[n] => nnOutput'[n])
  BY DEF TypeOK
<1>2. NodeInv' /\ Forward
  BY <1>1, QuietNodes DEF Inv
<1>3. \A i \in 1..(Len(path'[t]) - 1) :
        i \in 1..Len(path[t]) /\ path'[t][i] = path[t][i] /\ InArray(path[t][i])
  <2>1. path[t] \in Seq(Frames) /\ path'[t] \in Seq(Frames)
    BY DEF Inv, TypeOK
  <2>2. Len(path[t]) \in Nat /\ Len(path'[t]) \in Nat
    BY <2>1
  <2>3. \A i \in 1..(Len(path[t]) - 1) : InArray(path[t][i])
    BY DEF Inv, ThreadInv, PathInv
  <2>4. CASE path'[t] = path[t]
    BY <2>2, <2>3, <2>4
  <2>5. CASE Len(path'[t]) <= 1
    BY <2>2, <2>5
  <2> QED
    BY <2>4, <2>5
<1>4. PathInv(t)'
  <2>1. CASE path'[t] # <<>>
    BY <1>2, <1>3, <2>1, PathStep
  <2>2. CASE path'[t] = <<>>
    <3>1. 1..(Len(path'[t]) - 1) = {}
      BY <2>2
    <3> QED
      BY <2>2, <3>1 DEF PathInv
  <2> QED
    BY <2>1, <2>2
<1>5. LeafInv(t)' /\ ChoiceInv(t)' /\ CopyInv(t)'
  BY DEF LeafInv, ChoiceInv, CopyInv
<1> QED
  BY <1>2, <1>4, <1>5, StepInv, NoHold DEF ThreadInv

(* BeginTask keeps the invariant, and takes nothing back.                                    *)
LEMMA BeginTaskInv == ASSUME Inv, NEW t \in Threads, BeginTask(t) PROVE Inv' /\ Forward
<1>1. TypeOK
  BY DEF Inv
<1>2. /\ pc' \in [Threads -> ThreadPcs] /\ pc'[t] = "loop"
      /\ \A u \in Threads \ {t} : pc'[u] = pc[u]
  BY <1>1, GoToProperties DEF BeginTask, ThreadPcs
<1>3. numPlayouts' \in [Threads -> Nat]
  BY <1>1 DEF BeginTask, TypeOK
<1>4. TypeOK'
  BY <1>1, <1>2, <1>3 DEF BeginTask, TypeOK, nodeVars, searchVars
<1> QED
  BY <1>2, <1>4, BetweenPlayouts DEF BeginTask, OnlyMoves, nodeVars

(* StopSearching keeps the invariant, and takes nothing back.                                *)
LEMMA StopSearchingInv == ASSUME Inv, NEW t \in Threads, StopSearching(t) PROVE Inv' /\ Forward
<1>1. TypeOK
  BY DEF Inv
<1>2. /\ pc' \in [Threads -> ThreadPcs] /\ pc'[t] = "ended"
      /\ \A u \in Threads \ {t} : pc'[u] = pc[u]
  BY <1>1, GoToProperties DEF StopSearching, ThreadPcs
<1>3. TypeOK'
  BY <1>1, <1>2 DEF StopSearching, TypeOK, nodeVars
<1> QED
  BY <1>2, <1>3, BetweenPlayouts DEF StopSearching, OnlyMoves, nodeVars

(* BeginPlayout keeps the invariant, and takes nothing back.                                 *)
LEMMA BeginPlayoutInv == ASSUME Inv, NEW t \in Threads, BeginPlayout(t) PROVE Inv' /\ Forward
<1>1. TypeOK
  BY DEF Inv
<1>2. /\ pc' \in [Threads -> ThreadPcs] /\ pc'[t] = "visit"
      /\ \A u \in Threads \ {t} : pc'[u] = pc[u]
  BY <1>1, GoToProperties DEF BeginPlayout, ThreadPcs
<1> DEFINE q == <<Frame(Root)>>
<1>3. q \in Seq(Frames) /\ q # <<>> /\ Len(q) = 1
  <2>1. Frame(Root) \in Frames
    BY GraphAssumption DEF GraphAssumption, Frame, Frames, States, UNEVALUATED, EXPANDED2
  <2> QED
    BY <2>1
<1>4. path' = [path EXCEPT ![t] = q]
  BY DEF BeginPlayout
<1> HIDE DEF q
<1>5. /\ path' \in [Threads -> Seq(Frames)] /\ path'[t] = q
      /\ \A u \in Threads \ {t} : path'[u] = path[u]
  BY <1>1, <1>3, <1>4 DEF TypeOK
<1>6. TypeOK'
  BY <1>1, <1>2, <1>5 DEF BeginPlayout, TypeOK, nodeVars, searchVars
<1> QED
  BY <1>2, <1>3, <1>5, <1>6, BetweenPlayouts DEF BeginPlayout, OnlyMoves, nodeVars

(* EndPlayout keeps the invariant, and takes nothing back.                                   *)
LEMMA EndPlayoutInv == ASSUME Inv, NEW t \in Threads, EndPlayout(t) PROVE Inv' /\ Forward
<1>1. TypeOK
  BY DEF Inv
<1>2. /\ pc' \in [Threads -> ThreadPcs] /\ pc'[t] = "loop"
      /\ \A u \in Threads \ {t} : pc'[u] = pc[u]
  BY <1>1, GoToProperties DEF EndPlayout, ThreadPcs
<1>3. /\ path' \in [Threads -> Seq(Frames)] /\ path'[t] = <<>>
      /\ \A u \in Threads \ {t} : path'[u] = path[u]
  BY <1>1 DEF EndPlayout, TypeOK
<1>4. virtualLosses' \in [Nodes -> Int] /\ finished' \in [Threads -> BOOLEAN]
  <2>1. virtualLosses' \in [Nodes -> Int]
    BY <1>1, ReleaseChildType DEF EndPlayout
  <2> QED
    BY <1>1, <2>1 DEF EndPlayout, TypeOK
<1>5. numPlayoutsShared' \in Nat /\ numPlayouts' \in [Threads -> Nat]
  <2>1. numPlayoutsShared + 1 \in Nat /\ numPlayoutsShared \in Nat /\ numPlayouts \in [Threads -> Nat]
    BY <1>1 DEF TypeOK
  <2>2. CASE finished[t]
    BY <2>1, <2>2 DEF EndPlayout
  <2>3. CASE ~finished[t]
    BY <2>1, <2>3 DEF EndPlayout
  <2> QED
    BY <2>2, <2>3
<1>6. TypeOK'
  BY <1>1, <1>2, <1>3, <1>4, <1>5 DEF EndPlayout, TypeOK
<1>7. Len(path'[t]) <= 1
  BY <1>3
<1> QED
  BY <1>2, <1>3, <1>6, <1>7, BetweenPlayouts DEF EndPlayout, OnlyMoves

(* A search begins and ends: all threads move, none is in a playout.                                                  *)
LEMMA AllMove ==
  ASSUME Inv, TypeOK', UNCHANGED <<state, nnOutput, children, visits, path, completed, newChildren>>,
         \/ UNCHANGED pc
         \/ \A t \in Threads : pc'[t] \in {"idle", "start", "loop", "ended"}
  PROVE  Inv' /\ Forward
<1>1. \A n \in Nodes : visits'[n] >= visits[n] /\ (nnOutput[n] => nnOutput'[n])
  BY DEF TypeOK
<1>2. NodeInv' /\ Forward
  BY <1>1, QuietNodes DEF Inv
<1>3. ASSUME NEW t \in Threads PROVE ThreadInv(t)'
  <2>1. ThreadInv(t)
    BY DEF Inv
  <2>2. CASE UNCHANGED pc
    BY <2>1, <2>2 DEF ThreadInv, PathInv, LeafInv, ChoiceInv, CopyInv, InArray, AtEnd, Reading,
                      FilledTo, Top, Node, Slots
  <2>3. CASE pc'[t] \in {"idle", "start", "loop", "ended"}
    <3>1. PathInv(t)'
      BY <2>1, <2>3 DEF ThreadInv, PathInv, InArray, Reading
    <3>2. LeafInv(t)' /\ ChoiceInv(t)' /\ CopyInv(t)'
      BY <2>3 DEF LeafInv, ChoiceInv, CopyInv
    <3> QED
      BY <3>1, <3>2 DEF ThreadInv
  <2> QED
    BY <2>2, <2>3
<1>4. HoldInv'
  <2>1. HoldInv
    BY DEF Inv
  <2>2. CASE UNCHANGED pc
    BY <2>1, <2>2 DEF HoldInv, Holds, Top, Node
  <2>3. CASE \A t \in Threads : pc'[t] \in {"idle", "start", "loop", "ended"}
    BY <2>3 DEF HoldInv, Holds
  <2> QED
    BY <2>2, <2>3
<1> QED
  BY <1>2, <1>3, <1>4 DEF Inv

(* BeginSearch keeps the invariant, and takes nothing back.                                  *)
LEMMA BeginSearchInv == ASSUME Inv, BeginSearch PROVE Inv' /\ Forward
<1>1. TypeOK
  BY DEF Inv
<1>2. pc' \in [Threads -> ThreadPcs] /\ \A t \in Threads : pc'[t] = "start"
  BY DEF BeginSearch, ThreadPcs
<1>3. numPlayoutsShared' \in Nat /\ numNonPlayoutVisits' \in Nat /\ shouldStopNow' \in BOOLEAN
  BY <1>1, GraphAssumption DEF BeginSearch, TypeOK, GraphAssumption
<1>4. TypeOK'
  BY <1>1, <1>2, <1>3 DEF BeginSearch, TypeOK, nodeVars
<1> QED
  BY <1>2, <1>4, AllMove DEF BeginSearch, nodeVars

(* RequestStop keeps the invariant, and takes nothing back.                                  *)
LEMMA RequestStopInv == ASSUME Inv, RequestStop PROVE Inv' /\ Forward
<1>1. TypeOK'
  BY DEF Inv, RequestStop, TypeOK, nodeVars, threadVars
<1> QED
  BY <1>1, AllMove DEF RequestStop, nodeVars, threadVars

(* EndSearch keeps the invariant, and takes nothing back.                                    *)
LEMMA EndSearchInv == ASSUME Inv, EndSearch PROVE Inv' /\ Forward
<1>1. pc' \in [Threads -> ThreadPcs] /\ \A t \in Threads : pc'[t] = "idle"
  BY DEF EndSearch, ThreadPcs
<1>2. TypeOK'
  BY <1>1 DEF Inv, EndSearch, TypeOK, nodeVars, searchVars
<1> QED
  BY <1>1, <1>2, AllMove DEF EndSearch, nodeVars

-------------------------------------------------------------------------------
(* Steps that change an array.                                                                                         *)
LEMMA ArrayChange ==
  ASSUME TypeOK, NEW n \in Nodes, NEW a \in 0..2, NEW array \in ArraysOfSize(a),
         children' = [children EXCEPT ![n][a] = array]
  PROVE  /\ children' \in [Nodes -> [0..2 -> Arrays]] /\ children'[n][a] = array
         /\ \A m \in Nodes, b \in 0..2 : m # n \/ b # a => children'[m][b] = children[m][b]
<1>1. children \in [Nodes -> [0..2 -> Arrays]] /\ array \in Arrays
  BY ArrayProperties DEF TypeOK
<1>2. DOMAIN children[n] = 0..2
  BY <1>1
<1> QED
  BY <1>1, <1>2

(* An array, already published, gets more.                                                                             *)
LEMMA ArrayGetsMore ==
  ASSUME TypeOK, TypeOK', NodeInv, UNCHANGED <<state, nnOutput, visits>>,
         NEW n \in Nodes, NEW a \in 0..2, NEW array \in ArraysOfSize(a), NEW k \in 0..Capacity[a],
         children' = [children EXCEPT ![n][a] = array],
         state[n] >= 2 * a + 2, FilledTo(array, k),
         \A i \in 1..Capacity[a] : children[n][a][i].child # None =>
            /\ array[i].child = children[n][a][i].child
            /\ array[i].edgeVisits >= children[n][a][i].edgeVisits
  PROVE  NodeInv' /\ Forward
<1>1. /\ children'[n][a] = array
      /\ \A m \in Nodes, b \in 0..2 : m # n \/ b # a => children'[m][b] = children[m][b]
  <2>1. children \in [Nodes -> [0..2 -> Arrays]]
    BY DEF TypeOK
  <2>2. DOMAIN children[n] = 0..2
    BY <2>1
  <2> QED
    BY <2>1, <2>2
<1>2. children[n][a] \in ArraysOfSize(a)
  BY DEF NodeInv
<1>3. /\ DOMAIN children[n][a] = 1..Capacity[a] /\ DOMAIN array = 1..Capacity[a]
      /\ Capacity[a] \in Nat
  BY <1>2, ArrayProperties, SizeProperties
<1>4. NodeInv'
  <2> SUFFICES ASSUME NEW m \in Nodes, NEW b \in 0..2
               PROVE  /\ state[m] >= EXPANDED0 => nnOutput[m] /\ visits[m] >= 1
                      /\ state[m] < 2 * b + 2 => children'[m][b] = NoArray
                      /\ state[m] >= 2 * b + 2 => /\ children'[m][b] \in ArraysOfSize(b)
                                                  /\ \E j \in 0..Capacity[b] : FilledTo(children'[m][b], j)
                      /\ state[m] > 2 * b + 2 => FilledTo(children'[m][b], Capacity[b])
    BY DEF NodeInv, FilledTo
  <2>1. CASE m # n \/ b # a
    BY <1>1, <2>1 DEF NodeInv
  <2>2. CASE m = n /\ b = a
    <3>1. state[n] > 2 * a + 2 => FilledTo(array, Capacity[a])
      <4> HAVE state[n] > 2 * a + 2
      <4>1. FilledTo(children[n][a], Capacity[a])
        BY DEF NodeInv
      <4>2. \A i \in 1..Capacity[a] : array[i].child # None
        BY <1>3, <4>1 DEF FilledTo
      <4> QED
        BY <1>3, <4>2 DEF FilledTo
    <3>2. state[n] \in Int
      BY StateType
    <3>3. ~(state[n] < 2 * a + 2)
      BY <3>2
    <3> QED
      BY <1>1, <2>2, <3>1, <3>3 DEF NodeInv
  <2> QED
    BY <2>1, <2>2
<1>5. Forward
  <2> SUFFICES ASSUME NEW m \in Nodes
               PROVE  /\ state'[m] >= state[m]
                      /\ nnOutput[m] => nnOutput'[m]
                      /\ visits'[m] >= visits[m]
                      /\ \A b \in 0..2 : \A i \in DOMAIN children[m][b] :
                           children[m][b][i].child # None =>
                             /\ i \in DOMAIN children'[m][b]
                             /\ children'[m][b][i].child = children[m][b][i].child
                             /\ children'[m][b][i].edgeVisits >= children[m][b][i].edgeVisits
    BY DEF Forward
  <2>1. state'[m] >= state[m] /\ visits'[m] >= visits[m] /\ (nnOutput[m] => nnOutput'[m])
    <3>1. state[m] \in Int /\ visits[m] \in Nat
      BY StateType DEF TypeOK
    <3> QED
      BY <3>1
  <2>2. ASSUME NEW b \in 0..2, NEW i \in DOMAIN children[m][b], children[m][b][i].child # None
        PROVE  /\ i \in DOMAIN children'[m][b]
               /\ children'[m][b][i].child = children[m][b][i].child
               /\ children'[m][b][i].edgeVisits >= children[m][b][i].edgeVisits
    <3>1. CASE m # n \/ b # a
      <4>1. children[m][b][i].edgeVisits \in Nat
        BY EdgeVisitsType
      <4> QED
        BY <1>1, <2>2, <3>1, <4>1
    <3>2. CASE m = n /\ b = a
      BY <1>1, <1>3, <2>2, <3>2
    <3> QED
      BY <3>1, <3>2
  <2> QED
    BY <2>1, <2>2
<1> QED
  BY <1>4, <1>5

(* A visit more at an edge changes nothing that the invariant is about.               *)
LEMMA AddEdgeVisitProperties ==
  ASSUME Inv, TypeOK, NodeInv, NEW t \in Threads, path[t] # <<>>, InArray(Top(t)), AddEdgeVisit(t),
         UNCHANGED <<state, nnOutput, visits>>
  PROVE  /\ children' \in [Nodes -> [0..2 -> Arrays]]
         /\ TypeOK' => NodeInv' /\ Forward
<1> DEFINE n == Node(t)
           a == ArrayOf(Top(t).st)
           i == Top(t).idx
<1>1. /\ Top(t) \in Frames /\ n \in Nodes /\ n = Top(t).node
      /\ Reading(Top(t)) /\ i \in 1..Capacity[a]
  BY TopFrame DEF Node, InArray
<1>2. /\ a \in 0..2 /\ Capacity[a] \in Nat \ {0} /\ children[n][a] \in ArraysOfSize(a)
      /\ DOMAIN children[n][a] = 1..Capacity[a]
  BY <1>1, ReadArray
<1>3. PICK k \in 0..Capacity[a] : FilledTo(children[n][a], k)
  BY <1>1, ReadArray
<1>4. state[n] >= 2 * a + 2
  <2>1. Top(t).st \in States /\ state[n] \in 0..6 /\ Top(t).st \in EXPANDED0..state[n]
    BY <1>1, StateType DEF Frames, Reading
  <2>2. Top(t).st \in 2..6 /\ Top(t).st >= 2 * a + 2 /\ state[n] >= Top(t).st
    BY <2>1, SizeProperties DEF EXPANDED0
  <2> HIDE DEF a, n
  <2> QED
    BY <1>2, <2>1, <2>2
<1>5. children' = [children EXCEPT ![n][a][i].edgeVisits = @ + 1]
  BY DEF AddEdgeVisit
<1> HIDE DEF n, a, i
<1> DEFINE slot  == [children[n][a][i] EXCEPT !.edgeVisits = @ + 1]
           array == [children[n][a] EXCEPT ![i] = slot]
<1>6. /\ slot \in Slot /\ slot.child = children[n][a][i].child
      /\ slot.edgeVisits >= children[n][a][i].edgeVisits
  <2>1. children[n][a][i] \in Slot /\ children[n][a][i].edgeVisits \in Nat
    BY <1>1, <1>2, EdgeVisitsType
  <2> QED
    BY <2>1 DEF Slot
<1>7. children' = [children EXCEPT ![n][a] = array]
  BY <1>5
<1> HIDE DEF slot
<1>8. array \in ArraysOfSize(a)
  BY <1>2, <1>6 DEF ArraysOfSize
<1>9. \A j \in 1..Capacity[a] : /\ array[j].child = children[n][a][j].child
                                /\ array[j].edgeVisits >= children[n][a][j].edgeVisits
  <2> TAKE j \in 1..Capacity[a]
  <2>1. children[n][a][j].edgeVisits \in Nat
    BY <1>1, <1>2, EdgeVisitsType
  <2>2. CASE j = i
    BY <1>2, <1>6, <2>2
  <2>3. CASE j # i
    BY <1>2, <2>1, <2>3
  <2> QED
    BY <2>2, <2>3
<1>10. DOMAIN array = 1..Capacity[a]
  BY <1>2
<1> HIDE DEF array
<1>11. FilledTo(array, k)
  BY <1>2, <1>3, <1>9, <1>10 DEF FilledTo
<1>12. children' \in [Nodes -> [0..2 -> Arrays]]
  BY <1>1, <1>2, <1>7, <1>8, ArrayChange
<1>13. ASSUME TypeOK' PROVE NodeInv' /\ Forward
  BY <1>1, <1>2, <1>4, <1>7, <1>8, <1>9, <1>11, <1>13, ArrayGetsMore
<1> QED
  BY <1>12, <1>13

(* So the steps that count one keep it.                                               *)
LEMMA EdgeVisitStep ==
  ASSUME Inv, NEW t \in Threads, path[t] # <<>>, InArray(Top(t)), AddEdgeVisit(t), GoTo(t, "stats"),
         UNCHANGED <<state, nnOutput, visits, dirtyCounter, virtualLosses, searchVars, path,
                     finished, completed, newChildren, numPlayouts>>
  PROVE  Inv' /\ Forward
<1>1. TypeOK /\ NodeInv
  BY DEF Inv
<1>2. /\ pc' \in [Threads -> ThreadPcs] /\ pc'[t] = "stats"
      /\ \A u \in Threads \ {t} : pc'[u] = pc[u]
  BY <1>1, GoToProperties DEF ThreadPcs
<1>3. TypeOK'
  BY <1>1, <1>2, AddEdgeVisitProperties DEF TypeOK, searchVars
<1>4. NodeInv' /\ Forward
  BY <1>1, <1>3, AddEdgeVisitProperties
<1>5. PathInv(t)'
  BY <1>3, <1>4, SamePath
<1>6. LeafInv(t)' /\ ChoiceInv(t)' /\ CopyInv(t)'
  BY <1>2 DEF LeafInv, ChoiceInv, CopyInv
<1> QED
  BY <1>2, <1>3, <1>4, <1>5, <1>6, StepInv, NoHold DEF ThreadInv, OnlyMoves

(* CatchUp keeps the invariant, and takes nothing back.                                      *)
LEMMA CatchUpInv == ASSUME Inv, NEW t \in Threads, CatchUp(t) PROVE Inv' /\ Forward
<1>1. pc[t] = "catchUp"
  BY DEF CatchUp, At
<1>2. path[t] # <<>> /\ InArray(Top(t))
  BY <1>1, InPlayout DEF ThreadInv, ChoiceInv
<1> QED
  BY <1>2, EdgeVisitStep DEF CatchUp

(* CountEdgeVisit keeps the invariant, and takes nothing back.                               *)
LEMMA CountEdgeVisitInv == ASSUME Inv, NEW t \in Threads, CountEdgeVisit(t) PROVE Inv' /\ Forward
<1>1. pc[t] = "edge"
  BY DEF CountEdgeVisit, At
<1>2. path[t] # <<>> /\ InArray(Top(t))
  BY <1>1, InPlayout DEF ThreadInv, ChoiceInv
<1> QED
  BY <1>2, EdgeVisitStep DEF CountEdgeVisit

(* A new child goes into the first slot that has none.                                                                  *)
LEMMA InsertChildInv == ASSUME Inv, NEW t \in Threads, InsertChild(t) PROVE Inv' /\ Forward
<1>1. pc[t] = "newChild"
  BY DEF InsertChild, At
<1>2. /\ TypeOK /\ NodeInv /\ path[t] # <<>> /\ Node(t) \in Nodes /\ Top(t) \in Frames
      /\ Node(t) = Top(t).node /\ InArray(Top(t)) /\ Reading(Top(t)) /\ Top(t).move \in Moves(Node(t))
      /\ \A j \in 1..(Top(t).idx - 1) : Slots(t)[j].child # None
  BY <1>1, InPlayout DEF ThreadInv, ChoiceInv, InArray
<1>3. UNCHANGED <<state, nnOutput, visits, dirtyCounter, searchVars, completed, newChildren, numPlayouts>>
  BY DEF InsertChild
<1>4. CASE ReturnWith(t, FALSE) /\ UNCHANGED <<children, path, virtualLosses>>
  <2>1. /\ pc' \in [Threads -> ThreadPcs] /\ pc'[t] = "return" /\ finished' \in [Threads -> BOOLEAN]
        /\ \A u \in Threads \ {t} : pc'[u] = pc[u]
    BY <1>2, <1>4, ReturnProperties
  <2>2. TypeOK'
    BY <1>2, <1>3, <1>4, <2>1 DEF searchVars, TypeOK
  <2>3. \A n \in Nodes : visits'[n] >= visits[n] /\ (nnOutput[n] => nnOutput'[n])
    BY <1>2, <1>3 DEF TypeOK
  <2> QED
    BY <1>2, <1>3, <1>4, <2>1, <2>2, <2>3, FreeStep DEF OnlyMoves
<1> DEFINE n     == Node(t)
           a     == ArrayOf(Top(t).st)
           i     == Top(t).idx
           child == ChildNode(t)
           frame == [Top(t) EXCEPT !.child = child]
<1>5. CASE /\ Slots(t)[i].child = None
           /\ children' = [children EXCEPT ![n][a][i] = [@ EXCEPT !.child = child, !.move = Top(t).move]]
           /\ SetTop(t, frame)
           /\ virtualLosses' = [virtualLosses EXCEPT ![child] = @ + 1]
           /\ GoTo(t, "catchUp") /\ UNCHANGED finished
  <2>1. /\ a \in 0..2 /\ Capacity[a] \in Nat \ {0} /\ children[n][a] \in ArraysOfSize(a)
        /\ DOMAIN children[n][a] = 1..Capacity[a] /\ i \in 1..Capacity[a]
        /\ Slots(t) = children[n][a]
    BY <1>2, ReadArray DEF Slots, InArray
  <2>2. PICK k \in 0..Capacity[a] : FilledTo(children[n][a], k)
    BY <1>2, ReadArray
  <2>3. k = i - 1
    <3>1. children[n][a][i].child = None /\ \A j \in 1..(i - 1) : children[n][a][j].child # None
      BY <1>2, <1>5, <2>1
    <3>2. ~(i <= k)
      BY <2>1, <2>2, <3>1 DEF FilledTo
    <3> HIDE DEF i, a, n
    <3>3. i - 1 <= k
      <4>1. CASE i = 1
        BY <4>1
      <4>2. CASE i > 1
        <5>1. i - 1 \in DOMAIN children[n][a] /\ i - 1 \in 1..(i - 1)
          BY <2>1, <4>2
        <5> QED
          BY <2>2, <3>1, <5>1 DEF FilledTo
      <4> QED
        BY <2>1, <4>1, <4>2
    <3> QED
      BY <2>1, <3>2, <3>3
  <2>4. state[n] >= 2 * a + 2
    <3>1. Top(t).st \in States /\ state[n] \in 0..6 /\ Top(t).st \in EXPANDED0..state[n]
      BY <1>2, StateType DEF Frames, Reading
    <3>2. Top(t).st \in 2..6 /\ Top(t).st >= 2 * a + 2 /\ state[n] >= Top(t).st
      BY <3>1, SizeProperties DEF EXPANDED0
    <3> HIDE DEF a, n
    <3> QED
      BY <2>1, <3>1, <3>2
  <2>5. child \in Nodes /\ Top(t).move \in AllMoves /\ child # None
    BY <1>2, GraphAssumption DEF ChildNode, GraphAssumption, AllMoves
  <2>6. frame \in Frames /\ frame.st = Top(t).st /\ frame.node = n /\ frame.idx = i /\ frame.child = child
    BY <1>2, <2>5 DEF Frames
  <2> DEFINE slot  == [children[n][a][i] EXCEPT !.child = child, !.move = Top(t).move]
             array == [children[n][a] EXCEPT ![i] = slot]
  <2> n \in Nodes
    BY <1>2
  <2> HIDE DEF n, a, i, child, frame
  <2>7. children' = [children EXCEPT ![n][a] = array]
    BY <1>5
  <2>8. slot \in Slot /\ slot.child = child
    <3>1. children[n][a][i] \in Slot
      BY <1>2, <2>1, EdgeVisitsType
    <3> QED
      BY <2>5, <3>1 DEF Slot
  <2> HIDE DEF slot
  <2>9. /\ array \in ArraysOfSize(a) /\ DOMAIN array = 1..Capacity[a] /\ array[i] = slot
        /\ \A j \in 1..Capacity[a] : j # i => array[j] = children[n][a][j]
    BY <2>1, <2>8 DEF ArraysOfSize
  <2> HIDE DEF array
  <2>10. FilledTo(array, k + 1) /\ k + 1 \in 0..Capacity[a]
    BY <2>1, <2>2, <2>3, <2>5, <2>8, <2>9 DEF FilledTo
  <2>11. \A j \in 1..Capacity[a] : children[n][a][j].child # None =>
           /\ array[j].child = children[n][a][j].child
           /\ array[j].edgeVisits >= children[n][a][j].edgeVisits
    <3> TAKE j \in 1..Capacity[a]
    <3> HAVE children[n][a][j].child # None
    <3>1. j # i
      BY <1>5, <2>1
    <3>2. children[n][a][j].edgeVisits \in Nat
      BY <1>2, <2>1, EdgeVisitsType
    <3> QED
      BY <2>9, <3>1, <3>2
  <2>12. children' \in [Nodes -> [0..2 -> Arrays]]
    BY <1>2, <2>1, <2>7, <2>9, ArrayChange
  <2>13. /\ pc' \in [Threads -> ThreadPcs] /\ pc'[t] = "catchUp"
         /\ \A u \in Threads \ {t} : pc'[u] = pc[u]
    BY <1>2, <1>5, GoToProperties DEF ThreadPcs
  <2>14. path' \in [Threads -> Seq(Frames)]
    BY <1>2, <1>5, <2>6, SetTopProperties
  <2>15. virtualLosses' \in [Nodes -> Int]
    BY <1>2, <1>5, <2>5 DEF TypeOK
  <2>16. TypeOK'
    BY <1>2, <1>3, <1>5, <2>12, <2>13, <2>14, <2>15 DEF TypeOK, searchVars
  <2>17. NodeInv' /\ Forward
    BY <1>2, <1>3, <2>1, <2>4, <2>7, <2>9, <2>10, <2>11, <2>16, ArrayGetsMore
  <2>18. /\ Top(t)' = frame /\ PathInv(t)' /\ \A u \in Threads \ {t} : path'[u] = path[u]
    BY <1>2, <1>5, <2>6, <2>16, <2>17, SetTopStep
  <2>19. LeafInv(t)' /\ CopyInv(t)'
    BY <2>13 DEF LeafInv, CopyInv
  <2>20. frame.st \in EXPANDED0..state'[frame.node] /\ frame.idx \in 1..Capacity[ArrayOf(frame.st)]
    BY <1>2, <1>3, <2>6 DEF InArray, Reading, i, n
  <2>21. ChoiceInv(t)'
    BY <2>5, <2>6, <2>13, <2>18, <2>20 DEF ChoiceInv, InArray, Reading
  <2> QED
    BY <1>3, <2>13, <2>16, <2>17, <2>18, <2>19, <2>21, StepInv, NoHold DEF ThreadInv, OnlyMoves
<1> QED
  BY <1>4, <1>5 DEF InsertChild

(* An array of its size is published together with the state that names it.                                              *)
LEMMA PublishArray ==
  ASSUME TypeOK, NodeInv, NEW n \in Nodes, NEW a \in 0..2, NEW array \in ArraysOfSize(a),
         NEW k \in 0..Capacity[a], FilledTo(array, k), state[n] = 2 * a + 1,
         nnOutput[n], visits[n] >= 1,
         children' = [children EXCEPT ![n][a] = array], state' = [state EXCEPT ![n] = 2 * a + 2],
         UNCHANGED <<nnOutput, visits>>
  PROVE  /\ NodeInv' /\ Forward
         /\ children' \in [Nodes -> [0..2 -> Arrays]] /\ state' \in [Nodes -> States]
         /\ state'[n] = 2 * a + 2 /\ \A m \in Nodes \ {n} : state'[m] = state[m]
<1>1. /\ children' \in [Nodes -> [0..2 -> Arrays]] /\ children'[n][a] = array
      /\ \A m \in Nodes, b \in 0..2 : m # n \/ b # a => children'[m][b] = children[m][b]
  <2>1. children \in [Nodes -> [0..2 -> Arrays]] /\ array \in Arrays
    BY ArrayProperties DEF TypeOK
  <2>2. DOMAIN children[n] = 0..2
    BY <2>1
  <2> QED
    BY <2>1, <2>2
<1>2. /\ state' \in [Nodes -> States] /\ state'[n] = 2 * a + 2
      /\ \A m \in Nodes \ {n} : state'[m] = state[m]
  <2>1. state \in [Nodes -> States] /\ 2 * a + 2 \in States
    BY DEF TypeOK, States, UNEVALUATED, EXPANDED2
  <2> QED
    BY <2>1
<1>3. NodeInv'
  <2> SUFFICES ASSUME NEW m \in Nodes
               PROVE  /\ state'[m] >= EXPANDED0 => nnOutput[m] /\ visits[m] >= 1
                      /\ \A b \in 0..2 :
                           /\ state'[m] < 2 * b + 2 => children'[m][b] = NoArray
                           /\ state'[m] >= 2 * b + 2 =>
                                /\ children'[m][b] \in ArraysOfSize(b)
                                /\ \E j \in 0..Capacity[b] : FilledTo(children'[m][b], j)
                           /\ state'[m] > 2 * b + 2 => FilledTo(children'[m][b], Capacity[b])
    BY DEF NodeInv, FilledTo
  <2>1. CASE m # n
    <3>1. state'[m] = state[m] /\ \A b \in 0..2 : children'[m][b] = children[m][b]
      BY <1>1, <1>2, <2>1
    <3> QED
      BY <3>1 DEF NodeInv
  <2>2. CASE m = n
    <3>1. ASSUME NEW b \in 0..2
          PROVE  /\ state'[n] < 2 * b + 2 => children'[n][b] = NoArray
                 /\ state'[n] >= 2 * b + 2 =>
                      /\ children'[n][b] \in ArraysOfSize(b)
                      /\ \E j \in 0..Capacity[b] : FilledTo(children'[n][b], j)
                 /\ state'[n] > 2 * b + 2 => FilledTo(children'[n][b], Capacity[b])
      <4>1. CASE b = a
        BY <1>1, <1>2, <4>1
      <4>2. CASE b # a
        <5>1. children'[n][b] = children[n][b]
          BY <1>1, <4>2
        <5>2. CASE b < a
          <6>1. state[n] > 2 * b + 2 /\ state[n] >= 2 * b + 2 /\ ~(state'[n] < 2 * b + 2)
            BY <1>2, <5>2
          <6> QED
            BY <5>1, <6>1 DEF NodeInv
        <5>3. CASE b > a
          <6>1. state[n] < 2 * b + 2 /\ ~(state'[n] > 2 * b + 2) /\ ~(state'[n] >= 2 * b + 2)
            BY <1>2, <5>3
          <6> QED
            BY <5>1, <6>1 DEF NodeInv
        <5> QED
          BY <4>2, <5>2, <5>3
      <4> QED
        BY <4>1, <4>2
    <3> QED
      BY <2>2, <3>1
  <2> QED
    BY <2>1, <2>2
<1>4. Forward
  <2> SUFFICES ASSUME NEW m \in Nodes
               PROVE  /\ state'[m] >= state[m]
                      /\ nnOutput[m] => nnOutput'[m]
                      /\ visits'[m] >= visits[m]
                      /\ \A b \in 0..2 : \A i \in DOMAIN children[m][b] :
                           children[m][b][i].child # None =>
                             /\ i \in DOMAIN children'[m][b]
                             /\ children'[m][b][i].child = children[m][b][i].child
                             /\ children'[m][b][i].edgeVisits >= children[m][b][i].edgeVisits
    BY DEF Forward
  <2>1. visits'[m] >= visits[m] /\ (nnOutput[m] => nnOutput'[m])
    BY DEF TypeOK
  <2>2. state'[m] >= state[m]
    <3>1. state[m] \in Int
      BY StateType
    <3> QED
      BY <1>2, <3>1
  <2>3. ASSUME NEW b \in 0..2, NEW i \in DOMAIN children[m][b]
        PROVE  /\ i \in DOMAIN children'[m][b]
               /\ children'[m][b][i].child = children[m][b][i].child
               /\ children'[m][b][i].edgeVisits >= children[m][b][i].edgeVisits
    <3>1. CASE m # n \/ b # a
      <4>1. children[m][b][i].edgeVisits \in Nat
        BY EdgeVisitsType
      <4> QED
        BY <1>1, <3>1, <4>1
    <3>2. CASE m = n /\ b = a
      <4>1. children[n][a] = NoArray
        <5>1. state[n] < 2 * a + 2
          OBVIOUS
        <5> QED
          BY <5>1 DEF NodeInv
      <4> QED
        BY <3>2, <4>1 DEF NoArray
    <3> QED
      BY <3>1, <3>2
  <2> QED
    BY <2>1, <2>2, <2>3
<1> QED
  BY <1>1, <1>2, <1>3, <1>4

(* ExpandNode keeps the invariant, and takes nothing back.                                   *)
LEMMA ExpandNodeInv == ASSUME Inv, NEW t \in Threads, ExpandNode(t) PROVE Inv' /\ Forward
<1>1. pc[t] = "expand"
  BY DEF ExpandNode, At
<1>2. /\ TypeOK /\ NodeInv /\ path[t] # <<>> /\ Node(t) \in Nodes
      /\ nnOutput[Node(t)] /\ visits[Node(t)] >= 1
  BY <1>1, InPlayout DEF ThreadInv, LeafInv
<1>3. state[Node(t)] = EVALUATING
  BY <1>1 DEF Inv, HoldInv
<1>4. UNCHANGED <<nnOutput, visits, dirtyCounter, virtualLosses, searchVars, path, completed,
                  newChildren, numPlayouts>>
  BY DEF ExpandNode
<1>5. /\ NodeInv' /\ Forward
      /\ children' \in [Nodes -> [0..2 -> Arrays]] /\ state' \in [Nodes -> States]
      /\ \A m \in Nodes \ {Node(t)} : state'[m] = state[m]
  <2>1. state[Node(t)] = 2 * 0 + 1 /\ state' = [state EXCEPT ![Node(t)] = 2 * 0 + 2]
    BY <1>3 DEF ExpandNode, EVALUATING, EXPANDED0
  <2>2. 0 \in 0..2 /\ 0 \in 0..Capacity[0]
    BY SizeProperties
  <2>3. NewArray(0) \in ArraysOfSize(0) /\ FilledTo(NewArray(0), 0)
    BY <2>2, ArrayProperties
  <2>4. children' = [children EXCEPT ![Node(t)][0] = NewArray(0)]
    BY DEF ExpandNode
  <2> DEFINE array == NewArray(0)
             a     == 0
  <2> HIDE DEF array, a
  <2>5. /\ a \in 0..2 /\ 0 \in 0..Capacity[a] /\ array \in ArraysOfSize(a) /\ FilledTo(array, 0)
        /\ state[Node(t)] = 2 * a + 1 /\ state' = [state EXCEPT ![Node(t)] = 2 * a + 2]
        /\ children' = [children EXCEPT ![Node(t)][a] = array]
    BY <2>1, <2>2, <2>3, <2>4 DEF array, a
  <2> QED
    BY <1>2, <1>4, <2>5, PublishArray
<1>6. /\ pc' \in [Threads -> ThreadPcs] /\ pc'[t] = "return" /\ finished' \in [Threads -> BOOLEAN]
      /\ \A u \in Threads \ {t} : pc'[u] = pc[u]
  BY <1>2, ReturnProperties DEF ExpandNode
<1>7. TypeOK'
  BY <1>2, <1>4, <1>5, <1>6 DEF TypeOK, searchVars
<1>8. PathInv(t)'
  BY <1>2, <1>4, <1>5, <1>7, SamePath
<1>9. LeafInv(t)' /\ ChoiceInv(t)' /\ CopyInv(t)'
  BY <1>6 DEF LeafInv, ChoiceInv, CopyInv
<1>10. HoldStep(t)
  <2>1. ASSUME NEW u \in Threads \ {t}, Holds(u) PROVE state'[Node(u)] = state[Node(u)]
    <3>1. Node(u) \in Nodes
      BY <2>1, InPlayout DEF Holds
    <3>2. Node(u) # Node(t)
      BY <1>1, <2>1 DEF Inv, HoldInv, Holds
    <3> QED
      BY <1>5, <3>1, <3>2
  <2> QED
    BY <1>6, <2>1 DEF HoldStep, Holds
<1> QED
  BY <1>4, <1>5, <1>6, <1>7, <1>8, <1>9, <1>10, StepInv DEF ThreadInv, OnlyMoves

(* The array of a state and of the next ones.                                                                             *)
LEMMA GrowingStates ==
  /\ ArrayOf(2) = 0 /\ ArrayOf(3) = 0 /\ ArrayOf(4) = 1 /\ ArrayOf(5) = 1 /\ ArrayOf(6) = 2
  /\ EXPANDED0 = 2 /\ GROWING1 = 3 /\ EXPANDED1 = 4 /\ GROWING2 = 5 /\ EXPANDED2 = 6
  /\ States = 0..6 /\ EVALUATING = 1
BY DEF ArrayOf, EXPANDED0, GROWING1, EXPANDED1, GROWING2, EXPANDED2, States, UNEVALUATED, EVALUATING

(* The claim succeeds for a node that is not growing, which nobody holds.                                                  *)
LEMMA ClaimGrowthInv == ASSUME Inv, NEW t \in Threads, ClaimGrowth(t) PROVE Inv' /\ Forward
<1>1. pc[t] = "grow"
  BY DEF ClaimGrowth, At
<1>2. /\ TypeOK /\ NodeInv /\ path[t] # <<>> /\ Node(t) \in Nodes /\ Top(t) \in Frames
      /\ Node(t) = Top(t).node /\ Reading(Top(t)) /\ AtEnd(Top(t)) /\ Top(t).move \in Moves(Node(t))
  BY <1>1, InPlayout DEF ThreadInv, ChoiceInv
<1>3. UNCHANGED <<nnOutput, children, visits, dirtyCounter, virtualLosses, searchVars,
                  finished, completed, numPlayouts>>
  BY DEF ClaimGrowth
<1>4. \A n \in Nodes : visits'[n] >= visits[n] /\ (nnOutput[n] => nnOutput'[n])
  BY <1>2, <1>3 DEF TypeOK
<1>5. CASE GoTo(t, "reload") /\ UNCHANGED <<state, path, newChildren>>
  <2>1. /\ pc' \in [Threads -> ThreadPcs] /\ pc'[t] = "reload"
        /\ \A u \in Threads \ {t} : pc'[u] = pc[u]
    BY <1>2, <1>5, GoToProperties DEF ThreadPcs
  <2>2. TypeOK'
    BY <1>2, <1>3, <1>5, <2>1 DEF searchVars, TypeOK
  <2>3. NodeInv' /\ Forward
    BY <1>2, <1>3, <1>4, <1>5, <2>2, QuietNodes
  <2>4. PathInv(t)'
    BY <1>2, <1>5, <2>2, <2>3, SamePath
  <2>5. LeafInv(t)' /\ ChoiceInv(t)' /\ CopyInv(t)'
    BY <1>2, <1>5, <2>1 DEF LeafInv, ChoiceInv, CopyInv, Reading, Top
  <2> QED
    BY <1>3, <1>5, <2>1, <2>2, <2>3, <2>4, <2>5, StepInv, NoHold DEF ThreadInv, OnlyMoves
<1> DEFINE n     == Node(t)
           s     == Top(t).st
           a     == ArrayOf(s)
           frame == [Top(t) EXCEPT !.st = s + 1]
<1>6. CASE /\ s \in {EXPANDED0, EXPANDED1} /\ state[n] = s
           /\ state' = [state EXCEPT ![n] = @ + 1]
           /\ SetTop(t, frame)
           /\ newChildren' = [newChildren EXCEPT ![t] = NewArray(a + 1)]
           /\ GoTo(t, "copy")
  <2>1. /\ s \in {2, 4} /\ a \in 0..1 /\ a + 1 \in 0..2 /\ s = 2 * a + 2
        /\ ArrayOf(s + 1) = a /\ s + 1 \in {GROWING1, GROWING2} /\ s + 1 \in States
    BY <1>6, GrowingStates
  <2>2. /\ Capacity[a] \in Nat \ {0} /\ FilledTo(children[n][a], Capacity[a])
        /\ Top(t).idx = Capacity[a] + 1
    BY <1>2, <2>1, SizeProperties DEF AtEnd
  <2>3. /\ frame \in Frames /\ frame.st = s + 1 /\ frame.node = n /\ frame.idx = Top(t).idx
        /\ frame.move = Top(t).move
    BY <1>2, <2>1 DEF Frames
  <2>4. NewArray(a + 1) \in ArraysOfSize(a + 1) /\ FilledTo(NewArray(a + 1), 0)
        /\ NewArray(a + 1) \in Arrays
    BY <2>1, ArrayProperties
  <2> n \in Nodes
    BY <1>2
  <2> HIDE DEF frame, a, s
  <2>5. /\ state' \in [Nodes -> States] /\ state'[n] = s + 1
        /\ \A m \in Nodes \ {n} : state'[m] = state[m]
    <3>1. state \in [Nodes -> States]
      BY <1>2 DEF TypeOK
    <3> HIDE DEF n
    <3> QED
      BY <1>6, <2>1, <3>1
  <2>6. /\ newChildren' \in [Threads -> Arrays] /\ newChildren'[t] = NewArray(a + 1)
        /\ \A u \in Threads \ {t} : newChildren'[u] = newChildren[u]
    BY <1>2, <1>6, <2>4 DEF TypeOK
  <2>7. /\ pc' \in [Threads -> ThreadPcs] /\ pc'[t] = "copy"
        /\ \A u \in Threads \ {t} : pc'[u] = pc[u]
    BY <1>2, <1>6, GoToProperties DEF ThreadPcs
  <2>8. path' \in [Threads -> Seq(Frames)]
    BY <1>2, <1>6, <2>3, SetTopProperties
  <2>9. TypeOK'
    BY <1>2, <1>3, <2>5, <2>6, <2>7, <2>8 DEF TypeOK, searchVars
  <2>10. NodeInv'
    <3> SUFFICES ASSUME NEW m \in Nodes
                 PROVE  /\ state'[m] >= EXPANDED0 => nnOutput[m] /\ visits[m] >= 1
                        /\ \A b \in 0..2 :
                             /\ state'[m] < 2 * b + 2 => children[m][b] = NoArray
                             /\ state'[m] >= 2 * b + 2 =>
                                  /\ children[m][b] \in ArraysOfSize(b)
                                  /\ \E k \in 0..Capacity[b] : FilledTo(children[m][b], k)
                             /\ state'[m] > 2 * b + 2 => FilledTo(children[m][b], Capacity[b])
      BY <1>3 DEF NodeInv, FilledTo
    <3>1. CASE m # n
      <4>1. state'[m] = state[m]
        BY <2>5, <3>1
      <4> QED
        BY <1>2, <4>1 DEF NodeInv
    <3>2. CASE m = n
      <4>1. state[n] >= EXPANDED0
        BY <1>6, GrowingStates
      <4>2. nnOutput[n] /\ visits[n] >= 1
        BY <1>2, <4>1 DEF NodeInv
      <4>3. ASSUME NEW b \in 0..2
            PROVE  /\ state'[n] < 2 * b + 2 => children[n][b] = NoArray
                   /\ state'[n] >= 2 * b + 2 =>
                        /\ children[n][b] \in ArraysOfSize(b)
                        /\ \E k \in 0..Capacity[b] : FilledTo(children[n][b], k)
                   /\ state'[n] > 2 * b + 2 => FilledTo(children[n][b], Capacity[b])
        <5>1. /\ state'[n] < 2 * b + 2 => state[n] < 2 * b + 2
              /\ state'[n] >= 2 * b + 2 => state[n] >= 2 * b + 2
              /\ state'[n] > 2 * b + 2 => b = a \/ state[n] > 2 * b + 2
          BY <1>6, <2>1, <2>5
        <5> QED
          BY <1>2, <2>2, <5>1 DEF NodeInv
      <4> QED
        BY <3>2, <4>2, <4>3
    <3> QED
      BY <3>1, <3>2
  <2>11. Forward
    <3>1. \A m \in Nodes : state'[m] >= state[m]
      <4>1. \A m \in Nodes : state[m] \in Int
        BY <1>2, StateType
      <4> QED
        BY <1>6, <2>1, <2>5, <4>1
    <3> QED
      BY <1>2, <1>3, <1>4, <3>1, ForwardStates
  <2>12. /\ Top(t)' = frame /\ Node(t)' = n /\ PathInv(t)'
         /\ \A u \in Threads \ {t} : path'[u] = path[u]
    BY <1>2, <1>6, <2>3, <2>9, <2>10, <2>11, SetTopStep
  <2>13. LeafInv(t)'
    BY <2>7 DEF LeafInv
  <2>14. ChoiceInv(t)'
    <3>1. frame.st \in EXPANDED0..state'[frame.node]
      BY <2>1, <2>3, <2>5, GrowingStates
    <3>2. /\ frame.idx = Capacity[ArrayOf(frame.st)] + 1
          /\ FilledTo(children'[frame.node][ArrayOf(frame.st)], Capacity[ArrayOf(frame.st)])
      BY <1>3, <2>1, <2>2, <2>3
    <3> QED
      BY <1>2, <2>3, <2>7, <2>12, <3>1, <3>2 DEF ChoiceInv, Reading, AtEnd, n
  <2>15. CopyInv(t)'
    <3>1. 0 \in 0..(Capacity[a] - 1)
      BY <2>2
    <3>2. FilledTo(newChildren'[t], 0) /\ newChildren'[t] \in ArraysOfSize(a + 1)
      BY <2>4, <2>6
    <3>3. Top(t)'.st = s + 1 /\ ArrayOf(s + 1) = a
      BY <2>1, <2>3, <2>12
    <3> QED
      BY <2>7, <3>1, <3>2, <3>3 DEF CopyInv, FilledTo
  <2>16. \A u \in Threads \ {t} : Holds(u) => Node(u) \in Nodes /\ Node(u) # n
    <3> TAKE u \in Threads \ {t}
    <3> HAVE Holds(u)
    <3>1. Node(u) \in Nodes
      BY InPlayout DEF Holds
    <3>2. state[Node(u)] \in {EVALUATING, GROWING1, GROWING2}
      BY DEF Inv, HoldInv, Holds
    <3>3. state[n] \notin {EVALUATING, GROWING1, GROWING2}
      BY <1>6, GrowingStates
    <3> QED
      BY <3>1, <3>2, <3>3
  <2>17. HoldStep(t)
    <3>1. \A u \in Threads \ {t} : Holds(u) => state'[Node(u)] = state[Node(u)]
      BY <2>5, <2>16
    <3> QED
      BY <2>1, <2>3, <2>5, <2>7, <2>12, <2>16, <3>1 DEF HoldStep
  <2> QED
    BY <1>3, <2>6, <2>7, <2>9, <2>10, <2>11, <2>12, <2>13, <2>14, <2>15, <2>17, StepInv
       DEF ThreadInv, OnlyMoves
<1>7. state[n] = s => [state EXCEPT ![n] = @ + 1] = [state EXCEPT ![n] = s + 1]
  OBVIOUS
<1> QED
  BY <1>5, <1>6 DEF ClaimGrowth

(* The children found in the full array fill the larger one from its first slot on.                                        *)
LEMMA CopyChildInv == ASSUME Inv, NEW t \in Threads, CopyChild(t) PROVE Inv' /\ Forward
<1> DEFINE n   == Node(t)
           a   == ArrayOf(Top(t).st)
           new == newChildren[t]
           i   == NumFound(new) + 1
<1>1. pc[t] = "copy"
  BY DEF CopyChild, At
<1>2. /\ TypeOK /\ NodeInv /\ path[t] # <<>> /\ n \in Nodes /\ Top(t) \in Frames
      /\ n = Top(t).node /\ Reading(Top(t)) /\ AtEnd(Top(t)) /\ Top(t).move \in Moves(n)
      /\ new \in ArraysOfSize(a + 1) /\ \E k \in 0..(Capacity[a] - 1) : FilledTo(new, k)
  BY <1>1, InPlayout DEF ThreadInv, ChoiceInv, CopyInv
<1>3. /\ Top(t).st \in {GROWING1, GROWING2} /\ state[n] = Top(t).st
      /\ \A u \in Threads \ {t} : Holds(u) => Node(u) # n
  BY <1>1 DEF Inv, HoldInv, Holds
<1>4. a \in 0..1 /\ a + 1 \in 0..2
  BY <1>3, GrowingStates
<1>5. /\ Capacity[a] \in Nat \ {0} /\ Capacity[a + 1] \in Nat /\ Capacity[a] < Capacity[a + 1]
      /\ Slots(t) \in ArraysOfSize(a) /\ DOMAIN Slots(t) = 1..Capacity[a]
      /\ FilledTo(Slots(t), Capacity[a])
  <2>1. /\ Slots(t) \in ArraysOfSize(a) /\ DOMAIN Slots(t) = 1..Capacity[a]
        /\ FilledTo(Slots(t), Capacity[a])
    BY <1>2, ReadArray DEF Slots, AtEnd
  <2> HIDE DEF a
  <2>2. a = 0 \/ a = 1
    BY <1>4
  <2>3. /\ Capacity[a] \in Nat \ {0} /\ Capacity[a + 1] \in Nat /\ Capacity[a] < Capacity[a + 1]
    BY <2>2, SizeProperties
  <2> QED
    BY <2>1, <2>3
<1>6. PICK k \in 0..(Capacity[a] - 1) : FilledTo(new, k)
  BY <1>2
<1> HIDE DEF a, n, new
<1>7. i = k + 1 /\ i \in 1..Capacity[a] /\ i \in 1..Capacity[a + 1] /\ DOMAIN new = 1..Capacity[a + 1]
  <2>1. k \in 0..Capacity[a + 1]
    BY <1>5
  <2>2. NumFound(new) = k
    BY <1>2, <1>4, <1>6, <2>1, NumFoundProperties
  <2> QED
    BY <1>2, <1>4, <1>5, <2>2, ArrayProperties
<1> DEFINE array == [new EXCEPT ![i] = Slots(t)[i]]
<1>8. UNCHANGED <<nodeVars, searchVars, path, finished, completed, numPlayouts>>
  BY DEF CopyChild
<1>9. /\ newChildren' = [newChildren EXCEPT ![t] = array]
      /\ IF i = Len(Slots(t)) THEN GoTo(t, "publish") ELSE UNCHANGED pc
  BY DEF CopyChild, new
<1>10. Slots(t)[i] \in Slot /\ Slots(t)[i].child # None
  BY <1>5, <1>7 DEF ArraysOfSize, FilledTo
<1> HIDE DEF i
<1>11. array \in ArraysOfSize(a + 1) /\ FilledTo(array, i)
  <2>1. /\ array \in ArraysOfSize(a + 1) /\ DOMAIN array = 1..Capacity[a + 1]
        /\ array[i] = Slots(t)[i] /\ \A j \in 1..Capacity[a + 1] : j # i => array[j] = new[j]
    BY <1>2, <1>7, <1>10 DEF ArraysOfSize
  <2> HIDE DEF array
  <2> QED
    BY <1>5, <1>6, <1>7, <1>10, <2>1 DEF FilledTo
<1>12. Len(Slots(t)) = Capacity[a]
  BY <1>5 DEF ArraysOfSize
<1> HIDE DEF array
<1>13. /\ newChildren' \in [Threads -> Arrays] /\ newChildren'[t] = array
       /\ \A u \in Threads \ {t} : newChildren'[u] = newChildren[u]
  <2>1. array \in Arrays
    BY <1>4, <1>11, ArrayProperties
  <2> QED
    BY <1>2, <1>9, <2>1 DEF TypeOK
<1>14. /\ pc' \in [Threads -> ThreadPcs] /\ \A u \in Threads \ {t} : pc'[u] = pc[u]
       /\ pc'[t] = IF i = Capacity[a] THEN "publish" ELSE "copy"
  <2>1. CASE i = Capacity[a]
    BY <1>2, <1>9, <1>12, <2>1, GoToProperties DEF ThreadPcs
  <2>2. CASE i # Capacity[a]
    BY <1>1, <1>2, <1>9, <1>12, <2>2 DEF TypeOK
  <2> QED
    BY <2>1, <2>2
<1>15. TypeOK'
  BY <1>2, <1>8, <1>13, <1>14 DEF TypeOK, nodeVars, searchVars
<1>16. NodeInv' /\ Forward
  <2>1. \A m \in Nodes : visits'[m] >= visits[m] /\ (nnOutput[m] => nnOutput'[m])
    BY <1>2, <1>8 DEF TypeOK, nodeVars
  <2> QED
    BY <1>2, <1>8, <1>15, <2>1, QuietNodes DEF nodeVars
<1>17. Top(t)' = Top(t) /\ Node(t)' = n /\ state' = state /\ children' = children
  BY <1>8 DEF Top, Node, nodeVars, n
<1>18. PathInv(t)'
  BY <1>2, <1>8, <1>15, <1>16, SamePath
<1>19. LeafInv(t)'
  BY <1>14 DEF LeafInv
<1>20. ChoiceInv(t)'
  BY <1>2, <1>14, <1>17 DEF ChoiceInv, Reading, AtEnd, FilledTo
<1>21. CopyInv(t)'
  <2>1. i # Capacity[a] => i \in 0..(Capacity[a] - 1)
    BY <1>5, <1>7
  <2>2. ArrayOf(Top(t)'.st) = a
    BY <1>17 DEF a
  <2>3. newChildren'[t] = array
    BY <1>13
  <2> QED
    BY <1>11, <1>14, <2>1, <2>2, <2>3 DEF CopyInv, FilledTo
<1>22. HoldStep(t)
  BY <1>3, <1>14, <1>17 DEF HoldStep
<1> QED
  BY <1>8, <1>13, <1>14, <1>15, <1>16, <1>18, <1>19, <1>20, <1>21, <1>22, StepInv
     DEF ThreadInv, OnlyMoves

(* The slot for the new child is the first of the new array that is empty.                                                 *)
LEMMA PublishChildrenInv == ASSUME Inv, NEW t \in Threads, PublishChildren(t) PROVE Inv' /\ Forward
<1> DEFINE n     == Node(t)
           s     == Top(t).st
           a     == ArrayOf(s)
           new   == newChildren[t]
           frame == [Top(t) EXCEPT !.st = s + 1]
<1>1. pc[t] = "publish"
  BY DEF PublishChildren, At
<1>2. /\ TypeOK /\ NodeInv /\ path[t] # <<>> /\ n \in Nodes /\ Top(t) \in Frames
      /\ n = Top(t).node /\ AtEnd(Top(t)) /\ Top(t).move \in Moves(n)
      /\ new \in ArraysOfSize(a + 1) /\ FilledTo(new, Capacity[a])
  BY <1>1, InPlayout DEF ThreadInv, ChoiceInv, CopyInv
<1>3. /\ s \in {GROWING1, GROWING2} /\ state[n] = s
      /\ \A u \in Threads \ {t} : Holds(u) => Node(u) # n
  BY <1>1 DEF Inv, HoldInv, Holds
<1>4. /\ a \in 0..1 /\ a + 1 \in 0..2 /\ s = 2 * (a + 1) + 1 /\ s \in {3, 5}
      /\ ArrayOf(s + 1) = a + 1 /\ s + 1 \in States
  BY <1>3, GrowingStates
<1>5. /\ frame \in Frames /\ frame.st = s + 1 /\ frame.node = n /\ frame.idx = Top(t).idx
      /\ frame.move = Top(t).move /\ Top(t).idx = Capacity[a] + 1
  BY <1>2, <1>4 DEF Frames, AtEnd
<1>6. /\ children' = [children EXCEPT ![n][a + 1] = new] /\ state' = [state EXCEPT ![n] = @ + 1]
      /\ SetTop(t, frame) /\ newChildren' = [newChildren EXCEPT ![t] = NoArray]
      /\ GoTo(t, "newChild")
      /\ UNCHANGED <<nnOutput, visits, dirtyCounter, virtualLosses, searchVars, finished,
                     completed, numPlayouts>>
  BY DEF PublishChildren
<1> HIDE DEF n, a, new, frame, s
<1>7. Capacity[a] \in Nat \ {0} /\ Capacity[a + 1] \in Nat /\ Capacity[a] < Capacity[a + 1]
  <2>1. a = 0 \/ a = 1
    BY <1>4
  <2> QED
    BY <2>1, SizeProperties
<1>8. nnOutput[n] /\ visits[n] >= 1
  <2>1. state[n] >= EXPANDED0
    BY <1>3, GrowingStates
  <2> QED
    BY <1>2, <2>1 DEF NodeInv
<1>9. /\ NodeInv' /\ Forward
      /\ children' \in [Nodes -> [0..2 -> Arrays]] /\ state' \in [Nodes -> States]
      /\ state'[n] = s + 1 /\ \A m \in Nodes \ {n} : state'[m] = state[m]
  <2> DEFINE b == a + 1
  <2>1. b \in 0..2 /\ state[n] = 2 * b + 1 /\ s + 1 = 2 * b + 2 /\ Capacity[a] \in 0..Capacity[b]
    BY <1>3, <1>4, <1>7
  <2>2. new \in ArraysOfSize(b) /\ children' = [children EXCEPT ![n][b] = new]
    BY <1>2, <1>6
  <2>3. state' = [state EXCEPT ![n] = 2 * b + 2]
    BY <1>3, <1>6, <2>1
  <2> HIDE DEF b
  <2> QED
    BY <1>2, <1>6, <1>8, <2>1, <2>2, <2>3, PublishArray
<1>10. /\ pc' \in [Threads -> ThreadPcs] /\ pc'[t] = "newChild"
       /\ \A u \in Threads \ {t} : pc'[u] = pc[u]
  BY <1>2, <1>6, GoToProperties DEF ThreadPcs
<1>11. /\ newChildren' \in [Threads -> Arrays]
       /\ \A u \in Threads \ {t} : newChildren'[u] = newChildren[u]
  BY <1>2, <1>6 DEF TypeOK, Arrays
<1>12. path' \in [Threads -> Seq(Frames)]
  BY <1>2, <1>5, <1>6, SetTopProperties
<1>13. TypeOK'
  BY <1>2, <1>6, <1>9, <1>10, <1>11, <1>12 DEF TypeOK, searchVars
<1>14. /\ Top(t)' = frame /\ Node(t)' = n /\ PathInv(t)'
       /\ \A u \in Threads \ {t} : path'[u] = path[u]
  BY <1>2, <1>5, <1>6, <1>9, <1>13, SetTopStep
<1>15. LeafInv(t)' /\ CopyInv(t)'
  BY <1>10 DEF LeafInv, CopyInv
<1>16. ChoiceInv(t)'
  <2>1. frame.st \in EXPANDED0..state'[frame.node]
    BY <1>4, <1>5, <1>9, GrowingStates
  <2>2. frame.idx \in 1..Capacity[ArrayOf(frame.st)]
    BY <1>4, <1>5, <1>7
  <2>3. Slots(t)' = new
    <3>1. children'[n][a + 1] = new
      <4>1. children \in [Nodes -> [0..2 -> Arrays]] /\ DOMAIN children[n] = 0..2
        BY <1>2 DEF TypeOK
      <4> QED
        BY <1>2, <1>4, <1>6, <4>1
    <3> QED
      BY <1>4, <1>5, <1>14, <3>1 DEF Slots
  <2>4. \A j \in 1..(frame.idx - 1) : new[j].child # None
    <3>1. DOMAIN new = 1..Capacity[a + 1]
      BY <1>2, <1>4, ArrayProperties
    <3> QED
      BY <1>2, <1>5, <1>7, <3>1 DEF FilledTo
  <2> QED
    BY <1>2, <1>5, <1>10, <1>14, <2>1, <2>2, <2>3, <2>4 DEF ChoiceInv, InArray, Reading
<1>17. HoldStep(t)
  <2>1. \A u \in Threads \ {t} : Holds(u) => state'[Node(u)] = state[Node(u)]
    <3> TAKE u \in Threads \ {t}
    <3> HAVE Holds(u)
    <3>1. Node(u) \in Nodes
      BY InPlayout DEF Holds
    <3> QED
      BY <1>3, <1>9, <3>1
  <2> QED
    BY <1>10, <2>1 DEF HoldStep, Holds
<1> QED
  BY <1>6, <1>9, <1>10, <1>11, <1>13, <1>14, <1>15, <1>16, <1>17, StepInv DEF ThreadInv, OnlyMoves

-------------------------------------------------------------------------------
(* The invariant holds in the beginning.                                                     *)
LEMMA InitInv == Init => Inv
<1> SUFFICES ASSUME Init PROVE Inv
  OBVIOUS
<1>1. NoArray \in Arrays /\ UNEVALUATED \in States /\ UNEVALUATED = 0
  BY DEF Arrays, States, UNEVALUATED, EXPANDED2
<1>2. TypeOK
  <2>1. children \in [Nodes -> [0..2 -> Arrays]]
    BY <1>1 DEF Init
  <2>2. path \in [Threads -> Seq(Frames)]
    <3>1. <<>> \in Seq(Frames)
      OBVIOUS
    <3> QED
      BY <3>1 DEF Init
  <2>3. newChildren \in [Threads -> Arrays]
    BY <1>1 DEF Init
  <2>4. pc \in [Threads -> ThreadPcs]
    BY DEF Init, ThreadPcs
  <2>5. state \in [Nodes -> States] /\ visits \in [Nodes -> Nat]
    BY <1>1 DEF Init
  <2>6. dirtyCounter \in [Nodes -> Int] /\ virtualLosses \in [Nodes -> Int]
    BY DEF Init
  <2>7. nnOutput \in [Nodes -> BOOLEAN] /\ finished \in [Threads -> BOOLEAN]
    BY DEF Init
  <2>8. completed \in [Threads -> Int] /\ numPlayouts \in [Threads -> Nat]
    BY DEF Init
  <2>9. numPlayoutsShared \in Nat /\ numNonPlayoutVisits \in Nat /\ shouldStopNow \in BOOLEAN
    BY DEF Init
  <2> QED
    BY <2>1, <2>2, <2>3, <2>4, <2>5, <2>6, <2>7, <2>8, <2>9 DEF TypeOK
<1>3. NodeInv
  <2>1. \A n \in Nodes : state[n] = 0
    BY <1>1 DEF Init
  <2>2. \A n \in Nodes, a \in 0..2 : children[n][a] = NoArray
    BY DEF Init
  <2> QED
    BY <2>1, <2>2 DEF NodeInv, EXPANDED0
<1>4. \A t \in Threads : ThreadInv(t)
  <2> TAKE t \in Threads
  <2>1. pc[t] = "idle" /\ path[t] = <<>>
    BY DEF Init
  <2>2. 1..(Len(path[t]) - 1) = {}
    BY <2>1
  <2> QED
    BY <2>1, <2>2 DEF ThreadInv, PathInv, LeafInv, ChoiceInv, CopyInv
<1>5. HoldInv
  BY DEF Init, HoldInv, Holds
<1> QED
  BY <1>2, <1>3, <1>4, <1>5 DEF Inv

(* Every step keeps the invariant.                                                           *)
LEMMA NextInv == Inv /\ Next => Inv' /\ Forward
<1> SUFFICES ASSUME Inv, Next PROVE Inv' /\ Forward
  OBVIOUS
<1>1. CASE BeginSearch
  BY <1>1, BeginSearchInv
<1>2. CASE RequestStop
  BY <1>2, RequestStopInv
<1>3. CASE EndSearch
  BY <1>3, EndSearchInv
<1>4. ASSUME NEW t \in Threads, Thread(t) PROVE Inv' /\ Forward
  <2>1. CASE BeginTask(t) \/ StopSearching(t) \/ BeginPlayout(t) \/ EndPlayout(t)
    BY <2>1, BeginTaskInv, StopSearchingInv, BeginPlayoutInv, EndPlayoutInv
  <2>2. CASE Leaf(t)
    BY <2>2, VisitTerminalInv, VisitInv, EvaluateInv, AddLeafValueInv, ClaimNodeInv, ExpandNodeInv
       DEF Leaf
  <2>3. CASE Choose(t)
    <3>1. CASE SelectExisting(t) \/ SelectNew(t) \/ SelectNone(t) \/ ClaimGrowth(t)
      BY <3>1, SelectExistingInv, SelectNewInv, SelectNoneInv, ClaimGrowthInv
    <3>2. CASE ReloadState(t) \/ CopyChild(t) \/ PublishChildren(t) \/ InsertChild(t)
      BY <3>2, ReloadStateInv, CopyChildInv, PublishChildrenInv, InsertChildInv
    <3> QED
      BY <2>3, <3>1, <3>2 DEF Choose
  <2>4. CASE ComeBack(t)
    <3>1. CASE CatchUp(t) \/ Descend(t) \/ ReloadForEdge(t) \/ CountEdgeVisit(t)
      BY <3>1, CatchUpInv, DescendInv, ReloadForEdgeInv, CountEdgeVisitInv
    <3>2. CASE MarkDirty(t) \/ RecomputeNodeStats(t) \/ UndoDirty(t) \/ Return(t)
      BY <3>2, MarkDirtyInv, RecomputeNodeStatsInv, UndoDirtyInv, ReturnInv
    <3> QED
      BY <2>4, <3>1, <3>2 DEF ComeBack
  <2> QED
    BY <1>4, <2>1, <2>2, <2>3, <2>4 DEF Thread
<1> QED
  BY <1>1, <1>2, <1>3, <1>4 DEF Next

(* The invariant is about the variables alone.                                               *)
LEMMA StutterInv == Inv /\ UNCHANGED vars => Inv'
<1> SUFFICES ASSUME Inv, UNCHANGED vars PROVE Inv'
  OBVIOUS
<1>1. TypeOK'
  BY DEF Inv, TypeOK, vars, nodeVars, searchVars, threadVars
<1> QED
  BY <1>1, AllMove DEF vars, nodeVars, threadVars

(* The invariant holds in every state of every behaviour.                                    *)
LEMMA SpecInv == Spec => []Inv
<1>1. Inv /\ [Next]_vars => Inv'
  BY NextInv, StutterInv
<1> QED
  BY InitInv, <1>1, PTL DEF Spec

(* Every variable keeps to its type, whatever the threads do: no call counts at an edge, or     *)
(* fills a slot, that its array does not have (search.cpp, searchnode.cpp).                      *)
THEOREM TypeCorrect == Spec => []TypeOK
<1>1. Inv => TypeOK
  BY DEF Inv
<1> QED
  BY SpecInv, <1>1, PTL

(* A node that can be descended through has its output, its own visit, and every array up to     *)
(* the one that its state names, each full before the next is made (SearchNode::state).            *)
THEOREM NodesAreReady == Spec => []ExpandedIsReady
<1>1. Inv => ExpandedIsReady
  <2> SUFFICES ASSUME Inv, NEW n \in Nodes
               PROVE  /\ state[n] >= EXPANDED0 => nnOutput[n] /\ visits[n] >= 1
                      /\ \A a \in 0..2 : children[n][a] # NoArray <=> state[n] >= 2 * a + 2
                      /\ \A a \in 0..1 : state[n] > 2 * a + 2 => NumFound(children[n][a]) = Capacity[a]
    BY DEF ExpandedIsReady
  <2>1. NodeInv /\ state[n] \in Int
    BY StateType DEF Inv
  <2>2. state[n] >= EXPANDED0 => nnOutput[n] /\ visits[n] >= 1
    BY <2>1 DEF NodeInv
  <2>3. ASSUME NEW a \in 0..2 PROVE children[n][a] # NoArray <=> state[n] >= 2 * a + 2
    <3>1. CASE state[n] < 2 * a + 2
      <4>1. children[n][a] = NoArray /\ ~(state[n] >= 2 * a + 2)
        BY <2>1, <3>1 DEF NodeInv
      <4> QED
        BY <4>1
    <3>2. CASE state[n] >= 2 * a + 2
      <4>1. children[n][a] \in ArraysOfSize(a)
        BY <2>1, <3>2 DEF NodeInv
      <4> QED
        BY <3>2, <4>1, ArrayProperties
    <3> QED
      BY <2>1, <3>1, <3>2
  <2>4. ASSUME NEW a \in 0..1, state[n] > 2 * a + 2 PROVE NumFound(children[n][a]) = Capacity[a]
    <3>1. a \in 0..2 /\ state[n] >= 2 * a + 2 /\ Capacity[a] \in 0..Capacity[a]
      BY <2>1, <2>4, SizeProperties
    <3>2. children[n][a] \in ArraysOfSize(a) /\ FilledTo(children[n][a], Capacity[a])
      BY <2>1, <2>4, <3>1 DEF NodeInv
    <3> QED
      BY <3>1, <3>2, NumFoundProperties
  <2> QED
    BY <2>2, <2>3, <2>4
<1> QED
  BY SpecInv, <1>1, PTL

(* The state of a node never goes back and a child, once it is there, stays in its slot with      *)
(* all the visits of its edge; so what a thread has read stays right when it acts on it.           *)
THEOREM StatesOnlyMoveForward == Spec => OnlyForward
<1> DEFINE Step ==
      \A n \in Nodes :
        /\ state'[n] >= state[n]
        /\ \A a \in 0..2, i \in 1..Capacity[2] :
             i \in DOMAIN children[n][a] /\ children[n][a][i].child # None =>
               /\ children'[n][a][i].child = children[n][a][i].child
               /\ children'[n][a][i].edgeVisits >= children[n][a][i].edgeVisits
<1>1. Inv /\ Next => Step
  BY NextInv DEF Forward
<1> HIDE DEF Step
<1>2. Inv /\ [Next]_vars => [Step]_vars
  BY <1>1
<1>3. Spec => [][Step]_vars
  BY SpecInv, <1>2, PTL DEF Spec
<1> QED
  BY <1>3 DEF OnlyForward, Step

-------------------------------------------------------------------------------
(* A step of one thread leaves the others where they are.                                   *)
LEMMA ThreadMoves == ASSUME TypeOK, NEW t \in Threads, Thread(t) PROVE OnlyMoves(t)
<1>1. /\ pc \in [Threads -> ThreadPcs] /\ path \in [Threads -> Seq(Frames)]
      /\ completed \in [Threads -> Int] /\ newChildren \in [Threads -> Arrays]
  BY DEF TypeOK
<1>2. CASE BeginTask(t) \/ StopSearching(t) \/ BeginPlayout(t) \/ EndPlayout(t)
  BY <1>1, <1>2 DEF BeginTask, StopSearching, BeginPlayout, EndPlayout, GoTo, OnlyMoves
<1>3. CASE Leaf(t)
  BY <1>1, <1>3 DEF Leaf, VisitTerminal, Visit, Evaluate, AddLeafValue, ClaimNode, ExpandNode,
                    GoTo, ReturnWith, SetTop, OnlyMoves
<1>4. CASE SelectExisting(t) \/ SelectNew(t) \/ SelectNone(t) \/ ClaimGrowth(t)
  BY <1>1, <1>4 DEF SelectExisting, SelectNew, SelectNone, ClaimGrowth,
                    GoTo, ReturnWith, SetTop, OnlyMoves
<1>5. CASE ReloadState(t) \/ CopyChild(t) \/ PublishChildren(t) \/ InsertChild(t)
  BY <1>1, <1>5 DEF ReloadState, CopyChild, PublishChildren, InsertChild,
                    GoTo, ReturnWith, SetTop, OnlyMoves
<1>6. CASE ComeBack(t)
  BY <1>1, <1>6 DEF ComeBack, CatchUp, Descend, ReloadForEdge, CountEdgeVisit, MarkDirty,
                    RecomputeNodeStats, UndoDirty, Return, GoTo, ReturnWith, SetTop, OnlyMoves
<1> QED
  BY <1>2, <1>3, <1>4, <1>5, <1>6 DEF Thread, Choose

(* The calls of a thread stay, on the same nodes and, but for what it chooses, holding the    *)
(* same children.                                                                             *)
SameCalls(t) ==
  /\ path[t] # <<>> /\ path'[t] # <<>> /\ Len(path'[t]) = Len(path[t])
  /\ \A k \in 1..Len(path[t]) : path'[t][k].node = path[t][k].node
SameChildren(t, last) ==
  \A k \in 1..Len(path[t]) : k <= last => path'[t][k].child = path[t][k].child

(* Where a step replaces the last call by one on the same node.                              *)
LEMMA TopChange ==
  ASSUME TypeOK, TypeOK', NEW t \in Threads, path[t] # <<>>, NEW frame, SetTop(t, frame),
         frame.node = Node(t)
  PROVE  /\ SameCalls(t) /\ SameChildren(t, Len(path[t]) - 1)
         /\ Node(t)' = Node(t) /\ Top(t)' = frame
<1>1. /\ path[t] \in Seq(Frames) /\ path'[t] \in Seq(Frames) /\ Len(path[t]) \in Nat \ {0}
  BY TopFrame DEF TypeOK
<1>2. path'[t] = [path[t] EXCEPT ![Len(path[t])] = frame]
  BY DEF SetTop, TypeOK
<1>3. Len(path'[t]) = Len(path[t])
  <2>1. Len(path'[t]) \in Nat /\ DOMAIN path'[t] = 1..Len(path'[t]) /\ DOMAIN path[t] = 1..Len(path[t])
    BY <1>1
  <2>2. 1..Len(path'[t]) = 1..Len(path[t])
    BY <1>2, <2>1
  <2> QED
    BY <1>1, <2>1, <2>2
<1>4. \A k \in 1..Len(path[t]) : path'[t][k] = IF k = Len(path[t]) THEN frame ELSE path[t][k]
  BY <1>1, <1>2
<1>5. path'[t] # <<>>
  BY <1>1, <1>3
<1>6. Top(t)' = frame /\ Node(t)' = Node(t)
  BY <1>1, <1>3, <1>4 DEF Top, Node
<1>7. Node(t) = path[t][Len(path[t])].node
  BY DEF Node, Top
<1>8. SameCalls(t)
  BY <1>3, <1>4, <1>5, <1>7 DEF SameCalls
<1>9. SameChildren(t, Len(path[t]) - 1)
  BY <1>1, <1>4 DEF SameChildren
<1> QED
  BY <1>6, <1>8, <1>9

(* What most steps of a playout do to its calls: nothing, or they change what the call has read. *)
Stays(t) ==
  \/ Leaf(t) \/ SelectNew(t) \/ SelectNone(t) \/ ClaimGrowth(t) \/ ReloadState(t) \/ CopyChild(t)
  \/ PublishChildren(t) \/ CatchUp(t) \/ ReloadForEdge(t) \/ CountEdgeVisit(t) \/ MarkDirty(t)
  \/ RecomputeNodeStats(t) \/ UndoDirty(t)
  \/ InsertChild(t) /\ UNCHANGED path

(* The steps that leave the calls are those of a playout that is under way.                  *)
LEMMA StaysInPlayout ==
  ASSUME NEW t \in Threads, Stays(t) \/ InsertChild(t) \/ SelectExisting(t)
  PROVE  pc[t] \notin {"idle", "start", "loop", "ended"}
BY DEF Stays, Leaf, VisitTerminal, Visit, Evaluate, AddLeafValue, ClaimNode, ExpandNode, SelectNew,
       SelectNone, ClaimGrowth, ReloadState, CopyChild, PublishChildren, CatchUp, ReloadForEdge,
       CountEdgeVisit, MarkDirty, RecomputeNodeStats, UndoDirty, InsertChild, SelectExisting, At

(* They keep every call, its node and the child that it holds.                               *)
LEMMA StayingCalls ==
  ASSUME Inv, TypeOK', NEW t \in Threads, Stays(t)
  PROVE  /\ SameCalls(t) /\ SameChildren(t, Len(path[t]))
         /\ Node(t)' = Node(t) /\ Node(t) \in Nodes /\ Top(t)'.child = Top(t).child
<1>1. /\ TypeOK /\ path[t] # <<>> /\ Top(t) \in Frames /\ Node(t) \in Nodes /\ Node(t) = Top(t).node
  BY StaysInPlayout, InPlayout
<1>2. CASE UNCHANGED path
  BY <1>1, <1>2 DEF SameCalls, SameChildren, Node, Top
<1>3. ASSUME NEW frame, SetTop(t, frame), frame.node = Top(t).node, frame.child = Top(t).child
      PROVE  /\ SameCalls(t) /\ SameChildren(t, Len(path[t]))
             /\ Node(t)' = Node(t) /\ Top(t)'.child = Top(t).child
  <2>1. /\ SameCalls(t) /\ SameChildren(t, Len(path[t]) - 1)
        /\ Node(t)' = Node(t) /\ Top(t)' = frame
    BY <1>1, <1>3, TopChange
  <2>2. Len(path[t]) \in Nat \ {0}
    BY <1>1, TopFrame
  <2>3. \A k \in 1..Len(path[t]) : k = Len(path[t]) => path'[t][k].child = path[t][k].child
    BY <1>3, <2>1 DEF Top, SameCalls
  <2>4. SameChildren(t, Len(path[t]))
    BY <2>1, <2>2, <2>3 DEF SameChildren
  <2> QED
    BY <1>3, <2>1, <2>4
<1>4. \/ UNCHANGED path
      \/ \E frame : SetTop(t, frame) /\ frame.node = Top(t).node /\ frame.child = Top(t).child
  <2> DEFINE top == Top(t)
             Changed == \E frame : SetTop(t, frame) /\ frame.node = top.node /\ frame.child = top.child
  <2>1. top \in [node: Nodes, st: States, idx: Nat, move: AllMoves \cup {None}, child: Nodes \cup {None}]
    BY <1>1 DEF Frames
  <2>2. \A s, i, m :
          /\ [top EXCEPT !.st = s].node = top.node /\ [top EXCEPT !.st = s].child = top.child
          /\ [top EXCEPT !.idx = i, !.move = m].node = top.node
          /\ [top EXCEPT !.idx = i, !.move = m].child = top.child
          /\ [top EXCEPT !.st = s, !.idx = i, !.move = m].node = top.node
          /\ [top EXCEPT !.st = s, !.idx = i, !.move = m].child = top.child
    BY <2>1
  <2> HIDE DEF top
  <2>3. CASE Visit(t)
    BY <2>2, <2>3 DEF Visit, top
  <2>4. CASE SelectNew(t)
    <3>1. PICK i, m : SetTop(t, [top EXCEPT !.idx = i, !.move = m])
      BY <2>4 DEF SelectNew, top
    <3> DEFINE frame == [top EXCEPT !.idx = i, !.move = m]
    <3>2. SetTop(t, frame) /\ frame.node = top.node /\ frame.child = top.child
      BY <2>2, <3>1
    <3> HIDE DEF frame
    <3> QED
      BY <3>2 DEF top
  <2>5. CASE ClaimGrowth(t)
    BY <2>2, <2>5 DEF ClaimGrowth, top
  <2>6. CASE ReloadState(t)
    <3> DEFINE frame == [top EXCEPT !.st = state[Node(t)], !.idx = 0, !.move = None]
    <3>1. SetTop(t, frame)
      BY <2>6 DEF ReloadState, top
    <3>2. frame.node = top.node /\ frame.child = top.child
      BY <2>2
    <3> HIDE DEF frame
    <3> QED
      BY <3>1, <3>2 DEF top
  <2>7. CASE PublishChildren(t)
    BY <2>2, <2>7 DEF PublishChildren, top
  <2>8. CASE ReloadForEdge(t)
    BY <2>2, <2>8 DEF ReloadForEdge, top
  <2> QED
    BY <2>3, <2>4, <2>5, <2>6, <2>7, <2>8
       DEF Stays, Leaf, VisitTerminal, Evaluate, AddLeafValue, ClaimNode, ExpandNode, SelectNone,
           CopyChild, CatchUp, CountEdgeVisit, MarkDirty, RecomputeNodeStats, UndoDirty, top
<1> QED
  BY <1>1, <1>2, <1>3, <1>4

(* A child is one move below its parent, in every array and in every copy of one.            *)
Below(n, m) == Plies[m] = Plies[n] + 1
AllBelow(n, array) == \A i \in DOMAIN array : array[i].child # None => Below(n, array[i].child)
ChildrenBelow ==
  /\ \A n \in Nodes, a \in 0..2 : AllBelow(n, children[n][a])
  /\ \A t \in Threads : pc[t] \in {"copy", "publish"} => AllBelow(Node(t), newChildren[t])

(* The calls of a thread are on positions further and further from the root; a call holds no  *)
(* child before it has chosen one.                                                             *)
NoChildYet == {"visit", "evaluate", "leaf", "claim", "expand", "select", "grow", "reload",
               "copy", "publish", "newChild"}
CallsInv(t) ==
  /\ pc[t] \in {"idle", "start", "loop", "ended"} => path[t] = <<>>
  /\ path[t] # <<>> => path[t][1].node = Root
  /\ \A k \in 1..Len(path[t]) :
       /\ Plies[path[t][k].node] = Plies[Root] + k - 1
       /\ path[t][k].child # None => Plies[path[t][k].child] = Plies[Root] + k
  /\ pc[t] \in NoChildYet => Top(t).child = None

ShapeInv == ChildrenBelow /\ \A t \in Threads : CallsInv(t)

(* A thread takes a child: it descends to c, or gives up, with one more virtual loss on it.     *)
Takes(t, c) ==
  /\ c \in Nodes /\ Below(Node(t), c)
  /\ SameCalls(t) /\ SameChildren(t, Len(path[t]) - 1) /\ Top(t)'.child = c
  /\ virtualLosses' = [virtualLosses EXCEPT ![c] = @ + 1]
  /\ pc[t] \in {"select", "newChild"} /\ pc'[t] = "catchUp"

(* A thread that selects a child it has found takes a virtual loss on it.                    *)
LEMMA SelectTakes ==
  ASSUME Inv, TypeOK', ChildrenBelow, NEW t \in Threads, SelectExisting(t)
  PROVE  \E c : Takes(t, c)
<1>1. pc[t] = "select"
  BY DEF SelectExisting, At
<1>2. /\ TypeOK /\ NodeInv /\ path[t] # <<>> /\ Node(t) \in Nodes /\ Top(t) \in Frames
      /\ Node(t) = Top(t).node /\ Reading(Top(t))
  BY <1>1, InPlayout DEF ThreadInv, ChoiceInv
<1> DEFINE a == ArrayOf(Top(t).st)
<1>3. /\ a \in 0..2 /\ Capacity[a] \in Nat /\ Slots(t) \in ArraysOfSize(a)
      /\ DOMAIN Slots(t) = 1..Capacity[a]
      /\ NumFound(Slots(t)) \in 0..Capacity[a] /\ FilledTo(Slots(t), NumFound(Slots(t)))
      /\ Slots(t) = children[Node(t)][a]
  BY <1>2, ReadArray DEF Slots
<1>4. PICK i \in 1..NumFound(Slots(t)) :
        /\ SetTop(t, [Top(t) EXCEPT !.idx = i, !.move = Slots(t)[i].move, !.child = Slots(t)[i].child])
        /\ virtualLosses' = [virtualLosses EXCEPT ![Slots(t)[i].child] = @ + 1]
  BY DEF SelectExisting
<1> DEFINE c     == Slots(t)[i].child
           frame == [Top(t) EXCEPT !.idx = i, !.move = Slots(t)[i].move, !.child = c]
<1> HIDE DEF a
<1>5. i \in DOMAIN Slots(t) /\ Slots(t)[i] \in Slot /\ c # None
  BY <1>3 DEF ArraysOfSize, FilledTo
<1>6. c \in Nodes
  BY <1>5 DEF Slot
<1>7. Below(Node(t), c)
  BY <1>2, <1>3, <1>5 DEF ChildrenBelow, AllBelow
<1>8. frame.node = Node(t) /\ frame.child = c
  BY <1>2 DEF Frames
<1>9. SetTop(t, frame) /\ virtualLosses' = [virtualLosses EXCEPT ![c] = @ + 1]
  BY <1>4
<1> HIDE DEF frame, c
<1>10. SameCalls(t) /\ SameChildren(t, Len(path[t]) - 1) /\ Top(t)'.child = c
  BY <1>2, <1>8, <1>9, TopChange
<1>11. pc'[t] = "catchUp"
  BY <1>2, GoToProperties DEF SelectExisting, ThreadPcs
<1> QED
  BY <1>1, <1>6, <1>7, <1>9, <1>10, <1>11 DEF Takes

(* Of two threads that have a new child for the same slot only the first takes it.              *)
LEMMA InsertTakes ==
  ASSUME Inv, TypeOK', NEW t \in Threads, InsertChild(t)
  PROVE  \/ /\ \E c : Takes(t, c)
            /\ Top(t).idx \in DOMAIN children[Node(t)][ArrayOf(Top(t).st)]
            /\ children' = [children EXCEPT ![Node(t)][ArrayOf(Top(t).st)][Top(t).idx] =
                              [@ EXCEPT !.child = ChildNode(t), !.move = Top(t).move]]
            /\ Below(Node(t), ChildNode(t))
         \/ UNCHANGED <<path, virtualLosses, children>> /\ pc'[t] = "return"
<1>1. pc[t] = "newChild"
  BY DEF InsertChild, At
<1>2. /\ TypeOK /\ NodeInv /\ path[t] # <<>> /\ Node(t) \in Nodes /\ Top(t) \in Frames
      /\ Node(t) = Top(t).node /\ InArray(Top(t)) /\ Reading(Top(t)) /\ Top(t).move \in Moves(Node(t))
  BY <1>1, InPlayout DEF ThreadInv, ChoiceInv, InArray
<1>3. CASE ReturnWith(t, FALSE) /\ UNCHANGED <<children, path, virtualLosses>>
  BY <1>2, <1>3, ReturnProperties
<1> DEFINE c     == ChildNode(t)
           frame == [Top(t) EXCEPT !.child = c]
<1>4. CASE /\ children' = [children EXCEPT ![Node(t)][ArrayOf(Top(t).st)][Top(t).idx] =
                             [@ EXCEPT !.child = c, !.move = Top(t).move]]
           /\ SetTop(t, frame)
           /\ virtualLosses' = [virtualLosses EXCEPT ![c] = @ + 1]
           /\ GoTo(t, "catchUp")
  <2>1. c \in Nodes /\ Below(Node(t), c)
    BY <1>2, GraphAssumption DEF ChildNode, GraphAssumption, Below
  <2>2. frame.node = Node(t) /\ frame.child = c
    BY <1>2 DEF Frames
  <2>3. Top(t).idx \in DOMAIN children[Node(t)][ArrayOf(Top(t).st)]
    BY <1>2, ReadArray DEF InArray
  <2> HIDE DEF frame, c
  <2>4. SameCalls(t) /\ SameChildren(t, Len(path[t]) - 1) /\ Top(t)'.child = c
    BY <1>2, <1>4, <2>2, TopChange
  <2>5. pc'[t] = "catchUp"
    BY <1>2, <1>4, GoToProperties DEF ThreadPcs
  <2>6. Takes(t, c)
    BY <1>1, <1>4, <2>1, <2>4, <2>5 DEF Takes
  <2> QED
    BY <1>4, <2>1, <2>3, <2>6 DEF c
<1> QED
  BY <1>3, <1>4 DEF InsertChild

(* A thread goes one call down, or comes back from one.                                          *)
Pushes(t) ==
  /\ pc[t] = "catchUp" /\ pc'[t] = "visit"
  /\ path[t] # <<>> /\ Top(t).child \in Nodes
  /\ path'[t] # <<>> /\ Len(path'[t]) = Len(path[t]) + 1
  /\ \A k \in 1..Len(path[t]) : path'[t][k] = path[t][k]
  /\ path'[t][Len(path[t]) + 1] = Frame(Top(t).child)

Pops(t) ==
  /\ pc[t] = "return" /\ pc'[t] = IF finished[t] THEN "edgeState" ELSE "return"
  /\ Len(path[t]) > 1 /\ path[t] # <<>>
  /\ path'[t] # <<>> /\ Len(path'[t]) = Len(path[t]) - 1
  /\ \A k \in 1..(Len(path[t]) - 1) : path'[t][k] = path[t][k]

(* A thread that goes down puts a call on the child that it holds.                           *)
LEMMA DescendPushes == ASSUME Inv, NEW t \in Threads, Descend(t) PROVE Pushes(t)
<1>1. pc[t] = "catchUp"
  BY DEF Descend, At
<1>2. TypeOK /\ path[t] # <<>> /\ Top(t).child \in Nodes
  BY <1>1, InPlayout DEF ThreadInv, ChoiceInv
<1> DEFINE frame == Frame(Top(t).child)
           q     == Append(path[t], frame)
<1>3. frame \in Frames
  BY <1>2 DEF Frame, Frames, States, UNEVALUATED, EXPANDED2
<1>4. path[t] \in Seq(Frames) /\ Len(path[t]) \in Nat
  BY <1>2 DEF TypeOK
<1> HIDE DEF frame
<1>5. /\ q # <<>> /\ Len(q) = Len(path[t]) + 1 /\ q[Len(path[t]) + 1] = frame
      /\ \A k \in 1..Len(path[t]) : q[k] = path[t][k]
  BY <1>3, <1>4, AppendProperties
<1>6. path' = [path EXCEPT ![t] = q] /\ GoTo(t, "visit") /\ "visit" \in ThreadPcs
  BY DEF Descend, ThreadPcs, frame
<1> HIDE DEF q
<1>7. path'[t] = q /\ pc'[t] = "visit"
  BY <1>2, <1>6, GoToProperties DEF TypeOK
<1> QED
  BY <1>1, <1>2, <1>5, <1>7 DEF Pushes, frame

(* A thread that comes back drops the call, and its virtual loss with it.                    *)
LEMMA ReturnPops == ASSUME Inv, NEW t \in Threads, Return(t) PROVE Pops(t)
<1>1. pc[t] = "return" /\ Len(path[t]) > 1
  BY DEF Return, At
<1>2. TypeOK /\ path[t] # <<>>
  BY <1>1, InPlayout
<1> DEFINE q     == SubSeq(path[t], 1, Len(path[t]) - 1)
           label == IF finished[t] THEN "edgeState" ELSE "return"
<1>3. /\ path[t] \in Seq(Frames) /\ Len(path[t]) \in Nat
      /\ \A k \in 1..Len(path[t]) : path[t][k] \in Frames
  BY <1>2, TopFrame DEF TypeOK
<1>4. /\ Len(q) = Len(path[t]) - 1 /\ q # <<>>
      /\ \A k \in 1..(Len(path[t]) - 1) : q[k] = path[t][k]
  <2>1. \A k \in 1..(Len(path[t]) - 1) : path[t][k] \in Frames
    BY <1>3
  <2>2. /\ q \in Seq(Frames) /\ Len(q) = Len(path[t]) - 1
        /\ \A k \in 1..(Len(path[t]) - 1) : q[k] = path[t][k]
    BY <1>1, <1>3, <2>1, SubSeqProperties
  <2>3. Len(q) # 0 /\ Len(<<>>) = 0
    BY <1>1, <1>3, <2>2
  <2> QED
    BY <2>2, <2>3
<1>5. path' = [path EXCEPT ![t] = q] /\ GoTo(t, label) /\ label \in ThreadPcs
  BY DEF Return, ThreadPcs
<1> HIDE DEF q
<1>6. path'[t] = q /\ pc'[t] = label
  BY <1>2, <1>5, GoToProperties DEF TypeOK
<1> QED
  BY <1>1, <1>2, <1>4, <1>6 DEF Pops

(* Where a thread stands after a step that leaves its calls.                                     *)
LEMMA StayingPc ==
  ASSUME TypeOK, NEW t \in Threads, Stays(t)
  PROVE  /\ pc'[t] \notin {"idle", "start", "loop", "ended"}
         /\ pc'[t] \in NoChildYet => pc[t] \in NoChildYet
<1>1. pc \in [Threads -> ThreadPcs]
  BY DEF TypeOK
<1>2. CASE Leaf(t)
  BY <1>1, <1>2 DEF Leaf, VisitTerminal, Visit, Evaluate, AddLeafValue, ClaimNode, ExpandNode,
                    GoTo, ReturnWith, At, NoChildYet
<1>3. CASE SelectNew(t) \/ SelectNone(t) \/ ClaimGrowth(t) \/ ReloadState(t)
  BY <1>1, <1>3 DEF SelectNew, SelectNone, ClaimGrowth, ReloadState, GoTo, ReturnWith, At, NoChildYet
<1>4. CASE CopyChild(t) \/ PublishChildren(t) \/ CatchUp(t) \/ ReloadForEdge(t)
  BY <1>1, <1>4 DEF CopyChild, PublishChildren, CatchUp, ReloadForEdge, GoTo, ReturnWith, At, NoChildYet
<1>5. CASE CountEdgeVisit(t) \/ MarkDirty(t) \/ RecomputeNodeStats(t) \/ UndoDirty(t)
  BY <1>1, <1>5 DEF CountEdgeVisit, MarkDirty, RecomputeNodeStats, UndoDirty, GoTo, ReturnWith, At,
                    NoChildYet
<1>6. CASE InsertChild(t) /\ UNCHANGED path
  BY <1>1, <1>6 DEF InsertChild, GoTo, ReturnWith, At, NoChildYet
<1> QED
  BY <1>2, <1>3, <1>4, <1>5, <1>6 DEF Stays

(* A step of one thread is of one of these kinds, as far as its calls go.                         *)
LEMMA StepKinds ==
  ASSUME Inv, TypeOK', ChildrenBelow, NEW t \in Threads, Thread(t)
  PROVE  \/ BeginTask(t) \/ StopSearching(t) \/ BeginPlayout(t) \/ EndPlayout(t)
         \/ Stays(t) /\ UNCHANGED virtualLosses
         \/ \E c : Takes(t, c)
         \/ Descend(t) /\ Pushes(t)
         \/ Return(t) /\ Pops(t)
<1>1. CASE BeginTask(t) \/ StopSearching(t) \/ BeginPlayout(t) \/ EndPlayout(t)
  BY <1>1
<1>2. CASE SelectExisting(t)
  BY <1>2, SelectTakes
<1>3. CASE InsertChild(t)
  BY <1>3, InsertTakes DEF Stays
<1>4. CASE Descend(t) \/ Return(t)
  BY <1>4, DescendPushes, ReturnPops
<1>5. CASE Leaf(t)
  BY <1>5 DEF Stays, Leaf, VisitTerminal, Visit, Evaluate, AddLeafValue, ClaimNode, ExpandNode, nodeVars
<1>6. CASE SelectNew(t) \/ SelectNone(t) \/ ClaimGrowth(t) \/ ReloadState(t) \/ CopyChild(t)
             \/ PublishChildren(t)
  BY <1>6 DEF Stays, SelectNew, SelectNone, ClaimGrowth, ReloadState, CopyChild, PublishChildren, nodeVars
<1>7. CASE CatchUp(t) \/ ReloadForEdge(t) \/ CountEdgeVisit(t) \/ MarkDirty(t)
             \/ RecomputeNodeStats(t) \/ UndoDirty(t)
  BY <1>7 DEF Stays, CatchUp, ReloadForEdge, CountEdgeVisit, MarkDirty, RecomputeNodeStats, UndoDirty,
              nodeVars
<1> QED
  BY <1>1, <1>2, <1>3, <1>4, <1>5, <1>6, <1>7 DEF Thread, Choose, ComeBack

(* The plies of a position are a number.                                                     *)
LEMMA PliesType == \A n \in Nodes : Plies[n] \in Nat
BY GraphAssumption DEF GraphAssumption

(* A step of a thread leaves its calls in shape.                                             *)
LEMMA CallsStep ==
  ASSUME Inv, TypeOK', ShapeInv, NEW t \in Threads, Thread(t)
  PROVE  CallsInv(t)'
<1>1. TypeOK /\ ChildrenBelow /\ CallsInv(t)
  BY DEF Inv, ShapeInv
<1>2. /\ path[t] \in Seq(Frames) /\ path'[t] \in Seq(Frames)
      /\ pc \in [Threads -> ThreadPcs] /\ path \in [Threads -> Seq(Frames)]
      /\ Plies[Root] \in Nat
  BY <1>1, GraphAssumption DEF TypeOK, GraphAssumption
<1>3. Len(path[t]) \in Nat /\ Len(path'[t]) \in Nat
  BY <1>2
<1>4. CASE BeginTask(t) \/ StopSearching(t)
  <2>1. UNCHANGED path /\ pc'[t] \in {"loop", "ended"} /\ pc[t] \in {"start", "loop"}
    BY <1>2, <1>4 DEF BeginTask, StopSearching, GoTo, At
  <2> QED
    BY <1>1, <2>1 DEF CallsInv, NoChildYet
<1>5. CASE BeginPlayout(t)
  <2>1. path'[t] = <<Frame(Root)>> /\ pc'[t] = "visit"
    BY <1>2, <1>5 DEF BeginPlayout, GoTo
  <2>2. Len(path'[t]) = 1 /\ path'[t][1] = Frame(Root)
    BY <2>1
  <2>3. Frame(Root).node = Root /\ Frame(Root).child = None
    BY DEF Frame
  <2>4. Top(t)'.child = None
    BY <2>2, <2>3 DEF Top
  <2> QED
    BY <1>2, <2>1, <2>2, <2>3, <2>4 DEF CallsInv
<1>6. CASE EndPlayout(t)
  <2>1. path'[t] = <<>> /\ pc'[t] = "loop"
    BY <1>2, <1>6 DEF EndPlayout, GoTo
  <2>2. 1..Len(path'[t]) = {}
    BY <2>1
  <2> QED
    BY <2>1, <2>2 DEF CallsInv, NoChildYet
<1>7. CASE Stays(t)
  <2>1. SameCalls(t) /\ SameChildren(t, Len(path[t])) /\ Top(t)'.child = Top(t).child
    BY <1>7, StayingCalls
  <2>2. /\ pc'[t] \notin {"idle", "start", "loop", "ended"}
        /\ pc'[t] \in NoChildYet => pc[t] \in NoChildYet
    BY <1>1, <1>7, StayingPc
  <2>3. 1 \in 1..Len(path[t])
    BY <1>3, <2>1, <1>1, TopFrame DEF SameCalls
  <2>4. \A k \in 1..Len(path[t]) :
          path'[t][k].node = path[t][k].node /\ path'[t][k].child = path[t][k].child
    BY <1>3, <2>1 DEF SameCalls, SameChildren
  <2> QED
    BY <1>1, <2>1, <2>2, <2>3, <2>4 DEF CallsInv, SameCalls
<1>8. ASSUME NEW c, Takes(t, c) PROVE CallsInv(t)'
  <2>1. /\ SameCalls(t) /\ SameChildren(t, Len(path[t]) - 1) /\ Top(t)'.child = c
        /\ Below(Node(t), c) /\ pc'[t] = "catchUp"
    BY <1>8 DEF Takes
  <2>2. 1 \in 1..Len(path[t]) /\ Len(path[t]) \in 1..Len(path[t])
    BY <1>3, <2>1, <1>1, TopFrame DEF SameCalls
  <2>3. path'[t][Len(path[t])].child = c /\ Node(t) = path[t][Len(path[t])].node
    BY <2>1 DEF SameCalls, Top, Node
  <2>4. Plies[c] = Plies[Root] + Len(path[t])
    BY <1>1, <1>2, <1>3, <2>1, <2>2, <2>3 DEF CallsInv, Below
  <2>5. ASSUME NEW k \in 1..Len(path[t])
        PROVE  /\ Plies[path'[t][k].node] = Plies[Root] + k - 1
               /\ path'[t][k].child # None => Plies[path'[t][k].child] = Plies[Root] + k
    <3>1. path'[t][k].node = path[t][k].node
      BY <2>1 DEF SameCalls
    <3>2. CASE k = Len(path[t])
      BY <1>1, <2>3, <2>4, <3>1, <3>2 DEF CallsInv
    <3>3. CASE k # Len(path[t])
      <4>1. path'[t][k].child = path[t][k].child
        BY <1>3, <2>1, <3>3 DEF SameChildren
      <4> QED
        BY <1>1, <3>1, <4>1 DEF CallsInv
    <3> QED
      BY <3>2, <3>3
  <2> QED
    BY <1>1, <2>1, <2>2, <2>5 DEF CallsInv, SameCalls, NoChildYet
<1>9. CASE Pushes(t)
  <2> DEFINE c == Top(t).child
             l == Len(path[t])
  <2>1. /\ path[t] # <<>> /\ path'[t] # <<>> /\ Len(path'[t]) = l + 1 /\ c \in Nodes
        /\ \A k \in 1..l : path'[t][k] = path[t][k]
        /\ path'[t][l + 1] = Frame(c) /\ pc'[t] = "visit"
    BY <1>9 DEF Pushes
  <2>2. l \in 1..l /\ 1 \in 1..l
    BY <1>3, <2>1, <1>1, TopFrame
  <2>3. c # None
    BY <2>1, GraphAssumption DEF GraphAssumption
  <2>4. Plies[c] = Plies[Root] + l
    BY <1>1, <2>2, <2>3 DEF CallsInv, Top
  <2>5. Frame(c).node = c /\ Frame(c).child = None
    BY DEF Frame
  <2>6. Top(t)'.child = None
    BY <2>1, <2>5 DEF Top
  <2> HIDE DEF c
  <2>7. ASSUME NEW k \in 1..(l + 1)
        PROVE  /\ Plies[path'[t][k].node] = Plies[Root] + k - 1
               /\ path'[t][k].child # None => Plies[path'[t][k].child] = Plies[Root] + k
    <3>1. CASE k = l + 1
      BY <1>2, <1>3, <2>1, <2>4, <2>5, <3>1
    <3>2. CASE k # l + 1
      <4>1. k \in 1..l
        BY <1>3, <3>2
      <4> QED
        BY <1>1, <2>1, <4>1 DEF CallsInv
    <3> QED
      BY <3>1, <3>2
  <2> QED
    BY <1>1, <2>1, <2>2, <2>6, <2>7 DEF CallsInv
<1>10. CASE Pops(t)
  <2>1. /\ path[t] # <<>> /\ path'[t] # <<>> /\ Len(path'[t]) = Len(path[t]) - 1 /\ Len(path[t]) > 1
        /\ \A k \in 1..(Len(path[t]) - 1) : path'[t][k] = path[t][k]
        /\ pc'[t] \in {"edgeState", "return"}
    BY <1>10 DEF Pops
  <2>2. 1 \in 1..(Len(path[t]) - 1) /\ \A k \in 1..(Len(path[t]) - 1) : k \in 1..Len(path[t])
    BY <1>3, <2>1
  <2> QED
    BY <1>1, <2>1, <2>2 DEF CallsInv, NoChildYet
<1> QED
  BY <1>1, <1>4, <1>5, <1>6, <1>7, <1>8, <1>9, <1>10, StepKinds

(* What a step does to the arrays of children.                                                     *)
LEMMA EdgeVisitKeepsChildren ==
  ASSUME Inv, NEW t \in Threads, CatchUp(t) \/ CountEdgeVisit(t), NEW n \in Nodes, NEW a \in 0..2
  PROVE  /\ DOMAIN children'[n][a] = DOMAIN children[n][a]
         /\ \A i \in DOMAIN children[n][a] : children'[n][a][i].child = children[n][a][i].child
<1>1. pc[t] \in {"catchUp", "edge"} /\ AddEdgeVisit(t)
  BY DEF CatchUp, CountEdgeVisit, At
<1>2. /\ TypeOK /\ NodeInv /\ path[t] # <<>> /\ Node(t) \in Nodes /\ Top(t) \in Frames
      /\ Node(t) = Top(t).node /\ InArray(Top(t)) /\ Reading(Top(t))
  BY <1>1, InPlayout DEF ThreadInv, ChoiceInv, InArray
<1> DEFINE m == Node(t)
           b == ArrayOf(Top(t).st)
           j == Top(t).idx
<1>3. /\ b \in 0..2 /\ Capacity[b] \in Nat \ {0} /\ children[m][b] \in ArraysOfSize(b)
      /\ DOMAIN children[m][b] = 1..Capacity[b] /\ j \in 1..Capacity[b] /\ m \in Nodes
  BY <1>2, ReadArray DEF InArray
<1>4. children' = [children EXCEPT ![m][b][j].edgeVisits = @ + 1]
  BY <1>1 DEF AddEdgeVisit
<1>5. children \in [Nodes -> [0..2 -> Arrays]] /\ children[m][b][j] \in Slot
  BY <1>2, <1>3, EdgeVisitsType DEF TypeOK
<1> HIDE DEF m, b, j
<1> DEFINE slot  == [children[m][b][j] EXCEPT !.edgeVisits = @ + 1]
           array == [children[m][b] EXCEPT ![j] = slot]
<1>6. slot.child = children[m][b][j].child
  BY <1>5 DEF Slot
<1>7. children' = [children EXCEPT ![m][b] = array]
  BY <1>4
<1> HIDE DEF slot
<1>8. /\ DOMAIN array = DOMAIN children[m][b]
      /\ \A i \in DOMAIN children[m][b] : array[i].child = children[m][b][i].child
  BY <1>3, <1>6
<1> HIDE DEF array
<1>9. children'[m][b] = array /\ (n # m \/ a # b => children'[n][a] = children[n][a])
  <2>1. DOMAIN children[m] = 0..2 /\ DOMAIN children = Nodes
    BY <1>3, <1>5
  <2> QED
    BY <1>3, <1>7, <2>1
<1> QED
  BY <1>8, <1>9

(* The slot that is copied next is one of both arrays.                                             *)
LEMMA CopiedSlot ==
  ASSUME Inv, NEW t \in Threads, CopyChild(t)
  PROVE  LET i == NumFound(newChildren[t]) + 1
         IN  i \in DOMAIN Slots(t) /\ i \in DOMAIN newChildren[t]
<1> DEFINE a   == ArrayOf(Top(t).st)
           new == newChildren[t]
<1>1. pc[t] = "copy"
  BY DEF CopyChild, At
<1>2. /\ TypeOK /\ NodeInv /\ path[t] # <<>> /\ Top(t) \in Frames /\ Node(t) = Top(t).node
      /\ Reading(Top(t)) /\ new \in ArraysOfSize(a + 1)
      /\ \E k \in 0..(Capacity[a] - 1) : FilledTo(new, k)
  BY <1>1, InPlayout DEF ThreadInv, ChoiceInv, CopyInv
<1>3. Top(t).st \in {GROWING1, GROWING2}
  BY <1>1 DEF Inv, HoldInv
<1>4. a \in 0..1
  BY <1>3, GrowingStates
<1>5. DOMAIN Slots(t) = 1..Capacity[a]
  BY <1>2, ReadArray DEF Slots
<1>6. PICK k \in 0..(Capacity[a] - 1) : FilledTo(new, k)
  BY <1>2
<1> HIDE DEF a, new
<1>7. a = 0 \/ a = 1
  BY <1>4
<1>8. /\ Capacity[a] \in Nat \ {0} /\ Capacity[a + 1] \in Nat /\ Capacity[a] < Capacity[a + 1]
      /\ a + 1 \in 0..2
  BY <1>7, SizeProperties
<1>9. NumFound(new) = k /\ DOMAIN new = 1..Capacity[a + 1]
  <2>1. k \in 0..Capacity[a + 1]
    BY <1>8
  <2> QED
    BY <1>2, <1>6, <1>8, <2>1, NumFoundProperties, ArrayProperties
<1> QED
  BY <1>5, <1>8, <1>9 DEF new

(* Most steps change no array, and do not copy one.                                               *)
LEMMA OtherSteps ==
  ASSUME TypeOK, NEW t \in Threads, Thread(t)
  PROVE  \/ ExpandNode(t) \/ PublishChildren(t) \/ InsertChild(t) \/ CatchUp(t) \/ CountEdgeVisit(t)
         \/ ClaimGrowth(t) \/ CopyChild(t)
         \/ UNCHANGED <<children, newChildren>> /\ pc'[t] \notin {"copy", "publish"}
<1>1. pc \in [Threads -> ThreadPcs]
  BY DEF TypeOK
<1>2. CASE BeginTask(t) \/ StopSearching(t) \/ BeginPlayout(t) \/ EndPlayout(t)
  BY <1>1, <1>2 DEF BeginTask, StopSearching, BeginPlayout, EndPlayout, GoTo, nodeVars
<1>3. CASE Leaf(t)
  BY <1>1, <1>3 DEF Leaf, VisitTerminal, Visit, Evaluate, AddLeafValue, ClaimNode, GoTo, ReturnWith,
                    nodeVars
<1>4. CASE SelectExisting(t) \/ SelectNew(t) \/ SelectNone(t) \/ ReloadState(t)
  BY <1>1, <1>4 DEF SelectExisting, SelectNew, SelectNone, ReloadState, GoTo, ReturnWith, nodeVars
<1>5. CASE ComeBack(t)
  BY <1>1, <1>5 DEF ComeBack, Descend, ReloadForEdge, MarkDirty, RecomputeNodeStats, UndoDirty, Return,
                    GoTo, ReturnWith, nodeVars
<1> QED
  BY <1>2, <1>3, <1>4, <1>5 DEF Thread, Choose

(* No step puts a child anywhere but below its parent.                                             *)
LEMMA ChildrenBelowStep ==
  ASSUME Inv, TypeOK', ChildrenBelow, NEW t \in Threads, Thread(t)
  PROVE  ChildrenBelow'
<1>1. /\ TypeOK /\ OnlyMoves(t)
      /\ \A n \in Nodes, a \in 0..2 : AllBelow(n, children[n][a])
      /\ \A u \in Threads : pc[u] \in {"copy", "publish"} => AllBelow(Node(u), newChildren[u])
  BY ThreadMoves DEF Inv, ChildrenBelow
<1>2. /\ pc \in [Threads -> ThreadPcs] /\ newChildren \in [Threads -> Arrays]
      /\ children \in [Nodes -> [0..2 -> Arrays]]
  BY <1>1 DEF TypeOK
<1>3. \A u \in Threads \ {t} : pc'[u] \in {"copy", "publish"} => AllBelow(Node(u)', newChildren'[u])
  BY <1>1 DEF OnlyMoves, Node, Top
<1> SUFFICES /\ \A n \in Nodes, a \in 0..2 : AllBelow(n, children'[n][a])
             /\ pc'[t] \in {"copy", "publish"} => AllBelow(Node(t)', newChildren'[t])
  BY <1>3 DEF ChildrenBelow
<1>4. \A n : AllBelow(n, NoArray) /\ \A a \in 0..2 : AllBelow(n, NewArray(a))
  BY DEF AllBelow, NoArray, NewArray, Empty
<1>5. CASE ExpandNode(t)
  <2>1. pc'[t] = "return" /\ children' = [children EXCEPT ![Node(t)][0] = NewArray(0)]
    BY <1>1, <1>5, ReturnProperties DEF ExpandNode
  <2>2. pc[t] = "expand"
    BY <1>5 DEF ExpandNode, At
  <2>3. Node(t) \in Nodes
    BY <2>2, InPlayout
  <2> DEFINE new == NewArray(0)
  <2>4. AllBelow(Node(t), new) /\ children' = [children EXCEPT ![Node(t)][0] = new]
    BY <1>4, <2>1
  <2> HIDE DEF new
  <2>5. \A n \in Nodes, a \in 0..2 :
          children'[n][a] = IF n = Node(t) /\ a = 0 THEN new ELSE children[n][a]
    BY <1>2, <2>3, <2>4
  <2> QED
    BY <1>1, <2>1, <2>4, <2>5
<1>6. CASE PublishChildren(t)
  <2> DEFINE a == ArrayOf(Top(t).st) + 1
  <2>1. pc[t] = "publish" /\ pc'[t] = "newChild"
    BY <1>1, <1>6, GoToProperties DEF PublishChildren, At, ThreadPcs
  <2>2. Node(t) \in Nodes /\ AllBelow(Node(t), newChildren[t])
    BY <1>1, <2>1, InPlayout
  <2>3. children' = [children EXCEPT ![Node(t)][a] = newChildren[t]]
    BY <1>6 DEF PublishChildren
  <2> HIDE DEF a
  <2>4. \A n \in Nodes, b \in 0..2 :
          children'[n][b] = IF n = Node(t) /\ b = a THEN newChildren[t] ELSE children[n][b]
    BY <1>2, <2>2, <2>3
  <2> QED
    BY <1>1, <2>1, <2>2, <2>4
<1>7. CASE InsertChild(t)
  <2>1. pc[t] = "newChild" /\ Node(t) \in Nodes
    BY <1>7, InPlayout DEF InsertChild, At
  <2>2. pc'[t] \in {"catchUp", "return"}
    BY <1>7, InsertTakes DEF Takes
  <2> DEFINE m == Node(t)
             b == ArrayOf(Top(t).st)
             j == Top(t).idx
             c == ChildNode(t)
  <2>3. CASE UNCHANGED children
    BY <1>1, <2>2, <2>3
  <2>4. CASE /\ children' = [children EXCEPT ![m][b][j] = [@ EXCEPT !.child = c, !.move = Top(t).move]]
             /\ Below(m, c) /\ j \in DOMAIN children[m][b]
    <3>1. b \in 0..2
      <4>1. TypeOK /\ NodeInv /\ Top(t) \in Frames /\ Reading(Top(t))
        BY <2>1, InPlayout DEF ThreadInv, ChoiceInv, InArray
      <4> QED
        BY <4>1, ReadArray
    <3>2. children[m][b][j] \in Slot
      BY <1>1, <2>1, <2>4, <3>1, EdgeVisitsType
    <3> m \in Nodes
      BY <2>1
    <3> HIDE DEF m, b, j, c
    <3> DEFINE slot  == [children[m][b][j] EXCEPT !.child = c, !.move = Top(t).move]
               array == [children[m][b] EXCEPT ![j] = slot]
    <3>3. slot.child = c
      BY <3>2 DEF Slot
    <3>4. children' = [children EXCEPT ![m][b] = array]
      BY <2>4
    <3> HIDE DEF slot
    <3>5. AllBelow(m, array)
      <4>1. AllBelow(m, children[m][b])
        BY <1>1, <3>1
      <4> QED
        BY <2>4, <3>3, <4>1 DEF AllBelow
    <3> HIDE DEF array
    <3>6. \A n \in Nodes, a \in 0..2 :
            children'[n][a] = IF n = m /\ a = b THEN array ELSE children[n][a]
      BY <1>2, <3>1, <3>4
    <3> QED
      BY <1>1, <2>2, <3>5, <3>6
  <2> QED
    BY <1>7, <2>3, <2>4, InsertTakes
<1>8. CASE CatchUp(t) \/ CountEdgeVisit(t)
  <2>1. pc'[t] = "stats"
    BY <1>1, <1>8, GoToProperties DEF CatchUp, CountEdgeVisit, ThreadPcs
  <2>2. ASSUME NEW n \in Nodes, NEW a \in 0..2 PROVE AllBelow(n, children'[n][a])
    BY <1>1, <1>8, EdgeVisitKeepsChildren DEF AllBelow
  <2> QED
    BY <2>1, <2>2
<1>9. CASE ClaimGrowth(t)
  <2>1. UNCHANGED children
    BY <1>9 DEF ClaimGrowth
  <2>2. CASE GoTo(t, "reload")
    BY <1>1, <2>1, <2>2, GoToProperties DEF ThreadPcs
  <2>3. CASE /\ Top(t).st \in {EXPANDED0, EXPANDED1}
             /\ newChildren' = [newChildren EXCEPT ![t] = NewArray(ArrayOf(Top(t).st) + 1)]
    <3>1. ArrayOf(Top(t).st) + 1 \in 0..2
      BY <2>3, GrowingStates
    <3>2. newChildren'[t] = NewArray(ArrayOf(Top(t).st) + 1)
      BY <1>2, <2>3
    <3> QED
      BY <1>1, <1>4, <2>1, <3>1, <3>2
  <2> QED
    BY <1>9, <2>2, <2>3 DEF ClaimGrowth
<1>10. CASE CopyChild(t)
  <2>1. pc[t] = "copy"
    BY <1>10 DEF CopyChild, At
  <2>2. /\ TypeOK /\ NodeInv /\ path[t] # <<>> /\ Node(t) \in Nodes /\ Top(t) \in Frames
        /\ Node(t) = Top(t).node /\ Reading(Top(t))
    BY <2>1, InPlayout DEF ThreadInv, ChoiceInv
  <2> DEFINE i == NumFound(newChildren[t]) + 1
  <2>3. newChildren' = [newChildren EXCEPT ![t][i] = Slots(t)[i]] /\ UNCHANGED <<children, path>>
    BY <1>10 DEF CopyChild, nodeVars
  <2>4. AllBelow(Node(t), newChildren[t]) /\ AllBelow(Node(t), Slots(t))
    <3>1. ArrayOf(Top(t).st) \in 0..2
      BY <2>2, ReadArray
    <3> QED
      BY <1>1, <2>1, <2>2, <3>1 DEF Slots
  <2>5. i \in DOMAIN Slots(t) /\ i \in DOMAIN newChildren[t]
    BY <1>10, CopiedSlot
  <2> HIDE DEF i
  <2>6. /\ DOMAIN newChildren'[t] = DOMAIN newChildren[t]
        /\ \A k \in DOMAIN newChildren[t] :
             newChildren'[t][k] = IF k = i THEN Slots(t)[i] ELSE newChildren[t][k]
    BY <1>2, <2>3
  <2>7. AllBelow(Node(t), newChildren'[t])
    BY <2>4, <2>5, <2>6 DEF AllBelow
  <2>8. Node(t)' = Node(t)
    BY <2>3 DEF Node, Top
  <2> QED
    BY <1>1, <2>3, <2>7, <2>8
<1>11. CASE /\ UNCHANGED children /\ pc'[t] \notin {"copy", "publish"}
  BY <1>1, <1>11
<1> QED
  BY <1>1, <1>5, <1>6, <1>7, <1>8, <1>9, <1>10, <1>11, OtherSteps

(* A search begins or ends, or is asked to stop.                                                   *)
Global == BeginSearch \/ RequestStop \/ EndSearch

(* A search begins, is stopped or ends while no playout is under way, or leaves the threads alone.*)
LEMMA GlobalStep ==
  ASSUME Global
  PROVE  /\ UNCHANGED <<state, nnOutput, children, visits, dirtyCounter, virtualLosses, path,
                        finished, completed, newChildren>>
         /\ \/ UNCHANGED pc
            \/ \A t \in Threads : pc[t] \in {"idle", "ended"} /\ pc'[t] \in {"idle", "start"}
<1>1. CASE BeginSearch
  BY <1>1 DEF BeginSearch, nodeVars, At
<1>2. CASE RequestStop
  BY <1>2 DEF RequestStop, nodeVars, threadVars
<1>3. CASE EndSearch
  BY <1>3 DEF EndSearch, nodeVars, At
<1> QED
  BY <1>1, <1>2, <1>3 DEF Global

(* Every step is one of the search or one of a thread.                                       *)
LEMMA NextKinds == Next => Global \/ \E t \in Threads : Thread(t)
BY DEF Next, Global

(* Every step leaves the calls in shape.                                                     *)
LEMMA ShapeStep == ASSUME Inv, TypeOK', ShapeInv, Next PROVE ShapeInv'
<1>1. CASE Global
  <2>1. /\ UNCHANGED <<state, children, path, newChildren>>
        /\ \/ UNCHANGED pc
           \/ \A t \in Threads : pc[t] \in {"idle", "ended"} /\ pc'[t] \in {"idle", "start"}
    BY <1>1, GlobalStep
  <2>2. ChildrenBelow'
    BY <2>1 DEF ShapeInv, ChildrenBelow, AllBelow, Node, Top
  <2>3. ASSUME NEW t \in Threads PROVE CallsInv(t)'
    <3>1. CallsInv(t)
      BY DEF ShapeInv
    <3> QED
      BY <2>1, <3>1 DEF CallsInv, Top, NoChildYet
  <2> QED
    BY <2>2, <2>3 DEF ShapeInv
<1>2. ASSUME NEW t \in Threads, Thread(t) PROVE ShapeInv'
  <2>1. OnlyMoves(t)
    BY <1>2, ThreadMoves DEF Inv
  <2>2. ChildrenBelow'
    BY <1>2, ChildrenBelowStep DEF ShapeInv
  <2>3. ASSUME NEW u \in Threads PROVE CallsInv(u)'
    <3>1. CASE u = t
      BY <1>2, <3>1, CallsStep
    <3>2. CASE u # t
      <4>1. pc'[u] = pc[u] /\ path'[u] = path[u] /\ CallsInv(u)
        BY <2>1, <3>2 DEF OnlyMoves, ShapeInv
      <4> QED
        BY <4>1 DEF CallsInv, Top
    <3> QED
      BY <3>1, <3>2
  <2> QED
    BY <2>2, <2>3 DEF ShapeInv
<1> QED
  BY <1>1, <1>2, NextKinds

-------------------------------------------------------------------------------
(* The virtual losses.                                                                              *)
LossInv == \A n \in Nodes : IsFiniteSet(Holders(n)) /\ virtualLosses[n] = Cardinality(Holders(n))

(* Who holds a node.                                                                         *)
LEMMA HoldersMember ==
  \A n, h : h \in Holders(n) <=> \E u \in Threads : \E k \in Held(u, n) : h = <<u, k>>
BY DEF Holders

(* A node is held by the same calls if every thread holds it with the same calls.            *)
LEMMA SameHolders ==
  ASSUME NEW n, \A u \in Threads : Held(u, n)' = Held(u, n)
  PROVE  Holders(n)' = Holders(n)
BY DEF Holders

(* A step of one thread leaves what the others hold.                                         *)
LEMMA OthersHold ==
  ASSUME NEW t \in Threads, OnlyMoves(t)
  PROVE  \A n : \A u \in Threads \ {t} : Held(u, n)' = Held(u, n)
BY DEF OnlyMoves, Held

(* A thread holds a node with one call more.                                                 *)
LEMMA OneMoreHolder ==
  ASSUME NEW t \in Threads, OnlyMoves(t), NEW n, NEW k, k \notin Held(t, n),
         Held(t, n)' = Held(t, n) \cup {k}
  PROVE  Holders(n)' = Holders(n) \cup {<<t, k>>} /\ <<t, k>> \notin Holders(n)
<1>1. \A u \in Threads \ {t} : Held(u, n)' = Held(u, n)
  BY OthersHold
<1>2. \A h : h \in Holders(n)' <=> \E u \in Threads : \E j \in Held(u, n)' : h = <<u, j>>
  BY DEF Holders
<1>3. \A h : h \in Holders(n)' <=> h \in Holders(n) \/ h = <<t, k>>
  <2> TAKE h
  <2>1. ASSUME h \in Holders(n)' PROVE h \in Holders(n) \/ h = <<t, k>>
    <3>1. PICK u, j : u \in Threads /\ j \in Held(u, n)' /\ h = <<u, j>>
      BY <1>2, <2>1
    <3>2. CASE u = t
      BY <3>1, <3>2, HoldersMember
    <3>3. CASE u # t
      BY <1>1, <3>1, <3>3, HoldersMember
    <3> QED
      BY <3>2, <3>3
  <2>2. ASSUME h \in Holders(n) PROVE h \in Holders(n)'
    <3>1. PICK u, j : u \in Threads /\ j \in Held(u, n) /\ h = <<u, j>>
      BY <2>2, HoldersMember
    <3>2. j \in Held(u, n)'
      <4>1. CASE u = t
        BY <3>1, <4>1 DEF Held
      <4>2. CASE u # t
        BY <1>1, <3>1, <4>2
      <4> QED
        BY <4>1, <4>2
    <3> QED
      BY <1>2, <3>1, <3>2
  <2>3. <<t, k>> \in Holders(n)'
    BY <1>2
  <2> QED
    BY <2>1, <2>2, <2>3
<1>4. <<t, k>> \notin Holders(n)
  BY HoldersMember
<1> QED
  BY <1>3, <1>4

(* A thread holds a node with one call less.                                                 *)
LEMMA OneHolderLess ==
  ASSUME NEW t \in Threads, OnlyMoves(t), NEW n, NEW k \in Held(t, n),
         Held(t, n)' = Held(t, n) \ {k}
  PROVE  Holders(n)' = Holders(n) \ {<<t, k>>} /\ <<t, k>> \in Holders(n)
<1>1. \A u \in Threads \ {t} : Held(u, n)' = Held(u, n)
  BY OthersHold
<1>2. \A h : h \in Holders(n)' <=> \E u \in Threads : \E j \in Held(u, n)' : h = <<u, j>>
  BY DEF Holders
<1>3. \A h : h \in Holders(n)' <=> h \in Holders(n) /\ h # <<t, k>>
  <2> TAKE h
  <2>1. ASSUME h \in Holders(n)' PROVE h \in Holders(n) /\ h # <<t, k>>
    <3>1. PICK u, j : u \in Threads /\ j \in Held(u, n)' /\ h = <<u, j>>
      BY <1>2, <2>1
    <3>2. CASE u = t
      BY <3>1, <3>2, HoldersMember
    <3>3. CASE u # t
      BY <1>1, <3>1, <3>3, HoldersMember
    <3> QED
      BY <3>2, <3>3
  <2>2. ASSUME h \in Holders(n), h # <<t, k>> PROVE h \in Holders(n)'
    <3>1. PICK u, j : u \in Threads /\ j \in Held(u, n) /\ h = <<u, j>>
      BY <2>2, HoldersMember
    <3>2. j \in Held(u, n)'
      <4>1. CASE u = t
        BY <2>2, <3>1, <4>1 DEF Held
      <4>2. CASE u # t
        BY <1>1, <3>1, <4>2
      <4> QED
        BY <4>1, <4>2
    <3> QED
      BY <1>2, <3>1, <3>2
  <2> QED
    BY <2>1, <2>2
<1>4. <<t, k>> \in Holders(n)
  BY HoldersMember
<1> QED
  BY <1>3, <1>4

(* A thread holds the same nodes.                                                                     *)
LEMMA LossSame ==
  ASSUME LossInv, NEW t \in Threads, OnlyMoves(t), UNCHANGED virtualLosses,
         \A n \in Nodes : Held(t, n)' = Held(t, n)
  PROVE  LossInv'
<1>1. ASSUME NEW n \in Nodes PROVE Holders(n)' = Holders(n)
  <2>1. \A u \in Threads : Held(u, n)' = Held(u, n)
    BY OthersHold
  <2> QED
    BY <2>1, SameHolders
<1> QED
  BY <1>1 DEF LossInv

(* A thread that takes a child adds its virtual loss.                                        *)
LEMMA LossTaken ==
  ASSUME TypeOK, TypeOK', LossInv, NEW t \in Threads, OnlyMoves(t), Top(t).child = None,
         NEW c, Takes(t, c)
  PROVE  LossInv'
<1> DEFINE l == Len(path[t])
<1>1. /\ c \in Nodes /\ SameCalls(t) /\ SameChildren(t, l - 1) /\ Top(t)'.child = c
      /\ virtualLosses' = [virtualLosses EXCEPT ![c] = @ + 1]
  BY DEF Takes
<1>2. /\ l \in Nat \ {0} /\ DOMAIN path[t] = 1..l /\ DOMAIN path'[t] = 1..l
  <2>1. path[t] \in Seq(Frames) /\ path'[t] \in Seq(Frames) /\ Len(path'[t]) = l
    BY <1>1 DEF SameCalls, TypeOK
  <2>2. l \in Nat \ {0}
    BY <1>1, TopFrame DEF SameCalls
  <2> QED
    BY <2>1, <2>2
<1>3. path'[t][l].child = c /\ path[t][l].child = None /\ None \notin Nodes
  BY <1>1, GraphAssumption DEF SameCalls, Top, GraphAssumption
<1>4. \A k \in 1..l : k # l => path'[t][k].child = path[t][k].child
  BY <1>1, <1>2 DEF SameChildren
<1> HIDE DEF l
<1>5. ASSUME NEW n \in Nodes, n # c PROVE Holders(n)' = Holders(n)
  <2>1. Held(t, n)' = Held(t, n)
    BY <1>2, <1>3, <1>4, <1>5 DEF Held
  <2>2. \A u \in Threads : Held(u, n)' = Held(u, n)
    BY <2>1, OthersHold
  <2> QED
    BY <2>2, SameHolders
<1>6. Holders(c)' = Holders(c) \cup {<<t, l>>} /\ <<t, l>> \notin Holders(c)
  <2>1. l \notin Held(t, c)
    BY <1>1, <1>3 DEF Held
  <2>2. Held(t, c)' = Held(t, c) \cup {l}
    BY <1>1, <1>2, <1>3, <1>4 DEF Held
  <2> QED
    BY <2>1, <2>2, OneMoreHolder
<1>7. IsFiniteSet(Holders(c)) /\ virtualLosses[c] = Cardinality(Holders(c))
  BY <1>1 DEF LossInv
<1>8. IsFiniteSet(Holders(c)') /\ Cardinality(Holders(c)') = Cardinality(Holders(c)) + 1
  BY <1>6, <1>7, FS_AddElement
<1>9. virtualLosses \in [Nodes -> Int]
  BY DEF TypeOK
<1>10. /\ virtualLosses'[c] = virtualLosses[c] + 1
       /\ \A n \in Nodes \ {c} : virtualLosses'[n] = virtualLosses[n]
  BY <1>1, <1>9
<1> QED
  BY <1>5, <1>7, <1>8, <1>10 DEF LossInv

(* A thread leaves a call, and lets go what the call holds.                                             *)
Drops(t) ==
  /\ path[t] # <<>> /\ Len(path'[t]) = Len(path[t]) - 1
  /\ \A k \in 1..(Len(path[t]) - 1) : path'[t][k] = path[t][k]
  /\ ReleaseChild(t)

(* A thread that drops a child takes its virtual loss off again.                             *)
LEMMA LossDropped ==
  ASSUME TypeOK, TypeOK', LossInv, NEW t \in Threads, OnlyMoves(t), Drops(t)
  PROVE  LossInv'
<1>0. PICK l, c : l = Len(path[t]) /\ c = Top(t).child
  OBVIOUS
<1>1. /\ Len(path'[t]) = l - 1 /\ \A k \in 1..(l - 1) : path'[t][k] = path[t][k]
      /\ virtualLosses' = IF c = None THEN virtualLosses ELSE [virtualLosses EXCEPT ![c] = @ - 1]
  BY <1>0 DEF Drops, ReleaseChild
<1>2. /\ l \in Nat \ {0} /\ DOMAIN path[t] = 1..l /\ DOMAIN path'[t] = 1..(l - 1)
  <2>1. path[t] \in Seq(Frames) /\ path'[t] \in Seq(Frames)
    BY DEF TypeOK
  <2>2. l \in Nat \ {0}
    BY <1>0, TopFrame DEF Drops
  <2> QED
    BY <1>0, <1>1, <2>1, <2>2
<1>3. path[t][l].child = c /\ c \in Nodes \cup {None} /\ None \notin Nodes
  BY <1>0, TopFrame, GraphAssumption DEF Drops, Top, Frames, GraphAssumption
<1>4. /\ \A k \in 1..l : k = l \/ k \in 1..(l - 1)
      /\ \A k \in 1..(l - 1) : k \in 1..l /\ k # l
  BY <1>2
<1>5. ASSUME NEW n \in Nodes, n # c PROVE Holders(n)' = Holders(n)
  <2>1. Held(t, n)' = Held(t, n)
    BY <1>1, <1>2, <1>3, <1>4, <1>5 DEF Held
  <2>2. \A u \in Threads : Held(u, n)' = Held(u, n)
    BY <2>1, OthersHold
  <2> QED
    BY <2>2, SameHolders
<1>6. virtualLosses \in [Nodes -> Int]
  BY DEF TypeOK
<1>7. CASE c = None
  BY <1>1, <1>3, <1>5, <1>7 DEF LossInv
<1>8. CASE c \in Nodes
  <2>1. Holders(c)' = Holders(c) \ {<<t, l>>} /\ <<t, l>> \in Holders(c)
    <3>1. l \in Held(t, c)
      BY <1>2, <1>3 DEF Held
    <3>2. Held(t, c)' = Held(t, c) \ {l}
      BY <1>1, <1>2, <1>4 DEF Held
    <3> QED
      BY <3>1, <3>2, OneHolderLess
  <2>2. IsFiniteSet(Holders(c)) /\ virtualLosses[c] = Cardinality(Holders(c))
    BY <1>8 DEF LossInv
  <2>3. IsFiniteSet(Holders(c)') /\ Cardinality(Holders(c)') = Cardinality(Holders(c)) - 1
    BY <2>1, <2>2, FS_RemoveElement
  <2>4. /\ virtualLosses'[c] = virtualLosses[c] - 1
        /\ \A n \in Nodes \ {c} : virtualLosses'[n] = virtualLosses[n]
    BY <1>1, <1>3, <1>6, <1>8
  <2> QED
    BY <1>5, <2>2, <2>3, <2>4 DEF LossInv
<1> QED
  BY <1>3, <1>7, <1>8

(* Every step leaves the virtual losses those of the calls that hold the node.               *)
LEMMA LossStep == ASSUME Inv, TypeOK', ShapeInv, LossInv, Next PROVE LossInv'
<1>1. CASE Global
  BY <1>1, GlobalStep DEF LossInv, Holders, Held
<1>2. ASSUME NEW t \in Threads, Thread(t) PROVE LossInv'
  <2>1. TypeOK /\ OnlyMoves(t) /\ ChildrenBelow /\ CallsInv(t)
    BY <1>2, ThreadMoves DEF Inv, ShapeInv
  <2>2. /\ path[t] \in Seq(Frames) /\ path'[t] \in Seq(Frames) /\ path \in [Threads -> Seq(Frames)]
        /\ None \notin Nodes
    BY <2>1, GraphAssumption DEF TypeOK, GraphAssumption
  <2>3. /\ Len(path[t]) \in Nat /\ DOMAIN path[t] = 1..Len(path[t])
        /\ DOMAIN path'[t] = 1..Len(path'[t])
    BY <2>2
  <2>4. CASE BeginTask(t) \/ StopSearching(t)
    <3>1. UNCHANGED <<path, virtualLosses>>
      BY <2>4 DEF BeginTask, StopSearching, nodeVars
    <3> QED
      BY <2>1, <3>1, LossSame DEF Held
  <2>5. CASE BeginPlayout(t)
    <3>1. path'[t] = <<Frame(Root)>> /\ UNCHANGED virtualLosses /\ path[t] = <<>>
      BY <2>1, <2>2, <2>5 DEF BeginPlayout, nodeVars, At, CallsInv
    <3>2. DOMAIN path[t] = {} /\ DOMAIN path'[t] = {1} /\ path'[t][1].child = None
      BY <3>1 DEF Frame
    <3> QED
      BY <2>1, <2>2, <3>1, <3>2, LossSame DEF Held
  <2>6. CASE EndPlayout(t)
    <3>1. path'[t] = <<>> /\ Len(path[t]) = 1 /\ ReleaseChild(t)
      BY <2>2, <2>6 DEF EndPlayout
    <3>2. path[t] # <<>> /\ Len(path'[t]) = 0 /\ 1..(1 - 1) = {}
      BY <3>1
    <3>3. Drops(t)
      BY <3>1, <3>2 DEF Drops
    <3> QED
      BY <2>1, <3>3, LossDropped
  <2>7. CASE Stays(t) /\ UNCHANGED virtualLosses
    <3>1. SameCalls(t) /\ SameChildren(t, Len(path[t]))
      BY <2>7, StayingCalls
    <3>2. \A k \in 1..Len(path[t]) : path'[t][k].child = path[t][k].child
      BY <2>3, <3>1 DEF SameChildren
    <3> QED
      BY <2>1, <2>3, <2>7, <3>1, <3>2, LossSame DEF Held, SameCalls
  <2>8. ASSUME NEW c, Takes(t, c) PROVE LossInv'
    BY <2>1, <2>8, LossTaken DEF Takes, CallsInv, NoChildYet
  <2>9. CASE Descend(t) /\ Pushes(t)
    <3> DEFINE l == Len(path[t])
    <3>1. /\ UNCHANGED virtualLosses /\ Len(path'[t]) = l + 1
          /\ \A k \in 1..l : path'[t][k] = path[t][k]
          /\ path'[t][l + 1].child = None
      BY <2>9 DEF Descend, Pushes, nodeVars, Frame
    <3>2. \A k \in 1..(l + 1) : k \in 1..l \/ k = l + 1
      BY <2>3
    <3>3. \A k \in 1..l : k \in 1..(l + 1)
      BY <2>3
    <3> HIDE DEF l
    <3>4. ASSUME NEW n \in Nodes PROVE Held(t, n)' = Held(t, n)
      BY <2>2, <2>3, <3>1, <3>2, <3>3 DEF Held, l
    <3> QED
      BY <2>1, <3>1, <3>4, LossSame
  <2>10. CASE Return(t) /\ Pops(t)
    BY <2>1, <2>10, LossDropped DEF Drops, Return, Pops
  <2> QED
    BY <1>2, <2>1, <2>4, <2>5, <2>6, <2>7, <2>8, <2>9, <2>10, StepKinds
<1> QED
  BY <1>1, <1>2, NextKinds

(* A node is evaluated by one thread at a time, the one that stored its output, and no node is     *)
(* left as being evaluated or growing without a thread that is at it.                               *)
Evaluates(t) == pc[t] \in {"leaf", "claim", "expand"}
Expands(t)   == pc[t] = "expand"
Grows(t)     == pc[t] \in {"copy", "publish"}
GrowingNow   == {GROWING1, GROWING2}

OwnInv ==
  /\ \A t \in Threads : pc[t] \in {"leaf", "claim"} => state[Node(t)] = UNEVALUATED
  /\ \A t, u \in Threads : Evaluates(t) /\ Evaluates(u) /\ t # u => Node(t) # Node(u)
  /\ \A n \in Nodes :
       /\ state[n] = EVALUATING => \E t \in Threads : Expands(t) /\ Node(t) = n
       /\ state[n] \in GrowingNow => \E t \in Threads : Grows(t) /\ Node(t) = n

(* What a step of thread t has to keep.                                                             *)
OwnKept(t) ==
  /\ \A u \in Threads \ {t} : pc[u] \in {"leaf", "claim"} => state'[Node(u)] = UNEVALUATED
  /\ pc'[t] \in {"leaf", "claim"} => state'[Node(t)'] = UNEVALUATED
  /\ Evaluates(t)' => \A u \in Threads \ {t} : Evaluates(u) => Node(u) # Node(t)'
  /\ \A n \in Nodes :
       /\ state'[n] = EVALUATING =>
            \/ state[n] = EVALUATING /\ ~(Expands(t) /\ Node(t) = n)
            \/ Expands(t)' /\ Node(t)' = n
       /\ state'[n] \in GrowingNow =>
            \/ state[n] \in GrowingNow /\ ~(Grows(t) /\ Node(t) = n)
            \/ Grows(t)' /\ Node(t)' = n

(* It is enough to look at the thread that moves.                                            *)
LEMMA OwnStep == ASSUME OwnInv, NEW t \in Threads, OnlyMoves(t), OwnKept(t) PROVE OwnInv'
<1>1. \A u \in Threads \ {t} :
        /\ pc'[u] = pc[u] /\ Node(u)' = Node(u) /\ Evaluates(u)' = Evaluates(u)
        /\ Expands(u)' = Expands(u) /\ Grows(u)' = Grows(u)
  BY DEF OnlyMoves, Node, Top, Evaluates, Expands, Grows
<1>2. ASSUME NEW u \in Threads, pc'[u] \in {"leaf", "claim"} PROVE state'[Node(u)'] = UNEVALUATED
  <2>1. CASE u = t
    BY <1>2, <2>1 DEF OwnKept
  <2>2. CASE u # t
    BY <1>1, <1>2, <2>2 DEF OwnKept
  <2> QED
    BY <2>1, <2>2
<1>3. ASSUME NEW u \in Threads, NEW v \in Threads, Evaluates(u)', Evaluates(v)', u # v
      PROVE  Node(u)' # Node(v)'
  <2>1. CASE u # t /\ v # t
    BY <1>1, <1>3, <2>1 DEF OwnInv
  <2>2. CASE u = t
    BY <1>1, <1>3, <2>2 DEF OwnKept
  <2>3. CASE v = t
    BY <1>1, <1>3, <2>3 DEF OwnKept
  <2> QED
    BY <2>1, <2>2, <2>3
<1>4. ASSUME NEW n \in Nodes, state'[n] = EVALUATING
      PROVE  \E u \in Threads : Expands(u)' /\ Node(u)' = n
  <2>1. CASE state[n] = EVALUATING /\ ~(Expands(t) /\ Node(t) = n)
    <3>1. PICK u \in Threads : Expands(u) /\ Node(u) = n
      BY <2>1 DEF OwnInv
    <3>2. u \in Threads \ {t}
      BY <2>1, <3>1
    <3> QED
      BY <1>1, <3>1, <3>2
  <2>2. CASE Expands(t)' /\ Node(t)' = n
    BY <2>2
  <2> QED
    BY <1>4, <2>1, <2>2 DEF OwnKept
<1>5. ASSUME NEW n \in Nodes, state'[n] \in GrowingNow
      PROVE  \E u \in Threads : Grows(u)' /\ Node(u)' = n
  <2>1. CASE state[n] \in GrowingNow /\ ~(Grows(t) /\ Node(t) = n)
    <3>1. PICK u \in Threads : Grows(u) /\ Node(u) = n
      BY <2>1 DEF OwnInv
    <3>2. u \in Threads \ {t}
      BY <2>1, <3>1
    <3> QED
      BY <1>1, <3>1, <3>2
  <2>2. CASE Grows(t)' /\ Node(t)' = n
    BY <2>2
  <2> QED
    BY <1>5, <2>1, <2>2 DEF OwnKept
<1> QED
  BY <1>2, <1>3, <1>4, <1>5 DEF OwnInv, GrowingNow

(* Most steps have nothing to do with it.                                                            *)
LEMMA OwnKinds ==
  ASSUME TypeOK, NEW t \in Threads, Thread(t)
  PROVE  \/ Evaluate(t) \/ AddLeafValue(t) \/ ClaimNode(t) \/ ExpandNode(t)
         \/ ClaimGrowth(t) \/ CopyChild(t) \/ PublishChildren(t)
         \/ /\ UNCHANGED state /\ pc[t] \notin {"expand", "copy", "publish"}
            /\ pc'[t] \notin {"leaf", "claim", "expand", "copy", "publish"}
<1>1. pc \in [Threads -> ThreadPcs]
  BY DEF TypeOK
<1>2. CASE BeginTask(t) \/ StopSearching(t) \/ BeginPlayout(t) \/ EndPlayout(t)
  BY <1>1, <1>2 DEF BeginTask, StopSearching, BeginPlayout, EndPlayout, GoTo, nodeVars, At
<1>3. CASE Leaf(t)
  BY <1>1, <1>3 DEF Leaf, VisitTerminal, Visit, GoTo, ReturnWith, nodeVars, At
<1>4. CASE SelectExisting(t) \/ SelectNew(t) \/ SelectNone(t) \/ ReloadState(t) \/ InsertChild(t)
  BY <1>1, <1>4 DEF SelectExisting, SelectNew, SelectNone, ReloadState, InsertChild, GoTo, ReturnWith,
                    nodeVars, At
<1>5. CASE ComeBack(t)
  BY <1>1, <1>5 DEF ComeBack, CatchUp, Descend, ReloadForEdge, CountEdgeVisit, MarkDirty,
                    RecomputeNodeStats, UndoDirty, Return, GoTo, ReturnWith, nodeVars, At
<1> QED
  BY <1>2, <1>3, <1>4, <1>5 DEF Thread, Choose

(* The states as the numbers that they are.                                                  *)
LEMMA StateValues ==
  /\ UNEVALUATED = 0 /\ EVALUATING = 1 /\ EXPANDED0 = 2 /\ GROWING1 = 3 /\ EXPANDED1 = 4
  /\ GROWING2 = 5 /\ EXPANDED2 = 6 /\ GrowingNow = {3, 5}
BY DEF UNEVALUATED, EVALUATING, EXPANDED0, GROWING1, EXPANDED1, GROWING2, EXPANDED2, GrowingNow

(* A step of a thread leaves every node that is being evaluated or grown with its one thread.*)
LEMMA OwnThread == ASSUME Inv, TypeOK', OwnInv, NEW t \in Threads, Thread(t) PROVE OwnInv'
<1>1. TypeOK /\ NodeInv /\ OnlyMoves(t)
  BY ThreadMoves DEF Inv
<1>2. pc \in [Threads -> ThreadPcs] /\ state \in [Nodes -> States]
  BY <1>1 DEF TypeOK
<1>3. \A u \in Threads : /\ pc[u] \in {"leaf", "claim"} => state[Node(u)] = UNEVALUATED
                         /\ Expands(u) => state[Node(u)] = EVALUATING
                         /\ Grows(u) => state[Node(u)] \in GrowingNow
                         /\ Evaluates(u) => nnOutput[Node(u)]
                         /\ Evaluates(u) \/ Grows(u) => Node(u) \in Nodes
  <2> TAKE u \in Threads
  <2>1. /\ pc[u] \in {"leaf", "claim"} => state[Node(u)] = UNEVALUATED
        /\ Expands(u) => state[Node(u)] = EVALUATING
        /\ Grows(u) => state[Node(u)] \in GrowingNow
    BY DEF OwnInv, Inv, HoldInv, Expands, Grows, GrowingNow
  <2>2. Evaluates(u) => nnOutput[Node(u)]
    BY DEF Inv, ThreadInv, LeafInv, Evaluates
  <2>3. Evaluates(u) \/ Grows(u) => Node(u) \in Nodes
    BY InPlayout DEF Evaluates, Grows
  <2> QED
    BY <2>1, <2>2, <2>3
<1>4. \A u \in Threads \ {t} : Evaluates(t) /\ Evaluates(u) => Node(u) # Node(t)
  BY DEF OwnInv
<1>5. Leaf(t) \/ ClaimGrowth(t) \/ CopyChild(t) \/ PublishChildren(t) => Node(t)' = Node(t) /\ Node(t) \in Nodes
  BY StayingCalls DEF Stays
<1> USE DEF Leaf
<1>6. CASE Evaluate(t)
  <2>1. UNCHANGED state /\ pc[t] = "evaluate"
    BY <1>6 DEF Evaluate, At
  <2>2. CASE ReturnWith(t, FALSE)
    <3>1. pc'[t] = "return"
      BY <1>1, <2>2, ReturnProperties
    <3> QED
      BY <1>1, <1>3, <2>1, <3>1, OwnStep DEF OwnKept, Evaluates, Expands, Grows
  <2>3. CASE ~nnOutput[Node(t)] /\ GoTo(t, "leaf")
    <3>1. pc'[t] = "leaf"
      BY <1>2, <2>3 DEF GoTo
    <3>2. \A u \in Threads : Evaluates(u) => Node(u) # Node(t)
      BY <1>3, <2>3
    <3>3. state[Node(t)] = UNEVALUATED
      <4>1. Node(t) \in Nodes
        BY <1>5, <1>6
      <4>2. state[Node(t)] \in 0..6
        BY <1>1, <4>1, StateType
      <4>3. ~(state[Node(t)] >= EXPANDED0)
        BY <1>1, <2>3, <4>1 DEF NodeInv
      <4>4. state[Node(t)] # EVALUATING
        BY <3>2, <4>1 DEF OwnInv, Expands, Evaluates
      <4> QED
        BY <4>2, <4>3, <4>4, StateValues
    <3> QED
      BY <1>1, <1>3, <1>5, <1>6, <2>1, <3>1, <3>2, <3>3, OwnStep DEF OwnKept, Evaluates, Expands, Grows
  <2> QED
    BY <1>6, <2>2, <2>3 DEF Evaluate
<1>7. CASE AddLeafValue(t)
  <2>1. UNCHANGED state /\ pc[t] = "leaf" /\ pc'[t] = "claim"
    BY <1>2, <1>7 DEF AddLeafValue, At, GoTo
  <2>2. Evaluates(t) /\ state[Node(t)] = UNEVALUATED
    BY <1>3, <2>1 DEF Evaluates
  <2> QED
    BY <1>1, <1>3, <1>4, <1>5, <1>7, <2>1, <2>2, OwnStep DEF OwnKept, Expands, Grows
<1>8. CASE ClaimNode(t)
  <2>1. pc[t] = "claim"
    BY <1>8 DEF ClaimNode, At
  <2>2. Evaluates(t) /\ state[Node(t)] = UNEVALUATED /\ Node(t) \in Nodes
    BY <1>3, <2>1 DEF Evaluates
  <2>3. pc'[t] = "expand" /\ state' = [state EXCEPT ![Node(t)] = EVALUATING]
    BY <1>2, <1>8, <2>2 DEF ClaimNode, GoTo
  <2>4. \A n \in Nodes : state'[n] = IF n = Node(t) THEN EVALUATING ELSE state[n]
    BY <1>2, <2>2, <2>3
  <2>5. Node(t)' = Node(t)
    BY <1>5, <1>8
  <2>6. OwnKept(t)
    BY <1>3, <1>4, <2>1, <2>2, <2>3, <2>4, <2>5, StateValues DEF OwnKept, Evaluates, Expands, Grows
  <2> QED
    BY <1>1, <2>6, OwnStep
<1>9. CASE ExpandNode(t)
  <2>1. pc[t] = "expand" /\ pc'[t] = "return"
    BY <1>1, <1>9, ReturnProperties DEF ExpandNode, At
  <2>2. Evaluates(t) /\ Node(t) \in Nodes
    BY <1>3, <2>1 DEF Evaluates
  <2>3. state' = [state EXCEPT ![Node(t)] = EXPANDED0]
    BY <1>9 DEF ExpandNode
  <2>4. \A n \in Nodes : state'[n] = IF n = Node(t) THEN EXPANDED0 ELSE state[n]
    BY <1>2, <2>2, <2>3
  <2>5. OwnKept(t)
    BY <1>3, <1>4, <2>1, <2>2, <2>4, StateValues DEF OwnKept, Evaluates, Expands, Grows
  <2> QED
    BY <1>1, <2>5, OwnStep
<1>10. CASE ClaimGrowth(t)
  <2>1. pc[t] = "grow"
    BY <1>10 DEF ClaimGrowth, At
  <2>2. CASE GoTo(t, "reload") /\ UNCHANGED state
    <3>1. pc'[t] = "reload"
      BY <1>2, <2>2 DEF GoTo
    <3> QED
      BY <1>1, <1>3, <2>1, <2>2, <3>1, OwnStep DEF OwnKept, Evaluates, Expands, Grows
  <2>3. CASE /\ Top(t).st \in {EXPANDED0, EXPANDED1} /\ state[Node(t)] = Top(t).st
             /\ state' = [state EXCEPT ![Node(t)] = @ + 1] /\ GoTo(t, "copy")
    <3>1. pc'[t] = "copy" /\ Node(t) \in Nodes /\ Node(t)' = Node(t)
      BY <1>2, <1>5, <1>10, <2>3 DEF GoTo
    <3>2. \A n \in Nodes : state'[n] = IF n = Node(t) THEN state[n] + 1 ELSE state[n]
      BY <1>2, <2>3, <3>1
    <3>3. state[Node(t)] \in {2, 4}
      BY <2>3, StateValues
    <3>4. OwnKept(t)
      BY <1>3, <2>1, <3>1, <3>2, <3>3, StateValues DEF OwnKept, Evaluates, Expands, Grows
    <3> QED
      BY <1>1, <3>4, OwnStep
  <2> QED
    BY <1>10, <2>2, <2>3 DEF ClaimGrowth
<1>11. CASE CopyChild(t)
  <2>1. UNCHANGED state /\ pc[t] = "copy"
    BY <1>11 DEF CopyChild, At, nodeVars
  <2>2. pc'[t] \in {"copy", "publish"}
    BY <1>2, <1>11, <2>1 DEF CopyChild, GoTo
  <2>3. Node(t)' = Node(t)
    BY <1>5, <1>11
  <2>4. OwnKept(t)
    BY <1>3, <2>1, <2>2, <2>3 DEF OwnKept, Evaluates, Expands, Grows
  <2> QED
    BY <1>1, <2>4, OwnStep
<1>12. CASE PublishChildren(t)
  <2>1. pc[t] = "publish" /\ pc'[t] = "newChild" /\ state' = [state EXCEPT ![Node(t)] = @ + 1]
    BY <1>2, <1>12 DEF PublishChildren, At, GoTo
  <2>2. state[Node(t)] \in {3, 5} /\ Node(t) \in Nodes
    BY <1>3, <2>1, StateValues DEF Grows
  <2>3. \A n \in Nodes : state'[n] = IF n = Node(t) THEN state[n] + 1 ELSE state[n]
    BY <1>2, <2>1, <2>2
  <2>4. OwnKept(t)
    BY <1>3, <2>1, <2>2, <2>3, StateValues DEF OwnKept, Evaluates, Expands, Grows
  <2> QED
    BY <1>1, <2>4, OwnStep
<1>13. CASE /\ UNCHANGED state /\ pc[t] \notin {"expand", "copy", "publish"}
            /\ pc'[t] \notin {"leaf", "claim", "expand", "copy", "publish"}
  <2>1. OwnKept(t)
    BY <1>3, <1>13 DEF OwnKept, Evaluates, Expands, Grows
  <2> QED
    BY <1>1, <2>1, OwnStep
<1> QED
  BY <1>1, <1>6, <1>7, <1>8, <1>9, <1>10, <1>11, <1>12, <1>13, OwnKinds

(* So does a step of the search.                                                             *)
LEMMA OwnGlobal == ASSUME OwnInv, Global PROVE OwnInv'
<1>1. /\ UNCHANGED <<state, path>>
      /\ \/ UNCHANGED pc
         \/ \A t \in Threads : pc[t] \in {"idle", "ended"} /\ pc'[t] \in {"idle", "start"}
  BY GlobalStep
<1>2. CASE UNCHANGED pc
  BY <1>1, <1>2 DEF OwnInv, Node, Top, Evaluates, Expands, Grows, GrowingNow
<1>3. CASE \A t \in Threads : pc[t] \in {"idle", "ended"} /\ pc'[t] \in {"idle", "start"}
  BY <1>1, <1>3 DEF OwnInv, Node, Top, Evaluates, Expands, Grows, GrowingNow
<1> QED
  BY <1>1, <1>2, <1>3

-------------------------------------------------------------------------------
(* One thread at a time brings a node's statistics up to date, and takes off the node's counter   *)
(* no more than is on it; while the counter is not 0, some thread is at it.                         *)
Updates(t) == pc[t] \in {"recompute", "undo"}

DirtyInv ==
  /\ \A t \in Threads : Updates(t) => completed[t] \in 1..dirtyCounter[Node(t)]
  /\ \A t, u \in Threads : Updates(t) /\ Updates(u) /\ t # u => Node(t) # Node(u)
  /\ \A n \in Nodes :
       /\ dirtyCounter[n] >= 0
       /\ dirtyCounter[n] > 0 => \E t \in Threads : Updates(t) /\ Node(t) = n

DirtyKept(t) ==
  /\ \A u \in Threads \ {t} : Updates(u) => completed[u] \in 1..dirtyCounter'[Node(u)]
  /\ Updates(t)' => /\ completed'[t] \in 1..dirtyCounter'[Node(t)']
                    /\ \A u \in Threads \ {t} : Updates(u) => Node(u) # Node(t)'
  /\ \A n \in Nodes :
       /\ dirtyCounter'[n] >= 0
       /\ dirtyCounter'[n] > 0 => \/ dirtyCounter[n] > 0 /\ ~(Updates(t) /\ Node(t) = n)
                                  \/ Updates(t)' /\ Node(t)' = n

(* It is enough to look at the thread that moves.                                            *)
LEMMA DirtyStep == ASSUME DirtyInv, NEW t \in Threads, OnlyMoves(t), DirtyKept(t) PROVE DirtyInv'
<1>1. \A u \in Threads \ {t} :
        /\ pc'[u] = pc[u] /\ Node(u)' = Node(u) /\ Updates(u)' = Updates(u)
        /\ completed'[u] = completed[u]
  BY DEF OnlyMoves, Node, Top, Updates
<1>2. ASSUME NEW u \in Threads, Updates(u)' PROVE completed'[u] \in 1..dirtyCounter'[Node(u)']
  <2>1. CASE u = t
    BY <1>2, <2>1 DEF DirtyKept
  <2>2. CASE u # t
    BY <1>1, <1>2, <2>2 DEF DirtyKept
  <2> QED
    BY <2>1, <2>2
<1>3. ASSUME NEW u \in Threads, NEW v \in Threads, Updates(u)', Updates(v)', u # v
      PROVE  Node(u)' # Node(v)'
  <2>1. CASE u # t /\ v # t
    BY <1>1, <1>3, <2>1 DEF DirtyInv
  <2>2. CASE u = t
    BY <1>1, <1>3, <2>2 DEF DirtyKept
  <2>3. CASE v = t
    BY <1>1, <1>3, <2>3 DEF DirtyKept
  <2> QED
    BY <2>1, <2>2, <2>3
<1>4. ASSUME NEW n \in Nodes, dirtyCounter'[n] > 0
      PROVE  \E u \in Threads : Updates(u)' /\ Node(u)' = n
  <2>1. CASE dirtyCounter[n] > 0 /\ ~(Updates(t) /\ Node(t) = n)
    <3>1. PICK u \in Threads : Updates(u) /\ Node(u) = n
      BY <2>1 DEF DirtyInv
    <3>2. u \in Threads \ {t}
      BY <2>1, <3>1
    <3> QED
      BY <1>1, <3>1, <3>2
  <2>2. CASE Updates(t)' /\ Node(t)' = n
    BY <2>2
  <2> QED
    BY <1>4, <2>1, <2>2 DEF DirtyKept
<1>5. \A n \in Nodes : dirtyCounter'[n] >= 0
  BY DEF DirtyKept
<1> QED
  BY <1>2, <1>3, <1>4, <1>5 DEF DirtyInv

(* The steps that count a visit, at an edge or at a node.                                              *)
LEMMA CountKinds ==
  ASSUME TypeOK, NEW t \in Threads, Thread(t)
  PROVE  \/ VisitTerminal(t) \/ AddLeafValue(t) \/ SelectNone(t) \/ CatchUp(t) \/ CountEdgeVisit(t)
         \/ MarkDirty(t) \/ RecomputeNodeStats(t) \/ UndoDirty(t)
         \/ /\ UNCHANGED <<visits, dirtyCounter, completed>>
            /\ pc[t] \notin {"stats", "recompute", "undo"} /\ pc'[t] \notin {"stats", "recompute", "undo"}
<1>1. pc \in [Threads -> ThreadPcs]
  BY DEF TypeOK
<1>2. CASE BeginTask(t) \/ StopSearching(t) \/ BeginPlayout(t) \/ EndPlayout(t)
  BY <1>1, <1>2 DEF BeginTask, StopSearching, BeginPlayout, EndPlayout, GoTo, nodeVars, At
<1>3. CASE Leaf(t)
  BY <1>1, <1>3 DEF Leaf, Visit, Evaluate, ClaimNode, ExpandNode, GoTo, ReturnWith, nodeVars, At
<1>4. CASE SelectExisting(t) \/ SelectNew(t) \/ ReloadState(t) \/ InsertChild(t)
  BY <1>1, <1>4 DEF SelectExisting, SelectNew, ReloadState, InsertChild, GoTo, ReturnWith, nodeVars, At
<1>5. CASE ClaimGrowth(t) \/ CopyChild(t) \/ PublishChildren(t)
  BY <1>1, <1>5 DEF ClaimGrowth, CopyChild, PublishChildren, GoTo, ReturnWith, nodeVars, At
<1>6. CASE Descend(t) \/ ReloadForEdge(t) \/ Return(t)
  BY <1>1, <1>6 DEF Descend, ReloadForEdge, Return, GoTo, ReturnWith, nodeVars, At
<1> QED
  BY <1>2, <1>3, <1>4, <1>5, <1>6 DEF Thread, Choose, Leaf, ComeBack

(* A step of a thread leaves a node's counter with the one thread that updates its statistics.*)
LEMMA DirtyThread == ASSUME Inv, TypeOK', DirtyInv, NEW t \in Threads, Thread(t) PROVE DirtyInv'
<1>1. TypeOK /\ OnlyMoves(t)
  BY ThreadMoves DEF Inv
<1>2. /\ pc \in [Threads -> ThreadPcs] /\ dirtyCounter \in [Nodes -> Int]
      /\ completed \in [Threads -> Int]
  BY <1>1 DEF TypeOK
<1>3. /\ \A u \in Threads : Updates(u) => completed[u] \in 1..dirtyCounter[Node(u)] /\ Node(u) \in Nodes
      /\ \A u \in Threads \ {t} : Updates(t) /\ Updates(u) => Node(u) # Node(t)
      /\ \A n \in Nodes : dirtyCounter[n] >= 0
  BY InPlayout DEF DirtyInv, Updates
<1>4. ASSUME UNCHANGED dirtyCounter, ~Updates(t), ~Updates(t)' PROVE DirtyInv'
  <2>1. DirtyKept(t)
    BY <1>3, <1>4 DEF DirtyKept
  <2> QED
    BY <1>1, <2>1, DirtyStep
<1>5. CASE VisitTerminal(t) \/ AddLeafValue(t) \/ SelectNone(t) \/ CatchUp(t) \/ CountEdgeVisit(t)
  <2>1. UNCHANGED dirtyCounter
    BY <1>5 DEF VisitTerminal, AddLeafValue, SelectNone, CatchUp, CountEdgeVisit
  <2>2. pc[t] \notin {"recompute", "undo"} /\ pc'[t] \notin {"recompute", "undo"}
    BY <1>2, <1>5 DEF VisitTerminal, AddLeafValue, SelectNone, CatchUp, CountEdgeVisit, GoTo, ReturnWith, At
  <2> QED
    BY <1>4, <2>1, <2>2 DEF Updates
<1>6. CASE UNCHANGED dirtyCounter /\ pc[t] \notin {"recompute", "undo"} /\ pc'[t] \notin {"recompute", "undo"}
  BY <1>4, <1>6 DEF Updates
<1>7. MarkDirty(t) \/ RecomputeNodeStats(t) \/ UndoDirty(t) => Node(t)' = Node(t) /\ Node(t) \in Nodes
  BY StayingCalls DEF Stays
<1>8. CASE MarkDirty(t)
  <2> DEFINE n == Node(t)
  <2>1. pc[t] = "stats" /\ dirtyCounter' = [dirtyCounter EXCEPT ![n] = @ + 1]
    BY <1>8 DEF MarkDirty, At
  <2>2. Node(t)' = n /\ n \in Nodes
    BY <1>7, <1>8
  <2>3. ~Updates(t)
    BY <2>1 DEF Updates
  <2> HIDE DEF n
  <2>4. /\ \A m \in Nodes : dirtyCounter'[m] = IF m = n THEN dirtyCounter[m] + 1 ELSE dirtyCounter[m]
        /\ \A m \in Nodes : dirtyCounter[m] \in Int
    BY <1>2, <2>1, <2>2
  <2>5. \A u \in Threads \ {t} : Updates(u) => completed[u] \in 1..dirtyCounter'[Node(u)]
    <3> TAKE u \in Threads \ {t}
    <3> HAVE Updates(u)
    <3>1. completed[u] \in 1..dirtyCounter[Node(u)] /\ Node(u) \in Nodes
      BY <1>3
    <3>2. dirtyCounter'[Node(u)] \in Int /\ dirtyCounter'[Node(u)] >= dirtyCounter[Node(u)]
      BY <2>4, <3>1
    <3> QED
      BY <2>4, <3>1, <3>2
  <2>6. \A m \in Nodes : dirtyCounter'[m] >= 0
    BY <1>3, <2>4
  <2>7. CASE dirtyCounter[n] > 0 /\ ReturnWith(t, TRUE)
    <3>1. pc'[t] = "return"
      BY <1>1, <2>7, ReturnProperties
    <3>2. ~Updates(t)'
      BY <3>1 DEF Updates
    <3>3. \A m \in Nodes : dirtyCounter'[m] > 0 => dirtyCounter[m] > 0
      BY <2>4, <2>7
    <3>4. DirtyKept(t)
      BY <2>3, <2>5, <2>6, <3>2, <3>3 DEF DirtyKept
    <3> QED
      BY <1>1, <3>4, DirtyStep
  <2>8. CASE /\ dirtyCounter[n] = 0 /\ completed' = [completed EXCEPT ![t] = 1] /\ GoTo(t, "recompute")
    <3>1. completed'[t] = 1 /\ pc'[t] = "recompute" /\ Updates(t)'
      BY <1>2, <2>8 DEF GoTo, Updates
    <3>2. \A u \in Threads \ {t} : Updates(u) => Node(u) # n
      <4> TAKE u \in Threads \ {t}
      <4> HAVE Updates(u)
      <4>1. completed[u] \in 1..dirtyCounter[Node(u)]
        BY <1>3
      <4> QED
        BY <2>8, <4>1
    <3>3. dirtyCounter'[n] = 1
      BY <2>2, <2>4, <2>8
    <3>4. \A m \in Nodes : dirtyCounter'[m] > 0 => dirtyCounter[m] > 0 \/ m = n
      BY <2>4
    <3>5. DirtyKept(t)
      BY <2>2, <2>3, <2>5, <2>6, <3>1, <3>2, <3>3, <3>4 DEF DirtyKept
    <3> QED
      BY <1>1, <3>5, DirtyStep
  <2> QED
    BY <1>8, <2>7, <2>8 DEF MarkDirty, n
<1>9. CASE RecomputeNodeStats(t)
  <2>1. UNCHANGED <<dirtyCounter, completed>> /\ pc[t] = "recompute" /\ pc'[t] = "undo"
    BY <1>2, <1>9 DEF RecomputeNodeStats, At, GoTo
  <2>2. Node(t)' = Node(t)
    BY <1>7, <1>9
  <2>3. DirtyKept(t)
    BY <1>3, <2>1, <2>2 DEF DirtyKept, Updates
  <2> QED
    BY <1>1, <2>3, DirtyStep
<1>10. CASE UndoDirty(t)
  <2> DEFINE n    == Node(t)
             left == dirtyCounter[n] - completed[t]
  <2>1. /\ pc[t] = "undo" /\ dirtyCounter' = [dirtyCounter EXCEPT ![n] = left]
        /\ completed' = [completed EXCEPT ![t] = left]
    BY <1>10 DEF UndoDirty, At
  <2>2. Node(t)' = n /\ n \in Nodes
    BY <1>7, <1>10
  <2>3. Updates(t) /\ completed[t] \in 1..dirtyCounter[n] /\ dirtyCounter[n] \in Int
    BY <1>2, <1>3, <2>1, <2>2 DEF Updates
  <2>4. left \in Int /\ left >= 0
    BY <2>3
  <2>5. \/ left <= 0 /\ ReturnWith(t, TRUE)
        \/ left > 0 /\ GoTo(t, "recompute")
    BY <1>10 DEF UndoDirty
  <2> HIDE DEF left, n
  <2>6. /\ \A m \in Nodes : dirtyCounter'[m] = IF m = n THEN left ELSE dirtyCounter[m]
        /\ completed'[t] = left
    BY <1>2, <2>1, <2>2
  <2>7. \A u \in Threads \ {t} : Updates(u) => Node(u) # n /\ completed[u] \in 1..dirtyCounter'[Node(u)]
    BY <1>3, <2>3, <2>6 DEF n
  <2>8. \A m \in Nodes : dirtyCounter'[m] >= 0
    BY <1>3, <2>4, <2>6
  <2>9. CASE left <= 0 /\ ReturnWith(t, TRUE)
    <3>1. pc'[t] = "return"
      BY <1>1, <2>9, ReturnProperties
    <3>2. ~Updates(t)'
      BY <3>1 DEF Updates
    <3>3. \A m \in Nodes : dirtyCounter'[m] > 0 => m # n /\ dirtyCounter[m] > 0
      BY <2>4, <2>6, <2>9
    <3>4. DirtyKept(t)
      BY <2>7, <2>8, <3>2, <3>3 DEF DirtyKept, n
    <3> QED
      BY <1>1, <3>4, DirtyStep
  <2>10. CASE left > 0 /\ GoTo(t, "recompute")
    <3>1. pc'[t] = "recompute" /\ Updates(t)'
      BY <1>2, <2>10 DEF GoTo, Updates
    <3>2. dirtyCounter'[n] = left /\ completed'[t] \in 1..dirtyCounter'[n]
      BY <2>2, <2>4, <2>6, <2>10
    <3>3. \A m \in Nodes : dirtyCounter'[m] > 0 => m = n \/ (m # n /\ dirtyCounter[m] > 0)
      BY <2>6
    <3>4. DirtyKept(t)
      BY <2>2, <2>7, <2>8, <3>1, <3>2, <3>3 DEF DirtyKept, n
    <3> QED
      BY <1>1, <3>4, DirtyStep
  <2> QED
    BY <2>5, <2>9, <2>10
<1> QED
  BY <1>1, <1>5, <1>6, <1>8, <1>9, <1>10, CountKinds

(* So does a step of the search.                                                             *)
LEMMA DirtyGlobal == ASSUME DirtyInv, Global PROVE DirtyInv'
<1>1. /\ UNCHANGED <<dirtyCounter, completed, path>>
      /\ \/ UNCHANGED pc
         \/ \A t \in Threads : pc[t] \in {"idle", "ended"} /\ pc'[t] \in {"idle", "start"}
  BY GlobalStep
<1>2. CASE UNCHANGED pc
  BY <1>1, <1>2 DEF DirtyInv, Node, Top, Updates
<1>3. CASE \A t \in Threads : pc[t] \in {"idle", "ended"} /\ pc'[t] \in {"idle", "start"}
  BY <1>1, <1>3 DEF DirtyInv, Node, Top, Updates
<1> QED
  BY <1>1, <1>2, <1>3

-------------------------------------------------------------------------------
(* The visits that are due to a node: those it has, those it is marked with, less what a thread has  *)
(* added already and not taken off the counter yet, and those of threads that are about to mark it.  *)
Undoers(n) == {t \in Threads : pc[t] = "undo" /\ Node(t) = n}
Taken(n)   == IF Undoers(n) = {} THEN 0 ELSE completed[CHOOSE t \in Undoers(n) : TRUE]
AtStats(n) == {t \in Threads : pc[t] = "stats" /\ Node(t) = n}
Due(n)     == visits[n] + dirtyCounter[n] - Taken(n) + Cardinality(AtStats(n))

(* The steps that count a visit, at an edge or at a node.                                             *)
Counts(t) == VisitTerminal(t) \/ AddLeafValue(t) \/ SelectNone(t) \/ CatchUp(t) \/ CountEdgeVisit(t)

(* All parts of the sum are numbers, and one thread at most takes off a node's counter.                *)
LEMMA DueType ==
  ASSUME TypeOK, NEW n \in Nodes
  PROVE  /\ Taken(n) \in Int /\ IsFiniteSet(AtStats(n)) /\ Cardinality(AtStats(n)) \in Nat
         /\ visits[n] \in Nat /\ dirtyCounter[n] \in Int /\ Due(n) \in Int
<1>1. IsFiniteSet(AtStats(n)) /\ Cardinality(AtStats(n)) \in Nat
  <2>1. AtStats(n) \subseteq Threads
    BY DEF AtStats
  <2> QED
    BY <2>1, FS_Subset, FS_CardinalityType, SizeAssumption DEF SizeAssumption
<1>2. Taken(n) \in Int
  <2>1. CASE Undoers(n) = {}
    BY <2>1 DEF Taken
  <2>2. CASE Undoers(n) # {}
    <3>1. (CHOOSE t \in Undoers(n) : TRUE) \in Threads
      BY <2>2 DEF Undoers
    <3> QED
      BY <2>2, <3>1 DEF Taken, TypeOK
  <2> QED
    BY <2>1, <2>2
<1>3. visits[n] \in Nat /\ dirtyCounter[n] \in Int
  BY DEF TypeOK
<1> QED
  BY <1>1, <1>2, <1>3 DEF Due

(* Who is at a node's counter.                                                                         *)
LEMMA OtherCounters ==
  ASSUME NEW t \in Threads, OnlyMoves(t), NEW n
  PROVE  /\ \A u : u # t => /\ u \in Undoers(n)' <=> u \in Undoers(n)
                            /\ u \in AtStats(n)' <=> u \in AtStats(n)
         /\ t \in Undoers(n)' <=> pc'[t] = "undo" /\ Node(t)' = n
         /\ t \in AtStats(n)' <=> pc'[t] = "stats" /\ Node(t)' = n
         /\ t \in Undoers(n) <=> pc[t] = "undo" /\ Node(t) = n
         /\ t \in AtStats(n) <=> pc[t] = "stats" /\ Node(t) = n
         /\ Undoers(n)' \subseteq Threads /\ AtStats(n)' \subseteq Threads
BY DEF OnlyMoves, Undoers, AtStats, Node, Top

(* The same threads take off the same.                                                                 *)
LEMMA TakenSame ==
  ASSUME NEW t \in Threads, OnlyMoves(t), NEW n, t \notin Undoers(n), t \notin Undoers(n)'
  PROVE  Taken(n)' = Taken(n)
<1>1. Undoers(n)' = Undoers(n)
  BY OtherCounters
<1>2. CASE Undoers(n) = {}
  BY <1>1, <1>2 DEF Taken
<1>3. CASE Undoers(n) # {}
  <2>1. PICK u : u = CHOOSE v \in Undoers(n) : TRUE
    OBVIOUS
  <2>2. u \in Undoers(n)
    BY <1>3, <2>1
  <2>3. u \in Threads \ {t}
    BY <2>2 DEF Undoers
  <2>4. completed'[u] = completed[u]
    BY <2>3 DEF OnlyMoves
  <2>5. (CHOOSE v \in Undoers(n)' : TRUE) = u
    BY <1>1, <2>1
  <2> QED
    BY <1>1, <1>3, <2>1, <2>4, <2>5 DEF Taken
<1> QED
  BY <1>2, <1>3

(* A step that is not at the counter leaves what is due, but for the visits it adds.                    *)
LEMMA DueElsewhere ==
  ASSUME TypeOK, TypeOK', NEW t \in Threads, OnlyMoves(t), NEW n \in Nodes,
         dirtyCounter'[n] = dirtyCounter[n],
         pc[t] \notin {"stats", "undo"} \/ Node(t) # n,
         pc'[t] \notin {"stats", "undo"} \/ Node(t)' # n
  PROVE  Due(n)' = Due(n) + visits'[n] - visits[n]
<1>1. t \notin Undoers(n) /\ t \notin Undoers(n)' /\ t \notin AtStats(n) /\ t \notin AtStats(n)'
  BY OtherCounters
<1>2. Taken(n)' = Taken(n) /\ AtStats(n)' = AtStats(n)
  BY <1>1, TakenSame, OtherCounters
<1>3. visits'[n] \in Nat
  BY DEF TypeOK
<1>4. /\ Due(n) = visits[n] + dirtyCounter[n] - Taken(n) + Cardinality(AtStats(n))
      /\ Due(n)' = visits'[n] + dirtyCounter[n] - Taken(n) + Cardinality(AtStats(n))
  BY <1>2 DEF Due
<1> QED
  BY <1>3, <1>4, DueType

(* A thread is the only one at a node's counter when it updates the node's statistics.                   *)
LEMMA OnlyUpdater ==
  ASSUME DirtyInv, NEW t \in Threads, Updates(t), NEW n, n = Node(t)
  PROVE  \A u \in Threads \ {t} : u \notin Undoers(n)
BY DEF DirtyInv, Updates, Undoers

(* What is due to a node changes only when a visit is counted, whichever thread adds it.                  *)
LEMMA CountsStep ==
  ASSUME Inv, TypeOK', NEW t \in Threads, Counts(t), NEW n \in Nodes
  PROVE  Due(n)' = Due(n) + (IF n = Node(t) THEN 1 ELSE 0)
<1>1. TypeOK /\ OnlyMoves(t)
  <2>1. Thread(t)
    BY DEF Counts, Thread, Leaf, Choose, ComeBack
  <2> QED
    BY <2>1, ThreadMoves DEF Inv
<1>2. pc \in [Threads -> ThreadPcs] /\ visits \in [Nodes -> Nat]
  BY <1>1 DEF TypeOK
<1>3. Node(t)' = Node(t) /\ Node(t) \in Nodes /\ UNCHANGED dirtyCounter
  <2>1. Stays(t)
    BY DEF Counts, Stays, Leaf
  <2>2. UNCHANGED dirtyCounter
    BY DEF Counts, VisitTerminal, AddLeafValue, SelectNone, CatchUp, CountEdgeVisit
  <2> QED
    BY <2>1, <2>2, StayingCalls
<1>4. CASE VisitTerminal(t) \/ AddLeafValue(t) \/ SelectNone(t)
  <2>1. pc[t] \notin {"stats", "undo"} /\ pc'[t] \notin {"stats", "undo"}
    BY <1>2, <1>4 DEF VisitTerminal, AddLeafValue, SelectNone, GoTo, ReturnWith, At
  <2>2. visits' = [visits EXCEPT ![Node(t)] = @ + 1]
    BY <1>4 DEF VisitTerminal, AddLeafValue, SelectNone
  <2>3. visits'[n] = visits[n] + IF n = Node(t) THEN 1 ELSE 0
    BY <1>2, <1>3, <2>2
  <2>4. Due(n)' = Due(n) + visits'[n] - visits[n]
    BY <1>1, <1>3, <2>1, DueElsewhere
  <2> QED
    BY <1>1, <2>3, <2>4, DueType
<1>5. CASE CatchUp(t) \/ CountEdgeVisit(t)
  <2>1. pc[t] \in {"catchUp", "edge"} /\ pc'[t] = "stats" /\ UNCHANGED visits
    BY <1>2, <1>5 DEF CatchUp, CountEdgeVisit, GoTo, At
  <2>2. CASE n # Node(t)
    <3>1. Due(n)' = Due(n) + visits'[n] - visits[n]
      BY <1>1, <1>3, <2>2, DueElsewhere
    <3> QED
      BY <1>1, <2>1, <2>2, <3>1, DueType
  <2>3. CASE n = Node(t)
    <3>1. t \notin Undoers(n) /\ t \notin Undoers(n)'
      BY <1>1, <2>1, OtherCounters
    <3>2. t \notin AtStats(n) /\ AtStats(n)' = AtStats(n) \cup {t}
      BY <1>1, <1>3, <2>1, <2>3, OtherCounters
    <3>3. Cardinality(AtStats(n)') = Cardinality(AtStats(n)) + 1
      BY <1>1, <3>2, DueType, FS_AddElement
    <3>4. Taken(n)' = Taken(n)
      BY <1>1, <3>1, TakenSame
    <3>5. /\ Due(n) = visits[n] + dirtyCounter[n] - Taken(n) + Cardinality(AtStats(n))
          /\ Due(n)' = visits[n] + dirtyCounter[n] - Taken(n) + Cardinality(AtStats(n)')
      BY <1>3, <2>1, <3>4 DEF Due
    <3> QED
      BY <1>1, <2>3, <3>3, <3>5, DueType
  <2> QED
    BY <2>2, <2>3
<1> QED
  BY <1>4, <1>5 DEF Counts

(* A thread that marks the node turns its visit that is to be marked into one that is marked.*)
LEMMA MarkDirtyDue ==
  ASSUME Inv, TypeOK', NEW t \in Threads, MarkDirty(t), NEW n \in Nodes
  PROVE  Due(n)' = Due(n)
<1>1. TypeOK /\ OnlyMoves(t)
  <2>1. Thread(t)
    BY DEF Thread, ComeBack
  <2> QED
    BY <2>1, ThreadMoves DEF Inv
<1>2. Node(t)' = Node(t) /\ Node(t) \in Nodes
  BY StayingCalls DEF Stays
<1>3. /\ pc[t] = "stats" /\ pc'[t] \notin {"stats", "undo"} /\ UNCHANGED visits
      /\ dirtyCounter' = [dirtyCounter EXCEPT ![Node(t)] = @ + 1]
  <2>1. pc \in [Threads -> ThreadPcs]
    BY <1>1 DEF TypeOK
  <2> QED
    BY <2>1 DEF MarkDirty, GoTo, ReturnWith, At
<1>4. dirtyCounter'[n] = dirtyCounter[n] + IF n = Node(t) THEN 1 ELSE 0
  <2>1. dirtyCounter \in [Nodes -> Int]
    BY <1>1 DEF TypeOK
  <2> QED
    BY <1>2, <1>3, <2>1
<1>5. CASE n # Node(t)
  <2>1. dirtyCounter'[n] = dirtyCounter[n]
    BY <1>1, <1>4, <1>5, DueType
  <2>2. Due(n)' = Due(n) + visits'[n] - visits[n]
    BY <1>1, <1>2, <1>5, <2>1, DueElsewhere
  <2> QED
    BY <1>1, <1>3, <2>2, DueType
<1>6. CASE n = Node(t)
  <2>1. t \notin Undoers(n) /\ t \notin Undoers(n)'
    BY <1>1, <1>3, OtherCounters
  <2>2. t \in AtStats(n) /\ AtStats(n)' = AtStats(n) \ {t}
    BY <1>1, <1>3, <1>6, OtherCounters
  <2>3. Cardinality(AtStats(n)') = Cardinality(AtStats(n)) - 1
    BY <1>1, <2>2, DueType, FS_RemoveElement
  <2>4. Taken(n)' = Taken(n)
    BY <1>1, <2>1, TakenSame
  <2>5. /\ Due(n) = visits[n] + dirtyCounter[n] - Taken(n) + Cardinality(AtStats(n))
        /\ Due(n)' = visits[n] + dirtyCounter'[n] - Taken(n) + Cardinality(AtStats(n)')
    BY <1>3, <2>4 DEF Due
  <2> QED
    BY <1>1, <1>4, <1>6, <2>3, <2>5, DueType
<1> QED
  BY <1>5, <1>6

(* A thread that adds the marked visits to the node has them still to take off the counter.  *)
LEMMA RecomputeDue ==
  ASSUME Inv, TypeOK', DirtyInv, NEW t \in Threads, RecomputeNodeStats(t), NEW n \in Nodes
  PROVE  Due(n)' = Due(n)
<1>1. TypeOK /\ OnlyMoves(t)
  <2>1. Thread(t)
    BY DEF Thread, ComeBack
  <2> QED
    BY <2>1, ThreadMoves DEF Inv
<1>2. Node(t)' = Node(t) /\ Node(t) \in Nodes
  BY StayingCalls DEF Stays
<1>3. /\ pc[t] = "recompute" /\ pc'[t] = "undo" /\ UNCHANGED <<dirtyCounter, completed>>
      /\ visits' = [visits EXCEPT ![Node(t)] = @ + completed[t]]
  <2>1. pc \in [Threads -> ThreadPcs]
    BY <1>1 DEF TypeOK
  <2> QED
    BY <2>1 DEF RecomputeNodeStats, GoTo, At
<1>4. visits'[n] = IF n = Node(t) THEN visits[n] + completed[t] ELSE visits[n]
  <2>1. visits \in [Nodes -> Nat]
    BY <1>1 DEF TypeOK
  <2> QED
    BY <1>2, <1>3, <2>1
<1>5. CASE n # Node(t)
  <2>1. Due(n)' = Due(n) + visits'[n] - visits[n]
    BY <1>1, <1>2, <1>3, <1>5, DueElsewhere
  <2> QED
    BY <1>1, <1>4, <1>5, <2>1, DueType
<1>6. CASE n = Node(t)
  <2>1. Undoers(n) = {} /\ Undoers(n)' = {t}
    <3>1. \A u \in Threads \ {t} : u \notin Undoers(n)
      BY <1>3, <1>6, OnlyUpdater DEF Updates
    <3>2. t \notin Undoers(n) /\ t \in Undoers(n)'
      BY <1>1, <1>2, <1>3, <1>6, OtherCounters
    <3>3. \A u \in Undoers(n) : u \in Threads
      BY DEF Undoers
    <3> QED
      BY <1>1, <3>1, <3>2, <3>3, OtherCounters
  <2>2. Taken(n) = 0 /\ Taken(n)' = completed[t]
    <3>1. (CHOOSE u \in Undoers(n)' : TRUE) = t
      BY <2>1
    <3> QED
      BY <1>3, <2>1, <3>1 DEF Taken
  <2>3. AtStats(n)' = AtStats(n)
    <3>1. t \notin AtStats(n) /\ t \notin AtStats(n)'
      BY <1>1, <1>3, OtherCounters
    <3>2. \A u : u # t => (u \in AtStats(n)' <=> u \in AtStats(n))
      BY <1>1, OtherCounters
    <3> QED
      BY <3>1, <3>2
  <2>4. completed[t] \in Int
    BY <1>1 DEF TypeOK
  <2>5. /\ Due(n) = visits[n] + dirtyCounter[n] - 0 + Cardinality(AtStats(n))
        /\ Due(n)' = visits'[n] + dirtyCounter[n] - completed[t] + Cardinality(AtStats(n))
    BY <1>3, <2>2, <2>3 DEF Due
  <2> QED
    BY <1>1, <1>4, <1>6, <2>4, <2>5, DueType
<1> QED
  BY <1>5, <1>6

(* A thread that takes them off the counter ends that.                                       *)
LEMMA UndoDue ==
  ASSUME Inv, TypeOK', DirtyInv, NEW t \in Threads, UndoDirty(t), NEW n \in Nodes
  PROVE  Due(n)' = Due(n)
<1>1. TypeOK /\ OnlyMoves(t)
  <2>1. Thread(t)
    BY DEF Thread, ComeBack
  <2> QED
    BY <2>1, ThreadMoves DEF Inv
<1>2. Node(t)' = Node(t) /\ Node(t) \in Nodes
  BY StayingCalls DEF Stays
<1>3. /\ pc[t] = "undo" /\ pc'[t] \notin {"stats", "undo"} /\ UNCHANGED visits
      /\ dirtyCounter' = [dirtyCounter EXCEPT ![Node(t)] = dirtyCounter[Node(t)] - completed[t]]
  <2>1. pc \in [Threads -> ThreadPcs]
    BY <1>1 DEF TypeOK
  <2> QED
    BY <2>1 DEF UndoDirty, GoTo, ReturnWith, At
<1>4. dirtyCounter'[n] = IF n = Node(t) THEN dirtyCounter[n] - completed[t] ELSE dirtyCounter[n]
  <2>1. dirtyCounter \in [Nodes -> Int]
    BY <1>1 DEF TypeOK
  <2> QED
    BY <1>2, <1>3, <2>1
<1>5. CASE n # Node(t)
  <2>1. Due(n)' = Due(n) + visits'[n] - visits[n]
    BY <1>1, <1>2, <1>4, <1>5, DueElsewhere
  <2> QED
    BY <1>1, <1>3, <2>1, DueType
<1>6. CASE n = Node(t)
  <2>1. Undoers(n) = {t} /\ Undoers(n)' = {}
    <3>1. \A u \in Threads \ {t} : u \notin Undoers(n)
      BY <1>3, <1>6, OnlyUpdater DEF Updates
    <3>2. t \in Undoers(n) /\ t \notin Undoers(n)'
      BY <1>1, <1>3, <1>6, OtherCounters
    <3>3. \A u \in Undoers(n) : u \in Threads
      BY DEF Undoers
    <3> QED
      BY <1>1, <3>1, <3>2, <3>3, OtherCounters
  <2>2. Taken(n) = completed[t] /\ Taken(n)' = 0
    <3>1. (CHOOSE u \in Undoers(n) : TRUE) = t
      BY <2>1
    <3> QED
      BY <2>1, <3>1 DEF Taken
  <2>3. AtStats(n)' = AtStats(n)
    <3>1. t \notin AtStats(n) /\ t \notin AtStats(n)'
      BY <1>1, <1>3, OtherCounters
    <3>2. \A u : u # t => (u \in AtStats(n)' <=> u \in AtStats(n))
      BY <1>1, OtherCounters
    <3> QED
      BY <3>1, <3>2
  <2>4. completed[t] \in Int
    BY <1>1 DEF TypeOK
  <2>5. /\ Due(n) = visits[n] + dirtyCounter[n] - completed[t] + Cardinality(AtStats(n))
        /\ Due(n)' = visits[n] + dirtyCounter'[n] - 0 + Cardinality(AtStats(n))
    BY <1>3, <2>2, <2>3 DEF Due
  <2> QED
    BY <1>1, <1>4, <1>6, <2>4, <2>5, DueType
<1> QED
  BY <1>5, <1>6

(* So every step of a thread leaves what is due, but for the visit that it counts.           *)
LEMMA DueStep ==
  ASSUME Inv, TypeOK', DirtyInv, NEW t \in Threads, Thread(t), NEW n \in Nodes
  PROVE  Due(n)' = Due(n) + (IF Counts(t) /\ n = Node(t) THEN 1 ELSE 0)
<1>1. TypeOK /\ OnlyMoves(t)
  BY ThreadMoves DEF Inv
<1>2. Due(n) \in Int
  BY <1>1, DueType
<1>3. CASE Counts(t)
  BY <1>3, CountsStep
<1>4. MarkDirty(t) \/ RecomputeNodeStats(t) \/ UndoDirty(t) => ~Counts(t)
  BY DEF Counts, MarkDirty, RecomputeNodeStats, UndoDirty, VisitTerminal, AddLeafValue, SelectNone,
         CatchUp, CountEdgeVisit, At
<1>5. CASE MarkDirty(t)
  BY <1>2, <1>4, <1>5, MarkDirtyDue
<1>6. CASE RecomputeNodeStats(t)
  BY <1>2, <1>4, <1>6, RecomputeDue
<1>7. CASE UndoDirty(t)
  BY <1>2, <1>4, <1>7, UndoDue
<1>8. CASE /\ ~Counts(t) /\ UNCHANGED <<visits, dirtyCounter, completed>>
           /\ pc[t] \notin {"stats", "recompute", "undo"}
           /\ pc'[t] \notin {"stats", "recompute", "undo"}
  <2>1. Due(n)' = Due(n) + visits'[n] - visits[n]
    BY <1>1, <1>8, DueElsewhere
  <2> QED
    BY <1>1, <1>8, <2>1, DueType
<1> QED
  BY <1>1, <1>3, <1>5, <1>6, <1>7, <1>8, CountKinds DEF Counts

(* A playout that has counted its visit at the root, or found that another will, and is not over.          *)
Counted(t) ==
  /\ Len(path[t]) = 1
  /\ \/ pc[t] \in {"claim", "expand", "stats", "recompute", "undo"}
     \/ pc[t] = "return" /\ finished[t]
CountedPlayouts == {t \in Threads : Counted(t)}

(* What is due to the root is what it had before the search, the playouts of the search that are over,      *)
(* and those that are counted but not over.                                                                  *)
RootInv == Due(Root) = numNonPlayoutVisits + numPlayoutsShared + Cardinality(CountedPlayouts)

(* Only a thread's first call is on the root.                                                                 *)
LEMMA AtRoot ==
  ASSUME TypeOK, NEW t \in Threads, CallsInv(t), path[t] # <<>>
  PROVE  Node(t) = Root <=> Len(path[t]) = 1
<1>1. Len(path[t]) \in Nat \ {0} /\ Len(path[t]) \in 1..Len(path[t])
  BY TopFrame
<1>2. Node(t) = path[t][Len(path[t])].node
  BY DEF Node, Top
<1>3. Plies[Node(t)] = Plies[Root] + Len(path[t]) - 1 /\ path[t][1].node = Root
  BY <1>1, <1>2 DEF CallsInv
<1>4. Plies[Root] \in Nat
  BY PliesType, GraphAssumption DEF GraphAssumption
<1>5. ASSUME Node(t) = Root PROVE Len(path[t]) = 1
  <2>1. PICK p : p = Plies[Root]
    OBVIOUS
  <2>2. PICK l : l = Len(path[t])
    OBVIOUS
  <2>3. p = p + l - 1 /\ p \in Nat /\ l \in Nat
    BY <1>1, <1>3, <1>4, <1>5, <2>1, <2>2
  <2>4. l = 1
    BY <2>3
  <2> QED
    BY <2>2, <2>4
<1>6. ASSUME Len(path[t]) = 1 PROVE Node(t) = Root
  BY <1>2, <1>3, <1>6
<1> QED
  BY <1>5, <1>6

(* A step of a thread's playout that stays in its calls makes it counted if it counts a visit, and keeps it *)
(* counted or not otherwise.                                                                                 *)
LEMMA StayingCounted ==
  ASSUME Inv, TypeOK', OwnInv, NEW t \in Threads, Stays(t)
  PROVE  /\ Counts(t) => ~Counted(t) /\ (Counted(t)' <=> Len(path[t]) = 1)
         /\ ~Counts(t) => (Counted(t)' <=> Counted(t))
<1>1. /\ pc \in [Threads -> ThreadPcs] /\ finished \in [Threads -> BOOLEAN]
  BY DEF Inv, TypeOK
<1>2. Len(path'[t]) = Len(path[t]) /\ Node(t) \in Nodes
  BY StayingCalls DEF SameCalls
<1> DEFINE Marked  == pc[t] \in {"claim", "expand", "stats", "recompute", "undo"}
           Marked1 == pc'[t] \in {"claim", "expand", "stats", "recompute", "undo"}
<1>3. CASE Counts(t)
  <2>1. /\ ~Marked /\ pc[t] # "return"
        /\ Marked1 \/ (pc'[t] = "return" /\ finished'[t])
    BY <1>1, <1>3 DEF Counts, VisitTerminal, AddLeafValue, SelectNone, CatchUp, CountEdgeVisit, GoTo,
                      ReturnWith, At
  <2> QED
    BY <1>2, <1>3, <2>1 DEF Counted
<1> SUFFICES ASSUME ~Counts(t) PROVE Counted(t)' <=> Counted(t)
  BY <1>3
<1>4. CASE Leaf(t)
  <2>1. CASE Visit(t) \/ Evaluate(t)
    <3>1. ~Marked /\ pc[t] # "return" /\ ~Marked1 /\ (pc'[t] = "return" => ~finished'[t])
      BY <1>1, <2>1 DEF Visit, Evaluate, GoTo, ReturnWith, At
    <3> QED
      BY <3>1 DEF Counted
  <2>2. CASE ClaimNode(t)
    <3>1. Marked
      BY <2>2 DEF ClaimNode, At
    <3>2. state[Node(t)] = UNEVALUATED
      BY <2>2 DEF ClaimNode, At, OwnInv
    <3>3. Marked1
      BY <1>1, <2>2, <3>2 DEF ClaimNode, GoTo
    <3> QED
      BY <1>2, <3>1, <3>3 DEF Counted
  <2>3. CASE ExpandNode(t)
    <3>1. Marked /\ pc'[t] = "return"
      BY <1>1, <2>3 DEF ExpandNode, ReturnWith, GoTo, At
    <3>2. finished'[t]
      BY <1>1, <2>3 DEF ExpandNode, ReturnWith
    <3> QED
      BY <1>2, <3>1, <3>2 DEF Counted
  <2> QED
    BY <1>4, <2>1, <2>2, <2>3 DEF Leaf, Counts
<1>5. CASE SelectNew(t) \/ ClaimGrowth(t) \/ ReloadState(t) \/ CopyChild(t)
  <2>1. ~Marked /\ pc[t] # "return" /\ ~Marked1 /\ pc'[t] # "return"
    BY <1>1, <1>5 DEF SelectNew, ClaimGrowth, ReloadState, CopyChild, GoTo, At
  <2> QED
    BY <2>1 DEF Counted
<1>6. CASE PublishChildren(t) \/ ReloadForEdge(t) \/ InsertChild(t)
  <2>1. ~Marked /\ pc[t] # "return" /\ ~Marked1 /\ (pc'[t] = "return" => ~finished'[t])
    BY <1>1, <1>6 DEF PublishChildren, ReloadForEdge, InsertChild, GoTo, ReturnWith, At
  <2> QED
    BY <2>1 DEF Counted
<1>7. CASE MarkDirty(t) \/ RecomputeNodeStats(t) \/ UndoDirty(t)
  <2>1. Marked /\ (Marked1 \/ (pc'[t] = "return" /\ finished'[t]))
    BY <1>1, <1>7 DEF MarkDirty, RecomputeNodeStats, UndoDirty, GoTo, ReturnWith, At
  <2> QED
    BY <1>2, <2>1 DEF Counted
<1> QED
  BY <1>4, <1>5, <1>6, <1>7 DEF Stays, Counts

(* The other steps of a playout.                                                                              *)
LEMMA MovingCounted ==
  ASSUME Inv, ShapeInv, NEW t \in Threads,
         \/ BeginTask(t) \/ StopSearching(t) \/ BeginPlayout(t) \/ Descend(t)
         \/ Return(t) /\ Pops(t)
         \/ \E c : Takes(t, c)
  PROVE  ~Counted(t) /\ ~Counted(t)'
<1>1. /\ pc \in [Threads -> ThreadPcs] /\ finished \in [Threads -> BOOLEAN]
  BY DEF Inv, TypeOK
<1>2. CASE BeginTask(t) \/ StopSearching(t) \/ BeginPlayout(t) \/ Descend(t)
  <2>1. /\ pc[t] \in {"start", "loop", "catchUp"}
        /\ pc'[t] \in {"loop", "ended", "visit"}
    BY <1>1, <1>2 DEF BeginTask, StopSearching, BeginPlayout, Descend, GoTo, At
  <2> QED
    BY <2>1 DEF Counted
<1>3. CASE Return(t) /\ Pops(t)
  <2>1. UNCHANGED finished
    BY <1>3 DEF Return
  <2>2. pc'[t] = IF finished[t] THEN "edgeState" ELSE "return"
    BY <1>3 DEF Pops
  <2>3. ~Counted(t)
    <3>1. path[t] \in Seq(Frames) /\ Len(path[t]) > 1
      BY <1>3 DEF Pops, Inv, TypeOK
    <3>2. 2 \in DOMAIN path[t]
      BY <3>1
    <3>3. Len(path[t]) # 1
      BY <3>2
    <3> QED
      BY <3>3 DEF Counted
  <2>4. ~Counted(t)'
    BY <2>1, <2>2 DEF Counted
  <2> QED
    BY <2>3, <2>4
<1>4. CASE \E c : Takes(t, c)
  BY <1>4 DEF Takes, Counted
<1> QED
  BY <1>2, <1>3, <1>4

(* A step of one thread leaves whether the playouts of the others are counted.               *)
LEMMA OthersCounted ==
  ASSUME NEW t \in Threads, OnlyMoves(t), Thread(t), TypeOK
  PROVE  \A u \in Threads \ {t} : Counted(u)' <=> Counted(u)
<1>1. \A u \in Threads \ {t} : finished'[u] = finished[u]
  <2>1. finished \in [Threads -> BOOLEAN]
    BY DEF TypeOK
  <2>2. CASE BeginTask(t) \/ StopSearching(t) \/ BeginPlayout(t) \/ EndPlayout(t)
    BY <2>1, <2>2 DEF BeginTask, StopSearching, BeginPlayout, EndPlayout
  <2>3. CASE Leaf(t)
    BY <2>1, <2>3 DEF Leaf, VisitTerminal, Visit, Evaluate, AddLeafValue, ClaimNode, ExpandNode, ReturnWith
  <2>4. CASE Choose(t)
    BY <2>1, <2>4 DEF Choose, SelectExisting, SelectNew, SelectNone, ClaimGrowth, ReloadState, CopyChild,
                      PublishChildren, InsertChild, ReturnWith
  <2>5. CASE ComeBack(t)
    BY <2>1, <2>5 DEF ComeBack, CatchUp, Descend, ReloadForEdge, CountEdgeVisit, MarkDirty,
                      RecomputeNodeStats, UndoDirty, Return, ReturnWith
  <2> QED
    BY <2>2, <2>3, <2>4, <2>5 DEF Thread
<1> QED
  BY <1>1 DEF OnlyMoves, Counted

(* How many playouts are counted.                                                                             *)
LEMMA CountedSize ==
  /\ IsFiniteSet(CountedPlayouts) /\ Cardinality(CountedPlayouts) \in Nat
  /\ IsFiniteSet(CountedPlayouts') /\ Cardinality(CountedPlayouts') \in Nat
<1>1. CountedPlayouts \subseteq Threads /\ CountedPlayouts' \subseteq Threads
  BY DEF CountedPlayouts
<1> QED
  BY <1>1, FS_Subset, FS_CardinalityType, SizeAssumption DEF SizeAssumption

(* How many playouts are counted depends on the thread that moves.                           *)
LEMMA CountedChange ==
  ASSUME NEW t \in Threads, \A u \in Threads \ {t} : Counted(u)' <=> Counted(u)
  PROVE  /\ (Counted(t)' <=> Counted(t)) => CountedPlayouts' = CountedPlayouts
         /\ Counted(t)' /\ ~Counted(t) =>
              Cardinality(CountedPlayouts') = Cardinality(CountedPlayouts) + 1
         /\ ~Counted(t)' /\ Counted(t) =>
              Cardinality(CountedPlayouts') = Cardinality(CountedPlayouts) - 1
<1>1. \A u \in Threads \ {t} : u \in CountedPlayouts' <=> u \in CountedPlayouts
  BY DEF CountedPlayouts
<1>2. /\ CountedPlayouts' \subseteq Threads /\ CountedPlayouts \subseteq Threads
      /\ t \in CountedPlayouts <=> Counted(t)
      /\ t \in CountedPlayouts' <=> Counted(t)'
  BY DEF CountedPlayouts
<1>3. ASSUME Counted(t)' <=> Counted(t) PROVE CountedPlayouts' = CountedPlayouts
  BY <1>1, <1>2, <1>3
<1>4. ASSUME Counted(t)', ~Counted(t)
      PROVE  Cardinality(CountedPlayouts') = Cardinality(CountedPlayouts) + 1
  <2>1. CountedPlayouts' = CountedPlayouts \cup {t} /\ t \notin CountedPlayouts
    BY <1>1, <1>2, <1>4
  <2> QED
    BY <2>1, CountedSize, FS_AddElement
<1>5. ASSUME ~Counted(t)', Counted(t)
      PROVE  Cardinality(CountedPlayouts') = Cardinality(CountedPlayouts) - 1
  <2>1. CountedPlayouts' = CountedPlayouts \ {t} /\ t \in CountedPlayouts
    BY <1>1, <1>2, <1>5
  <2> QED
    BY <2>1, CountedSize, FS_RemoveElement
<1> QED
  BY <1>3, <1>4, <1>5

(* A playout that ends was counted if it finished, and only then.                                             *)
LEMMA EndPlayoutCounted ==
  ASSUME Inv, NEW t \in Threads, EndPlayout(t)
  PROVE  (Counted(t) <=> finished[t]) /\ ~Counted(t)' /\ ~Counts(t)
<1>1. pc \in [Threads -> ThreadPcs]
  BY DEF Inv, TypeOK
<1>2. pc[t] = "return" /\ Len(path[t]) = 1 /\ pc'[t] = "loop"
  BY <1>1 DEF EndPlayout, At, GoTo
<1>3. ~Counted(t)'
  BY <1>2 DEF Counted
<1>4. Counted(t) <=> finished[t]
  BY <1>2 DEF Counted
<1>5. ~Counts(t)
  BY <1>2 DEF Counts, VisitTerminal, AddLeafValue, SelectNone, CatchUp, CountEdgeVisit, At
<1> QED
  BY <1>3, <1>4, <1>5

(* No other step changes how many playouts the search has made, or what the root had before.                  *)
LEMMA SearchCounters ==
  ASSUME NEW t \in Threads, Thread(t)
  PROVE  UNCHANGED numNonPlayoutVisits /\ (EndPlayout(t) \/ UNCHANGED numPlayoutsShared)
<1>1. CASE BeginTask(t) \/ StopSearching(t) \/ BeginPlayout(t) \/ EndPlayout(t)
  BY <1>1 DEF BeginTask, StopSearching, BeginPlayout, EndPlayout, searchVars
<1>2. CASE Leaf(t)
  BY <1>2 DEF Leaf, VisitTerminal, Visit, Evaluate, AddLeafValue, ClaimNode, ExpandNode, searchVars
<1>3. CASE Choose(t)
  BY <1>3 DEF Choose, SelectExisting, SelectNew, SelectNone, ClaimGrowth, ReloadState, CopyChild,
              PublishChildren, InsertChild, searchVars
<1>4. CASE ComeBack(t)
  BY <1>4 DEF ComeBack, CatchUp, Descend, ReloadForEdge, CountEdgeVisit, MarkDirty, RecomputeNodeStats,
              UndoDirty, Return, searchVars
<1> QED
  BY <1>1, <1>2, <1>3, <1>4 DEF Thread

(* A step of a thread leaves the root with the visits of the search's playouts.              *)
LEMMA RootThread ==
  ASSUME Inv, TypeOK', ShapeInv, OwnInv, DirtyInv, RootInv, NEW t \in Threads, Thread(t)
  PROVE  RootInv'
<1>1. /\ TypeOK /\ OnlyMoves(t) /\ CallsInv(t) /\ ChildrenBelow /\ Root \in Nodes
      /\ numPlayoutsShared \in Nat /\ numNonPlayoutVisits \in Nat
  BY ThreadMoves, GraphAssumption DEF Inv, ShapeInv, GraphAssumption, TypeOK
<1>2. Due(Root) \in Int /\ Cardinality(CountedPlayouts) \in Nat
  BY <1>1, DueType, CountedSize
<1>3. /\ Due(Root)' = Due(Root) + (IF Counts(t) /\ Root = Node(t) THEN 1 ELSE 0)
      /\ Due(Root) = numNonPlayoutVisits + numPlayoutsShared + Cardinality(CountedPlayouts)
  BY <1>1, DueStep DEF RootInv
<1>4. \A u \in Threads \ {t} : Counted(u)' <=> Counted(u)
  BY <1>1, OthersCounted
<1>5. UNCHANGED numNonPlayoutVisits /\ (EndPlayout(t) \/ UNCHANGED numPlayoutsShared)
  BY SearchCounters
<1>6. CASE EndPlayout(t)
  <2>1. /\ Counted(t) <=> finished[t]
        /\ ~Counted(t)' /\ ~Counts(t)
    BY <1>6, EndPlayoutCounted
  <2>2. numPlayoutsShared' = IF finished[t] THEN numPlayoutsShared + 1 ELSE numPlayoutsShared
    BY <1>6 DEF EndPlayout
  <2>3. Due(Root)' = Due(Root)
    BY <1>2, <1>3, <2>1
  <2>4. CASE finished[t]
    <3>1. Cardinality(CountedPlayouts') = Cardinality(CountedPlayouts) - 1
      BY <1>4, <2>1, <2>4, CountedChange
    <3>2. numPlayoutsShared' = numPlayoutsShared + 1
      BY <2>2, <2>4
    <3> QED
      BY <1>1, <1>2, <1>3, <1>5, <2>3, <3>1, <3>2 DEF RootInv
  <2>5. CASE ~finished[t]
    <3>1. CountedPlayouts' = CountedPlayouts
      BY <1>4, <2>1, <2>5, CountedChange
    <3>2. numPlayoutsShared' = numPlayoutsShared
      BY <2>2, <2>5
    <3> QED
      BY <1>3, <1>5, <2>3, <3>1, <3>2 DEF RootInv
  <2> QED
    BY <2>4, <2>5
<1>7. CASE UNCHANGED numPlayoutsShared /\ ~Counts(t) /\ (Counted(t)' <=> Counted(t))
  <2>1. Due(Root)' = Due(Root)
    BY <1>2, <1>3, <1>7
  <2>2. CountedPlayouts' = CountedPlayouts
    BY <1>4, <1>7, CountedChange
  <2> QED
    BY <1>3, <1>5, <1>7, <2>1, <2>2 DEF RootInv
<1>8. CASE UNCHANGED numPlayoutsShared /\ Stays(t)
  <2>1. /\ Counts(t) => ~Counted(t) /\ (Counted(t)' <=> Len(path[t]) = 1)
        /\ ~Counts(t) => (Counted(t)' <=> Counted(t))
    BY <1>8, StayingCounted
  <2>2. Node(t) = Root <=> Len(path[t]) = 1
    BY <1>1, <1>8, StayingCalls, AtRoot DEF SameCalls
  <2>3. CASE ~Counts(t)
    BY <1>7, <1>8, <2>1, <2>3
  <2>4. CASE Counts(t) /\ Node(t) = Root
    <3>1. Due(Root)' = Due(Root) + 1
      BY <1>3, <2>4
    <3>2. Cardinality(CountedPlayouts') = Cardinality(CountedPlayouts) + 1
      BY <1>4, <2>1, <2>2, <2>4, CountedChange
    <3> QED
      BY <1>1, <1>2, <1>3, <1>5, <1>8, <3>1, <3>2 DEF RootInv
  <2>5. CASE Counts(t) /\ Node(t) # Root
    <3>1. Due(Root)' = Due(Root)
      BY <1>2, <1>3, <2>5
    <3>2. CountedPlayouts' = CountedPlayouts
      BY <1>4, <2>1, <2>2, <2>5, CountedChange
    <3> QED
      BY <1>3, <1>5, <1>8, <3>1, <3>2 DEF RootInv
  <2> QED
    BY <2>3, <2>4, <2>5
<1>9. CASE /\ UNCHANGED numPlayoutsShared
           /\ \/ BeginTask(t) \/ StopSearching(t) \/ BeginPlayout(t) \/ Descend(t)
              \/ Return(t) /\ Pops(t)
              \/ \E c : Takes(t, c)
  <2>1. ~Counted(t) /\ ~Counted(t)'
    BY <1>9, MovingCounted
  <2>2. CASE Counts(t)
    <3>1. Stays(t)
      BY <2>2 DEF Counts, Stays, Leaf
    <3> QED
      BY <1>8, <1>9, <3>1
  <2> QED
    BY <1>7, <1>9, <2>1, <2>2
<1> QED
  BY <1>1, <1>5, <1>6, <1>8, <1>9, StepKinds

(* Before and after a search nothing is due that the root does not have.                                        *)
LEMMA IdleDue ==
  ASSUME TypeOK, DirtyInv, \A t \in Threads : pc[t] \in {"idle", "ended"}
  PROVE  /\ \A n \in Nodes : Due(n) = visits[n] /\ dirtyCounter[n] = 0
         /\ Cardinality(CountedPlayouts) = 0
<1>1. \A n : Undoers(n) = {} /\ AtStats(n) = {}
  BY DEF Undoers, AtStats
<1>2. ASSUME NEW n \in Nodes PROVE Due(n) = visits[n] /\ dirtyCounter[n] = 0
  <2>1. dirtyCounter[n] >= 0 /\ ~(dirtyCounter[n] > 0)
    BY DEF DirtyInv, Updates
  <2>2. dirtyCounter[n] = 0
    BY <2>1, DueType
  <2>3. Taken(n) = 0 /\ Cardinality(AtStats(n)) = 0
    BY <1>1, FS_EmptySet DEF Taken
  <2>4. Due(n) = visits[n] + 0 - 0 + 0
    BY <2>2, <2>3 DEF Due
  <2> QED
    BY <2>2, <2>4, DueType
<1>3. CountedPlayouts = {}
  BY DEF CountedPlayouts, Counted
<1> QED
  BY <1>2, <1>3, FS_EmptySet

(* So does a step of the search, which takes what the root has as what it had before.        *)
LEMMA RootGlobal == ASSUME Inv, TypeOK', DirtyInv, RootInv, Global PROVE RootInv'
<1>1. TypeOK /\ DirtyInv' /\ Root \in Nodes
  BY DirtyGlobal, GraphAssumption DEF Inv, GraphAssumption
<1>2. CASE BeginSearch
  <2>1. /\ \A t \in Threads : pc'[t] = "start"
        /\ numPlayoutsShared' = 0 /\ numNonPlayoutVisits' = visits[Root]
        /\ UNCHANGED <<visits, dirtyCounter>> /\ \A t \in Threads : pc[t] = "idle"
    BY <1>2 DEF BeginSearch, nodeVars, At
  <2>2. dirtyCounter'[Root] = 0
    BY <1>1, <2>1, IdleDue
  <2>3. Undoers(Root)' = {} /\ AtStats(Root)' = {} /\ CountedPlayouts' = {}
    BY <2>1 DEF Undoers, AtStats, CountedPlayouts, Counted
  <2>4. Taken(Root)' = 0 /\ Cardinality(AtStats(Root)') = 0 /\ Cardinality(CountedPlayouts') = 0
    BY <2>3, FS_EmptySet DEF Taken
  <2>5. Due(Root)' = visits[Root] + 0 - 0 + 0
    BY <2>1, <2>2, <2>4 DEF Due
  <2> QED
    BY <1>1, <2>1, <2>4, <2>5, DueType DEF RootInv
<1>3. CASE RequestStop
  <2>1. UNCHANGED <<visits, dirtyCounter, completed, pc, path, finished, numPlayoutsShared,
                    numNonPlayoutVisits>>
    BY <1>3 DEF RequestStop, nodeVars, threadVars
  <2>2. Due(Root)' = Due(Root)
    BY <2>1 DEF Due, Taken, Undoers, AtStats, Node, Top
  <2>3. CountedPlayouts' = CountedPlayouts
    BY <2>1 DEF CountedPlayouts, Counted
  <2> QED
    BY <2>1, <2>2, <2>3 DEF RootInv
<1>4. CASE EndSearch
  <2>1. /\ \A t \in Threads : pc[t] = "ended"
        /\ \A t \in Threads : pc'[t] = "idle"
        /\ UNCHANGED <<visits, dirtyCounter, numPlayoutsShared, numNonPlayoutVisits>>
    BY <1>4 DEF EndSearch, nodeVars, searchVars, At
  <2>2. Due(Root) = visits[Root] /\ dirtyCounter[Root] = 0 /\ Cardinality(CountedPlayouts) = 0
    BY <1>1, <2>1, IdleDue
  <2>3. Undoers(Root)' = {} /\ AtStats(Root)' = {} /\ CountedPlayouts' = {}
    BY <2>1 DEF Undoers, AtStats, CountedPlayouts, Counted
  <2>4. Taken(Root)' = 0 /\ Cardinality(AtStats(Root)') = 0 /\ Cardinality(CountedPlayouts') = 0
    BY <2>3, FS_EmptySet DEF Taken
  <2>5. Due(Root)' = visits[Root] + 0 - 0 + 0
    BY <2>1, <2>2, <2>4 DEF Due
  <2>6. visits[Root] \in Nat
    BY <1>1, DueType
  <2> QED
    BY <2>1, <2>2, <2>4, <2>5, <2>6 DEF RootInv
<1> QED
  BY <1>2, <1>3, <1>4 DEF Global

(* The accounts of a search: its calls, the nodes they hold, are at, and count visits of.                       *)
Accounts == ShapeInv /\ LossInv /\ OwnInv /\ DirtyInv /\ RootInv

(* The accounts are right in the beginning.                                                  *)
LEMMA InitAccounts == Init => Accounts
<1> SUFFICES ASSUME Init PROVE Accounts
  OBVIOUS
<1>1. TypeOK /\ Root \in Nodes
  BY InitInv, GraphAssumption DEF Inv, GraphAssumption
<1>2. /\ \A t \in Threads : pc[t] = "idle" /\ path[t] = <<>>
      /\ \A n \in Nodes : /\ state[n] = 0 /\ visits[n] = 0 /\ dirtyCounter[n] = 0
                          /\ virtualLosses[n] = 0
                          /\ \A a \in 0..2 : children[n][a] = NoArray
      /\ numPlayoutsShared = 0 /\ numNonPlayoutVisits = 0
  BY DEF Init, UNEVALUATED
<1>3. ShapeInv
  <2>1. ChildrenBelow
    BY <1>2 DEF ChildrenBelow, AllBelow, NoArray
  <2>2. ASSUME NEW t \in Threads PROVE CallsInv(t)
    <3>1. 1..Len(path[t]) = {}
      BY <1>2
    <3> QED
      BY <1>2, <3>1 DEF CallsInv, NoChildYet
  <2> QED
    BY <2>1, <2>2 DEF ShapeInv
<1>4. LossInv
  <2>1. ASSUME NEW n \in Nodes PROVE Holders(n) = {}
    <3>1. \A t \in Threads : Held(t, n) = {}
      BY <1>2 DEF Held
    <3> QED
      BY <3>1, HoldersMember
  <2> QED
    BY <1>2, <2>1, FS_EmptySet DEF LossInv
<1>5. OwnInv
  BY <1>2, StateValues DEF OwnInv, Evaluates
<1>6. DirtyInv
  BY <1>2 DEF DirtyInv, Updates
<1>7. RootInv
  <2>1. Due(Root) = visits[Root] /\ Cardinality(CountedPlayouts) = 0
    BY <1>1, <1>2, <1>6, IdleDue
  <2> QED
    BY <1>1, <1>2, <2>1 DEF RootInv
<1> QED
  BY <1>3, <1>4, <1>5, <1>6, <1>7 DEF Accounts

(* Every step leaves the accounts right.                                                     *)
LEMMA NextAccounts == Inv /\ Accounts /\ Next => Accounts'
<1> SUFFICES ASSUME Inv, Accounts, Next PROVE Accounts'
  OBVIOUS
<1>1. TypeOK' /\ ShapeInv /\ LossInv /\ OwnInv /\ DirtyInv /\ RootInv
  BY NextInv DEF Inv, Accounts
<1>2. ShapeInv' /\ LossInv'
  BY <1>1, ShapeStep, LossStep
<1>3. OwnInv' /\ DirtyInv' /\ RootInv'
  <2>1. CASE Global
    BY <1>1, <2>1, OwnGlobal, DirtyGlobal, RootGlobal
  <2>2. CASE \E t \in Threads : Thread(t)
    BY <1>1, <2>2, OwnThread, DirtyThread, RootThread
  <2> QED
    BY <2>1, <2>2, NextKinds
<1> QED
  BY <1>2, <1>3 DEF Accounts

(* The accounts are about the variables alone.                                               *)
LEMMA StutterAccounts == Accounts /\ UNCHANGED vars => Accounts'
<1> SUFFICES ASSUME Accounts, UNCHANGED vars PROVE Accounts'
  OBVIOUS
<1> USE DEF vars, nodeVars, searchVars, threadVars
<1>1. ShapeInv'
  BY DEF Accounts, ShapeInv, ChildrenBelow, AllBelow, CallsInv, Node, Top
<1>2. LossInv'
  BY DEF Accounts, LossInv, Holders, Held
<1>3. OwnInv'
  BY DEF Accounts, OwnInv, Evaluates, Expands, Grows, Node, Top
<1>4. DirtyInv'
  BY DEF Accounts, DirtyInv, Updates, Node, Top
<1>5. RootInv'
  BY DEF Accounts, RootInv, Due, Taken, Undoers, AtStats, CountedPlayouts, Counted, Node, Top
<1> QED
  BY <1>1, <1>2, <1>3, <1>4, <1>5 DEF Accounts

(* The accounts are right in every state of every behaviour.                                 *)
LEMMA SpecAccounts == Spec => [](Inv /\ Accounts)
<1>1. Init => Inv /\ Accounts
  BY InitInv, InitAccounts
<1>2. Inv /\ Accounts /\ [Next]_vars => (Inv /\ Accounts)'
  BY NextInv, NextAccounts, StutterInv, StutterAccounts
<1> QED
  BY <1>1, <1>2, PTL DEF Spec

(* Every playout that finished is counted once at the root; the virtual losses of a node are those of   *)
(* the calls that hold it; after a search no node is left half expanded or marked dirty.                *)
THEOREM PlayoutsAreCounted == Spec => []NoPlayoutLost
<1>1. Inv /\ Accounts => NoPlayoutLost
  <2> SUFFICES ASSUME Inv, Accounts PROVE NoPlayoutLost
    OBVIOUS
  <2>1. TypeOK /\ DirtyInv /\ Root \in Nodes
    BY GraphAssumption DEF Inv, Accounts, GraphAssumption
  <2>2. LossesAreHeld
    BY DEF Accounts, LossInv, LossesAreHeld
  <2>3. ASSUME AllIdle
        PROVE  /\ visits[Root] = numNonPlayoutVisits + numPlayoutsShared
               /\ \A n \in Nodes : dirtyCounter[n] = 0 /\ state[n] \notin {EVALUATING, GROWING1, GROWING2}
    <3>1. \A t \in Threads : pc[t] = "idle"
      BY <2>3 DEF AllIdle, At
    <3>2. /\ Due(Root) = visits[Root] /\ Cardinality(CountedPlayouts) = 0
          /\ \A n \in Nodes : dirtyCounter[n] = 0
      BY <2>1, <3>1, IdleDue
    <3>3. visits[Root] = numNonPlayoutVisits + numPlayoutsShared + 0
      BY <3>2 DEF Accounts, RootInv
    <3>4. \A n \in Nodes : state[n] \notin {EVALUATING, GROWING1, GROWING2}
      BY <3>1 DEF Accounts, OwnInv, Expands, Grows, GrowingNow
    <3> QED
      BY <2>1, <3>2, <3>3, <3>4 DEF TypeOK
  <2> QED
    BY <2>2, <2>3 DEF NoPlayoutLost
<1>2. Spec => [](Inv /\ Accounts)
  BY SpecAccounts
<1> QED
  BY <1>1, <1>2, PTL

-------------------------------------------------------------------------------
(* The visits of an array's edges.                                                                               *)
LEMMA EdgeVisitsMember ==
  \A array, e : e \in EdgeVisitsOf(array) <=>
                  \E i \in DOMAIN array : \E v \in 1..array[i].edgeVisits : e = <<i, v>>
BY DEF EdgeVisitsOf

(* An array without visits of edges.                                                         *)
LEMMA NoEdgeVisits ==
  ASSUME NEW array, \A i \in DOMAIN array : array[i].edgeVisits = 0
  PROVE  EdgeVisitsOf(array) = {}
<1>1. \A i \in DOMAIN array : 1..array[i].edgeVisits = {}
  OBVIOUS
<1> QED
  BY <1>1, EdgeVisitsMember

(* An array whose edges have no more visits than those of another.                                               *)
LEMMA FewerEdgeVisits ==
  ASSUME NEW array, NEW more,
         \A i \in DOMAIN array : array[i].edgeVisits \in Nat,
         \A i \in DOMAIN more : more[i].edgeVisits \in Nat,
         \A i \in DOMAIN array : array[i].edgeVisits > 0 =>
            i \in DOMAIN more /\ array[i].edgeVisits <= more[i].edgeVisits
  PROVE  EdgeVisitsOf(array) \subseteq EdgeVisitsOf(more)
<1> SUFFICES ASSUME NEW e \in EdgeVisitsOf(array) PROVE e \in EdgeVisitsOf(more)
  OBVIOUS
<1>1. PICK i \in DOMAIN array : \E v \in 1..array[i].edgeVisits : e = <<i, v>>
  BY EdgeVisitsMember
<1>2. PICK v \in 1..array[i].edgeVisits : e = <<i, v>>
  BY <1>1
<1>3. array[i].edgeVisits > 0
  BY <1>2
<1>4. i \in DOMAIN more /\ v \in 1..more[i].edgeVisits
  BY <1>2, <1>3
<1> QED
  BY <1>2, <1>4, EdgeVisitsMember

(* An edge gets one visit more.                                                                                   *)
LEMMA OneMoreEdgeVisit ==
  ASSUME NEW array, NEW new, NEW j \in DOMAIN array, DOMAIN new = DOMAIN array,
         array[j].edgeVisits \in Nat, new[j].edgeVisits = array[j].edgeVisits + 1,
         \A i \in DOMAIN array : i # j => new[i].edgeVisits = array[i].edgeVisits,
         IsFiniteSet(EdgeVisitsOf(array))
  PROVE  /\ IsFiniteSet(EdgeVisitsOf(new))
         /\ Cardinality(EdgeVisitsOf(new)) = Cardinality(EdgeVisitsOf(array)) + 1
<1> DEFINE v == array[j].edgeVisits + 1
<1>1. v \in 1..new[j].edgeVisits /\ v \notin 1..array[j].edgeVisits
      /\ \A w : w \in 1..new[j].edgeVisits <=> w \in 1..array[j].edgeVisits \/ w = v
  OBVIOUS
<1> HIDE DEF v
<1>2. ASSUME NEW e, e \in EdgeVisitsOf(new) PROVE e \in EdgeVisitsOf(array) \/ e = <<j, v>>
  <2>1. PICK i \in DOMAIN new : \E w \in 1..new[i].edgeVisits : e = <<i, w>>
    BY <1>2, EdgeVisitsMember
  <2>2. PICK w \in 1..new[i].edgeVisits : e = <<i, w>>
    BY <2>1
  <2>3. CASE i = j
    <3>1. w \in 1..array[j].edgeVisits \/ w = v
      BY <1>1, <2>2, <2>3
    <3> QED
      BY <2>2, <2>3, <3>1, EdgeVisitsMember
  <2>4. CASE i # j
    <3>1. i \in DOMAIN array /\ w \in 1..array[i].edgeVisits
      BY <2>2, <2>4
    <3> QED
      BY <2>2, <3>1, EdgeVisitsMember
  <2> QED
    BY <2>3, <2>4
<1>3. ASSUME NEW e, e \in EdgeVisitsOf(array) PROVE e \in EdgeVisitsOf(new)
  <2>1. PICK i \in DOMAIN array : \E w \in 1..array[i].edgeVisits : e = <<i, w>>
    BY <1>3, EdgeVisitsMember
  <2>2. PICK w \in 1..array[i].edgeVisits : e = <<i, w>>
    BY <2>1
  <2>3. i \in DOMAIN new /\ w \in 1..new[i].edgeVisits
    <3>1. CASE i = j
      BY <1>1, <2>2, <3>1
    <3>2. CASE i # j
      BY <2>2, <3>2
    <3> QED
      BY <3>1, <3>2
  <2> QED
    BY <2>2, <2>3, EdgeVisitsMember
<1>4. <<j, v>> \in EdgeVisitsOf(new)
  BY <1>1, EdgeVisitsMember
<1>5. <<j, v>> \notin EdgeVisitsOf(array)
  <2> SUFFICES ASSUME <<j, v>> \in EdgeVisitsOf(array) PROVE FALSE
    OBVIOUS
  <2>1. PICK i \in DOMAIN array : \E w \in 1..array[i].edgeVisits : <<j, v>> = <<i, w>>
    BY EdgeVisitsMember
  <2>2. v \in 1..array[j].edgeVisits
    BY <2>1
  <2> QED
    BY <1>1, <2>2
<1>6. EdgeVisitsOf(new) = EdgeVisitsOf(array) \cup {<<j, v>>}
  BY <1>2, <1>3, <1>4
<1>7. PICK e : e = <<j, v>>
  OBVIOUS
<1>8. PICK S : S = EdgeVisitsOf(array)
  OBVIOUS
<1>9. IsFiniteSet(S) /\ e \notin S /\ EdgeVisitsOf(new) = S \cup {e}
  BY <1>5, <1>6, <1>7, <1>8
<1>10. IsFiniteSet(S \cup {e}) /\ Cardinality(S \cup {e}) = Cardinality(S) + 1
  BY <1>9, FS_AddElement
<1> QED
  BY <1>8, <1>9, <1>10

-------------------------------------------------------------------------------
(* What a thread has copied of an array has no more visits than the array by now has.                             *)
Copied(new, array) ==
  \A i \in DOMAIN new : new[i].edgeVisits > 0 =>
    i \in DOMAIN array /\ new[i].edgeVisits <= array[i].edgeVisits
CopyLags == \A t \in Threads : Grows(t) => Copied(newChildren[t], Slots(t))

(* The array that a thread copies is full, and keeps its edge visits.                                              *)
LEMMA CopiedArray ==
  ASSUME Inv, NEW t \in Threads, Grows(t)
  PROVE  /\ Node(t) \in Nodes /\ ArrayOf(Top(t).st) \in 0..1
         /\ Slots(t) \in ArraysOfSize(ArrayOf(Top(t).st))
         /\ newChildren[t] \in ArraysOfSize(ArrayOf(Top(t).st) + 1)
         /\ FilledTo(Slots(t), Capacity[ArrayOf(Top(t).st)])
         /\ state[Node(t)] = Top(t).st
<1>1. pc[t] \in {"copy", "publish"}
  BY DEF Grows
<1>2. /\ TypeOK /\ NodeInv /\ path[t] # <<>> /\ Node(t) \in Nodes /\ Top(t) \in Frames
      /\ Node(t) = Top(t).node /\ Reading(Top(t)) /\ AtEnd(Top(t))
      /\ newChildren[t] \in ArraysOfSize(ArrayOf(Top(t).st) + 1)
  BY <1>1, InPlayout DEF ThreadInv, ChoiceInv, CopyInv
<1>3. Top(t).st \in {GROWING1, GROWING2} /\ state[Node(t)] = Top(t).st
  BY <1>1 DEF Inv, HoldInv
<1>4. ArrayOf(Top(t).st) \in 0..1
  BY <1>3, GrowingStates
<1>5. Slots(t) \in ArraysOfSize(ArrayOf(Top(t).st))
  BY <1>2, ReadArray DEF Slots
<1>6. FilledTo(Slots(t), Capacity[ArrayOf(Top(t).st)])
  BY <1>2 DEF AtEnd, Slots
<1> QED
  BY <1>2, <1>3, <1>4, <1>5, <1>6

(* The slots of an array have numbers of visits.                                             *)
LEMMA ArraySlots ==
  ASSUME NEW array \in Arrays, NEW i \in DOMAIN array
  PROVE  array[i] \in Slot /\ array[i].edgeVisits \in Nat
<1>1. CASE array = NoArray
  BY <1>1 DEF NoArray
<1>2. CASE \E b \in 0..2 : array \in ArraysOfSize(b)
  BY <1>2 DEF ArraysOfSize, Slot
<1> QED
  BY <1>1, <1>2 DEF Arrays

(* The slots of an array of some size.                                                       *)
LEMMA SlotTypes ==
  ASSUME NEW a \in 0..2, NEW array \in ArraysOfSize(a)
  PROVE  DOMAIN array = 1..Capacity[a] /\ \A i \in DOMAIN array : array[i].edgeVisits \in Nat
BY DEF ArraysOfSize, Slot

(* A step of a thread leaves every copy with no more visits than what it is a copy of.       *)
LEMMA CopyThread ==
  ASSUME Inv, Inv', Forward, CopyLags, NEW t \in Threads, Thread(t)
  PROVE  CopyLags'
<1>1. TypeOK /\ OnlyMoves(t) /\ TypeOK'
  BY ThreadMoves DEF Inv
<1>2. ASSUME NEW u \in Threads, Grows(u), Grows(u)', Node(u)' = Node(u), Top(u)'.st = Top(u).st,
             newChildren'[u] = newChildren[u]
      PROVE  Copied(newChildren[u], Slots(u)')
  <2> DEFINE n   == Node(u)
             a   == ArrayOf(Top(u).st)
             new == newChildren[u]
             old == children[n][a]
  <2>1. /\ n \in Nodes /\ a \in 0..1 /\ old \in ArraysOfSize(a) /\ new \in ArraysOfSize(a + 1)
        /\ FilledTo(old, Capacity[a])
    BY <1>2, CopiedArray DEF Slots
  <2>2. Slots(u) = old /\ Slots(u)' = children'[n][a]
    BY <1>2 DEF Slots
  <2>3. Copied(new, old)
    BY <1>2, <2>2 DEF CopyLags
  <2> HIDE DEF n, a, new
  <2>4. /\ a \in 0..2 /\ a + 1 \in 0..2
    BY <2>1
  <2>5. /\ DOMAIN old = 1..Capacity[a] /\ \A i \in DOMAIN old : old[i].edgeVisits \in Nat
        /\ \A i \in DOMAIN new : new[i].edgeVisits \in Nat
    BY <2>1, <2>4, SlotTypes
  <2>6. \A i \in DOMAIN old : children[n][a][i].child # None
    BY <2>1, <2>5 DEF FilledTo
  <2>7. \A i \in DOMAIN old : /\ i \in DOMAIN children'[n][a]
                              /\ children'[n][a][i].edgeVisits >= old[i].edgeVisits
    BY <2>1, <2>4, <2>6 DEF Forward
  <2>8. \A i \in DOMAIN old : children'[n][a][i].edgeVisits \in Nat
    <3>1. children'[n][a] \in Arrays
      BY <1>1, <2>1, <2>4 DEF TypeOK
    <3> QED
      BY <2>7, <3>1, ArraySlots
  <2> HIDE DEF old
  <2>9. Copied(new, children'[n][a])
    BY <2>3, <2>5, <2>7, <2>8 DEF Copied
  <2> QED
    BY <2>2, <2>9 DEF new
<1>3. ASSUME NEW u \in Threads \ {t}, Grows(u)' PROVE Copied(newChildren'[u], Slots(u)')
  <2>1. /\ pc'[u] = pc[u] /\ path'[u] = path[u] /\ newChildren'[u] = newChildren[u]
    BY <1>1 DEF OnlyMoves
  <2>2. Grows(u) /\ Node(u)' = Node(u) /\ Top(u)'.st = Top(u).st
    BY <1>3, <2>1 DEF Grows, Node, Top
  <2> QED
    BY <1>2, <1>3, <2>1, <2>2
<1>4. /\ pc \in [Threads -> ThreadPcs] /\ newChildren \in [Threads -> Arrays]
  BY <1>1 DEF TypeOK
<1> SUFFICES ASSUME Grows(t)' PROVE Copied(newChildren'[t], Slots(t)')
  BY <1>3 DEF CopyLags
<1>5. CASE ClaimGrowth(t)
  <2>1. newChildren'[t] = NewArray(ArrayOf(Top(t).st) + 1)
    BY <1>4, <1>5 DEF ClaimGrowth, Grows, GoTo
  <2>2. \A i \in DOMAIN newChildren'[t] : newChildren'[t][i].edgeVisits = 0
    BY <2>1 DEF NewArray, Empty
  <2> QED
    BY <2>2 DEF Copied
<1>6. CASE CopyChild(t)
  <2> DEFINE i   == NumFound(newChildren[t]) + 1
             old == Slots(t)
  <2>1. newChildren' = [newChildren EXCEPT ![t][i] = old[i]] /\ UNCHANGED <<children, path>>
    BY <1>6 DEF CopyChild, nodeVars
  <2>2. Slots(t)' = old
    BY <2>1 DEF Slots, Node, Top
  <2>3. i \in DOMAIN old /\ i \in DOMAIN newChildren[t]
    BY <1>6, CopiedSlot
  <2>4. Copied(newChildren[t], old)
    BY <1>6 DEF CopyLags, CopyChild, At, Grows
  <2>5. old[i].edgeVisits \in Nat
    <3>1. Grows(t)
      BY <1>6 DEF CopyChild, At, Grows
    <3>2. old \in ArraysOfSize(ArrayOf(Top(t).st)) /\ ArrayOf(Top(t).st) \in 0..2
      BY <3>1, CopiedArray
    <3> QED
      BY <2>3, <3>2, SlotTypes
  <2> HIDE DEF i, old
  <2>6. /\ DOMAIN newChildren'[t] = DOMAIN newChildren[t]
        /\ \A k \in DOMAIN newChildren[t] :
             newChildren'[t][k] = IF k = i THEN old[i] ELSE newChildren[t][k]
    BY <1>4, <2>1
  <2>7. Copied(newChildren'[t], old)
    BY <2>3, <2>4, <2>5, <2>6 DEF Copied
  <2> QED
    BY <2>2, <2>7
<1>7. CASE ExpandNode(t) \/ PublishChildren(t) \/ InsertChild(t) \/ CatchUp(t) \/ CountEdgeVisit(t)
  <2>1. pc'[t] \notin {"copy", "publish"}
    BY <1>4, <1>7 DEF ExpandNode, PublishChildren, InsertChild, CatchUp, CountEdgeVisit, GoTo, ReturnWith
  <2> QED
    BY <2>1 DEF Grows
<1> QED
  BY <1>1, <1>5, <1>6, <1>7, OtherSteps DEF Grows

(* So does a step of the search.                                                             *)
LEMMA CopyGlobal == ASSUME CopyLags, Global PROVE CopyLags'
<1>1. /\ UNCHANGED <<children, path, newChildren>>
      /\ \/ UNCHANGED pc
         \/ \A t \in Threads : pc[t] \in {"idle", "ended"} /\ pc'[t] \in {"idle", "start"}
  BY GlobalStep
<1> QED
  BY <1>1 DEF CopyLags, Grows, Slots, Node, Top

-------------------------------------------------------------------------------
(* What is due to a node is its own visit, once a thread has claimed the node, and the visits of its edges, *)
(* or more of them than the array that its state names has by now.                                          *)
Claims(t)  == pc[t] \in {"claim", "expand"}
Claimed(n) == \E t \in Threads : Claims(t) /\ Node(t) = n
Current(n) == children[n][ArrayOf(state[n])]
EdgesOf(n) ==
  /\ state[n] < EXPANDED0 => Due(n) = IF Claimed(n) THEN 1 ELSE 0
  /\ IsFiniteSet(EdgeVisitsOf(Current(n))) /\ Cardinality(EdgeVisitsOf(Current(n))) <= Due(n)
  /\ state[n] = EXPANDED0 /\ Moves(n) # {} => Due(n) = 1 + Cardinality(EdgeVisitsOf(Current(n)))
EdgesInv == \A n \in Nodes \ Terminal : EdgesOf(n)

(* The steps that change what is said about a node.                                                          *)
Touches(t) ==
  \/ VisitTerminal(t) \/ AddLeafValue(t) \/ ClaimNode(t) \/ ExpandNode(t) \/ SelectNone(t)
  \/ CatchUp(t) \/ CountEdgeVisit(t) \/ ClaimGrowth(t) \/ PublishChildren(t) \/ InsertChild(t)

(* Most steps have nothing to do with nodes' edges.                                          *)
LEMMA EdgeKinds ==
  ASSUME TypeOK, NEW t \in Threads, Thread(t)
  PROVE  Touches(t) \/ (UNCHANGED <<state, children>> /\ ~Claims(t) /\ ~Claims(t)')
<1>1. pc \in [Threads -> ThreadPcs]
  BY DEF TypeOK
<1>2. CASE BeginTask(t) \/ StopSearching(t) \/ BeginPlayout(t) \/ EndPlayout(t)
  BY <1>1, <1>2 DEF BeginTask, StopSearching, BeginPlayout, EndPlayout, GoTo, nodeVars, At, Claims
<1>3. CASE Visit(t) \/ Evaluate(t)
  BY <1>1, <1>3 DEF Visit, Evaluate, GoTo, ReturnWith, nodeVars, At, Claims
<1>4. CASE SelectExisting(t) \/ SelectNew(t) \/ ReloadState(t) \/ CopyChild(t)
  BY <1>1, <1>4 DEF SelectExisting, SelectNew, ReloadState, CopyChild, GoTo, nodeVars, At, Claims
<1>5. CASE Descend(t) \/ ReloadForEdge(t) \/ MarkDirty(t) \/ RecomputeNodeStats(t) \/ UndoDirty(t)
             \/ Return(t)
  BY <1>1, <1>5 DEF Descend, ReloadForEdge, MarkDirty, RecomputeNodeStats, UndoDirty, Return, GoTo,
                    ReturnWith, nodeVars, At, Claims
<1> QED
  BY <1>2, <1>3, <1>4, <1>5 DEF Thread, Leaf, Choose, ComeBack, Touches

(* A step of a thread that claims the node before and after, or neither, leaves whether it is claimed.*)
LEMMA ClaimedSame ==
  ASSUME NEW t \in Threads, OnlyMoves(t), NEW n, Claims(t)' /\ Node(t)' = n <=> Claims(t) /\ Node(t) = n
  PROVE  Claimed(n)' <=> Claimed(n)
<1>1. \A u \in Threads \ {t} : Claims(u)' /\ Node(u)' = n <=> Claims(u) /\ Node(u) = n
  BY DEF OnlyMoves, Claims, Node, Top
<1>2. Claimed(n)' <=> \E u \in Threads : Claims(u)' /\ Node(u)' = n
  BY DEF Claimed
<1> QED
  BY <1>1, <1>2 DEF Claimed

(* Where nothing that matters changes.                                                                       *)
LEMMA EdgesKept ==
  ASSUME NEW n, EdgesOf(n), Due(n)' = Due(n), Claimed(n)' <=> Claimed(n),
         EdgeVisitsOf(Current(n)') = EdgeVisitsOf(Current(n)),
         state'[n] < EXPANDED0 => state[n] < EXPANDED0,
         state'[n] = EXPANDED0 => state[n] = EXPANDED0
  PROVE  EdgesOf(n)'
<1>1. PICK E : E = EdgeVisitsOf(Current(n))
  OBVIOUS
<1>2. EdgeVisitsOf(Current(n))' = E
  BY <1>1
<1> QED
  BY <1>1, <1>2 DEF EdgesOf

(* A step of a thread leaves the nodes that the thread is not on.                                             *)
LEMMA EdgesElsewhere ==
  ASSUME Inv, TypeOK', DirtyInv, NEW t \in Threads, Thread(t), Touches(t),
         NEW n \in Nodes, n # Node(t), EdgesOf(n)
  PROVE  EdgesOf(n)'
<1>1. TypeOK /\ OnlyMoves(t)
  BY ThreadMoves DEF Inv
<1>2. /\ pc \in [Threads -> ThreadPcs] /\ state \in [Nodes -> States]
      /\ children \in [Nodes -> [0..2 -> Arrays]]
  BY <1>1 DEF TypeOK
<1>3. state'[n] = state[n]
  BY <1>2 DEF Touches, VisitTerminal, AddLeafValue, ClaimNode, ExpandNode, SelectNone, CatchUp,
              CountEdgeVisit, ClaimGrowth, PublishChildren, InsertChild
<1>4. children'[n] = children[n]
  BY <1>2 DEF Touches, VisitTerminal, AddLeafValue, ClaimNode, ExpandNode, SelectNone, CatchUp,
              CountEdgeVisit, ClaimGrowth, PublishChildren, InsertChild, AddEdgeVisit
<1>5. Current(n)' = Current(n)
  BY <1>3, <1>4 DEF Current
<1>6. ~(Claims(t)' /\ Node(t)' = n)
  <2>1. CASE InsertChild(t)
    BY <1>2, <2>1 DEF InsertChild, GoTo, ReturnWith, Claims
  <2>2. CASE Stays(t)
    BY <2>2, StayingCalls
  <2> QED
    BY <2>1, <2>2 DEF Touches, Stays, Leaf
<1>7. Claimed(n)' <=> Claimed(n)
  BY <1>1, <1>6, ClaimedSame
<1>8. Due(n)' = Due(n)
  BY <1>1, DueStep, DueType
<1> QED
  BY <1>3, <1>5, <1>7, <1>8, EdgesKept

(* An unexpanded node has no edges.                                                                           *)
LEMMA NoEdgesYet ==
  ASSUME TypeOK, NodeInv, NEW n \in Nodes, state[n] < EXPANDED0
  PROVE  children[n][0] = NoArray /\ ArrayOf(state[n]) = 0 /\ EdgeVisitsOf(Current(n)) = {}
<1>1. state[n] \in 0..6 /\ EXPANDED0 = 2
  BY StateType, GrowingStates
<1>2. state[n] < 2 * 0 + 2 /\ 0 \in 0..2
  BY <1>1
<1>3. children[n][0] = NoArray
  BY <1>2 DEF NodeInv
<1>4. ArrayOf(state[n]) = 0
  BY <1>1 DEF ArrayOf, EXPANDED1, EXPANDED2
<1>5. EdgeVisitsOf(NoArray) = {}
  BY NoEdgeVisits DEF NoArray
<1> QED
  BY <1>3, <1>4, <1>5 DEF Current

(* Only one thread claims a node.                                                                              *)
LEMMA OneClaims ==
  ASSUME OwnInv, NEW t \in Threads, Evaluates(t)
  PROVE  Claimed(Node(t)) <=> Claims(t)
BY DEF OwnInv, Evaluates, Claims, Claimed

(* The visit of the evaluation is the one that is due to a node before it has edges.         *)
LEMMA AddLeafValueEdges ==
  ASSUME Inv, TypeOK', OwnInv, DirtyInv, NEW t \in Threads, AddLeafValue(t), NEW n, n = Node(t), EdgesOf(n)
  PROVE  EdgesOf(n)'
<1>1. TypeOK /\ NodeInv /\ Counts(t) /\ Node(t)' = n /\ n \in Nodes
  BY StayingCalls DEF Inv, Counts, Stays, Leaf
<1>2. pc[t] = "leaf" /\ pc'[t] = "claim" /\ UNCHANGED <<state, children>>
  BY <1>1 DEF AddLeafValue, At, GoTo, TypeOK
<1>3. state[n] = UNEVALUATED /\ ~Claimed(n)
  BY <1>2, OneClaims DEF OwnInv, Evaluates, Claims
<1>4. state[n] < EXPANDED0 /\ state'[n] < EXPANDED0 /\ state'[n] # EXPANDED0
  BY <1>2, <1>3, StateValues
<1>5. Due(n) = 0 /\ EdgeVisitsOf(Current(n)) = {}
  BY <1>1, <1>3, <1>4, NoEdgesYet DEF EdgesOf
<1>6. Due(n)' = 1
  BY <1>1, <1>5, CountsStep
<1>7. Claimed(n)'
  BY <1>1, <1>2 DEF Claimed, Claims
<1>8. EdgeVisitsOf(Current(n)') = {}
  BY <1>2, <1>5 DEF Current
<1>9. IsFiniteSet({}) /\ Cardinality({}) = 0
  BY FS_EmptySet
<1>10. 0 <= 1
  OBVIOUS
<1> QED
  BY <1>4, <1>6, <1>7, <1>8, <1>9, <1>10 DEF EdgesOf

(* A thread that is to expand the node claims it.                                            *)
LEMMA ClaimNodeEdges ==
  ASSUME Inv, TypeOK', OwnInv, DirtyInv, NEW t \in Threads, ClaimNode(t), NEW n, n = Node(t), EdgesOf(n)
  PROVE  EdgesOf(n)'
<1>1. TypeOK /\ NodeInv /\ OnlyMoves(t) /\ Thread(t) /\ Node(t)' = n /\ n \in Nodes
  BY StayingCalls, ThreadMoves DEF Inv, Stays, Leaf, Thread
<1>2. /\ pc[t] = "claim" /\ state[n] = UNEVALUATED /\ UNCHANGED children
  BY DEF ClaimNode, At, OwnInv
<1>3. pc'[t] = "expand" /\ state'[n] = EVALUATING
  BY <1>1, <1>2 DEF ClaimNode, GoTo, TypeOK
<1>4. Claimed(n)' <=> Claimed(n)
  BY <1>1, <1>2, <1>3, ClaimedSame DEF Claims
<1>5. ~Counts(t)
  BY <1>2 DEF Counts, VisitTerminal, AddLeafValue, SelectNone, CatchUp, CountEdgeVisit, At
<1>6. Due(n)' = Due(n)
  BY <1>1, <1>5, DueStep, DueType
<1>7. ArrayOf(state[n]) = 0 /\ ArrayOf(state'[n]) = 0
  BY <1>2, <1>3, StateValues DEF ArrayOf
<1>8. Current(n)' = Current(n)
  BY <1>2, <1>7 DEF Current
<1>9. state[n] < EXPANDED0 /\ state'[n] # EXPANDED0
  BY <1>2, <1>3, StateValues
<1> QED
  BY <1>4, <1>6, <1>8, <1>9, EdgesKept

(* A node that is expanded has an array with no visits.                                      *)
LEMMA ExpandNodeEdges ==
  ASSUME Inv, TypeOK', OwnInv, DirtyInv, NEW t \in Threads, ExpandNode(t), NEW n, n = Node(t), EdgesOf(n)
  PROVE  EdgesOf(n)'
<1>1. TypeOK /\ NodeInv /\ Thread(t) /\ n \in Nodes
  BY StayingCalls, ThreadMoves DEF Inv, Stays, Leaf, Thread
<1>2. pc[t] = "expand" /\ state[n] = EVALUATING
  BY DEF ExpandNode, At, Inv, HoldInv
<1>3. Claimed(n)
  BY <1>2, OneClaims DEF Evaluates, Claims
<1>4. Due(n) = 1
  BY <1>2, <1>3, StateValues DEF EdgesOf
<1>5. ~Counts(t)
  BY <1>2 DEF Counts, VisitTerminal, AddLeafValue, SelectNone, CatchUp, CountEdgeVisit, At
<1>6. Due(n)' = 1
  BY <1>1, <1>4, <1>5, DueStep
<1>7. state'[n] = EXPANDED0 /\ children'[n][0] = NewArray(0)
  BY <1>1 DEF ExpandNode, TypeOK
<1>8. Current(n)' = NewArray(0)
  BY <1>7, GrowingStates DEF Current
<1>9. EdgeVisitsOf(NewArray(0)) = {}
  BY NoEdgeVisits DEF NewArray, Empty
<1>10. IsFiniteSet({}) /\ Cardinality({}) = 0
  BY FS_EmptySet
<1>11. ~(state'[n] < EXPANDED0) /\ 0 <= 1 /\ 1 = 1 + 0
  BY <1>7, StateValues
<1> QED
  BY <1>6, <1>8, <1>9, <1>10, <1>11 DEF EdgesOf

(* A visit that a node counts for want of moves.                                                              *)
LEMMA SelectNoneEdges ==
  ASSUME Inv, TypeOK', OwnInv, DirtyInv, NEW t \in Threads, SelectNone(t), NEW n, n = Node(t), EdgesOf(n)
  PROVE  EdgesOf(n)'
<1>1. /\ TypeOK /\ NodeInv /\ Counts(t) /\ UNCHANGED <<state, children>>
  BY DEF Inv, Counts, SelectNone
<1>2. pc[t] = "select"
  BY DEF SelectNone, At
<1>3. Reading(Top(t)) /\ n \in Nodes /\ n = Top(t).node /\ Top(t) \in Frames
  BY <1>2, InPlayout DEF ThreadInv, ChoiceInv
<1>4. state[n] >= EXPANDED0 /\ state[n] \in 0..6
  BY <1>1, <1>3, StateType, GrowingStates DEF Reading
<1>5. Moves(n) = {}
  <2>1. NumFound(Slots(t)) = 0 /\ NewMoves(t) = {}
    BY DEF SelectNone
  <2>2. \A m : m \notin {Slots(t)[i].move : i \in 1..NumFound(Slots(t))}
    BY <2>1
  <2> QED
    BY <2>1, <2>2 DEF NewMoves
<1>6. Due(n)' = Due(n) + 1 /\ Due(n) \in Int
  BY <1>1, <1>3, CountsStep, DueType
<1>7. Current(n)' = Current(n)
  BY <1>1 DEF Current
<1>8. IsFiniteSet(EdgeVisitsOf(Current(n))) /\ Cardinality(EdgeVisitsOf(Current(n))) <= Due(n)
  BY DEF EdgesOf
<1>9. Cardinality(EdgeVisitsOf(Current(n))) <= Due(n)'
  <2>1. Cardinality(EdgeVisitsOf(Current(n))) \in Nat
    BY <1>8, FS_CardinalityType
  <2> QED
    BY <1>6, <1>8, <2>1
<1>10. ~(state[n] < EXPANDED0)
  BY <1>4, StateValues
<1> QED
  BY <1>1, <1>5, <1>7, <1>8, <1>9, <1>10 DEF EdgesOf

(* A thread that is to grow the node's array leaves the array.                               *)
LEMMA ClaimGrowthEdges ==
  ASSUME Inv, TypeOK', OwnInv, DirtyInv, NEW t \in Threads, ClaimGrowth(t), NEW n, n = Node(t), EdgesOf(n)
  PROVE  EdgesOf(n)'
<1>1. TypeOK /\ NodeInv /\ OnlyMoves(t) /\ Thread(t) /\ Node(t)' = n /\ n \in Nodes
  BY StayingCalls, ThreadMoves DEF Inv, Stays, Choose, Thread
<1>2. pc[t] = "grow" /\ pc'[t] \in {"reload", "copy"} /\ UNCHANGED children
  BY <1>1 DEF ClaimGrowth, At, GoTo, TypeOK
<1>3. Claimed(n)' <=> Claimed(n)
  BY <1>1, <1>2, ClaimedSame DEF Claims
<1>4. ~Counts(t)
  BY <1>2 DEF Counts, VisitTerminal, AddLeafValue, SelectNone, CatchUp, CountEdgeVisit, At
<1>5. Due(n)' = Due(n)
  BY <1>1, <1>4, DueStep, DueType
<1>6. CASE UNCHANGED state
  <2>1. Current(n)' = Current(n)
    BY <1>2, <1>6 DEF Current
  <2> QED
    BY <1>3, <1>5, <1>6, <2>1, EdgesKept
<1>7. CASE Top(t).st \in {EXPANDED0, EXPANDED1} /\ state[n] = Top(t).st /\ state'[n] = state[n] + 1
  <2>1. state[n] \in {2, 4} /\ state'[n] \in {3, 5}
    BY <1>7, GrowingStates
  <2>2. ArrayOf(state'[n]) = ArrayOf(state[n])
    BY <1>7, <2>1, GrowingStates
  <2>3. Current(n)' = Current(n)
    BY <1>2, <2>2 DEF Current
  <2>4. ~(state'[n] < EXPANDED0) /\ state'[n] # EXPANDED0
    BY <2>1, GrowingStates
  <2> QED
    BY <1>3, <1>5, <2>3, <2>4, EdgesKept
<1> QED
  BY <1>1, <1>6, <1>7 DEF ClaimGrowth, TypeOK

(* The new array has no more edge visits than the one it replaces.                                             *)
LEMMA PublishEdges ==
  ASSUME Inv, TypeOK', OwnInv, DirtyInv, CopyLags, NEW t \in Threads, PublishChildren(t),
         NEW n, n = Node(t), EdgesOf(n)
  PROVE  EdgesOf(n)'
<1>1. TypeOK /\ NodeInv /\ OnlyMoves(t) /\ Thread(t) /\ Node(t)' = n /\ n \in Nodes
  BY StayingCalls, ThreadMoves DEF Inv, Stays, Choose, Thread
<1>2. pc[t] = "publish" /\ Grows(t)
  BY DEF PublishChildren, At, Grows
<1> DEFINE a   == ArrayOf(Top(t).st)
           new == newChildren[t]
<1>3. /\ a \in 0..1 /\ Slots(t) \in ArraysOfSize(a) /\ new \in ArraysOfSize(a + 1)
      /\ state[n] = Top(t).st /\ Top(t).st \in {GROWING1, GROWING2}
      /\ Copied(new, Slots(t))
  BY <1>2, CopiedArray DEF CopyLags, Inv, HoldInv
<1>4. Current(n) = Slots(t)
  BY <1>3 DEF Current, Slots
<1>5. state[n] \in {3, 5} /\ state'[n] = state[n] + 1
  BY <1>1, <1>3, GrowingStates DEF PublishChildren, TypeOK
<1>6. ArrayOf(state'[n]) = a + 1 /\ ~(state'[n] < EXPANDED0) /\ state'[n] # EXPANDED0
  BY <1>3, <1>5, GrowingStates
<1>7. children'[n][a + 1] = new
  <2>1. children' = [children EXCEPT ![n][a + 1] = new]
    BY DEF PublishChildren
  <2>2. a + 1 \in 0..2
    BY <1>3
  <2> HIDE DEF a, new
  <2> QED
    BY <1>1, <2>1, <2>2 DEF TypeOK
<1>8. Current(n)' = new
  BY <1>6, <1>7 DEF Current
<1> HIDE DEF a, new
<1>9. EdgeVisitsOf(new) \subseteq EdgeVisitsOf(Slots(t))
  <2>1. a \in 0..2 /\ a + 1 \in 0..2
    BY <1>3
  <2>2. /\ \A i \in DOMAIN new : new[i].edgeVisits \in Nat
        /\ \A i \in DOMAIN Slots(t) : Slots(t)[i].edgeVisits \in Nat
    BY <1>3, <2>1, SlotTypes
  <2> QED
    BY <1>3, <2>2, FewerEdgeVisits DEF Copied
<1>10. IsFiniteSet(EdgeVisitsOf(Slots(t))) /\ Cardinality(EdgeVisitsOf(Slots(t))) <= Due(n)
  BY <1>4 DEF EdgesOf
<1>11. /\ IsFiniteSet(EdgeVisitsOf(new))
       /\ Cardinality(EdgeVisitsOf(new)) <= Cardinality(EdgeVisitsOf(Slots(t)))
       /\ Cardinality(EdgeVisitsOf(new)) \in Nat /\ Cardinality(EdgeVisitsOf(Slots(t))) \in Nat
  BY <1>9, <1>10, FS_Subset, FS_CardinalityType
<1>12. ~Counts(t)
  BY <1>2 DEF Counts, VisitTerminal, AddLeafValue, SelectNone, CatchUp, CountEdgeVisit, At
<1>13. Due(n)' = Due(n) /\ Due(n) \in Int
  BY <1>1, <1>12, DueStep, DueType
<1>14. Cardinality(EdgeVisitsOf(new)) <= Due(n)'
  BY <1>10, <1>11, <1>13
<1> QED
  BY <1>6, <1>8, <1>11, <1>14 DEF EdgesOf

(* Arrays with the same visits.                                                              *)
LEMMA SameEdgeVisits ==
  ASSUME NEW array, NEW new, DOMAIN new = DOMAIN array,
         \A i \in DOMAIN array : new[i].edgeVisits = array[i].edgeVisits
  PROVE  EdgeVisitsOf(new) = EdgeVisitsOf(array)
BY DEF EdgeVisitsOf

(* A new child comes without visits.                                                                            *)
LEMMA InsertChildEdges ==
  ASSUME Inv, TypeOK', DirtyInv, NEW t \in Threads, InsertChild(t), NEW n, n = Node(t), EdgesOf(n)
  PROVE  EdgesOf(n)'
<1>1. TypeOK /\ NodeInv /\ OnlyMoves(t) /\ Thread(t) /\ UNCHANGED state
  BY ThreadMoves DEF Inv, Choose, Thread, InsertChild
<1>2. pc[t] = "newChild" /\ pc'[t] \in {"catchUp", "return"}
  BY <1>1 DEF InsertChild, At, GoTo, ReturnWith, TypeOK
<1>3. n \in Nodes /\ Top(t) \in Frames /\ n = Top(t).node /\ Reading(Top(t)) /\ InArray(Top(t))
  BY <1>2, InPlayout DEF ThreadInv, ChoiceInv, InArray
<1>4. Claimed(n)' <=> Claimed(n)
  BY <1>1, <1>2, ClaimedSame DEF Claims
<1>5. ~Counts(t)
  BY <1>2 DEF Counts, VisitTerminal, AddLeafValue, SelectNone, CatchUp, CountEdgeVisit, At
<1>6. Due(n)' = Due(n)
  BY <1>1, <1>3, <1>5, DueStep, DueType
<1>7. EdgeVisitsOf(Current(n)') = EdgeVisitsOf(Current(n))
  <2> DEFINE b == ArrayOf(Top(t).st)
             j == Top(t).idx
             c == ArrayOf(state[n])
  <2>1. Current(n)' = children'[n][c] /\ Current(n) = children[n][c]
    BY <1>1 DEF Current
  <2>2. c \in 0..2
    BY <1>1, <1>3, SizeProperties DEF TypeOK
  <2>3. CASE UNCHANGED children
    BY <2>1, <2>3
  <2>4. CASE /\ children' = [children EXCEPT ![n][b][j] = [@ EXCEPT !.child = ChildNode(t), !.move = Top(t).move]]
             /\ j \in DOMAIN children[n][b]
    <3>1. b \in 0..2
      BY <1>1, <1>3, ReadArray
    <3>2. children[n][b][j] \in Slot
      BY <1>1, <1>3, <2>4, <3>1, EdgeVisitsType
    <3>3. children \in [Nodes -> [0..2 -> Arrays]]
      BY <1>1 DEF TypeOK
    <3> HIDE DEF b, c, j
    <3> DEFINE slot  == [children[n][b][j] EXCEPT !.child = ChildNode(t), !.move = Top(t).move]
               array == [children[n][b] EXCEPT ![j] = slot]
    <3>4. slot.edgeVisits = children[n][b][j].edgeVisits
      BY <3>2 DEF Slot
    <3>5. children' = [children EXCEPT ![n][b] = array]
      BY <2>4
    <3> HIDE DEF slot
    <3>6. /\ DOMAIN array = DOMAIN children[n][b]
          /\ \A i \in DOMAIN children[n][b] : array[i].edgeVisits = children[n][b][i].edgeVisits
      BY <2>4, <3>4
    <3> HIDE DEF array
    <3>7. children'[n][c] = IF c = b THEN array ELSE children[n][c]
      BY <1>3, <2>2, <3>1, <3>3, <3>5
    <3>8. EdgeVisitsOf(array) = EdgeVisitsOf(children[n][b])
      BY <3>6, SameEdgeVisits
    <3> QED
      BY <2>1, <3>7, <3>8
  <2>5. j \in DOMAIN children[n][b]
    BY <1>1, <1>3, ReadArray DEF InArray
  <2> QED
    BY <2>3, <2>4, <2>5 DEF InsertChild
<1> QED
  BY <1>1, <1>4, <1>6, <1>7, EdgesKept

(* A visit that is counted at an edge is due to the node, whether the array is still the node's or an old one.   *)
LEMMA EdgeVisitEdges ==
  ASSUME Inv, TypeOK', DirtyInv, NEW t \in Threads, CatchUp(t) \/ CountEdgeVisit(t),
         NEW n, n = Node(t), EdgesOf(n)
  PROVE  EdgesOf(n)'
<1>1. TypeOK /\ NodeInv /\ Counts(t) /\ UNCHANGED state
  BY DEF Inv, Counts, CatchUp, CountEdgeVisit
<1>2. pc[t] \in {"catchUp", "edge"} /\ AddEdgeVisit(t)
  BY DEF CatchUp, CountEdgeVisit, At
<1>3. n \in Nodes /\ Top(t) \in Frames /\ n = Top(t).node /\ Reading(Top(t)) /\ InArray(Top(t))
  BY <1>2, InPlayout DEF ThreadInv, ChoiceInv, InArray
<1> DEFINE b == ArrayOf(Top(t).st)
           j == Top(t).idx
           c == ArrayOf(state[n])
<1>4. Current(n)' = children'[n][c] /\ Current(n) = children[n][c]
  BY <1>1 DEF Current
<1>5. c \in 0..2 /\ b \in 0..2 /\ j \in DOMAIN children[n][b]
  BY <1>1, <1>3, SizeProperties, ReadArray DEF TypeOK, InArray
<1>6. children[n][b][j] \in Slot /\ children \in [Nodes -> [0..2 -> Arrays]]
  BY <1>1, <1>3, <1>5, EdgeVisitsType DEF TypeOK
<1>7. children' = [children EXCEPT ![n][b][j].edgeVisits = @ + 1]
  BY <1>2 DEF AddEdgeVisit
<1>8. state[n] \in 0..6 /\ Top(t).st \in 2..state[n] /\ EXPANDED0 = 2
  BY <1>1, <1>3, StateType, GrowingStates DEF Reading
<1>9. state[n] = EXPANDED0 => b = c
  <2> HAVE state[n] = EXPANDED0
  <2>1. Top(t).st = state[n]
    BY <1>8
  <2> QED
    BY <2>1
<1>10. ~(state'[n] < EXPANDED0)
  BY <1>1, <1>8
<1>11. Due(n)' = Due(n) + 1 /\ Due(n) \in Int
  BY <1>1, <1>3, CountsStep, DueType
<1>12. /\ IsFiniteSet(EdgeVisitsOf(children[n][c]))
       /\ Cardinality(EdgeVisitsOf(children[n][c])) <= Due(n)
       /\ Cardinality(EdgeVisitsOf(children[n][c])) \in Nat
       /\ state[n] = EXPANDED0 /\ Moves(n) # {} =>
            Due(n) = 1 + Cardinality(EdgeVisitsOf(children[n][c]))
  BY <1>4, FS_CardinalityType DEF EdgesOf
<1> HIDE DEF b, c, j
<1> DEFINE slot  == [children[n][b][j] EXCEPT !.edgeVisits = @ + 1]
           array == [children[n][b] EXCEPT ![j] = slot]
<1>13. slot.edgeVisits = children[n][b][j].edgeVisits + 1 /\ children[n][b][j].edgeVisits \in Nat
  BY <1>6 DEF Slot
<1>14. children' = [children EXCEPT ![n][b] = array]
  BY <1>7
<1> HIDE DEF slot
<1>15. /\ DOMAIN array = DOMAIN children[n][b] /\ array[j].edgeVisits = children[n][b][j].edgeVisits + 1
       /\ \A i \in DOMAIN children[n][b] : i # j => array[i].edgeVisits = children[n][b][i].edgeVisits
  BY <1>5, <1>13
<1> HIDE DEF array
<1>16. children'[n][c] = IF c = b THEN array ELSE children[n][c]
  BY <1>3, <1>5, <1>6, <1>14
<1>17. CASE c = b
  <2>1. /\ IsFiniteSet(EdgeVisitsOf(array))
        /\ Cardinality(EdgeVisitsOf(array)) = Cardinality(EdgeVisitsOf(children[n][c])) + 1
    BY <1>5, <1>12, <1>13, <1>15, <1>17, OneMoreEdgeVisit
  <2>2. PICK k : k = Cardinality(EdgeVisitsOf(children[n][c]))
    OBVIOUS
  <2>3. Cardinality(EdgeVisitsOf(array)) <= Due(n)'
    BY <1>11, <1>12, <2>1, <2>2
  <2>4. state'[n] = EXPANDED0 /\ Moves(n) # {} => Due(n)' = 1 + Cardinality(EdgeVisitsOf(array))
    BY <1>1, <1>11, <1>12, <2>1, <2>2
  <2>5. Current(n)' = array
    BY <1>4, <1>16, <1>17
  <2> QED
    BY <1>10, <2>1, <2>3, <2>4, <2>5 DEF EdgesOf
<1>18. CASE c # b
  <2>1. Current(n)' = children[n][c]
    BY <1>4, <1>16, <1>18
  <2>2. Cardinality(EdgeVisitsOf(children[n][c])) <= Due(n)'
    BY <1>11, <1>12
  <2>3. state'[n] # EXPANDED0
    BY <1>1, <1>9, <1>18
  <2> QED
    BY <1>10, <1>12, <2>1, <2>2, <2>3 DEF EdgesOf
<1> QED
  BY <1>17, <1>18

(* A step of a thread leaves every node's visits those of its edges.                         *)
LEMMA EdgesThread ==
  ASSUME Inv, TypeOK', OwnInv, DirtyInv, CopyLags, EdgesInv, NEW t \in Threads, Thread(t)
  PROVE  EdgesInv'
<1> SUFFICES ASSUME NEW n \in Nodes \ Terminal PROVE EdgesOf(n)'
  BY DEF EdgesInv
<1>1. EdgesOf(n) /\ TypeOK /\ OnlyMoves(t)
  BY ThreadMoves DEF EdgesInv, Inv
<1>2. CASE UNCHANGED <<state, children>> /\ ~Claims(t) /\ ~Claims(t)' /\ ~Touches(t)
  <2>1. ~Counts(t)
    BY <1>2 DEF Counts, Touches
  <2>2. Due(n)' = Due(n)
    BY <1>1, <2>1, DueStep, DueType
  <2>3. Claimed(n)' <=> Claimed(n)
    BY <1>1, <1>2, ClaimedSame
  <2>4. Current(n)' = Current(n)
    BY <1>2 DEF Current
  <2> QED
    BY <1>1, <1>2, <2>2, <2>3, <2>4, EdgesKept
<1>3. CASE Touches(t) /\ n # Node(t)
  BY <1>1, <1>3, EdgesElsewhere
<1>4. CASE Touches(t) /\ n = Node(t)
  <2>1. ~VisitTerminal(t)
    BY <1>4 DEF VisitTerminal
  <2> QED
    BY <1>1, <1>4, <2>1, AddLeafValueEdges, ClaimNodeEdges, ExpandNodeEdges, SelectNoneEdges,
       ClaimGrowthEdges, PublishEdges, InsertChildEdges, EdgeVisitEdges DEF Touches
<1> QED
  BY <1>1, <1>2, <1>3, <1>4, EdgeKinds

(* A search that begins or ends leaves what is due to the nodes, and their edges.                               *)
LEMMA EdgesGlobal == ASSUME Inv, TypeOK', DirtyInv, EdgesInv, Global PROVE EdgesInv'
<1> SUFFICES ASSUME NEW n \in Nodes \ Terminal PROVE EdgesOf(n)'
  BY DEF EdgesInv
<1>1. /\ UNCHANGED <<state, children, visits, dirtyCounter, path, completed>>
      /\ \/ UNCHANGED pc
         \/ \A t \in Threads : pc[t] \in {"idle", "ended"} /\ pc'[t] \in {"idle", "start"}
  BY GlobalStep
<1>2. EdgesOf(n)
  BY DEF EdgesInv
<1>3. Undoers(n)' = Undoers(n) /\ AtStats(n)' = AtStats(n)
  BY <1>1 DEF Undoers, AtStats, Node, Top
<1>4. Due(n)' = Due(n)
  BY <1>1, <1>3 DEF Due, Taken
<1>5. Claimed(n)' <=> Claimed(n)
  BY <1>1 DEF Claimed, Claims, Node, Top
<1>6. Current(n)' = Current(n)
  BY <1>1 DEF Current
<1> QED
  BY <1>1, <1>2, <1>4, <1>5, <1>6, EdgesKept

-------------------------------------------------------------------------------
(* In the beginning there are no edges.                                                      *)
LEMMA InitEdges == Init => CopyLags /\ EdgesInv
<1> SUFFICES ASSUME Init PROVE CopyLags /\ EdgesInv
  OBVIOUS
<1>1. TypeOK /\ NodeInv /\ DirtyInv
  BY InitInv, InitAccounts DEF Inv, Accounts
<1>2. /\ \A t \in Threads : pc[t] = "idle"
      /\ \A n \in Nodes : state[n] = 0 /\ visits[n] = 0
  BY DEF Init, UNEVALUATED
<1>3. CopyLags
  BY <1>2 DEF CopyLags, Grows
<1>4. ASSUME NEW n \in Nodes PROVE EdgesOf(n)
  <2>1. Due(n) = 0
    BY <1>1, <1>2, IdleDue
  <2>2. state[n] < EXPANDED0 /\ state[n] # EXPANDED0
    BY <1>2, StateValues
  <2>3. EdgeVisitsOf(Current(n)) = {} /\ IsFiniteSet({}) /\ Cardinality({}) = 0
    BY <1>1, <2>2, NoEdgesYet, FS_EmptySet
  <2>4. ~Claimed(n) /\ 0 <= 0
    BY <1>2 DEF Claimed, Claims
  <2> QED
    BY <2>1, <2>2, <2>3, <2>4 DEF EdgesOf
<1> QED
  BY <1>3, <1>4 DEF EdgesInv

(* Every step leaves the visits those of the edges.                                          *)
LEMMA NextEdges == Inv /\ Accounts /\ CopyLags /\ EdgesInv /\ Next => (CopyLags /\ EdgesInv)'
<1> SUFFICES ASSUME Inv, Accounts, CopyLags, EdgesInv, Next PROVE CopyLags' /\ EdgesInv'
  OBVIOUS
<1>1. Inv' /\ TypeOK' /\ Forward /\ OwnInv /\ DirtyInv
  BY NextInv DEF Inv, Accounts
<1>2. CASE Global
  BY <1>1, <1>2, CopyGlobal, EdgesGlobal
<1>3. CASE \E t \in Threads : Thread(t)
  BY <1>1, <1>3, CopyThread, EdgesThread
<1> QED
  BY <1>2, <1>3, NextKinds

(* The visits of edges are about the variables alone.                                        *)
LEMMA StutterEdges == CopyLags /\ EdgesInv /\ UNCHANGED vars => (CopyLags /\ EdgesInv)'
<1> SUFFICES ASSUME CopyLags, EdgesInv, UNCHANGED vars PROVE CopyLags' /\ EdgesInv'
  OBVIOUS
<1> USE DEF vars, nodeVars, searchVars, threadVars
<1>1. CopyLags'
  BY DEF CopyLags, Grows, Slots, Node, Top
<1>2. ASSUME NEW n \in Nodes \ Terminal PROVE EdgesOf(n)'
  <2>1. EdgesOf(n) /\ UNCHANGED state
    BY DEF EdgesInv
  <2>2. Due(n)' = Due(n)
    BY DEF Due, Taken, Undoers, AtStats, Node, Top
  <2>3. Claimed(n)' <=> Claimed(n)
    BY DEF Claimed, Claims, Node, Top
  <2>4. Current(n)' = Current(n)
    BY DEF Current
  <2> QED
    BY <2>1, <2>2, <2>3, <2>4, EdgesKept
<1> QED
  BY <1>1, <1>2 DEF EdgesInv

(* Between searches the visits of a node that has its first array are its own and those of its edges; the      *)
(* visits of the edges of a larger array may have fallen behind, and are never more.                             *)
THEOREM VisitsAreOfEdges == Spec => []EdgesAccounted
<1>1. Init => CopyLags /\ EdgesInv
  BY InitEdges
<1>2. Inv /\ Accounts /\ CopyLags /\ EdgesInv /\ [Next]_vars => (CopyLags /\ EdgesInv)'
  BY NextEdges, StutterEdges
<1>3. Inv /\ Accounts /\ EdgesInv => EdgesAccounted
  <2> SUFFICES ASSUME Inv, Accounts, EdgesInv, AllIdle, NEW n \in Nodes \ Terminal
               PROVE  /\ EdgeVisits(n) <= visits[n]
                      /\ Moves(n) # {} /\ state[n] = EXPANDED0 => visits[n] = 1 + EdgeVisits(n)
    BY DEF EdgesAccounted
  <2>1. TypeOK /\ DirtyInv /\ EdgesOf(n)
    BY DEF Inv, Accounts, EdgesInv
  <2>2. \A t \in Threads : pc[t] = "idle"
    BY DEF AllIdle, At
  <2>3. Due(n) = visits[n]
    BY <2>1, <2>2, IdleDue
  <2> QED
    BY <2>1, <2>3 DEF EdgesOf, EdgeVisits, Current
<1>4. Spec => [](Inv /\ Accounts)
  BY SpecAccounts
<1> QED
  BY <1>1, <1>2, <1>3, <1>4, PTL DEF Spec
===============================================================================
