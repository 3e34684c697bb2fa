----------------------------- MODULE SearchTree -----------------------------
(* search/search.cpp, searchnode.{h,cpp}, searchupdatehelpers.cpp: threads run   *)
(* playouts over one shared graph of positions, with almost no locks.  A playout *)
(* descends from the root, evaluates one new node and comes back, counting an    *)
(* edge visit and a visit at every node of its path.  A node's state orders the  *)
(* publication of its neural net output and of its arrays of children, which grow *)
(* by being copied into larger ones; a counter per node elects the thread that   *)
(* updates the node's statistics on behalf of all.                               *)
(*                                                                               *)
(* One atomic operation, or one hold of a mutex or of a statsLock, is one action. *)
(* Atomics are sequentially consistent.  Utilities and policies are left out:     *)
(* a thread descends to any child that the array it reads allows.                 *)
EXTENDS Integers, Sequences, FiniteSets

CONSTANTS
  Threads,        \* numThreads search threads
  Nodes,          \* positions by their graph hash, for which the table has a node
  Root,
  Plies,          \* how many moves lead to a position
  Child,          \* the position after each move that the policy allows in a node
  Terminal,       \* positions where the game is over
  Capacity,       \* CHILDREN0SIZE, CHILDREN1SIZE and CHILDREN2SIZE
  MaxPlayouts,    \* searchParams.maxPlayouts
  MaxVisits,      \* searchParams.maxVisits
  None            \* NULL

Moves(n) == DOMAIN Child[n]

(* Every move adds a stone; a pass ends the game.  So no position comes again.     *)
ASSUME GraphAssumption ==
  /\ IsFiniteSet(Nodes) /\ Root \in Nodes /\ Root \notin Terminal /\ None \notin Nodes
  /\ Plies \in [Nodes -> Nat]
  /\ DOMAIN Child = Nodes
  /\ \A n \in Nodes : \A m \in Moves(n) :
       Child[n][m] \in Nodes /\ Plies[Child[n][m]] = Plies[n] + 1

ASSUME SizeAssumption ==
  /\ Capacity \in [0..2 -> Nat \ {0}]
  /\ Capacity[0] < Capacity[1] /\ Capacity[1] < Capacity[2]
  /\ \A n \in Nodes : Cardinality(Moves(n)) <= Capacity[2]
  /\ IsFiniteSet(Threads) /\ Threads # {}
  /\ {MaxPlayouts, MaxVisits} \subseteq Nat

VARIABLES
  state,          \* SearchNode::state
  nnOutput,       \* SearchNode::nnOutput is not NULL
  children,       \* children0, children1 and children2 of each node
  visits,         \* SearchNode::stats.visits
  dirtyCounter,
  virtualLosses,
  numPlayoutsShared,
  numNonPlayoutVisits,
  shouldStopNow,
  pc,
  path,           \* the calls of playoutDescend a thread is in, the root's first
  finished,       \* what the call that returns has returned
  completed,      \* numVisitsCompleted
  newChildren,    \* the larger array a thread is filling
  numPlayouts     \* a thread's own reading of numPlayoutsShared

nodeVars   == <<state, nnOutput, children, visits, dirtyCounter, virtualLosses>>
searchVars == <<numPlayoutsShared, numNonPlayoutVisits, shouldStopNow>>
threadVars == <<pc, path, finished, completed, newChildren, numPlayouts>>
vars == <<nodeVars, searchVars, threadVars>>

-------------------------------------------------------------------------------
UNEVALUATED == 0
EVALUATING  == 1
EXPANDED0   == 2
GROWING1    == 3
EXPANDED1   == 4
GROWING2    == 5
EXPANDED2   == 6
States      == UNEVALUATED..EXPANDED2

AllMoves == UNION {Moves(n) : n \in Nodes}
Slot     == [child: Nodes \cup {None}, move: AllMoves \cup {None}, edgeVisits: Nat]
Empty    == [child |-> None, move |-> None, edgeVisits |-> 0]
NoArray  == <<>>
NewArray(a) == [i \in 1..Capacity[a] |-> Empty]
ArraysOfSize(a) == [1..Capacity[a] -> Slot]
Arrays   == {NoArray} \cup ArraysOfSize(0) \cup ArraysOfSize(1) \cup ArraysOfSize(2)

(* The array that getChildren(nodeState) returns.                                *)
ArrayOf(s) == IF s >= EXPANDED2 THEN 2 ELSE IF s >= EXPANDED1 THEN 1 ELSE 0

Frame(n) == [node |-> n, st |-> UNEVALUATED, idx |-> 0, move |-> None, child |-> None]
Frames == [node: Nodes, st: States, idx: Nat, move: AllMoves \cup {None},
           child: Nodes \cup {None}]

Top(t)   == path[t][Len(path[t])]
Node(t)  == Top(t).node
Slots(t) == children[Node(t)][ArrayOf(Top(t).st)]
SetTop(t, frame) == path' = [path EXCEPT ![t][Len(path[t])] = frame]

NumFound(array) == Cardinality({i \in DOMAIN array : array[i].child # None})

ThreadPcs == {"idle", "start", "loop", "visit", "evaluate", "leaf", "claim", "expand",
              "select", "grow", "reload", "copy", "publish", "newChild", "catchUp",
              "edgeState", "edge", "stats", "recompute", "undo", "return", "ended"}

TypeOK ==
  /\ state \in [Nodes -> States]
  /\ nnOutput \in [Nodes -> BOOLEAN]
  /\ children \in [Nodes -> [0..2 -> Arrays]]
  /\ visits \in [Nodes -> Nat]
  /\ dirtyCounter \in [Nodes -> Int]
  /\ virtualLosses \in [Nodes -> Int]
  /\ numPlayoutsShared \in Nat
  /\ numNonPlayoutVisits \in Nat
  /\ shouldStopNow \in BOOLEAN
  /\ pc \in [Threads -> ThreadPcs]
  /\ path \in [Threads -> Seq(Frames)]
  /\ finished \in [Threads -> BOOLEAN]
  /\ completed \in [Threads -> Int]
  /\ newChildren \in [Threads -> Arrays]
  /\ numPlayouts \in [Threads -> Nat]

Init ==
  /\ state = [n \in Nodes |-> UNEVALUATED]
  /\ nnOutput = [n \in Nodes |-> FALSE]
  /\ children = [n \in Nodes |-> [a \in 0..2 |-> NoArray]]
  /\ visits = [n \in Nodes |-> 0]
  /\ dirtyCounter = [n \in Nodes |-> 0]
  /\ virtualLosses = [n \in Nodes |-> 0]
  /\ numPlayoutsShared = 0
  /\ numNonPlayoutVisits = 0
  /\ shouldStopNow = FALSE
  /\ pc = [t \in Threads |-> "idle"]
  /\ path = [t \in Threads |-> <<>>]
  /\ finished = [t \in Threads |-> FALSE]
  /\ completed = [t \in Threads |-> 0]
  /\ newChildren = [t \in Threads |-> NoArray]
  /\ numPlayouts = [t \in Threads |-> 0]

At(t, label)   == pc[t] = label
GoTo(t, label) == pc' = [pc EXCEPT ![t] = label]
ReturnWith(t, b) ==
  /\ GoTo(t, "return")
  /\ finished' = [finished EXCEPT ![t] = b]

-------------------------------------------------------------------------------
(* runWholeSearch: the task is given to every thread of the pool, and the caller  *)
(* waits until all are done with it.                                              *)

BeginSearch ==
  /\ \A t \in Threads : At(t, "idle")
  /\ numPlayoutsShared' = 0
  /\ numNonPlayoutVisits' = visits[Root]
  /\ shouldStopNow' = FALSE
  /\ pc' = [t \in Threads |-> "start"]
  /\ UNCHANGED <<nodeVars, path, finished, completed, newChildren, numPlayouts>>

(* Who runs the search asks it to stop, or a thread finds that its time is up.      *)
RequestStop ==
  /\ \E t \in Threads : ~At(t, "idle")
  /\ shouldStopNow' = TRUE
  /\ UNCHANGED <<nodeVars, numPlayoutsShared, numNonPlayoutVisits, threadVars>>

BeginTask(t) ==
  /\ At(t, "start")
  /\ numPlayouts' = [numPlayouts EXCEPT ![t] = numPlayoutsShared]
  /\ GoTo(t, "loop")
  /\ UNCHANGED <<nodeVars, searchVars, path, finished, completed, newChildren>>

LimitReached(t) ==
  \/ numPlayouts[t] >= MaxPlayouts
  \/ numPlayouts[t] + numNonPlayoutVisits >= MaxVisits

StopSearching(t) ==
  /\ At(t, "loop")
  /\ \/ LimitReached(t)
     \/ shouldStopNow
  /\ shouldStopNow' = TRUE
  /\ GoTo(t, "ended")
  /\ UNCHANGED <<nodeVars, numPlayoutsShared, numNonPlayoutVisits, path,
                 finished, completed, newChildren, numPlayouts>>

BeginPlayout(t) ==
  /\ At(t, "loop")
  /\ ~LimitReached(t)
  /\ ~shouldStopNow
  /\ path' = [path EXCEPT ![t] = <<Frame(Root)>>]
  /\ GoTo(t, "visit")
  /\ UNCHANGED <<nodeVars, searchVars, finished, completed, newChildren, numPlayouts>>

(* waitUntilZero: every thread is done with the task.                             *)
EndSearch ==
  /\ \A t \in Threads : At(t, "ended")
  /\ pc' = [t \in Threads |-> "idle"]
  /\ numPlayouts' = [t \in Threads |-> 0]
  /\ UNCHANGED <<nodeVars, searchVars, path, finished, completed, newChildren>>

-------------------------------------------------------------------------------
(* playoutDescend: the leaf.                                                      *)

VisitTerminal(t) ==
  /\ At(t, "visit")
  /\ Node(t) \in Terminal
  /\ visits' = [visits EXCEPT ![Node(t)] = @ + 1]
  /\ ReturnWith(t, TRUE)
  /\ UNCHANGED <<state, nnOutput, children, dirtyCounter, virtualLosses, searchVars, path,
                 completed, newChildren, numPlayouts>>

Visit(t) ==
  /\ At(t, "visit")
  /\ Node(t) \notin Terminal
  /\ LET s == state[Node(t)]
     IN  /\ SetTop(t, [Top(t) EXCEPT !.st = s])
         /\ \/ s = UNEVALUATED /\ GoTo(t, "evaluate") /\ UNCHANGED finished
            \/ s = EVALUATING /\ ReturnWith(t, FALSE)
            \/ s >= EXPANDED0 /\ GoTo(t, "select") /\ UNCHANGED finished
  /\ UNCHANGED <<nodeVars, searchVars, completed, newChildren, numPlayouts>>

(* The net has answered.  The first to store an output goes on.                    *)
Evaluate(t) ==
  /\ At(t, "evaluate")
  /\ \/ /\ nnOutput[Node(t)]
        /\ ReturnWith(t, FALSE)
        /\ UNCHANGED nnOutput
     \/ /\ ~nnOutput[Node(t)]
        /\ nnOutput' = [nnOutput EXCEPT ![Node(t)] = TRUE]
        /\ GoTo(t, "leaf")
        /\ UNCHANGED finished
  /\ UNCHANGED <<state, children, visits, dirtyCounter, virtualLosses, searchVars, path,
                 completed, newChildren, numPlayouts>>

(* Mutant: the node is published before it has its statistics.                     *)
Mutant_AddLeafValueLate(t) ==
  /\ At(t, "leaf")
  /\ GoTo(t, "claim")
  /\ UNCHANGED <<nodeVars, searchVars, path, finished, completed, newChildren, numPlayouts>>

AddLeafValue(t) ==
  /\ At(t, "leaf")
  /\ visits' = [visits EXCEPT ![Node(t)] = @ + 1]
  /\ GoTo(t, "claim")
  /\ UNCHANGED <<state, nnOutput, children, dirtyCounter, virtualLosses, searchVars, path,
                 finished, completed, newChildren, numPlayouts>>

ClaimNode(t) ==
  /\ At(t, "claim")
  /\ \/ /\ state[Node(t)] = UNEVALUATED
        /\ state' = [state EXCEPT ![Node(t)] = EVALUATING]
        /\ GoTo(t, "expand")
        /\ UNCHANGED finished
     \/ /\ state[Node(t)] # UNEVALUATED
        /\ ReturnWith(t, FALSE)
        /\ UNCHANGED state
  /\ UNCHANGED <<nnOutput, children, visits, dirtyCounter, virtualLosses, searchVars, path,
                 completed, newChildren, numPlayouts>>

(* Mutant: the state is not moved on.                                             *)
Mutant_ExpandNodeUnpublished(t) ==
  /\ At(t, "expand")
  /\ children' = [children EXCEPT ![Node(t)][0] = NewArray(0)]
  /\ ReturnWith(t, TRUE)
  /\ UNCHANGED <<state, nnOutput, visits, dirtyCounter, virtualLosses, searchVars, path,
                 completed, newChildren, numPlayouts>>

ExpandNode(t) ==
  /\ At(t, "expand")
  /\ children' = [children EXCEPT ![Node(t)][0] = NewArray(0)]
  /\ state' = [state EXCEPT ![Node(t)] = EXPANDED0]
  /\ ReturnWith(t, TRUE)
  /\ UNCHANGED <<nnOutput, visits, dirtyCounter, virtualLosses, searchVars, path, completed,
                 newChildren, numPlayouts>>

-------------------------------------------------------------------------------
(* playoutDescend: the choice of a child.  The scan of the array is one action: it *)
(* ends at the first empty slot, or at the end, and what it found before stays.    *)

(* A child that the array has already.                                             *)
SelectExisting(t) ==
  /\ At(t, "select")
  /\ \E i \in 1..NumFound(Slots(t)) :
       LET slot == Slots(t)[i]
       IN  /\ SetTop(t, [Top(t) EXCEPT !.idx = i, !.move = slot.move, !.child = slot.child])
           /\ virtualLosses' = [virtualLosses EXCEPT ![slot.child] = @ + 1]
  /\ GoTo(t, "catchUp")
  /\ UNCHANGED <<state, nnOutput, children, visits, dirtyCounter, searchVars, finished,
                 completed, newChildren, numPlayouts>>

(* Moves that no child found leads to.                                             *)
NewMoves(t) ==
  Moves(Node(t)) \ {Slots(t)[i].move : i \in 1..NumFound(Slots(t))}

FitsInArray(i, s) == i <= Capacity[ArrayOf(s)]

SelectNew(t) ==
  /\ At(t, "select")
  /\ LET i == NumFound(Slots(t)) + 1
     IN  /\ \E m \in NewMoves(t) : SetTop(t, [Top(t) EXCEPT !.idx = i, !.move = m])
         /\ GoTo(t, IF FitsInArray(i, Top(t).st) THEN "newChild" ELSE "grow")
  /\ UNCHANGED <<nodeVars, searchVars, finished, completed, newChildren, numPlayouts>>

(* There is nothing to descend to: the visit is counted at the node itself.        *)
SelectNone(t) ==
  /\ At(t, "select")
  /\ NumFound(Slots(t)) = 0 /\ NewMoves(t) = {}
  /\ visits' = [visits EXCEPT ![Node(t)] = @ + 1]
  /\ ReturnWith(t, TRUE)
  /\ UNCHANGED <<state, nnOutput, children, dirtyCounter, virtualLosses, searchVars, path,
                 completed, newChildren, numPlayouts>>

(* Mutant: any thread that finds the array full makes a larger one.                      *)
Mutant_ClaimGrowthUnchecked(t) ==
  /\ At(t, "grow")
  /\ \/ /\ Top(t).st \in {GROWING1, GROWING2}
        /\ GoTo(t, "reload")
        /\ UNCHANGED <<state, path, newChildren>>
     \/ /\ Top(t).st \in {EXPANDED0, EXPANDED1}
        /\ state' = [state EXCEPT ![Node(t)] = Top(t).st + 1]
        /\ SetTop(t, [Top(t) EXCEPT !.st = @ + 1])
        /\ newChildren' = [newChildren EXCEPT ![t] = NewArray(ArrayOf(Top(t).st) + 1)]
        /\ GoTo(t, "copy")
  /\ UNCHANGED <<nnOutput, children, visits, dirtyCounter, virtualLosses, searchVars,
                 finished, completed, numPlayouts>>

(* tryExpandingChildrenCapacityAssumeFull: one thread claims the node and makes room.  A *)
(* thread that finds another at it yields and selects again.                             *)
ClaimGrowth(t) ==
  /\ At(t, "grow")
  /\ \/ /\ \/ Top(t).st \in {GROWING1, GROWING2}
           \/ state[Node(t)] # Top(t).st
        /\ GoTo(t, "reload")
        /\ UNCHANGED <<state, path, newChildren>>
     \/ /\ Top(t).st \in {EXPANDED0, EXPANDED1}
        /\ state[Node(t)] = Top(t).st
        /\ state' = [state EXCEPT ![Node(t)] = @ + 1]
        /\ SetTop(t, [Top(t) EXCEPT !.st = @ + 1])
        /\ newChildren' = [newChildren EXCEPT ![t] = NewArray(ArrayOf(Top(t).st) + 1)]
        /\ GoTo(t, "copy")
  /\ UNCHANGED <<nnOutput, children, visits, dirtyCounter, virtualLosses, searchVars,
                 finished, completed, numPlayouts>>

ReloadState(t) ==
  /\ At(t, "reload")
  /\ SetTop(t, [Top(t) EXCEPT !.st = state[Node(t)], !.idx = 0, !.move = None])
  /\ GoTo(t, "select")
  /\ UNCHANGED <<nodeVars, searchVars, finished, completed, newChildren, numPlayouts>>

(* The children are copied one after another, while other threads count edge visits  *)
(* in the old array.                                                                  *)
CopyChild(t) ==
  /\ At(t, "copy")
  /\ LET i == NumFound(newChildren[t]) + 1
     IN  /\ newChildren' = [newChildren EXCEPT ![t][i] = Slots(t)[i]]
         /\ IF i = Len(Slots(t)) THEN GoTo(t, "publish") ELSE UNCHANGED pc
  /\ UNCHANGED <<nodeVars, searchVars, path, finished, completed, numPlayouts>>

PublishChildren(t) ==
  /\ At(t, "publish")
  /\ children' = [children EXCEPT ![Node(t)][ArrayOf(Top(t).st) + 1] = newChildren[t]]
  /\ state' = [state EXCEPT ![Node(t)] = @ + 1]
  /\ SetTop(t, [Top(t) EXCEPT !.st = @ + 1])
  /\ newChildren' = [newChildren EXCEPT ![t] = NoArray]
  /\ GoTo(t, "newChild")
  /\ UNCHANGED <<nnOutput, visits, dirtyCounter, virtualLosses, searchVars, finished,
                 completed, numPlayouts>>

ChildNode(t) == Child[Node(t)][Top(t).move]

(* Mutant: the thread that is late does not let the node go.                             *)
Mutant_InsertChildKeepsLoss(t) ==
  /\ At(t, "newChild")
  /\ \/ /\ Slots(t)[Top(t).idx].child = None
        /\ children' = [children EXCEPT ![Node(t)][ArrayOf(Top(t).st)][Top(t).idx] =
                          [@ EXCEPT !.child = ChildNode(t), !.move = Top(t).move]]
        /\ SetTop(t, [Top(t) EXCEPT !.child = ChildNode(t)])
        /\ GoTo(t, "catchUp")
        /\ UNCHANGED finished
     \/ /\ Slots(t)[Top(t).idx].child # None
        /\ ReturnWith(t, FALSE)
        /\ UNCHANGED <<children, path>>
  /\ virtualLosses' = [virtualLosses EXCEPT ![ChildNode(t)] = @ + 1]
  /\ UNCHANGED <<state, nnOutput, visits, dirtyCounter, searchVars, completed, newChildren,
                 numPlayouts>>

(* The node for the new position, found in the table or allocated there, is held and put *)
(* into its slot under the node's mutex; the thread that is late lets it go and gives up. *)
InsertChild(t) ==
  /\ At(t, "newChild")
  /\ \/ /\ Slots(t)[Top(t).idx].child = None
        /\ children' = [children EXCEPT ![Node(t)][ArrayOf(Top(t).st)][Top(t).idx] =
                          [@ EXCEPT !.child = ChildNode(t), !.move = Top(t).move]]
        /\ SetTop(t, [Top(t) EXCEPT !.child = ChildNode(t)])
        /\ virtualLosses' = [virtualLosses EXCEPT ![ChildNode(t)] = @ + 1]
        /\ GoTo(t, "catchUp")
        /\ UNCHANGED finished
     \/ /\ Slots(t)[Top(t).idx].child # None
        /\ ReturnWith(t, FALSE)
        /\ UNCHANGED <<children, path, virtualLosses>>
  /\ UNCHANGED <<state, nnOutput, visits, dirtyCounter, searchVars, completed, newChildren,
                 numPlayouts>>

-------------------------------------------------------------------------------
(* playoutDescend: the way down and the way back.                                      *)

AddEdgeVisit(t) ==
  children' = [children EXCEPT ![Node(t)][ArrayOf(Top(t).st)][Top(t).idx].edgeVisits = @ + 1]

(* Mutant: the visit is counted at the edge only.                                       *)
Mutant_CatchUpUncounted(t) ==
  /\ At(t, "catchUp")
  /\ Slots(t)[Top(t).idx].edgeVisits < visits[Top(t).child]
  /\ AddEdgeVisit(t)
  /\ ReturnWith(t, TRUE)
  /\ UNCHANGED <<state, nnOutput, visits, dirtyCounter, virtualLosses, searchVars, path,
                 completed, newChildren, numPlayouts>>

(* maybeCatchUpEdgeVisits: an edge that has fewer visits than its child, which other    *)
(* edges lead to, gets one without a descent.                                           *)
CatchUp(t) ==
  /\ At(t, "catchUp")
  /\ Slots(t)[Top(t).idx].edgeVisits < visits[Top(t).child]
  /\ AddEdgeVisit(t)
  /\ GoTo(t, "stats")
  /\ UNCHANGED <<state, nnOutput, visits, dirtyCounter, virtualLosses, searchVars, path,
                 finished, completed, newChildren, numPlayouts>>

(* Otherwise recurse; also if the thread has read the child's visits too early, or       *)
(* leaks through (graphSearchCatchUpLeakProb).                                           *)
Descend(t) ==
  /\ At(t, "catchUp")
  /\ path' = [path EXCEPT ![t] = Append(@, Frame(Top(t).child))]
  /\ GoTo(t, "visit")
  /\ UNCHANGED <<nodeVars, searchVars, finished, completed, newChildren, numPlayouts>>

(* The child's call has returned TRUE: the node may have grown meanwhile.                *)
ReloadForEdge(t) ==
  /\ At(t, "edgeState")
  /\ SetTop(t, [Top(t) EXCEPT !.st = state[Node(t)]])
  /\ GoTo(t, "edge")
  /\ UNCHANGED <<nodeVars, searchVars, finished, completed, newChildren, numPlayouts>>

CountEdgeVisit(t) ==
  /\ At(t, "edge")
  /\ AddEdgeVisit(t)
  /\ GoTo(t, "stats")
  /\ UNCHANGED <<state, nnOutput, visits, dirtyCounter, virtualLosses, searchVars, path,
                 finished, completed, newChildren, numPlayouts>>

(* updateStatsAfterPlayout: only the thread that finds the counter at 0 goes on.         *)
MarkDirty(t) ==
  /\ At(t, "stats")
  /\ dirtyCounter' = [dirtyCounter EXCEPT ![Node(t)] = @ + 1]
  /\ \/ /\ dirtyCounter[Node(t)] > 0
        /\ ReturnWith(t, TRUE)
        /\ UNCHANGED completed
     \/ /\ dirtyCounter[Node(t)] = 0
        /\ completed' = [completed EXCEPT ![t] = 1]
        /\ GoTo(t, "recompute")
        /\ UNCHANGED finished
  /\ UNCHANGED <<state, nnOutput, children, visits, virtualLosses, searchVars, path,
                 newChildren, numPlayouts>>

RecomputeNodeStats(t) ==
  /\ At(t, "recompute")
  /\ visits' = [visits EXCEPT ![Node(t)] = @ + completed[t]]
  /\ GoTo(t, "undo")
  /\ UNCHANGED <<state, nnOutput, children, dirtyCounter, virtualLosses, searchVars, path,
                 finished, completed, newChildren, numPlayouts>>

(* Mutant: the counter is reset, whatever was added to it in the meantime.               *)
Mutant_UndoDirtyResets(t) ==
  /\ At(t, "undo")
  /\ dirtyCounter' = [dirtyCounter EXCEPT ![Node(t)] = 0]
  /\ completed' = [completed EXCEPT ![t] = 0]
  /\ ReturnWith(t, TRUE)
  /\ UNCHANGED <<state, nnOutput, children, visits, virtualLosses, searchVars, path,
                 newChildren, numPlayouts>>

(* Take off what has been done, and do what others have added meanwhile.                 *)
UndoDirty(t) ==
  /\ At(t, "undo")
  /\ LET left == dirtyCounter[Node(t)] - completed[t]
     IN  /\ dirtyCounter' = [dirtyCounter EXCEPT ![Node(t)] = left]
         /\ completed' = [completed EXCEPT ![t] = left]
         /\ \/ left <= 0 /\ ReturnWith(t, TRUE)
            \/ left > 0 /\ GoTo(t, "recompute") /\ UNCHANGED finished
  /\ UNCHANGED <<state, nnOutput, children, visits, virtualLosses, searchVars, path,
                 newChildren, numPlayouts>>

ReleaseChild(t) ==
  virtualLosses' = IF Top(t).child = None THEN virtualLosses
                   ELSE [virtualLosses EXCEPT ![Top(t).child] = @ - 1]

(* The call returns to the call for the node above, ...                                   *)
Return(t) ==
  /\ At(t, "return") /\ Len(path[t]) > 1
  /\ ReleaseChild(t)
  /\ path' = [path EXCEPT ![t] = SubSeq(@, 1, Len(@) - 1)]
  /\ GoTo(t, IF finished[t] THEN "edgeState" ELSE "return")
  /\ UNCHANGED <<state, nnOutput, children, visits, dirtyCounter, searchVars, finished,
                 completed, newChildren, numPlayouts>>

(* ... or to the search loop.  A playout that did not finish is tried again.               *)
EndPlayout(t) ==
  /\ At(t, "return") /\ Len(path[t]) = 1
  /\ ReleaseChild(t)
  /\ path' = [path EXCEPT ![t] = <<>>]
  /\ IF finished[t]
       THEN /\ numPlayoutsShared' = numPlayoutsShared + 1
            /\ numPlayouts' = [numPlayouts EXCEPT ![t] = numPlayoutsShared + 1]
       ELSE UNCHANGED <<numPlayoutsShared, numPlayouts>>
  /\ finished' = [finished EXCEPT ![t] = FALSE]
  /\ GoTo(t, "loop")
  /\ UNCHANGED <<state, nnOutput, children, visits, dirtyCounter,
                 numNonPlayoutVisits, shouldStopNow, completed, newChildren>>

-------------------------------------------------------------------------------
Leaf(t) == VisitTerminal(t) \/ Visit(t) \/ Evaluate(t) \/ AddLeafValue(t)
             \/ ClaimNode(t) \/ ExpandNode(t)
Choose(t) == SelectExisting(t) \/ SelectNew(t) \/ SelectNone(t) \/ ClaimGrowth(t)
               \/ ReloadState(t) \/ CopyChild(t) \/ PublishChildren(t) \/ InsertChild(t)
ComeBack(t) == CatchUp(t) \/ Descend(t) \/ ReloadForEdge(t) \/ CountEdgeVisit(t)
                 \/ MarkDirty(t) \/ RecomputeNodeStats(t) \/ UndoDirty(t) \/ Return(t)

Thread(t) ==
  \/ BeginTask(t)
  \/ StopSearching(t)
  \/ BeginPlayout(t)
  \/ EndPlayout(t)
  \/ Leaf(t)
  \/ Choose(t)
  \/ ComeBack(t)

Next ==
  \/ BeginSearch
  \/ RequestStop
  \/ EndSearch
  \/ \E t \in Threads : Thread(t)

Spec == Init /\ [][Next]_vars

(* Every thread runs on.                                                                  *)
Fairness ==
  /\ WF_vars(EndSearch)
  /\ \A t \in Threads : WF_vars(Thread(t))

FairSpec == Spec /\ Fairness

-------------------------------------------------------------------------------
AllIdle == \A t \in Threads : At(t, "idle")

(* The virtual losses of a node are the calls that hold it, whichever way they leave it.        *)
Held(t, n) == {k \in DOMAIN path[t] : path[t][k].child = n}
Holders(n) == UNION {{t} \X Held(t, n) : t \in Threads}
LossesAreHeld == \A n \in Nodes : virtualLosses[n] = Cardinality(Holders(n))

(* When a search is over, every playout that finished has been counted exactly once at     *)
(* the root, whichever thread did the counting, and no node is left half expanded or        *)
(* marked dirty: "assert(newDirtyCounter == 0)".  Playouts on their way have their virtual   *)
(* losses, and leave none behind.                                                            *)
NoPlayoutLost ==
  /\ LossesAreHeld
  /\ AllIdle =>
       /\ visits[Root] = numNonPlayoutVisits + numPlayoutsShared
       /\ \A n \in Nodes :
            /\ dirtyCounter[n] = 0
            /\ state[n] \notin {EVALUATING, GROWING1, GROWING2}

(* "Guaranteed to be non-NULL once state >= ...": a node that can be descended through has  *)
(* its output, its own visit, and every array up to the one that its state names; the array  *)
(* is full when the next one is made.                                                        *)
ExpandedIsReady ==
  \A n \in Nodes :
    /\ state[n] >= EXPANDED0 => nnOutput[n] /\ visits[n] >= 1
    /\ \A a \in 0..2 : children[n][a] # NoArray <=> state[n] >= 2 * a + 2
    /\ \A a \in 0..1 : state[n] > 2 * a + 2 => NumFound(children[n][a]) = Capacity[a]

(* "During search, only ever transitions forward", as its readers, who act on old readings,   *)
(* rely on; and children are never taken away.                                                *)
OnlyForward ==
  [][\A n \in Nodes :
       /\ state'[n] >= state[n]
       /\ \A a \in 0..2, i \in 1..Capacity[2] :
            i \in DOMAIN children[n][a] /\ children[n][a][i].child # None =>
              /\ children'[n][a][i].child = children[n][a][i].child
              /\ children'[n][a][i].edgeVisits >= children[n][a][i].edgeVisits]_vars

(* Between searches the visits of a node are its own and those of its edges, except that       *)
(* edge visits counted in an array while it is being replaced are lost: "might get slightly    *)
(* out of date".                                                                               *)
EdgeVisitsOf(array) == UNION {{i} \X (1..array[i].edgeVisits) : i \in DOMAIN array}
EdgeVisits(n)       == Cardinality(EdgeVisitsOf(children[n][ArrayOf(state[n])]))
EdgesAccounted ==
  AllIdle =>
    \A n \in Nodes \ Terminal :
      /\ EdgeVisits(n) <= visits[n]
      /\ Moves(n) # {} /\ state[n] = EXPANDED0 => visits[n] = 1 + EdgeVisits(n)

(* A search comes to an end, although playouts give up and are tried again, and threads wait     *)
(* in a loop for others to make room.                                                            *)
SearchEnds == ~AllIdle ~> AllIdle
===============================================================================
