----------------------------- MODULE TreeReuse ------------------------------
(* What becomes of the search tree between searches: Search::makeMove, beginSearch, *)
(* clearSearch and the destructor of search.cpp, the node table of searchnodetable.cpp, *)
(* and the pool of threads of searchmultithreadhelpers.cpp (with threadsafecounter.h) *)
(* that marks and deletes nodes.  The thread that calls Search is thread 0 of every task; *)
(* the others wait on a queue each.  A playout is one step that evaluates a node or hangs *)
(* a new child, or one found in the table, below a node; SearchTree has its details. *)
EXTENDS Integers, Sequences, FiniteSets, FiniteSetsExt, SequencesExt

CONSTANTS
  Nodes,             \* addresses of nodes; as many as memory holds
  MaxChildren,       \* bound: children of a node, which are numbered by their moves
  numShards,         \* of the node table
  MaxThreads,        \* the most that searchParams.numThreads is
  AgeLimit,          \* 0x3FFFFFFF of beginSearch
  MaxAge,            \* bound: searchNodeAge
  NULL

ASSUME ReuseAssumption ==
  /\ {numShards, MaxThreads} \subseteq Nat \ {0}
  /\ {AgeLimit, MaxAge, MaxChildren} \subseteq Nat /\ NULL \notin Nodes

VARIABLES
  \* the tree
  rootNode, live, table, node, searchNodeAge,
  \* the pool
  numThreads, numThreadsSpawned, threadTasks, threadTasksRemaining,
  \* the caller: the steps left of its operation, the task it performs, what it waits for
  todo, task, pushed,
  \* every thread: what it runs, its recursion, the share of the work it has done
  pc, stack,
  \* how often the function of the walk was called on a node
  calls

tree == <<rootNode, live, table, node, searchNodeAge>>
pool == <<numThreads, numThreadsSpawned, threadTasks, threadTasksRemaining>>
vars == <<tree, pool, todo, task, pushed, pc, stack, calls>>

Threads == 0..(MaxThreads - 1)
Helpers == Threads \ {0}
Walks == {"any", "post"}
Blank == [children |-> <<>>, nn |-> FALSE, nodeAge |-> 0]

Init ==
  /\ rootNode = NULL /\ live = {} /\ searchNodeAge = 0
  /\ table = [s \in 0..(numShards - 1) |-> {}]
  /\ node = [n \in Nodes |-> Blank]
  /\ numThreads \in 1..MaxThreads /\ numThreadsSpawned = 0
  /\ threadTasks = [h \in Helpers |-> <<>>] /\ threadTasksRemaining = 0
  /\ todo = <<>> /\ task = "none" /\ pushed = 0
  /\ pc = [t \in Threads |-> "idle"] /\ stack = [t \in Threads |-> <<>>]
  /\ calls = [n \in Nodes |-> 0]

TableNodes == UNION {table[s] : s \in DOMAIN table}
Children(n) == ToSet(node[n].children)
(* The least set that holds these and the children of what it holds. *)
IsClosed(S) == \A n \in S : Children(n) \subseteq S
Reachable(from) ==
  LET closed == {S \in SUBSET Nodes : from \subseteq S /\ IsClosed(S)}
  IN  {n \in Nodes : \A S \in closed : n \in S}
Tree == IF rootNode = NULL THEN {} ELSE Reachable({rootNode})

Idle == todo = <<>> /\ task = "none" /\ pc[0] = "idle"

-------------------------------------------------------------------------------
(* Operations of the caller, as the steps that they are made of. *)

(* clearSearch.  Without a root the table is empty. *)
ClearSteps == IF rootNode = NULL THEN <<"forget">> ELSE <<"clear", "forget">>

(* setPosition and the other setters of the search's situation, and a move by the other *)
(* player, which clears the history. *)
Clear ==
  /\ Idle
  /\ todo' = ClearSteps
  /\ UNCHANGED <<tree, pool, task, pushed, pc, stack, calls>>

(* setParams and setParamsNoClearing. *)
SetParams(n, clearing) ==
  /\ Idle /\ n # numThreads
  /\ numThreads' = n
  /\ todo' = IF clearing THEN ClearSteps ELSE <<>>
  /\ UNCHANGED <<tree, numThreadsSpawned, threadTasks, threadTasksRemaining, task, pushed, pc,
                 stack, calls>>

BeginSearch(recomputing) ==
  /\ Idle /\ (rootNode # NULL \/ live # Nodes)
  /\ searchNodeAge > AgeLimit \/ searchNodeAge + (IF recomputing THEN 2 ELSE 1) <= MaxAge
  /\ LET steps == IF recomputing THEN <<"root", "post", "age", "search">>
                  ELSE <<"root", "age", "search">>
     IN  todo' = IF searchNodeAge > AgeLimit THEN ClearSteps \o steps ELSE steps
  /\ UNCHANGED <<tree, pool, task, pushed, pc, stack, calls>>

HasChildAt(loc) ==
  loc \in DOMAIN node[rootNode].children /\ node[node[rootNode].children[loc]].nn

(* makeMove: the child becomes a root outside the table, by a copy; what cannot be reached *)
(* from it is deleted. *)
MakeMove(loc) ==
  /\ Idle /\ rootNode # NULL
  /\ \/ /\ ~HasChildAt(loc)
        /\ todo' = ClearSteps
        /\ UNCHANGED <<rootNode, live, node>>
     \/ /\ HasChildAt(loc) /\ searchNodeAge < MaxAge
        /\ \E copy \in Nodes \ live :
             /\ rootNode' = copy /\ live' = live \cup {copy}
             /\ node' = [node EXCEPT ![copy] = node[node[rootNode].children[loc]],
                                     ![rootNode] = Blank]
        /\ todo' = <<"any", "sweep">>
  /\ UNCHANGED <<table, searchNodeAge, pool, task, pushed, pc, stack, calls>>

(* The steps that are not shared among the threads. *)
Forget ==
  /\ todo # <<>> /\ Head(todo) = "forget" /\ task = "none"
  /\ todo' = Tail(todo)
  /\ live' = live \ {rootNode}
  /\ node' = [n \in Nodes |-> IF n = rootNode THEN Blank ELSE node[n]]
  /\ rootNode' = NULL /\ searchNodeAge' = 0
  /\ UNCHANGED <<table, pool, task, pushed, pc, stack, calls>>

(* beginSearch allocates the root that is missing, which then has nothing to recompute.  The *)
(* children of one that is there are legal moves on its board, and all of them are kept. *)
NewRoot ==
  /\ todo # <<>> /\ Head(todo) = "root" /\ task = "none"
  /\ \/ /\ rootNode = NULL
        /\ \E n \in Nodes \ live : rootNode' = n /\ live' = live \cup {n}
        /\ todo' = <<"age", "search">>
     \/ rootNode # NULL /\ todo' = Tail(todo) /\ UNCHANGED <<rootNode, live>>
  /\ UNCHANGED <<table, node, searchNodeAge, pool, task, pushed, pc, stack, calls>>

(* Nodes become old. *)
Older ==
  /\ todo # <<>> /\ Head(todo) = "age" /\ task = "none"
  /\ searchNodeAge' = searchNodeAge + 1
  /\ todo' = Tail(todo)
  /\ UNCHANGED <<rootNode, live, table, node, pool, task, pushed, pc, stack, calls>>

-------------------------------------------------------------------------------
(* The pool. *)

(* performTaskWithThreads: spawnThreadsIfNeeded, which kills the threads that there are, all of *)
(* them idle, if they are too few; a walk first makes every node old. *)
PerformTask ==
  /\ todo # <<>> /\ Head(todo) \in Walks \cup {"clear", "sweep", "search"} /\ task = "none"
  /\ \A h \in Helpers : pc[h] = "idle"
  /\ searchNodeAge' = searchNodeAge + (IF Head(todo) \in Walks THEN 1 ELSE 0)
  /\ numThreadsSpawned' = Max({numThreadsSpawned, numThreads - 1})
  /\ threadTasksRemaining' =
       (IF numThreadsSpawned < numThreads - 1 THEN 0 ELSE threadTasksRemaining) + (numThreads - 1)
  /\ task' = Head(todo) /\ todo' = Tail(todo) /\ pushed' = 0
  /\ UNCHANGED <<rootNode, live, table, node, numThreads, threadTasks, pc, stack, calls>>

PushTask ==
  /\ task # "none" /\ pc[0] = "idle" /\ pushed < numThreads - 1
  /\ pushed' = pushed + 1
  /\ threadTasks' = [threadTasks EXCEPT ![pushed + 1] = Append(@, task)]
  /\ UNCHANGED <<tree, numThreads, numThreadsSpawned, threadTasksRemaining, todo, task, pc, stack,
                 calls>>

(* A walk begins at the root. *)
FrameAt(n) == [node |-> n, rest |-> DOMAIN node[n].children]
StartShare(t, job) ==
  /\ pc' = [pc EXCEPT ![t] = job]
  /\ stack' = [stack EXCEPT ![t] =
                 IF job \in Walks /\ node[rootNode].nodeAge # searchNodeAge
                   THEN <<FrameAt(rootNode)>> ELSE <<>>]

CallerStarts ==
  /\ task # "none" /\ pc[0] = "idle" /\ pushed = numThreads - 1
  /\ StartShare(0, task)
  /\ UNCHANGED <<tree, pool, todo, task, pushed, calls>>

HelperStarts(h) ==
  /\ h <= numThreadsSpawned /\ pc[h] = "idle" /\ threadTasks[h] # <<>>
  /\ threadTasks' = [threadTasks EXCEPT ![h] = Tail(@)]
  /\ StartShare(h, Head(threadTasks[h]))
  /\ UNCHANGED <<tree, numThreads, numThreadsSpawned, threadTasksRemaining, todo, task, pushed,
                 calls>>

(* Mutant: the caller waits for nobody. *)
Mutant_ReturnAtOnce ==
  /\ pc[0] = "wait"
  /\ pc' = [pc EXCEPT ![0] = "idle"] /\ task' = "none" /\ calls' = [n \in Nodes |-> 0]
  /\ UNCHANGED <<tree, pool, todo, pushed, stack>>

(* waitUntilZero; then the task is gone. *)
Return ==
  /\ pc[0] = "wait" /\ threadTasksRemaining = 0
  /\ pc' = [pc EXCEPT ![0] = "idle"] /\ task' = "none" /\ calls' = [n \in Nodes |-> 0]
  /\ UNCHANGED <<tree, pool, todo, pushed, stack>>

(* A thread is done with its share: the caller waits, a helper counts down and waits for more. *)
EndShare(t) ==
  /\ pc' = [pc EXCEPT ![t] = IF t = 0 THEN "wait" ELSE "idle"]
  /\ threadTasksRemaining' = threadTasksRemaining - (IF t = 0 THEN 0 ELSE 1)

-------------------------------------------------------------------------------
(* The two walks, which differ only in how they make sure that one thread calls the function. *)
OnStack(t, n) == \E i \in DOMAIN stack[t] : stack[t][i].node = n
Top(t) == Last(stack[t])

(* The next child: thread 0 takes them in order, the others in random order. *)
NextChildren(t) == {i \in Top(t).rest : t = 0 => \A j \in Top(t).rest : i <= j}

(* Mutant: a node is done as soon as one thread has come to it. *)
Mutant_MarkOnEntry(t) ==
  /\ pc[t] \in Walks /\ stack[t] # <<>> /\ Top(t).rest # {}
  /\ \E i \in NextChildren(t) :
       LET child == node[Top(t).node].children[i]
           left == Append(Front(stack[t]), [Top(t) EXCEPT !.rest = @ \ {i}])
           new == node[child].nodeAge # searchNodeAge
       IN  /\ stack' = [stack EXCEPT ![t] = IF new THEN Append(left, FrameAt(child)) ELSE left]
           /\ node' = [node EXCEPT ![child].nodeAge = searchNodeAge]
           /\ calls' = [calls EXCEPT ![child] = @ + (IF new THEN 1 ELSE 0)]
  /\ UNCHANGED <<rootNode, live, table, searchNodeAge, pool, todo, task, pushed, pc>>

VisitChild(t) ==
  /\ pc[t] \in Walks /\ stack[t] # <<>> /\ Top(t).rest # {}
  /\ \E i \in NextChildren(t) :
       LET child == node[Top(t).node].children[i]
           left == Append(Front(stack[t]), [Top(t) EXCEPT !.rest = @ \ {i}])
       IN  stack' = [stack EXCEPT ![t] =
                       IF node[child].nodeAge = searchNodeAge \/ OnStack(t, child) THEN left
                       ELSE Append(left, FrameAt(child))]
  /\ UNCHANGED <<tree, pool, todo, task, pushed, pc, calls>>

(* All children are done: the first thread that gets here marks the node and calls the function. *)
LeaveNode(t) ==
  /\ pc[t] \in Walks /\ stack[t] # <<>> /\ Top(t).rest = {}
  /\ stack' = [stack EXCEPT ![t] = Front(@)]
  /\ node' = [node EXCEPT ![Top(t).node].nodeAge = searchNodeAge]
  /\ calls' = [calls EXCEPT ![Top(t).node] =
                 @ + (IF node[Top(t).node].nodeAge = searchNodeAge THEN 0 ELSE 1)]
  /\ UNCHANGED <<rootNode, live, table, searchNodeAge, pool, todo, task, pushed, pc>>

WalkEnds(t) ==
  /\ pc[t] \in Walks /\ stack[t] = <<>>
  /\ EndShare(t)
  /\ UNCHANGED <<tree, numThreads, numThreadsSpawned, threadTasks, todo, task, pushed, stack, calls>>

(* Mutant: shares of equal size, whatever is left over. *)
Mutant_ShareRoundedDown(t) ==
  (t * (numShards \div numThreads))..((t + 1) * (numShards \div numThreads) - 1)

(* The shards of one thread. *)
Share(t) == ((t * numShards) \div numThreads)..(((t + 1) * numShards) \div numThreads - 1)

(* deleteAllOldOrAllNewTableNodesAndSubtreeValueBiasMulithreaded of the old ones, and *)
(* deleteAllTableNodesMulithreaded. *)
Delete(t) ==
  /\ pc[t] \in {"sweep", "clear"}
  /\ LET bad == {n \in UNION {table[s] : s \in Share(t)} :
                   pc[t] = "clear" \/ node[n].nodeAge < searchNodeAge}
     IN  /\ table' = [s \in DOMAIN table |-> table[s] \ bad]
         /\ live' = live \ bad
         /\ node' = [n \in Nodes |-> IF n \in bad THEN Blank ELSE node[n]]
  /\ EndShare(t)
  /\ UNCHANGED <<rootNode, searchNodeAge, numThreads, numThreadsSpawned, threadTasks, todo, task,
                 pushed, stack, calls>>

-------------------------------------------------------------------------------
(* The search: a thread evaluates a node it has come to, the root also when it is old... *)
Evaluate(t, n) ==
  /\ pc[t] = "search" /\ n \in Tree
  /\ ~node[n].nn \/ (n = rootNode /\ node[n].nodeAge # searchNodeAge)
  /\ node' = [node EXCEPT ![n].nn = TRUE, ![n].nodeAge = searchNodeAge]
  /\ UNCHANGED <<rootNode, live, table, searchNodeAge, pool, todo, task, pushed, pc, stack, calls>>

(* ... or allocates a child, or finds it in the table (allocateOrFindNode).  The position of a child *)
(* has a move more than that of its parent, so there are no cycles. *)
AddChild(t, n) ==
  /\ pc[t] = "search" /\ n \in Tree /\ node[n].nn /\ Len(node[n].children) < MaxChildren
  /\ \E child \in TableNodes \cup (Nodes \ live) :
       /\ n \notin Reachable({child})
       /\ node' = [node EXCEPT ![n].children = Append(@, child)]
       /\ live' = live \cup {child}
       /\ IF child \in live THEN UNCHANGED table
          ELSE \E s \in DOMAIN table : table' = [table EXCEPT ![s] = @ \cup {child}]
  /\ UNCHANGED <<rootNode, searchNodeAge, pool, todo, task, pushed, pc, stack, calls>>

SearchStops(t) ==
  /\ pc[t] = "search"
  /\ EndShare(t)
  /\ UNCHANGED <<tree, numThreads, numThreadsSpawned, threadTasks, todo, task, pushed, stack, calls>>

-------------------------------------------------------------------------------
Step(t) ==
  \/ VisitChild(t) \/ LeaveNode(t) \/ WalkEnds(t) \/ Delete(t) \/ SearchStops(t)
  \/ \E n \in Nodes : Evaluate(t, n) \/ AddChild(t, n)
CallerStep ==
  \/ Forget \/ NewRoot \/ Older \/ PerformTask \/ PushTask \/ CallerStarts \/ Return \/ Step(0)
HelperStep(h) == HelperStarts(h) \/ Step(h)

Next ==
  \/ Clear
  \/ \E n \in 1..MaxThreads, clearing \in BOOLEAN : SetParams(n, clearing)
  \/ \E recomputing \in BOOLEAN : BeginSearch(recomputing)
  \/ \E loc \in 1..MaxChildren : MakeMove(loc)
  \/ CallerStep
  \/ \E h \in Helpers : HelperStep(h)

Spec == Init /\ [][Next]_vars

-------------------------------------------------------------------------------
(* Between operations the node table holds the nodes that can be reached from the root, *)
(* the root itself excepted, all of them allocated: a sweep after a concurrent walk has *)
(* deleted nothing that is still in the tree, and has kept nothing else in the table. *)
TableIsTheTree ==
  Idle => TableNodes = Tree \ {rootNode} /\ Tree \subseteq live

(* The walks: the function is called once on every node, after the children of the node are *)
(* done; no thread walks over a node that has been deleted, and at the end the whole tree is done. *)
WalkIsPostOrderOnce ==
  task \in Walks =>
    /\ \A n \in Tree :
         node[n].nodeAge = searchNodeAge =>
           /\ calls[n] = 1
           /\ \A c \in Children(n) : node[c].nodeAge = searchNodeAge
    /\ \A t \in Threads : \A i \in DOMAIN stack[t] : stack[t][i].node \in live
    /\ pc[0] = "wait" /\ threadTasksRemaining = 0 => \A n \in Tree : node[n].nodeAge = searchNodeAge

(* "Tasks are owned by the joining thread": while a helper has a task, in its queue or in *)
(* hand, the caller has not returned from it. *)
TasksOutliveTheirUse ==
  \A h \in Helpers :
    /\ pc[h] # "idle" => task = pc[h]
    /\ \A i \in DOMAIN threadTasks[h] : threadTasks[h][i] = task
===============================================================================
