-------------------------- MODULE TreeReuse_proofs --------------------------
(* Proofs about TreeReuse, for any nodes, shards and threads: the tasks of the pool, the *)
(* two walks over the graph of nodes, and what the sweep leaves in the node table. *)
EXTENDS TreeReuse, FiniteSetTheorems, SequenceTheorems, TLAPS

(* What can be reached in a graph, given by the children of its nodes. *)
Kids == [n \in Nodes |-> Children(n)]
Graph == [Nodes -> SUBSET Nodes]
Closed(k, S) == \A n \in S : k[n] \subseteq S
Reach(k, from) == {n \in Nodes : \A S \in SUBSET Nodes : from \subseteq S /\ Closed(k, S) => n \in S}
Acyclic(k) == \A n \in Nodes : n \notin Reach(k, k[n])

(* It holds what it starts from, is closed, and is the least such set. *)
LEMMA ReachLeast ==
  ASSUME NEW k \in Graph, NEW from \in SUBSET Nodes
  PROVE  /\ from \subseteq Reach(k, from)
         /\ Reach(k, from) \subseteq Nodes
         /\ Closed(k, Reach(k, from))
         /\ \A S \in SUBSET Nodes : from \subseteq S /\ Closed(k, S) => Reach(k, from) \subseteq S
  BY SMT DEF Graph, Closed, Reach

(* More to start from and more children, and more can be reached. *)
LEMMA ReachMonotone ==
  ASSUME NEW k \in Graph, NEW l \in Graph, NEW from \in SUBSET Nodes, NEW more \in SUBSET Nodes,
         from \subseteq more, \A n \in Reach(l, more) : k[n] \subseteq l[n]
  PROVE  Reach(k, from) \subseteq Reach(l, more)
<1>1. from \subseteq Reach(l, more) /\ Reach(l, more) \in SUBSET Nodes /\ Closed(l, Reach(l, more))
  BY ReachLeast
<1>2. Closed(k, Reach(l, more))
  BY <1>1 DEF Closed
<1> QED BY <1>1, <1>2, ReachLeast

(* A graph that has the same children wherever one gets is the same there. *)
LEMMA ReachAgrees ==
  ASSUME NEW k \in Graph, NEW l \in Graph, NEW from \in SUBSET Nodes,
         \A n \in Reach(k, from) : l[n] = k[n]
  PROVE  Reach(l, from) = Reach(k, from)
<1>1. Reach(l, from) \subseteq Reach(k, from)
  BY ReachMonotone
<1>2. \A n \in Reach(l, from) : k[n] \subseteq l[n]
  BY <1>1
<1>3. Reach(k, from) \subseteq Reach(l, from)
  BY <1>2, ReachMonotone
<1> QED BY <1>1, <1>3

(* What can be reached from what can be reached can be reached. *)
LEMMA ReachOfReached ==
  ASSUME NEW k \in Graph, NEW from \in SUBSET Nodes, NEW n \in Reach(k, from)
  PROVE  Reach(k, {n}) \subseteq Reach(k, from) /\ Reach(k, k[n]) \subseteq Reach(k, from)
<1>1. Closed(k, Reach(k, from)) /\ Reach(k, from) \in SUBSET Nodes /\ n \in Nodes
  BY ReachLeast
<1>2. k[n] \in SUBSET Nodes /\ k[n] \subseteq Reach(k, from)
  BY <1>1 DEF Closed, Graph
<1> QED BY <1>1, <1>2, ReachLeast

(* A graph that loses edges stays acyclic. *)
LEMMA FewerEdges ==
  ASSUME NEW k \in Graph, NEW l \in Graph, \A n \in Nodes : l[n] \subseteq k[n], Acyclic(k)
  PROVE  Acyclic(l)
<1> SUFFICES ASSUME NEW n \in Nodes PROVE n \notin Reach(l, l[n])
  BY DEF Acyclic
<1>1. l[n] \in SUBSET Nodes /\ k[n] \in SUBSET Nodes /\ l[n] \subseteq k[n]
  BY DEF Graph
<1>2. Reach(k, k[n]) \subseteq Nodes
  BY <1>1, ReachLeast
<1>3. Reach(l, l[n]) \subseteq Reach(k, k[n])
  BY <1>1, <1>2, ReachMonotone
<1> QED BY <1>3 DEF Acyclic

(* A new edge to a node from which one does not get back makes no cycle. *)
LEMMA NewEdge ==
  ASSUME NEW k \in Graph, NEW l \in Graph, NEW a \in Nodes, NEW c \in Nodes, Acyclic(k),
         a \notin Reach(k, {c}), l[a] = k[a] \cup {c}, \A n \in Nodes \ {a} : l[n] = k[n]
  PROVE  Acyclic(l)
<1> DEFINE R == Reach(k, {c})
<1>1. c \in R /\ R \in SUBSET Nodes /\ Closed(k, R)
  BY ReachLeast
<1>2. Closed(l, R)
  BY <1>1 DEF Closed
<1> SUFFICES ASSUME NEW n \in Nodes PROVE n \notin Reach(l, l[n])
  BY DEF Acyclic
<1>3. k[n] \in SUBSET Nodes /\ l[n] \in SUBSET Nodes
  BY DEF Graph
<1> DEFINE K == Reach(k, k[n])
<1>4. k[n] \subseteq K /\ K \in SUBSET Nodes /\ Closed(k, K) /\ n \notin K
  BY <1>3, ReachLeast DEF Acyclic
<1>5. CASE n \in R
  <2>1. K \subseteq R
    BY <1>5, ReachOfReached
  <2>2. Closed(l, K)
    BY <2>1, <1>4 DEF Closed
  <2>3. l[n] \subseteq K
    BY <1>5, <1>4
  <2> QED BY <2>2, <2>3, <1>3, <1>4, ReachLeast
<1>6. CASE n \notin R
  <2>1. Closed(l, K \cup R)
    BY <1>4, <1>1, <1>2 DEF Closed
  <2>2. l[n] \subseteq K \cup R /\ K \cup R \in SUBSET Nodes
    BY <1>4, <1>1
  <2>3. Reach(l, l[n]) \subseteq K \cup R
    BY <2>1, <2>2, <1>3, ReachLeast
  <2> QED BY <2>3, <1>4, <1>6
<1> QED BY <1>5, <1>6

(* A set that holds a node and is closed but for the edges that leave another set. *)
LEMMA ReachWithin ==
  ASSUME NEW k \in Graph, NEW from \in SUBSET Nodes, NEW S \in SUBSET Nodes,
         from \subseteq S, \A n \in S : n \in Reach(k, from) => k[n] \subseteq S
  PROVE  Reach(k, from) \subseteq S
<1>1. from \subseteq Reach(k, from) /\ Reach(k, from) \in SUBSET Nodes /\ Closed(k, Reach(k, from))
  BY ReachLeast
<1>2. Closed(k, S \cap Reach(k, from)) /\ from \subseteq S \cap Reach(k, from)
  BY <1>1 DEF Closed
<1>3. S \cap Reach(k, from) \in SUBSET Nodes
  BY <1>1
<1>4. Reach(k, from) \subseteq S \cap Reach(k, from)
  BY <1>2, <1>3, ReachLeast
<1> QED BY <1>4

-------------------------------------------------------------------------------
(* The steps that operations are made of, and which step or end may come after each. *)
Jobs == Walks \cup {"clear", "sweep", "search"}
Steps == Jobs \cup {"forget", "root", "age"}
After(step) ==
  {next \in Steps \cup {"nothing"} :
     \/ step = "clear" /\ next = "forget"
     \/ step = "forget" /\ next \in {"root", "nothing"}
     \/ step = "root" /\ next \in {"post", "age"}
     \/ step = "post" /\ next = "age"
     \/ step = "age" /\ next = "search"
     \/ step = "any" /\ next = "sweep"
     \/ step \in {"sweep", "search"} /\ next = "nothing"}
Following(steps, i) == IF i < Len(steps) THEN steps[i + 1] ELSE "nothing"
InOrder(steps) == \A i \in 1..Len(steps) : Following(steps, i) \in After(steps[i])
Next1 == Following(todo, 0)

(* Nodes, frames of the recursion and the types of the variables. *)
NodeRecords == [children : Seq(Nodes), nn : BOOLEAN, nodeAge : Nat]
Frames == [node : Nodes, rest : SUBSET Nat]
TypeCorrect ==
  /\ rootNode \in Nodes \cup {NULL} /\ live \in SUBSET Nodes /\ searchNodeAge \in Nat
  /\ table \in [0..(numShards - 1) -> SUBSET Nodes]
  /\ node \in [Nodes -> NodeRecords]
  /\ numThreads \in 1..MaxThreads /\ numThreadsSpawned \in Nat
  /\ threadTasks \in [Helpers -> Seq(Jobs)] /\ threadTasksRemaining \in Int
  /\ todo \in Seq(Steps) /\ task \in Jobs \cup {"none"} /\ pushed \in Nat
  /\ pc \in [Threads -> Jobs \cup {"idle", "wait"}]
  /\ stack \in [Threads -> Seq(Frames)]
  /\ calls \in [Nodes -> Nat]

StepsInv ==
  /\ InOrder(todo)
  /\ task # "none" => Next1 \in After(task)
  /\ (task \notin {"none", "clear"} \/ Next1 \in {"any", "sweep", "post", "age", "search"})
       => rootNode # NULL

(* The helpers that have the task: each of them has been pushed it once, and the caller knows how *)
(* many have not finished. *)
Busy == {h \in Helpers : pc[h] # "idle" \/ threadTasks[h] # <<>>}
HasTask(h) ==
  \/ pc[h] = task /\ threadTasks[h] = <<>>
  \/ pc[h] = "idle" /\ threadTasks[h] = <<task>>
PoolInv ==
  /\ task = "none" => pc[0] = "idle" /\ Busy = {} /\ threadTasksRemaining = 0
  /\ task # "none" =>
       /\ pushed <= numThreads - 1
       /\ pc[0] \in {"idle", task, "wait"}
       /\ pushed < numThreads - 1 => pc[0] = "idle"
       /\ \A h \in Busy : h <= pushed /\ HasTask(h)
       /\ threadTasksRemaining = (numThreads - 1 - pushed) + Cardinality(Busy)

(* What has been freed or never allocated is blank. *)
HeapInv ==
  /\ TableNodes \subseteq live /\ rootNode \notin TableNodes
  /\ rootNode # NULL => rootNode \in live
  /\ \A n \in Nodes \ TableNodes : n # rootNode => node[n] = Blank
  /\ \A n \in Nodes : node[n].nodeAge <= searchNodeAge

(* The table is being emptied, or has nodes that are not in the tree. *)
Clearing == Next1 \in {"clear", "forget"}
Pruning == task = "sweep" \/ Next1 \in {"any", "sweep"}
TreeInv ==
  /\ ~Clearing => (\A n \in Tree : Children(n) \subseteq TableNodes) /\ Acyclic(Kids)
  /\ ~Clearing /\ ~Pruning => TableNodes \subseteq Tree
  /\ Next1 = "forget" /\ task = "none" => TableNodes = {}

(* A thread's recursion goes down from the root; what it has left behind is done. *)
Marked(n) == node[n].nodeAge = searchNodeAge
FrameInv(t, i) ==
  LET n == stack[t][i].node
  IN  /\ n \in Tree /\ stack[t][i].rest \subseteq DOMAIN node[n].children
      /\ \A j \in (i + 1)..Len(stack[t]) : stack[t][j].node \in Reachable(Children(n))
      /\ \A k \in DOMAIN node[n].children \ stack[t][i].rest :
           \/ Marked(node[n].children[k])
           \/ i < Len(stack[t]) /\ node[n].children[k] = stack[t][i + 1].node
StackInv(t) ==
  /\ IF stack[t] = <<>> THEN Marked(rootNode) ELSE stack[t][1].node = rootNode
  /\ \A i \in 1..Len(stack[t]) : FrameInv(t, i)
DoneInv ==
  /\ \A n \in Tree : IF Marked(n) THEN calls[n] = 1 /\ \A c \in Children(n) : Marked(c)
                     ELSE calls[n] = 0
  /\ \A n \in TableNodes : Marked(n) => n \in Tree
WalkInv ==
  /\ \A t \in Threads : pc[t] \notin Walks => stack[t] = <<>>
  /\ task \notin Walks => \A n \in Nodes : calls[n] = 0
  /\ task \in Walks =>
       /\ DoneInv
       /\ pc[0] = "wait" => Marked(rootNode)
       /\ \A t \in Threads : pc[t] \in Walks => StackInv(t)

(* The sweep begins when the tree is marked and nothing else is; what is left in the shards of a *)
(* thread that is done is in the tree. *)
ShareDone(t) == IF t = 0 THEN pc[0] = "wait" ELSE t <= pushed /\ t \notin Busy
SweepInv ==
  /\ task = "sweep" \/ (task = "none" /\ Next1 = "sweep") =>
       /\ \A n \in Tree : Marked(n)
       /\ \A n \in TableNodes : Marked(n) => n \in Tree
  /\ task \in {"sweep", "clear"} =>
       \A t \in 0..(numThreads - 1) : ShareDone(t) =>
         \A s \in Share(t) : \A n \in table[s] : task = "sweep" /\ Marked(n)

Inv ==
  /\ TypeCorrect /\ StepsInv /\ PoolInv /\ HeapInv /\ TreeInv /\ WalkInv /\ SweepInv

-------------------------------------------------------------------------------
(* The model's graph, read off the nodes. *)
LEMMA KidsAre ==
  TypeCorrect => Kids \in Graph /\ \A n \in Nodes : Kids[n] = Children(n)
<1> SUFFICES ASSUME TypeCorrect PROVE Kids \in Graph /\ \A n \in Nodes : Kids[n] = Children(n)
  OBVIOUS
<1>1. ASSUME NEW n \in Nodes PROVE Children(n) \in SUBSET Nodes
  <2>1. node[n].children \in Seq(Nodes)
    BY <1>1 DEF TypeCorrect, NodeRecords
  <2> QED BY <2>1 DEF Children, ToSet
<1> QED BY <1>1 DEF Kids, Graph

(* The model's least closed set is the one above. *)
LEMMA ReachableIs ==
  TypeCorrect => /\ \A from \in SUBSET Nodes : Reachable(from) = Reach(Kids, from)
                 /\ rootNode = NULL => Tree = {}
                 /\ rootNode # NULL => rootNode \in Nodes /\ Tree = Reach(Kids, {rootNode})
<1> SUFFICES ASSUME TypeCorrect
             PROVE  /\ \A from \in SUBSET Nodes : Reachable(from) = Reach(Kids, from)
                    /\ rootNode = NULL => Tree = {}
                    /\ rootNode # NULL => rootNode \in Nodes /\ Tree = Reach(Kids, {rootNode})
  OBVIOUS
<1>1. \A n \in Nodes : Kids[n] = Children(n)
  BY KidsAre
<1>2. ASSUME NEW from \in SUBSET Nodes PROVE Reachable(from) = Reach(Kids, from)
  <2>1. \A S \in SUBSET Nodes : IsClosed(S) <=> Closed(Kids, S)
    BY <1>1 DEF IsClosed, Closed
  <2> QED BY <2>1 DEF Reachable, Reach
<1>3. rootNode # NULL => rootNode \in Nodes
  BY DEF TypeCorrect
<1> QED BY <1>2, <1>3 DEF Tree

(* The same in the next state. *)
LEMMA KidsAreNext ==
  ASSUME TypeCorrect' PROVE Kids' \in Graph /\ \A n \in Nodes : Kids'[n] = Children(n)'
<1>1. (TypeCorrect => Kids \in Graph /\ \A n \in Nodes : Kids[n] = Children(n))'
  BY KidsAre, PTL
<1> QED BY <1>1

(* The same in the next state. *)
LEMMA ReachableIsNext ==
  ASSUME TypeCorrect'
  PROVE  /\ \A from \in SUBSET Nodes : Reachable(from)' = Reach(Kids', from)
         /\ rootNode' = NULL => Tree' = {}
         /\ rootNode' # NULL => rootNode' \in Nodes /\ Tree' = Reach(Kids', {rootNode'})
<1>1. (TypeCorrect => /\ \A from \in SUBSET Nodes : Reachable(from) = Reach(Kids, from)
                      /\ rootNode = NULL => Tree = {}
                      /\ rootNode # NULL => rootNode \in Nodes /\ Tree = Reach(Kids, {rootNode}))'
  BY ReachableIs, PTL
<1> QED BY <1>1

(* The tree is closed and holds its root. *)
LEMMA TreeClosed ==
  ASSUME TypeCorrect
  PROVE  /\ Tree \in SUBSET Nodes /\ Closed(Kids, Tree)
         /\ \A n \in Tree : Children(n) \subseteq Tree
         /\ rootNode # NULL => rootNode \in Tree
         /\ \A S \in SUBSET Nodes : rootNode \in S /\ Closed(Kids, S) => Tree \subseteq S
<1>1. Kids \in Graph /\ \A n \in Nodes : Kids[n] = Children(n)
  BY KidsAre
<1>2. CASE rootNode = NULL
  BY <1>2, ReachableIs DEF Closed
<1>3. CASE rootNode # NULL
  <2>1. rootNode \in Nodes /\ Tree = Reach(Kids, {rootNode})
    BY <1>3, ReachableIs
  <2>2. /\ {rootNode} \subseteq Tree /\ Tree \subseteq Nodes /\ Closed(Kids, Tree)
        /\ \A S \in SUBSET Nodes : {rootNode} \subseteq S /\ Closed(Kids, S) => Tree \subseteq S
    BY <1>1, <2>1, ReachLeast
  <2> QED BY <2>2, <1>1 DEF Closed
<1> QED BY <1>2, <1>3

(* Nothing in the graph changes while no node changes its children and the root stays. *)
LEMMA SameGraph ==
  ASSUME TypeCorrect, TypeCorrect', rootNode' = rootNode,
         \A n \in Nodes : node'[n].children = node[n].children
  PROVE  /\ Kids' = Kids /\ Tree' = Tree
         /\ \A n \in Nodes : Children(n)' = Children(n)
         /\ \A from \in SUBSET Nodes : Reachable(from)' = Reachable(from)
<1>1. \A n \in Nodes : Children(n)' = Children(n)
  BY DEF Children
<1>2. Kids' = Kids
  BY <1>1 DEF Kids
<1> QED BY <1>1, <1>2, ReachableIs, ReachableIsNext

-------------------------------------------------------------------------------
(* Sequences of steps. *)

(* Taking the first step off leaves steps that follow it in order. *)
LEMMA Popped ==
  ASSUME NEW s \in Seq(Steps), s # <<>>, InOrder(s)
  PROVE  /\ Tail(s) \in Seq(Steps) /\ InOrder(Tail(s))
         /\ Following(s, 0) = Head(s) /\ Head(s) \in Steps
         /\ Following(Tail(s), 0) \in After(Head(s))
<1>1. /\ Len(s) \in Nat \ {0} /\ Tail(s) \in Seq(Steps) /\ Len(Tail(s)) = Len(s) - 1
      /\ \A i \in 1..(Len(s) - 1) : Tail(s)[i] = s[i + 1]
  BY HeadTailProperties, LenProperties, EmptySeq
<1>2. Head(s) = s[1] /\ s[1] \in Steps
  BY <1>1, HeadTailProperties, ElementOfSeq
<1>3. \A i \in 0..(Len(s) - 1) : Following(Tail(s), i) = Following(s, i + 1)
  BY <1>1 DEF Following
<1>4. Following(s, 0) = Head(s)
  BY <1>1, <1>2 DEF Following
<1>5. InOrder(Tail(s))
  <2> SUFFICES ASSUME NEW i \in 1..(Len(s) - 1)
               PROVE  Following(Tail(s), i) \in After(Tail(s)[i])
    BY <1>1 DEF InOrder
  <2>1. Following(Tail(s), i) = Following(s, i + 1) /\ Tail(s)[i] = s[i + 1]
    BY <1>1, <1>3
  <2>2. i + 1 \in 1..Len(s)
    BY <1>1
  <2> QED BY <2>1, <2>2 DEF InOrder
<1>6. Following(Tail(s), 0) = Following(s, 1) /\ 1 \in 1..Len(s)
  BY <1>1, <1>3
<1> QED BY <1>1, <1>2, <1>4, <1>5, <1>6 DEF InOrder

(* One step, and a step before others. *)
LEMMA OneStep ==
  ASSUME NEW a \in Steps, "nothing" \in After(a)
  PROVE  <<a>> \in Seq(Steps) /\ InOrder(<<a>>) /\ Following(<<a>>, 0) = a
BY DEF InOrder, Following

(* Steps before steps that may follow them. *)
LEMMA StepsBefore ==
  ASSUME NEW s \in Seq(Steps), NEW r \in Seq(Steps), InOrder(r), s # <<>>, r # <<>>,
         \A i \in 1..(Len(s) - 1) : s[i + 1] \in After(s[i]), r[1] \in After(s[Len(s)])
  PROVE  s \o r \in Seq(Steps) /\ InOrder(s \o r) /\ Following(s \o r, 0) = s[1]
<1>1. /\ s \o r \in Seq(Steps) /\ Len(s \o r) = Len(s) + Len(r)
      /\ \A i \in 1..(Len(s) + Len(r)) : (s \o r)[i] = IF i <= Len(s) THEN s[i] ELSE r[i - Len(s)]
      /\ Len(s) \in Nat \ {0} /\ Len(r) \in Nat \ {0}
  BY ConcatProperties, LenProperties, EmptySeq
<1> DEFINE both == s \o r
<1>2. /\ Len(both) = Len(s) + Len(r)
      /\ \A i \in 1..(Len(s) + Len(r)) : both[i] = IF i <= Len(s) THEN s[i] ELSE r[i - Len(s)]
  BY <1>1
<1> HIDE DEF both
<1>3. ASSUME NEW i \in 1..Len(both) PROVE Following(both, i) \in After(both[i])
  <2>1. CASE i < Len(s)
    <3>1. i \in 1..(Len(s) - 1) /\ both[i] = s[i] /\ both[i + 1] = s[i + 1] /\ i < Len(both)
      BY <2>1, <1>1, <1>2
    <3> QED BY <3>1 DEF Following
  <2>2. CASE i = Len(s)
    <3>1. both[i] = s[Len(s)] /\ both[i + 1] = r[1] /\ i < Len(both)
      BY <2>2, <1>1, <1>2
    <3> QED BY <3>1 DEF Following
  <2>3. CASE i > Len(s)
    <3>1. i - Len(s) \in 1..Len(r) /\ both[i] = r[i - Len(s)]
      BY <2>3, <1>1, <1>2
    <3>2. Following(both, i) = Following(r, i - Len(s))
      BY <2>3, <1>1, <1>2 DEF Following
    <3> QED BY <3>1, <3>2 DEF InOrder
  <2> QED BY <2>1, <2>2, <2>3, <1>1
<1>4. Following(both, 0) = s[1]
  BY <1>1, <1>2 DEF Following
<1> QED BY <1>1, <1>3, <1>4 DEF InOrder, both

(* Two steps, and three. *)
LEMMA TwoSteps ==
  ASSUME NEW a \in Steps, NEW b \in Steps, b \in After(a), "nothing" \in After(b)
  PROVE  <<a, b>> \in Seq(Steps) /\ InOrder(<<a, b>>) /\ Following(<<a, b>>, 0) = a
BY DEF InOrder, Following

(* Three steps. *)
LEMMA ThreeSteps ==
  ASSUME NEW a \in Steps, NEW b \in Steps, NEW c \in Steps,
         b \in After(a), c \in After(b), "nothing" \in After(c)
  PROVE  <<a, b, c>> \in Seq(Steps) /\ InOrder(<<a, b, c>>) /\ Following(<<a, b, c>>, 0) = a
BY DEF InOrder, Following

(* Four steps. *)
LEMMA FourSteps ==
  ASSUME NEW a \in Steps, NEW b \in Steps, NEW c \in Steps, NEW d \in Steps,
         b \in After(a), c \in After(b), d \in After(c), "nothing" \in After(d)
  PROVE  <<a, b, c, d>> \in Seq(Steps) /\ InOrder(<<a, b, c, d>>) /\ Following(<<a, b, c, d>>, 0) = a
BY DEF InOrder, Following

(* The steps of a clearing. *)
LEMMA ClearingSteps ==
  /\ ClearSteps \in Seq(Steps) /\ InOrder(ClearSteps) /\ ClearSteps # <<>>
  /\ Following(ClearSteps, 0) = IF rootNode = NULL THEN "forget" ELSE "clear"
<1>1. {"clear", "forget"} \subseteq Steps /\ "forget" \in After("clear") /\ "nothing" \in After("forget")
  BY DEF Steps, Jobs, Walks, After
<1>2. <<"forget">> # <<>> /\ <<"clear", "forget">> # <<>>
  OBVIOUS
<1> QED BY <1>1, <1>2, OneStep, TwoSteps DEF ClearSteps

(* The steps of a search, alone and after a clearing. *)
LEMMA SearchSteps ==
  ASSUME NEW s, s = <<"root", "post", "age", "search">> \/ s = <<"root", "age", "search">>
  PROVE  /\ s \in Seq(Steps) /\ InOrder(s) /\ Following(s, 0) = "root"
         /\ ClearSteps \o s \in Seq(Steps) /\ InOrder(ClearSteps \o s)
         /\ Following(ClearSteps \o s, 0) = IF rootNode = NULL THEN "forget" ELSE "clear"
<1>1. "root" \in Steps /\ "post" \in Steps /\ "age" \in Steps /\ "search" \in Steps
  BY DEF Steps, Jobs, Walks
<1>2. /\ "post" \in After("root") /\ "age" \in After("root") /\ "age" \in After("post")
      /\ "search" \in After("age") /\ "nothing" \in After("search")
  BY <1>1 DEF After
<1>3. s \in Seq(Steps) /\ InOrder(s) /\ Following(s, 0) = "root"
  <2>1. CASE s = <<"root", "post", "age", "search">>
    <3>1. /\ <<"root", "post", "age", "search">> \in Seq(Steps)
          /\ InOrder(<<"root", "post", "age", "search">>)
          /\ Following(<<"root", "post", "age", "search">>, 0) = "root"
      BY <1>1, <1>2, FourSteps
    <3> QED BY <2>1, <3>1
  <2>2. CASE s = <<"root", "age", "search">>
    <3>1. /\ <<"root", "age", "search">> \in Seq(Steps) /\ InOrder(<<"root", "age", "search">>)
          /\ Following(<<"root", "age", "search">>, 0) = "root"
      BY <1>1, <1>2, ThreeSteps
    <3> QED BY <2>2, <3>1
  <2> QED BY <2>1, <2>2
<1>4. s # <<>> /\ s[1] = "root"
  OBVIOUS
<1>5. /\ ClearSteps \in Seq(Steps) /\ ClearSteps # <<>>
      /\ ClearSteps[1] = IF rootNode = NULL THEN "forget" ELSE "clear"
  BY ClearingSteps DEF ClearSteps
<1>6. /\ \A i \in 1..(Len(ClearSteps) - 1) : ClearSteps[i + 1] \in After(ClearSteps[i])
      /\ s[1] \in After(ClearSteps[Len(ClearSteps)])
  <2>1. "forget" \in After("clear") /\ "root" \in After("forget")
    BY DEF After, Steps, Jobs, Walks
  <2>2. CASE rootNode = NULL
    BY <2>1, <2>2, <1>4 DEF ClearSteps
  <2>3. CASE rootNode # NULL
    BY <2>1, <2>3, <1>4 DEF ClearSteps
  <2> QED BY <2>2, <2>3
<1> QED BY <1>3, <1>4, <1>5, <1>6, StepsBefore

-------------------------------------------------------------------------------
(* The shares. *)

(* A quotient is at most, or at least, what its multiple says. *)
LEMMA Quotients ==
  ASSUME NEW a \in Int, NEW b \in Nat \ {0}, NEW s \in Int
  PROVE  /\ a < (s + 1) * b => a \div b <= s
         /\ s * b <= a => s <= a \div b
<1> DEFINE q == a \div b
<1>1. q \in Int /\ q * b <= a /\ a < (q + 1) * b
  OBVIOUS
<1> HIDE DEF q
<1>2. q > s => q * b >= (s + 1) * b
  BY <1>1
<1>3. s > q => s * b >= (q + 1) * b
  BY <1>1
<1>4. q * b \in Int /\ (s + 1) * b \in Int /\ s * b \in Int /\ (q + 1) * b \in Int
  BY <1>1
<1>5. a < (s + 1) * b => q <= s
  BY <1>1, <1>2, <1>4
<1>6. s * b <= a => s <= q
  BY <1>1, <1>3, <1>4
<1> QED BY <1>5, <1>6 DEF q

(* Every share is a range of shards, and every shard is in the share of some thread. *)
LEMMA SharesCover ==
  ASSUME numThreads \in Nat \ {0}
  PROVE  /\ \A t \in 0..(numThreads - 1) : Share(t) \subseteq 0..(numShards - 1)
         /\ \A s \in 0..(numShards - 1) : \E t \in 0..(numThreads - 1) : s \in Share(t)
<1>1. numShards \in Nat \ {0}
  BY ReuseAssumption
<1>2. ASSUME NEW t \in 0..(numThreads - 1) PROVE Share(t) \subseteq 0..(numShards - 1)
  <2>1. 0 <= (t * numShards) \div numThreads
    BY <1>1
  <2>2. (t + 1) * numShards <= numThreads * numShards
    BY <1>1
  <2>3. ((t + 1) * numShards) \div numThreads <= numShards
    BY <1>1, <2>2
  <2> QED BY <1>1, <2>1, <2>3 DEF Share
<1>3. ASSUME NEW s \in 0..(numShards - 1) PROVE \E t \in 0..(numThreads - 1) : s \in Share(t)
  <2> DEFINE t == ((s + 1) * numThreads - 1) \div numShards
  <2>1. t \in Int /\ t * numShards <= (s + 1) * numThreads - 1
        /\ (s + 1) * numThreads - 1 < (t + 1) * numShards
    BY <1>1
  <2>2. (s + 1) * numThreads >= 1 /\ (s + 1) * numThreads <= numShards * numThreads
    BY <1>1
  <2>3. t \in 0..(numThreads - 1)
    BY <1>1, <2>1, <2>2
  <2> HIDE DEF t
  <2>4. t * numShards < (s + 1) * numThreads /\ (s + 1) * numThreads <= (t + 1) * numShards
    <3>1. (s + 1) * numThreads \in Int /\ t * numShards \in Int /\ (t + 1) * numShards \in Int
      BY <1>1, <2>1
    <3> QED BY <3>1, <2>1
  <2>5. (t * numShards) \div numThreads <= s
    <3>1. t * numShards \in Int
      BY <1>1, <2>1
    <3> QED BY <3>1, <2>4, Quotients
  <2>6. s + 1 <= ((t + 1) * numShards) \div numThreads
    <3>1. (t + 1) * numShards \in Int /\ s + 1 \in Int
      BY <1>1, <2>1
    <3> QED BY <3>1, <2>4, Quotients
  <2>7. s \in Share(t)
    <3>1. (t * numShards) \div numThreads \in Int /\ ((t + 1) * numShards) \div numThreads \in Int
      BY <1>1, <2>1
    <3> DEFINE first == (t * numShards) \div numThreads
               next == ((t + 1) * numShards) \div numThreads
    <3>2. s \in Int /\ first \in Int /\ next \in Int /\ first <= s /\ s + 1 <= next
      BY <1>1, <3>1, <2>5, <2>6
    <3>3. Share(t) = first..(next - 1)
      BY DEF Share
    <3> HIDE DEF first, next
    <3> QED BY <3>2, <3>3
  <2> QED BY <2>3, <2>7
<1> QED BY <1>2, <1>3

(* Helpers are finitely many. *)
LEMMA BusyFinite ==
  IsFiniteSet(Helpers) /\ IsFiniteSet(Busy) /\ Cardinality(Busy) \in Nat /\ (Cardinality(Busy) = 0 <=> Busy = {})
<1>1. IsFiniteSet(0..(MaxThreads - 1))
  BY FS_Interval, ReuseAssumption
<1>2. IsFiniteSet(Helpers)
  BY <1>1, FS_Subset DEF Helpers, Threads
<1>3. IsFiniteSet(Busy)
  BY <1>2, FS_Subset DEF Busy
<1> QED BY <1>2, <1>3, FS_CardinalityType, FS_EmptySet

(* A node is not the null pointer. *)
LEMMA NullIsNoNode == NULL \notin Nodes
BY ReuseAssumption

-------------------------------------------------------------------------------
(* What a step leaves alone stays true. *)

(* The graph and the table stay, and the caller does not claim more of them than is true. *)
LEMMA TreeInvStays ==
  ASSUME Inv, TypeCorrect', rootNode' = rootNode, table' = table,
         \A n \in Nodes : node'[n].children = node[n].children,
         Clearing => Clearing',
         Pruning => Clearing' \/ Pruning' \/ TableNodes \subseteq Tree,
         Next1' = "forget" /\ task' = "none" => TableNodes = {}
  PROVE  TreeInv'
<1>1. /\ Kids' = Kids /\ Tree' = Tree
      /\ \A n \in Nodes : Children(n)' = Children(n)
  BY SameGraph DEF Inv
<1>2. TableNodes' = TableNodes
  BY DEF TableNodes
<1>3. Tree \subseteq Nodes
  BY TreeClosed DEF Inv
<1>4. ~Clearing' => (\A n \in Tree' : Children(n)' \subseteq TableNodes') /\ Acyclic(Kids')
  BY <1>1, <1>2, <1>3 DEF Inv, TreeInv
<1>5. ~Clearing' /\ ~Pruning' => TableNodes' \subseteq Tree'
  BY <1>1, <1>2 DEF Inv, TreeInv
<1> QED BY <1>2, <1>4, <1>5 DEF TreeInv

(* Nodes stay where they are, and the search grows no younger. *)
LEMMA HeapInvStays ==
  ASSUME TypeCorrect, HeapInv, UNCHANGED <<rootNode, live, table, node>>, searchNodeAge' \in Nat,
         searchNodeAge' >= searchNodeAge
  PROVE  HeapInv'
<1>1. TableNodes' = TableNodes
  BY DEF TableNodes
<1>2. \A n \in Nodes : node'[n].nodeAge <= searchNodeAge'
  BY DEF TypeCorrect, NodeRecords, HeapInv
<1> QED BY <1>1, <1>2 DEF HeapInv

(* Helpers that have the same to do, while the task is the same or there is none. *)
LEMMA PoolInvStays ==
  ASSUME PoolInv, UNCHANGED <<threadTasks, threadTasksRemaining, task, pushed, pc>>,
         numThreads' = numThreads \/ task = "none"
  PROVE  PoolInv' /\ Busy' = Busy
<1>1. Busy' = Busy
  BY DEF Busy
<1>2. \A h \in Helpers : HasTask(h)' = HasTask(h)
  BY DEF HasTask
<1> QED BY <1>1, <1>2 DEF PoolInv, Busy

-------------------------------------------------------------------------------
(* The invariant holds at first. *)
LEMMA InvInit == Init => Inv
<1> SUFFICES ASSUME Init PROVE Inv
  OBVIOUS
<1>1. TypeCorrect
  <2>1. Blank \in NodeRecords
    BY DEF Blank, NodeRecords
  <2>2. 0 \in Nat /\ numThreads \in 1..MaxThreads
    BY DEF Init
  <2> QED BY <2>1, <2>2 DEF Init, TypeCorrect
<1>2. TableNodes = {}
  BY DEF Init, TableNodes
<1>3. Next1 = "nothing" /\ InOrder(todo)
  BY DEF Init, Next1, Following, InOrder
<1>4. StepsInv
  BY <1>3 DEF Init, StepsInv
<1>5. PoolInv
  <2>1. Busy = {}
    BY DEF Init, Busy, Helpers
  <2> QED BY <2>1, ReuseAssumption DEF Init, PoolInv, Threads
<1>6. HeapInv
  BY <1>2 DEF Init, HeapInv, Blank
<1>7. TreeInv
  <2>1. Tree = {}
    BY DEF Init, Tree
  <2>2. \A n \in Nodes : Kids[n] = {}
    BY DEF Init, Kids, Children, ToSet, Blank
  <2>3. Acyclic(Kids)
    <3>1. Kids \in Graph
      BY <1>1, KidsAre
    <3>2. \A n \in Nodes : Reach(Kids, Kids[n]) \subseteq {}
      BY <3>1, <2>2, ReachLeast DEF Closed
    <3> QED BY <3>2 DEF Acyclic
  <2> QED BY <1>2, <1>3, <2>1, <2>3 DEF TreeInv
<1>8. WalkInv
  BY DEF Init, WalkInv, Walks
<1>9. SweepInv
  BY <1>3 DEF Init, SweepInv
<1> QED BY <1>1, <1>4, <1>5, <1>6, <1>7, <1>8, <1>9 DEF Inv

(* An operation starts: Clear, SetParams, BeginSearch and a move that clears the search. *)
LEMMA Starts ==
  ASSUME Inv, Idle, UNCHANGED <<tree, numThreadsSpawned, threadTasks, threadTasksRemaining>>,
         UNCHANGED <<task, pushed, pc, stack, calls>>, numThreads' \in 1..MaxThreads,
         todo' \in Seq(Steps), InOrder(todo'), Next1' \in {"root", "clear", "forget", "nothing"},
         Next1' = "forget" => rootNode = NULL
  PROVE  Inv'
<1>1. Next1 = "nothing" /\ task = "none"
  BY DEF Idle, Next1, Following
<1>2. TypeCorrect'
  BY DEF Inv, TypeCorrect, tree
<1>3. StepsInv'
  BY <1>1 DEF Inv, StepsInv
<1>4. PoolInv'
  BY <1>1, PoolInvStays DEF Inv
<1>5. HeapInv'
  BY HeapInvStays DEF Inv, TypeCorrect, tree
<1>6. TreeInv'
  <2>1. ~Clearing /\ ~Pruning
    BY <1>1 DEF Clearing, Pruning
  <2>2. TableNodes \subseteq Tree
    BY <2>1 DEF Inv, TreeInv
  <2>3. rootNode = NULL => TableNodes = {}
    BY <2>2 DEF Tree
  <2> QED BY <1>2, <2>1, <2>3, TreeInvStays DEF tree
<1>7. WalkInv'
  BY <1>1 DEF Inv, WalkInv, Walks
<1>8. SweepInv'
  BY <1>1 DEF SweepInv
<1> QED BY <1>2, <1>3, <1>4, <1>5, <1>6, <1>7, <1>8 DEF Inv

(* Clear, SetParams and BeginSearch. *)
LEMMA InvStart ==
  ASSUME Inv,
         \/ Clear
         \/ \E n \in 1..MaxThreads, clearing \in BOOLEAN : SetParams(n, clearing)
         \/ \E recomputing \in BOOLEAN : BeginSearch(recomputing)
  PROVE  Inv'
<1> USE DEF Next1
<1>1. CASE Clear
  BY <1>1, Starts, ClearingSteps DEF Clear, pool, tree, Inv, TypeCorrect
<1>2. ASSUME NEW n \in 1..MaxThreads, NEW clearing \in BOOLEAN, SetParams(n, clearing) PROVE Inv'
  <2>1. <<>> \in Seq(Steps) /\ InOrder(<<>>) /\ Following(<<>>, 0) = "nothing"
    BY DEF InOrder, Following
  <2> QED BY <1>2, <2>1, Starts, ClearingSteps DEF SetParams, tree
<1>3. ASSUME NEW recomputing \in BOOLEAN, BeginSearch(recomputing) PROVE Inv'
  <2> DEFINE steps == IF recomputing THEN <<"root", "post", "age", "search">>
                      ELSE <<"root", "age", "search">>
  <2>1. todo' = IF searchNodeAge > AgeLimit THEN ClearSteps \o steps ELSE steps
    BY <1>3 DEF BeginSearch
  <2>2. steps = <<"root", "post", "age", "search">> \/ steps = <<"root", "age", "search">>
    OBVIOUS
  <2> HIDE DEF steps
  <2>3. todo' \in Seq(Steps) /\ InOrder(todo')
        /\ Next1' \in {"root", "clear", "forget"} /\ (Next1' = "forget" => rootNode = NULL)
    BY <2>1, <2>2, SearchSteps
  <2> QED BY <1>3, <2>3, Starts DEF BeginSearch, pool, tree, Inv, TypeCorrect
<1> QED BY <1>1, <1>2, <1>3

(* What the caller's next step says of its steps. *)
LEMMA StepTaken ==
  ASSUME Inv, todo # <<>>, todo' = Tail(todo)
  PROVE  /\ todo' \in Seq(Steps) /\ InOrder(todo')
         /\ Next1 = Head(todo) /\ Head(todo) \in Steps
         /\ Next1' \in After(Head(todo))
<1>1. todo \in Seq(Steps) /\ InOrder(todo)
  BY DEF Inv, TypeCorrect, StepsInv
<1> QED BY <1>1, Popped DEF Next1

(* The end of a clearing: nothing is left. *)
LEMMA InvForget == ASSUME Inv, Forget PROVE Inv'
<1>1. /\ task = "none" /\ todo # <<>> /\ Head(todo) = "forget"
      /\ todo' = Tail(todo) /\ live' = live \ {rootNode}
      /\ node' = [n \in Nodes |-> IF n = rootNode THEN Blank ELSE node[n]]
      /\ rootNode' = NULL /\ searchNodeAge' = 0
      /\ UNCHANGED <<table, numThreads, numThreadsSpawned, threadTasks, threadTasksRemaining>>
      /\ UNCHANGED <<task, pushed, pc, stack, calls>>
  BY DEF Forget, pool
<1>2. /\ todo' \in Seq(Steps) /\ InOrder(todo')
      /\ Next1 = "forget" /\ Next1' \in {"root", "nothing"}
  BY <1>1, StepTaken DEF After
<1>3. TableNodes = {} /\ TableNodes' = {}
  BY <1>1, <1>2 DEF Inv, TreeInv, TableNodes
<1>4. \A n \in Nodes : node'[n] = Blank
  BY <1>1, <1>3 DEF Inv, HeapInv
<1>5. TypeCorrect'
  <2>1. Blank \in NodeRecords
    BY DEF Blank, NodeRecords
  <2>2. node' \in [Nodes -> NodeRecords]
    BY <1>1, <2>1 DEF Inv, TypeCorrect
  <2> QED BY <1>1, <1>2, <2>2 DEF Inv, TypeCorrect
<1>6. StepsInv'
  BY <1>1, <1>2 DEF StepsInv
<1>7. PoolInv'
  BY <1>1, PoolInvStays DEF Inv
<1>8. HeapInv'
  BY <1>1, <1>3, <1>4 DEF HeapInv, Blank
<1>9. TreeInv'
  <2>1. Tree' = {}
    BY <1>1 DEF Tree
  <2>2. \A n \in Nodes : Kids'[n] = {}
    BY <1>4 DEF Kids, Children, ToSet, Blank
  <2>3. Acyclic(Kids')
    <3>1. Kids' \in Graph
      BY <1>5, KidsAreNext
    <3>2. \A n \in Nodes : Reach(Kids', Kids'[n]) \subseteq {}
      BY <3>1, <2>2, ReachLeast DEF Closed
    <3> QED BY <3>2 DEF Acyclic
  <2> QED BY <1>2, <1>3, <2>1, <2>3 DEF TreeInv
<1>10. WalkInv'
  BY <1>1 DEF Inv, WalkInv, Walks
<1>11. SweepInv'
  BY <1>1, <1>2 DEF SweepInv
<1> QED BY <1>5, <1>6, <1>7, <1>8, <1>9, <1>10, <1>11 DEF Inv

(* The missing root is allocated: the tree is that one node, and the table is empty. *)
LEMMA InvNewRoot == ASSUME Inv, NewRoot PROVE Inv'
<1>1. /\ task = "none" /\ todo # <<>> /\ Head(todo) = "root"
      /\ UNCHANGED <<table, node, searchNodeAge>>
      /\ UNCHANGED <<numThreads, numThreadsSpawned, threadTasks, threadTasksRemaining>>
      /\ UNCHANGED <<task, pushed, pc, stack, calls>>
  BY DEF NewRoot, pool
<1>2. Next1 = "root"
  BY <1>1, Popped DEF Next1, Inv, TypeCorrect, StepsInv
<1>3. ~Clearing /\ ~Pruning
  BY <1>1, <1>2 DEF Clearing, Pruning
<1>4. (\A n \in Tree : Children(n) \subseteq TableNodes) /\ Acyclic(Kids) /\ TableNodes \subseteq Tree
  BY <1>3 DEF Inv, TreeInv
<1>5. TableNodes' = TableNodes /\ Kids' = Kids
  BY <1>1 DEF TableNodes, Kids, Children
<1>6. PoolInv'
  BY <1>1, PoolInvStays DEF Inv
<1>7. WalkInv'
  BY <1>1 DEF Inv, WalkInv, Walks
<1>8. CASE rootNode # NULL /\ todo' = Tail(todo) /\ UNCHANGED <<rootNode, live>>
  <2>1. todo' \in Seq(Steps) /\ InOrder(todo') /\ Next1' \in {"post", "age"}
    BY <1>1, <1>8, StepTaken DEF After
  <2>2. TypeCorrect'
    BY <1>1, <1>8, <2>1 DEF Inv, TypeCorrect
  <2>3. StepsInv'
    BY <1>1, <1>8, <2>1 DEF StepsInv
  <2>4. HeapInv'
    BY <1>1, <1>8, HeapInvStays DEF Inv, TypeCorrect
  <2>5. TreeInv'
    BY <1>1, <1>3, <1>8, <2>1, <2>2, TreeInvStays
  <2>6. SweepInv'
    BY <1>1, <2>1 DEF SweepInv
  <2> QED BY <2>2, <2>3, <2>4, <2>5, <2>6, <1>6, <1>7 DEF Inv
<1>9. ASSUME rootNode = NULL, todo' = <<"age", "search">>,
             NEW n \in Nodes \ live, rootNode' = n, live' = live \cup {n}
      PROVE  Inv'
  <2>1. todo' \in Seq(Steps) /\ InOrder(todo') /\ Next1' = "age"
    BY <1>9, TwoSteps DEF Next1, After, Steps, Jobs, Walks
  <2>2. TypeCorrect'
    BY <1>1, <1>9, <2>1 DEF Inv, TypeCorrect
  <2>3. StepsInv'
    BY <1>1, <1>9, <2>1, NullIsNoNode DEF StepsInv
  <2>4. TableNodes = {} /\ TableNodes' = {}
    BY <1>4, <1>5, <1>9 DEF Tree
  <2>5. HeapInv'
    BY <1>1, <1>9, <2>4, NullIsNoNode DEF Inv, HeapInv
  <2>6. TreeInv'
    <3>1. node[n] = Blank
      BY <1>9, <2>4, NullIsNoNode DEF Inv, HeapInv
    <3>2. Children(n)' = {} /\ Kids'[n] = {}
      BY <1>1, <3>1 DEF Kids, Children, ToSet, Blank
    <3>3. Tree' = Reach(Kids', {n}) /\ Kids' \in Graph
      BY <1>9, <2>2, NullIsNoNode, ReachableIsNext, KidsAreNext
    <3>4. Tree' \subseteq {n}
      BY <3>2, <3>3, ReachLeast DEF Closed
    <3> QED BY <1>4, <1>5, <2>1, <2>4, <3>2, <3>4 DEF TreeInv
  <2>7. SweepInv'
    BY <1>1, <2>1 DEF SweepInv
  <2> QED BY <2>2, <2>3, <2>5, <2>6, <2>7, <1>6, <1>7 DEF Inv
<1> QED BY <1>8, <1>9 DEF NewRoot

(* Nodes become old. *)
LEMMA InvOlder == ASSUME Inv, Older PROVE Inv'
<1>1. /\ task = "none" /\ todo # <<>> /\ Head(todo) = "age" /\ todo' = Tail(todo)
      /\ searchNodeAge' = searchNodeAge + 1 /\ UNCHANGED <<rootNode, live, table, node>>
      /\ UNCHANGED <<numThreads, numThreadsSpawned, threadTasks, threadTasksRemaining>>
      /\ UNCHANGED <<task, pushed, pc, stack, calls>>
  BY DEF Older, pool
<1>2. /\ todo' \in Seq(Steps) /\ InOrder(todo')
      /\ Next1 = "age" /\ Next1' = "search"
  BY <1>1, StepTaken DEF After
<1>3. TypeCorrect'
  BY <1>1, <1>2 DEF Inv, TypeCorrect
<1>4. StepsInv'
  BY <1>1, <1>2 DEF Inv, StepsInv
<1>5. PoolInv'
  BY <1>1, PoolInvStays DEF Inv
<1>6. HeapInv'
  BY <1>1, HeapInvStays DEF Inv, TypeCorrect
<1>7. TreeInv'
  BY <1>1, <1>2, <1>3, TreeInvStays DEF Clearing, Pruning
<1>8. WalkInv'
  BY <1>1 DEF Inv, WalkInv, Walks
<1>9. SweepInv'
  BY <1>1, <1>2 DEF SweepInv
<1> QED BY <1>3, <1>4, <1>5, <1>6, <1>7, <1>8, <1>9 DEF Inv

(* A move to a child: its copy becomes the root, and all that can be reached from it is in the table. *)
LEMMA InvMoveToChild ==
  ASSUME Inv, Idle, rootNode # NULL,
         NEW loc \in 1..MaxChildren, HasChildAt(loc), NEW copy \in Nodes \ live,
         rootNode' = copy, live' = live \cup {copy},
         node' = [node EXCEPT ![copy] = node[node[rootNode].children[loc]], ![rootNode] = Blank],
         todo' = <<"any", "sweep">>, UNCHANGED <<table, searchNodeAge>>,
         UNCHANGED <<numThreads, numThreadsSpawned, threadTasks, threadTasksRemaining>>,
         UNCHANGED <<task, pushed, pc, stack, calls>>
  PROVE  Inv'
<1> DEFINE c == node[rootNode].children[loc]
<1>1. task = "none" /\ Next1 = "nothing"
  BY DEF Idle, Next1, Following
<1>2. (\A n \in Tree : Children(n) \subseteq TableNodes) /\ Acyclic(Kids) /\ TableNodes \subseteq Tree
  BY <1>1 DEF Inv, TreeInv, Clearing, Pruning
<1>3. rootNode \in Nodes /\ rootNode \in Tree
  BY TreeClosed DEF Inv, TypeCorrect
<1>4. c \in Children(rootNode) /\ c \in TableNodes
  BY <1>2, <1>3 DEF HasChildAt, Children, ToSet
<1>5. TableNodes \subseteq Nodes /\ TableNodes' = TableNodes
  BY DEF Inv, TypeCorrect, TableNodes
<1>6. copy \notin TableNodes /\ rootNode \notin TableNodes /\ copy # rootNode
  BY DEF Inv, HeapInv
<1>7. /\ node'[copy] = node[c] /\ node'[rootNode] = Blank
      /\ \A n \in Nodes \ {copy, rootNode} : node'[n] = node[n]
      /\ node' \in [Nodes -> NodeRecords]
  <2>1. Blank \in NodeRecords
    BY DEF Blank, NodeRecords
  <2> QED BY <2>1, <1>3, <1>4, <1>5, <1>6 DEF Inv, TypeCorrect
<1> HIDE DEF c
<1>8. todo' \in Seq(Steps) /\ InOrder(todo') /\ Next1' = "any"
  BY TwoSteps DEF Next1, After, Steps, Jobs, Walks
<1>9. TypeCorrect'
  BY <1>7, <1>8 DEF Inv, TypeCorrect
<1>10. StepsInv'
  BY <1>1, <1>8, NullIsNoNode DEF StepsInv
<1>11. PoolInv'
  BY PoolInvStays DEF Inv
<1>12. HeapInv'
  <2>1. \A n \in Nodes \ TableNodes' : n # rootNode' => node'[n] = Blank
    BY <1>5, <1>7 DEF Inv, HeapInv
  <2>2. \A n \in Nodes : node'[n].nodeAge <= searchNodeAge'
    <3>1. Blank.nodeAge <= searchNodeAge
      BY DEF Blank, Inv, TypeCorrect
    <3> QED BY <3>1, <1>4, <1>5, <1>7 DEF Inv, HeapInv
  <2> QED BY <2>1, <2>2, <1>5, <1>6 DEF Inv, HeapInv
<1>13. Kids \in Graph /\ Kids' \in Graph /\ \A n \in Nodes : Kids[n] = Children(n) /\ Kids'[n] = Children(n)'
  BY <1>9, KidsAre, KidsAreNext DEF Inv
<1>14. /\ Kids'[copy] = Kids[c] /\ Kids'[rootNode] = {}
       /\ \A n \in Nodes \ {copy, rootNode} : Kids'[n] = Kids[n]
  <2>1. Children(copy)' = Children(c)
    BY <1>7 DEF Children
  <2>2. \A n \in Nodes \ {copy, rootNode} : Children(n)' = Children(n)
    BY <1>7 DEF Children
  <2>3. \A x : x = rootNode => Children(x)' = {}
    BY <1>7 DEF Children, Blank, ToSet
  <2> QED BY <2>1, <2>2, <2>3, <1>3, <1>4, <1>5, <1>13
<1>15. \A n \in TableNodes : Kids'[n] = Kids[n] /\ Kids[n] \subseteq TableNodes
  BY <1>2, <1>5, <1>6, <1>13, <1>14
<1>16. Kids[c] \subseteq TableNodes
  BY <1>4, <1>15
<1>17. Closed(Kids, TableNodes) /\ Closed(Kids', TableNodes)
  BY <1>15 DEF Closed
<1>18. Tree' \subseteq TableNodes \cup {copy}
  <2>1. Tree' = Reach(Kids', {copy})
    BY <1>9, ReachableIsNext, NullIsNoNode
  <2>2. Closed(Kids', TableNodes \cup {copy})
    BY <1>14, <1>15, <1>16 DEF Closed
  <2> QED BY <2>1, <2>2, <1>5, <1>13, ReachLeast
<1>19. Acyclic(Kids')
  <2> SUFFICES ASSUME NEW n \in Nodes PROVE n \notin Reach(Kids', Kids'[n])
    BY DEF Acyclic
  <2>1. CASE n = copy
    <3>1. Kids'[copy] \subseteq TableNodes
      BY <1>14, <1>16
    <3>2. Kids'[copy] \in SUBSET Nodes
      BY <3>1, <1>5
    <3>3. Reach(Kids', Kids'[copy]) \subseteq TableNodes
      BY <3>1, <3>2, <1>5, <1>13, <1>17, ReachLeast
    <3> QED BY <2>1, <3>3, <1>6
  <2>2. CASE n \in TableNodes
    <3>1. Kids[n] \in SUBSET Nodes /\ Kids[n] \subseteq TableNodes /\ Kids'[n] = Kids[n]
      BY <2>2, <1>5, <1>15
    <3>2. Reach(Kids, Kids[n]) \subseteq TableNodes
      BY <3>1, <1>5, <1>13, <1>17, ReachLeast
    <3>3. \A m \in Reach(Kids, Kids[n]) : Kids'[m] = Kids[m]
      BY <3>2, <1>15
    <3>4. Reach(Kids', Kids[n]) = Reach(Kids, Kids[n])
      BY <3>1, <3>3, <1>13, ReachAgrees
    <3> QED BY <3>1, <3>4, <1>2 DEF Acyclic
  <2>3. CASE n \notin TableNodes /\ n # copy
    <3>1. n # rootNode => node[n] = Blank
      BY <2>3 DEF Inv, HeapInv
    <3>2. n # rootNode => Kids[n] = {}
      BY <3>1, <1>13 DEF Children, Blank, ToSet
    <3>3. Kids'[n] = {}
      <4>1. CASE n = rootNode
        BY <4>1, <1>14
      <4>2. CASE n # rootNode
        BY <4>2, <2>3, <3>2, <1>14
      <4> QED BY <4>1, <4>2
    <3>4. {} \in SUBSET Nodes /\ Closed(Kids', {}) /\ Kids' \in Graph
      BY <1>13 DEF Closed
    <3>5. Reach(Kids', {}) \subseteq {}
      BY <3>4, ReachLeast
    <3> QED BY <3>3, <3>5
  <2> QED BY <2>1, <2>2, <2>3
<1>20. TreeInv'
  <2>1. ~Clearing' /\ Pruning' /\ Next1' # "forget"
    BY <1>8 DEF Clearing, Pruning
  <2>2. \A n \in Tree' : Kids'[n] \subseteq TableNodes
    BY <1>14, <1>15, <1>16, <1>18
  <2>3. \A n \in Tree' : Children(n)' \subseteq TableNodes'
    BY <2>2, <1>5, <1>13, <1>18
  <2> QED BY <2>1, <2>3, <1>19 DEF TreeInv
<1>21. WalkInv'
  BY <1>1 DEF Inv, WalkInv, Walks
<1>22. SweepInv'
  BY <1>1, <1>8 DEF SweepInv
<1> QED BY <1>9, <1>10, <1>11, <1>12, <1>20, <1>21, <1>22 DEF Inv

(* Both moves. *)
LEMMA InvMakeMove ==
  ASSUME Inv, NEW loc \in 1..MaxChildren, MakeMove(loc) PROVE Inv'
<1>1. CASE todo' = ClearSteps /\ UNCHANGED <<rootNode, live, node>>
  <2>1. Next1' = IF rootNode = NULL THEN "forget" ELSE "clear"
    BY <1>1, ClearingSteps DEF Next1
  <2> QED BY <1>1, <2>1, Starts, ClearingSteps DEF MakeMove, pool, tree, Inv, TypeCorrect
<1>2. CASE ~(todo' = ClearSteps /\ UNCHANGED <<rootNode, live, node>>)
  BY <1>2, InvMoveToChild DEF MakeMove, pool
<1> QED BY <1>1, <1>2

-------------------------------------------------------------------------------
(* The pool. *)

(* performTaskWithThreads begins: nobody has the task yet, and a walk finds every node unmarked. *)
LEMMA InvPerformTask == ASSUME Inv, PerformTask PROVE Inv'
<1>1. /\ task = "none" /\ todo # <<>> /\ Head(todo) \in Jobs /\ todo' = Tail(todo)
      /\ task' = Head(todo) /\ pushed' = 0
      /\ searchNodeAge' = searchNodeAge + (IF Head(todo) \in Walks THEN 1 ELSE 0)
      /\ UNCHANGED <<rootNode, live, table, node, numThreads, threadTasks, pc, stack, calls>>
  BY DEF PerformTask, Jobs
<1>2. /\ todo' \in Seq(Steps) /\ InOrder(todo')
      /\ Next1 = task' /\ Next1' \in After(task')
  BY <1>1, StepTaken
<1>3. task' # "none" /\ task' \in Jobs
  BY <1>1 DEF Jobs, Walks
<1>4. pc[0] = "idle" /\ Busy = {} /\ threadTasksRemaining = 0 /\ numThreads \in Nat
  BY <1>1 DEF Inv, PoolInv, TypeCorrect
<1>5. threadTasksRemaining' = numThreads - 1
  BY <1>4 DEF PerformTask
<1>6. TypeCorrect'
  <2>1. numThreadsSpawned' \in Nat
    <3>1. numThreadsSpawned \in Nat /\ numThreads - 1 \in Nat
      BY ReuseAssumption DEF Inv, TypeCorrect
    <3>2. numThreadsSpawned' = Max({numThreadsSpawned, numThreads - 1})
      BY DEF PerformTask
    <3>3. Max({numThreadsSpawned, numThreads - 1}) \in {numThreadsSpawned, numThreads - 1}
      BY <3>1 DEF Max
    <3> QED BY <3>1, <3>2, <3>3
  <2>2. searchNodeAge' \in Nat
    BY <1>1 DEF Inv, TypeCorrect
  <2> QED BY <1>1, <1>2, <1>3, <1>4, <1>5, <2>1, <2>2 DEF Inv, TypeCorrect
<1>7. StepsInv'
  BY <1>1, <1>2, <1>3 DEF Inv, StepsInv, After, Jobs, Walks
<1>8. Busy' = {}
  BY <1>1, <1>4 DEF Busy
<1>9. PoolInv'
  <2>1. Cardinality(Busy') = 0
    BY <1>8, FS_EmptySet
  <2> QED BY <1>1, <1>3, <1>4, <1>5, <1>8, <2>1 DEF PoolInv, Inv, TypeCorrect
<1>10. HeapInv'
  BY <1>1, <1>6, HeapInvStays DEF Inv, TypeCorrect
<1>11. TreeInv'
  <2>1. Clearing => Clearing'
    BY <1>2, <1>3 DEF Clearing, After, Jobs, Walks
  <2>2. Pruning => Pruning'
    BY <1>1, <1>2, <1>3 DEF Pruning, After, Jobs, Walks
  <2> QED BY <1>1, <1>3, <1>6, <2>1, <2>2, TreeInvStays
<1>12. \A t \in Threads : pc[t] = "idle"
  BY <1>4 DEF Busy, Helpers
<1>13. WalkInv'
  <2>1. \A t \in Threads : pc'[t] \notin Walks /\ stack'[t] = <<>>
    BY <1>1, <1>12 DEF Inv, WalkInv, Walks
  <2>2. \A n \in Nodes : calls'[n] = 0
    BY <1>1 DEF Inv, WalkInv, Walks
  <2>3. ASSUME task' \in Walks PROVE DoneInv'
    <3>1. searchNodeAge' = searchNodeAge + 1
      BY <1>1, <2>3
    <3>2. \A n \in Nodes : ~Marked(n)'
      BY <1>1, <3>1 DEF Inv, HeapInv, TypeCorrect, NodeRecords, Marked
    <3>3. Tree' \subseteq Nodes /\ TableNodes' \subseteq Nodes
      BY <1>6 DEF Tree, Reachable, TypeCorrect, TableNodes
    <3> QED BY <2>2, <3>2, <3>3 DEF DoneInv
  <2>4. pc'[0] # "wait"
    BY <1>1, <1>4
  <2> QED BY <2>1, <2>2, <2>3, <2>4 DEF WalkInv
<1>14. SweepInv'
  <2>1. \A t \in 0..(numThreads - 1) : ~ShareDone(t)'
    BY <1>1, <1>4 DEF ShareDone
  <2>2. ASSUME task' = "sweep"
        PROVE  (\A n \in Tree' : Marked(n)') /\ \A n \in TableNodes' : Marked(n)' => n \in Tree'
    <3>1. /\ \A n \in Tree : Marked(n)
          /\ \A n \in TableNodes : Marked(n) => n \in Tree
      BY <1>1, <1>2, <2>2 DEF Inv, SweepInv
    <3>2. searchNodeAge' = searchNodeAge
      BY <1>1, <2>2 DEF Walks, Inv, TypeCorrect
    <3>3. Tree' = Tree /\ TableNodes' = TableNodes /\ \A n : Marked(n)' <=> Marked(n)
      BY <1>1, <1>6, <3>2, SameGraph DEF Inv, TableNodes, Marked
    <3> QED BY <3>1, <3>3
  <2> QED BY <1>1, <1>3, <2>1, <2>2 DEF SweepInv
<1> QED BY <1>6, <1>7, <1>9, <1>10, <1>11, <1>13, <1>14 DEF Inv

(* What the threads know of the tree stays while the tree does. *)
LEMMA TreeStays ==
  ASSUME Inv, TypeCorrect', UNCHANGED tree
  PROVE  /\ HeapInv' /\ Tree' = Tree /\ TableNodes' = TableNodes
         /\ \A n : Marked(n)' <=> Marked(n)
         /\ \A n \in Nodes : Children(n)' = Children(n)
         /\ UNCHANGED calls /\ DoneInv => DoneInv'
         /\ \A t \in Threads : StackInv(t) /\ stack'[t] = stack[t] => StackInv(t)'
<1>1. /\ Kids' = Kids /\ Tree' = Tree /\ \A n \in Nodes : Children(n)' = Children(n)
      /\ \A from \in SUBSET Nodes : Reachable(from)' = Reachable(from)
  BY SameGraph DEF Inv, tree
<1>2. TableNodes' = TableNodes /\ \A n : Marked(n)' <=> Marked(n)
  BY DEF TableNodes, Marked, tree
<1>3. Tree \subseteq Nodes /\ \A n \in Nodes : Children(n) \subseteq Nodes
  BY TreeClosed, KidsAre DEF Inv, Graph
<1>4. UNCHANGED calls /\ DoneInv => DoneInv'
  BY <1>1, <1>2, <1>3 DEF DoneInv
<1>5. ASSUME NEW t \in Threads, StackInv(t), stack'[t] = stack[t] PROVE StackInv(t)'
  <2>1. ASSUME NEW i \in 1..Len(stack[t]) PROVE FrameInv(t, i)'
    <3>1. FrameInv(t, i)
      BY <1>5 DEF StackInv
    <3>2. Reachable(Children(stack[t][i].node))' = Reachable(Children(stack[t][i].node))
      BY <3>1, <1>1, <1>3, <1>5 DEF FrameInv
    <3> QED BY <3>1, <3>2, <1>1, <1>2, <1>5 DEF FrameInv, tree
  <2>2. IF stack'[t] = <<>> THEN Marked(rootNode)' ELSE stack'[t][1].node = rootNode'
    BY <1>2, <1>5 DEF StackInv, Marked, tree
  <2> QED BY <2>1, <2>2, <1>5 DEF StackInv
<1>6. HeapInv'
  BY HeapInvStays DEF Inv, TypeCorrect, tree
<1> QED BY <1>1, <1>2, <1>4, <1>5, <1>6

(* A task is pushed to a helper that has none. *)
LEMMA InvPushTask == ASSUME Inv, PushTask PROVE Inv'
<1>0. PICK h \in Nat : h = pushed + 1
  BY DEF Inv, TypeCorrect
<1>1. /\ task # "none" /\ pc[0] = "idle" /\ pushed < numThreads - 1 /\ pushed' = h
      /\ threadTasks' = [threadTasks EXCEPT ![h] = Append(@, task)]
      /\ UNCHANGED <<tree, numThreads, numThreadsSpawned, threadTasksRemaining, todo, task, pc, stack, calls>>
  BY <1>0 DEF PushTask
<1>2. numThreads \in Nat /\ pushed \in Nat /\ h \in Helpers /\ task \in Jobs
  BY <1>0, <1>1, ReuseAssumption DEF Inv, TypeCorrect, Helpers, Threads
<1>3. h \notin Busy
  BY <1>0, <1>1, <1>2 DEF Inv, PoolInv
<1>4. /\ threadTasks[h] = <<>> /\ pc[h] = "idle"
      /\ threadTasks'[h] = <<task>> /\ \A g \in Helpers \ {h} : threadTasks'[g] = threadTasks[g]
      /\ threadTasks' \in [Helpers -> Seq(Jobs)]
  <2>1. threadTasks[h] = <<>> /\ pc[h] = "idle"
    BY <1>2, <1>3 DEF Busy
  <2>2. Append(<<>>, task) = <<task>> /\ <<task>> \in Seq(Jobs)
    BY <1>2
  <2> QED BY <1>1, <1>2, <2>1, <2>2 DEF Inv, TypeCorrect
<1>5. TypeCorrect'
  BY <1>1, <1>2, <1>4 DEF Inv, TypeCorrect, tree
<1>6. Busy' = Busy \cup {h}
  BY <1>1, <1>2, <1>4 DEF Busy
<1>7. StepsInv'
  BY <1>1 DEF Inv, StepsInv, tree, Next1
<1>8. PoolInv'
  <2>1. Cardinality(Busy') = Cardinality(Busy) + 1
    BY <1>3, <1>6, BusyFinite, FS_AddElement
  <2>2. \A g \in Busy' : g <= pushed' /\ HasTask(g)'
    <3>1. HasTask(h)' /\ h <= pushed'
      BY <1>1, <1>2, <1>4 DEF HasTask
    <3>2. ASSUME NEW g \in Busy PROVE g <= pushed' /\ HasTask(g)'
      <4>1. g \in Helpers \ {h} /\ g <= pushed /\ HasTask(g) /\ g \in Nat
        BY <1>1, <1>3 DEF Busy, Inv, PoolInv, Helpers, Threads
      <4>2. g <= pushed'
        BY <4>1, <1>0, <1>1, <1>2
      <4> QED BY <4>1, <4>2, <1>1, <1>4 DEF HasTask
    <3> QED BY <3>1, <3>2, <1>6
  <2>3. threadTasksRemaining' = (numThreads - 1 - pushed') + Cardinality(Busy')
    BY <2>1, <1>0, <1>1, <1>2, BusyFinite DEF Inv, PoolInv
  <2>4. pushed' <= numThreads' - 1 /\ (pushed' < numThreads' - 1 => pc'[0] = "idle")
    BY <1>0, <1>1, <1>2
  <2> QED BY <1>1, <2>2, <2>3, <2>4 DEF PoolInv
<1>9. HeapInv'
  BY <1>1, <1>5, TreeStays
<1>10. TreeInv'
  BY <1>1, <1>5, TreeInvStays DEF tree, Clearing, Pruning, Next1
<1>11. WalkInv'
  <2>1. \A t \in Threads : StackInv(t) => StackInv(t)'
    BY <1>1, <1>5, TreeStays
  <2> QED BY <1>1, <1>5, <2>1, TreeStays DEF Inv, WalkInv
<1>12. SweepInv'
  <2>1. \A t \in Nat : ShareDone(t)' => ShareDone(t)
    BY <1>0, <1>1, <1>2, <1>6 DEF ShareDone
  <2>2. \A t : Share(t)' = Share(t)
    BY <1>1 DEF Share
  <2> QED BY <1>1, <1>2, <1>5, <2>1, <2>2, TreeStays DEF Inv, SweepInv, Next1, tree
<1> QED BY <1>5, <1>7, <1>8, <1>9, <1>10, <1>11, <1>12 DEF Inv

(* A thread starts on its share, of a walk at the root. *)
LEMMA ShareStarts ==
  ASSUME Inv, NEW t \in Threads, task # "none", StartShare(t, task), UNCHANGED <<tree, task, calls>>
  PROVE  /\ stack' \in [Threads -> Seq(Frames)] /\ pc' \in [Threads -> Jobs \cup {"idle", "wait"}]
         /\ pc'[t] = task /\ \A u \in Threads \ {t} : pc'[u] = pc[u]
         /\ TypeCorrect' => WalkInv'
<1>1. task \in Jobs /\ pc' = [pc EXCEPT ![t] = task]
  BY DEF StartShare, Inv, TypeCorrect
<1>2. pc' \in [Threads -> Jobs \cup {"idle", "wait"}] /\ pc'[t] = task
      /\ \A u \in Threads \ {t} : pc'[u] = pc[u]
  BY <1>1 DEF Inv, TypeCorrect
<1> DEFINE s == IF task \in Walks /\ node[rootNode].nodeAge # searchNodeAge
                THEN <<FrameAt(rootNode)>> ELSE <<>>
<1>3. task \in Walks => rootNode \in Nodes /\ rootNode \in Tree
  BY TreeClosed DEF Inv, StepsInv, TypeCorrect, Walks
<1>4. s \in Seq(Frames)
  <2>1. task \in Walks => FrameAt(rootNode) \in Frames
    <3>1. task \in Walks => node[rootNode].children \in Seq(Nodes)
      BY <1>3 DEF Inv, TypeCorrect, NodeRecords
    <3>2. task \in Walks => DOMAIN node[rootNode].children \in SUBSET Nat
      BY <3>1
    <3> QED BY <1>3, <3>2 DEF FrameAt, Frames
  <2> QED BY <2>1
<1>5. stack' = [stack EXCEPT ![t] = s]
  BY DEF StartShare
<1>6. stack' \in [Threads -> Seq(Frames)] /\ stack'[t] = s /\ \A u \in Threads \ {t} : stack'[u] = stack[u]
  BY <1>4, <1>5 DEF Inv, TypeCorrect
<1>7. ASSUME TypeCorrect' PROVE WalkInv'
  <2>1. \A u \in Threads : pc'[u] \notin Walks => stack'[u] = <<>>
    BY <1>2, <1>6 DEF Inv, WalkInv
  <2>2. task' \notin Walks => \A n \in Nodes : calls'[n] = 0
    BY DEF Inv, WalkInv
  <2>3. ASSUME task \in Walks PROVE StackInv(t)'
    <3>1. CASE node[rootNode].nodeAge = searchNodeAge
      <4>1. stack'[t] = <<>> /\ Marked(rootNode)'
        BY <3>1, <1>6 DEF tree, Marked
      <4> QED BY <4>1 DEF StackInv
    <3>2. CASE node[rootNode].nodeAge # searchNodeAge
      <4>1. stack'[t] = <<FrameAt(rootNode)>>
        BY <3>2, <2>3, <1>6
      <4>2. /\ stack'[t] # <<>> /\ Len(stack'[t]) = 1
            /\ stack'[t][1].node = rootNode
            /\ stack'[t][1].rest = DOMAIN node[rootNode].children
        BY <4>1 DEF FrameAt
      <4>3. rootNode' = rootNode /\ node' = node /\ Tree' = Tree
        BY <1>7, TreeStays DEF tree
      <4>4. FrameInv(t, 1)'
        BY <4>2, <4>3, <1>3, <2>3 DEF FrameInv
      <4> QED BY <4>2, <4>3, <4>4 DEF StackInv
    <3> QED BY <3>1, <3>2
  <2>4. ASSUME task \in Walks, NEW u \in Threads, pc'[u] \in Walks PROVE StackInv(u)'
    <3>1. u # t => StackInv(u) /\ stack'[u] = stack[u]
      BY <2>4, <1>2, <1>6 DEF Inv, WalkInv
    <3> QED BY <3>1, <2>3, <2>4, <1>7, TreeStays
  <2>5. task \in Walks /\ pc'[0] = "wait" => Marked(rootNode)'
    <3>1. task \in Walks /\ pc'[0] = "wait" => pc[0] = "wait"
      <4>1. 0 \in Threads
        BY ReuseAssumption DEF Threads
      <4> QED BY <4>1, <1>2 DEF Walks
    <3> QED BY <3>1 DEF Inv, WalkInv, Marked, tree
  <2>6. task \in Walks => DoneInv'
    BY <1>7, TreeStays DEF Inv, WalkInv
  <2> QED BY <2>1, <2>2, <2>4, <2>5, <2>6 DEF WalkInv
<1> QED BY <1>2, <1>6, <1>7

(* The caller's share starts after everybody else has been pushed the task. *)
LEMMA InvCallerStarts == ASSUME Inv, CallerStarts PROVE Inv'
<1>1. /\ task # "none" /\ pc[0] = "idle" /\ pushed = numThreads - 1
      /\ StartShare(0, task)
      /\ UNCHANGED <<tree, numThreads, numThreadsSpawned, threadTasks, threadTasksRemaining>>
      /\ UNCHANGED <<todo, task, pushed, calls>>
  BY DEF CallerStarts, pool
<1>2. 0 \in Threads /\ numThreads \in Nat
  BY ReuseAssumption DEF Threads, Inv, TypeCorrect
<1>3. /\ stack' \in [Threads -> Seq(Frames)] /\ pc' \in [Threads -> Jobs \cup {"idle", "wait"}]
      /\ pc'[0] = task /\ \A u \in Threads \ {0} : pc'[u] = pc[u]
      /\ TypeCorrect' => WalkInv'
  BY <1>1, <1>2, ShareStarts DEF tree
<1>4. TypeCorrect'
  BY <1>1, <1>3 DEF Inv, TypeCorrect, tree
<1>5. StepsInv'
  BY <1>1 DEF Inv, StepsInv, tree, Next1
<1>6. Busy' = Busy /\ \A h \in Helpers : HasTask(h)' <=> HasTask(h)
  BY <1>1, <1>3 DEF Busy, HasTask, Helpers
<1>7. PoolInv'
  <2>1. \A h \in Busy : h <= pushed /\ HasTask(h)'
    BY <1>1, <1>6 DEF Inv, PoolInv, Busy
  <2> QED BY <1>1, <1>2, <1>3, <1>6, <2>1 DEF Inv, PoolInv
<1>8. HeapInv'
  BY <1>1, <1>4, TreeStays DEF tree
<1>9. TreeInv'
  BY <1>1, <1>4, TreeInvStays DEF tree, Clearing, Pruning, Next1
<1>10. SweepInv'
  <2>1. task # "wait"
    BY DEF Inv, TypeCorrect, Jobs, Walks
  <2>2. \A u \in Nat : ShareDone(u)' => ShareDone(u)
    BY <2>1, <1>1, <1>3, <1>6 DEF ShareDone
  <2>3. \A u : Share(u)' = Share(u)
    BY <1>1 DEF Share
  <2> QED BY <1>1, <1>2, <1>4, <2>2, <2>3, TreeStays DEF Inv, SweepInv, Next1, tree
<1> QED BY <1>3, <1>4, <1>5, <1>7, <1>8, <1>9, <1>10 DEF Inv

(* A helper takes the task that it has been pushed. *)
LEMMA InvHelperStarts == ASSUME Inv, NEW h \in Helpers, HelperStarts(h) PROVE Inv'
<1>1. /\ pc[h] = "idle" /\ threadTasks[h] # <<>>
      /\ threadTasks' = [threadTasks EXCEPT ![h] = Tail(@)]
      /\ StartShare(h, Head(threadTasks[h]))
      /\ UNCHANGED <<tree, numThreads, numThreadsSpawned, threadTasksRemaining>>
      /\ UNCHANGED <<todo, task, pushed, calls>>
  BY DEF HelperStarts
<1>2. h \in Busy /\ h \in Threads /\ h # 0
  BY <1>1 DEF Busy, Helpers
<1>3. task # "none" /\ HasTask(h) /\ task # "idle"
  BY <1>2 DEF Inv, PoolInv, TypeCorrect, Jobs, Walks
<1>4. threadTasks[h] = <<task>> /\ Head(threadTasks[h]) = task /\ Tail(threadTasks[h]) = <<>>
  <2>1. threadTasks[h] = <<task>>
    BY <1>1, <1>3 DEF HasTask
  <2>2. Head(<<task>>) = task /\ Tail(<<task>>) = <<>>
    OBVIOUS
  <2> QED BY <2>1, <2>2
<1>5. StartShare(h, task)
  BY <1>1, <1>4
<1>6. /\ stack' \in [Threads -> Seq(Frames)] /\ pc' \in [Threads -> Jobs \cup {"idle", "wait"}]
      /\ pc'[h] = task /\ \A u \in Threads \ {h} : pc'[u] = pc[u]
      /\ TypeCorrect' => WalkInv'
  BY <1>1, <1>2, <1>3, <1>5, ShareStarts DEF tree
<1>7. /\ threadTasks' \in [Helpers -> Seq(Jobs)] /\ threadTasks'[h] = <<>>
      /\ \A g \in Helpers \ {h} : threadTasks'[g] = threadTasks[g]
  BY <1>1, <1>4 DEF Inv, TypeCorrect
<1>8. TypeCorrect'
  BY <1>1, <1>6, <1>7 DEF Inv, TypeCorrect, tree
<1>9. StepsInv'
  BY <1>1 DEF Inv, StepsInv, tree, Next1
<1>10. Busy' = Busy
  BY <1>2, <1>3, <1>6, <1>7 DEF Busy, Helpers
<1>11. \A g \in Busy : HasTask(g)'
  BY <1>1, <1>2, <1>3, <1>6, <1>7 DEF Inv, PoolInv, HasTask, Busy, Helpers
<1>12. pc'[0] = pc[0]
  BY <1>2, <1>6, ReuseAssumption DEF Threads
<1>13. PoolInv'
  BY <1>1, <1>3, <1>10, <1>11, <1>12 DEF Inv, PoolInv
<1>14. HeapInv'
  BY <1>1, <1>8, TreeStays DEF tree
<1>15. TreeInv'
  <2>1. UNCHANGED <<rootNode, table, node, todo, task>>
    BY <1>1 DEF tree
  <2> QED BY <1>3, <1>8, <2>1, TreeInvStays DEF Clearing, Pruning, Next1
<1>16. SweepInv'
  <2>1. \A u \in Nat : ShareDone(u)' <=> ShareDone(u)
    BY <1>1, <1>10, <1>12 DEF ShareDone
  <2>2. \A u : Share(u)' = Share(u)
    BY <1>1 DEF Share
  <2>3. numThreads \in Nat
    BY DEF Inv, TypeCorrect
  <2> QED BY <1>1, <1>8, <2>1, <2>2, <2>3, TreeStays DEF Inv, SweepInv, Next1, tree
<1> QED BY <1>6, <1>8, <1>9, <1>13, <1>14, <1>15, <1>16 DEF Inv

(* When the caller has done its share of a walk, the whole tree is done. *)
LEMMA WalkDone ==
  ASSUME Inv, task \in Walks, pc[0] = "wait" PROVE \A n \in Tree : Marked(n)
<1> DEFINE M == {n \in Tree : Marked(n)}
<1>1. DoneInv /\ Marked(rootNode) /\ rootNode \in Nodes
  BY DEF Inv, WalkInv, Walks, StepsInv, TypeCorrect
<1>2. M \in SUBSET Nodes /\ rootNode \in M
  BY <1>1, TreeClosed, NullIsNoNode DEF Inv
<1>3. Closed(Kids, M)
  <2>1. \A n \in Nodes : Kids[n] = Children(n)
    BY KidsAre DEF Inv
  <2>2. \A n \in Tree : n \in Nodes /\ Children(n) \subseteq Tree
    BY TreeClosed DEF Inv
  <2> QED BY <2>1, <2>2, <1>1 DEF Closed, DoneInv
<1>4. Tree \subseteq M
  BY <1>2, <1>3, TreeClosed DEF Inv
<1> QED BY <1>4

(* The caller returns when everybody is done, so every share of the table is swept or cleared, and a walk *)
(* has marked the tree. *)
LEMMA InvReturn == ASSUME Inv, Return PROVE Inv'
<1>1. /\ pc[0] = "wait" /\ threadTasksRemaining = 0 /\ pc' = [pc EXCEPT ![0] = "idle"]
      /\ task' = "none" /\ calls' = [n \in Nodes |-> 0]
      /\ UNCHANGED <<rootNode, live, table, node, searchNodeAge>>
      /\ UNCHANGED <<numThreads, numThreadsSpawned, threadTasks, threadTasksRemaining>>
      /\ UNCHANGED <<todo, pushed, stack>>
  BY DEF Return, tree, pool
<1>2. numThreads \in Nat \ {0} /\ pushed \in Nat /\ 0 \in Threads
  BY ReuseAssumption DEF Inv, TypeCorrect, Threads
<1>3. task # "none" /\ task \in Jobs
  BY <1>1 DEF Inv, PoolInv, TypeCorrect
<1>4. Busy = {} /\ pushed = numThreads - 1
  <2>1. pushed <= numThreads - 1 /\ 0 = (numThreads - 1 - pushed) + Cardinality(Busy)
    BY <1>1, <1>3 DEF Inv, PoolInv
  <2> QED BY <2>1, <1>2, BusyFinite
<1>5. pc' \in [Threads -> Jobs \cup {"idle", "wait"}] /\ pc'[0] = "idle"
      /\ \A u \in Threads \ {0} : pc'[u] = pc[u]
  BY <1>1, <1>2 DEF Inv, TypeCorrect
<1>6. TypeCorrect'
  BY <1>1, <1>5 DEF Inv, TypeCorrect
<1>7. StepsInv'
  BY <1>1 DEF Inv, StepsInv, Next1
<1>8. PoolInv'
  <2>1. Busy' = {}
    BY <1>1, <1>4, <1>5 DEF Busy, Helpers
  <2> QED BY <2>1, <1>1, <1>5 DEF PoolInv
<1>9. HeapInv' /\ Tree' = Tree /\ TableNodes' = TableNodes /\ \A n : Marked(n)' <=> Marked(n)
  BY <1>1, <1>6, TreeStays DEF tree
<1>10. \A t \in 0..(numThreads - 1) : ShareDone(t)
  BY <1>1, <1>2, <1>4 DEF ShareDone
<1>11. ASSUME task \in {"sweep", "clear"}, NEW n \in TableNodes PROVE task = "sweep" /\ Marked(n)
  <2>1. PICK s \in 0..(numShards - 1) : n \in table[s]
    BY DEF Inv, TypeCorrect, TableNodes
  <2>2. PICK t \in 0..(numThreads - 1) : s \in Share(t)
    BY <1>2, SharesCover
  <2> QED BY <1>10, <1>11, <2>1, <2>2 DEF Inv, SweepInv
<1>12. TreeInv'
  <2>1. Pruning => Pruning' \/ TableNodes \subseteq Tree
    <3>1. task = "sweep" => TableNodes \subseteq Tree
      BY <1>11 DEF Inv, SweepInv
    <3> QED BY <3>1, <1>1 DEF Pruning, Next1
  <2>2. Next1' = "forget" => TableNodes = {}
    <3>1. Next1' = "forget" => task = "clear"
      BY <1>1, <1>3 DEF Inv, StepsInv, After, Next1
    <3> QED BY <3>1, <1>11
  <2> QED BY <1>1, <1>6, <2>1, <2>2, TreeInvStays DEF Clearing, Next1
<1>13. WalkInv'
  <2>1. \A t \in Threads : pc'[t] \notin Walks => stack'[t] = <<>>
    BY <1>1, <1>5 DEF Inv, WalkInv, Walks
  <2> QED BY <2>1, <1>1 DEF WalkInv, Walks
<1>14. SweepInv'
  <2>1. ASSUME Next1 = "sweep" PROVE (\A n \in Tree : Marked(n)) /\ \A n \in TableNodes : Marked(n) => n \in Tree
    <3>1. task = "any"
      BY <2>1, <1>3 DEF Inv, StepsInv, After
    <3>2. DoneInv /\ \A n \in Tree : Marked(n)
      BY <3>1, <1>1, WalkDone DEF Inv, WalkInv, Walks
    <3> QED BY <3>2 DEF DoneInv
  <2> QED BY <2>1, <1>1, <1>9 DEF SweepInv, Next1
<1> QED BY <1>6, <1>7, <1>8, <1>9, <1>12, <1>13, <1>14 DEF Inv

(* A thread is done with its share. *)
LEMMA ShareEnds ==
  ASSUME Inv, NEW t \in Threads, pc[t] \in Jobs, EndShare(t),
         UNCHANGED <<numThreads, numThreadsSpawned, threadTasks, task, pushed>>
  PROVE  /\ pc[t] = task /\ task # "none" /\ t \in 0..(numThreads - 1)
         /\ pc' \in [Threads -> Jobs \cup {"idle", "wait"}] /\ threadTasksRemaining' \in Int
         /\ pc'[t] \notin Walks /\ \A u \in Threads \ {t} : pc'[u] = pc[u]
         /\ PoolInv'
         /\ \A u \in 0..(numThreads - 1) : ShareDone(u)' => ShareDone(u) \/ u = t
<1>1. /\ pc' = [pc EXCEPT ![t] = IF t = 0 THEN "wait" ELSE "idle"]
      /\ threadTasksRemaining' = threadTasksRemaining - (IF t = 0 THEN 0 ELSE 1)
  BY DEF EndShare
<1>2. /\ pc' \in [Threads -> Jobs \cup {"idle", "wait"}] /\ threadTasksRemaining' \in Int
      /\ pc'[t] = (IF t = 0 THEN "wait" ELSE "idle") /\ \A u \in Threads \ {t} : pc'[u] = pc[u]
  BY <1>1 DEF Inv, TypeCorrect
<1>3. pc[t] \notin {"idle", "wait", "none"} /\ numThreads \in Nat \ {0} /\ pushed \in Nat
  BY ReuseAssumption DEF Jobs, Walks, Inv, TypeCorrect
<1>4. pc'[t] \notin Walks
  BY <1>2 DEF Walks
<1>5. CASE t = 0
  <2>1. pc[t] = task /\ task # "none" /\ pushed = numThreads - 1
    BY <1>3, <1>5 DEF Inv, PoolInv
  <2>2. Busy' = Busy /\ \A h \in Helpers : HasTask(h)' <=> HasTask(h)
    BY <1>2, <1>5 DEF Busy, HasTask, Helpers
  <2>3. \A h \in Busy : h <= pushed /\ HasTask(h)'
    BY <2>1, <2>2 DEF Inv, PoolInv, Busy
  <2>4. PoolInv'
    BY <1>1, <1>2, <1>3, <1>5, <2>1, <2>2, <2>3, BusyFinite DEF Inv, PoolInv, TypeCorrect
  <2>5. \A u \in 0..(numThreads - 1) : ShareDone(u)' => ShareDone(u) \/ u = t
    BY <1>5, <2>2 DEF ShareDone
  <2> QED BY <1>2, <1>3, <1>4, <1>5, <2>1, <2>4, <2>5
<1>6. CASE t # 0
  <2>1. t \in Busy /\ t \in Helpers
    BY <1>3, <1>6 DEF Busy, Helpers
  <2>2. task # "none" /\ t <= pushed /\ HasTask(t) /\ pushed <= numThreads - 1
    BY <2>1 DEF Inv, PoolInv
  <2>3. pc[t] = task /\ threadTasks[t] = <<>>
    BY <2>2, <1>3 DEF HasTask
  <2>4. t \in 0..(numThreads - 1)
    BY <2>2, <1>3 DEF Threads
  <2>5. Busy' = Busy \ {t}
    BY <1>2, <1>6, <2>1, <2>3 DEF Busy, Helpers
  <2>6. Cardinality(Busy') = Cardinality(Busy) - 1
    BY <2>1, <2>5, BusyFinite, FS_RemoveElement
  <2>7. pc'[0] = pc[0]
    BY <1>2, <1>6, ReuseAssumption DEF Threads
  <2>8. \A h \in Busy' : h <= pushed /\ HasTask(h)'
    <3>1. \A h \in Busy : h \in Threads /\ h <= pushed /\ HasTask(h)
      BY <2>2 DEF Inv, PoolInv, Busy, Helpers
    <3> QED BY <3>1, <2>5, <1>2 DEF HasTask
  <2>9. threadTasksRemaining' = (numThreads - 1 - pushed) + Cardinality(Busy')
    BY <1>1, <1>3, <1>6, <2>2, <2>6, BusyFinite DEF Inv, PoolInv
  <2>10. PoolInv'
    BY <2>2, <2>7, <2>8, <2>9 DEF Inv, PoolInv
  <2>11. \A u \in 0..(numThreads - 1) : ShareDone(u)' => ShareDone(u) \/ u = t
    BY <2>5, <2>7 DEF ShareDone
  <2> QED BY <1>2, <1>4, <2>2, <2>3, <2>4, <2>10, <2>11
<1> QED BY <1>5, <1>6

(* A thread's walk is over. *)
LEMMA InvWalkEnds == ASSUME Inv, NEW t \in Threads, WalkEnds(t) PROVE Inv'
<1>1. /\ pc[t] \in Walks /\ stack[t] = <<>> /\ EndShare(t)
      /\ UNCHANGED <<tree, numThreads, numThreadsSpawned, threadTasks, todo, task, pushed, stack, calls>>
  BY DEF WalkEnds
<1>2. /\ pc[t] = task /\ task # "none"
      /\ pc' \in [Threads -> Jobs \cup {"idle", "wait"}] /\ threadTasksRemaining' \in Int
      /\ pc'[t] \notin Walks /\ \A u \in Threads \ {t} : pc'[u] = pc[u]
      /\ PoolInv'
  BY <1>1, ShareEnds DEF Jobs
<1>3. TypeCorrect'
  BY <1>1, <1>2 DEF Inv, TypeCorrect, tree
<1>4. StepsInv'
  BY <1>1 DEF Inv, StepsInv, tree, Next1
<1>5. HeapInv'
  BY <1>1, <1>3, TreeStays
<1>6. UNCHANGED <<rootNode, table, node, todo, task>>
  BY <1>1 DEF tree
<1>7. TreeInv'
  BY <1>2, <1>3, <1>6, TreeInvStays DEF Clearing, Pruning, Next1
<1>8. WalkInv'
  <2>1. \A u \in Threads : pc'[u] \notin Walks => stack'[u] = <<>>
    BY <1>1, <1>2 DEF Inv, WalkInv
  <2>2. DoneInv'
    BY <1>1, <1>2, <1>3, TreeStays DEF Inv, WalkInv
  <2>3. \A u \in Threads : pc'[u] \in Walks => StackInv(u)'
    <3>1. \A u \in Threads : pc'[u] \in Walks => StackInv(u) /\ stack'[u] = stack[u]
      BY <1>1, <1>2 DEF Inv, WalkInv
    <3> QED BY <3>1, <1>1, <1>3, TreeStays
  <2>4. pc'[0] = "wait" => Marked(rootNode)'
    <3>1. 0 \in Threads /\ StackInv(t)
      BY <1>1, <1>2, ReuseAssumption DEF Threads, Inv, WalkInv
    <3>2. pc'[0] = "wait" => Marked(rootNode)
      BY <3>1, <1>1, <1>2 DEF Inv, WalkInv, StackInv
    <3> QED BY <3>2, <1>1 DEF Marked, tree
  <2> QED BY <2>1, <2>2, <2>3, <2>4, <1>1, <1>2 DEF WalkInv
<1>9. SweepInv'
  BY <1>1, <1>2 DEF SweepInv, Walks
<1> QED BY <1>2, <1>3, <1>4, <1>5, <1>7, <1>8, <1>9 DEF Inv

(* A thread stops searching. *)
LEMMA InvSearchStops == ASSUME Inv, NEW t \in Threads, SearchStops(t) PROVE Inv'
<1>1. /\ pc[t] = "search" /\ EndShare(t)
      /\ UNCHANGED <<tree, numThreads, numThreadsSpawned, threadTasks, todo, task, pushed, stack, calls>>
  BY DEF SearchStops
<1>2. /\ pc[t] = task /\ task # "none"
      /\ pc' \in [Threads -> Jobs \cup {"idle", "wait"}] /\ threadTasksRemaining' \in Int
      /\ pc'[t] \notin Walks /\ \A u \in Threads \ {t} : pc'[u] = pc[u]
      /\ PoolInv'
  BY <1>1, ShareEnds DEF Jobs
<1>3. TypeCorrect'
  BY <1>1, <1>2 DEF Inv, TypeCorrect, tree
<1>4. StepsInv'
  BY <1>1 DEF Inv, StepsInv, tree, Next1
<1>5. HeapInv'
  BY <1>1, <1>3, TreeStays
<1>6. UNCHANGED <<rootNode, table, node, todo, task>>
  BY <1>1 DEF tree
<1>7. TreeInv'
  BY <1>2, <1>3, <1>6, TreeInvStays DEF Clearing, Pruning, Next1
<1>8. WalkInv'
  <2>1. \A u \in Threads : pc'[u] \notin Walks => stack'[u] = <<>>
    BY <1>1, <1>2 DEF Inv, WalkInv, Walks
  <2> QED BY <2>1, <1>1, <1>2 DEF Inv, WalkInv, Walks
<1>9. SweepInv'
  BY <1>1, <1>2 DEF SweepInv
<1> QED BY <1>2, <1>3, <1>4, <1>5, <1>7, <1>8, <1>9 DEF Inv

(* A thread deletes the nodes of its shards that are bad: a sweep, those that are not marked, none of which *)
(* are in the tree. *)
LEMMA InvDelete == ASSUME Inv, NEW t \in Threads, Delete(t) PROVE Inv'
<1>1. PICK bad : /\ bad = {n \in UNION {table[s] : s \in Share(t)} :
                             pc[t] = "clear" \/ node[n].nodeAge < searchNodeAge}
                 /\ table' = [s \in DOMAIN table |-> table[s] \ bad]
                 /\ live' = live \ bad
                 /\ node' = [n \in Nodes |-> IF n \in bad THEN Blank ELSE node[n]]
  BY DEF Delete
<1>2. /\ pc[t] \in {"sweep", "clear"} /\ EndShare(t)
      /\ UNCHANGED <<rootNode, searchNodeAge, numThreads, numThreadsSpawned, threadTasks>>
      /\ UNCHANGED <<todo, task, pushed, stack, calls>>
  BY DEF Delete
<1>3. /\ pc[t] = task /\ task # "none" /\ t \in 0..(numThreads - 1)
      /\ pc' \in [Threads -> Jobs \cup {"idle", "wait"}] /\ threadTasksRemaining' \in Int
      /\ pc'[t] \notin Walks /\ \A u \in Threads \ {t} : pc'[u] = pc[u]
      /\ PoolInv'
      /\ \A u \in 0..(numThreads - 1) : ShareDone(u)' => ShareDone(u) \/ u = t
  BY <1>2, ShareEnds DEF Jobs
<1>4. /\ DOMAIN table = 0..(numShards - 1) /\ Share(t) \subseteq 0..(numShards - 1)
      /\ numThreads \in Nat \ {0}
  BY <1>3, SharesCover, ReuseAssumption DEF Inv, TypeCorrect
<1>5. bad \subseteq TableNodes /\ TableNodes \subseteq Nodes
  BY <1>1, <1>4 DEF Inv, TypeCorrect, TableNodes
<1>6. TableNodes' = TableNodes \ bad
  BY <1>1 DEF TableNodes
<1>7. Blank \in NodeRecords /\ Blank.nodeAge = 0 /\ Blank.children = <<>>
  BY DEF Blank, NodeRecords
<1>8. /\ node' \in [Nodes -> NodeRecords]
      /\ \A n \in Nodes : node'[n] = IF n \in bad THEN Blank ELSE node[n]
  BY <1>1, <1>7 DEF Inv, TypeCorrect
<1>9. TypeCorrect'
  BY <1>1, <1>2, <1>3, <1>4, <1>8 DEF Inv, TypeCorrect
<1>10. StepsInv'
  BY <1>2 DEF Inv, StepsInv, Next1
<1>11. HeapInv'
  <2>1. \A n \in Nodes : node'[n].nodeAge <= searchNodeAge'
    <3>1. Blank.nodeAge <= searchNodeAge /\ \A n \in Nodes : node[n].nodeAge <= searchNodeAge
      BY <1>7 DEF Inv, HeapInv, TypeCorrect
    <3> QED BY <3>1, <1>2, <1>8
  <2>2. \A n \in Nodes \ TableNodes' : n # rootNode' => node'[n] = Blank
    BY <1>2, <1>6, <1>8 DEF Inv, HeapInv
  <2> QED BY <2>1, <2>2, <1>1, <1>2, <1>5, <1>6 DEF Inv, HeapInv
<1>12. ASSUME task = "sweep"
       PROVE  /\ ~Clearing /\ Tree' = Tree /\ bad \cap Tree = {}
              /\ \A n \in Tree : Children(n)' = Children(n)
              /\ Acyclic(Kids')
  <2>1. ~Clearing
    BY <1>12 DEF Inv, StepsInv, After, Clearing
  <2>2. \A n \in Tree : Marked(n)
    BY <1>12 DEF Inv, SweepInv
  <2>3. bad \cap Tree = {}
    BY <2>2, <1>1, <1>3, <1>12 DEF Marked, Inv, TypeCorrect
  <2>4. /\ Kids \in Graph /\ Kids' \in Graph
        /\ \A n \in Nodes : Kids[n] = Children(n) /\ Kids'[n] = Children(n)'
    BY <1>9, KidsAre, KidsAreNext DEF Inv
  <2>5. \A n \in Nodes : Children(n)' = IF n \in bad THEN {} ELSE Children(n)
    BY <1>7, <1>8 DEF Children, ToSet
  <2>6. \A n \in Tree : Kids'[n] = Kids[n]
    BY <2>3, <2>4, <2>5, TreeClosed DEF Inv
  <2>7. Tree' = Tree
    <3>1. CASE rootNode = NULL
      BY <3>1, <1>2, <1>9, ReachableIs, ReachableIsNext DEF Inv
    <3>2. CASE rootNode # NULL
      <4>1. Tree = Reach(Kids, {rootNode}) /\ Tree' = Reach(Kids', {rootNode}) /\ rootNode \in Nodes
        BY <3>2, <1>2, <1>9, ReachableIs, ReachableIsNext DEF Inv
      <4> QED BY <4>1, <2>4, <2>6, ReachAgrees
    <3> QED BY <3>1, <3>2
  <2>8. Acyclic(Kids')
    <3>1. \A n \in Nodes : Kids'[n] \subseteq Kids[n]
      BY <2>4, <2>5
    <3> QED BY <3>1, <2>1, <2>4, FewerEdges DEF Inv, TreeInv
  <2> QED BY <2>1, <2>3, <2>4, <2>6, <2>7, <2>8, TreeClosed DEF Inv
<1>13. TreeInv'
  <2>1. CASE task = "clear"
    <3>1. Clearing
      BY <2>1 DEF Inv, StepsInv, After, Clearing
    <3> QED BY <3>1, <2>1, <1>2 DEF TreeInv, Clearing, Next1
  <2>2. CASE task = "sweep"
    <3>1. \A n \in Tree : Children(n) \subseteq TableNodes /\ Children(n) \subseteq Tree
      BY <2>2, <1>12, TreeClosed DEF Inv, TreeInv
    <3>2. \A n \in Tree' : Children(n)' \subseteq TableNodes'
      BY <3>1, <2>2, <1>6, <1>12
    <3> QED BY <3>2, <2>2, <1>2, <1>12 DEF TreeInv, Pruning
  <2> QED BY <2>1, <2>2, <1>2, <1>3
<1>14. WalkInv'
  <2>1. \A u \in Threads : pc'[u] \notin Walks => stack'[u] = <<>>
    BY <1>2, <1>3 DEF Inv, WalkInv, Walks
  <2> QED BY <2>1, <1>2, <1>3 DEF Inv, WalkInv, Walks
<1>15. SweepInv'
  <2>1. ASSUME task = "sweep"
        PROVE  (\A n \in Tree' : Marked(n)') /\ \A n \in TableNodes' : Marked(n)' => n \in Tree'
    <3>1. (\A n \in Tree : Marked(n)) /\ \A n \in TableNodes : Marked(n) => n \in Tree
      BY <2>1 DEF Inv, SweepInv
    <3>2. \A n \in Nodes \ bad : Marked(n)' <=> Marked(n)
      BY <1>2, <1>8 DEF Marked
    <3>3. Tree \subseteq Nodes
      BY TreeClosed DEF Inv
    <3> QED BY <3>1, <3>2, <3>3, <2>1, <1>5, <1>6, <1>12
  <2>2. ASSUME NEW u \in 0..(numThreads - 1), ShareDone(u)', NEW s \in Share(u), NEW n \in table'[s]
        PROVE  task = "sweep" /\ Marked(n)'
    <3>1. s \in DOMAIN table /\ n \in table[s] /\ n \notin bad /\ n \in Nodes
      BY <2>2, <1>1, <1>4, SharesCover DEF Inv, TypeCorrect
    <3>2. Marked(n)' <=> Marked(n)
      BY <3>1, <1>2, <1>8 DEF Marked
    <3>3. CASE u = t
      <4>1. pc[t] # "clear" /\ ~(node[n].nodeAge < searchNodeAge)
        BY <3>1, <3>3, <2>2, <1>1
      <4>2. node[n].nodeAge <= searchNodeAge /\ node[n].nodeAge \in Nat /\ searchNodeAge \in Nat
        BY <3>1 DEF Inv, HeapInv, TypeCorrect, NodeRecords
      <4> QED BY <4>1, <4>2, <3>2, <1>2, <1>3 DEF Marked
    <3>4. CASE u # t
      <4>1. ShareDone(u)
        BY <3>4, <2>2, <1>3
      <4> QED BY <4>1, <3>1, <3>2, <2>2, <1>2, <1>3 DEF Inv, SweepInv
    <3> QED BY <3>3, <3>4
  <2>3. \A u : Share(u)' = Share(u)
    BY <1>2 DEF Share
  <2> QED BY <2>1, <2>2, <2>3, <1>2, <1>3 DEF SweepInv
<1> QED BY <1>3, <1>9, <1>10, <1>11, <1>13, <1>14, <1>15 DEF Inv

-------------------------------------------------------------------------------
(* The walks. *)

(* A frame of a walk is a node of the tree and the numbers of some of its children. *)
LEMMA FrameIs ==
  ASSUME Inv, NEW t \in Threads, pc[t] \in Walks, stack[t] # <<>>
  PROVE  /\ task \in Walks /\ StackInv(t) /\ DoneInv
         /\ stack[t] \in Seq(Frames) /\ Len(stack[t]) \in Nat \ {0}
         /\ Top(t) = stack[t][Len(stack[t])]
         /\ Front(stack[t]) \in Seq(Frames) /\ Len(Front(stack[t])) = Len(stack[t]) - 1
         /\ \A i \in 1..(Len(stack[t]) - 1) : Front(stack[t])[i] = stack[t][i]
         /\ Top(t) \in Frames /\ Top(t).node \in Tree /\ Top(t).rest \subseteq DOMAIN node[Top(t).node].children
         /\ ~Clearing /\ rootNode \in Nodes
<1>1. pc[t] = task
  <2>1. CASE t = 0
    BY <2>1 DEF Inv, PoolInv, Walks
  <2>2. CASE t # 0
    <3>1. t \in Busy
      BY <2>2 DEF Busy, Helpers, Walks
    <3> QED BY <3>1 DEF Inv, PoolInv, HasTask, Walks
  <2> QED BY <2>1, <2>2
<1>2. task \in Walks /\ StackInv(t) /\ DoneInv
  BY <1>1 DEF Inv, WalkInv
<1>3. stack[t] \in Seq(Frames) /\ Len(stack[t]) \in Nat \ {0}
  BY LenProperties, EmptySeq DEF Inv, TypeCorrect
<1>4. Top(t) = stack[t][Len(stack[t])] /\ Top(t) \in Frames
  BY <1>3, ElementOfSeq DEF Top, Last
<1>5. /\ Front(stack[t]) \in Seq(Frames) /\ Len(Front(stack[t])) = Len(stack[t]) - 1
      /\ \A i \in 1..(Len(stack[t]) - 1) : Front(stack[t])[i] = stack[t][i]
  BY <1>3, SubSeqProperties DEF Front
<1>6. FrameInv(t, Len(stack[t]))
  BY <1>2, <1>3 DEF StackInv
<1>7. Top(t).node \in Tree /\ Top(t).rest \subseteq DOMAIN node[Top(t).node].children
  BY <1>4, <1>6 DEF FrameInv
<1>8. ~Clearing /\ rootNode \in Nodes
  BY <1>2 DEF Inv, StepsInv, TypeCorrect, Clearing, After, Walks
<1> QED BY <1>2, <1>3, <1>4, <1>5, <1>7, <1>8

(* A child is further down than everything on the stack, so it is not on it. *)
LEMMA ChildIsBelow ==
  ASSUME Inv, NEW t \in Threads, pc[t] \in Walks, stack[t] # <<>>, NEW c \in Children(Top(t).node)
  PROVE  /\ c \in Tree /\ \A i \in 1..Len(stack[t]) : c \in Reachable(Children(stack[t][i].node))
         /\ ~OnStack(t, c)
<1> DEFINE L == Len(stack[t])
           m == Top(t).node
<1>1. /\ StackInv(t) /\ stack[t] \in Seq(Frames) /\ L \in Nat \ {0}
      /\ Top(t) = stack[t][L] /\ m \in Tree /\ ~Clearing
  BY FrameIs
<1>2. Kids \in Graph /\ Acyclic(Kids) /\ \A n \in Nodes : Kids[n] = Children(n)
  BY <1>1, KidsAre DEF Inv, TreeInv
<1>3. Tree \subseteq Nodes /\ c \in Tree
  BY <1>1, TreeClosed DEF Inv
<1>4. \A n \in Nodes : Children(n) \in SUBSET Nodes /\ Reachable(Children(n)) = Reach(Kids, Kids[n])
  BY <1>2, ReachableIs DEF Graph, Inv
<1>5. ASSUME NEW i \in 1..L PROVE c \in Reach(Kids, Kids[stack[t][i].node]) /\ stack[t][i].node \in Nodes
  <2>1. FrameInv(t, i) /\ stack[t][i].node \in Nodes
    BY <1>1, <1>3 DEF StackInv, FrameInv
  <2> DEFINE n == stack[t][i].node
  <2>2. Kids[n] \in SUBSET Nodes /\ c \in Kids[m]
    BY <2>1, <1>1, <1>2, <1>3, <1>4
  <2>3. CASE i = L
    <3>1. c \in Kids[n]
      BY <2>2, <2>3, <1>1
    <3>2. \A x \in Nodes : Kids[x] \subseteq Reach(Kids, Kids[x])
      BY <1>2, <1>4, ReachLeast
    <3> QED BY <2>1, <3>1, <3>2
  <2>4. CASE i # L
    <3>1. m \in Reach(Kids, Kids[n])
      BY <2>1, <2>4, <1>1, <1>4 DEF FrameInv
    <3>2. Closed(Kids, Reach(Kids, Kids[n]))
      BY <2>2, <1>2, ReachLeast
    <3> QED BY <3>1, <3>2, <2>1, <2>2 DEF Closed
  <2> QED BY <2>1, <2>3, <2>4
<1>6. ~OnStack(t, c)
  <2> SUFFICES ASSUME NEW i \in 1..L, stack[t][i].node = c PROVE FALSE
    BY <1>1 DEF OnStack
  <2> QED BY <1>2, <1>5 DEF Acyclic
<1> QED BY <1>3, <1>4, <1>5, <1>6

(* A thread takes a child off the list, and goes down to it if it has not been done. *)
LEMMA InvVisitChild == ASSUME Inv, NEW t \in Threads, VisitChild(t) PROVE Inv'
<1> DEFINE m == Top(t).node
<1>1. /\ pc[t] \in Walks /\ stack[t] # <<>>
      /\ UNCHANGED <<tree, numThreads, numThreadsSpawned, threadTasks, threadTasksRemaining>>
      /\ UNCHANGED <<todo, task, pushed, pc, calls>>
  BY DEF VisitChild, pool
<1>0. PICK L \in Nat \ {0} : L = Len(stack[t])
  BY <1>1, FrameIs
<1>2. /\ task \in Walks /\ StackInv(t) /\ DoneInv
      /\ stack[t] \in Seq(Frames) /\ L = Len(stack[t])
      /\ Top(t) = stack[t][L]
      /\ Front(stack[t]) \in Seq(Frames) /\ Len(Front(stack[t])) = L - 1
      /\ \A j \in 1..(L - 1) : Front(stack[t])[j] = stack[t][j]
      /\ Top(t) \in Frames /\ m \in Tree /\ Top(t).rest \subseteq DOMAIN node[m].children
  BY <1>0, <1>1, FrameIs
<1>3. m \in Nodes /\ node[m].children \in Seq(Nodes) /\ Tree \subseteq Nodes
  BY <1>2, TreeClosed DEF Inv, TypeCorrect, NodeRecords
<1>4. PICK i \in Top(t).rest :
        LET left == Append(Front(stack[t]), [Top(t) EXCEPT !.rest = @ \ {i}])
            child == node[m].children[i]
        IN  stack' = [stack EXCEPT ![t] =
                        IF node[child].nodeAge = searchNodeAge \/ OnStack(t, child) THEN left
                        ELSE Append(left, FrameAt(child))]
  BY DEF VisitChild, NextChildren
<1> DEFINE child == node[m].children[i]
           top == [Top(t) EXCEPT !.rest = @ \ {i}]
           left == Append(Front(stack[t]), top)
           s == IF Marked(child) THEN left ELSE Append(left, FrameAt(child))
<1>5. child \in Children(m) /\ i \in DOMAIN node[m].children
  BY <1>2, <1>3 DEF Children, ToSet
<1>6. /\ child \in Tree /\ \A j \in 1..L : child \in Reachable(Children(stack[t][j].node))
      /\ ~OnStack(t, child)
  BY <1>0, <1>1, <1>5, ChildIsBelow
<1>7. stack' = [stack EXCEPT ![t] = s]
  BY <1>4, <1>6 DEF Marked
<1>8. top \in Frames /\ top.node = m /\ top.rest = Top(t).rest \ {i}
  BY <1>2 DEF Frames
<1>9. FrameAt(child) \in Frames /\ FrameAt(child).node = child
      /\ FrameAt(child).rest = DOMAIN node[child].children
  <2>1. child \in Nodes /\ node[child].children \in Seq(Nodes)
    BY <1>3, <1>6 DEF Inv, TypeCorrect, NodeRecords
  <2>2. DOMAIN node[child].children \in SUBSET Nat
    BY <2>1
  <2> QED BY <2>1, <2>2 DEF FrameAt, Frames
<1> HIDE DEF top, child
<1>10. left \in Seq(Frames) /\ Len(left) = L /\ left[L] = top /\ \A j \in 1..(L - 1) : left[j] = stack[t][j]
  BY <1>2, <1>8
<1> HIDE DEF left
<1>11. /\ s \in Seq(Frames) /\ \A j \in 1..L : s[j] = left[j]
       /\ IF Marked(child) THEN Len(s) = L ELSE Len(s) = L + 1 /\ s[L + 1] = FrameAt(child)
  BY <1>2, <1>9, <1>10
<1> HIDE DEF s
<1>21. (\A j \in 1..L : s[j].node = stack[t][j].node) /\ \A j \in 1..(L - 1) : s[j] = stack[t][j]
  <2>1. s[L].node = stack[t][L].node
    BY <1>2, <1>8, <1>10, <1>11
  <2>2. \A j \in 1..(L - 1) : s[j] = stack[t][j]
    BY <1>10, <1>11
  <2> QED BY <2>1, <2>2
<1>12. stack' \in [Threads -> Seq(Frames)] /\ stack'[t] = s /\ \A u \in Threads \ {t} : stack'[u] = stack[u]
  BY <1>7, <1>11 DEF Inv, TypeCorrect
<1>13. TypeCorrect'
  BY <1>1, <1>12 DEF Inv, TypeCorrect, tree
<1>14. /\ HeapInv' /\ Tree' = Tree /\ TableNodes' = TableNodes
       /\ \A n : Marked(n)' <=> Marked(n)
       /\ \A n \in Nodes : Children(n)' = Children(n)
       /\ DoneInv'
       /\ \A u \in Threads : StackInv(u) /\ stack'[u] = stack[u] => StackInv(u)'
       /\ \A n \in Nodes : Reachable(Children(n))' = Reachable(Children(n))
       /\ node' = node
  <2>1. \A n \in Nodes : Children(n)' = Children(n) /\ Children(n) \in SUBSET Nodes
    BY <1>1, <1>13, TreeStays, KidsAre DEF Graph, Inv
  <2>2. \A from \in SUBSET Nodes : Reachable(from)' = Reachable(from)
    BY <1>1, <1>13, SameGraph DEF Inv, tree
  <2> QED BY <2>1, <2>2, <1>1, <1>2, <1>13, TreeStays DEF tree
<1>15. StackInv(t)'
  <2>1. s # <<>> /\ s[1].node = rootNode
    <3>1. s[1].node = stack[t][1].node
      BY <1>21
    <3> QED BY <3>1, <1>1, <1>2, <1>11 DEF StackInv
  <2>2. ASSUME NEW j \in 1..(L - 1) PROVE FrameInv(t, j)'
    <3>1. FrameInv(t, j) /\ s[j] = stack[t][j] /\ s[j + 1].node = stack[t][j + 1].node /\ j \in Nat
      BY <1>2, <1>21 DEF StackInv
    <3> DEFINE n == stack[t][j].node
    <3>2. n \in Tree /\ n \in Nodes
      BY <3>1, <1>3 DEF FrameInv
    <3>3. \A k \in (j + 1)..Len(s) : s[k].node \in Reachable(Children(n))
      <4> SUFFICES ASSUME NEW k \in (j + 1)..Len(s) PROVE s[k].node \in Reachable(Children(n))
        OBVIOUS
      <4>1. CASE k <= L
        <5>1. s[k].node = stack[t][k].node /\ k \in (j + 1)..L
          BY <4>1, <3>1, <1>21
        <5> QED BY <5>1, <3>1, <1>2 DEF FrameInv
      <4>2. CASE k > L
        <5>1. s[k].node = child
          BY <4>2, <1>2, <1>9, <1>11
        <5> QED BY <5>1, <1>6
      <4> QED BY <4>1, <4>2, <1>2
    <3>4. \A k \in DOMAIN node[n].children \ s[j].rest :
            \/ Marked(node[n].children[k])
            \/ j < Len(s) /\ node[n].children[k] = s[j + 1].node
      BY <3>1, <1>2, <1>11 DEF FrameInv
    <3>5. s[j].node = n /\ s[j].rest \subseteq DOMAIN node[n].children
      BY <3>1 DEF FrameInv
    <3> HIDE DEF n
    <3> QED BY <3>2, <3>3, <3>4, <3>5, <1>12, <1>14 DEF FrameInv
  <2>3. FrameInv(t, L)'
    <3>1. FrameInv(t, L) /\ s[L].node = m /\ s[L].rest = Top(t).rest \ {i}
      BY <1>2, <1>8, <1>10, <1>11 DEF StackInv
    <3>2. \A k \in (L + 1)..Len(s) : s[k].node \in Reachable(Children(m))
      BY <1>2, <1>6, <1>9, <1>11
    <3>3. \A k \in DOMAIN node[m].children \ s[L].rest :
            \/ Marked(node[m].children[k])
            \/ L < Len(s) /\ node[m].children[k] = s[L + 1].node
      <4> SUFFICES ASSUME NEW k \in DOMAIN node[m].children \ s[L].rest
                   PROVE  \/ Marked(node[m].children[k])
                          \/ L < Len(s) /\ node[m].children[k] = s[L + 1].node
        OBVIOUS
      <4>1. CASE k = i
        <5>1. child = node[m].children[k]
          BY <4>1 DEF child
        <5>2. CASE Marked(child)
          BY ONLY <5>1, <5>2
        <5>3. CASE ~Marked(child)
          <6>1. L < Len(s) /\ s[L + 1].node = child
            BY <5>3, <1>2, <1>9, <1>11
          <6> QED BY ONLY <5>1, <6>1
        <5> QED BY <5>2, <5>3
      <4>2. CASE k # i
        BY <4>2, <3>1, <1>2 DEF FrameInv
      <4> QED BY <4>1, <4>2
    <3>4. s[L].rest \subseteq DOMAIN node[m].children
      BY <3>1, <1>2
    <3> HIDE DEF m
    <3> QED BY <3>1, <3>2, <3>3, <3>4, <1>2, <1>3, <1>12, <1>14 DEF FrameInv
  <2>4. ASSUME ~Marked(child) PROVE FrameInv(t, L + 1)'
    <3>1. Len(s) = L + 1 /\ s[L + 1].node = child /\ s[L + 1].rest = DOMAIN node[child].children
      BY <2>4, <1>9, <1>11
    <3>2. \A k \in (L + 1 + 1)..Len(s) : FALSE
      BY <3>1, <1>2
    <3> HIDE DEF m
    <3> QED BY <3>1, <3>2, <1>6, <1>12, <1>14 DEF FrameInv
  <2>5. \A j \in 1..Len(s) : FrameInv(t, j)'
    BY <2>2, <2>3, <2>4, <1>2, <1>11
  <2> QED BY <2>1, <2>5, <1>1, <1>12 DEF StackInv, tree
<1>16. StepsInv'
  BY <1>1 DEF Inv, StepsInv, tree, Next1
<1>17. PoolInv'
  BY <1>1, PoolInvStays DEF Inv
<1>18. TreeInv'
  <2>1. UNCHANGED <<rootNode, table, node, todo, task>>
    BY <1>1 DEF tree
  <2> QED BY <2>1, <1>2, <1>13, TreeInvStays DEF Clearing, Pruning, Next1, Walks
<1>19. WalkInv'
  <2>1. \A u \in Threads : pc'[u] \notin Walks => stack'[u] = <<>>
    BY <1>1, <1>12 DEF Inv, WalkInv
  <2>2. \A u \in Threads : pc'[u] \in Walks => StackInv(u)'
    BY <1>1, <1>2, <1>12, <1>14, <1>15 DEF Inv, WalkInv
  <2>3. pc'[0] = "wait" => Marked(rootNode)'
    BY <1>1, <1>2 DEF Inv, WalkInv, Marked, tree
  <2> QED BY <2>1, <2>2, <2>3, <1>1, <1>2, <1>14 DEF WalkInv
<1>20. SweepInv'
  BY <1>1, <1>2 DEF SweepInv, Walks
<1> QED BY <1>13, <1>14, <1>16, <1>17, <1>18, <1>19, <1>20 DEF Inv

(* Unless a clearing is on its way, the tree is in the table, but for its root. *)
LEMMA TreeInTable ==
  ASSUME Inv, ~Clearing PROVE Tree \subseteq TableNodes \cup {rootNode}
<1>1. CASE rootNode = NULL
  BY <1>1 DEF Tree
<1>2. CASE rootNode # NULL
  <2> DEFINE S == Tree \cap (TableNodes \cup {rootNode})
  <2>1. S \in SUBSET Nodes /\ rootNode \in S
    BY <1>2, TreeClosed DEF Inv
  <2>2. Closed(Kids, S)
    <3>1. \A n \in Nodes : Kids[n] = Children(n)
      BY KidsAre DEF Inv
    <3>2. \A n \in Tree : n \in Nodes /\ Children(n) \subseteq Tree /\ Children(n) \subseteq TableNodes
      BY TreeClosed DEF Inv, TreeInv
    <3> QED BY <3>1, <3>2 DEF Closed
  <2> HIDE DEF S
  <2>3. Tree \subseteq S
    BY <2>1, <2>2, TreeClosed DEF Inv
  <2> QED BY <2>3 DEF S
<1> QED BY <1>1, <1>2

(* A thread has done all children of a node: the first to do so marks it. *)
LEMMA InvLeaveNode == ASSUME Inv, NEW t \in Threads, LeaveNode(t) PROVE Inv'
<1>1. /\ pc[t] \in Walks /\ stack[t] # <<>> /\ Top(t).rest = {}
      /\ stack' = [stack EXCEPT ![t] = Front(@)]
      /\ node' = [node EXCEPT ![Top(t).node].nodeAge = searchNodeAge]
      /\ calls' = [calls EXCEPT ![Top(t).node] =
                     @ + (IF node[Top(t).node].nodeAge = searchNodeAge THEN 0 ELSE 1)]
      /\ UNCHANGED <<rootNode, live, table, searchNodeAge>>
      /\ UNCHANGED <<numThreads, numThreadsSpawned, threadTasks, threadTasksRemaining>>
      /\ UNCHANGED <<todo, task, pushed, pc>>
  BY DEF LeaveNode, pool
<1>0. PICK L \in Nat \ {0} : L = Len(stack[t])
  BY <1>1, FrameIs
<1>2. PICK f \in Seq(Frames) : f = Front(stack[t])
  BY <1>1, FrameIs
<1>3. /\ task \in Walks /\ StackInv(t) /\ DoneInv
      /\ L = Len(stack[t]) /\ Top(t) = stack[t][L]
      /\ Len(f) = L - 1 /\ \A j \in 1..(L - 1) : f[j] = stack[t][j]
      /\ Top(t).node \in Tree /\ ~Clearing /\ rootNode \in Nodes
  BY <1>0, <1>1, <1>2, FrameIs
<1>4. PICK m \in Tree : m = Top(t).node
  BY <1>3
<1>5. Tree \in SUBSET Nodes /\ m \in Nodes /\ \A n \in Tree : Children(n) \subseteq Tree
  BY <1>4, TreeClosed DEF Inv
<1>6. /\ \A n \in Nodes : node'[n].children = node[n].children
      /\ node'[m].nodeAge = searchNodeAge /\ \A n \in Nodes \ {m} : node'[n] = node[n]
      /\ node' \in [Nodes -> NodeRecords]
  <2>1. searchNodeAge \in Nat /\ node[m] \in NodeRecords
    BY <1>5 DEF Inv, TypeCorrect
  <2>2. node' = [node EXCEPT ![m] = [@ EXCEPT !.nodeAge = searchNodeAge]]
    BY <1>1, <1>4
  <2>3. [node[m] EXCEPT !.nodeAge = searchNodeAge] \in NodeRecords
        /\ [node[m] EXCEPT !.nodeAge = searchNodeAge].children = node[m].children
        /\ [node[m] EXCEPT !.nodeAge = searchNodeAge].nodeAge = searchNodeAge
    BY <2>1 DEF NodeRecords
  <2> QED BY <2>2, <2>3, <1>5 DEF Inv, TypeCorrect
<1>7. stack' \in [Threads -> Seq(Frames)] /\ stack'[t] = f /\ \A u \in Threads \ {t} : stack'[u] = stack[u]
  BY <1>1, <1>2 DEF Inv, TypeCorrect
<1>8. /\ calls' \in [Nodes -> Nat] /\ calls'[m] = calls[m] + (IF Marked(m) THEN 0 ELSE 1)
      /\ \A n \in Nodes \ {m} : calls'[n] = calls[n]
  BY <1>1, <1>4, <1>5 DEF Inv, TypeCorrect, Marked
<1>9. TypeCorrect'
  BY <1>1, <1>6, <1>7, <1>8 DEF Inv, TypeCorrect
<1>10. /\ Tree' = Tree /\ TableNodes' = TableNodes /\ \A n \in Nodes : Children(n)' = Children(n)
       /\ \A n \in Nodes : Reachable(Children(n))' = Reachable(Children(n))
       /\ \A n \in Nodes : Marked(n)' <=> Marked(n) \/ n = m
  <2>1. \A n \in Nodes : Children(n) \in SUBSET Nodes
    BY KidsAre DEF Inv, Graph
  <2>2. /\ Tree' = Tree /\ \A n \in Nodes : Children(n)' = Children(n)
        /\ \A from \in SUBSET Nodes : Reachable(from)' = Reachable(from)
    BY <1>1, <1>6, <1>9, SameGraph DEF Inv
  <2>3. \A n \in Nodes : Marked(n)' <=> Marked(n) \/ n = m
    BY <1>1, <1>6 DEF Marked
  <2> QED BY <2>1, <2>2, <2>3, <1>1 DEF TableNodes
<1>11. StepsInv'
  BY <1>1 DEF Inv, StepsInv, Next1
<1>12. PoolInv'
  BY <1>1, PoolInvStays DEF Inv
<1>13. HeapInv'
  <2>1. m \in TableNodes \cup {rootNode}
    BY <1>3, TreeInTable
  <2>2. \A n \in Nodes \ TableNodes' : n # rootNode' => node'[n] = Blank
    BY <2>1, <1>1, <1>6, <1>10 DEF Inv, HeapInv
  <2>3. \A n \in Nodes : node'[n].nodeAge <= searchNodeAge'
    BY <1>1, <1>6 DEF Inv, HeapInv, TypeCorrect
  <2> QED BY <2>2, <2>3, <1>1, <1>10 DEF Inv, HeapInv
<1>14. TreeInv'
  BY <1>1, <1>3, <1>6, <1>9, TreeInvStays DEF Clearing, Pruning, Next1, Walks
<1>15. FrameInv(t, L)
  BY <1>3 DEF StackInv
<1>16. \A c \in Children(m) : Marked(c)
  BY <1>1, <1>3, <1>4, <1>15 DEF FrameInv, Children, ToSet
<1>17. DoneInv'
  <2>1. ASSUME NEW n \in Tree
        PROVE  IF Marked(n)' THEN calls'[n] = 1 /\ \A c \in Children(n)' : Marked(c)' ELSE calls'[n] = 0
    <3>1. /\ n \in Nodes /\ Children(n)' = Children(n)
          /\ \A c \in Children(n) : c \in Nodes /\ (Marked(c) => Marked(c)')
      BY <1>5, <1>10
    <3>2. IF Marked(n) THEN calls[n] = 1 /\ \A c \in Children(n) : Marked(c) ELSE calls[n] = 0
      BY <1>3 DEF DoneInv
    <3>3. CASE n = m
      BY <3>1, <3>2, <3>3, <1>8, <1>10, <1>16
    <3>4. CASE n # m
      BY <3>1, <3>2, <3>4, <1>8, <1>10
    <3> QED BY <3>3, <3>4
  <2>2. \A n \in TableNodes' : Marked(n)' => n \in Tree'
    <3>1. \A n \in TableNodes : n \in Nodes /\ (Marked(n) => n \in Tree)
      BY <1>3 DEF DoneInv, Inv, TypeCorrect, TableNodes
    <3> QED BY <3>1, <1>10
  <2> QED BY <2>1, <2>2, <1>10 DEF DoneInv
<1>18. ASSUME NEW u \in Threads, u # t, pc[u] \in Walks PROVE StackInv(u)'
  <2>1. StackInv(u) /\ stack'[u] = stack[u]
    BY <1>3, <1>7, <1>18 DEF Inv, WalkInv
  <2>2. ASSUME NEW j \in 1..Len(stack[u]) PROVE FrameInv(u, j)'
    <3>1. FrameInv(u, j) /\ stack[u][j].node \in Tree
      BY <2>1 DEF StackInv, FrameInv
    <3>2. PICK n \in Nodes : n = stack[u][j].node
      BY <3>1, <1>5
    <3>3. \A k \in DOMAIN node[n].children :
            /\ node'[n].children[k] = node[n].children[k]
            /\ Marked(node[n].children[k]) =>
                 node'[node'[n].children[k]].nodeAge = searchNodeAge'
      <4>1. \A k \in DOMAIN node[n].children : node[n].children[k] \in Nodes
        BY DEF Inv, TypeCorrect, NodeRecords
      <4> QED BY <4>1, <1>1, <1>6 DEF Marked
    <3>4. \A k \in DOMAIN node'[n].children \ stack'[u][j].rest :
            \/ node'[node'[n].children[k]].nodeAge = searchNodeAge'
            \/ j < Len(stack'[u]) /\ node'[n].children[k] = stack'[u][j + 1].node
      BY <3>1, <3>2, <3>3, <2>1, <1>6 DEF FrameInv
    <3>5. \A k \in (j + 1)..Len(stack'[u]) : stack'[u][k].node \in Reachable(Children(n))'
      BY <3>1, <3>2, <2>1, <1>10 DEF FrameInv
    <3>6. n = stack'[u][j].node /\ n \in Tree' /\ stack'[u][j].rest \subseteq DOMAIN node'[n].children
      BY <3>1, <3>2, <2>1, <1>6, <1>10 DEF FrameInv
    <3> QED BY <3>4, <3>5, <3>6 DEF FrameInv, Marked
  <2>3. IF stack'[u] = <<>> THEN Marked(rootNode)' ELSE stack'[u][1].node = rootNode'
    BY <2>1, <1>1, <1>3, <1>6 DEF StackInv, Marked
  <2> QED BY <2>1, <2>2, <2>3 DEF StackInv
<1>19. StackInv(t)'
  <2>1. IF f = <<>> THEN Marked(rootNode)' ELSE f[1].node = rootNode'
    <3>1. CASE L = 1
      BY <3>1, <1>1, <1>3, <1>4, <1>6 DEF StackInv, Marked
    <3>2. CASE L # 1
      <4>1. 1 \in 1..(L - 1) /\ f # <<>>
        <5>1. 1 \in 1..(L - 1) /\ L - 1 # 0
          BY <3>2
        <5>2. Len(f) = L - 1
          BY <1>3
        <5>3. f # <<>>
          BY <5>1, <5>2
        <5> QED BY <5>1, <5>3
      <4>2. f[1] = stack[t][1] /\ stack[t][1].node = rootNode
        BY <4>1, <1>1, <1>3 DEF StackInv
      <4> QED BY <4>1, <4>2, <1>1
    <3> QED BY <3>1, <3>2
  <2>2. ASSUME NEW j \in 1..(L - 1) PROVE FrameInv(t, j)'
    <3>1. FrameInv(t, j) /\ f[j] = stack[t][j] /\ stack[t][j].node \in Tree /\ j \in Nat
      BY <1>3 DEF StackInv, FrameInv
    <3>2. PICK n \in Nodes : n = stack[t][j].node
      BY <3>1, <1>5
    <3>3. ASSUME NEW k \in DOMAIN node[n].children \ f[j].rest
          PROVE  \/ node'[node[n].children[k]].nodeAge = searchNodeAge'
                 \/ j < Len(f) /\ node[n].children[k] = f[j + 1].node
      <4> DEFINE c == node[n].children[k]
      <4>1. c \in Nodes
        BY DEF Inv, TypeCorrect, NodeRecords
      <4>2. Marked(c) \/ c = stack[t][j + 1].node
        BY <3>1, <3>2 DEF FrameInv
      <4>3. CASE Marked(c)
        BY <4>1, <4>3, <1>1, <1>6 DEF Marked
      <4>4. CASE c = stack[t][j + 1].node /\ j + 1 = L
        BY <4>4, <1>1, <1>3, <1>4, <1>6
      <4>5. CASE c = stack[t][j + 1].node /\ j + 1 # L
        BY <4>5, <3>1, <1>3
      <4> QED BY <4>2, <4>3, <4>4, <4>5
    <3>4. \A k \in DOMAIN node'[n].children \ stack'[t][j].rest :
            \/ node'[node'[n].children[k]].nodeAge = searchNodeAge'
            \/ j < Len(stack'[t]) /\ node'[n].children[k] = stack'[t][j + 1].node
      BY <3>3, <1>6, <1>7
    <3>5. \A k \in (j + 1)..Len(stack'[t]) : stack'[t][k].node \in Reachable(Children(n))'
      <4>1. \A k \in (j + 1)..L : stack[t][k].node \in Reachable(Children(n))
        BY <3>1, <3>2, <1>3 DEF FrameInv
      <4>2. \A k \in (j + 1)..(L - 1) : f[k] = stack[t][k] /\ k \in (j + 1)..L
        BY <3>1, <1>3
      <4> QED BY <4>1, <4>2, <1>3, <1>7, <1>10
    <3>6. n = stack'[t][j].node /\ n \in Tree' /\ stack'[t][j].rest \subseteq DOMAIN node'[n].children
      BY <3>1, <3>2, <1>6, <1>7, <1>10 DEF FrameInv
    <3> QED BY <3>4, <3>5, <3>6 DEF FrameInv, Marked
  <2> QED BY <2>1, <2>2, <1>3, <1>7 DEF StackInv
<1>20. WalkInv'
  <2>1. \A u \in Threads : pc'[u] \notin Walks => stack'[u] = <<>>
    BY <1>1, <1>7 DEF Inv, WalkInv
  <2>2. \A u \in Threads : pc'[u] \in Walks => StackInv(u)'
    BY <1>1, <1>18, <1>19
  <2>3. pc'[0] = "wait" => Marked(rootNode)'
    BY <1>1, <1>3, <1>6 DEF Inv, WalkInv, Marked
  <2> QED BY <2>1, <2>2, <2>3, <1>1, <1>3, <1>17 DEF WalkInv
<1>21. SweepInv'
  BY <1>1, <1>3 DEF SweepInv, Walks
<1> QED BY <1>9, <1>11, <1>12, <1>13, <1>14, <1>20, <1>21 DEF Inv

-------------------------------------------------------------------------------
(* The search. *)

(* Append adds one element. *)
LEMMA Appended ==
  ASSUME NEW S, NEW s \in Seq(S), NEW d \in S
  PROVE  ToSet(Append(s, d)) = ToSet(s) \cup {d}
<1> DEFINE a == Append(s, d)
<1>1. /\ Len(s) \in Nat /\ DOMAIN s = 1..Len(s) /\ DOMAIN a = 1..(Len(s) + 1)
      /\ a[Len(s) + 1] = d /\ \A i \in 1..Len(s) : a[i] = s[i]
  OBVIOUS
<1> HIDE DEF a
<1>2. ASSUME NEW x PROVE x \in ToSet(a) <=> x \in ToSet(s) \/ x = d
  <2>1. x \in ToSet(a) <=> \E i \in 1..(Len(s) + 1) : a[i] = x
    BY <1>1 DEF ToSet
  <2>2. x \in ToSet(s) <=> \E i \in 1..Len(s) : s[i] = x
    BY <1>1 DEF ToSet
  <2>3. \A i \in 1..(Len(s) + 1) : i \in 1..Len(s) \/ i = Len(s) + 1
    BY <1>1
  <2>4. Len(s) + 1 \in 1..(Len(s) + 1) /\ \A i \in 1..Len(s) : i \in 1..(Len(s) + 1)
    BY <1>1
  <2> QED BY <2>1, <2>2, <2>3, <2>4, <1>1
<1> QED BY <1>2 DEF a

(* While a thread searches, nobody does anything else to the tree. *)
LEMMA Searching ==
  ASSUME Inv, NEW t \in Threads, pc[t] = "search"
  PROVE  task = "search" /\ Next1 = "nothing" /\ ~Clearing /\ ~Pruning /\ rootNode # NULL
<1>1. task = "search"
  <2>1. CASE t = 0
    BY <2>1 DEF Inv, PoolInv
  <2>2. CASE t # 0
    <3>1. t \in Busy
      BY <2>2 DEF Busy, Helpers
    <3> QED BY <3>1 DEF Inv, PoolInv, HasTask
  <2> QED BY <2>1, <2>2
<1> QED BY <1>1 DEF Inv, StepsInv, After, Clearing, Pruning

(* A thread evaluates a node of the tree. *)
LEMMA InvEvaluate ==
  ASSUME Inv, NEW t \in Threads, NEW n \in Nodes, Evaluate(t, n) PROVE Inv'
<1>1. /\ pc[t] = "search" /\ n \in Tree
      /\ node' = [node EXCEPT ![n].nn = TRUE, ![n].nodeAge = searchNodeAge]
      /\ UNCHANGED <<rootNode, live, table, searchNodeAge>>
      /\ UNCHANGED <<numThreads, numThreadsSpawned, threadTasks, threadTasksRemaining>>
      /\ UNCHANGED <<todo, task, pushed, pc, stack, calls>>
  BY DEF Evaluate, pool
<1>2. task = "search" /\ Next1 = "nothing" /\ ~Clearing /\ ~Pruning
  BY <1>1, Searching
<1>3. /\ \A m \in Nodes : node'[m].children = node[m].children
      /\ node'[n].nodeAge = searchNodeAge /\ \A m \in Nodes \ {n} : node'[m] = node[m]
      /\ node' \in [Nodes -> NodeRecords]
  <2> DEFINE record == [[node[n] EXCEPT !.nn = TRUE] EXCEPT !.nodeAge = searchNodeAge]
  <2>1. searchNodeAge \in Nat /\ node[n] \in NodeRecords
    BY DEF Inv, TypeCorrect
  <2>2. node' = [node EXCEPT ![n] = record]
    BY <1>1, <2>1 DEF Inv, TypeCorrect, NodeRecords
  <2>3. record \in NodeRecords /\ record.children = node[n].children /\ record.nodeAge = searchNodeAge
    BY <2>1 DEF NodeRecords
  <2> HIDE DEF record
  <2> QED BY <2>2, <2>3 DEF Inv, TypeCorrect
<1>4. TypeCorrect'
  BY <1>1, <1>3 DEF Inv, TypeCorrect
<1>5. StepsInv'
  BY <1>1 DEF Inv, StepsInv, Next1
<1>6. PoolInv'
  BY <1>1, PoolInvStays DEF Inv
<1>7. HeapInv'
  <2>1. n \in TableNodes \cup {rootNode}
    BY <1>1, <1>2, TreeInTable
  <2>2. TableNodes' = TableNodes
    BY <1>1 DEF TableNodes
  <2>3. \A m \in Nodes \ TableNodes' : m # rootNode' => node'[m] = Blank
    BY <2>1, <2>2, <1>1, <1>3 DEF Inv, HeapInv
  <2>4. \A m \in Nodes : node'[m].nodeAge <= searchNodeAge'
    BY <1>1, <1>3 DEF Inv, HeapInv, TypeCorrect
  <2> QED BY <2>2, <2>3, <2>4, <1>1 DEF Inv, HeapInv
<1>8. TreeInv'
  BY <1>1, <1>2, <1>3, <1>4, TreeInvStays
<1>9. WalkInv'
  BY <1>1, <1>2 DEF Inv, WalkInv, Walks
<1>10. SweepInv'
  BY <1>1, <1>2 DEF SweepInv
<1> QED BY <1>4, <1>5, <1>6, <1>7, <1>8, <1>9, <1>10 DEF Inv

(* A thread hangs a node below another, a new one or one of the table. *)
LEMMA InvAddChild ==
  ASSUME Inv, NEW t \in Threads, NEW n \in Nodes, AddChild(t, n) PROVE Inv'
<1>1. /\ pc[t] = "search" /\ n \in Tree
      /\ UNCHANGED <<rootNode, searchNodeAge>>
      /\ UNCHANGED <<numThreads, numThreadsSpawned, threadTasks, threadTasksRemaining>>
      /\ UNCHANGED <<todo, task, pushed, pc, stack, calls>>
  BY DEF AddChild, pool
<1>2. PICK c \in TableNodes \cup (Nodes \ live) :
        /\ n \notin Reachable({c})
        /\ node' = [node EXCEPT ![n].children = Append(@, c)]
        /\ live' = live \cup {c}
        /\ IF c \in live THEN UNCHANGED table
           ELSE \E s \in DOMAIN table : table' = [table EXCEPT ![s] = @ \cup {c}]
  BY DEF AddChild
<1>3. task = "search" /\ Next1 = "nothing" /\ ~Clearing /\ ~Pruning /\ rootNode # NULL /\ rootNode \in Nodes
  BY <1>1, Searching DEF Inv, TypeCorrect
<1>4. TableNodes \subseteq Nodes /\ c \in Nodes /\ Tree \subseteq Nodes
  BY TreeClosed DEF Inv, TypeCorrect, TableNodes
<1>5. /\ node'[n].children = Append(node[n].children, c) /\ node'[n].nodeAge = node[n].nodeAge
      /\ \A m \in Nodes \ {n} : node'[m] = node[m]
      /\ node' \in [Nodes -> NodeRecords]
  <2>1. node[n] \in NodeRecords
    BY DEF Inv, TypeCorrect
  <2>2. Append(node[n].children, c) \in Seq(Nodes)
    BY <2>1, <1>4 DEF NodeRecords
  <2> QED BY <2>1, <2>2, <1>2 DEF Inv, TypeCorrect, NodeRecords
<1>6. /\ table' \in [0..(numShards - 1) -> SUBSET Nodes]
      /\ TableNodes' = TableNodes \cup {c}
  <2>1. CASE c \in live
    BY <2>1, <1>2 DEF Inv, TypeCorrect, TableNodes
  <2>2. CASE c \notin live
    <3>1. PICK s \in DOMAIN table : table' = [table EXCEPT ![s] = @ \cup {c}]
      BY <2>2, <1>2
    <3>2. /\ table' \in [0..(numShards - 1) -> SUBSET Nodes] /\ DOMAIN table' = DOMAIN table
          /\ table'[s] = table[s] \cup {c} /\ \A r \in DOMAIN table \ {s} : table'[r] = table[r]
      BY <3>1, <1>4 DEF Inv, TypeCorrect
    <3> QED BY <3>2 DEF TableNodes
  <2> QED BY <2>1, <2>2
<1>7. TypeCorrect'
  BY <1>1, <1>2, <1>4, <1>5, <1>6 DEF Inv, TypeCorrect
<1>8. StepsInv'
  BY <1>1 DEF Inv, StepsInv, Next1
<1>9. PoolInv'
  BY <1>1, PoolInvStays DEF Inv
<1>10. n \in TableNodes \cup {rootNode} /\ n \in live
  BY <1>1, <1>3, TreeInTable DEF Inv, HeapInv
<1>11. HeapInv'
  <2>1. \A m \in Nodes \ TableNodes' : m # rootNode' => node'[m] = Blank
    BY <1>1, <1>5, <1>6, <1>10 DEF Inv, HeapInv
  <2>2. \A m \in Nodes : node'[m].nodeAge <= searchNodeAge'
    BY <1>1, <1>5 DEF Inv, HeapInv
  <2>3. rootNode \notin TableNodes'
    BY <1>2, <1>3, <1>6 DEF Inv, HeapInv
  <2> QED BY <2>1, <2>2, <2>3, <1>1, <1>2, <1>6 DEF Inv, HeapInv
<1>12. /\ Kids \in Graph /\ Kids' \in Graph
       /\ \A m \in Nodes : Kids[m] = Children(m) /\ Kids'[m] = Children(m)'
  BY <1>7, KidsAre, KidsAreNext DEF Inv
<1>13. Kids'[n] = Kids[n] \cup {c} /\ \A m \in Nodes \ {n} : Kids'[m] = Kids[m]
  <2>1. Children(n)' = Children(n) \cup {c}
    <3>1. node[n].children \in Seq(Nodes)
      BY DEF Inv, TypeCorrect, NodeRecords
    <3>2. ToSet(Append(node[n].children, c)) = ToSet(node[n].children) \cup {c}
      BY <3>1, <1>4, Appended
    <3> QED BY <3>2, <1>5 DEF Children
  <2>2. \A m \in Nodes \ {n} : Children(m)' = Children(m)
    BY <1>5 DEF Children
  <2> QED BY <2>1, <2>2, <1>12
<1>14. Acyclic(Kids')
  <2>1. Acyclic(Kids) /\ n \notin Reach(Kids, {c})
    BY <1>2, <1>3, <1>4, ReachableIs DEF Inv, TreeInv
  <2> QED BY <2>1, <1>4, <1>12, <1>13, NewEdge
<1>15. /\ Tree = Reach(Kids, {rootNode}) /\ Tree' = Reach(Kids', {rootNode})
       /\ TableNodes \subseteq Tree /\ \A m \in Tree : Kids[m] \subseteq TableNodes /\ Kids[m] \subseteq Tree
  <2>1. Tree = Reach(Kids, {rootNode}) /\ Tree' = Reach(Kids', {rootNode})
    BY <1>1, <1>3, <1>7, ReachableIs, ReachableIsNext DEF Inv
  <2>2. \A m \in Tree : Kids[m] = Children(m) /\ Children(m) \subseteq TableNodes /\ Children(m) \subseteq Tree
    BY <1>3, <1>4, <1>12, TreeClosed DEF Inv, TreeInv
  <2> QED BY <2>1, <2>2, <1>3 DEF Inv, TreeInv
<1>16. c \notin Tree => Kids[c] = {} /\ Kids'[c] = {}
  <2>1. c \notin Tree => node[c] = Blank /\ c # n
    BY <1>1, <1>2, <1>3, <1>4, <1>15 DEF Inv, HeapInv
  <2> QED BY <2>1, <1>4, <1>12, <1>13 DEF Children, ToSet, Blank
<1>17. Tree \subseteq Tree' /\ c \in Tree' /\ Tree' \subseteq Tree \cup {c}
  <2>1. \A m \in Nodes : Kids[m] \subseteq Kids'[m]
    BY <1>13
  <2>2. Tree' \subseteq Nodes /\ Closed(Kids', Tree') /\ {rootNode} \subseteq Tree'
    BY <1>3, <1>12, <1>15, ReachLeast
  <2>3. Tree \subseteq Tree'
    <3>1. \A m \in Reach(Kids', {rootNode}) : Kids[m] \subseteq Kids'[m]
      BY <2>1, <2>2, <1>15
    <3> QED BY <3>1, <1>3, <1>12, <1>15, ReachMonotone
  <2>4. c \in Tree'
    BY <2>2, <2>3, <1>1, <1>13 DEF Closed
  <2>5. Closed(Kids', Tree \cup {c})
    BY <1>4, <1>13, <1>15, <1>16 DEF Closed
  <2>6. {rootNode} \subseteq Tree \cup {c} /\ Tree \cup {c} \in SUBSET Nodes
    BY <1>3, <1>4, TreeClosed DEF Inv
  <2> QED BY <2>3, <2>4, <2>5, <2>6, <1>3, <1>12, <1>15, ReachLeast
<1>18. TreeInv'
  <2>1. \A m \in Tree' : Kids'[m] \subseteq TableNodes'
    BY <1>4, <1>6, <1>13, <1>15, <1>16, <1>17
  <2>2. \A m \in Tree' : m \in Nodes /\ Children(m)' \subseteq TableNodes'
    BY <2>1, <1>4, <1>12, <1>17
  <2>3. TableNodes' \subseteq Tree'
    BY <1>6, <1>15, <1>17
  <2> QED BY <2>2, <2>3, <1>1, <1>3, <1>14 DEF TreeInv, Next1
<1>19. WalkInv'
  BY <1>1, <1>3 DEF Inv, WalkInv, Walks
<1>20. SweepInv'
  BY <1>1, <1>3 DEF SweepInv
<1> QED BY <1>7, <1>8, <1>9, <1>11, <1>18, <1>19, <1>20 DEF Inv

-------------------------------------------------------------------------------
(* The properties. *)

(* Every step keeps the invariant. *)
LEMMA InvNext == Inv /\ [Next]_vars => Inv'
<1> SUFFICES ASSUME Inv, [Next]_vars PROVE Inv'
  OBVIOUS
<1>1. ASSUME NEW t \in Threads, Step(t) PROVE Inv'
  <2>1. CASE VisitChild(t)
    BY <2>1, InvVisitChild
  <2>2. CASE LeaveNode(t)
    BY <2>2, InvLeaveNode
  <2>3. CASE WalkEnds(t)
    BY <2>3, InvWalkEnds
  <2>4. CASE Delete(t)
    BY <2>4, InvDelete
  <2>5. CASE SearchStops(t)
    BY <2>5, InvSearchStops
  <2>6. ASSUME NEW n \in Nodes, Evaluate(t, n) \/ AddChild(t, n) PROVE Inv'
    BY <2>6, InvEvaluate, InvAddChild
  <2> QED BY <1>1, <2>1, <2>2, <2>3, <2>4, <2>5, <2>6 DEF Step
<1>2. CASE CallerStep
  <2>1. 0 \in Threads
    BY ReuseAssumption DEF Threads
  <2> QED BY <2>1, <1>1, <1>2, InvForget, InvNewRoot, InvOlder, InvPerformTask, InvPushTask,
             InvCallerStarts, InvReturn DEF CallerStep
<1>3. ASSUME NEW h \in Helpers, HelperStep(h) PROVE Inv'
  BY <1>1, <1>3, InvHelperStarts DEF HelperStep, Helpers
<1>4. CASE Clear \/ (\E n \in 1..MaxThreads, clearing \in BOOLEAN : SetParams(n, clearing))
           \/ (\E recomputing \in BOOLEAN : BeginSearch(recomputing))
  BY <1>4, InvStart
<1>5. ASSUME NEW loc \in 1..MaxChildren, MakeMove(loc) PROVE Inv'
  BY <1>5, InvMakeMove
<1>6. CASE UNCHANGED vars
  <2>1. UNCHANGED tree /\ UNCHANGED <<todo, task, pushed, pc, stack, calls>>
        /\ UNCHANGED <<numThreads, numThreadsSpawned, threadTasks, threadTasksRemaining>>
    BY <1>6 DEF vars, pool
  <2>2. TypeCorrect'
    BY <2>1 DEF Inv, TypeCorrect, tree
  <2>3. StepsInv'
    BY <2>1 DEF Inv, StepsInv, tree, Next1
  <2>4. PoolInv' /\ Busy' = Busy
    BY <2>1, PoolInvStays DEF Inv
  <2>5. /\ HeapInv' /\ Tree' = Tree /\ TableNodes' = TableNodes /\ \A n : Marked(n)' <=> Marked(n)
        /\ DoneInv => DoneInv'
        /\ \A t \in Threads : StackInv(t) => StackInv(t)'
    BY <2>1, <2>2, TreeStays
  <2>6. TreeInv'
    <3>1. UNCHANGED <<rootNode, table, node, todo, task>>
      BY <2>1 DEF tree
    <3>2. Next1 = "forget" /\ task = "none" => TableNodes = {}
      BY DEF Inv, TreeInv
    <3> QED BY <3>1, <3>2, <2>2, TreeInvStays DEF Clearing, Pruning, Next1
  <2>7. WalkInv'
    BY <2>1, <2>5 DEF Inv, WalkInv, Marked, tree
  <2>8. SweepInv'
    <3>1. (\A t : Share(t)' = Share(t)) /\ \A t : ShareDone(t)' <=> ShareDone(t)
      BY <2>1, <2>4 DEF Share, ShareDone
    <3> QED BY <3>1, <2>1, <2>5 DEF Inv, SweepInv, Next1, tree
  <2> QED BY <2>2, <2>3, <2>4, <2>5, <2>6, <2>7, <2>8 DEF Inv
<1> QED BY <1>2, <1>3, <1>4, <1>5, <1>6 DEF Next

(* The variables have their types, and the parts of the invariant hold, in every state. *)
THEOREM Invariance == Spec => []Inv
<1>1. Init => Inv
  BY InvInit
<1>2. Inv /\ [Next]_vars => Inv'
  BY InvNext
<1> QED BY <1>1, <1>2, PTL DEF Spec

(* Whatever operations came before, whenever the caller of Search is between two of them the node table *)
(* holds the nodes that can be reached from the root, the root excepted, and all of them are allocated. *)
THEOREM TableCorrect == Spec => []TableIsTheTree
<1>1. Inv => TableIsTheTree
  <2> SUFFICES ASSUME Inv, Idle PROVE TableNodes = Tree \ {rootNode} /\ Tree \subseteq live
    BY DEF TableIsTheTree
  <2>1. ~Clearing /\ ~Pruning
    BY DEF Idle, Clearing, Pruning, Next1, Following
  <2>2. TableNodes \subseteq Tree /\ rootNode \notin TableNodes
    BY <2>1 DEF Inv, TreeInv, HeapInv
  <2>3. Tree \subseteq TableNodes \cup {rootNode}
    BY <2>1, TreeInTable
  <2>4. Tree \subseteq live
    BY <2>3 DEF Inv, HeapInv, Tree
  <2> QED BY <2>2, <2>3, <2>4
<1> QED BY <1>1, Invariance, PTL

(* However the threads of a walk interleave, its function is called once on every node, after the children *)
(* of the node are done, no thread walks over a node that has been freed, and at the end the tree is done. *)
THEOREM WalkCorrect == Spec => []WalkIsPostOrderOnce
<1>1. Inv => WalkIsPostOrderOnce
  <2> SUFFICES ASSUME Inv, task \in Walks
               PROVE  /\ \A n \in Tree :
                           node[n].nodeAge = searchNodeAge =>
                             /\ calls[n] = 1
                             /\ \A c \in Children(n) : node[c].nodeAge = searchNodeAge
                      /\ \A t \in Threads : \A i \in DOMAIN stack[t] : stack[t][i].node \in live
                      /\ pc[0] = "wait" /\ threadTasksRemaining = 0 =>
                           \A n \in Tree : node[n].nodeAge = searchNodeAge
    BY DEF WalkIsPostOrderOnce
  <2>1. DoneInv
    BY DEF Inv, WalkInv
  <2>2. ~Clearing /\ rootNode # NULL
    BY DEF Inv, StepsInv, Clearing, After, Walks
  <2>3. Tree \subseteq live
    BY <2>2, TreeInTable DEF Inv, HeapInv
  <2>4. ASSUME NEW t \in Threads, NEW i \in DOMAIN stack[t] PROVE stack[t][i].node \in live
    <3>1. stack[t] \in Seq(Frames) /\ stack[t] # <<>>
      BY <2>4 DEF Inv, TypeCorrect
    <3>2. StackInv(t) /\ i \in 1..Len(stack[t])
      BY <3>1 DEF Inv, WalkInv
    <3> QED BY <3>2, <2>3 DEF StackInv, FrameInv
  <2>5. pc[0] = "wait" => \A n \in Tree : node[n].nodeAge = searchNodeAge
    BY WalkDone DEF Marked
  <2> QED BY <2>1, <2>4, <2>5 DEF DoneInv, Marked
<1> QED BY <1>1, Invariance, PTL

(* "Tasks are owned by the joining thread": no helper holds a task that the caller has returned from. *)
THEOREM TasksCorrect == Spec => []TasksOutliveTheirUse
<1>1. Inv => TasksOutliveTheirUse
  <2> SUFFICES ASSUME Inv, NEW h \in Helpers
               PROVE  /\ pc[h] # "idle" => task = pc[h]
                      /\ \A i \in DOMAIN threadTasks[h] : threadTasks[h][i] = task
    BY DEF TasksOutliveTheirUse
  <2>1. CASE h \in Busy
    <3>1. HasTask(h)
      BY <2>1 DEF Inv, PoolInv
    <3> QED BY <3>1 DEF HasTask
  <2>2. CASE h \notin Busy
    BY <2>2 DEF Busy
  <2> QED BY <2>1, <2>2
<1> QED BY <1>1, Invariance, PTL
===============================================================================
