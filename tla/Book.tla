-------------------------------- MODULE Book --------------------------------
(***************************************************************************)
(* The opening book (src/cpp/book/book.cpp): a graph of positions that     *)
(* transpose into each other, each with the value a search gave it when    *)
(* told to leave out the moves already in the book, and, computed from     *)
(* those, its minimax value and the cost of reaching and expanding it.     *)
(*                                                                         *)
(* A position stands for its BookHash: positions that differ by a symmetry *)
(* are one.  Of the eleven numbers a node minimaxes one is kept, and of    *)
(* the terms of a cost those that make it depend on other nodes: the loss  *)
(* against the best value, and the cost of the parent.  Policies, bonuses  *)
(* and the winloss PV only add terms to the same sums.                     *)
(***************************************************************************)
EXTENDS Integers, Sequences, FiniteSets, FiniteSetsExt, SequencesExt, TLC

CONSTANTS
  Root,             \* the position the book starts from
  Child,            \* [position -> [legal move -> position]]
  Polite,           \* [position -> [legal move -> its representative up to the symmetries of the position]]
  WhiteToMove,      \* the positions in which white is to move
  Progress          \* [position -> stones on its board, and one more once a pass has ended the game]

ASSUME PositionsAssumption ==
  /\ Root \in DOMAIN Child
  /\ DOMAIN Polite = DOMAIN Child /\ Progress \in [DOMAIN Child -> Nat]
  /\ \A n \in DOMAIN Child : \A m \in DOMAIN Child[n] :
       /\ Child[n][m] \in DOMAIN Child
       /\ Polite[n][m] \in DOMAIN Child[n]
       /\ Child[n][Polite[n][m]] = Child[n][m]
       /\ Progress[Child[n][m]] > Progress[n]

Hashes == DOMAIN Child

LegalMoves(n) == DOMAIN Child[n]

Finished(n) == LegalMoves(n) = {}

\* Stands for the 1e100 of thisNodeExpansionCost.
Never == 1000

\* What a node without a move left to search is worth: 1e20 for the opponent.
WorthNothing(n) == IF n \in WhiteToMove THEN -100 ELSE 100

\* A node as its constructor leaves it, and a book of the root alone.
NewNode == [moves |-> {}, parents |-> <<>>, this |-> 0, avoided |-> {}, canExpand |-> TRUE,
            rec |-> 0, cost |-> [root |-> 0, move |-> <<>>, expansion |-> 0]]

NewBook == [nodes |-> <<Root>>, at |-> [n \in {Root} |-> NewNode]]

InBook(b, n) == n \in DOMAIN b.at

IsMoveInBook(b, n, m) == Polite[n][m] \in b.at[n].moves

NewMoves(b, n) == {m \in LegalMoves(n) : ~IsMoveInBook(b, n, m)}

FollowMove(b, walk) ==
  IF walk.rest = <<>> \/ Head(walk.rest) \notin LegalMoves(walk.node) \/ ~IsMoveInBook(b, walk.node, Head(walk.rest))
  THEN walk
  ELSE [node |-> Child[walk.node][Head(walk.rest)], rest |-> Tail(walk.rest)]

\* follow: walk down the book along ms; the node reached, and the moves the book does not have.
Follow(b, n, ms) ==
  LET after[k \in 0..Len(ms)] == IF k = 0 THEN [node |-> n, rest |-> ms] ELSE FollowMove(b, after[k - 1])
  IN after[Len(ms)]

\* playAndAddMove: the move's child is the node the book has for that position, or a new one.
AddMove(b, n, m) ==
  LET c     == Child[n][m]
      grown == [k \in DOMAIN b.at \union {c} |-> IF InBook(b, k) THEN b.at[k] ELSE NewNode]
  IN [nodes |-> IF InBook(b, c) THEN b.nodes ELSE Append(b.nodes, c),
      at    |-> [grown EXCEPT ![c].parents = Append(@, <<n, Polite[n][m]>>),
                              ![n].moves = @ \union {Polite[n][m]}]]

----------------------------------------------------------------------------
(* recompute *)

Parents(b, n) == {b.at[n].parents[i][1] : i \in DOMAIN b.at[n].parents}

Children(b, n) == {Child[n][m] : m \in b.at[n].moves}

\* markDirty: the changed nodes and all that lead to them.
Dirty(b, changed) ==
  {n \in DOMAIN b.at : \A S \in SUBSET DOMAIN b.at :
     changed \subseteq S /\ (\A m \in S : Parents(b, m) \subseteq S) => n \in S}

\* A depth-first walk along next, which has nodes to visit, and to leave: that calls on them.
Visit(n) == <<"visit", n>>

Leave(n) == <<"leave", n>>

WalkStep(next, allowed, w) ==
  LET n == Head(w.todo)[2]
  IN IF w.todo = <<>> THEN w
     ELSE IF Head(w.todo) = Leave(n) THEN [todo |-> Tail(w.todo), done |-> Append(w.done, n)]
     ELSE IF n \notin allowed \/ n \in Range(w.done) \/ Leave(n) \in Range(w.todo)
       THEN [todo |-> Tail(w.todo), done |-> w.done]
     ELSE [todo |-> [i \in DOMAIN next[n] |-> Visit(next[n][i])] \o <<Leave(n)>> \o Tail(w.todo), done |-> w.done]

\* The calls of a walk from each of starts; steps is more than it can take.
PostOrder(next, allowed, starts) ==
  LET links == UNION {{n} \X DOMAIN next[n] : n \in allowed}
      steps == Len(starts) + Cardinality(allowed) * (Cardinality(links) + 1)
      walk[k \in 0..steps] ==
        IF k = 0 THEN [todo |-> [i \in DOMAIN starts |-> Visit(starts[i])], done |-> <<>>]
                 ELSE WalkStep(next, allowed, walk[k - 1])
  IN walk[steps].done

\* iterateDirtyNodesPostOrder: every dirty node after the dirty ones among its children.
ChildrenFirst(b, dirty) ==
  LET down == [n \in DOMAIN b.at |-> LET ms == SetToSeq(b.at[n].moves) IN [i \in DOMAIN ms |-> Child[n][ms[i]]]]
  IN PostOrder(down, dirty, <<Root>>)

\* iterateEntireBookPreOrder: every node of the book after all its parents.
ParentsFirst(b) ==
  LET up == [n \in DOMAIN b.at |-> [i \in DOMAIN b.at[n].parents |-> b.at[n].parents[i][1]]]
  IN PostOrder(up, DOMAIN b.at, b.nodes)

BestFor(n, values) == IF n \in WhiteToMove THEN Max(values) ELSE Min(values)

\* The value of n from those of its children, which are in recs.
RecomputeNodeValues(b, recs, n) ==
  BestFor(n, {b.at[n].this} \union {recs[c] : c \in Children(b, n)})

\* What the player to move at n gives away by a value v, where he can have best.
Loss(n, best, v) == IF n \in WhiteToMove THEN best - v ELSE v - best

CostFromParents(b, costs, n) ==
  IF n = Root THEN 0 ELSE Min({costs[p[1]].move[p[2]] : p \in Range(b.at[n].parents)})

\* The costs of n from its parents', which are in costs.
RecomputeNodeCost(b, recs, costs, n) ==
  LET root == CostFromParents(b, costs, n)
  IN [root      |-> root,
      move      |-> [m \in b.at[n].moves |-> root + 1 + Loss(n, recs[n], recs[Child[n][m]])],
      expansion |-> IF b.at[n].canExpand THEN 1 + Loss(n, recs[n], b.at[n].this) + Cardinality(b.at[n].moves)
                                         ELSE Never]

Recs(b) == [n \in DOMAIN b.at |-> b.at[n].rec]

Costs(b) == [n \in DOMAIN b.at |-> b.at[n].cost]

\* The values once the nodes of order have been recomputed in turn, and the costs.
NewRecs(b, order) ==
  LET recs[k \in 0..Len(order)] ==
        IF k = 0 THEN Recs(b)
        ELSE [recs[k - 1] EXCEPT ![order[k]] = RecomputeNodeValues(b, recs[k - 1], order[k])]
  IN recs[Len(order)]

NewCosts(b, recs, order) ==
  LET costs[k \in 0..Len(order)] ==
        IF k = 0 THEN Costs(b)
        ELSE [costs[k - 1] EXCEPT ![order[k]] = RecomputeNodeCost(b, recs, costs[k - 1], order[k])]
  IN costs[Len(order)]

RecomputeOver(b, dirty) ==
  LET recs  == NewRecs(b, ChildrenFirst(b, dirty))
      costs == NewCosts(b, recs, ParentsFirst(b))
  IN [nodes |-> b.nodes,
      at    |-> [n \in DOMAIN b.at |-> [b.at[n] EXCEPT !.rec = recs[n], !.cost = costs[n]]]]

Recompute(b, changed) == RecomputeOver(b, Dirty(b, changed))

RecomputeEverything(b) == RecomputeOver(b, DOMAIN b.at)

----------------------------------------------------------------------------
(* Choosing what to expand, and the file *)

TotalCost(b, n) == b.at[n].cost.root + b.at[n].cost.expansion

InCostOrder(b, S) ==
  {s \in [1..Cardinality(S) -> S] :
     IsInjective(s) /\ \A i, j \in DOMAIN s : i < j => TotalCost(b, s[i]) =< TotalCost(b, s[j])}

\* getNextNToExpand: the k cheapest nodes (either of two that cost the same), less those
\* that cannot be expanded.
NextToExpand(b, k) ==
  LET cheapest == {S \in SUBSET DOMAIN b.at :
                     /\ Cardinality(S) = Min({k, Len(b.nodes)})
                     /\ \A n \in S, o \in DOMAIN b.at \ S : TotalCost(b, n) =< TotalCost(b, o)}
  IN UNION {InCostOrder(b, {n \in S : b.at[n].canExpand}) : S \in cheapest}

\* saveToFile writes what a search found and the links; loadFromFile reads it, lets every
\* node be expanded again whatever the file says, and computes the rest.
SaveToFile(b) ==
  [nodes |-> b.nodes,
   at |-> [n \in DOMAIN b.at |->
             [NewNode EXCEPT !.moves = b.at[n].moves, !.parents = b.at[n].parents, !.this = b.at[n].this,
                             !.avoided = b.at[n].avoided, !.canExpand = b.at[n].canExpand]]]

LoadFromFile(f) ==
  RecomputeEverything([nodes |-> f.nodes, at |-> [n \in DOMAIN f.at |-> [f.at[n] EXCEPT !.canExpand = TRUE]]])

----------------------------------------------------------------------------
(* What the rest of the program relies on *)

\* The children of a node are nodes, each with one entry for the move in its parents, and no
\* node has an entry for a move that is not there.
LinksAgree(b) ==
  /\ IsInjective(b.nodes) /\ Range(b.nodes) = DOMAIN b.at
  /\ \A n \in DOMAIN b.at :
       /\ IsInjective(b.at[n].parents)
       /\ Children(b, n) \subseteq DOMAIN b.at
       /\ Range(b.at[n].parents) =
            UNION {{<<p, m>> : m \in {k \in b.at[p].moves : Child[p][k] = n}} : p \in DOMAIN b.at}

\* The value of a node is that of its remaining moves, of which the book has none.
ValuesAreOfNewMoves(b) == \A n \in DOMAIN b.at : b.at[n].avoided = b.at[n].moves

\* Values are minimax, and costs those of the cheapest path, over the book as it is.
IsSettled(b) ==
  \A n \in DOMAIN b.at :
    /\ b.at[n].rec = RecomputeNodeValues(b, Recs(b), n)
    /\ b.at[n].cost = RecomputeNodeCost(b, Recs(b), Costs(b), n)
=============================================================================
