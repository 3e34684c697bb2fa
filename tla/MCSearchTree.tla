---------------------------- MODULE MCSearchTree ----------------------------
(* Instance of SearchTree.                                                        *)
EXTENDS SearchTree, TLC

CONSTANTS t1, t2, m1, m2, m3, r, x, y, z, xy, zy, w

NoMoves == [m \in {} |-> None]

(* Two ways to play three stones, and a move that ends the game, for which the root  *)
(* has no room yet.                                                                  *)
MCNodes == {r, x, z, w, xy, zy, y}
MCPlies == r :> 0 @@ x :> 1 @@ z :> 1 @@ w :> 1 @@ xy :> 2 @@ zy :> 2 @@ y :> 3
MCChild == r :> (m1 :> x @@ m2 :> w @@ m3 :> z) @@ w :> NoMoves
             @@ x :> (m2 :> xy) @@ z :> (m2 :> zy)
             @@ xy :> (m3 :> y) @@ zy :> (m1 :> y) @@ y :> NoMoves
MCCapacity == 0 :> 2 @@ 1 :> 3 @@ 2 :> 4

(* A search of five playouts has played two stones each way.                         *)
Edge(n, m, e) == [child |-> n, move |-> m, edgeVisits |-> e]
Explored == {r, x, z, xy, zy}
ExploredChildren(n) ==
  CASE n = r -> <<Edge(x, m1, 2), Edge(z, m3, 2)>>
    [] n = x -> <<Edge(xy, m2, 1), Empty>>
    [] n = z -> <<Edge(zy, m2, 1), Empty>>
    [] n \in {xy, zy} -> <<Empty, Empty>>
    [] OTHER -> NoArray

MCInit ==
  /\ state = [n \in Nodes |-> IF n \in Explored THEN EXPANDED0 ELSE UNEVALUATED]
  /\ nnOutput = [n \in Nodes |-> n \in Explored]
  /\ children = [n \in Nodes |->
                   [a \in 0..2 |-> IF a = 0 THEN ExploredChildren(n) ELSE NoArray]]
  /\ visits = r :> 5 @@ x :> 2 @@ z :> 2 @@ xy :> 1 @@ zy :> 1 @@ y :> 0 @@ w :> 0
  /\ dirtyCounter = [n \in Nodes |-> 0]
  /\ virtualLosses = [n \in Nodes |-> 0]
  /\ numPlayoutsShared = 5
  /\ numNonPlayoutVisits = 0
  /\ shouldStopNow = TRUE
  /\ pc = [t \in Threads |-> "idle"]
  /\ path = [t \in Threads |-> <<>>]
  /\ finished = [t \in Threads |-> FALSE]
  /\ completed = [t \in Threads |-> 0]
  /\ newChildren = [t \in Threads |-> NoArray]
  /\ numPlayouts = [t \in Threads |-> 0]

MCSpec == MCInit /\ [][Next]_vars /\ Fairness
===============================================================================
