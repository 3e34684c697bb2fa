------------------------------- MODULE GenBook -------------------------------
(***************************************************************************)
(* genbook (src/cpp/command/genbook.cpp): threads that grow one book.      *)
(*                                                                         *)
(* Each iteration hands the cheapest nodes to the threads; a thread looks  *)
(* up a node's moves, gives the lock up, searches, and takes the lock      *)
(* again to add the best new move and what the search said.  When all are  *)
(* done the main thread recomputes the book.  Given another book to trace, *)
(* the threads instead walk its lines down this one, giving up the lock    *)
(* whenever the net must say what else to add, and then evaluate again     *)
(* every node they have touched.                                           *)
(*                                                                         *)
(* A signal stops the threads between nodes; the process may also be       *)
(* killed at any moment, and run again on the file the last save left.     *)
(***************************************************************************)
EXTENDS Book

CONSTANTS
  Threads,
  NumIterations,            \* what one run is asked for
  NumToExpandPerIteration,
  SaveEveryIterations,
  Lines,                    \* the lines of the book to trace, as sequences of moves
  Values,                   \* what a search may find a position worth
  MaxRuns                   \* bound: times the program is started

ASSUME GenBookAssumption ==
  /\ Threads # {}
  /\ NumIterations \in Nat \ {0} /\ NumToExpandPerIteration \in Nat \ {0}
  /\ SaveEveryIterations \in Nat \ {0} /\ MaxRuns \in Nat \ {0}
  /\ Lines \in Seq(Seq(Nat))

VARIABLES
  book, file,      \* the book in memory, the one on disk
  runs, phase, iteration, shouldStop,
  queue,           \* positionsToSearch, positionsToTrace or hashesToUpdate
  changed,         \* newAndChangedNodes, or nodesHashesToUpdate
  pc,              \* of each thread
  node,            \* the node a thread works on
  avoid,           \* the moves its search leaves out
  rest             \* the moves of its line the walk has still to make

bookVars == <<book, file, runs, phase, iteration, shouldStop, queue, changed, pc, node, avoid, rest>>

mainThread == <<file, runs, phase, iteration, shouldStop>>

Threading == {"expand", "trace", "update"}

StartThreads(work) == queue' = work /\ pc' = [t \in Threads |-> "pop"]

Joined == \A t \in Threads : pc[t] = "returned"

BookInit ==
  /\ book = RecomputeEverything(NewBook) /\ file = SaveToFile(NewBook)
  /\ runs = 1 /\ phase \in {"iterate", "startTrace"} /\ iteration = 0 /\ shouldStop = FALSE
  /\ queue = <<>> /\ changed = {}
  /\ pc = [t \in Threads |-> "returned"]
  /\ node = [t \in Threads |-> Root] /\ avoid = [t \in Threads |-> {}] /\ rest = [t \in Threads |-> <<>>]

----------------------------------------------------------------------------
(* The main thread *)

\* One turn of the loop over iterations, up to the threads' start.
BeginIteration ==
  /\ phase = "iterate" /\ iteration < NumIterations /\ ~shouldStop
  /\ file' = IF iteration % SaveEveryIterations = 0 /\ iteration # 0 THEN SaveToFile(book) ELSE file
  /\ \E toExpand \in NextToExpand(book, Min({1 + iteration \div 2, NumToExpandPerIteration})) :
       StartThreads(toExpand) /\ changed' = Range(toExpand)
  /\ phase' = "expand"
  /\ UNCHANGED <<book, runs, iteration, shouldStop, node, avoid, rest>>

Mutant_RecomputeNewOnly ==
  /\ phase = "expand" /\ Joined
  /\ book' = RecomputeOver(book, changed \union {Root})
  /\ phase' = IF shouldStop THEN "save" ELSE "iterate"
  /\ iteration' = iteration + 1
  /\ queue' = <<>>
  /\ UNCHANGED <<file, runs, shouldStop, changed, pc, node, avoid, rest>>

EndIteration ==
  /\ phase = "expand" /\ Joined
  /\ book' = Recompute(book, changed)
  /\ phase' = IF shouldStop THEN "save" ELSE "iterate"
  /\ iteration' = iteration + 1
  /\ queue' = <<>>
  /\ UNCHANGED <<file, runs, shouldStop, changed, pc, node, avoid, rest>>

EndIterations ==
  /\ phase = "iterate" /\ (iteration = NumIterations \/ shouldStop)
  /\ phase' = "save"
  /\ UNCHANGED <<book, file, runs, iteration, shouldStop, queue, changed, pc, node, avoid, rest>>

StartTrace ==
  /\ phase = "startTrace"
  /\ StartThreads(Lines) /\ changed' = {} /\ phase' = "trace"
  /\ UNCHANGED <<book, file, runs, iteration, shouldStop, node, avoid, rest>>

StartUpdate ==
  /\ phase = "trace" /\ Joined
  /\ StartThreads(SetToSeq(changed)) /\ phase' = "update"
  /\ UNCHANGED <<book, file, runs, iteration, shouldStop, changed, node, avoid, rest>>

\* A trace cut short is thrown away: the program ends without saving.
EndTrace ==
  /\ phase = "update" /\ Joined
  /\ IF shouldStop THEN phase' = "exited" /\ UNCHANGED book
                   ELSE phase' = "save" /\ book' = RecomputeEverything(book)
  /\ UNCHANGED <<file, runs, iteration, shouldStop, queue, changed, pc, node, avoid, rest>>

\* Written beside the old file, which a rename replaces: one step for whoever reads it.
Save ==
  /\ phase = "save"
  /\ file' = SaveToFile(book) /\ phase' = "exited"
  /\ UNCHANGED <<book, runs, iteration, shouldStop, queue, changed, pc, node, avoid, rest>>

Signal ==
  /\ ~shouldStop /\ phase # "exited" /\ shouldStop' = TRUE
  /\ UNCHANGED <<book, file, runs, phase, iteration, queue, changed, pc, node, avoid, rest>>

\* The process has ended, or is killed, and is run again.
Restart ==
  /\ runs < MaxRuns /\ runs' = runs + 1
  /\ book' = LoadFromFile(file)
  /\ phase' \in {"iterate", "startTrace"} /\ iteration' = 0 /\ shouldStop' = FALSE
  /\ queue' = <<>> /\ changed' = {}
  /\ pc' = [t \in Threads |-> "returned"]
  /\ node' = [t \in Threads |-> Root] /\ avoid' = [t \in Threads |-> {}] /\ rest' = [t \in Threads |-> <<>>]
  /\ UNCHANGED file

----------------------------------------------------------------------------
(* The threads.  Every step below is one hold of bookMutex. *)

At(t, where) == phase \in Threading /\ pc[t] = where

Goto(t, where) == pc' = [pc EXCEPT ![t] = where]

Return(t) ==
  /\ At(t, "pop") /\ (shouldStop \/ queue = <<>>)
  /\ Goto(t, "returned")
  /\ UNCHANGED <<mainThread, book, queue, changed, node, avoid, rest>>

CannotExpand(n) == book' = [book EXCEPT !.at[n].canExpand = FALSE]

\* expandNode up to findNewMoves: a finished position is not searched.
PopToExpand(t) ==
  /\ At(t, "pop") /\ phase = "expand" /\ queue # <<>> /\ ~shouldStop
  /\ queue' = Tail(queue) /\ node' = [node EXCEPT ![t] = Head(queue)]
  /\ IF Finished(Head(queue)) THEN CannotExpand(Head(queue)) /\ UNCHANGED pc
                              ELSE Goto(t, "findMoves") /\ UNCHANGED book
  /\ UNCHANGED <<mainThread, changed, avoid, rest>>

FindMoves(t) ==
  /\ At(t, "findMoves")
  /\ IF NewMoves(book, node[t]) = {}
     THEN CannotExpand(node[t]) /\ Goto(t, "pop") /\ UNCHANGED avoid
     ELSE avoid' = [avoid EXCEPT ![t] = book.at[node[t]].moves] /\ Goto(t, "search") /\ UNCHANGED book
  /\ UNCHANGED <<mainThread, queue, changed, node, rest>>

Searched(n, left) == {m \in LegalMoves(n) : Polite[n][m] \notin left}

StopAfterSearch(t) ==
  /\ At(t, "search") /\ shouldStop
  /\ Goto(t, "pop")
  /\ UNCHANGED <<mainThread, book, queue, changed, node, avoid, rest>>

\* The search chose m: its child joins the book.  A child that was there keeps its values.
AddChild(t) ==
  /\ At(t, "search") /\ ~shouldStop
  /\ \E m \in Searched(node[t], avoid[t]) :
       LET c == Child[node[t]][m] IN
         /\ book' = AddMove(book, node[t], m)
         /\ changed' = changed \union {c}
         /\ IF InBook(book, c) THEN Goto(t, "update") /\ UNCHANGED rest
                               ELSE Goto(t, "childValues") /\ rest' = [rest EXCEPT ![t] = <<m>>]
  /\ UNCHANGED <<mainThread, queue, node, avoid>>

\* setNodeThisValuesFromFinishedSearch
SetValues(b, n, left, v) == [b EXCEPT !.at[n].this = v, !.at[n].avoided = left]

SetChildValues(t) ==
  /\ At(t, "childValues")
  /\ \E v \in Values : book' = SetValues(book, Child[node[t]][Head(rest[t])], {}, v)
  /\ Goto(t, "update") /\ rest' = [rest EXCEPT ![t] = <<>>]
  /\ UNCHANGED <<mainThread, queue, changed, node, avoid>>

----------------------------------------------------------------------------
(* updateNodeThisValues *)

PopToUpdate(t) ==
  /\ At(t, "pop") /\ phase = "update" /\ queue # <<>> /\ ~shouldStop
  /\ queue' = Tail(queue) /\ node' = [node EXCEPT ![t] = Head(queue)]
  /\ Goto(t, "update")
  /\ UNCHANGED <<mainThread, book, changed, avoid, rest>>

UpdateFinished(t) ==
  /\ At(t, "update") /\ Finished(node[t])
  /\ \E v \in Values :
       book' = [SetValues(book, node[t], book.at[node[t]].moves, v) EXCEPT !.at[node[t]].canExpand = FALSE]
  /\ Goto(t, "pop")
  /\ UNCHANGED <<mainThread, queue, changed, node, avoid, rest>>

FindRemaining(t) ==
  /\ At(t, "update") /\ ~Finished(node[t])
  /\ avoid' = [avoid EXCEPT ![t] = book.at[node[t]].moves]
  /\ Goto(t, IF NewMoves(book, node[t]) = {} THEN "noneLeft" ELSE "searchRest")
  /\ UNCHANGED <<mainThread, book, queue, changed, node, rest>>

UpdateNoneLeft(t) ==
  /\ At(t, "noneLeft")
  /\ book' = [SetValues(book, node[t], avoid[t], WorthNothing(node[t])) EXCEPT !.at[node[t]].canExpand = FALSE]
  /\ Goto(t, "pop")
  /\ UNCHANGED <<mainThread, queue, changed, node, avoid, rest>>

UpdateFromSearch(t) ==
  /\ At(t, "searchRest")
  /\ \E v \in Values : book' = SetValues(book, node[t], avoid[t], v)
  /\ Goto(t, "pop")
  /\ UNCHANGED <<mainThread, queue, changed, node, avoid, rest>>

----------------------------------------------------------------------------
(* addVariationToBookWithoutUpdate *)

\* From n along ms until the net has to be asked (and the lock given up), or to the end.
WalkOn(t, b, n, ms) ==
  LET f == Follow(b, n, ms) IN
    /\ node' = [node EXCEPT ![t] = f.node]
    /\ IF f.rest # <<>> /\ ~Finished(f.node) /\ Head(f.rest) \in LegalMoves(f.node) /\ b.at[f.node].canExpand
       THEN Goto(t, "policy") /\ rest' = [rest EXCEPT ![t] = f.rest] /\ book' = b
       ELSE /\ Goto(t, "pop") /\ rest' = [rest EXCEPT ![t] = <<>>]
            /\ book' = IF f.rest # <<>> /\ Finished(f.node)
                       THEN [b EXCEPT !.at[f.node].canExpand = FALSE] ELSE b

PopLine(t) ==
  /\ At(t, "pop") /\ phase = "trace" /\ queue # <<>> /\ ~shouldStop
  /\ queue' = Tail(queue)
  /\ WalkOn(t, book, Root, Head(queue))
  /\ UNCHANGED <<mainThread, changed, avoid>>

Mutant_AddUnchecked(s, n, m) ==
  [book |-> AddMove(s.book, n, m),
   changed |-> s.changed \union (IF InBook(s.book, Child[n][m]) THEN {} ELSE {Child[n][m]})]

\* Another thread may have added a move meanwhile, or the one before in its place by symmetry.
AddIfNew(s, n, m) ==
  IF IsMoveInBook(s.book, n, m) THEN s
  ELSE [book |-> AddMove(s.book, n, m),
        changed |-> s.changed \union (IF InBook(s.book, Child[n][m]) THEN {} ELSE {Child[n][m]})]

\* The moves of ms in turn.
AddAllNew(s, n, ms) ==
  LET after[k \in 0..Len(ms)] == IF k = 0 THEN s ELSE AddIfNew(after[k - 1], n, ms[k])
  IN after[Len(ms)]

\* Moves the net may like far better than m, the best of them first.
Better(n, m) == UNION {{ms \in [1..k -> LegalMoves(n) \ {m}] : IsInjective(ms)} : k \in 0..Cardinality(LegalMoves(n))}

Mutant_ParentNotUpdated(t) ==
  /\ At(t, "policy")
  /\ \E extra \in Better(node[t], Head(rest[t])) :
       LET s == AddAllNew([book |-> book, changed |-> changed], node[t], <<Head(rest[t])>> \o extra)
       IN changed' = s.changed /\ WalkOn(t, s.book, node[t], rest[t])
  /\ UNCHANGED <<mainThread, queue, avoid>>

\* The net has answered: the move of the line goes in, and after it those it likes far better.
AddFromPolicy(t) ==
  /\ At(t, "policy")
  /\ \E extra \in Better(node[t], Head(rest[t])) :
       LET s == AddAllNew([book |-> book, changed |-> changed \union {node[t]}], node[t], <<Head(rest[t])>> \o extra)
       IN changed' = s.changed /\ WalkOn(t, s.book, node[t], rest[t])
  /\ UNCHANGED <<mainThread, queue, avoid>>

----------------------------------------------------------------------------
ThreadStep(t) ==
  \/ Return(t) \/ PopToExpand(t) \/ FindMoves(t) \/ StopAfterSearch(t) \/ AddChild(t) \/ SetChildValues(t)
  \/ PopToUpdate(t) \/ UpdateFinished(t) \/ FindRemaining(t) \/ UpdateNoneLeft(t) \/ UpdateFromSearch(t)
  \/ PopLine(t) \/ AddFromPolicy(t)

BookNext ==
  \/ BeginIteration \/ EndIteration \/ EndIterations
  \/ StartTrace \/ StartUpdate \/ EndTrace
  \/ Save \/ Signal \/ Restart
  \/ \E t \in Threads : ThreadStep(t)

BookSpec == BookInit /\ [][BookNext]_bookVars

----------------------------------------------------------------------------
(* Properties *)

\* The links of the book are whole under every interleaving: no move is added twice by two
\* threads that both found it missing, no child made twice (genbook.cpp:624, "Possibly another
\* thread added it, so we need to check again").
LinksStayWhole == LinksAgree(book) /\ LinksAgree(file)

\* The file is never that of a book half updated: whenever the program was stopped or killed,
\* every node in it has the value of a search that left out exactly the moves the book has there.
FileIsEvaluated == ValuesAreOfNewMoves(file)

\* Whenever the main thread chooses what to expand or saves, recomputing the ancestors of what
\* changed has left the whole book minimaxed, and every cost that of its cheapest path.
BookIsSettled == phase \in {"iterate", "startTrace", "save"} => IsSettled(book)
=============================================================================
