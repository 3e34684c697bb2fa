# KataHex: a verification development

TLA+ models of KataHex (`src/cpp`): of the concurrent core of its search, of the
programs around it and of the game itself; the TLC runs that check them on small
instances, and TLAPS proofs about them for all instances. KataHex is a Hex engine
derived from KataGo: a Monte-Carlo tree search whose threads share one graph of
positions and one neural net evaluator, driven over GTP, over a JSON analysis
protocol, or by programs that play with themselves and build opening books.

## 1. Inventory

| Part | State | Operations | What is hard | What makes it correct |
|---|---|---|---|---|
| `search/asyncbot` | one `Search`, a search thread, a reporting thread per search; `isRunning`, `isKilled`, `shouldStopNow`, the queued callback | genMoveAsync, genMoveSynchronous, analyzeAsync, ponder, stopWithoutWait, stopAndWait, setKilled, setters, destructor | stops at any moment, edits of the `Search` without joining its thread, kill against accept, exceptions | edits are exclusive; one answer per search, after its last report; no stale and no lost stop; waiters are released |
| `core/threadsafequeue` | a vector with a moving head, `closed`, `readOnly`, two condition variables | waitPush, forcePush, waitPop, tryPop, close, setReadOnly | notifications only on the edge empty/full, overfilling by forcePush | no lost wakeup, FIFO, release on close |
| `command/analysis` | open requests, a priority queue, a bot per thread, an output queue; an atomic status per request | query, terminate, terminate_all, end of input | terminate races with claim, start and end of the search; deletion; shutdown | exactly one final response; no use after delete; a stop hits its own search; quitting exits |
| `neuralnet/nneval` | ring of batches, server threads, counters of waiters, result cache | evaluate, waitForNextNNEvalIfAny, spawn/killServerThreads, clearCache | one notification per batch, swap of a batch being filled, wrap-around, respawn | every request answered once, with what was asked; waiters released |
| `search/search*`, `searchnode` | a node's state, net output, three arrays of children, visits, dirty counter, virtual losses | playoutDescend by all threads; begin and end of a search | almost no locks: evaluation races, growth by copying, edge visits counted in replaced arrays, delegated statistics | states move forward, children are kept, no playout is lost, losses are taken back, the search ends |
| search thread pool (`searchmultithreadhelpers`, `threadsafecounter`) | task queues, a counter of remaining tasks | performTaskWithThreads, spawn, kill | tasks are locals of their caller | no task is used after its caller has returned |
| tree reuse (`makeMove`, `beginSearch`, `searchnodetable`) | root, node table, node ages | move the root, clear, mark and sweep | concurrent marking, deletion, rounding of shares | nothing reachable is deleted, all else is |
| `program/selfplaymanager` | loaded nets, acquire counts, a data-write loop per net | load, acquire, release, enqueue, both cleanups, destructor | deletion by the write loop against use by game threads | no use after delete, no game lost, shutdown ends |
| selfplay, match, gatekeeper | game threads, the current nets | load, play, switch, drain | switching nets under running games | every finished game is written |
| `program/play`, `dataio/trainingwrite` | the position of a game, what its searches found by turn, side positions, forks left for later games | createGame, search, move, newer net, side positions, replay, fork, write | what was found is joined with positions much later; the bot is moved to side positions; unchecked openings | a row is of its own position and counts its nets right; forks are legal unfinished games |
| `command/contribute`, `distributed/client`, `prioritymutex` | task loops, nets on disk and in memory, a queue of games | get task, download, load, play, unload | check and use in different critical sections | games hold their nets; rating games are bounded; a signal ends the program |
| `command/gtp` | one AsyncBot, the moves since the initial board, rules, pondering | the GTP commands | three records of one position | they agree |
| `game/*` | board, history, rules | play, isLegal, winner, recent boards | one array with shared walls, a hash and a ring kept by hand | winner and legality are those of Hex; history is the past |
| `book`, `command/genbook` | a graph of book nodes, a lock given up during searches, a file | expand, trace, recompute, save, load | what was read before is used after; kills; transpositions | links whole, file evaluated, values and costs settled |
| search results, values, heuristics, time controls, `subtreevaluebiastable` | statistics | formulas | numerical | not modelled |
| `dataio`, `core` utilities, net backends, tools, tests | files, numbers | | | not modelled |

Who calls whom: GTP and the analysis engine drive `AsyncBot`s; a bot's search
thread runs `Search::runWholeSearch`, whose threads meet in the node graph and
call `NNEvaluator::evaluate`; the evaluator's server threads answer. Between two
searches the same threads mark and sweep the graph. The analysis engine, the
thread pool, self-play and contribution pass work through `ThreadSafeQueue`;
self-play and contribution get their nets from `SelfplayManager`s; genbook's
threads run one `Search` each and meet in the book.

## 2. Modules

| Module | Models | Depends on |
|---|---|---|
| `SearchService` | what an AsyncBot promises: one search at a time; an accepted one starts unless killed, ends only when stopped, answers once | |
| `AsyncBot` | `asyncbot.{h,cpp}` in full | instantiates `SearchService` |
| `ThreadSafeQueue` | `threadsafequeue.h` | |
| `AnalysisEngine` | the threads of `analysis.cpp` | uses bots as `SearchService` describes them, and shows that it keeps to it |
| `NNEvaluator` | `nneval.cpp` | |
| `SearchTree` | `playoutDescend`, `runWholeSearch` and the node graph | |
| `TreeReuse` | `makeMove`, `beginSearch`, mark and sweep, the node table, the thread pool | |
| `HexBoard` | `board.cpp`, `boardhistory.cpp`, as operators | |
| `GTPEngine` | the commands of `gtp.cpp` and the position of `search.cpp` | extends `HexBoard` |
| `SelfplayManager` | `selfplaymanager.cpp` | |
| `Selfplay` | the loops of `selfplay.cpp` | extends `SelfplayManager` |
| `SelfplayGame` | `play.cpp` in self-play, and the rows of `trainingwrite.cpp` | extends `HexBoard` |
| `Contribute` | the loops of `contribute.cpp`, downloads of `client.cpp` | two instances of `SelfplayManager` |
| `Book` | the graph of `book.cpp`, as operators on a book | |
| `GenBook` | the threads of `genbook.cpp` | extends `Book` |
| `AsyncBot_proofs`, `AnalysisEngine_proofs`, `NNEvaluator_proofs`, `SearchTree_proofs`, `TreeReuse_proofs`, `Selfplay_proofs`, `SelfplayGame_proofs`, `Contribute_proofs` | theorems | extend their module and TLAPS; `AsyncBot_proofs` is about `GTPEngine` too, `AnalysisEngine_proofs` about `ThreadSafeQueue`, `NNEvaluator_proofs` about `GenBook` |
| `MC*` | instances for TLC | |

**Atomicity.** A region that holds one mutex from end to end is one action; a
wait on a condition variable is a program counter that only a notification or a
spurious wakeup moves. The only variable touched outside its region is
`shouldStopNow` in `AsyncBot`, an atomic that each region writes at most once.
The modules of the programs (`Selfplay`, `Contribute`, `GenBook`, `GTPEngine`)
make everything between two points at which a lock is given up one action.
Where the code uses atomics without a lock, in `SearchTree` and for a request's
status in `AnalysisEngine`, each atomic operation is an action; a
compare-and-swap is an action with two outcomes. Atomics are taken as
sequentially consistent, so what depends on memory order alone is not covered.

**AsyncBot.** `clientPc` follows the single client thread through its call,
`searchPc` the loop of the search thread, `callbackPc` the reporting thread.
`queued` holds `queuedSearchId`, `queuedOnMove`, `isPondering` and whether a
callback was given. A search is "searching" until it finds `shouldStopNow` up,
which it raises itself at a limit (`SearchReachesLimit`); the model never obliges
it to reach one, as a ponder may have none. `SearchThrows` is an exception of
`runWholeSearch`. `stopCause`, `answers` and `moveLoc` are history.

**ThreadSafeQueue.** `elts` and `headIdx` are the vector and its head, with the
compaction of `popUnsynchronized`. Elements are numbered in the order of their
pushes, so that order, loss and duplication can be told.

**AnalysisEngine.** A request's `status` is the negative constants or the thread
that searches it, as in the code. The two queues are taken as sequences with
blocking pop and read-only, which `ThreadSafeQueue` justifies; a bot as
`SearchService`, with `onSearchBegun` and the reports as steps of its own.
`openMutex` is modelled because `terminateRequest` keeps it over several steps.
A terminate of several requests takes them in any order, as their map is keyed
by internal ids.

**NNEvaluator.** A row of the ring or of a server's batch holds the client it
points to. `serve` takes a batch, answers its rows one after the other, each
under its client's mutex, and then counts the batch as done. The contract of
the code is built into the model: `killServerThreads` is called only when no
client is in a call, and there are at most `maxConcurrentEvals` clients.

**SearchTree.** A thread's `path` is its stack of `playoutDescend` calls, each
with the local variables that outlive an action: `nodeState` (`st`),
`bestChildIdx` (`idx`), the move and the child. The model is of graph search
(`useGraphSearch`); without it a position's node is found by one path only,
a special case, except for the garbage node of the thread that
comes late. Which child is chosen is left open, so the heuristics are covered
whatever they are. Virtual losses only feed heuristics, so their changes are
merged with a neighbouring step of the same thread. Left out: the branch for an
illegal move, which the code itself calls "absurdly rare", the branch for a
cycle, which Hex cannot have as every move adds a stone (the assumption on
`Plies`), the recomputation of an existing net output, and all values.

**TreeReuse.** The caller's operations (`SetParams`, `BeginSearch`, `MakeMove`,
`Clear`) leave a list of steps in `todo`; a step that runs on all threads is a
`task` with a counter of those still at it. A walk is the iterator of
`applyRecursivelyPostOrderMulithreaded`: each thread has its own stack, starts
at another child, and skips what is marked with the present age. A sweep
deletes by shares of the table. A playout is one action here, as `SearchTree`
has its details. The old root that `makeMove` leaks (see the observations) stays
allocated in the model too.

**HexBoard, GTPEngine.** A board is a record of the array with its walls, the
size and the hash; a hash is the set of the keys folded into it, XOR the
symmetric difference. The operators follow the functions of `board.cpp` and
`boardhistory.cpp`, `checkWinner` with its queue over offsets. `GTPEngine` has
one action per command, with the stop of an analysis before it and the pondering
after it. What a search finds is any legal move.

**SelfplayManager, Selfplay, Contribute.** A `ModelData` is an address in
`data`, so that a net loaded later may get the address of one that was deleted.
The manager's mutex is held while there are nets to remove (`removing`), as only
the removal of nets spans several steps under it: they are told that no more games
come, and then erased from the list one after another. `Selfplay` adds the game threads,
which may switch nets within a game, the loading thread and the shutdown;
`Contribute` the task loops with `taskLoopMutex`, which they give up for
downloads, and two managers without write loops. A failed request to the
server, a failed download and a wrong checksum count as `MaxFailures`.

**SelfplayGame.** One game thread, since games share only the forks, whose mutex is
held for one access. `stage` is where `GameRunner::runGame` is: the game is created,
opened, played, its side positions are searched, forks are made, and its data
goes to the writer. The self-play bot plays both sides, and its root is kept apart
from the game's own position, as in the code. A search is what it is about:
`Found` is the position at the root and the number of the net. `Rows` puts the rows of
`writeGame` together; they are looked at when the game is handed over. Which move
is played, whether a position gets a side position, a newer net is there or the game is
forked is drawn at random in the code and open here. `overlaid` is history.
`PolicyInit` plays at most one move, and `TreePositions` goes one move below the root.

**Book, GenBook.** A book maps positions to nodes: moves, parents, the value of
its own search with the moves which that left out, the minimax value and the
costs. `Recompute` goes over the changed nodes and what leads to them, in the
order of the code. `GenBook` runs iterations of expansion, or traces lines;
`Restart` is a kill or an end of the process followed by a run from `file`.
Values of a search are any in `Values`. Beside the move of a line, the net may like
any others, in any order (`Better`).

## 3. Runs

| Run | Instance | Shows |
|---|---|---|
| `asyncbot` | 2 search ids, exceptions on | `EditsAlone`, `NoReportAfterAnswer`, `NoStaleStop`; `StopReturns`; `ImplementsService` |
| `asyncbot_throws` | the same | violation of `StopAlwaysReturns`: after an exception of the search every waiter waits for ever |
| `queue` | 2 producers, 2 consumers, capacity 2, 5 pushes | `NoMissedWakeup`, `FirstInFirstOut`, `EveryoneReleased` |
| `engine` | 2 threads, 2 requests, the second of higher priority, one of them reporting | `FinalIsLast`, `NoUseAfterFree`, `StopsItsOwnSearch`; `BotsFollowService`; `RequestsAreAnswered`, `QuitExits` |
| `nneval` | 2 clients, 1 server, batches of 2, ring of 4, 2 positions in one cache entry, both values of includeOwnerMap | `OneRowPerCall`, `WaitersAccounted`, `ResultIsTheOneAsked`; `CallsReturn` |
| `playouts` | 2 threads, a graph of 7 nodes in which two ways lead to one position, capacities 2, 3, 4 | `NoPlayoutLost`, `ExpandedIsReady`, `EdgesAccounted`; `OnlyForward`; `SearchEnds` |
| `reuse` | 4 nodes, 1 or 2 threads, 2 children a node | `TableIsTheTree`, `WalkIsPostOrderOnce`, `TasksOutliveTheirUse` |
| `gtp` | a 3x2 board, files with a 2x2 board, games of 2 moves | `PositionIsReplay`, `ResultIsOfBoard` |
| `selfplay` | 2 game threads, 2 addresses, 2 names, 3 loads, 2 games, queues of 1 | `NoUseAfterDelete`, `NoGameIsLost`; `ShutdownEnds` |
| `selfplay_game` | a 2x2 board, 2 samples, games of 2 searched moves, 1 fork, 2 side positions, 1 newer net | `RowsAreOfTheirPositions`, `NetsBehindAreCounted`, `ForksAreLegalGames` |
| `contribute` | 2 task loops, 1 game thread, 2 nets, one of them for selfplay and both to be rated | `GamesHaveTheirNets`, `RatingGamesAreBounded`; `ShutdownEnds` |
| `genbook` | 2 threads, 5 positions, 3 iterations, 3 lines to trace, 2 starts of the program | `LinksStayWhole`, `FileIsEvaluated`, `BookIsSettled` |

Every property is stated and explained at the end of its module.

**Bounds and why they are enough.**
- `MaxSearchId = 2`: two asynchronous searches, so that an answer may go to the
  wrong one. Calls are not bounded: the state space is finite without that.
- `MaxPushes = 5` with capacity 2: the vector is compacted, and `forcePush`
  overfills it. Two threads a side, so that one notification may be too few.
- `Requests`: two, so that a bot may go from one to the other while it is being
  stopped; the second overtakes the first in the queue. `MaxDuring = 1` reports
  during a search.
- `NumResultBufss` is the code's formula (`RingAssumption`). Two clients of
  batches of two fill a batch or leave it half full; the ring wraps round.
- `playouts` starts from the graph that five playouts leave (`MCInit`), whose
  root is full, so that the next new child makes it grow under both threads,
  and whose two arms meet in a position that is new to both. Its visits and edge
  visits are those such a search leaves. `MaxPlayouts = 1` playouts in a search,
  as in the code; several searches follow until `MaxVisits = 7`.
- `reuse`: four nodes make a root, two children and a shared grandchild.
  `AgeLimit = 2`, with ages up to `MaxAge = 3`, so that the ages run over the
  limit at which `beginSearch` clears the search (0x3FFFFFFF in the code). The nodes are
  interchangeable (`NodeSymmetry`; no liveness is checked there).
- `gtp`: `MaxMoves = 2` moves on top of `Setups`, which hold a chain one stone
  short on both sides, a board with one empty cell, a finished game, and a stone
  set over another. `NUM_RECENT_BOARDS = 2` makes the ring wrap. `MCGTPEngine`
  assumes, and TLC evaluates, `WinnerAssumption`: `checkWinner` agrees with the
  rules on every position of boards of 3x2, 2x3, 2x2, 1x3 and 3x1 and on every full 3x3 board.
- `selfplay`: three loads into two addresses, so that an address is used again.
  `maxGamesTotal = 2` with two threads, so that both loops see the limit.
- `selfplay_game`: one sample has a hint, the other a move that is illegal. On a 2x2
  board a game of two searched moves, after an opening and a policy move, may be won,
  passed or cut off. `MaxForks = 1`: games start from forks of games, and from forks of
  those. Two side positions are one and what follows from it, or one and a position of
  the tree. One newer net comes before, between or after any of them.
- `contribute`: one game thread suffices to let games outlive the task that
  queued them; `maxRatingMatches = 1` is exceeded by the second loop.
- `genbook`: the root has two moves that a symmetry exchanges, and two lines
  lead to one position. Three iterations with a save every two make a save with
  a book that goes on changing; the second start reads it. Threads are
  interchangeable (`ThreadSymmetry`).

**Fairness.** Threads that can run do, and locks are not withheld for ever:
weak fairness of each thread's steps. `EraseRequest` in `AnalysisEngine` has
strong fairness, as the mutex it wants is taken and released again by the api
thread; so has `FinishGame` in `Selfplay`, as a game goes back and forth between
playing and looking for a newer net. In `Contribute` downloads and games end.
Nothing is assumed to arrive from outside: input, calls of clients, stops,
signals, kills, spurious wakeups, limits of searches, reports coming due, newer
nets, tasks are never obliged to happen. Where a property needs that searches
reach their limit, or that newcomers stop calling, it says so itself
(`RequestsAreAnswered`, `CallsReturn`). `TreeReuse`, `GTPEngine`, `SelfplayGame` and
`GenBook` are checked for safety only. `Over`, `Exited` and `Stopped` mark the ends of a
program, so that TLC finds any other deadlock; only `gtp`, `genbook` and
`selfplay_game` switch the check off: a game, or a run of the program, may reach its
bound there, or have thrown.

**Mutants.** Each property has an operator `Mutant_...` beside the definition that
it varies, with the programming slip it stands for (a notification dropped, a
counter reset instead of decremented, a slot not looked at again under the
lock). Replacing the definition by it makes the property fail in its run.

**Finding.** `asyncbot.cpp:9`: an exception in the search is caught and logged, the
search thread ends, and `isRunning` stays set; `stopAndWait`, every setter and the
destructor then wait for ever (`asyncbot_throws`).

**Observations**, made while modelling, of what the code accepts or what no caller
meets today:
- `search.cpp:340`: `makeMove` overwrites the pointer to the old root with a copy of the
  child. The comment below says the sweep that follows deletes the old root, but it
  sweeps the node table, which the root is not in: one node leaks at every move.
- `play.cpp:1380`: the random first move is played without a look at whether it is legal
  and may put a stone upon another in a game that starts from a fork or a sample; the
  board's hash is then not that of its stones, and a fork of such a game throws in
  `replayGameUpToMove`, which ends the process (`stage = "thrown"`; a comment at
  `play.cpp:1874` calls it "a bug of some sort"). `ForksAreLegalGames` says that nothing
  else makes it throw.
- `play.cpp:1633`: the first value of a hinted game is replaced by the next although the
  random opening has made the hint inapplicable; `play.cpp:1628`: a game cut off by the
  turn limit has a final value of all zeros; `play.cpp:2221`: on a stop the fork that
  the game began from is not deleted.
- `threadsafequeue.h:181`: `clearUnsynchronized` does not reset `headIdx`, so
  `size()` of a closed queue can fail its assertion.
- `nneval.cpp:579`: `waitForNextNNEvalIfAny` may let a newcomer go with the token of
  a notified waiter, against `nneval.h:147`. The wait only paces playouts.
- `searchnode.cpp:294`: an edge visit counted while its array is being copied may
  be lost (a comment says so), so `EdgesAccounted` is an inequality after a growth.
- `prioritymutex.h:91`: `lockLowPriority` of the lock locks the mutex with high
  priority and unlocks it with low priority; no caller holds both today.
- `client.cpp:868`: a thread that waited for another one's download goes on without
  the mutex; it only looks at the file afterwards.
- `contribute.cpp:948`: the bound on rating games can be exceeded by one match
  per further task loop, since the lock is dropped for downloads between the
  check and the start (`RatingGamesAreBounded` states the bound that holds).
- `selfplay.cpp`: a net loaded under a name still in use throws in the loading
  thread, which ends the process (`main = "aborted"` in `Selfplay`).
- `search.cpp`: setting a position on a finished board, or clearing the history of
  one, leaves `isGameFinished` false; a player who moves twice resets the history
  and with it `initialTurnNumber`; `gtp.cpp` lets pondering start after a `play`
  that failed.
- `book.cpp`: `loadFromFile` makes every node expandable, whatever the file says.

## 4. Proofs

`AsyncBot_proofs` proves, for every `MaxSearchId` and whether or not searches may
raise exceptions:

- `Invariance`: `Inv` is an invariant. `Inv` strengthens what the runs check to
  something inductive: `SearchThreadInv` (only a running search occupies the
  search thread), `CallbackInv` (the reporting thread lives only between its
  launch and its join), `StopInv` (the flag stays up from the moment the search
  sees it, with a cause), `ClientInv` (what a client's position in its call says
  of the search), `IdInv` (an id about to be used is unanswered), `AnsweredOnce`.
  Without `SearchThreadInv` nothing excludes an edit during a search; without
  `CallbackInv` nothing excludes a report after its end; and without `IdInv`
  answers could double.
- from it `TypeCorrect`, `EditsAreExclusive`, `AnswerIsLast`,
  `SyncLocalOutlivesSearch`, `OneAnswerPerSearch`, `StopsAreFresh`, and the
  action properties `StopsAreKept` and `SyncCallsGetMoves`;
- `BotImplementsService`: the initial states map to initial states of
  `SearchService`, and every step to a step of it or none.

Of `GTPEngine`, `AsyncBot_proofs` proves `PositionIsReplay` (`RecordsAgree`) for boards of every
size, any setups and files, games of any length and any order of commands. `EngineInv` is
`Agrees` of the position, the history and the moves for undo: the history leads from its initial
board to the bot's board and its ring holds the last boards (`Led`); the engine's moves were legal
when they were played, lead to the same board, and end with those of the history (`Ends`). A move
keeps this in all three records, also when the history begins anew before it (`MoveAgrees`); so by
induction the moves of a replay lead to the same board with a history that agrees (`ReplayAgrees`), and
the moves of a file do as long as they are legal (`MovesAreTolerated`). `RecordedIsLed` is about the
ring: its index moves on modulo its length, and the boards before are where they were.

Of the result of the game it proves what is the engine's own part (`ResultsAreRecorded`): the
bot's board is one (`IsBoard`: its hash is that of its size and stones, its wall lies where the
size puts it), and a history that has a move has the result which `checkWinner` and the last move
give on this very board (`Knows`, a part of `Led`), also after an undo, a replay under other rules
or a file. The inductive part is that the first board of the game is one: it is empty, or stones
were set on an empty one, and each of the three ways of `setStone` keeps the hash
(`StoneIsPut`, `StoneIsTaken`, `SetStoneKeepsBoard`); legal moves then keep it (`MovesKeepBoard`).
`ResultsAreRight` is `ResultIsOfBoard` from a premise about single boards (`WinnerIsRight`): never
have both players joined their sides, on a full board one has, and `checkWinner` finds it. That is
the theorem of Hex with the correctness of a depth-first search, and says nothing of the engine;
`WinnerAssumption` lets TLC check it for all positions of five small boards and all full 3x3 boards.

Of `ThreadSafeQueue`, `AnalysisEngine_proofs` proves `QueueTypeCorrect`, `WakeupsAreNotMissed` and
`QueueIsFIFO` for any threads, any capacity and any number of elements. `FifoInv` adds
`OrderInv` to the type and to `NoMissedWakeup`: elements are numbered in the order
of their pushes, and what lies behind the head goes on where the popped ones
end. `ShiftProperties` says what the compaction leaves; `NotifyAllProperties`, that a
notification parks nobody.

`AnalysisEngine_proofs` proves `TypeCorrect`, `RequestsOutliveTheirUse` (no use
after delete), `FinalResponseIsLast`, `TerminatesStopTheirOwnSearch` and `BotsKeepToTheService` (each bot's
variables take only steps of `SearchService`) for any threads, requests and
priorities. `Inv` is the conjunction of `WorkerInv` (what a worker's position says of
the request it holds and of its bot), `QueueInv` (queued requests are distinct,
and in nobody's hands), `LiveInv` (whatever is queued, held or being terminated
is not deleted), `StatusInv` (a status that names a thread names the one that
holds the request), `ApiInv` (what the api thread's position in a terminate
says of `openMutex`). `LiveInv` rests on `openMutex` being kept during a terminate. For the final
responses `OwedInv` says who is to answer: a request that nobody has claimed is
unanswered, one that a thread has claimed is unanswered until that thread answers it, and
if the exchange in `terminateRequest` found it in the queue the api thread is to answer it
and no thread has claimed it or will.

`NNEvaluator_proofs` proves, for any number of clients and servers and any batch size,
`TypeCorrect`, `CallsHaveOneRow`, `AnswersAreTheOnesAsked`, `EveryWaiterIsCounted` and
`RingNeverOverflows`. `Inv` says which rows are in use (`RingInv`: those of the full
batches and the first `currentLen` of the current one; `ServerInv`: those a server has yet
to answer), that no two of them belong to one client (`RowsDiffer`) and that they belong to
the clients that wait (`RowsAreWaiting`). To go on to the next batch keeps `RingInv` only
if that batch is free. This is `RingHasRoom`, and the reason for the formula by which the
constructor chooses the length of the ring: were the next batch not free, all the others
would be full, and their rows would be an injection into the clients, which are at most
`MaxConcurrentEvals` (`ConstantsAssumption`), and too few by `RingAssumption`. For the
waiters, `WaiterCounts` adds what makes the sum of the counters inductive: nobody
sleeps while there is a token, and a counted waiter has a batch that is being computed
(`ServerCounts` ties the number of those to the servers).

Of `GenBook`, `NNEvaluator_proofs` proves `LinksStayWhole`, `FileIsEvaluated` and `BookIsSettled` for any
graph of positions with symmetries, any threads, any lines to trace and any number of iterations and
starts. `BookInv` says of book and file that they are well-formed (`IsBook`: every link is known
at both its ends, once, and every node but the root has a parent), and that the file has no node whose value was found with other moves left out
than it has (`Unevaluated`). Within an iteration the book has such nodes, so the
invariant says who is to give them a value:

- `ExpandInv`: a thread that has added a move has still to set the values of its node, and of the
  child if that is new. The nodes handed out are distinct and are not those in the queue (`NodesApart`), so
  what a thread read of its node's moves before its search still holds after it; the new
  child was in no queue, has no moves and nobody is at it (`HasNewChild`).
- `TraceInv`: a trace evaluates nothing. All such nodes are among those noted as changed,
  which rests on `AddFromPolicy` noting the node before it adds to it.
- `UpdateInv`: then each is in the queue, or in the hands of a thread, or the program is to
  stop. A trace that is stopped is not saved, otherwise the queue is empty when all have returned.
- `PhaseInv`: so there is none when an iteration begins and when the book is saved.

`AddMoveIsBook` is the step that matters for the links: a move that is not in the book, added by the
thread that has looked for it under the same lock, gives the node that is there, or a new one,
one more parent. Everything else, `Recompute` included, changes no link (`SameLinks`).

`BookIsSettled` adds two things, each of its own kind:

- The walks. `PostOrder` is the depth-first walk of the code with its stack (`WalkStep`), bounded by a
  number of steps that it never needs. `WalkInv` says of its stack that what a node leads to is
  done when the node is left (`AheadInv`) and that nodes lie above those that lead to them, by `Progress`
  (`TodoInv`), so a node on the stack is never met again from below. `StepsLeft` counts down to the end of the
  walk. `PostOrderIs` is the result: each node that can be reached within `allowed` is called on once, after
  all it leads to. Hence values are recomputed after those of the children (`NewRecsAre`), and costs after
  those of the parents (`NewCostsAre`), the first within `Dirty` only; since that is closed under
  parents, the nodes left out have no child that changes (`RecomputeSettles`).
- `SettleInv`: while threads expand the book, every node whose value is not the minimax of what the book has
  (`Unsettled`) is noted as changed, and so is what a thread works on (`Noticed`). So what `EndIteration`
  hands to `recompute` is enough. After a trace or a load everything is recomputed (`EverythingSettles`).

`SearchTree_proofs` proves `TypeCorrect`, `NodesAreReady` and `StatesOnlyMoveForward` of
`Spec`, that is from an empty graph on (`MCInit` only serves TLC), for any
finite graph of positions, any threads and any growing capacities of the three
arrays. `Inv` adds to the type:
- `NodeInv`: which parts a state publishes. It counts children as a prefix of the
  array (`FilledTo`) rather than by `Cardinality`, as the code counts them.
- `ThreadInv` for each thread, what it has made sure of before it goes on: what a
  call on the path has read of a state is not ahead of the node (`PathInv`), a
  leaf that is being claimed has an output and a visit (`LeafInv`), the chosen slot is one
  of the array that was read, with all the slots before it taken (`ChoiceInv`), and
  the new array is a copy of a full one so far (`CopyInv`). These are facts about
  readings that may be old when they are used; they last because of the next point.
- `HoldInv`: no two threads expand or grow the same node.

`Inv` alone would not be kept by the steps of other threads. `Forward` is what any step
may do to the nodes; that a thread's facts survive it is proved once
(the steps of others), and each action is then looked at for its own thread and nodes.
`NextInv` proves `Inv'` and `Forward` together.

It also proves `NoPlayoutLost` and `EdgesAccounted`, from a second inductive invariant on top
of `Inv`. `Accounts` is about who counts what:

- `ShapeInv`: the calls of a thread go down the graph one ply at a time (so that only the
  first is on the root), each on the child that the one before it holds.
- `LossInv`: the virtual losses of a node are as many as the calls that hold it, counted as
  pairs of a thread and a place in its path.
- `OwnInv`: a node that is being evaluated or grown has the one thread that does it. No node
  is left in such a state at the end.
- `DirtyInv`: a node's dirty counter is positive exactly while one thread is updating its
  statistics, and that thread knows how many of the marks it has counted.
- `RootInv`: what is due to the root is what it had before, the playouts that are over and
  those that have been counted but are not over. `Due(n)` adds to a node's visits the marks of
  its dirty counter, but for those that a thread has added already and is about to take off,
  and the visits that threads are about to mark. So no step but the counting of a visit at
  the node or its edge changes `Due` (`DueStep`), whichever thread adds it to the node.

At the end of a search nobody is at a counter and `Due` is the node's visits (`IdleDue`).
`EdgesInv` says for every node that `Due` is its own visit and those of its edges, or more
once its array has been replaced: an edge visit that is counted in the old array after its slot was
copied is missing in the new one. That it is never less rests on `CopyLags`: the visits
in a copy are never more than in what it is a copy of.

**`Selfplay_proofs`** proves `NoUseAfterDelete` for any number of game threads, nets
and addresses. The write loop of a net deletes it without asking who uses it, so the
invariant says why nobody can:

- `ListInv`: the list has no net twice; a listed net has its write loop, which goes on to
  its files only once the net is read-only, and a net is made read-only only when it is
  doomed (`removing`). The loop then waits for the mutex, which is held until the doomed
  nets have left the list. While there are games, the latest net is not doomed, so
  `acquireLatest` finds one.
- `CountInv`: the acquire count of a listed net is the number of places where a game
  thread holds it, and a held net is listed and not doomed. Cleanup dooms nets with a
  count of zero, so nobody holds them.
- `GameInv`: what a thread holds follows from where it is, and all threads have ended
  before the manager dooms every net.

An address that is used again comes back with a count of zero and no holders, as held
nets are listed (`LoadKeeps`).

It also proves `NoGameIsLost`, and that all finished games are written when the program
quits (`AllGamesAreWritten`). `GamesInv` adds where a game may be: a queue that is not
empty belongs to a net whose thread still waits for games (`QueueInv`), so no thread ends
with games left, and the manager's destructor waits for as many threads as there are
(`LoopsInv`). The games in the queues are counted as pairs of a net and a place
(`OneMorePlace`), since the provers have no induction for sums.

**`TreeReuse_proofs`** proves all three properties of `TreeReuse` for any finite or
infinite set of nodes, any number of threads, shards and children:

- `PoolInv`: who has the task. Each helper has been pushed it at most once, and the counter is
  the number of those that have not been pushed it yet and of those that are not done.
  So a counter of zero means that nobody has it, and the caller goes on only then.
- `HeapInv`, `TreeInv`: what is freed is blank, the nodes in the table are allocated, and the
  children of the tree's nodes are in the table, except while the table is emptied
  (`Clearing`). The table has other nodes only between a move of the root and the end of the
  sweep that follows (`Pruning`). `TreeInv` keeps the graph acyclic, without which a walk
  would not end in post-order.
- `WalkInv`: a marked node has been done once, and so have its children (`DoneInv`). Each
  thread's stack is a way down from the root: what is in a frame is in the tree, what is above
  it lies below its node, and each child that the frame has left behind is marked or is
  the next frame (`FrameInv`). An empty stack means that the root is marked. That two
  threads come to the same node and only one of them does it rests on the mark being set
  in the same step as the look at it.
- `SweepInv`: a sweep begins with the tree marked and nothing else; the shards of a thread
  that is done have only marked nodes.
- `StepsInv`: which step of an operation may follow which (`After`), so that a sweep has a
  walk before it, and nothing comes between emptying the table and forgetting the root.

**`Contribute_proofs`** proves `GamesHaveTheirNets` and `RatingGamesAreBounded` for any
number of task loops, game threads and nets:

- `ManagersInv`: in both managers, listed nets that are not doomed are loaded, none is listed
  twice, and every other address is free.
- `LoopsInv`: only the owner of `taskLoopMutex` is between loading and handing over
  a game, and once it has loaded its nets they are there. They are acquired in other critical
  sections of the managers' mutexes than they were loaded in; that they are still listed then
  rests on no other loop unloading anything before `taskLoopMutex` is given up.
- `HoldsInv`: the count of a net in a manager is the number of games, being put together,
  queued or played, that hold it there. A net with a count is not doomed by a cleanup.
- `GamesInv`: the loops end before the queue becomes read-only, and the threads that play
  after the queue is empty; a game in a queue or in a thread is complete.
- `BoundInv` and `CountInv`, on top of `Inv`: the counter is exactly the number of rating games
  queued or played. A loop may ask for a match only while one is allowed, but
  every other loop may have asked for one when it does, gone to download, and start later.
  So each loop between asking and starting, and the one that has started, is charged
  with its match, and these with the active games stay within
  `maxRatingMatches + Cardinality(TaskLoops) - 1` matches. The nets that are
  loaded are bounded in the same way, two for each match.

**`SelfplayGame_proofs`** proves `RowsAreOfTheirPositions`, `NetsBehindAreCounted` and
`ForksAreLegalGames` for boards of every size, any samples and games of any length. `GameInv`
says where a game stands between two of its steps:

- `PosInv`, `StartInv`: a position's hash is that of its stones, and unless the opening has put a
  stone upon another (`overlaid`), every move of the history took a free cell: from the
  initial board on, move by move. The game's first searched position has the same initial
  board, and may have a shorter history.
- `TurnsInv`: the moves since the first search lead from there to the present position, and
  the target of a turn is about the position before the turn's move. It is this that
  `PositionAt` of `writeGame` recomputes long after.
- `ValuesInv`: there is one value more than there are policy targets, once the play has ended, and
  the value of a turn is that turn's, but for the first one of a game with a hint.
- `NetsInv`: a net came before a turn exactly if the turn's target has seen it, so that the
  count of `changedNeuralNets` after a turn's index is the number of nets behind.
- `SidesInv`: a side position has its own target and the number of nets seen by then.
- `ReleasedInv`: between games nothing is left of the last one.
- `ForksInv`: a fork is a legal game that goes on. The replay of a game whose moves took free
  cells is legal up to where it stops (`ReplayIsGood`), as the same moves from the same initial
  board give the same boards again, with the same cells free.

Positions are given by a recursive function of the number of moves (`Positions`). That
its value at `k` is what the moves lead to is proved by induction on `k`: the library's
induction theorems take an operator, but well-foundedness of `<` on the numbers, which is
a fact about sets, gives a least counterexample (`Least`, `Induction`).

The assumptions are those named in the modules: `ConstantsAssumption` (bounds are
numbers, constants of different kinds differ), `GraphAssumption` (a move leads to a position
one ply later), `RingAssumption` (the constructor's formula), `ManagerAssumption` and
`SelfplayAssumption` (queues have room; threads, and addresses of nets, are finitely many),
`ContributeAssumption` (the same, at least one thread of each kind, and games that are
played at least once), `ReuseAssumption` (at least one thread and one shard, bounds are
numbers), `QueueAssumption`, `PositionsAssumption` (moves that a symmetry exchanges lead to one
position, and every move leads on: in Hex no stone is ever taken off the board and a pass ends the game, so
`Progress`, the stones on the board and one more for that pass, grows. The walks rely on it: a comment at
`book.cpp:1068` says that a cycle would be "broken arbitrarily"), `GenBookAssumption` (at least one thread; lines are sequences of numbers of moves), `BoardAssumption`, `GameAssumption`, `SampleAssumption` (the board
of a sample has the hash of its stones, as `Board::parseBoard` makes it, and the wall of its size; its moves are any), `ArgumentsAssumption` (board sizes, of
commands and of files, are those the arrays have room for; stones and moves are a place and a player
each, on the board and legal or not) and `SizeAssumption` (each array is larger than the one before and the last
has room for all the moves of a position). The proof that a step preserves an
invariant has one step per action. `BoundInv`, `CountInv`, `GamesInv` and `GameInv`, and
of `SearchTree` `Accounts`, `CopyLags` and `EdgesInv`, and of `GenBook` `BookInv` and `SettleInv`, were checked by TLC on the instances
of the runs before they were proved.

Model-checked only: liveness (TLAPS has no ENABLED here, so `ServiceProgresses` but
not `ImplementsService` rests on TLC), and of the safety properties the part of `ResultIsOfBoard`
that is the premise of `ResultsAreRight`: it is about paths in the grid, by an induction over
boards and over a recursive search that is out of this prover's reach.

## 5. Not modelled

- Within modelled parts: parsing, texts, logs and parameters everywhere; values,
  utilities, weights and policies (a choice that depends on them is a free
  choice); in `analysis.cpp` query_version and clear_cache; in `nneval.cpp` the
  post-processing and statistics; in `search.cpp` the filtering of a root's
  children for symmetry or avoided moves (623-709); in `gtp.cpp` `isForcingKomi`,
  clocks, and debugging commands such as search_debug, whose statistics are not kept; in
  `selfplaymanager.cpp` withDataWriters, which holds the manager's mutex during
  uploads; in `contribute.cpp` the loop that downloads ahead of time, uploads, HTTP
  and the second signal; in `book.cpp` all but one of the numbers that are minimaxed.
- Exceptions thrown within a task of the thread pool
  (`searchmultithreadhelpers.cpp:88`): what can throw there is outside of the models.
- `match.cpp` and `gatekeeper.cpp`, which are built from the same parts as
  `selfplay.cpp`; in `play.cpp` matches of two bots, komi, weights, surprise,
  resignation, asymmetric playouts and seki forks, an option that is off by default;
  the numbers in a row of training data; `subtreevaluebiastable`,
  `patternbonustable` and the time controls, which are sums and formulas in floating point.
- Net backends (Cuda, OpenCL, TensorRT, Eigen: numerical code behind
  `nninterface.h`), file formats, configuration, logging, tools, tests and vendored
  libraries. They are most of the lines of `src/`, and have no states that TLC could
  enumerate and that the properties above depend on.
