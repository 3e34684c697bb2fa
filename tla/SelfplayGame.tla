---------------------------- MODULE SelfplayGame ----------------------------
(* program/play.cpp in self-play, and the writer of its games in                                               *)
(* dataio/trainingwrite.cpp: one thread that plays game after game, its bot on both                            *)
(* sides, with the nets that it finds on the way; what the searches found is kept                              *)
(* beside the moves, and the rows of training data are put together afterwards.                                *)
(* Finished games leave forks, from which later games start; threads share nothing else.                       *)
(* Komi, weights and numbers are left out, so is the option of seki forks, which is off by default;            *)
(* whatever is drawn at random may happen.                                                                     *)
EXTENDS HexBoard

CONSTANTS
  BoardSize,              \* allowedBSizes
  PosSamples,             \* startPoses and hintPoses: [board, nextPla, moves, hintLoc]
  maxMovesPerGame,
  MaxForks,               \* bound: forks
  MaxSidePositions,       \* bound: side positions of a game
  MaxNetChanges           \* bound: newer nets in a game

ASSUME GameAssumption ==
  /\ BoardSize \in Sizes
  /\ {maxMovesPerGame, MaxForks, MaxSidePositions, MaxNetChanges} \subseteq Nat

(* PositionSample::ofJsonLine and Board::parseBoard: the boards of samples are boards, hash and all.           *)
ASSUME SampleAssumption ==
  \A sample \in PosSamples :
    /\ IsBoard(sample.board) /\ sample.nextPla \in Players
    /\ sample.moves \in Seq([loc : Nat, pla : Nat])

VARIABLES
  forks,                            \* ForkData::forks
  shouldStop,
  stage,                            \* where the thread is in GameRunner::runGame
  pos, start,                       \* [board, hist, pla]: of the game, and of its first search
  props,                            \* OtherGameProperties
  bot,                              \* the root of the search, and the number of its net
  policyTargets, valueTargets,      \* by turn: what a search of the bot has found, or the result
  changedNeuralNets,                \* the turns before which newer nets came
  sidePositionsToSearch, sidePositions,
  overlaid                          \* history: the opening has put a stone upon another

data == <<policyTargets, valueTargets, changedNeuralNets, sidePositionsToSearch, sidePositions>>
vars == <<forks, shouldStop, stage, pos, start, props, bot, data, overlaid>>

-------------------------------------------------------------------------------
NewPosition(board, pla) == [board |-> board, hist |-> NewHistory(board, pla, "hex", 0), pla |-> pla]

(* BoardHistory::makeBoardMoveAssumeLegal, and the other player's turn.                                        *)
MakeMove(p, loc) ==
  LET board == playMoveAssumeLegal(p.board, loc, p.pla)
  IN  [board |-> board, hist |-> RecordMove(p.hist, board, loc, p.pla), pla |-> getOpp(p.pla)]

LegalMoves(p) == {loc \in OnSize(p.board.size) \cup {PASS_LOC} : isLegal(p.board, loc, p.pla)}
NumMoves(p) == Len(p.hist.moveHistory)
IsFinished(p) == p.hist.isGameFinished

(* The positions before the first of the moves, and after each of them.                                        *)
Positions(p, moves) ==
  LET at[k \in 0..Len(moves)] == IF k = 0 THEN p ELSE MakeMove(at[k - 1], moves[k].loc) IN at

(* What a target or a row is about: the stones, the moves before, and whose turn it is.                        *)
Subject(p) == <<p.board.colors, p.hist.moveHistory, p.pla>>
Found(b) == [subject |-> Subject(b.root), net |-> b.net]
FinalValue(winner) == [winner |-> winner]

NoProps == [isFork |-> FALSE, isHintFork |-> FALSE, hintLoc |-> NULL_LOC, hintTurn |-> 0 - 1,
            hintPosHash |-> {}]
EmptyPosition == NewPosition(NewBoard(BoardSize), C_BLACK)
NoBot == [root |-> EmptyPosition, net |-> 0]

(* What a game has gathered is handed over or thrown away, and its bot deleted.                                *)
Release ==
  /\ policyTargets' = <<>> /\ valueTargets' = <<>> /\ changedNeuralNets' = <<>>
  /\ sidePositionsToSearch' = <<>> /\ sidePositions' = <<>>
  /\ bot' = NoBot

Init ==
  /\ forks = <<>> /\ shouldStop = FALSE /\ stage = "none"
  /\ pos = EmptyPosition /\ start = EmptyPosition /\ props = NoProps
  /\ bot = NoBot
  /\ policyTargets = <<>> /\ valueTargets = <<>> /\ changedNeuralNets = <<>>
  /\ sidePositionsToSearch = <<>> /\ sidePositions = <<>>
  /\ overlaid = FALSE

(* A signal, as a game finds it; between games it only ends the thread.                                        *)
Stop ==
  /\ ~shouldStop /\ stage \in {"play", "side"}
  /\ shouldStop' = TRUE
  /\ UNCHANGED <<forks, stage, pos, start, props, bot, data, overlaid>>

-------------------------------------------------------------------------------
(* createGame, from a fork if there is one.                                                                    *)
Begin(p, newProps) ==
  /\ stage = "none" /\ ~shouldStop
  /\ stage' = "opening"
  /\ pos' = p /\ props' = newProps
  /\ UNCHANGED <<shouldStop, start, bot, data, overlaid>>

BeginFromFork(r) ==
  /\ Begin(forks[r].position,
           [NoProps EXCEPT !.isFork = TRUE, !.isHintFork = forks[r].isHintFork,
                           !.hintTurn = IF forks[r].isHintFork THEN NumMoves(forks[r].position) ELSE 0 - 1])
  /\ forks' = Front([forks EXCEPT ![r] = Last(forks)])

BeginFromEmptyBoard ==
  /\ forks = <<>> /\ Begin(EmptyPosition, NoProps) /\ UNCHANGED forks

(* The moves of a sample up to the first that is illegal, with which the hint is dropped.                      *)
BeginFromSample(sample) ==
  LET played == playMovesTolerant(sample.board, sample.nextPla,
                                  NewHistory(sample.board, sample.nextPla, "hex", 0), sample.moves)
  IN  /\ forks = <<>> /\ UNCHANGED forks
      /\ Begin([board |-> played.board, hist |-> played.hist, pla |-> played.nextPla],
               [NoProps EXCEPT !.hintLoc = IF played.ok THEN sample.hintLoc ELSE NULL_LOC,
                               !.hintTurn = Len(played.hist.moveHistory),
                               !.hintPosHash = played.board.pos_hash])

(* A first move anywhere, whether or not it is legal, or none.                                                 *)
Openings == {NULL_LOC} \cup OnSize(pos.board.size)
Opened(loc) == IF loc = NULL_LOC THEN pos ELSE MakeMove(pos, loc)

(* initializeGameUsingPolicy.                                                                                  *)
allowPolicyInit == ~props.isFork /\ props.hintLoc = NULL_LOC
PolicyInit(p, loc) == IF loc = NULL_LOC THEN p ELSE MakeMove(p, loc)

(* Mutant: the bot is given the position that the game had before its opening.                                 *)
Mutant_SearchFromOpening(p) == pos

SearchFrom(p) == p

Open(loc, next) ==
  LET p == PolicyInit(Opened(loc), next)
  IN  /\ stage = "opening" /\ stage' = "play"
      /\ next # NULL_LOC => allowPolicyInit /\ next \in LegalMoves(Opened(loc))
      /\ pos' = p /\ start' = p
      /\ bot' = [root |-> SearchFrom(p), net |-> 0]
      /\ overlaid' = (loc # NULL_LOC /\ ~isLegal(pos.board, loc, pos.pla))
      /\ UNCHANGED <<forks, shouldStop, props, data>>

-------------------------------------------------------------------------------
(* maybeCheckForNewNNEval.                                                                                     *)
CheckForNewNNEval(newer, nextTurnIdx, root) ==
  /\ newer => Len(changedNeuralNets) < MaxNetChanges
  /\ bot' = [root |-> root, net |-> bot.net + (IF newer THEN 1 ELSE 0)]
  /\ changedNeuralNets' = IF newer THEN Append(changedNeuralNets, nextTurnIdx) ELSE changedNeuralNets

NumSides == Len(sidePositionsToSearch) + Len(sidePositions)

(* recordTreePositions: positions that the search has visited, one move below the root (the code goes          *)
(* on to the fifth), not below the moves that are played or searched anyway.  A finished game has no           *)
(* children there.                                                                                             *)
Below(p, excluded) ==
  {q \in {MakeMove(p, loc) : loc \in LegalMoves(p) \ excluded} : ~IsFinished(q)}
SidePosition(p, subject) ==
  [position |-> p, target |-> [subject |-> subject, net |-> bot.net],
   numNeuralNetChangesSoFar |-> Len(changedNeuralNets)]
TreePositions(p, excluded) ==
  {<<>>} \cup {<<SidePosition(q, Subject(q))>> : q \in Below(p, excluded)}

(* Mutant: the first turn that the newer net is noted for is the one it was not there for.                     *)
Mutant_NextTurnIdx(p) == NumMoves(p)

NextTurnIdx(p) == NumMoves(p) + 1

(* One turn: a search, its targets, a move of another choice to be searched later, positions of the            *)
(* tree, the move, and perhaps a newer net.                                                                    *)
PlayTurn(loc, forkLoc, newer) ==
  /\ stage = "play" /\ ~shouldStop /\ ~IsFinished(pos)
  /\ Len(policyTargets) < maxMovesPerGame
  /\ loc \in LegalMoves(bot.root)
  /\ policyTargets' = Append(policyTargets, Found(bot))
  /\ valueTargets' = Append(valueTargets, Found(bot))
  /\ LET side == IF forkLoc = NULL_LOC THEN pos ELSE MakeMove(pos, forkLoc)
     IN  sidePositionsToSearch' = IF forkLoc = NULL_LOC \/ IsFinished(side) THEN sidePositionsToSearch
                                  ELSE Append(sidePositionsToSearch, side)
  /\ \E tree \in TreePositions(pos, {loc, forkLoc}) : sidePositions' = sidePositions \o tree
  /\ NumSides' <= MaxSidePositions
  /\ pos' = MakeMove(pos, loc)
  /\ CheckForNewNNEval(newer, NextTurnIdx(pos), MakeMove(bot.root, loc))
  /\ UNCHANGED <<forks, shouldStop, stage, start, props, overlaid>>

(* The end of the game, of its moves or of the program.  The value of a first search that had a hint           *)
(* is replaced by the next one.                                                                                *)
EndPlay ==
  LET values == Append(valueTargets, FinalValue(pos.hist.winner))
  IN  /\ stage = "play" /\ (IsFinished(pos) \/ shouldStop \/ Len(policyTargets) = maxMovesPerGame)
      /\ stage' = "side"
      /\ valueTargets' = IF props.hintLoc # NULL_LOC
                           THEN [values EXCEPT ![1] = values[IF Len(values) = 1 THEN 1 ELSE 2]] ELSE values
      /\ UNCHANGED <<forks, shouldStop, pos, start, props, bot, policyTargets, changedNeuralNets,
                     sidePositionsToSearch, sidePositions, overlaid>>

(* A side position is searched, and sometimes what comes after the answer to it and another move.              *)
FollowUps(p) ==
  LET answered == {MakeMove(p, loc) : loc \in LegalMoves(p)}
      forked == UNION {{MakeMove(q, loc) : loc \in LegalMoves(q)} : q \in {r \in answered : ~IsFinished(r)}}
  IN  {<<>>} \cup {<<q>> : q \in {r \in forked : ~IsFinished(r)}}

SearchSidePosition(newer) ==
  /\ stage = "side" /\ sidePositionsToSearch # <<>> /\ ~shouldStop
  /\ LET p == Head(sidePositionsToSearch)
     IN  /\ \E next \in FollowUps(p) : sidePositionsToSearch' = Tail(sidePositionsToSearch) \o next
         /\ \E tree \in TreePositions(p, {}) :
              sidePositions' = sidePositions \o <<SidePosition(p, Subject(p))>> \o tree
         /\ NumSides' <= MaxSidePositions
         /\ CheckForNewNNEval(newer, NumMoves(pos), p)
  /\ UNCHANGED <<forks, shouldStop, stage, pos, start, props, policyTargets, valueTargets, overlaid>>

(* When the program stops the rest is not searched, and the game is thrown away.                               *)
EndGame ==
  /\ stage = "side" /\ (sidePositionsToSearch = <<>> \/ shouldStop)
  /\ \/ shouldStop /\ stage' = "none" /\ Release
     \/ ~shouldStop /\ stage' = "fork" /\ UNCHANGED <<bot, data>>
  /\ UNCHANGED <<forks, shouldStop, pos, start, props, overlaid>>

-------------------------------------------------------------------------------
(* Mutant: the replay begins at the position of the first search.                                              *)
Mutant_ReplayStart == NewPosition(start.board, start.pla)

ReplayStart == NewPosition(start.hist.initialBoard, start.hist.initialPla)

(* replayGameUpToMove: the moves before the given one, until one ends the game, or is illegal: then it throws. *)
Replay(moveIdx) ==
  LET moves == pos.hist.moveHistory
      n == CASE moves = <<>> -> 0
             [] moves # <<>> /\ moveIdx < Len(moves) -> moveIdx
             [] OTHER -> Len(moves) - 1
      GoesOn(at, k) == k < n /\ ~IsFinished(at[k]) /\ isLegal(at[k].board, moves[k + 1].loc, at[k].pla)
      End(at) == CHOOSE k \in 0..n : ~GoesOn(at, k) /\ \A j \in 0..(k - 1) : GoesOn(at, j)
      Through(at) ==
        LET last == End(at) IN [position |-> at[last], thrown |-> last < n /\ ~IsFinished(at[last])]
  IN  Through(Positions(ReplayStart, SubSeq(moves, 1, n)))

(* Mutant: a fork is kept although its move has ended the game.                                                *)
Mutant_AddFork(p, isHintFork) == forks' = Append(forks, [position |-> p, isHintFork |-> isHintFork])

AddFork(p, isHintFork) ==
  forks' = IF IsFinished(p) THEN forks ELSE Append(forks, [position |-> p, isHintFork |-> isHintFork])

(* maybeForkGame at any move of the game, also of those before its start; a thread that throws                 *)
(* ends the process.  Forks are made from the moves alone, so the data goes to the writer at once.             *)
ForkGame(moveIdx) ==
  LET replay == Replay(moveIdx)
  IN  /\ stage = "fork" /\ Len(forks) < MaxForks
      /\ stage' = IF replay.thrown THEN "thrown" ELSE "hintFork"
      /\ \/ (replay.thrown \/ IsFinished(replay.position)) /\ UNCHANGED forks
         \/ /\ ~replay.thrown /\ ~IsFinished(replay.position)
            /\ \E loc \in LegalMoves(replay.position) : AddFork(MakeMove(replay.position, loc), FALSE)
      /\ Release /\ UNCHANGED <<shouldStop, pos, start, props, overlaid>>

DontForkGame ==
  /\ stage = "fork" /\ stage' = "hintFork"
  /\ Release /\ UNCHANGED <<forks, shouldStop, pos, start, props, overlaid>>

(* maybeHintForkGame, when the game has not gone the way of the hint.                                          *)
HintWasDeclined ==
  /\ props.hintLoc # NULL_LOC /\ start.board.pos_hash = props.hintPosHash
  /\ NumMoves(start) = props.hintTurn /\ NumMoves(pos) > NumMoves(start)
  /\ pos.hist.moveHistory[NumMoves(start) + 1].loc # props.hintLoc

HintForkGame ==
  LET replay == Replay(NumMoves(start))
  IN  /\ stage = "hintFork"
      /\ stage' = IF HintWasDeclined /\ replay.thrown THEN "thrown" ELSE "none"
      /\ \/ /\ HintWasDeclined /\ ~replay.thrown /\ ~IsFinished(replay.position)
            /\ props.hintLoc \in LegalMoves(replay.position)
            /\ AddFork(MakeMove(replay.position, props.hintLoc), TRUE)
         \/ /\ ~HintWasDeclined \/ replay.thrown \/ IsFinished(replay.position)
                 \/ props.hintLoc \notin LegalMoves(replay.position)
            /\ UNCHANGED forks
      /\ UNCHANGED <<shouldStop, pos, start, props, bot, data, overlaid>>

-------------------------------------------------------------------------------
(* TrainingDataWriter::writeGame: the moves are played again from the start, and each turn, and                *)
(* each side position, gets a row.                                                                             *)
PositionAt(i) ==
  Positions(start, SubSeq(pos.hist.moveHistory, NumMoves(start) + 1, NumMoves(pos)))[i]

Behind(turnIdx) ==
  LET later == {i \in DOMAIN changedNeuralNets : changedNeuralNets[i] > turnIdx}
  IN  IF later = {} THEN 0 ELSE Len(changedNeuralNets) - (CHOOSE i \in later : \A j \in later : i <= j) + 1

NumTurns == NumMoves(pos) - NumMoves(start)
MainRow(i) ==
  [subject |-> Subject(PositionAt(i - 1)), policy |-> policyTargets[i], value |-> valueTargets[i],
   behind |-> Behind(NumMoves(start) + i - 1), side |-> FALSE]
SideRow(i) ==
  [subject |-> Subject(sidePositions[i].position), policy |-> sidePositions[i].target,
   value |-> sidePositions[i].target,
   behind |-> Len(changedNeuralNets) - sidePositions[i].numNeuralNetChangesSoFar, side |-> TRUE]

Rows == {MainRow(i) : i \in 1..NumTurns} \cup {SideRow(i) : i \in DOMAIN sidePositions}

Next ==
  \/ Stop \/ BeginFromEmptyBoard \/ EndPlay \/ EndGame \/ DontForkGame \/ HintForkGame
  \/ \E r \in DOMAIN forks : BeginFromFork(r)
  \/ \E sample \in PosSamples : BeginFromSample(sample)
  \/ \E loc \in Openings, next \in {NULL_LOC} \cup LegalMoves(pos) : Open(loc, next)
  \/ \E loc \in LegalMoves(pos), forkLoc \in {NULL_LOC} \cup LegalMoves(pos), newer \in BOOLEAN :
       loc # forkLoc /\ PlayTurn(loc, forkLoc, newer)
  \/ \E newer \in BOOLEAN : SearchSidePosition(newer)
  \/ \E moveIdx \in 0..NumMoves(pos) : ForkGame(moveIdx)

Spec == Init /\ [][Next]_vars

-------------------------------------------------------------------------------
(* A row of training data joins a position with what a search found in this very position, although            *)
(* it was found long before, by a bot that has its own copy of the game and goes off to side positions,        *)
(* and the writer plays the moves again: only the value of the first search of a game with a hint is           *)
(* that of its successor.  There is a row for every turn, as writeGame asserts.                                *)
RowsAreOfTheirPositions ==
  stage = "fork" =>
    /\ Len(policyTargets) = NumTurns /\ Len(valueTargets) = NumTurns + 1
    /\ \A row \in Rows :
         /\ row.policy.subject = row.subject
         /\ \/ row.value = row.policy
            \/ props.hintLoc # NULL_LOC /\ ~row.side /\ row.subject = Subject(start) /\ row.value = valueTargets[2]

(* The number in a row of nets that its own one is behind the last of the game is right, whenever newer        *)
(* nets came: between turns, after the last, while the side positions were searched.                           *)
NetsBehindAreCounted ==
  stage = "fork" => \A row \in Rows : row.policy.net + row.behind = bot.net

(* Forks are games that go on: legal moves of alternating players from an initial position that end where      *)
(* the fork starts, with the game unfinished.  The replay that makes them throws only for a game whose opening *)
(* put a stone upon another (createGame gives positions with stones, and the first move is not checked).       *)
IsLegalGame(p) ==
  LET moves == p.hist.moveHistory
      at == Positions(NewPosition(p.hist.initialBoard, p.hist.initialPla), moves)
  IN  /\ \A k \in DOMAIN moves :
           /\ ~IsFinished(at[k - 1]) /\ moves[k].pla = at[k - 1].pla
           /\ isLegal(at[k - 1].board, moves[k].loc, moves[k].pla)
      /\ at[Len(moves)] = p /\ p.board.pos_hash = HashOf(p.board)
ForksAreLegalGames ==
  /\ \A i \in DOMAIN forks : IsLegalGame(forks[i].position) /\ ~IsFinished(forks[i].position)
  /\ stage = "thrown" => overlaid
===============================================================================
