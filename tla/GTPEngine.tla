----------------------------- MODULE GTPEngine ------------------------------
(* command/gtp.cpp with the position of search/search.cpp: the main thread reads     *)
(* one command after another and edits the position of the bot, which is kept twice: *)
(* as the root of the search, whose history is cleared when a player moves twice in   *)
(* a row, and as the initial board and the moves that undo replays.  Between the      *)
(* commands the bot may ponder or analyze; AsyncBot makes it stop before any edit.     *)
(* One command is one action, with the stop of an analysis that comes before it and    *)
(* the pondering that may come after it.  Parsing, parameters and clocks are left out. *)
EXTENDS HexBoard

CONSTANTS
  BoardSizes,         \* arguments of boardsize
  Setups,             \* arguments of set_position: sequences of stones
  Sgfs,               \* files for loadsgf: [size, placements, nextPla, moves, rules]
  TaxRules, Komis,
  ponderingEnabled,
  MaxMoves            \* bound: moves in moveHistory

(* What the parsers let through: sizes that the arrays have room for, stones and moves that *)
(* are a place and a player each, on the board and legal or not.                            *)
ASSUME ArgumentsAssumption ==
  /\ BoardSizes \subseteq Sizes
  /\ \A stones \in Setups : stones \in Seq([loc : Nat, pla : Players])
  /\ \A sgf \in Sgfs : /\ sgf.size \in Sizes /\ sgf.placements \in Seq([loc : Nat, pla : Nat])
                       /\ sgf.moves \in Seq([loc : Nat, pla : Nat])

VARIABLES
  rootPla, rootBoard, rootHistory,     \* the position of the bot's search
  searching,                           \* what the bot is doing: "none", "ponder", "analyze"
  currentRules, initialBoard, initialPla, moveHistory,
  nnLen,                               \* nnXLen and nnYLen of the evaluator
  currentlyAnalyzing,
  responseIsError

bot == <<rootPla, rootBoard, rootHistory>>
game == <<initialBoard, initialPla, moveHistory>>
engine == <<bot, searching, currentRules, game, nnLen, currentlyAnalyzing, responseIsError>>

Rules == [tax: TaxRules, komi: Komis]
Moves == [loc: OnSize(rootBoard.size) \cup {PASS_LOC}, pla: Players]

(* Search::setPosition and the fields of the engine.                                      *)
setPositionAndRules(pla, board, hist, newInitialBoard, newInitialPla, newMoveHistory) ==
  /\ rootPla' = pla /\ rootBoard' = board /\ rootHistory' = hist
  /\ currentRules' = hist.rules
  /\ initialBoard' = newInitialBoard /\ initialPla' = newInitialPla
  /\ moveHistory' = newMoveHistory

EmptyGame(size) ==
  LET board == NewBoard(size)
  IN  setPositionAndRules(C_BLACK, board, NewHistory(board, C_BLACK, currentRules, 0),
                          board, C_BLACK, <<>>)

EngineInit ==
  \E size \in BoardSizes, rules \in Rules :
    LET board == NewBoard(size)
    IN  /\ rootPla = C_BLACK /\ rootBoard = board
        /\ rootHistory = NewHistory(board, C_BLACK, rules, 0)
        /\ currentRules = rules
        /\ initialBoard = board /\ initialPla = C_BLACK /\ moveHistory = <<>>
        /\ nnLen = size
        /\ searching = "none" /\ currentlyAnalyzing = FALSE /\ responseIsError = FALSE

-------------------------------------------------------------------------------
(* Search::setPlayerAndClearHistory, if it is the other player's turn.                       *)
ForPlayer(pos, pla) ==
  IF pla = pos.pla THEN pos
  ELSE [pla |-> pla, board |-> pos.board, hist |-> NewHistory(pos.board, pla, pos.hist.rules, 0)]

(* Mutant: the history goes on when a player moves twice.                                     *)
Mutant_MakeMoveKeepsHistory(pos, move) ==
  LET board == playMoveAssumeLegal(pos.board, move.loc, move.pla)
  IN  [pla |-> getOpp(pos.pla), board |-> board,
       hist |-> RecordMove(pos.hist, board, move.loc, pos.pla)]

(* Search::makeMove of a legal move.                                                         *)
MakeMove(pos, move) ==
  LET p == ForPlayer(pos, move.pla)
      board == playMoveAssumeLegal(p.board, move.loc, p.pla)
  IN  [pla |-> getOpp(p.pla), board |-> board, hist |-> RecordMove(p.hist, board, move.loc, p.pla)]

Root == [pla |-> rootPla, board |-> rootBoard, hist |-> rootHistory]
SetRoot(pos) == rootPla' = pos.pla /\ rootBoard' = pos.board /\ rootHistory' = pos.hist

numStonesOnBoard(board) == Cardinality({l \in Cells : board.colors[l] \in Players})

(* Around every command: an analysis is stopped before it, whatever it is; after one that      *)
(* asks for it the bot ponders.                                                                *)
Respond(isError) == responseIsError' = isError /\ currentlyAnalyzing' = FALSE
StillSearching == IF currentlyAnalyzing THEN "none" ELSE searching
Idles == searching' = "none"
PonderIf(wanted) == searching' = IF wanted /\ ponderingEnabled THEN "ponder" ELSE "none"
UnchangedPosition == UNCHANGED <<bot, currentRules, game, nnLen>>

-------------------------------------------------------------------------------
(* A command that only reads, an unknown one, and one whose arguments are refused.             *)
OtherCommand ==
  /\ \E isError \in BOOLEAN : Respond(isError)
  /\ searching' = StillSearching
  /\ UnchangedPosition

Stop == Respond(FALSE) /\ Idles /\ UnchangedPosition

(* setOrResetBoardSize.                                                                         *)
BoardSize(size) ==
  /\ Respond(FALSE)
  /\ nnLen' = size
  /\ IF size = nnLen
       THEN searching' = StillSearching /\ UNCHANGED <<bot, currentRules, game>>
       ELSE Idles /\ EmptyGame(size)

ClearBoard ==
  /\ EmptyGame(rootBoard.size)
  /\ Respond(FALSE) /\ Idles /\ UNCHANGED nnLen

(* AsyncBot::setKomiIfNew stops the bot, and the rules change in both places.                   *)
Komi(newKomi) ==
  /\ Respond(FALSE)
  /\ PonderIf(rootHistory.moveHistory # <<>>)
  /\ rootHistory' = [rootHistory EXCEPT !.rules.komi = newKomi]
  /\ currentRules' = [currentRules EXCEPT !.komi = newKomi]
  /\ UNCHANGED <<rootPla, rootBoard, game, nnLen>>

(* The positions before the first of the moves, and after each of them.                          *)
Positions(pos, moves) ==
  LET at[k \in 0..Len(moves)] == IF k = 0 THEN pos ELSE MakeMove(at[k - 1], moves[k]) IN at

(* The bot's position after the moves of a replay, from the initial board.                       *)
Replay(moves, rules) ==
  LET hist == NewHistory(initialBoard, initialPla, rules, rootHistory.initialTurnNumber)
      first == [pla |-> initialPla, board |-> initialBoard, hist |-> hist]
  IN  Positions(first, moves)[Len(moves)]

(* kata-set-rules, kata-set-rule and kgs-rules with rules that parse.  Every network that the      *)
(* program starts with supports all of them.                                                      *)
SetRules(tax) ==
  LET newRules == [tax |-> tax, komi |-> currentRules.komi]
  IN  /\ currentRules' = newRules
      /\ SetRoot(Replay(moveHistory, newRules))
      /\ Respond(FALSE) /\ Idles /\ UNCHANGED <<game, nnLen>>

Play(move) ==
  /\ PonderIf(TRUE)
  /\ UNCHANGED <<currentRules, initialBoard, initialPla, nnLen>>
  /\ \/ /\ ~isLegal(rootBoard, move.loc, move.pla)
        /\ Respond(TRUE) /\ UNCHANGED <<bot, moveHistory>>
     \/ /\ isLegal(rootBoard, move.loc, move.pla)
        /\ Respond(FALSE)
        /\ SetRoot(MakeMove(Root, move)) /\ moveHistory' = Append(moveHistory, move)

(* The boards before the first of the stones is set, and after each of them.                      *)
Placed(board, stones) ==
  LET at[k \in 0..Len(stones)] ==
        IF k = 0 THEN board ELSE setStone(at[k - 1], stones[k].loc, stones[k].pla)
  IN  at

(* Stones on free cells of the board, one after the other.                                        *)
SetPosition(stones) ==
  LET at == Placed(NewBoard(rootBoard.size), stones)
      board == at[Len(stones)]
      free == \A k \in 1..Len(stones) : /\ isOnBoard(at[k - 1], stones[k].loc)
                                       /\ at[k - 1].colors[stones[k].loc] = C_EMPTY
  IN  /\ Respond(~free) /\ UNCHANGED nnLen
      /\ \/ ~free /\ searching' = StillSearching /\ UNCHANGED <<bot, currentRules, game>>
         \/ /\ free /\ Idles
            /\ setPositionAndRules(C_BLACK, board,
                                   NewHistory(board, C_BLACK, currentRules, numStonesOnBoard(board)),
                                   board, C_BLACK, <<>>)

(* undo, which replays all moves but the last.                                                    *)
Undo ==
  /\ UNCHANGED <<currentRules, nnLen, initialBoard, initialPla>>
  /\ \/ /\ moveHistory = <<>>
        /\ Respond(TRUE) /\ searching' = StillSearching /\ UNCHANGED <<bot, moveHistory>>
     \/ /\ moveHistory # <<>>
        /\ Respond(FALSE) /\ Idles
        /\ moveHistory' = Front(moveHistory)
        /\ SetRoot(Replay(Front(moveHistory), currentRules))

(* genmove and its relatives: the bot searches for pla, and what it has chosen is NULL_LOC if       *)
(* every move was to be avoided.  It is played unless the engine resigns or the command is           *)
(* search_debug.                                                                                     *)
GenMove(move, played) ==
  LET pos == ForPlayer(Root, move.pla)
  IN  /\ UNCHANGED <<currentRules, initialBoard, initialPla, nnLen>>
      /\ \/ /\ move.loc = NULL_LOC \/ ~played
            /\ Respond(move.loc = NULL_LOC) /\ Idles
            /\ SetRoot(pos) /\ UNCHANGED moveHistory
         \/ /\ isLegal(pos.board, move.loc, move.pla) /\ played
            /\ Respond(FALSE) /\ PonderIf(TRUE)
            /\ SetRoot(MakeMove(pos, move)) /\ moveHistory' = Append(moveHistory, move)

Analyze(pla) ==
  /\ SetRoot(ForPlayer(Root, pla))
  /\ searching' = "analyze"
  /\ currentlyAnalyzing' = TRUE /\ responseIsError' = FALSE
  /\ UNCHANGED <<currentRules, game, nnLen>>

(* loadsgf, of the first moves of a file: nothing changes unless all of them are legal.               *)
LoadSgf(sgf, moveNumber) ==
  LET board == Placed(NewBoard(sgf.size), sgf.placements)[Len(sgf.placements)]
      hist == NewHistory(board, sgf.nextPla, sgf.rules, numStonesOnBoard(board))
  IN  \E played \in {playMovesTolerant(board, sgf.nextPla, hist, SubSeq(sgf.moves, 1, moveNumber))} :
      /\ Respond(~played.ok)
      /\ \/ ~played.ok /\ searching' = StillSearching /\ UnchangedPosition
         \/ /\ played.ok /\ Idles
            /\ nnLen' = sgf.size
            /\ setPositionAndRules(played.nextPla, played.board, played.hist, board, sgf.nextPla,
                                   played.hist.moveHistory)

(* A search that reaches its limit; an analysis then waits for the next line.                          *)
SearchEnds ==
  /\ searching # "none"
  /\ searching' = "none"
  /\ UNCHANGED <<bot, currentRules, game, nnLen, currentlyAnalyzing, responseIsError>>

MayMove == Len(moveHistory) < MaxMoves
EngineNext ==
  \/ OtherCommand \/ Stop \/ ClearBoard \/ Undo \/ SearchEnds
  \/ \E size \in BoardSizes : BoardSize(size)
  \/ \E k \in Komis : Komi(k)
  \/ \E tax \in TaxRules : SetRules(tax)
  \/ \E stones \in Setups : SetPosition(stones)
  \/ \E pla \in Players : Analyze(pla)
  \/ \E sgf \in Sgfs : \E n \in 0..Len(sgf.moves) : LoadSgf(sgf, n)
  \/ MayMove /\ \E move \in Moves : Play(move)
  \/ MayMove /\ \E move \in Moves \cup [loc: {NULL_LOC}, pla: Players], played \in BOOLEAN :
       GenMove(move, played)

EngineSpec == EngineInit /\ [][EngineNext]_engine

-------------------------------------------------------------------------------
(* The boards that the moves lead through.                                                 *)
Boards(board, moves) ==
  LET at[k \in 0..Len(moves)] ==
        IF k = 0 THEN board ELSE playMoveAssumeLegal(at[k - 1], moves[k].loc, moves[k].pla)
  IN  at
BoardAfter(board, moves) == Boards(board, moves)[Len(moves)]
AreLegal(board, moves) ==
  \A k \in 1..Len(moves) : isLegal(Boards(board, moves)[k - 1], moves[k].loc, moves[k].pla)

(* getRecentBoard(k) is the board k moves ago, or the first one of the history.             *)
RecentBoardsArePast(hist) ==
  \A k \in 0..(NUM_RECENT_BOARDS - 1) :
    LET n == Len(hist.moveHistory)
    IN  getRecentBoard(hist, k)
          = Boards(hist.initialBoard, hist.moveHistory)[IF k > n THEN 0 ELSE n - k]

(* The three records of one position agree, whatever commands came before: the moves    *)
(* that undo and the rules commands replay are legal (they assert it) and lead from the  *)
(* engine's initial board to the bot's board; so do those of the bot's history, which is  *)
(* the end of the game since a player last moved twice; both have the same rules, and the    *)
(* recent boards of the history are those of its moves.                                   *)
PositionIsReplay ==
  /\ RecentBoardsArePast(rootHistory)
  /\ AreLegal(initialBoard, moveHistory) /\ BoardAfter(initialBoard, moveHistory) = rootBoard
  /\ BoardAfter(rootHistory.initialBoard, rootHistory.moveHistory) = rootBoard
  /\ IsSuffix(rootHistory.moveHistory, moveHistory)
  /\ rootHistory.rules = currentRules
  /\ rootPla = rootHistory.presumedNextMovePla

(* A history that has a move knows the result of its game: the player who has joined     *)
(* the two sides, else the opponent of one who has just passed; never are both joined,    *)
(* and on a full board exactly one is.  The hash is that of the stones on the board.        *)
ResultIsOfBoard ==
  LET joined == {pla \in Players : Joined(rootBoard, pla)}
      last == Last(rootHistory.moveHistory)
  IN  /\ WinnerIsRight(rootBoard)
      /\ rootHistory.moveHistory # <<>> =>
           /\ rootHistory.isGameFinished = (joined # {} \/ last.loc = PASS_LOC)
           /\ joined # {} => rootHistory.winner \in joined
           /\ joined = {} /\ last.loc = PASS_LOC => rootHistory.winner = getOpp(last.pla)
      /\ rootBoard.pos_hash = HashOf(rootBoard)
===============================================================================
