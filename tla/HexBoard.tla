------------------------------ MODULE HexBoard ------------------------------
(* game/board.cpp and game/boardhistory.cpp: the Hex board and the history of a   *)
(* game, as values and the operators that make new ones.  The board is one array   *)
(* with a wall around and between its rows; black joins the top to the bottom,      *)
(* white the left to the right.  A Zobrist hash is the set of the keys that have    *)
(* been folded into it, so XOR is the symmetric difference and keys never collide. *)
EXTENDS Integers, Sequences, FiniteSets, SequencesExt

CONSTANTS
  MAX_LEN,            \* COMPILE_MAX_BOARD_LEN
  NUM_RECENT_BOARDS

ASSUME BoardAssumption == MAX_LEN \in Nat \ {0} /\ NUM_RECENT_BOARDS \in Nat \ {0}

C_EMPTY == 0
C_BLACK == 1
C_WHITE == 2
C_WALL  == 3
Players == {C_BLACK, C_WHITE}
getOpp(pla) == 3 - pla

NULL_LOC == 0
PASS_LOC == 1
Cells == 0..((MAX_LEN + 1) * (MAX_LEN + 2))
Sizes == (1..MAX_LEN) \X (1..MAX_LEN)

getLoc(x, y, size) == (x + 1) + (y + 1) * (size[1] + 1)
getX(loc, size) == (loc % (size[1] + 1)) - 1
getY(loc, size) == (loc \div (size[1] + 1)) - 1
OnSize(size) == {getLoc(x, y, size) : x \in 0..(size[1] - 1), y \in 0..(size[2] - 1)}

(* The first six offsets: the neighbours of a hexagon.                              *)
AdjOffsets(size) ==
  LET row == size[1] + 1 IN <<0 - row, 0 - 1, 1, row, row - 1, 1 - row>>

-------------------------------------------------------------------------------
Xor(hash, key) == (hash \ {key}) \cup ({key} \ hash)
StoneKey(loc, pla) == <<"stone", loc, pla>>
SizeKeys(size) == {<<"x", size[1], 0>>, <<"y", size[2], 0>>}

NewBoard(size) ==
  [size |-> size,
   colors |-> [l \in Cells |-> IF l \in OnSize(size) THEN C_EMPTY ELSE C_WALL],
   pos_hash |-> SizeKeys(size)]

isOnBoard(board, loc) == loc \in Cells /\ board.colors[loc] # C_WALL

isLegal(board, loc, pla) ==
  pla \in Players /\ (loc = PASS_LOC \/ (loc \in Cells /\ board.colors[loc] = C_EMPTY))

WithColor(board, loc, color, hash) ==
  [board EXCEPT !.colors = [l \in Cells |-> IF l = loc THEN color ELSE board.colors[l]], !.pos_hash = hash]

playMoveAssumeLegal(board, loc, pla) ==
  IF loc = PASS_LOC THEN board
  ELSE WithColor(board, loc, pla, Xor(board.pos_hash, StoneKey(loc, pla)))

(* Mutant: the key of the stone stays in the hash.                                   *)
Mutant_RemoveKeepsKey(board, loc) == WithColor(board, loc, C_EMPTY, board.pos_hash)

removeSingleStone(board, loc) ==
  WithColor(board, loc, C_EMPTY, Xor(board.pos_hash, StoneKey(loc, board.colors[loc])))

setStone(board, loc, color) ==
  IF ~isOnBoard(board, loc) \/ color \notin Players \cup {C_EMPTY} \/ board.colors[loc] = color THEN board
  ELSE IF board.colors[loc] = C_EMPTY THEN playMoveAssumeLegal(board, loc, color)
  ELSE IF color = C_EMPTY THEN removeSingleStone(board, loc)
  ELSE playMoveAssumeLegal(removeSingleStone(board, loc), loc, color)

AtFarEdge(loc, size, color) ==
  IF color = C_BLACK THEN getY(loc, size) = size[2] - 1 ELSE getX(loc, size) = size[1] - 1

(* isWinHelper: a depth first search, which marks what it has visited.                *)
Explore(board, color) ==
  LET explore[visited \in SUBSET Cells, loc \in Cells] ==
        IF board.colors[loc] # color \/ loc \in visited THEN [win |-> FALSE, visited |-> visited]
        ELSE IF AtFarEdge(loc, board.size, color) THEN [win |-> TRUE, visited |-> visited]
        ELSE FoldLeft(LAMBDA found, offset :
                        IF found.win THEN found ELSE explore[found.visited, loc + offset],
                      [win |-> FALSE, visited |-> visited \cup {loc}], AdjOffsets(board.size))
  IN  explore

NearEdge(size, color) ==
  IF color = C_BLACK THEN [i \in 1..size[1] |-> getLoc(i - 1, 0, size)]
  ELSE [i \in 1..size[2] |-> getLoc(0, i - 1, size)]

Wins(board, color) ==
  LET explore == Explore(board, color)
  IN  FoldLeft(LAMBDA found, loc : IF found.win THEN found ELSE explore[found.visited, loc],
               [win |-> FALSE, visited |-> {}], NearEdge(board.size, color)).win

checkWinner(board) ==
  IF Wins(board, C_BLACK) THEN C_BLACK ELSE IF Wins(board, C_WHITE) THEN C_WHITE ELSE C_EMPTY

-------------------------------------------------------------------------------
(* BoardHistory(board, pla, rules), and setInitialTurnNumber.                          *)
NewHistory(board, pla, rules, turnNumber) ==
  [rules |-> rules, initialBoard |-> board, initialPla |-> pla, initialTurnNumber |-> turnNumber,
   moveHistory |-> <<>>, presumedNextMovePla |-> pla, isGameFinished |-> FALSE, winner |-> C_EMPTY,
   recentBoards |-> [i \in 0..(NUM_RECENT_BOARDS - 1) |-> board], currentRecentBoardIdx |-> 0]

getRecentBoard(hist, numMovesAgo) ==
  hist.recentBoards[(hist.currentRecentBoardIdx - numMovesAgo + NUM_RECENT_BOARDS)
                      % NUM_RECENT_BOARDS]

(* setWinner after a pass, and then maybeFinishGame, which may overrule it.              *)
Result(board, loc, pla) ==
  LET winner == checkWinner(board)
  IN  IF winner # C_EMPTY THEN winner ELSE IF loc = PASS_LOC THEN getOpp(pla) ELSE C_EMPTY

(* Mutant: the ring is written before its index moves on.                                 *)
Mutant_RecentSlotEarly(hist) == hist.currentRecentBoardIdx

(* Where the next board goes in the ring.                                                   *)
RecentSlot(hist) == (hist.currentRecentBoardIdx + 1) % NUM_RECENT_BOARDS

(* makeBoardMoveAssumeLegal, for the board as it is after the move.                       *)
RecordMove(hist, board, loc, pla) ==
  LET winner == Result(board, loc, pla)
  IN  [hist EXCEPT
         !.moveHistory = Append(@, [loc |-> loc, pla |-> pla]),
         !.presumedNextMovePla = getOpp(pla),
         !.isGameFinished = winner # C_EMPTY, !.winner = winner,
         !.recentBoards[RecentSlot(hist)] = board,
         !.currentRecentBoardIdx = (@ + 1) % NUM_RECENT_BOARDS]

(* makeBoardMoveTolerant for each of the moves: what CompactSgf::playMovesTolerant has     *)
(* played when it comes to an illegal move, if it does.                                    *)
PlayTolerant(game, move) ==
  IF ~game.ok \/ ~isLegal(game.board, move.loc, move.pla) THEN [game EXCEPT !.ok = FALSE]
  ELSE LET board == playMoveAssumeLegal(game.board, move.loc, move.pla)
       IN  [nextPla |-> getOpp(move.pla), board |-> board,
            hist |-> RecordMove(game.hist, board, move.loc, move.pla), ok |-> TRUE]
playMovesTolerant(board, nextPla, hist, moves) ==
  LET played[k \in 0..Len(moves)] ==
        IF k = 0 THEN [nextPla |-> nextPla, board |-> board, hist |-> hist, ok |-> TRUE]
        ELSE PlayTolerant(played[k - 1], moves[k])
  IN  played[Len(moves)]

-------------------------------------------------------------------------------
(* Reference definitions, from the rules of Hex and not from the code: cells of a          *)
(* rhombus, two of them adjacent when they share a side; a player wins who has joined its   *)
(* two sides.                                                                                *)
Neighbours(p, q) ==
  <<q[1] - p[1], q[2] - p[2]>> \in {<<0, 1>>, <<0, -1>>, <<1, 0>>, <<-1, 0>>, <<1, -1>>, <<-1, 1>>}
Stones(board, color) ==
  {p \in (0..(board.size[1] - 1)) \X (0..(board.size[2] - 1)) :
     board.colors[getLoc(p[1], p[2], board.size)] = color}
Joined(board, color) ==
  LET stones == Stones(board, color)
      side == IF color = C_BLACK THEN 2 ELSE 1
      Grow[n \in Nat] ==
        IF n = 0 THEN {p \in stones : p[side] = 0}
        ELSE LET reached == Grow[n - 1]
             IN  reached \cup {q \in stones : \E p \in reached : Neighbours(p, q)}
  IN  \E p \in Grow[Cardinality(stones)] : p[side] = board.size[side] - 1
(* Never have both joined their sides, on a full board one has, and checkWinner finds it.    *)
WinnerIsRight(board) ==
  LET joined == {pla \in Players : Joined(board, pla)}
  IN  /\ Cardinality(joined) <= 1
      /\ (\A l \in OnSize(board.size) : board.colors[l] # C_EMPTY) => joined # {}
      /\ checkWinner(board) \in (IF joined = {} THEN {C_EMPTY} ELSE joined)
HashOf(board) ==
  SizeKeys(board.size)
    \cup {StoneKey(l, board.colors[l]) : l \in {k \in Cells : board.colors[k] \in Players}}
IsBoard(board) ==
  /\ board = [size |-> board.size, colors |-> board.colors, pos_hash |-> HashOf(board)]
  /\ board.size \in Sizes /\ board.colors \in [Cells -> C_EMPTY..C_WALL]
  /\ \A l \in Cells : board.colors[l] = C_WALL <=> l \notin OnSize(board.size)
===============================================================================
