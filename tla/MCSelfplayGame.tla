--------------------------- MODULE MCSelfplayGame ---------------------------
EXTENDS SelfplayGame

MCBoardSize == <<2, 2>>
Cell(x, y) == getLoc(x, y, MCBoardSize)
Board(x, y, pla) == setStone(NewBoard(MCBoardSize), Cell(x, y), pla)
(* A position with a hint, and one whose second move is illegal.               *)
MCPosSamples ==
  {[board |-> Board(0, 0, C_BLACK), nextPla |-> C_WHITE, moves |-> <<>>, hintLoc |-> Cell(1, 0)],
   [board |-> NewBoard(MCBoardSize), nextPla |-> C_BLACK, hintLoc |-> NULL_LOC,
    moves |-> <<[loc |-> Cell(0, 0), pla |-> C_BLACK], [loc |-> Cell(0, 0), pla |-> C_WHITE]>>]}
=============================================================================
