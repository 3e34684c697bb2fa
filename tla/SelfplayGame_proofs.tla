------------------------ MODULE SelfplayGame_proofs ------------------------
(* Proofs about SelfplayGame, for boards of every size, any samples and any bounds: that *)
(* a row of training data is of the position that its targets were found in, that it    *)
(* counts the nets that came after its own, and that forks are legal games. They rest on *)
(* what the moves of a game lead to, move by move (Positions), proved by induction on    *)
(* the number of moves; Induction below gets that from the well-foundedness of <.        *)
EXTENDS SelfplayGame, SequenceTheorems, WellFoundedInduction, TLAPS

LessThan == {p \in Nat \X Nat : p[1] < p[2]}

LEMMA Least ==
  ASSUME NEW T \in SUBSET Nat, T # {}
  PROVE  \E x \in T : \A y \in T : x <= y
<1>1. OpToRel(<, Nat) = LessThan
  BY DEF OpToRel, LessThan
<1>2. IsWellFoundedOn(LessThan, Nat)
  BY <1>1, NatLessThanWellFounded
<1>3. \E x \in T : \A y \in T : <<y, x>> \notin LessThan
  <2> HIDE DEF LessThan
  <2> QED  BY <1>2, WFMin
<1>4. \A x, y \in T : <<y, x>> \notin LessThan => x <= y
  BY DEF LessThan
<1> QED
  BY <1>3, <1>4

LEMMA Induction ==
  ASSUME NEW n \in Nat, NEW S, 0 \in S, \A k \in 0..(n - 1) : k \in S => k + 1 \in S
  PROVE  \A k \in 0..n : k \in S
<1> DEFINE T == {k \in 0..n : k \notin S}
<1> SUFFICES ASSUME T # {} PROVE FALSE
  OBVIOUS
<1>1. T \in SUBSET Nat
  OBVIOUS
<1>2. PICK x \in T : \A y \in T : x <= y
  BY <1>1, Least
<1>3. x \in 0..n /\ x \notin S /\ x # 0
  OBVIOUS
<1>4. x - 1 \in 0..(n - 1) /\ x - 1 \in 0..n /\ (x - 1) + 1 = x /\ x - 1 \notin T
  BY <1>2, <1>3
<1> QED
  BY <1>3, <1>4

LEMMA PositionsDef ==
  ASSUME NEW p, NEW moves, Len(moves) \in Nat
  PROVE  Positions(p, moves) =
           [k \in 0..Len(moves) |->
              IF k = 0 THEN p ELSE MakeMove(Positions(p, moves)[k - 1], moves[k].loc)]
<1> DEFINE n == Len(moves)
           Step(q, k) == MakeMove(q, moves[k].loc)
           Is(g, m) == g = [k \in 0..m |-> IF k = 0 THEN p ELSE Step(g[k - 1], k)]
           S == {m \in 0..n : \E g : Is(g, m)}
<1>1. 0 \in S
  <2> DEFINE h == [k \in 0..0 |-> p]
  <2>1. Is(h, 0)
    <3>1. \A k \in 0..0 : h[k] = (IF k = 0 THEN p ELSE Step(h[k - 1], k))
      OBVIOUS
    <3> HIDE DEF Step
    <3> QED  BY <3>1
  <2> HIDE DEF h
  <2> QED  BY <2>1
<1>2. ASSUME NEW m \in 0..(n - 1), m \in S  PROVE m + 1 \in S
  <2> HIDE DEF Step
  <2>1. PICK g : Is(g, m)
    BY <1>2
  <2> DEFINE h == [k \in 0..(m + 1) |-> IF k = m + 1 THEN Step(g[m], k) ELSE g[k]]
  <2>2. ASSUME NEW k \in 0..(m + 1)
        PROVE  h[k] = IF k = 0 THEN p ELSE Step(h[k - 1], k)
    <3>1. CASE k = m + 1
      BY <3>1
    <3>2. CASE k # m + 1
      BY <2>1, <3>2
    <3> QED  BY <3>1, <3>2
  <2>3. Is(h, m + 1)
    BY <2>2
  <2> HIDE DEF h, Is
  <2> QED  BY <2>3
<1>3. n \in S
  <2>1. n \in Nat
    OBVIOUS
  <2>2. \A k \in 0..(n - 1) : k \in S => k + 1 \in S
    BY <1>2
  <2> HIDE DEF S, n
  <2>3. \A k \in 0..n : k \in S
    BY <1>1, <2>1, <2>2, Induction
  <2> QED  BY <2>1, <2>3
<1>4. PICK g : Is(g, n)
  BY <1>3
<1>5. Positions(p, moves) = CHOOSE f : Is(f, n)
  BY DEF Positions
<1>6. Is(Positions(p, moves), n)
  <2> HIDE DEF Is
  <2> QED  BY <1>4, <1>5
<1> QED
  BY <1>6
-------------------------------------------------------------------------------
(* What is known of a position, whatever its game was like.                            *)
Colors == [Cells -> C_EMPTY..C_WALL]
Moves == [loc : Cells, pla : Players]
IsSeq(s) == s \in Seq(Range(s))

IsPosition(p) ==
  /\ p = [board |-> p.board, hist |-> p.hist, pla |-> p.pla]
  /\ p.pla \in Players
  /\ p.board = [size |-> p.board.size, colors |-> p.board.colors, pos_hash |-> p.board.pos_hash]
  /\ p.board.size \in Sizes /\ p.board.colors \in Colors
  /\ p.hist = [rules |-> p.hist.rules, initialBoard |-> p.hist.initialBoard,
               initialPla |-> p.hist.initialPla, initialTurnNumber |-> p.hist.initialTurnNumber,
               moveHistory |-> p.hist.moveHistory, presumedNextMovePla |-> p.hist.presumedNextMovePla,
               isGameFinished |-> p.hist.isGameFinished, winner |-> p.hist.winner,
               recentBoards |-> p.hist.recentBoards,
               currentRecentBoardIdx |-> p.hist.currentRecentBoardIdx]
  /\ IsBoard(p.hist.initialBoard) /\ p.hist.initialPla \in Players
  /\ p.hist.moveHistory \in Seq(Moves)

(* The free cells are those that were free and that no move has taken, ...             *)
Free(p, k, loc) ==
  /\ p.hist.initialBoard.colors[loc] = C_EMPTY
  /\ \A j \in 1..k : p.hist.moveHistory[j].loc # loc
FreeCells(p) ==
  \A loc \in Cells \ {PASS_LOC} : p.board.colors[loc] = C_EMPTY <=> Free(p, NumMoves(p), loc)

(* ... and every move took a free one, or passed.                                      *)
TookFreeCells(p) ==
  \A k \in 1..NumMoves(p) :
    LET loc == p.hist.moveHistory[k].loc IN loc = PASS_LOC \/ Free(p, k - 1, loc)

Good(p) == IsPosition(p) /\ FreeCells(p) /\ TookFreeCells(p) /\ IsLegalGame(p)

ForksInv == forks \in Seq(Range(forks)) /\ \A i \in DOMAIN forks :
  Good(forks[i].position) /\ ~IsFinished(forks[i].position)

PosInv ==
  /\ IsPosition(pos) /\ FreeCells(pos)
  /\ stage = "opening" \/ ~overlaid => TookFreeCells(pos)
  /\ stage = "thrown" => overlaid

Playing == stage \in {"play", "side", "fork"}
StartInv ==
  Playing \/ stage = "hintFork" =>
    /\ IsPosition(start)
    /\ start.hist.initialBoard = pos.hist.initialBoard
    /\ start.hist.initialPla = pos.hist.initialPla

ReleasedInv ==
  /\ stage \in {"none", "opening", "play", "side", "fork", "hintFork", "thrown"}
  /\ ~Playing =>
    /\ policyTargets = <<>> /\ valueTargets = <<>> /\ changedNeuralNets = <<>>
    /\ sidePositionsToSearch = <<>> /\ sidePositions = <<>>

(* The moves since the first search, and the positions between them.                    *)
MovesBetween(p, q) == SubSeq(q.hist.moveHistory, NumMoves(p) + 1, NumMoves(q))
TurnsInv ==
  Playing =>
    /\ IsSeq(policyTargets)
    /\ NumMoves(pos) = NumMoves(start) + Len(policyTargets)
    /\ PositionAt(Len(policyTargets)) = pos
    /\ \A i \in 1..Len(policyTargets) : policyTargets[i].subject = Subject(PositionAt(i - 1))

ValuesInv ==
  /\ IsSeq(valueTargets)
  /\ stage = "play" => valueTargets = policyTargets /\ bot.root = pos
  /\ stage \in {"side", "fork"} =>
       /\ Len(valueTargets) = Len(policyTargets) + 1
       /\ \A i \in 1..Len(policyTargets) :
            \/ valueTargets[i] = policyTargets[i]
            \/ i = 1 /\ props.hintLoc # NULL_LOC /\ valueTargets[1] = valueTargets[2]

(* A net has come before a turn exactly if it is one of those that the target has seen.  *)
NetsInv ==
  /\ changedNeuralNets \in Seq(Nat)
  /\ Playing =>
       /\ bot.net = Len(changedNeuralNets)
       /\ \A k \in DOMAIN changedNeuralNets : changedNeuralNets[k] <= NumMoves(pos)
       /\ \A i \in 1..Len(policyTargets) :
            /\ policyTargets[i].net \in 0..Len(changedNeuralNets)
            /\ \A k \in DOMAIN changedNeuralNets :
                 changedNeuralNets[k] > NumMoves(start) + i - 1 <=> k > policyTargets[i].net

SidesInv ==
  /\ IsSeq(sidePositions)
  /\ \A i \in 1..Len(sidePositions) :
       /\ sidePositions[i].target.subject = Subject(sidePositions[i].position)
       /\ sidePositions[i].target.net = sidePositions[i].numNeuralNetChangesSoFar
       /\ sidePositions[i].numNeuralNetChangesSoFar \in 0..Len(changedNeuralNets)

GameInv ==
  /\ ForksInv /\ PosInv /\ StartInv /\ ReleasedInv
  /\ TurnsInv /\ ValuesInv /\ NetsInv /\ SidesInv

-------------------------------------------------------------------------------
LEMMA PositionsSteps ==
  ASSUME NEW p, NEW moves, Len(moves) \in Nat
  PROVE  /\ Positions(p, moves)[0] = p
         /\ \A k \in 1..Len(moves) :
              Positions(p, moves)[k] = MakeMove(Positions(p, moves)[k - 1], moves[k].loc)
<1> DEFINE at == Positions(p, moves)
<1>1. at = [k \in 0..Len(moves) |-> IF k = 0 THEN p ELSE MakeMove(at[k - 1], moves[k].loc)]
  BY PositionsDef
<1> HIDE DEF at
<1> QED
  BY <1>1 DEF at

LEMMA PositionsPrefix ==
  ASSUME NEW p, NEW moves, NEW more, Len(moves) \in Nat, Len(more) \in Nat,
         NEW n \in Nat, n <= Len(moves), n <= Len(more),
         \A k \in 1..n : moves[k].loc = more[k].loc
  PROVE  \A k \in 0..n : Positions(p, moves)[k] = Positions(p, more)[k]
<1> DEFINE S == {k \in 0..n : Positions(p, moves)[k] = Positions(p, more)[k]}
<1>1. 0 \in S
  BY PositionsSteps
<1>2. \A k \in 0..(n - 1) : k \in S => k + 1 \in S
  <2> SUFFICES ASSUME NEW k \in 0..(n - 1), k \in S  PROVE k + 1 \in S
    OBVIOUS
  <2>1. k + 1 \in 1..Len(moves) /\ k + 1 \in 1..Len(more) /\ (k + 1) - 1 = k /\ k + 1 \in 0..n
    OBVIOUS
  <2>2. Positions(p, moves)[k + 1] = MakeMove(Positions(p, moves)[k], moves[k + 1].loc)
    BY <2>1, PositionsSteps
  <2>3. Positions(p, more)[k + 1] = MakeMove(Positions(p, more)[k], more[k + 1].loc)
    BY <2>1, PositionsSteps
  <2>4. moves[k + 1].loc = more[k + 1].loc
    BY <2>1
  <2> QED  BY <2>1, <2>2, <2>3, <2>4
<1>3. \A k \in 0..n : k \in S
  <2> HIDE DEF S
  <2> QED  BY <1>1, <1>2, Induction
<1> QED
  BY <1>3

LEMMA PassIsCell == PASS_LOC \in Cells /\ NULL_LOC # PASS_LOC
<1>1. (MAX_LEN + 1) * (MAX_LEN + 2) \in Nat /\ 1 <= (MAX_LEN + 1) * (MAX_LEN + 2)
  BY BoardAssumption
<1> QED
  BY <1>1 DEF PASS_LOC, NULL_LOC, Cells

LEMMA OnSizeIsCells ==
  ASSUME NEW size \in Sizes
  PROVE  OnSize(size) \subseteq Cells
<1> SUFFICES ASSUME NEW x \in 0..(size[1] - 1), NEW y \in 0..(size[2] - 1)
             PROVE  getLoc(x, y, size) \in Cells
  BY DEF OnSize
<1>1. size[1] \in 1..MAX_LEN /\ size[2] \in 1..MAX_LEN /\ MAX_LEN \in Nat
  BY BoardAssumption DEF Sizes
<1> DEFINE w == size[1] + 1
           h == y + 1
<1>2. w \in Nat /\ h \in Nat /\ w <= MAX_LEN + 1 /\ h <= MAX_LEN
  BY <1>1
<1>3. h * w \in Nat /\ h * w <= MAX_LEN * (MAX_LEN + 1)
  <2> HIDE DEF w, h
  <2>1. \A a, b, c, d \in Nat : a <= c /\ b <= d => a * b \in Nat /\ a * b <= c * d
    OBVIOUS
  <2> QED  BY <1>1, <1>2, <2>1
<1>4. x + 1 \in Nat /\ x + 1 <= MAX_LEN
  BY <1>1
<1>5. MAX_LEN * (MAX_LEN + 1) + MAX_LEN <= (MAX_LEN + 1) * (MAX_LEN + 2)
  BY <1>1
<1>6. (MAX_LEN + 1) * (MAX_LEN + 2) \in Nat
  BY <1>1
<1>7. getLoc(x, y, size) = (x + 1) + h * w
  BY DEF getLoc
<1> HIDE DEF w, h
<1> QED
  BY <1>1, <1>3, <1>4, <1>5, <1>6, <1>7 DEF Cells

LEMMA LegalMove ==
  ASSUME NEW p, IsPosition(p), NEW loc \in LegalMoves(p)
  PROVE  loc \in Cells /\ isLegal(p.board, loc, p.pla)
  BY OnSizeIsCells, PassIsCell DEF IsPosition, LegalMoves

LEMMA MadeMove ==
  ASSUME NEW p, IsPosition(p), NEW loc \in Cells
  PROVE  LET q == MakeMove(p, loc) IN
         /\ q.pla = getOpp(p.pla)
         /\ q.board.size = p.board.size
         /\ q.hist.initialBoard = p.hist.initialBoard /\ q.hist.initialPla = p.hist.initialPla
         /\ q.hist.moveHistory = Append(p.hist.moveHistory, [loc |-> loc, pla |-> p.pla])
         /\ q.board.colors \in Colors
         /\ \A l \in Cells : q.board.colors[l] =
              IF loc # PASS_LOC /\ l = loc THEN p.pla ELSE p.board.colors[l]
         /\ q.board.pos_hash = IF loc = PASS_LOC THEN p.board.pos_hash
                               ELSE Xor(p.board.pos_hash, StoneKey(loc, p.pla))
         /\ IsPosition(q)
<1> DEFINE board == playMoveAssumeLegal(p.board, loc, p.pla)
           hist == RecordMove(p.hist, board, loc, p.pla)
           q == MakeMove(p, loc)
<1>1. q = [board |-> board, hist |-> hist, pla |-> getOpp(p.pla)]
  BY DEF MakeMove
<1>2. /\ p.board = [size |-> p.board.size, colors |-> p.board.colors, pos_hash |-> p.board.pos_hash]
      /\ p.board.size \in Sizes /\ p.board.colors \in Colors /\ p.pla \in Players
  BY DEF IsPosition
<1>3. /\ board.size = p.board.size
      /\ board.colors \in Colors
      /\ \A l \in Cells : board.colors[l] =
           IF loc # PASS_LOC /\ l = loc THEN p.pla ELSE p.board.colors[l]
      /\ board.pos_hash = IF loc = PASS_LOC THEN p.board.pos_hash
                          ELSE Xor(p.board.pos_hash, StoneKey(loc, p.pla))
      /\ board = [size |-> board.size, colors |-> board.colors, pos_hash |-> board.pos_hash]
  <2>1. CASE loc = PASS_LOC
    BY <1>2, <2>1 DEF playMoveAssumeLegal
  <2>2. CASE loc # PASS_LOC
    <3> DEFINE hash == Xor(p.board.pos_hash, StoneKey(loc, p.pla))
               colors == [l \in Cells |-> IF l = loc THEN p.pla ELSE p.board.colors[l]]
    <3>1. board = [p.board EXCEPT !.colors = colors, !.pos_hash = hash]
      BY <2>2 DEF playMoveAssumeLegal, WithColor
    <3> HIDE DEF board, hash, colors
    <3>2. board = [size |-> p.board.size, colors |-> colors, pos_hash |-> hash]
      BY <1>2, <3>1
    <3>3. colors \in Colors
      BY <1>2 DEF colors, Colors, Players, C_BLACK, C_WHITE, C_EMPTY, C_WALL
    <3>4. board.size = p.board.size /\ board.colors = colors /\ board.pos_hash = hash
      BY <3>2
    <3>5. board = [size |-> board.size, colors |-> board.colors, pos_hash |-> board.pos_hash]
      BY <3>2, <3>4
    <3> QED  BY <2>2, <3>3, <3>4, <3>5 DEF colors, hash
  <2> QED  BY <2>1, <2>2
<1> DEFINE h == p.hist
<1>4. h = [rules |-> h.rules, initialBoard |-> h.initialBoard, initialPla |-> h.initialPla,
           initialTurnNumber |-> h.initialTurnNumber, moveHistory |-> h.moveHistory,
           presumedNextMovePla |-> h.presumedNextMovePla, isGameFinished |-> h.isGameFinished,
           winner |-> h.winner, recentBoards |-> h.recentBoards,
           currentRecentBoardIdx |-> h.currentRecentBoardIdx]
  BY DEF IsPosition
<1> DEFINE winner == Result(board, loc, p.pla)
           recent == [h.recentBoards EXCEPT ![RecentSlot(h)] = board]
           idx == (h.currentRecentBoardIdx + 1) % NUM_RECENT_BOARDS
           moves == Append(h.moveHistory, [loc |-> loc, pla |-> p.pla])
<1>5. hist = [h EXCEPT !.moveHistory = moves, !.presumedNextMovePla = getOpp(p.pla),
                       !.isGameFinished = winner # C_EMPTY, !.winner = winner,
                       !.recentBoards = recent, !.currentRecentBoardIdx = idx]
  BY DEF RecordMove
<1> HIDE DEF hist, winner, recent, idx, moves, board, h
<1>6. hist = [rules |-> h.rules, initialBoard |-> h.initialBoard, initialPla |-> h.initialPla,
              initialTurnNumber |-> h.initialTurnNumber, moveHistory |-> moves,
              presumedNextMovePla |-> getOpp(p.pla), isGameFinished |-> winner # C_EMPTY,
              winner |-> winner, recentBoards |-> recent, currentRecentBoardIdx |-> idx]
  BY <1>4, <1>5
<1>7. /\ hist.initialBoard = h.initialBoard /\ hist.initialPla = h.initialPla
      /\ hist.moveHistory = moves
  BY <1>6
<1>8. hist = [rules |-> hist.rules, initialBoard |-> hist.initialBoard, initialPla |-> hist.initialPla,
              initialTurnNumber |-> hist.initialTurnNumber, moveHistory |-> hist.moveHistory,
              presumedNextMovePla |-> hist.presumedNextMovePla, isGameFinished |-> hist.isGameFinished,
              winner |-> hist.winner, recentBoards |-> hist.recentBoards,
              currentRecentBoardIdx |-> hist.currentRecentBoardIdx]
  BY <1>6
<1>9. h.moveHistory \in Seq(Moves) /\ IsBoard(h.initialBoard) /\ h.initialPla \in Players
  BY DEF IsPosition, h
<1>10. moves \in Seq(Moves)
  <2>1. [loc |-> loc, pla |-> p.pla] \in Moves
    BY <1>2 DEF Moves
  <2> QED  BY <1>9, <2>1, AppendProperties DEF moves
<1>11. getOpp(p.pla) \in Players
  BY <1>2 DEF getOpp, Players, C_BLACK, C_WHITE
<1>12. q.board = board /\ q.hist = hist /\ q.pla = getOpp(p.pla)
       /\ q = [board |-> q.board, hist |-> q.hist, pla |-> q.pla]
  BY <1>1
<1> HIDE DEF q
<1>13. IsPosition(q)
  BY <1>2, <1>3, <1>7, <1>8, <1>9, <1>10, <1>11, <1>12 DEF IsPosition
<1>14. QED
  BY <1>3, <1>7, <1>12, <1>13 DEF q, h, moves

LEMMA MovesAfter ==
  ASSUME NEW p, IsPosition(p), NEW loc \in Cells
  PROVE  LET q == MakeMove(p, loc) IN
         /\ NumMoves(p) \in Nat /\ NumMoves(q) = NumMoves(p) + 1
         /\ \A k \in 1..NumMoves(p) : q.hist.moveHistory[k] = p.hist.moveHistory[k]
         /\ q.hist.moveHistory[NumMoves(p) + 1] = [loc |-> loc, pla |-> p.pla]
         /\ q.hist.moveHistory[NumMoves(p) + 1].loc = loc
<1> DEFINE q == MakeMove(p, loc)
           move == [loc |-> loc, pla |-> p.pla]
<1>1. q.hist.moveHistory = Append(p.hist.moveHistory, move)
  BY MadeMove
<1>2. p.hist.moveHistory \in Seq(Moves) /\ p.pla \in Players
  BY DEF IsPosition
<1>3. move \in Moves
  BY <1>2 DEF Moves
<1> HIDE DEF q, move
<1> QED
  BY <1>1, <1>2, <1>3, AppendProperties DEF NumMoves, move, q

(* A move takes a cell, whatever was there.                                            *)
LEMMA FreeAfter ==
  ASSUME NEW p, IsPosition(p), NEW loc \in Cells, NEW l \in Cells, l # PASS_LOC
  PROVE  /\ Free(MakeMove(p, loc), NumMoves(p) + 1, l) <=> Free(p, NumMoves(p), l) /\ l # loc
         /\ \A k \in 0..NumMoves(p) : Free(MakeMove(p, loc), k, l) <=> Free(p, k, l)
<1> DEFINE q == MakeMove(p, loc)
           n == NumMoves(p)
<1>1. q.hist.initialBoard = p.hist.initialBoard
  BY MadeMove
<1>2. /\ n \in Nat
      /\ \A k \in 1..n : q.hist.moveHistory[k] = p.hist.moveHistory[k]
      /\ q.hist.moveHistory[n + 1].loc = loc
  BY MovesAfter
<1> HIDE DEF q, n
<1>3. ASSUME NEW k \in 0..n  PROVE Free(q, k, l) <=> Free(p, k, l)
  BY <1>1, <1>2 DEF Free
<1>4. Free(q, n + 1, l) <=> Free(p, n, l) /\ l # loc
  <2>1. 1..(n + 1) = (1..n) \cup {n + 1}
    BY <1>2
  <2> QED  BY <1>1, <1>2, <2>1 DEF Free
<1> QED
  BY <1>3, <1>4 DEF q, n

LEMMA FreeCellsAfter ==
  ASSUME NEW p, IsPosition(p), FreeCells(p), NEW loc \in Cells
  PROVE  FreeCells(MakeMove(p, loc))
<1> DEFINE q == MakeMove(p, loc)
<1>1. NumMoves(q) = NumMoves(p) + 1
  BY MovesAfter
<1> SUFFICES ASSUME NEW l \in Cells \ {PASS_LOC}
             PROVE  q.board.colors[l] = C_EMPTY <=> Free(q, NumMoves(q), l)
  BY DEF FreeCells
<1>2. Free(q, NumMoves(q), l) <=> Free(p, NumMoves(p), l) /\ l # loc
  BY <1>1, FreeAfter
<1>3. p.board.colors[l] = C_EMPTY <=> Free(p, NumMoves(p), l)
  BY DEF FreeCells
<1>4. q.board.colors[l] = IF loc # PASS_LOC /\ l = loc THEN p.pla ELSE p.board.colors[l]
  BY MadeMove
<1>5. p.pla # C_EMPTY
  BY DEF IsPosition, Players, C_BLACK, C_WHITE, C_EMPTY
<1> QED
  BY <1>2, <1>3, <1>4, <1>5

LEMMA TookFreeCellsAfter ==
  ASSUME NEW p, IsPosition(p), FreeCells(p), TookFreeCells(p),
         NEW loc \in Cells, isLegal(p.board, loc, p.pla)
  PROVE  TookFreeCells(MakeMove(p, loc))
<1> DEFINE q == MakeMove(p, loc)
           n == NumMoves(p)
<1>1. /\ n \in Nat /\ NumMoves(q) = n + 1
      /\ \A k \in 1..n : q.hist.moveHistory[k] = p.hist.moveHistory[k]
      /\ q.hist.moveHistory[n + 1].loc = loc
  BY MovesAfter
<1>2. p.hist.moveHistory \in Seq(Moves) /\ Len(p.hist.moveHistory) = n
  BY DEF IsPosition, NumMoves
<1> SUFFICES ASSUME NEW k \in 1..(n + 1), q.hist.moveHistory[k].loc # PASS_LOC
             PROVE  Free(q, k - 1, q.hist.moveHistory[k].loc)
  BY <1>1 DEF TookFreeCells
<1>3. CASE k = n + 1
  <2>1. q.hist.moveHistory[k].loc = loc /\ k - 1 = n /\ loc # PASS_LOC
    BY <1>1, <1>3
  <2>2. p.board.colors[loc] = C_EMPTY
    BY <2>1 DEF isLegal
  <2>3. Free(p, n, loc)
    BY <2>1, <2>2 DEF FreeCells
  <2>4. Free(q, n, loc)
    BY <1>1, <2>1, <2>3, FreeAfter
  <2> QED  BY <2>1, <2>4
<1>4. CASE k \in 1..n
  <2> DEFINE l == p.hist.moveHistory[k].loc
  <2>1. q.hist.moveHistory[k].loc = l /\ k - 1 \in 0..n /\ l # PASS_LOC
    BY <1>1, <1>4
  <2>2. l \in Cells
    <3>1. p.hist.moveHistory[k] \in Moves
      BY <1>2, <1>4, ElementOfSeq
    <3> QED  BY <3>1 DEF Moves
  <2>3. Free(p, k - 1, l)
    BY <1>4, <2>1 DEF TookFreeCells
  <2> HIDE DEF l
  <2>4. Free(q, k - 1, l)
    BY <2>1, <2>2, <2>3, FreeAfter
  <2> QED  BY <2>1, <2>4
<1> QED
  BY <1>1, <1>3, <1>4

(* The key of a stone on a free cell is not in the hash yet.                           *)
LEMMA HashAfter ==
  ASSUME NEW p, IsPosition(p), p.board.pos_hash = HashOf(p.board),
         NEW loc \in Cells, isLegal(p.board, loc, p.pla)
  PROVE  MakeMove(p, loc).board.pos_hash = HashOf(MakeMove(p, loc).board)
<1> DEFINE q == MakeMove(p, loc)
           key == StoneKey(loc, p.pla)
           keys(b) == {StoneKey(l, b.colors[l]) : l \in {k \in Cells : b.colors[k] \in Players}}
<1>1. /\ q.board.size = p.board.size
      /\ \A l \in Cells : q.board.colors[l] =
           IF loc # PASS_LOC /\ l = loc THEN p.pla ELSE p.board.colors[l]
      /\ q.board.pos_hash = IF loc = PASS_LOC THEN p.board.pos_hash ELSE Xor(p.board.pos_hash, key)
  BY MadeMove
<1>2. p.pla \in Players
  BY DEF IsPosition
<1>3. CASE loc = PASS_LOC
  <2>1. \A l \in Cells : q.board.colors[l] = p.board.colors[l]
    BY <1>1, <1>3
  <2>2. keys(q.board) = keys(p.board)
    BY <2>1
  <2>3. HashOf(p.board) = SizeKeys(p.board.size) \cup keys(p.board)
        /\ HashOf(q.board) = SizeKeys(q.board.size) \cup keys(q.board)
    BY DEF HashOf
  <2> HIDE DEF q, keys
  <2>4. SizeKeys(q.board.size) = SizeKeys(p.board.size)
    BY <1>1
  <2>5. q.board.pos_hash = HashOf(p.board)
    BY <1>1, <1>3
  <2>6. q.board.pos_hash = HashOf(q.board)
    BY <2>2, <2>3, <2>4, <2>5
  <2> QED  BY <2>6 DEF q
<1>4. CASE loc # PASS_LOC
  <2>1. p.board.colors[loc] = C_EMPTY
    BY <1>4 DEF isLegal
  <2>2. C_EMPTY \notin Players
    BY DEF Players, C_BLACK, C_WHITE, C_EMPTY
  <2>3. \A l \in Cells : q.board.colors[l] = IF l = loc THEN p.pla ELSE p.board.colors[l]
    BY <1>1, <1>4
  <2> HIDE DEF q
  <2>4. keys(q.board) = keys(p.board) \cup {key}
    BY <1>2, <2>1, <2>2, <2>3
  <2>5. key \notin keys(p.board)
    BY <2>1, <2>2 DEF StoneKey
  <2>6. key \notin SizeKeys(p.board.size)
    BY DEF StoneKey, SizeKeys
  <2>7. HashOf(p.board) = SizeKeys(p.board.size) \cup keys(p.board)
        /\ HashOf(q.board) = SizeKeys(q.board.size) \cup keys(q.board)
    BY DEF HashOf
  <2> HIDE DEF keys, key
  <2>8. q.board.pos_hash = HashOf(p.board) \cup {key}
    BY <1>1, <1>4, <2>5, <2>6, <2>7 DEF Xor
  <2>9. SizeKeys(q.board.size) = SizeKeys(p.board.size)
    BY <1>1
  <2>10. HashOf(q.board) = HashOf(p.board) \cup {key}
    BY <2>4, <2>7, <2>9
  <2>11. q.board.pos_hash = HashOf(q.board)
    BY <2>8, <2>10
  <2> QED  BY <2>11 DEF q
<1> QED
  BY <1>3, <1>4

FirstPosition(p) == NewPosition(p.hist.initialBoard, p.hist.initialPla)
LEMMA GoodBeginning ==
  ASSUME NEW board, IsBoard(board), NEW pla \in Players
  PROVE  /\ Good(NewPosition(board, pla))
         /\ NewPosition(board, pla).hist.initialBoard = board
         /\ NewPosition(board, pla).hist.initialPla = pla
         /\ NewPosition(board, pla).hist.moveHistory = <<>>
         /\ NumMoves(NewPosition(board, pla)) = 0
<1> DEFINE p == NewPosition(board, pla)
           h == NewHistory(board, pla, "hex", 0)
<1>1. p = [board |-> board, hist |-> h, pla |-> pla]
  BY DEF NewPosition
<1>2. h = [rules |-> h.rules, initialBoard |-> h.initialBoard, initialPla |-> h.initialPla,
           initialTurnNumber |-> h.initialTurnNumber, moveHistory |-> h.moveHistory,
           presumedNextMovePla |-> h.presumedNextMovePla, isGameFinished |-> h.isGameFinished,
           winner |-> h.winner, recentBoards |-> h.recentBoards,
           currentRecentBoardIdx |-> h.currentRecentBoardIdx]
      /\ h.initialBoard = board /\ h.initialPla = pla /\ h.moveHistory = <<>>
  BY DEF NewHistory
<1> HIDE DEF h
<1>3. p.board = board /\ p.hist = h /\ p.pla = pla
      /\ p = [board |-> p.board, hist |-> p.hist, pla |-> p.pla]
  BY <1>1
<1> HIDE DEF p
<1>4. /\ board = [size |-> board.size, colors |-> board.colors, pos_hash |-> board.pos_hash]
      /\ board.size \in Sizes /\ board.colors \in Colors /\ board.pos_hash = HashOf(board)
  BY DEF IsBoard, Colors
<1>5. <<>> \in Seq(Moves) /\ Len(<<>>) = 0
  OBVIOUS
<1>6. IsPosition(p)
  BY <1>2, <1>3, <1>4, <1>5 DEF IsPosition
<1>7. NumMoves(p) = 0
  BY <1>2, <1>3, <1>5 DEF NumMoves
<1>8. FreeCells(p) /\ TookFreeCells(p)
  BY <1>2, <1>3, <1>7 DEF FreeCells, TookFreeCells, Free
<1>9. IsLegalGame(p)
  <2>1. Positions(p, <<>>)[0] = p
    BY <1>5, PositionsSteps
  <2>2. NewPosition(p.hist.initialBoard, p.hist.initialPla) = p
    BY <1>2, <1>3 DEF p
  <2>3. DOMAIN <<>> = {}
    OBVIOUS
  <2> QED  BY <1>2, <1>3, <1>4, <1>5, <2>1, <2>2, <2>3 DEF IsLegalGame
<1> QED
  BY <1>2, <1>3, <1>6, <1>7, <1>8, <1>9 DEF Good, p

LEMMA LegalGameGoesOn ==
  ASSUME NEW p, IsPosition(p), IsLegalGame(p), ~IsFinished(p),
         NEW loc \in Cells, isLegal(p.board, loc, p.pla)
  PROVE  IsLegalGame(MakeMove(p, loc))
<1> DEFINE q == MakeMove(p, loc)
           n == NumMoves(p)
           moves == p.hist.moveHistory
           more == q.hist.moveHistory
           first == FirstPosition(p)
<1>1. /\ n \in Nat /\ Len(more) = n + 1 /\ Len(moves) = n
      /\ \A k \in 1..n : more[k] = moves[k]
      /\ more[n + 1] = [loc |-> loc, pla |-> p.pla]
  BY MovesAfter DEF NumMoves
<1>2. q.hist.initialBoard = p.hist.initialBoard /\ q.hist.initialPla = p.hist.initialPla
      /\ IsPosition(q)
  BY MadeMove
<1>3. DOMAIN moves = 1..n /\ DOMAIN more = 1..(n + 1)
  BY <1>1, <1>2, LenProperties DEF IsPosition
<1>4. FirstPosition(q) = first
  BY <1>2 DEF FirstPosition
<1>5. /\ \A k \in 1..n : /\ ~IsFinished(Positions(first, moves)[k - 1])
                         /\ moves[k].pla = Positions(first, moves)[k - 1].pla
                         /\ isLegal(Positions(first, moves)[k - 1].board, moves[k].loc, moves[k].pla)
      /\ Positions(first, moves)[n] = p /\ p.board.pos_hash = HashOf(p.board)
  BY <1>1, <1>3 DEF IsLegalGame, FirstPosition
<1>6. q.board.pos_hash = HashOf(q.board)
  BY <1>5, HashAfter
<1> HIDE DEF q, n, moves, more, first
<1>7. \A k \in 0..n : Positions(first, moves)[k] = Positions(first, more)[k]
  BY <1>1, PositionsPrefix
<1>8. Positions(first, more)[n] = p
  BY <1>1, <1>5, <1>7
<1>9. Positions(first, more)[n + 1] = q
  <2>1. Positions(first, more)[n + 1] = MakeMove(Positions(first, more)[(n + 1) - 1], more[n + 1].loc)
    BY <1>1, PositionsSteps
  <2>2. (n + 1) - 1 = n
    BY <1>1
  <2> QED  BY <1>1, <1>8, <2>1, <2>2 DEF q
<1>10. ASSUME NEW k \in 1..(n + 1)
       PROVE  /\ ~IsFinished(Positions(first, more)[k - 1])
              /\ more[k].pla = Positions(first, more)[k - 1].pla
              /\ isLegal(Positions(first, more)[k - 1].board, more[k].loc, more[k].pla)
  <2>1. CASE k = n + 1
    <3>1. k - 1 = n /\ more[k].loc = loc /\ more[k].pla = p.pla
      BY <1>1, <2>1
    <3> QED  BY <1>8, <3>1
  <2>2. CASE k \in 1..n
    <3>1. k - 1 \in 0..n /\ more[k] = moves[k]
      BY <1>1, <2>2
    <3> QED  BY <1>5, <1>7, <2>2, <3>1
  <2> QED  BY <1>1, <2>1, <2>2
<1>11. FirstPosition(q) = NewPosition(q.hist.initialBoard, q.hist.initialPla)
  BY DEF FirstPosition
<1>12. more = q.hist.moveHistory
  BY DEF more, q
<1> QED
  BY <1>1, <1>3, <1>4, <1>6, <1>9, <1>10, <1>11, <1>12 DEF IsLegalGame, q

LEMMA GoodGoesOn ==
  ASSUME NEW p, Good(p), ~IsFinished(p), NEW loc \in Cells, isLegal(p.board, loc, p.pla)
  PROVE  Good(MakeMove(p, loc))
  BY LegalGameGoesOn, TookFreeCellsAfter, FreeCellsAfter, MadeMove DEF Good

-------------------------------------------------------------------------------
(* A replay goes through good games, and throws only where a move took no free cell.   *)
LEMMA ReplayIsGood ==
  ASSUME NEW moveIdx \in Nat, IsPosition(pos), IsPosition(start),
         start.hist.initialBoard = pos.hist.initialBoard,
         start.hist.initialPla = pos.hist.initialPla
  PROVE  /\ Good(Replay(moveIdx).position)
         /\ Replay(moveIdx).thrown \in BOOLEAN
         /\ Replay(moveIdx).thrown => ~TookFreeCells(pos)
<1> DEFINE moves == pos.hist.moveHistory
           n == CASE moves = <<>> -> 0
                  [] moves # <<>> /\ moveIdx < Len(moves) -> moveIdx
                  [] OTHER -> Len(moves) - 1
           some == SubSeq(moves, 1, n)
           at == Positions(ReplayStart, some)
           GoesOn(k) == k < n /\ ~IsFinished(at[k]) /\ isLegal(at[k].board, moves[k + 1].loc, at[k].pla)
           Stops(k) == k \in 0..n /\ ~GoesOn(k) /\ \A j \in 0..(k - 1) : GoesOn(j)
           last == CHOOSE k \in 0..n : ~GoesOn(k) /\ \A j \in 0..(k - 1) : GoesOn(j)
<1>1. Replay(moveIdx) = [position |-> at[last], thrown |-> last < n /\ ~IsFinished(at[last])]
  BY DEF Replay
<1>2. moves \in Seq(Moves) /\ Len(moves) \in Nat /\ (moves # <<>> => Len(moves) # 0)
  <2>1. moves \in Seq(Moves)
    BY DEF IsPosition
  <2> HIDE DEF moves
  <2> QED  BY <2>1, EmptySeq, LenProperties
<1>3. n \in 0..Len(moves) /\ n \in Nat
  BY <1>2
<1> HIDE DEF n
<1>4. Len(some) = n /\ \A k \in 1..n : some[k] = moves[k]
  <2> HIDE DEF moves
  <2> QED  BY <1>2, <1>3, SubSeqProperties
<1> HIDE DEF some
<1>5. at[0] = ReplayStart /\ \A k \in 1..n : at[k] = MakeMove(at[k - 1], moves[k].loc)
  BY <1>3, <1>4, PositionsSteps
<1> HIDE DEF at
<1>6. Stops(last)
  <2> DEFINE T == {k \in 0..n : ~GoesOn(k)}
  <2> HIDE DEF GoesOn
  <2>1. n \in T
    BY <1>3 DEF GoesOn
  <2>2. T \in SUBSET Nat
    BY <1>3
  <2>3. PICK k \in T : \A j \in T : k <= j
    BY <2>1, <2>2, Least
  <2>4. \A j \in 0..(k - 1) : GoesOn(j)
    BY <1>3, <2>3
  <2>5. \E i \in 0..n : ~GoesOn(i) /\ \A j \in 0..(i - 1) : GoesOn(j)
    BY <2>3, <2>4
  <2> QED  BY <2>5
<1> HIDE DEF last
<1>11. n \in Nat /\ last \in 0..n
  BY <1>3, <1>6
<1> DEFINE Agrees(p, k) ==
             /\ p.hist.initialBoard = pos.hist.initialBoard
             /\ NumMoves(p) = k /\ \A j \in 1..k : p.hist.moveHistory[j].loc = moves[j].loc
           S == {k \in 0..last : Good(at[k]) /\ Agrees(at[k], k)}
<1>7. 0 \in S
  <2>1. IsBoard(start.hist.initialBoard) /\ start.hist.initialPla \in Players
    BY DEF IsPosition
  <2> QED  BY <1>5, <1>6, <2>1, GoodBeginning DEF ReplayStart
<1>8. \A k \in 0..(last - 1) : k \in S => k + 1 \in S
  <2> SUFFICES ASSUME NEW k \in 0..(last - 1), k \in S  PROVE k + 1 \in S
    OBVIOUS
  <2>1. k \in 0..n /\ k + 1 \in 1..n /\ k + 1 \in 0..last /\ (k + 1) - 1 = k
    BY <1>11
  <2>2. ~IsFinished(at[k]) /\ isLegal(at[k].board, moves[k + 1].loc, at[k].pla)
    BY <1>6
  <2>3. at[k + 1] = MakeMove(at[k], moves[k + 1].loc)
    BY <1>5, <2>1
  <2>4. moves[k + 1].loc \in Cells
    <3>1. moves[k + 1] \in Moves
      <4> HIDE DEF moves
      <4> QED  BY <1>2, <1>3, <2>1, ElementOfSeq
    <3> QED  BY <3>1 DEF Moves
  <2>5. Good(at[k]) /\ Agrees(at[k], k)
    OBVIOUS
  <2>6. Good(at[k + 1])
    BY <2>2, <2>3, <2>4, <2>5, GoodGoesOn
  <2>7. Agrees(at[k + 1], k + 1)
    <3> DEFINE p == at[k]
               loc == moves[k + 1].loc
               q == MakeMove(p, loc)
    <3>1. IsPosition(p)
      BY <2>5 DEF Good
    <3> HIDE DEF p, loc
    <3>2. q.hist.initialBoard = p.hist.initialBoard
      BY <2>4, <3>1, MadeMove DEF loc
    <3>3. /\ NumMoves(q) = NumMoves(p) + 1
          /\ \A j \in 1..NumMoves(p) : q.hist.moveHistory[j] = p.hist.moveHistory[j]
          /\ q.hist.moveHistory[NumMoves(p) + 1].loc = loc
      BY <2>4, <3>1, MovesAfter DEF loc
    <3> HIDE DEF q
    <3>4. Agrees(p, k) /\ at[k + 1] = q
      BY <2>3, <2>5 DEF p, q, loc
    <3>5. NumMoves(q) = k + 1 /\ q.hist.initialBoard = pos.hist.initialBoard
      BY <3>2, <3>3, <3>4
    <3>6. ASSUME NEW j \in 1..(k + 1)  PROVE q.hist.moveHistory[j].loc = moves[j].loc
      <4>1. CASE j = k + 1
        BY <3>3, <3>4, <4>1 DEF loc
      <4>2. CASE j \in 1..k
        BY <3>3, <3>4, <4>2
      <4> QED  BY <2>1, <4>1, <4>2
    <3> QED  BY <3>4, <3>5, <3>6
  <2> QED  BY <2>1, <2>6, <2>7
<1>9. last \in S
  <2> HIDE DEF S
  <2>1. last \in Nat
    BY <1>6
  <2>2. \A k \in 0..last : k \in S
    BY <1>7, <1>8, <2>1, Induction
  <2> QED  BY <2>1, <2>2
<1>10. ASSUME last < n, ~IsFinished(at[last]), TookFreeCells(pos)  PROVE FALSE
  <2> DEFINE p == at[last]
             loc == moves[last + 1].loc
  <2>1. Good(p) /\ Agrees(p, last)
    BY <1>9
  <2>2. ~isLegal(p.board, loc, p.pla)
    BY <1>6, <1>10
  <2>3. loc \in Cells
    <3>1. last + 1 \in 1..Len(moves)
      BY <1>3, <1>6, <1>10
    <3>2. moves[last + 1] \in Moves
      <4> HIDE DEF moves
      <4> QED  BY <1>2, <3>1, ElementOfSeq
    <3> QED  BY <3>2 DEF Moves
  <2>4. last + 1 \in 1..NumMoves(pos) /\ (last + 1) - 1 = last /\ last \in Nat
    BY <1>2, <1>3, <1>6, <1>10 DEF NumMoves
  <2>5. loc = PASS_LOC \/ Free(pos, last, loc)
    BY <1>10, <2>4 DEF TookFreeCells
  <2> HIDE DEF p, loc
  <2>6. p.pla \in Players
    BY <2>1 DEF Good, IsPosition
  <2>7. loc # PASS_LOC
    BY <2>2, <2>6 DEF isLegal
  <2>8. Free(p, NumMoves(p), loc)
    BY <2>1, <2>5, <2>7 DEF Free
  <2>9. p.board.colors[loc] = C_EMPTY
    BY <2>1, <2>3, <2>7, <2>8 DEF Good, FreeCells
  <2> QED  BY <2>2, <2>3, <2>6, <2>9 DEF isLegal
<1>12. Replay(moveIdx).position = at[last]
  BY <1>1
<1>13. Replay(moveIdx).thrown = (last < n /\ ~IsFinished(at[last]))
  BY <1>1
<1>14. Good(at[last])
  BY <1>9
<1> QED
  BY <1>10, <1>12, <1>13, <1>14

-------------------------------------------------------------------------------
(* The moves of a sample are played by the players that the file names, in any order.  *)
PositionOf(g) == [board |-> g.board, hist |-> g.hist, pla |-> g.nextPla]
Tolerated(g) ==
  /\ g = [nextPla |-> g.nextPla, board |-> g.board, hist |-> g.hist, ok |-> g.ok]
  /\ IsPosition(PositionOf(g)) /\ FreeCells(PositionOf(g)) /\ TookFreeCells(PositionOf(g))

LEMMA ToleratedGoesOn ==
  ASSUME NEW g, Tolerated(g), NEW move
  PROVE  Tolerated(PlayTolerant(g, move))
<1>1. CASE ~g.ok \/ ~isLegal(g.board, move.loc, move.pla)
  <2> DEFINE h == PlayTolerant(g, move)
  <2>1. h = [g EXCEPT !.ok = FALSE]
    BY <1>1 DEF PlayTolerant
  <2> HIDE DEF h
  <2>2. g = [nextPla |-> g.nextPla, board |-> g.board, hist |-> g.hist, ok |-> g.ok]
    BY DEF Tolerated
  <2>3. h.nextPla = g.nextPla /\ h.board = g.board /\ h.hist = g.hist
        /\ h = [nextPla |-> h.nextPla, board |-> h.board, hist |-> h.hist, ok |-> h.ok]
    BY <2>1, <2>2
  <2>4. PositionOf(h) = PositionOf(g)
    BY <2>3 DEF PositionOf
  <2> QED  BY <2>3, <2>4 DEF Tolerated, h
<1>2. CASE ~(~g.ok \/ ~isLegal(g.board, move.loc, move.pla))
  <2> DEFINE h == PlayTolerant(g, move)
             p == [board |-> g.board, hist |-> g.hist, pla |-> move.pla]
             q == MakeMove(p, move.loc)
  <2>1. move.pla \in Players /\ move.loc \in Cells /\ isLegal(p.board, move.loc, p.pla)
    BY <1>2, PassIsCell DEF isLegal
  <2>2. p.board = PositionOf(g).board /\ p.hist = PositionOf(g).hist
    BY DEF PositionOf
  <2>3. IsPosition(p)
    BY <2>1, <2>2 DEF Tolerated, IsPosition
  <2>4. FreeCells(p) /\ TookFreeCells(p)
    BY <2>2 DEF Tolerated, FreeCells, TookFreeCells, Free, NumMoves
  <2>5. h = [nextPla |-> q.pla, board |-> q.board, hist |-> q.hist, ok |-> TRUE]
    BY <1>2 DEF PlayTolerant, MakeMove
  <2> HIDE DEF p
  <2>6. IsPosition(q) /\ FreeCells(q) /\ TookFreeCells(q)
    BY <2>1, <2>3, <2>4, MadeMove, FreeCellsAfter, TookFreeCellsAfter
  <2> HIDE DEF h, q
  <2>7. PositionOf(h) = [board |-> q.board, hist |-> q.hist, pla |-> q.pla]
    BY <2>5 DEF PositionOf
  <2>8. PositionOf(h) = q
    BY <2>6, <2>7 DEF IsPosition
  <2>9. h = [nextPla |-> h.nextPla, board |-> h.board, hist |-> h.hist, ok |-> h.ok]
    BY <2>5
  <2> QED  BY <2>6, <2>8, <2>9 DEF Tolerated, h
<1> QED
  BY <1>1, <1>2

LEMMA MovesAreTolerated ==
  ASSUME NEW board, NEW nextPla, NEW hist, NEW moves, Len(moves) \in Nat,
         Tolerated([nextPla |-> nextPla, board |-> board, hist |-> hist, ok |-> TRUE])
  PROVE  Tolerated(playMovesTolerant(board, nextPla, hist, moves))
<1> DEFINE n == Len(moves)
           first == [nextPla |-> nextPla, board |-> board, hist |-> hist, ok |-> TRUE]
           Is(g, m) == g = [k \in 0..m |-> IF k = 0 THEN first ELSE PlayTolerant(g[k - 1], moves[k])]
           S == {m \in 0..n : \E g : Is(g, m)}
<1>1. 0 \in S
  <2> DEFINE h == [k \in 0..0 |-> first]
  <2>1. Is(h, 0)
    <3> HIDE DEF first
    <3>1. \A k \in 0..0 : h[k] = (IF k = 0 THEN first ELSE PlayTolerant(h[k - 1], moves[k]))
      OBVIOUS
    <3> QED  BY <3>1
  <2> HIDE DEF h, first
  <2> QED  BY <2>1
<1>2. ASSUME NEW m \in 0..(n - 1), m \in S  PROVE m + 1 \in S
  <2> HIDE DEF first
  <2>1. PICK g : Is(g, m)
    BY <1>2
  <2> DEFINE h == [k \in 0..(m + 1) |-> IF k = m + 1 THEN PlayTolerant(g[m], moves[k]) ELSE g[k]]
  <2>2. ASSUME NEW k \in 0..(m + 1)
        PROVE  h[k] = IF k = 0 THEN first ELSE PlayTolerant(h[k - 1], moves[k])
    <3>1. CASE k = m + 1
      BY <3>1
    <3>2. CASE k # m + 1
      BY <2>1, <3>2
    <3> QED  BY <3>1, <3>2
  <2>3. Is(h, m + 1)
    BY <2>2
  <2> HIDE DEF h, Is
  <2> QED  BY <2>3
<1>3. n \in S
  <2>1. n \in Nat
    OBVIOUS
  <2>2. \A k \in 0..(n - 1) : k \in S => k + 1 \in S
    BY <1>2
  <2> HIDE DEF S, n
  <2>3. \A k \in 0..n : k \in S
    BY <1>1, <2>1, <2>2, Induction
  <2> QED  BY <2>1, <2>3
<1>4. PICK g : Is(g, n)
  BY <1>3
<1> DEFINE played == CHOOSE f : Is(f, n)
<1>5. playMovesTolerant(board, nextPla, hist, moves) = played[n]
  BY DEF playMovesTolerant
<1>6. Is(played, n)
  <2> HIDE DEF Is
  <2> QED  BY <1>4
<1> HIDE DEF played
<1> DEFINE T == {k \in 0..n : Tolerated(played[k])}
<1>7. 0 \in T
  BY <1>6
<1>8. \A k \in 0..(n - 1) : k \in T => k + 1 \in T
  <2> SUFFICES ASSUME NEW k \in 0..(n - 1), k \in T  PROVE k + 1 \in T
    OBVIOUS
  <2> HIDE DEF first
  <2>1. played[k + 1] = PlayTolerant(played[k], moves[k + 1])
    BY <1>6
  <2> QED  BY <2>1, ToleratedGoesOn
<1>9. n \in T
  <2>1. n \in Nat
    OBVIOUS
  <2> HIDE DEF T, n
  <2>2. \A k \in 0..n : k \in T
    BY <1>7, <1>8, <2>1, Induction
  <2> QED  BY <2>1, <2>2
<1> QED
  BY <1>5, <1>9

LEMMA SampleIsGood ==
  ASSUME NEW sample \in PosSamples
  PROVE  LET hist == NewHistory(sample.board, sample.nextPla, "hex", 0)
             played == playMovesTolerant(sample.board, sample.nextPla, hist, sample.moves)
         IN  Tolerated(played)
<1> DEFINE hist == NewHistory(sample.board, sample.nextPla, "hex", 0)
           g == [nextPla |-> sample.nextPla, board |-> sample.board, hist |-> hist, ok |-> TRUE]
<1>1. IsBoard(sample.board) /\ sample.nextPla \in Players /\ Len(sample.moves) \in Nat
  BY SampleAssumption
<1>2. PositionOf(g) = NewPosition(sample.board, sample.nextPla)
  BY DEF PositionOf, NewPosition
<1>3. Good(PositionOf(g))
  BY <1>1, <1>2, GoodBeginning
<1>4. g = [nextPla |-> g.nextPla, board |-> g.board, hist |-> g.hist, ok |-> g.ok]
  OBVIOUS
<1>5. Tolerated(g)
  <2> HIDE DEF g
  <2> QED  BY <1>3, <1>4 DEF Tolerated, Good
<1> HIDE DEF hist
<1> QED
  BY <1>1, <1>5, MovesAreTolerated DEF hist

-------------------------------------------------------------------------------
LEMMA SeqAppended ==
  ASSUME NEW s, IsSeq(s), NEW e
  PROVE  /\ IsSeq(Append(s, e)) /\ Len(s) \in Nat /\ Len(Append(s, e)) = Len(s) + 1
         /\ \A i \in 1..Len(s) : Append(s, e)[i] = s[i]
         /\ Append(s, e)[Len(s) + 1] = e
<1> DEFINE S == Range(s) \cup {e}
<1>1. s \in Seq(S) /\ e \in S
  BY SeqMonotonic, Range(s) \subseteq S DEF IsSeq
<1> HIDE DEF S
<1>2. Append(s, e) \in Seq(S) /\ Len(s) \in Nat /\ Len(Append(s, e)) = Len(s) + 1
      /\ \A i \in 1..Len(s) : Append(s, e)[i] = s[i]
      /\ Append(s, e)[Len(s) + 1] = e
  BY <1>1, AppendProperties
<1>3. Append(s, e) \in Seq(Range(Append(s, e)))
  BY <1>2, SeqOfRange
<1> QED
  BY <1>2, <1>3 DEF IsSeq

LEMMA SeqJoined ==
  ASSUME NEW s, IsSeq(s), NEW t, IsSeq(t)
  PROVE  /\ IsSeq(s \o t) /\ Len(s) \in Nat /\ Len(t) \in Nat /\ Len(s \o t) = Len(s) + Len(t)
         /\ \A i \in 1..Len(s) : (s \o t)[i] = s[i]
         /\ \A i \in 1..Len(t) : (s \o t)[Len(s) + i] = t[i]
<1> DEFINE S == Range(s) \cup Range(t)
<1>1. s \in Seq(S) /\ t \in Seq(S)
  BY SeqMonotonic, Range(s) \subseteq S, Range(t) \subseteq S DEF IsSeq
<1> HIDE DEF S
<1>2. s \o t \in Seq(S) /\ Len(s) \in Nat /\ Len(t) \in Nat /\ Len(s \o t) = Len(s) + Len(t)
      /\ \A i \in 1..(Len(s) + Len(t)) : (s \o t)[i] = IF i <= Len(s) THEN s[i] ELSE t[i - Len(s)]
  BY <1>1, ConcatProperties, LenProperties
<1>3. \A i \in 1..Len(t) : Len(s) + i \in 1..(Len(s) + Len(t)) /\ ~(Len(s) + i <= Len(s)) /\ (Len(s) + i) - Len(s) = i
  BY <1>2
<1>4. \A i \in 1..Len(t) : (s \o t)[Len(s) + i] = t[i]
  BY <1>2, <1>3
<1>5. s \o t \in Seq(Range(s \o t))
  BY <1>2, SeqOfRange
<1>6. \A i \in 1..Len(s) : (s \o t)[i] = s[i]
  BY <1>2
<1> QED
  BY <1>2, <1>4, <1>5, <1>6 DEF IsSeq

LEMMA SmallSeqs ==
  /\ IsSeq(<<>>) /\ Len(<<>>) = 0
  /\ \A e : IsSeq(<<e>>) /\ Len(<<e>>) = 1 /\ <<e>>[1] = e
<1>1. <<>> \in Seq({})
  OBVIOUS
<1>2. ASSUME NEW e  PROVE IsSeq(<<e>>) /\ Len(<<e>>) = 1 /\ <<e>>[1] = e
  <2>1. <<e>> \in Seq({e})
    OBVIOUS
  <2> QED  BY <2>1, SeqOfRange DEF IsSeq
<1> QED
  BY <1>1, <1>2, SeqOfRange DEF IsSeq

LEMMA ForkAdded ==
  ASSUME ForksInv, NEW p, Good(p), NEW b, AddFork(p, b)
  PROVE  ForksInv'
<1>1. CASE IsFinished(p)
  BY <1>1 DEF AddFork, ForksInv
<1>2. CASE ~IsFinished(p)
  <2> DEFINE f == [position |-> p, isHintFork |-> b]
  <2>1. forks' = Append(forks, f)
    BY <1>2 DEF AddFork
  <2>2. IsSeq(forks)
    BY DEF ForksInv, IsSeq
  <2> HIDE DEF f
  <2>3. /\ IsSeq(forks') /\ Len(forks) \in Nat /\ Len(forks') = Len(forks) + 1
        /\ \A i \in 1..Len(forks) : forks'[i] = forks[i]
        /\ forks'[Len(forks) + 1] = f
    BY <2>1, <2>2, SeqAppended
  <2>4. DOMAIN forks = 1..Len(forks) /\ DOMAIN forks' = 1..Len(forks')
    BY <2>2, <2>3, LenProperties DEF IsSeq
  <2>5. ASSUME NEW i \in DOMAIN forks'  PROVE Good(forks'[i].position) /\ ~IsFinished(forks'[i].position)
    <3>1. CASE i = Len(forks) + 1
      <4>1. forks'[i].position = p
        BY <2>3, <3>1 DEF f
      <4> QED  BY <1>2, <4>1
    <3>2. CASE i \in DOMAIN forks
      <4>1. forks'[i] = forks[i]
        BY <2>3, <2>4, <3>2
      <4>2. Good(forks[i].position) /\ ~IsFinished(forks[i].position)
        BY <3>2 DEF ForksInv
      <4> QED  BY <4>1, <4>2
    <3> QED  BY <2>3, <2>4, <3>1, <3>2
  <2> QED  BY <2>3, <2>5 DEF ForksInv, IsSeq
<1> QED
  BY <1>1, <1>2

LEMMA ForkTaken ==
  ASSUME ForksInv, NEW r \in DOMAIN forks, forks' = Front([forks EXCEPT ![r] = Last(forks)])
  PROVE  ForksInv'
<1> DEFINE n == Len(forks)
           moved == [forks EXCEPT ![r] = Last(forks)]
           S == Range(forks)
<1>1. forks \in Seq(S) /\ n \in Nat /\ DOMAIN forks = 1..n
  BY LenProperties DEF ForksInv
<1>2. r \in 1..n /\ n \in 1..n /\ n - 1 \in Nat
  BY <1>1
<1>3. Last(forks) = forks[n] /\ forks[n] \in S
  <2> HIDE DEF S
  <2> QED  BY <1>1, <1>2, ElementOfSeq DEF Last
<1>4. moved \in Seq(S) /\ Len(moved) = n
      /\ \A i \in 1..n : moved[i] = IF i = r THEN forks[n] ELSE forks[i]
  <2> HIDE DEF S
  <2> QED  BY <1>1, <1>2, <1>3, ExceptSeq
<1> HIDE DEF moved, S
<1>5. forks' = SubSeq(moved, 1, n - 1)
  BY <1>4 DEF Front, moved
<1>6. forks' \in Seq(S) /\ Len(forks') = n - 1 /\ \A i \in 1..(n - 1) : forks'[i] = moved[i]
  <2> HIDE DEF n
  <2> DEFINE m == n - 1
  <2>1. m \in Nat /\ \A i \in 1..m : moved[i] \in S /\ 1 + i - 1 = i
    BY <1>2, <1>4, ElementOfSeq
  <2> HIDE DEF m
  <2>2. /\ SubSeq(moved, 1, m) \in Seq(S)
        /\ Len(SubSeq(moved, 1, m)) = IF 1 <= m THEN m - 1 + 1 ELSE 0
        /\ \A i \in 1..(m - 1 + 1) : SubSeq(moved, 1, m)[i] = moved[1 + i - 1]
    BY <2>1, SubSeqProperties
  <2>3. m - 1 + 1 = m /\ Len(SubSeq(moved, 1, m)) = m
    BY <2>1, <2>2
  <2>4. \A i \in 1..m : SubSeq(moved, 1, m)[i] = moved[i]
    BY <2>1, <2>2, <2>3
  <2> QED  BY <1>5, <2>2, <2>3, <2>4 DEF m
<1>7. DOMAIN forks' = 1..(n - 1)
  BY <1>6, LenProperties
<1>8. ASSUME NEW i \in DOMAIN forks'  PROVE Good(forks'[i].position) /\ ~IsFinished(forks'[i].position)
  <2> HIDE DEF n
  <2>1. i \in 1..n /\ i \in 1..(n - 1)
    BY <1>2, <1>7
  <2>2. PICK j \in 1..n : forks'[i] = forks[j]
    BY <1>2, <1>4, <1>6, <2>1
  <2>3. Good(forks[j].position) /\ ~IsFinished(forks[j].position)
    BY <1>1, <2>2 DEF ForksInv
  <2> QED  BY <2>2, <2>3
<1> QED
  BY <1>6, <1>8, SeqOfRange DEF ForksInv

-------------------------------------------------------------------------------
LEMMA EmptyIsGood == Good(EmptyPosition)
<1>1. IsBoard(NewBoard(BoardSize)) /\ C_BLACK \in Players
  <2> DEFINE b == NewBoard(BoardSize)
             keys == {StoneKey(l, b.colors[l]) : l \in {k \in Cells : b.colors[k] \in Players}}
  <2>1. /\ b = [size |-> BoardSize, colors |-> b.colors, pos_hash |-> SizeKeys(BoardSize)]
        /\ b.size = BoardSize
        /\ b.colors = [l \in Cells |-> IF l \in OnSize(BoardSize) THEN C_EMPTY ELSE C_WALL]
    BY DEF NewBoard
  <2> HIDE DEF b
  <2>2. \A k \in Cells : b.colors[k] \notin Players
    BY <2>1 DEF Players, C_EMPTY, C_WALL, C_BLACK, C_WHITE
  <2>3. b.colors \in [Cells -> C_EMPTY..C_WALL]
    BY <2>1 DEF C_EMPTY, C_WALL
  <2>4. keys = {}
    BY <2>2
  <2>5. HashOf(b) = SizeKeys(BoardSize) \cup keys
    BY <2>1 DEF HashOf
  <2>6. b = [size |-> b.size, colors |-> b.colors, pos_hash |-> HashOf(b)]
    BY <2>1, <2>4, <2>5
  <2>7. \A l \in Cells : b.colors[l] = C_WALL <=> l \notin OnSize(b.size)
    BY <2>1 DEF C_EMPTY, C_WALL
  <2>8. IsBoard(b)
    BY <2>1, <2>3, <2>6, <2>7, GameAssumption DEF IsBoard
  <2> QED  BY <2>8 DEF b, Players
<1> QED
  BY <1>1, GoodBeginning DEF EmptyPosition

LEMMA InitInv == Init => GameInv
<1> SUFFICES ASSUME Init  PROVE GameInv
  OBVIOUS
<1>2. Good(EmptyPosition)
  BY EmptyIsGood
<1>3. ForksInv
  <2>1. <<>> \in Seq(Range(<<>>)) /\ DOMAIN <<>> = {}
    BY SmallSeqs DEF IsSeq
  <2> QED  BY <2>1 DEF Init, ForksInv
<1>4. PosInv
  BY <1>2 DEF Init, PosInv, Good
<1>5. ~Playing /\ stage # "hintFork" /\ ReleasedInv
  BY DEF Init, Playing, ReleasedInv
<1>6. StartInv /\ TurnsInv
  BY <1>5 DEF StartInv, TurnsInv
<1>7. ValuesInv
  BY SmallSeqs DEF Init, ValuesInv
<1>8. NetsInv
  <2>1. <<>> \in Seq(Nat)
    OBVIOUS
  <2> QED  BY <1>5, <2>1 DEF Init, NetsInv
<1>9. SidesInv
  BY SmallSeqs DEF Init, SidesInv
<1> QED
  BY <1>3, <1>4, <1>5, <1>6, <1>7, <1>8, <1>9 DEF GameInv

(* A game that is not being played has no data.                                        *)
LEMMA NotPlaying ==
  ASSUME stage' \in {"none", "opening", "hintFork", "thrown"},
         policyTargets' = <<>>, valueTargets' = <<>>, changedNeuralNets' = <<>>,
         sidePositionsToSearch' = <<>>, sidePositions' = <<>>,
         ForksInv', PosInv', StartInv'
  PROVE  GameInv'
<1>1. ~Playing' /\ ReleasedInv'
  BY DEF Playing, ReleasedInv
<1>2. TurnsInv'
  BY <1>1 DEF TurnsInv
<1>3. ValuesInv'
  BY SmallSeqs DEF ValuesInv
<1>4. NetsInv'
  <2>1. <<>> \in Seq(Nat)
    OBVIOUS
  <2> QED  BY <1>1, <2>1 DEF NetsInv
<1>5. SidesInv'
  BY SmallSeqs DEF SidesInv
<1> QED
  BY <1>1, <1>2, <1>3, <1>4, <1>5 DEF GameInv

LEMMA BeginInv ==
  ASSUME GameInv, NEW p, NEW newProps, Begin(p, newProps), ForksInv',
         IsPosition(p), FreeCells(p), TookFreeCells(p)
  PROVE  GameInv'
<1>1. ~Playing /\ stage' = "opening" /\ pos' = p /\ UNCHANGED data
  BY DEF Begin, Playing
<1>2. PosInv'
  BY <1>1 DEF PosInv
<1>3. StartInv'
  BY <1>1 DEF StartInv, Playing
<1> QED
  BY <1>1, <1>2, <1>3, NotPlaying DEF GameInv, ReleasedInv, data

LEMMA MovesBetweenThem ==
  ASSUME NEW p, NEW q, IsPosition(p), IsPosition(q), NumMoves(p) <= NumMoves(q)
  PROVE  /\ NumMoves(p) \in Nat /\ NumMoves(q) \in Nat
         /\ Len(MovesBetween(p, q)) = NumMoves(q) - NumMoves(p)
         /\ \A k \in 1..(NumMoves(q) - NumMoves(p)) :
              MovesBetween(p, q)[k] = q.hist.moveHistory[NumMoves(p) + k]
<1> DEFINE moves == q.hist.moveHistory
           m == NumMoves(p)
           n == NumMoves(q)
<1>1. moves \in Seq(Moves) /\ Len(moves) = n /\ m \in Nat /\ n \in Nat /\ m <= n
  BY LenProperties DEF IsPosition, NumMoves
<1>2. MovesBetween(p, q) = SubSeq(moves, m + 1, n)
  BY DEF MovesBetween
<1> HIDE DEF m, n, moves
<1>3. \A i \in (m + 1)..n : moves[i] \in Moves
  BY <1>1, ElementOfSeq
<1>4. /\ Len(SubSeq(moves, m + 1, n)) = IF m + 1 <= n THEN n - (m + 1) + 1 ELSE 0
      /\ \A i \in 1..(n - (m + 1) + 1) : SubSeq(moves, m + 1, n)[i] = moves[(m + 1) + i - 1]
  BY <1>1, <1>3, SubSeqProperties
<1>5. n - (m + 1) + 1 = n - m /\ \A i \in 1..(n - m) : (m + 1) + i - 1 = m + i
  BY <1>1
<1>6. Len(SubSeq(moves, m + 1, n)) = n - m
  BY <1>1, <1>4, <1>5
<1>7. \A i \in 1..(n - m) : SubSeq(moves, m + 1, n)[i] = moves[m + i]
  BY <1>4, <1>5
<1> QED
  BY <1>1, <1>2, <1>6, <1>7 DEF m, n, moves

LEMMA OpenInv ==
  ASSUME GameInv, NEW loc \in Openings, NEW next, Open(loc, next)
  PROVE  GameInv'
<1> DEFINE o == Opened(loc)
           p == PolicyInit(o, next)
<1>1. /\ stage = "opening" /\ stage' = "play" /\ pos' = p /\ start' = p
      /\ bot' = [root |-> p, net |-> 0] /\ UNCHANGED <<forks, data>>
      /\ next # NULL_LOC => next \in LegalMoves(o)
      /\ overlaid' = (loc # NULL_LOC /\ ~isLegal(pos.board, loc, pos.pla))
  BY DEF Open, SearchFrom
<1>2. IsPosition(pos) /\ FreeCells(pos) /\ TookFreeCells(pos)
  BY <1>1 DEF GameInv, PosInv
<1>3. IsPosition(o) /\ FreeCells(o) /\ (~overlaid' => TookFreeCells(o))
  <2>1. CASE loc = NULL_LOC
    BY <1>2, <2>1 DEF Opened
  <2>2. CASE loc # NULL_LOC
    <3>1. loc \in Cells
      BY <1>2, <2>2, OnSizeIsCells DEF Openings, IsPosition
    <3>2. o = MakeMove(pos, loc)
      BY <2>2 DEF Opened
    <3>3. IsPosition(o) /\ FreeCells(o)
      BY <1>2, <3>1, <3>2, MadeMove, FreeCellsAfter
    <3>4. ~overlaid' => isLegal(pos.board, loc, pos.pla)
      BY <1>1, <2>2
    <3>5. ~overlaid' => TookFreeCells(o)
      BY <1>2, <3>1, <3>2, <3>4, TookFreeCellsAfter
    <3> QED  BY <3>3, <3>5
  <2> QED  BY <2>1, <2>2
<1> HIDE DEF o
<1>4. IsPosition(p) /\ FreeCells(p) /\ (~overlaid' => TookFreeCells(p))
  <2>1. CASE next = NULL_LOC
    BY <1>3, <2>1 DEF PolicyInit
  <2>2. CASE next # NULL_LOC
    <3>1. next \in Cells /\ isLegal(o.board, next, o.pla)
      BY <1>1, <1>3, <2>2, LegalMove
    <3>2. p = MakeMove(o, next)
      BY <2>2 DEF PolicyInit
    <3> QED  BY <1>3, <3>1, <3>2, MadeMove, FreeCellsAfter, TookFreeCellsAfter
  <2> QED  BY <2>1, <2>2
<1> HIDE DEF p
<1>5. /\ policyTargets' = <<>> /\ valueTargets' = <<>> /\ changedNeuralNets' = <<>>
      /\ sidePositionsToSearch' = <<>> /\ sidePositions' = <<>>
  BY <1>1 DEF data, GameInv, ReleasedInv, Playing
<1>6. Playing' /\ stage' = "play"
  BY <1>1 DEF Playing
<1>7. ForksInv' /\ ReleasedInv'
  BY <1>1, <1>6 DEF GameInv, ForksInv, ReleasedInv
<1>8. PosInv' /\ StartInv'
  BY <1>1, <1>4, <1>6 DEF PosInv, StartInv
<1>9. TurnsInv'
  <2>1. NumMoves(p) \in Nat /\ Len(MovesBetween(p, p)) = 0
    <3>1. NumMoves(p) \in Nat
      BY <1>4, LenProperties DEF IsPosition, NumMoves
    <3>2. NumMoves(p) <= NumMoves(p) /\ NumMoves(p) - NumMoves(p) = 0
      BY <3>1
    <3> QED  BY <1>4, <3>1, <3>2, MovesBetweenThem
  <2>2. Positions(p, MovesBetween(p, p))[0] = p
    BY <2>1, PositionsSteps
  <2>3. PositionAt(0)' = p
    BY <1>1, <2>2 DEF PositionAt, MovesBetween
  <2>4. IsSeq(<<>>) /\ Len(<<>>) = 0
    BY SmallSeqs
  <2>5. PositionAt(Len(policyTargets))' = pos'
    BY <1>1, <1>5, <2>3, <2>4
  <2> QED  BY <1>1, <1>5, <2>1, <2>4, <2>5 DEF TurnsInv
<1>10. ValuesInv'
  BY <1>1, <1>5, SmallSeqs DEF ValuesInv
<1>11. NetsInv'
  <2>1. <<>> \in Seq(Nat) /\ Len(<<>>) = 0 /\ DOMAIN <<>> = {}
    OBVIOUS
  <2> QED  BY <1>1, <1>5, <2>1 DEF NetsInv
<1>12. SidesInv'
  BY <1>5, SmallSeqs DEF SidesInv
<1> QED
  BY <1>7, <1>8, <1>9, <1>10, <1>11, <1>12 DEF GameInv

(* New side positions, with what the present net finds in them.                        *)
LEMMA SidesAdded ==
  ASSUME SidesInv, NetsInv, Playing, NEW more, IsSeq(more), sidePositions' = sidePositions \o more,
         \A i \in 1..Len(more) : \E q : more[i] = SidePosition(q, Subject(q)),
         Len(changedNeuralNets') \in Nat, Len(changedNeuralNets) <= Len(changedNeuralNets')
  PROVE  SidesInv'
<1> DEFINE n == Len(sidePositions)
<1>1. /\ IsSeq(sidePositions') /\ n \in Nat /\ Len(more) \in Nat
      /\ Len(sidePositions') = n + Len(more)
      /\ \A i \in 1..n : sidePositions'[i] = sidePositions[i]
      /\ \A i \in 1..Len(more) : sidePositions'[n + i] = more[i]
  BY SeqJoined DEF SidesInv
<1>2. bot.net = Len(changedNeuralNets) /\ Len(changedNeuralNets) \in Nat
  BY LenProperties DEF NetsInv
<1>3. ASSUME NEW i \in 1..(n + Len(more))
      PROVE  /\ sidePositions'[i].target.subject = Subject(sidePositions'[i].position)
             /\ sidePositions'[i].target.net = sidePositions'[i].numNeuralNetChangesSoFar
             /\ sidePositions'[i].numNeuralNetChangesSoFar \in 0..Len(changedNeuralNets')
  <2>1. CASE i \in 1..n
    <3>1. sidePositions'[i] = sidePositions[i]
      BY <1>1, <2>1
    <3>2. /\ sidePositions[i].target.subject = Subject(sidePositions[i].position)
          /\ sidePositions[i].target.net = sidePositions[i].numNeuralNetChangesSoFar
          /\ sidePositions[i].numNeuralNetChangesSoFar \in 0..Len(changedNeuralNets)
      BY <2>1 DEF SidesInv
    <3>3. 0..Len(changedNeuralNets) \subseteq 0..Len(changedNeuralNets')
      BY <1>2
    <3> QED  BY <3>1, <3>2, <3>3
  <2>2. CASE i \in (n + 1)..(n + Len(more))
    <3>1. i - n \in 1..Len(more) /\ n + (i - n) = i
      BY <1>1, <2>2
    <3>2. PICK q : more[i - n] = SidePosition(q, Subject(q))
      BY <3>1
    <3>3. sidePositions'[i] = SidePosition(q, Subject(q))
      BY <1>1, <3>1, <3>2
    <3>4. sidePositions'[i] = [position |-> q, target |-> [subject |-> Subject(q), net |-> bot.net],
                               numNeuralNetChangesSoFar |-> Len(changedNeuralNets)]
      BY <3>3 DEF SidePosition
    <3> QED  BY <1>2, <3>4
  <2> QED  BY <1>1, <2>1, <2>2
<1> QED
  BY <1>1, <1>3 DEF SidesInv

LEMMA OfTheTree ==
  ASSUME NEW p, NEW excluded, NEW tree \in TreePositions(p, excluded)
  PROVE  IsSeq(tree) /\ \A i \in 1..Len(tree) : \E q : tree[i] = SidePosition(q, Subject(q))
<1>1. CASE tree = <<>>
  BY <1>1, SmallSeqs
<1>2. CASE tree # <<>>
  <2>1. PICK q : tree = <<SidePosition(q, Subject(q))>>
    BY <1>2 DEF TreePositions
  <2> DEFINE e == SidePosition(q, Subject(q))
  <2>2. IsSeq(<<e>>) /\ Len(<<e>>) = 1 /\ <<e>>[1] = e
    BY SmallSeqs
  <2> QED  BY <2>1, <2>2
<1> QED
  BY <1>1, <1>2

(* How the targets' nets and the turns before which nets came fit together.               *)
Counted(changed, targets, n0, m) ==
  \A i \in 1..m :
    /\ targets[i].net \in 0..Len(changed)
    /\ \A k \in 1..Len(changed) : changed[k] > n0 + i - 1 <=> k > targets[i].net

Noted(changed, n, targets, n0, m, turn) ==
  /\ changed \in Seq(Nat) /\ Len(changed) = n /\ Counted(changed, targets, n0, m)
  /\ \A k \in 1..Len(changed) : changed[k] <= turn

LEMMA NetCounted ==
  ASSUME NEW changed, NEW targets, NEW n0 \in Nat, NEW m \in Nat, NEW turn \in Nat, n0 + m <= turn,
         NEW nets, Noted(changed, nets, targets, n0, m, turn)
  PROVE  Noted(Append(changed, turn), nets + 1, targets, n0, m, turn)
<1> DEFINE c == Append(changed, turn)
<1>0. /\ changed \in Seq(Nat) /\ nets = Len(changed) /\ Counted(changed, targets, n0, m)
      /\ \A k \in 1..Len(changed) : changed[k] <= turn
  BY DEF Noted
<1> DEFINE n == Len(changed)
<1>1. n \in Nat /\ DOMAIN changed = 1..n /\ \A k \in 1..n : changed[k] \in Nat
  BY <1>0, LenProperties, ElementOfSeq
<1>2. /\ c \in Seq(Nat) /\ Len(c) = n + 1 /\ \A k \in 1..n : c[k] = changed[k]
      /\ c[n + 1] = turn
  BY <1>0, AppendProperties
<1>3. DOMAIN c = 1..(n + 1)
  BY <1>2, LenProperties
<1> HIDE DEF n, c
<1>4. \A k \in 1..(n + 1) : c[k] <= turn
  <2>1. \A k \in 1..n : changed[k] <= turn
    BY <1>0 DEF n
  <2>2. ASSUME NEW k \in 1..(n + 1)  PROVE c[k] <= turn
    <3>1. CASE k = n + 1
      BY <1>2, <3>1
    <3>2. CASE k \in 1..n
      BY <1>2, <2>1, <3>2
    <3> QED  BY <1>1, <3>1, <3>2
  <2> QED  BY <2>2
<1>5. ASSUME NEW i \in 1..m
      PROVE  /\ targets[i].net \in 0..(n + 1)
             /\ \A k \in 1..(n + 1) : c[k] > n0 + i - 1 <=> k > targets[i].net
  <2>1. /\ targets[i].net \in 0..n
        /\ \A k \in 1..n : changed[k] > n0 + i - 1 <=> k > targets[i].net
    BY <1>0 DEF Counted, n
  <2>2. ASSUME NEW k \in 1..(n + 1)  PROVE c[k] > n0 + i - 1 <=> k > targets[i].net
    <3>1. CASE k = n + 1
      BY <1>1, <1>2, <2>1, <3>1
    <3>2. CASE k \in 1..n
      BY <1>2, <2>1, <3>2
    <3> QED  BY <1>1, <3>1, <3>2
  <2> QED  BY <1>1, <2>1, <2>2
<1>6. Counted(c, targets, n0, m)
  BY <1>2, <1>5 DEF Counted
<1> QED
  BY <1>0, <1>2, <1>4, <1>6 DEF Noted, n, c

(* A turn: the target is of the position that the game had then, and a net that comes now   *)
(* is noted for the next turn.                                                              *)
LEMMA PlayTurnInv ==
  ASSUME GameInv, NEW loc, NEW forkLoc, NEW newer \in BOOLEAN, PlayTurn(loc, forkLoc, newer)
  PROVE  GameInv'
<1> DEFINE n0 == NumMoves(start)
           m == Len(policyTargets)
           found == Found(bot)
<1>1. /\ stage = "play" /\ stage' = "play" /\ Playing /\ Playing' /\ start' = start
      /\ pos' = MakeMove(pos, loc) /\ UNCHANGED <<forks, props, overlaid>>
      /\ policyTargets' = Append(policyTargets, found)
      /\ valueTargets' = Append(valueTargets, found)
      /\ bot' = [root |-> MakeMove(bot.root, loc), net |-> bot.net + (IF newer THEN 1 ELSE 0)]
      /\ changedNeuralNets' = IF newer THEN Append(changedNeuralNets, NumMoves(pos) + 1)
                                       ELSE changedNeuralNets
      /\ loc \in LegalMoves(bot.root)
  BY DEF PlayTurn, CheckForNewNNEval, NextTurnIdx, Playing
<1>2. IsPosition(pos) /\ FreeCells(pos) /\ (~overlaid => TookFreeCells(pos)) /\ IsPosition(start)
      /\ start.hist.initialBoard = pos.hist.initialBoard
      /\ start.hist.initialPla = pos.hist.initialPla
  BY <1>1 DEF GameInv, PosInv, StartInv
<1>3. bot.root = pos /\ valueTargets = policyTargets /\ IsSeq(policyTargets)
  BY <1>1 DEF GameInv, ValuesInv, TurnsInv
<1>4. loc \in Cells /\ isLegal(pos.board, loc, pos.pla)
  BY <1>1, <1>2, <1>3, LegalMove
<1>5. /\ IsPosition(pos') /\ FreeCells(pos') /\ (~overlaid' => TookFreeCells(pos'))
      /\ start.hist.initialBoard = pos'.hist.initialBoard
      /\ start.hist.initialPla = pos'.hist.initialPla
  BY <1>1, <1>2, <1>4, MadeMove, FreeCellsAfter, TookFreeCellsAfter
<1>6. /\ n0 \in Nat /\ m \in Nat /\ NumMoves(pos) = n0 + m /\ NumMoves(pos') = n0 + m + 1
      /\ \A k \in 1..(n0 + m) : pos'.hist.moveHistory[k] = pos.hist.moveHistory[k]
      /\ pos'.hist.moveHistory[n0 + m + 1].loc = loc
  <2>1. n0 \in Nat /\ m \in Nat
    BY <1>2, <1>3, LenProperties DEF IsPosition, NumMoves, IsSeq
  <2>2. NumMoves(pos) = n0 + m
    BY <1>1 DEF GameInv, TurnsInv
  <2>3. /\ NumMoves(pos') = NumMoves(pos) + 1
        /\ \A k \in 1..NumMoves(pos) : pos'.hist.moveHistory[k] = pos.hist.moveHistory[k]
        /\ pos'.hist.moveHistory[NumMoves(pos) + 1].loc = loc
    BY <1>1, <1>2, <1>4, MovesAfter
  <2> QED  BY <2>1, <2>2, <2>3
<1>7. /\ IsSeq(policyTargets') /\ Len(policyTargets') = m + 1
      /\ \A i \in 1..m : policyTargets'[i] = policyTargets[i]
      /\ policyTargets'[m + 1] = found
  BY <1>1, <1>3, SeqAppended
<1>8. found.subject = Subject(pos) /\ found.net = bot.net
  BY <1>3 DEF Found
<1>9. ForksInv' /\ ReleasedInv'
  BY <1>1 DEF GameInv, ForksInv, ReleasedInv
<1>10. PosInv' /\ StartInv'
  BY <1>1, <1>2, <1>5 DEF PosInv, StartInv
<1>11. TurnsInv'
  <2> DEFINE before == MovesBetween(start, pos)
             after == MovesBetween(start, pos')
             at == Positions(start, before)
             then == Positions(start, after)
  <2>1. Len(before) = m /\ \A k \in 1..m : before[k] = pos.hist.moveHistory[n0 + k]
    BY <1>2, <1>6, MovesBetweenThem
  <2>2. Len(after) = m + 1 /\ \A k \in 1..(m + 1) : after[k] = pos'.hist.moveHistory[n0 + k]
    BY <1>2, <1>5, <1>6, MovesBetweenThem
  <2>3. at[m] = pos /\ \A i \in 1..m : policyTargets[i].subject = Subject(at[i - 1])
    BY <1>1 DEF GameInv, TurnsInv, PositionAt, MovesBetween
  <2>4. \A i \in Int : PositionAt(i)' = then[i]
    BY <1>1 DEF PositionAt, MovesBetween
  <2>12. PositionAt(Len(policyTargets))' = then[Len(policyTargets')]
    BY <1>1 DEF PositionAt, MovesBetween
  <2>13. Len(after) \in Nat /\ m + 1 \in 1..Len(after) /\ (m + 1) - 1 = m
    BY <1>6, <2>2
  <2> HIDE DEF before, after, n0, m
  <2>5. \A k \in 1..m : before[k].loc = after[k].loc
    <3>1. \A k \in 1..m : n0 + k \in 1..(n0 + m) /\ k \in 1..(m + 1)
      BY <1>6
    <3> QED  BY <1>6, <2>1, <2>2, <3>1
  <2>6. \A k \in 0..m : at[k] = then[k]
    <3>1. /\ m \in Nat /\ Len(before) \in Nat /\ Len(after) \in Nat
          /\ m <= Len(before) /\ m <= Len(after)
      BY <1>6, <2>1, <2>2
    <3> QED  BY <2>5, <3>1, PositionsPrefix
  <2>7. then[m + 1] = pos'
    <3>1. then[m + 1] = MakeMove(then[m], after[m + 1].loc)
      BY <2>13, PositionsSteps
    <3>2. after[m + 1].loc = loc
      <4>1. after[m + 1] = pos'.hist.moveHistory[n0 + (m + 1)] /\ n0 + (m + 1) = n0 + m + 1
        BY <1>6, <2>2
      <4> QED  BY <1>6, <4>1
    <3>3. then[m] = pos
      BY <1>6, <2>3, <2>6
    <3> QED  BY <1>1, <3>1, <3>2, <3>3
  <2> HIDE DEF at, then
  <2>8. ASSUME NEW i \in 1..(m + 1)  PROVE policyTargets'[i].subject = Subject(then[i - 1])
    <3>1. CASE i = m + 1
      <4>1. policyTargets'[i].subject = Subject(pos)
        BY <1>7, <1>8, <3>1
      <4>2. i - 1 = m /\ then[m] = pos
        BY <1>6, <2>3, <2>6, <3>1
      <4> QED  BY <4>1, <4>2
    <3>2. CASE i \in 1..m
      <4>1. policyTargets'[i] = policyTargets[i] /\ i - 1 \in 0..m
        BY <1>6, <1>7, <3>2
      <4>2. then[i - 1] = at[i - 1]
        BY <2>6, <4>1
      <4> QED  BY <2>3, <3>2, <4>1, <4>2
    <3> QED  BY <1>6, <3>1, <3>2
  <2>9. NumMoves(pos') = NumMoves(start') + Len(policyTargets')
    BY <1>1, <1>6, <1>7 DEF n0
  <2>10. PositionAt(Len(policyTargets))' = pos'
    BY <1>7, <2>12, <2>7
  <2>11. (\A i \in 1..Len(policyTargets) : policyTargets[i].subject = Subject(PositionAt(i - 1)))'
    <3> SUFFICES ASSUME NEW i \in 1..(m + 1)
                 PROVE  policyTargets'[i].subject = Subject(PositionAt(i - 1)')
      BY <1>7
    <3>1. PositionAt(i - 1)' = then[i - 1]
      BY <1>6, <2>4
    <3> QED  BY <2>8, <3>1
  <2> QED  BY <1>7, <2>9, <2>10, <2>11 DEF TurnsInv
<1>12. ValuesInv'
  <2>1. valueTargets' = policyTargets' /\ bot'.root = pos'
    BY <1>1, <1>3
  <2> QED  BY <1>1, <1>7, <2>1 DEF ValuesInv
<1>13. /\ changedNeuralNets \in Seq(Nat) /\ Len(changedNeuralNets) \in Nat
       /\ bot.net = Len(changedNeuralNets)
       /\ \A k \in 1..Len(changedNeuralNets) :
            changedNeuralNets[k] \in Nat /\ changedNeuralNets[k] <= n0 + m
       /\ Counted(changedNeuralNets, policyTargets, n0, m)
  <2>1. changedNeuralNets \in Seq(Nat)
    BY DEF GameInv, NetsInv
  <2>2. Len(changedNeuralNets) \in Nat /\ DOMAIN changedNeuralNets = 1..Len(changedNeuralNets)
        /\ \A k \in 1..Len(changedNeuralNets) : changedNeuralNets[k] \in Nat
    BY <2>1, LenProperties, ElementOfSeq
  <2>3. NetsInv
    BY DEF GameInv
  <2> QED  BY <1>1, <1>6, <2>1, <2>2, <2>3 DEF NetsInv, Counted
<1> DEFINE nets == Len(changedNeuralNets)
<1>14. Counted(changedNeuralNets, policyTargets', n0, m + 1)
  <2> HIDE DEF n0, m, found, nets
  <2> SUFFICES ASSUME NEW i \in 1..(m + 1)
               PROVE  /\ policyTargets'[i].net \in 0..nets
                      /\ \A k \in 1..nets :
                           changedNeuralNets[k] > n0 + i - 1 <=> k > policyTargets'[i].net
    BY DEF Counted, nets
  <2>1. CASE i = m + 1
    <3>1. policyTargets'[i].net = nets
      BY <1>7, <1>8, <1>13, <2>1 DEF nets
    <3> QED  BY <1>6, <1>13, <2>1, <3>1 DEF nets
  <2>2. CASE i \in 1..m
    BY <1>7, <1>13, <2>2 DEF Counted, nets
  <2> QED  BY <1>6, <2>1, <2>2
<1>15. /\ changedNeuralNets' \in Seq(Nat) /\ Counted(changedNeuralNets', policyTargets', n0, m + 1)
       /\ \A k \in DOMAIN changedNeuralNets' : changedNeuralNets'[k] <= n0 + m + 1
       /\ Len(changedNeuralNets') = nets + (IF newer THEN 1 ELSE 0)
  <2>1. n0 + m + 1 \in Nat /\ n0 + (m + 1) <= n0 + m + 1 /\ m + 1 \in Nat
        /\ \A k \in 1..nets : changedNeuralNets[k] <= n0 + m + 1
    BY <1>6, <1>13
  <2>2. changedNeuralNets' = IF newer THEN Append(changedNeuralNets, n0 + m + 1) ELSE changedNeuralNets
    BY <1>1, <1>6
  <2>3. changedNeuralNets \in Seq(Nat) /\ n0 \in Nat
    BY <1>6, <1>13
  <2>4. PICK turn, t, ch, tg, c, N :
          /\ turn = n0 + m + 1 /\ t = m + 1 /\ ch = changedNeuralNets /\ tg = policyTargets'
          /\ c = changedNeuralNets' /\ N = n0
    OBVIOUS
  <2> HIDE DEF n0, m, nets
  <2>5. /\ turn \in Nat /\ t \in Nat /\ N + t <= turn /\ N \in Nat /\ ch \in Seq(Nat)
        /\ \A k \in 1..Len(ch) : ch[k] <= turn
    BY <2>1, <2>3, <2>4 DEF nets
  <2>6. Counted(ch, tg, N, t)
    BY <1>14, <2>4
  <2>7. c = IF newer THEN Append(ch, turn) ELSE ch
    BY <2>2, <2>4
  <2>8. Noted(ch, Len(ch), tg, N, t, turn)
    BY <2>5, <2>6 DEF Noted
  <2>9. CASE newer
    <3>1. Noted(Append(ch, turn), Len(ch) + 1, tg, N, t, turn)
      BY <2>5, <2>8, NetCounted
    <3>2. c = Append(ch, turn)
      BY <2>7, <2>9
    <3>3. Noted(c, Len(ch) + 1, tg, N, t, turn)
      BY <3>1, <3>2
    <3>4. c \in Seq(Nat) /\ Len(c) = Len(ch) + 1 /\ Counted(c, tg, N, t)
          /\ \A k \in 1..Len(c) : c[k] <= turn
      BY <3>3 DEF Noted
    <3>5. DOMAIN c = 1..Len(c)
      BY <3>4, LenProperties
    <3> QED  BY <2>4, <2>9, <3>4, <3>5 DEF nets
  <2>10. CASE ~newer
    <3>1. c = ch
      BY <2>7, <2>10
    <3>2. DOMAIN ch = 1..Len(ch) /\ Len(ch) \in Nat
      BY <2>5, LenProperties
    <3> QED  BY <2>4, <2>5, <2>6, <2>10, <3>1, <3>2 DEF nets
  <2> QED  BY <2>9, <2>10
<1>16. NetsInv'
  <2>1. bot'.net = Len(changedNeuralNets')
    BY <1>1, <1>13, <1>15
  <2>2. DOMAIN changedNeuralNets' = 1..Len(changedNeuralNets')
    BY <1>15, LenProperties
  <2> HIDE DEF m
  <2>3. /\ NumMoves(pos') = n0 + m + 1 /\ Len(policyTargets') = m + 1 /\ NumMoves(start') = n0
    BY <1>1, <1>6, <1>7
  <2> HIDE DEF n0
  <2> QED  BY <1>15, <2>1, <2>2, <2>3 DEF NetsInv, Counted
<1>17. SidesInv'
  <2>1. PICK tree \in TreePositions(pos, {loc, forkLoc}) : sidePositions' = sidePositions \o tree
    BY DEF PlayTurn
  <2>2. Len(changedNeuralNets') \in Nat /\ Len(changedNeuralNets) <= Len(changedNeuralNets')
    BY <1>13, <1>15
  <2> QED  BY <1>1, <2>1, <2>2, OfTheTree, SidesAdded DEF GameInv
<1> QED
  BY <1>9, <1>10, <1>11, <1>12, <1>16, <1>17 DEF GameInv

(* The first value is replaced by the second one if the game had a hint.                    *)
LEMMA EndPlayInv ==
  ASSUME GameInv, EndPlay
  PROVE  GameInv'
<1> DEFINE values == Append(valueTargets, FinalValue(pos.hist.winner))
           m == Len(policyTargets)
           second == values[IF Len(values) = 1 THEN 1 ELSE 2]
<1>1. /\ stage = "play" /\ stage' = "side" /\ Playing /\ Playing'
      /\ valueTargets' = IF props.hintLoc # NULL_LOC THEN [values EXCEPT ![1] = second] ELSE values
      /\ UNCHANGED <<forks, pos, start, props, bot, policyTargets, changedNeuralNets,
                     sidePositionsToSearch, sidePositions, overlaid>>
  BY DEF EndPlay, Playing
<1>2. valueTargets = policyTargets /\ IsSeq(policyTargets) /\ IsSeq(valueTargets)
  BY <1>1 DEF GameInv, ValuesInv, TurnsInv
<1>3. /\ IsSeq(values) /\ m \in Nat /\ Len(values) = m + 1
      /\ \A i \in 1..m : values[i] = policyTargets[i]
  BY <1>2, SeqAppended
<1>4. ForksInv' /\ ReleasedInv' /\ PosInv' /\ StartInv'
  BY <1>1 DEF GameInv, ForksInv, ReleasedInv, PosInv, StartInv
<1>5. TurnsInv'
  <2>1. \A i \in Int : PositionAt(i)' = PositionAt(i)
    BY <1>1 DEF PositionAt
  <2>2. PositionAt(Len(policyTargets))' = PositionAt(Len(policyTargets))
    BY <1>1 DEF PositionAt
  <2>3. /\ NumMoves(pos) = NumMoves(start) + m /\ PositionAt(Len(policyTargets)) = pos
        /\ \A i \in 1..m : policyTargets[i].subject = Subject(PositionAt(i - 1))
    BY <1>1 DEF GameInv, TurnsInv
  <2>4. (\A i \in 1..Len(policyTargets) : policyTargets[i].subject = Subject(PositionAt(i - 1)))'
    BY <1>1, <2>1, <2>3
  <2> QED  BY <1>1, <1>2, <2>2, <2>3, <2>4 DEF TurnsInv
<1>6. NetsInv' /\ SidesInv'
  BY <1>1 DEF GameInv, NetsInv, SidesInv
<1> HIDE DEF values, m
<1>7. /\ IsSeq(valueTargets') /\ Len(valueTargets') = m + 1
      /\ \A i \in 1..m : \/ valueTargets'[i] = policyTargets[i]
                         \/ i = 1 /\ props.hintLoc # NULL_LOC /\ valueTargets'[1] = valueTargets'[2]
  <2>1. CASE props.hintLoc = NULL_LOC
    BY <1>1, <1>3, <2>1
  <2>2. CASE props.hintLoc # NULL_LOC
    <3> DEFINE S == Range(values)
    <3>1. values \in Seq(S) /\ DOMAIN values = 1..(m + 1) /\ 1 \in 1..(m + 1)
      BY <1>3, LenProperties DEF IsSeq
    <3>2. PICK k \in 1..(m + 1) : second = values[k] /\ (k = IF m = 0 THEN 1 ELSE 2)
      BY <1>3
    <3>8. valueTargets' = [values EXCEPT ![1] = second]
      BY <1>1, <2>2
    <3> HIDE DEF S, second
    <3>9. values[k] \in S
      BY <1>3, <3>1, <3>2, ElementOfSeq
    <3>3. values[k] \in S /\ valueTargets' = [values EXCEPT ![1] = values[k]]
      BY <3>2, <3>8, <3>9
    <3>4. /\ [values EXCEPT ![1] = values[k]] \in Seq(S)
          /\ Len([values EXCEPT ![1] = values[k]]) = m + 1
          /\ \A i \in 1..(m + 1) :
               [values EXCEPT ![1] = values[k]][i] = IF i = 1 THEN values[k] ELSE values[i]
      BY <1>3, <3>1, <3>3, ExceptSeq
    <3>5. /\ valueTargets' \in Seq(S) /\ Len(valueTargets') = m + 1
          /\ \A i \in 1..(m + 1) : valueTargets'[i] = IF i = 1 THEN values[k] ELSE values[i]
      BY <3>3, <3>4
    <3>6. IsSeq(valueTargets')
      BY <3>5, SeqOfRange DEF IsSeq
    <3>7. ASSUME NEW i \in 1..m
          PROVE  \/ valueTargets'[i] = policyTargets[i]
                 \/ i = 1 /\ valueTargets'[1] = valueTargets'[2]
      <4>1. CASE i = 1
        <5>1. 2 \in 1..(m + 1) /\ k = 2
          BY <1>3, <3>2, <4>1
        <5> QED  BY <3>5, <4>1, <5>1
      <4>2. CASE i # 1
        BY <1>3, <3>5, <4>2
      <4> QED  BY <4>1, <4>2
    <3> QED  BY <2>2, <3>5, <3>6, <3>7
  <2> QED  BY <2>1, <2>2
<1>8. ValuesInv'
  BY <1>1, <1>7 DEF ValuesInv, m
<1> QED
  BY <1>4, <1>5, <1>6, <1>8 DEF GameInv

(* A net that comes while side positions are searched comes after all turns.                *)
LEMMA SearchSideInv ==
  ASSUME GameInv, NEW newer \in BOOLEAN, SearchSidePosition(newer)
  PROVE  GameInv'
<1> DEFINE n0 == NumMoves(start)
           m == Len(policyTargets)
           nets == Len(changedNeuralNets)
           p == Head(sidePositionsToSearch)
<1>1. /\ stage = "side" /\ stage' = "side" /\ Playing /\ Playing'
      /\ UNCHANGED <<forks, pos, start, props, policyTargets, valueTargets, overlaid>>
      /\ bot'.net = bot.net + (IF newer THEN 1 ELSE 0)
      /\ changedNeuralNets' = IF newer THEN Append(changedNeuralNets, NumMoves(pos))
                                       ELSE changedNeuralNets
  BY DEF SearchSidePosition, CheckForNewNNEval, Playing
<1>2. PICK tree \in TreePositions(p, {}) :
        sidePositions' = sidePositions \o <<SidePosition(p, Subject(p))>> \o tree
  BY DEF SearchSidePosition
<1>3. ForksInv' /\ ReleasedInv' /\ PosInv' /\ StartInv'
  BY <1>1 DEF GameInv, ForksInv, ReleasedInv, PosInv, StartInv
<1>4. ValuesInv'
  BY <1>1 DEF GameInv, ValuesInv
<1>5. TurnsInv'
  <2>1. \A i \in Int : PositionAt(i)' = PositionAt(i)
    BY <1>1 DEF PositionAt
  <2>2. PositionAt(Len(policyTargets))' = PositionAt(Len(policyTargets))
    BY <1>1 DEF PositionAt
  <2>3. /\ NumMoves(pos) = NumMoves(start) + m /\ PositionAt(Len(policyTargets)) = pos
        /\ \A i \in 1..m : policyTargets[i].subject = Subject(PositionAt(i - 1))
        /\ IsSeq(policyTargets)
    BY <1>1 DEF GameInv, TurnsInv
  <2>4. (\A i \in 1..Len(policyTargets) : policyTargets[i].subject = Subject(PositionAt(i - 1)))'
    BY <1>1, <2>1, <2>3
  <2> QED  BY <1>1, <2>2, <2>3, <2>4 DEF TurnsInv
<1>6. /\ n0 \in Nat /\ m \in Nat /\ NumMoves(pos) = n0 + m
  <2>1. IsPosition(start) /\ IsSeq(policyTargets) /\ NumMoves(pos) = n0 + m
    BY <1>1 DEF GameInv, StartInv, TurnsInv
  <2> QED  BY <2>1, LenProperties DEF IsPosition, NumMoves, IsSeq
<1>7. changedNeuralNets \in Seq(Nat) /\ nets \in Nat /\ DOMAIN changedNeuralNets = 1..nets
      /\ bot.net = nets
      /\ Noted(changedNeuralNets, nets, policyTargets, n0, m, n0 + m)
  <2>1. changedNeuralNets \in Seq(Nat) /\ NetsInv
    BY DEF GameInv, NetsInv
  <2>2. nets \in Nat /\ DOMAIN changedNeuralNets = 1..nets
    BY <2>1, LenProperties
  <2>3. /\ \A k \in 1..nets : changedNeuralNets[k] <= n0 + m
        /\ Counted(changedNeuralNets, policyTargets, n0, m) /\ bot.net = nets
    BY <1>1, <1>6, <2>1, <2>2 DEF NetsInv, Counted
  <2> QED  BY <2>1, <2>2, <2>3 DEF Noted
<1> HIDE DEF n0, m, nets
<1>8. \E k \in {nets, nets + 1} : /\ k = nets + (IF newer THEN 1 ELSE 0)
                                  /\ Noted(changedNeuralNets', k, policyTargets, n0, m, n0 + m)
  <2>1. CASE newer
    <3>1. PICK t : t = n0 + m
      OBVIOUS
    <3>2. t \in Nat /\ n0 + m <= t
      BY <1>6, <3>1
    <3>3. changedNeuralNets' = Append(changedNeuralNets, t)
      BY <1>1, <1>6, <2>1, <3>1
    <3>4. Noted(changedNeuralNets, nets, policyTargets, n0, m, t)
      BY <1>7, <3>1
    <3>5. Noted(Append(changedNeuralNets, t), nets + 1, policyTargets, n0, m, t)
      BY <1>6, <3>2, <3>4, NetCounted
    <3>6. Noted(changedNeuralNets', nets + 1, policyTargets, n0, m, n0 + m)
      BY <3>1, <3>3, <3>5
    <3> QED  BY <2>1, <3>6
  <2>2. CASE ~newer
    <3>1. changedNeuralNets' = changedNeuralNets /\ nets = nets + 0
      BY <1>1, <1>7, <2>2
    <3> QED  BY <1>7, <2>2, <3>1
  <2> QED  BY <2>1, <2>2
<1>9. /\ changedNeuralNets' \in Seq(Nat) /\ Len(changedNeuralNets') \in Nat
      /\ DOMAIN changedNeuralNets' = 1..Len(changedNeuralNets') /\ nets <= Len(changedNeuralNets')
      /\ bot'.net = Len(changedNeuralNets')
      /\ Counted(changedNeuralNets', policyTargets, n0, m)
      /\ \A k \in 1..Len(changedNeuralNets') : changedNeuralNets'[k] <= n0 + m
  <2>1. PICK k \in {nets, nets + 1} : /\ k = nets + (IF newer THEN 1 ELSE 0)
                                      /\ Noted(changedNeuralNets', k, policyTargets, n0, m, n0 + m)
    BY <1>8
  <2>2. /\ changedNeuralNets' \in Seq(Nat) /\ Len(changedNeuralNets') = k
        /\ Counted(changedNeuralNets', policyTargets, n0, m)
        /\ \A j \in 1..Len(changedNeuralNets') : changedNeuralNets'[j] <= n0 + m
    BY <2>1 DEF Noted
  <2>3. k \in Nat /\ nets <= k
    BY <1>7
  <2>4. bot'.net = k
    BY <1>1, <1>7, <2>1
  <2>5. DOMAIN changedNeuralNets' = 1..Len(changedNeuralNets')
    BY <2>2, LenProperties
  <2> QED  BY <2>2, <2>3, <2>4, <2>5
<1>10. NetsInv'
  <2>1. NumMoves(pos') = n0 + m /\ Len(policyTargets') = m /\ NumMoves(start') = n0
        /\ policyTargets' = policyTargets
    BY <1>1, <1>6 DEF m, n0
  <2> QED  BY <1>9, <2>1 DEF NetsInv, Counted
<1>11. SidesInv'
  <2> DEFINE own == <<SidePosition(p, Subject(p))>>
             more == own \o tree
  <2>1. IsSeq(own) /\ Len(own) = 1 /\ own[1] = SidePosition(p, Subject(p))
    BY SmallSeqs
  <2>2. IsSeq(tree) /\ \A i \in 1..Len(tree) : \E q : tree[i] = SidePosition(q, Subject(q))
    BY OfTheTree
  <2>3. IsSeq(sidePositions) /\ SidesInv /\ NetsInv
    BY DEF GameInv, SidesInv
  <2> HIDE DEF own
  <2>9. /\ IsSeq(own \o tree) /\ Len(tree) \in Nat /\ Len(own \o tree) = Len(own) + Len(tree)
        /\ \A i \in 1..Len(own) : (own \o tree)[i] = own[i]
        /\ \A i \in 1..Len(tree) : (own \o tree)[Len(own) + i] = tree[i]
    <3>1. IsSeq(own) /\ IsSeq(tree)
      BY <2>1, <2>2
    <3> QED  BY ONLY <3>1, SeqJoined
  <2>4. /\ IsSeq(more) /\ Len(tree) \in Nat /\ Len(more) = Len(own) + Len(tree) /\ Len(own) = 1
        /\ \A i \in 1..Len(own) : more[i] = own[i]
        /\ \A i \in 1..Len(tree) : more[Len(own) + i] = tree[i]
    BY <2>1, <2>9
  <2>5. ASSUME NEW i \in 1..Len(more)  PROVE \E q : more[i] = SidePosition(q, Subject(q))
    <3>1. CASE i = 1
      BY <2>1, <2>4, <3>1
    <3>2. CASE i # 1
      <4>1. PICK j \in 1..Len(tree) : i = 1 + j
        BY <2>4, <3>2
      <4>2. more[i] = tree[j]
        BY <2>1, <2>4, <4>1
      <4> QED  BY <2>2, <4>2
    <3> QED  BY <3>1, <3>2
  <2>6. sidePositions' = sidePositions \o more
    <3>1. PICK a, b, c : a = sidePositions /\ b = own /\ c = tree
      OBVIOUS
    <3>2. a \in Seq(Range(a)) /\ b \in Seq(Range(b)) /\ c \in Seq(Range(c))
      BY <2>1, <2>2, <2>3, <3>1 DEF IsSeq
    <3>3. PICK S : a \in Seq(S) /\ b \in Seq(S) /\ c \in Seq(S)
      <4> DEFINE S == Range(a) \cup Range(b) \cup Range(c)
      <4>1. Range(a) \subseteq S /\ Range(b) \subseteq S /\ Range(c) \subseteq S
        OBVIOUS
      <4> HIDE DEF S
      <4>2. a \in Seq(S) /\ b \in Seq(S) /\ c \in Seq(S)
        BY <3>2, <4>1, SeqMonotonic
      <4> QED  BY <4>2
    <3>4. (a \o b) \o c = a \o (b \o c)
      BY <3>3, ConcatAssociative
    <3>5. sidePositions' = (a \o b) \o c
      BY <1>2, <3>1 DEF own
    <3> QED  BY <3>1, <3>4, <3>5
  <2> HIDE DEF more
  <2>7. \A i \in 1..Len(more) : \E q : more[i] = SidePosition(q, Subject(q))
    BY <2>5
  <2>8. IsSeq(more) /\ Len(changedNeuralNets') \in Nat
        /\ Len(changedNeuralNets) <= Len(changedNeuralNets')
    BY <1>9, <2>4 DEF nets
  <2> QED  BY <1>1, <2>3, <2>6, <2>7, <2>8, SidesAdded
<1> QED
  BY <1>3, <1>4, <1>5, <1>10, <1>11 DEF GameInv

(* Nothing that the invariant is about changes, but for a game that goes on to its forks.   *)
LEMMA Unchanged ==
  ASSUME GameInv, UNCHANGED <<forks, pos, start, props, bot, data, overlaid>>,
         stage' = stage \/ (stage = "side" /\ stage' = "fork")
  PROVE  GameInv'
<1>1. Playing' <=> Playing
  BY DEF Playing
<1>2. ForksInv' /\ ReleasedInv' /\ PosInv' /\ StartInv'
  BY <1>1 DEF GameInv, ForksInv, ReleasedInv, PosInv, StartInv, data
<1>3. TurnsInv'
  <2>1. \A i \in Int : PositionAt(i)' = PositionAt(i)
    BY DEF PositionAt
  <2>2. PositionAt(Len(policyTargets))' = PositionAt(Len(policyTargets))
    BY DEF PositionAt, data
  <2> SUFFICES ASSUME Playing  PROVE TurnsInv'
    BY <1>1 DEF TurnsInv
  <2>3. /\ IsSeq(policyTargets)
        /\ NumMoves(pos) = NumMoves(start) + Len(policyTargets)
        /\ PositionAt(Len(policyTargets)) = pos
        /\ \A i \in 1..Len(policyTargets) : policyTargets[i].subject = Subject(PositionAt(i - 1))
    BY DEF GameInv, TurnsInv
  <2>4. (\A i \in 1..Len(policyTargets) : policyTargets[i].subject = Subject(PositionAt(i - 1)))'
    BY <2>1, <2>3 DEF data
  <2> QED  BY <2>2, <2>3, <2>4 DEF TurnsInv, data
<1>4. ValuesInv'
  BY DEF GameInv, ValuesInv, data
<1>5. NetsInv' /\ SidesInv'
  BY <1>1 DEF GameInv, NetsInv, SidesInv, data
<1> QED
  BY <1>2, <1>3, <1>4, <1>5 DEF GameInv

LEMMA EndGameInv ==
  ASSUME GameInv, EndGame
  PROVE  GameInv'
<1>1. stage = "side" /\ UNCHANGED <<forks, pos, start, props, overlaid>> /\ Playing
  BY DEF EndGame, Playing
<1>2. CASE stage' = "none" /\ Release
  <2>1. ForksInv' /\ PosInv' /\ StartInv'
    BY <1>1, <1>2 DEF GameInv, ForksInv, PosInv, StartInv, Playing
  <2> QED  BY <1>2, <2>1, NotPlaying DEF Release
<1>3. CASE stage' = "fork" /\ UNCHANGED <<bot, data>>
  BY <1>1, <1>3, Unchanged
<1> QED
  BY <1>2, <1>3 DEF EndGame

(* After the game its forks, from a replay of its moves.                                     *)
LEMMA ForkMade ==
  ASSUME GameInv, stage \in {"fork", "hintFork"}, NEW moveIdx \in Nat
  PROVE  /\ Good(Replay(moveIdx).position) /\ Replay(moveIdx).thrown \in BOOLEAN
         /\ Replay(moveIdx).thrown => overlaid
         /\ \A loc \in LegalMoves(Replay(moveIdx).position), b \in BOOLEAN :
              ~IsFinished(Replay(moveIdx).position) /\ AddFork(MakeMove(Replay(moveIdx).position, loc), b)
                => ForksInv'
<1>1. /\ IsPosition(pos) /\ (~overlaid => TookFreeCells(pos)) /\ IsPosition(start)
      /\ start.hist.initialBoard = pos.hist.initialBoard
      /\ start.hist.initialPla = pos.hist.initialPla /\ ForksInv
  BY DEF GameInv, PosInv, StartInv, Playing
<1> DEFINE p == Replay(moveIdx).position
<1>2. Good(p) /\ Replay(moveIdx).thrown \in BOOLEAN
      /\ (Replay(moveIdx).thrown => ~TookFreeCells(pos))
  BY <1>1, ReplayIsGood
<1>3. ASSUME NEW loc \in LegalMoves(p), NEW b \in BOOLEAN, ~IsFinished(p), AddFork(MakeMove(p, loc), b)
      PROVE  ForksInv'
  <2> HIDE DEF p
  <2>1. loc \in Cells /\ isLegal(p.board, loc, p.pla)
    BY <1>2, LegalMove DEF Good
  <2>2. Good(MakeMove(p, loc))
    BY <1>2, <1>3, <2>1, GoodGoesOn
  <2> QED  BY <1>1, <1>3, <2>2, ForkAdded
<1> QED
  BY <1>1, <1>2, <1>3

LEMMA ForkGameInv ==
  ASSUME GameInv, NEW moveIdx \in Nat, ForkGame(moveIdx)
  PROVE  GameInv'
<1> DEFINE thrown == Replay(moveIdx).thrown
           p == Replay(moveIdx).position
<1>1. /\ stage = "fork" /\ stage' = (IF thrown THEN "thrown" ELSE "hintFork") /\ Release
      /\ UNCHANGED <<pos, start, props, overlaid>>
      /\ \/ UNCHANGED forks
         \/ /\ ~IsFinished(p)
            /\ \E loc \in LegalMoves(p) : AddFork(MakeMove(p, loc), FALSE)
  BY DEF ForkGame
<1>2. /\ thrown \in BOOLEAN /\ (thrown => overlaid)
      /\ \A loc \in LegalMoves(p), b \in BOOLEAN :
           ~IsFinished(p) /\ AddFork(MakeMove(p, loc), b) => ForksInv'
  BY <1>1, ForkMade
<1> HIDE DEF thrown, p
<1>3. ForksInv'
  <2>1. CASE UNCHANGED forks
    BY <2>1 DEF GameInv, ForksInv
  <2>2. CASE ~IsFinished(p) /\ \E loc \in LegalMoves(p) : AddFork(MakeMove(p, loc), FALSE)
    BY <1>2, <2>2
  <2> QED  BY <1>1, <2>1, <2>2
<1>4. stage' \in {"thrown", "hintFork"} /\ (stage' = "thrown" => overlaid)
  BY <1>1, <1>2
<1>5. PosInv' /\ StartInv'
  BY <1>1, <1>4 DEF GameInv, PosInv, StartInv, Playing
<1> QED
  BY <1>1, <1>3, <1>4, <1>5, NotPlaying DEF Release

LEMMA DontForkGameInv ==
  ASSUME GameInv, DontForkGame
  PROVE  GameInv'
<1>1. ForksInv' /\ PosInv' /\ StartInv'
  BY DEF DontForkGame, GameInv, ForksInv, PosInv, StartInv, Playing
<1> QED
  BY <1>1, NotPlaying DEF DontForkGame, Release

LEMMA HintForkGameInv ==
  ASSUME GameInv, HintForkGame
  PROVE  GameInv'
<1> DEFINE n0 == NumMoves(start)
           thrown == Replay(n0).thrown
           p == Replay(n0).position
<1>1. /\ stage = "hintFork" /\ stage' = (IF HintWasDeclined /\ thrown THEN "thrown" ELSE "none")
      /\ UNCHANGED <<pos, start, props, bot, data, overlaid>>
      /\ \/ UNCHANGED forks
         \/ /\ ~IsFinished(p) /\ props.hintLoc \in LegalMoves(p)
            /\ AddFork(MakeMove(p, props.hintLoc), TRUE)
  BY DEF HintForkGame
<1>2. n0 \in Nat
  <2>1. IsPosition(start)
    BY <1>1 DEF GameInv, StartInv
  <2> QED  BY <2>1, LenProperties DEF IsPosition, NumMoves
<1>3. /\ thrown \in BOOLEAN /\ (thrown => overlaid)
      /\ \A loc \in LegalMoves(p), b \in BOOLEAN :
           ~IsFinished(p) /\ AddFork(MakeMove(p, loc), b) => ForksInv'
  <2> HIDE DEF n0
  <2> QED  BY <1>1, <1>2, ForkMade
<1> HIDE DEF n0, thrown, p
<1>4. ForksInv'
  <2>1. CASE UNCHANGED forks
    BY <2>1 DEF GameInv, ForksInv
  <2>2. CASE ~IsFinished(p) /\ props.hintLoc \in LegalMoves(p)
             /\ AddFork(MakeMove(p, props.hintLoc), TRUE)
    BY <1>3, <2>2
  <2> QED  BY <1>1, <2>1, <2>2
<1>5. stage' \in {"thrown", "none"} /\ (stage' = "thrown" => overlaid)
  <2>1. CASE HintWasDeclined /\ thrown
    BY <1>1, <1>3, <2>1
  <2>2. CASE ~(HintWasDeclined /\ thrown)
    BY <1>1, <2>2
  <2> QED  BY <2>1, <2>2
<1>6. PosInv' /\ StartInv'
  BY <1>1, <1>5 DEF GameInv, PosInv, StartInv, Playing
<1>7. /\ policyTargets' = <<>> /\ valueTargets' = <<>> /\ changedNeuralNets' = <<>>
      /\ sidePositionsToSearch' = <<>> /\ sidePositions' = <<>>
  BY <1>1 DEF GameInv, ReleasedInv, Playing, data
<1> QED
  BY <1>4, <1>5, <1>6, <1>7, NotPlaying

(* A game begins with a good position, but the moves of a sample need not alternate.         *)
LEMMA BeginFromForkInv ==
  ASSUME GameInv, NEW r \in DOMAIN forks, BeginFromFork(r)
  PROVE  GameInv'
<1>1. ForksInv /\ Good(forks[r].position)
  BY DEF GameInv, ForksInv
<1>2. ForksInv'
  BY <1>1, ForkTaken DEF BeginFromFork
<1>3. PICK newProps : Begin(forks[r].position, newProps)
  BY DEF BeginFromFork
<1> QED
  BY <1>1, <1>2, <1>3, BeginInv DEF Good

LEMMA BeginFromEmptyBoardInv ==
  ASSUME GameInv, BeginFromEmptyBoard
  PROVE  GameInv'
<1>1. ForksInv' /\ Begin(EmptyPosition, NoProps)
  BY DEF BeginFromEmptyBoard, GameInv, ForksInv
<1> QED
  BY <1>1, EmptyIsGood, BeginInv DEF Good

LEMMA BeginFromSampleInv ==
  ASSUME GameInv, NEW sample \in PosSamples, BeginFromSample(sample)
  PROVE  GameInv'
<1> DEFINE hist == NewHistory(sample.board, sample.nextPla, "hex", 0)
           played == playMovesTolerant(sample.board, sample.nextPla, hist, sample.moves)
           p == [board |-> played.board, hist |-> played.hist, pla |-> played.nextPla]
<1>1. PICK newProps : Begin(p, newProps) /\ UNCHANGED forks
  BY DEF BeginFromSample
<1>2. Tolerated(played)
  BY SampleIsGood
<1>3. p = PositionOf(played)
  BY DEF PositionOf
<1> HIDE DEF p, played
<1>4. IsPosition(p) /\ FreeCells(p) /\ TookFreeCells(p)
  BY <1>2, <1>3 DEF Tolerated
<1>5. ForksInv'
  BY <1>1 DEF GameInv, ForksInv
<1> QED
  BY <1>1, <1>4, <1>5, BeginInv

LEMMA NextInv == GameInv /\ [Next]_vars => GameInv'
<1> SUFFICES ASSUME GameInv, [Next]_vars  PROVE GameInv'
  OBVIOUS
<1>1. CASE Stop
  BY <1>1, Unchanged DEF Stop
<1>2. CASE BeginFromEmptyBoard
  BY <1>2, BeginFromEmptyBoardInv
<1>3. ASSUME NEW r \in DOMAIN forks, BeginFromFork(r)  PROVE GameInv'
  BY <1>3, BeginFromForkInv
<1>4. ASSUME NEW sample \in PosSamples, BeginFromSample(sample)  PROVE GameInv'
  BY <1>4, BeginFromSampleInv
<1>5. ASSUME NEW loc \in Openings, NEW next \in {NULL_LOC} \cup LegalMoves(pos), Open(loc, next)
      PROVE  GameInv'
  BY <1>5, OpenInv
<1>6. ASSUME NEW loc \in LegalMoves(pos), NEW forkLoc \in {NULL_LOC} \cup LegalMoves(pos),
             NEW newer \in BOOLEAN, PlayTurn(loc, forkLoc, newer)
      PROVE  GameInv'
  BY <1>6, PlayTurnInv
<1>7. CASE EndPlay
  BY <1>7, EndPlayInv
<1>8. ASSUME NEW newer \in BOOLEAN, SearchSidePosition(newer)  PROVE GameInv'
  BY <1>8, SearchSideInv
<1>9. CASE EndGame
  BY <1>9, EndGameInv
<1>10. ASSUME NEW moveIdx \in 0..NumMoves(pos), ForkGame(moveIdx)  PROVE GameInv'
  <2>1. moveIdx \in Nat
    OBVIOUS
  <2> QED  BY <1>10, <2>1, ForkGameInv
<1>11. CASE DontForkGame
  BY <1>11, DontForkGameInv
<1>12. CASE HintForkGame
  BY <1>12, HintForkGameInv
<1>13. CASE UNCHANGED vars
  BY <1>13, Unchanged DEF vars
<1> QED
  BY <1>1, <1>2, <1>3, <1>4, <1>5, <1>6, <1>7, <1>8, <1>9, <1>10, <1>11, <1>12, <1>13 DEF Next

(* The inductive invariant, for boards of every size, samples and bounds.                    *)
THEOREM GameInvariant == Spec => []GameInv
  BY InitInv, NextInv, PTL DEF Spec

-------------------------------------------------------------------------------
LEMMA RowsInv == GameInv => RowsAreOfTheirPositions
<1> SUFFICES ASSUME GameInv, stage = "fork"  PROVE RowsAreOfTheirPositions
  BY DEF RowsAreOfTheirPositions
<1> DEFINE m == Len(policyTargets)
<1>1. Playing /\ IsPosition(start) /\ IsPosition(pos)
  BY DEF GameInv, Playing, StartInv, PosInv
<1>2. /\ IsSeq(policyTargets) /\ NumMoves(pos) = NumMoves(start) + m
      /\ \A i \in 1..m : policyTargets[i].subject = Subject(PositionAt(i - 1))
  BY <1>1 DEF GameInv, TurnsInv
<1>3. /\ Len(valueTargets) = m + 1
      /\ \A i \in 1..m :
           \/ valueTargets[i] = policyTargets[i]
           \/ i = 1 /\ props.hintLoc # NULL_LOC /\ valueTargets[1] = valueTargets[2]
  BY DEF GameInv, ValuesInv
<1>4. /\ IsSeq(sidePositions)
      /\ \A i \in 1..Len(sidePositions) :
           sidePositions[i].target.subject = Subject(sidePositions[i].position)
  BY DEF GameInv, SidesInv
<1>5. m \in Nat /\ NumMoves(start) \in Nat
  BY <1>1, <1>2, LenProperties DEF IsPosition, NumMoves, IsSeq
<1>6. NumTurns = m
  BY <1>2, <1>5 DEF NumTurns
<1>7. PositionAt(0) = start
  <2>1. NumMoves(start) <= NumMoves(pos) /\ NumMoves(pos) - NumMoves(start) = m
    BY <1>2, <1>5
  <2>2. Len(MovesBetween(start, pos)) = m
    BY <1>1, <2>1, MovesBetweenThem
  <2>3. Positions(start, MovesBetween(start, pos))[0] = start
    BY <1>5, <2>2, PositionsSteps
  <2> QED  BY <2>3 DEF PositionAt, MovesBetween
<1> HIDE DEF m
<1> DEFINE Fits(row) ==
             /\ row.policy.subject = row.subject
             /\ \/ row.value = row.policy
                \/ /\ props.hintLoc # NULL_LOC /\ ~row.side /\ row.subject = Subject(start)
                   /\ row.value = valueTargets[2]
<1>8. ASSUME NEW i \in 1..m  PROVE Fits(MainRow(i))
  <2> DEFINE row == MainRow(i)
  <2>1. /\ row.subject = Subject(PositionAt(i - 1)) /\ row.policy = policyTargets[i]
        /\ row.value = valueTargets[i] /\ row.side = FALSE
    BY DEF MainRow
  <2> HIDE DEF row
  <2>2. row.policy.subject = row.subject
    BY <1>2, <2>1
  <2>3. CASE valueTargets[i] = policyTargets[i]
    BY <2>1, <2>2, <2>3 DEF row
  <2>4. CASE i = 1 /\ props.hintLoc # NULL_LOC /\ valueTargets[1] = valueTargets[2]
    <3>1. i - 1 = 0 /\ row.subject = Subject(start)
      BY <1>7, <2>1, <2>4
    <3>2. row.value = valueTargets[2]
      BY <2>1, <2>4
    <3> QED  BY <2>1, <2>2, <2>4, <3>1, <3>2 DEF row
  <2> QED  BY <1>3, <2>3, <2>4
<1>9. ASSUME NEW i \in 1..Len(sidePositions)  PROVE Fits(SideRow(i))
  <2> DEFINE row == SideRow(i)
  <2>1. /\ row.subject = Subject(sidePositions[i].position) /\ row.policy = sidePositions[i].target
        /\ row.value = sidePositions[i].target
    BY DEF SideRow
  <2> HIDE DEF row
  <2> QED  BY <1>4, <2>1 DEF row
<1> HIDE DEF Fits
<1>10. DOMAIN sidePositions = 1..Len(sidePositions)
  BY <1>4, LenProperties DEF IsSeq
<1>11. \A row \in Rows : Fits(row)
  BY <1>6, <1>8, <1>9, <1>10 DEF Rows
<1> QED
  BY <1>3, <1>6, <1>11 DEF RowsAreOfTheirPositions, Fits, m

(* A number of nets is counted by the first of those that came later.                        *)
LEMMA BehindIsCounted ==
  ASSUME NEW turnIdx \in Int, NEW net \in 0..Len(changedNeuralNets), changedNeuralNets \in Seq(Nat),
         \A k \in DOMAIN changedNeuralNets : changedNeuralNets[k] > turnIdx <=> k > net
  PROVE  net + Behind(turnIdx) = Len(changedNeuralNets)
<1> DEFINE n == Len(changedNeuralNets)
           later == {i \in DOMAIN changedNeuralNets : changedNeuralNets[i] > turnIdx}
           first == CHOOSE i \in later : \A j \in later : i <= j
<1>1. n \in Nat /\ DOMAIN changedNeuralNets = 1..n
  BY LenProperties
<1>2. Behind(turnIdx) = IF later = {} THEN 0 ELSE n - first + 1
  BY DEF Behind
<1>3. later = {k \in 1..n : k > net}
  BY <1>1
<1>6. net \in 0..n
  OBVIOUS
<1> HIDE DEF later, n
<1> SUFFICES net + Behind(turnIdx) = n
  BY DEF n
<1>4. CASE net = n
  <2>1. later = {}
    BY <1>1, <1>3, <1>4, <1>6
  <2>2. Behind(turnIdx) = 0
    BY <1>2, <2>1
  <2> QED  BY <1>1, <1>4, <2>2
<1>5. CASE net # n
  <2>1. net + 1 \in later /\ \A j \in later : net + 1 <= j
    BY <1>1, <1>3, <1>5, <1>6
  <2>2. first \in later /\ \A j \in later : first <= j
    <3>1. \E i \in later : \A j \in later : i <= j
      BY <2>1
    <3> QED  BY <3>1
  <2> HIDE DEF first
  <2>3. first = net + 1
    BY <1>1, <1>3, <2>1, <2>2
  <2>4. Behind(turnIdx) = n - (net + 1) + 1
    BY <1>2, <2>1, <2>3
  <2> QED  BY <1>1, <1>6, <2>4
<1> QED
  BY <1>4, <1>5

LEMMA BehindInv == GameInv => NetsBehindAreCounted
<1> SUFFICES ASSUME GameInv, stage = "fork", NEW row \in Rows
             PROVE  row.policy.net + row.behind = bot.net
  BY DEF NetsBehindAreCounted
<1> DEFINE m == Len(policyTargets)
           n == Len(changedNeuralNets)
           n0 == NumMoves(start)
<1>1. Playing /\ IsPosition(start)
  BY DEF GameInv, Playing, StartInv
<1>2. IsSeq(policyTargets) /\ NumMoves(pos) = n0 + m
  BY <1>1 DEF GameInv, TurnsInv
<1>3. /\ changedNeuralNets \in Seq(Nat) /\ bot.net = n
      /\ \A i \in 1..m :
           /\ policyTargets[i].net \in 0..n
           /\ \A k \in DOMAIN changedNeuralNets :
                changedNeuralNets[k] > n0 + i - 1 <=> k > policyTargets[i].net
  BY <1>1 DEF GameInv, NetsInv
<1>4. /\ IsSeq(sidePositions)
      /\ \A i \in 1..Len(sidePositions) :
           /\ sidePositions[i].target.net = sidePositions[i].numNeuralNetChangesSoFar
           /\ sidePositions[i].numNeuralNetChangesSoFar \in 0..n
  BY DEF GameInv, SidesInv
<1>5. n0 \in Nat /\ m \in Nat /\ n \in Nat
  BY <1>1, <1>2, <1>3, LenProperties DEF IsPosition, NumMoves, IsSeq
<1>6. NumTurns = m
  BY <1>2, <1>5 DEF NumTurns
<1> HIDE DEF m, n0
<1>7. CASE \E i \in 1..m : row = MainRow(i)
  <2>1. PICK i \in 1..m : row = MainRow(i)
    BY <1>7
  <2>2. row.policy.net = policyTargets[i].net /\ row.behind = Behind(n0 + i - 1)
    BY <2>1 DEF MainRow, n0
  <2> DEFINE turnIdx == n0 + i - 1
             net == policyTargets[i].net
  <2>3. turnIdx \in Int /\ net \in 0..n
    BY <1>3, <1>5
  <2>4. \A k \in DOMAIN changedNeuralNets : changedNeuralNets[k] > turnIdx <=> k > net
    BY <1>3
  <2> HIDE DEF turnIdx, net
  <2>5. net + Behind(turnIdx) = n
    BY <1>3, <2>3, <2>4, BehindIsCounted
  <2> QED  BY <1>3, <2>2, <2>5 DEF turnIdx, net
<1>8. CASE \E i \in 1..Len(sidePositions) : row = SideRow(i)
  <2>1. PICK i \in 1..Len(sidePositions) : row = SideRow(i)
    BY <1>8
  <2>2. row.policy = sidePositions[i].target /\ row.behind = n - sidePositions[i].numNeuralNetChangesSoFar
    BY <2>1 DEF SideRow
  <2> HIDE DEF n
  <2> QED  BY <1>3, <1>4, <1>5, <2>2
<1>9. DOMAIN sidePositions = 1..Len(sidePositions)
  BY <1>4, LenProperties DEF IsSeq
<1> QED
  BY <1>6, <1>7, <1>8, <1>9 DEF Rows

(* Every row of training data joins a position with what a search found in that position,      *)
(* and each turn has a row: however many moves, side positions and nets a game has.            *)
THEOREM RowsOfTheirPositions == Spec => []RowsAreOfTheirPositions
  BY GameInvariant, RowsInv, PTL

(* A row says how many nets came after its own one, whenever in a game they came.              *)
THEOREM NetsBehindCounted == Spec => []NetsBehindAreCounted
  BY GameInvariant, BehindInv, PTL

(* A game from which another one starts is a legal game that goes on, and only a game whose    *)
(* opening put a stone upon another makes the replay throw.                                    *)
THEOREM ForksLegalGames == Spec => []ForksAreLegalGames
<1>1. GameInv => ForksAreLegalGames
  BY DEF GameInv, ForksInv, PosInv, Good, ForksAreLegalGames
<1> QED
  BY <1>1, GameInvariant, PTL
=============================================================================
