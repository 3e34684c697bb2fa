--------------------------- MODULE MCGTPEngine ----------------------------
EXTENDS GTPEngine

Wide == <<3, 2>>
MCBoardSizes == {Wide}
S(x, y, pla) == [loc |-> getLoc(x, y, Wide), pla |-> pla]
(* A chain one stone short on both sides, a full board but for one     *)
(* cell, a finished game, and a stone upon another.                                    *)
MCSetups ==
  {<<S(0, 0, 1), S(1, 0, 2), S(0, 1, 2)>>,
   <<S(0, 0, 2), S(1, 0, 1), S(2, 0, 1), S(0, 1, 1), S(2, 1, 2)>>,
   <<S(1, 0, 1), S(1, 1, 1)>>,
   <<S(0, 0, 1), S(0, 0, 2)>>}
MCTaxRules == {"none"}
MCKomis == {0, 1}
T(x, y, pla) == [loc |-> getLoc(x, y, <<2, 2>>), pla |-> pla]
(* A stone set over another, a player who moves twice, and an illegal move.               *)
Sgf(moves) ==
  [size |-> <<2, 2>>, placements |-> <<T(0, 0, 1), T(0, 0, 2)>>, nextPla |-> 2,
   moves |-> moves, rules |-> [tax |-> "none", komi |-> 0]]
MCSgfs == {Sgf(<<T(0, 1, 2), T(1, 0, 2)>>), Sgf(<<T(0, 0, 1)>>)}

(* Every position of the small boards, and every full 3x3 board.                           *)
Colored(size, f) == [NewBoard(size) EXCEPT !.colors = f @@ @]
ASSUME WinnerAssumption ==
  /\ \A size \in {Wide, <<2, 3>>, <<2, 2>>, <<1, 3>>, <<3, 1>>} : \A f \in [OnSize(size) -> 0..2] :
       WinnerIsRight(Colored(size, f))
  /\ \A f \in [OnSize(<<3, 3>>) -> Players] : WinnerIsRight(Colored(<<3, 3>>, f))
===========================================================================
