------------------------------ MODULE MCAsyncBot ------------------------------
(* AsyncBot for TLC: two ids of genMoveAsync, so that an answer can be given to *)
(* the wrong search; the calls themselves are not bounded.                      *)
EXTENDS AsyncBot
===============================================================================
