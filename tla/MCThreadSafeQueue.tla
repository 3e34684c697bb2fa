--------------------------- MODULE MCThreadSafeQueue ---------------------------
(* ThreadSafeQueue for TLC: two producers and two consumers, so that a          *)
(* notification can reach the wrong thread; a bound of two, so that a queue can  *)
(* be full, overfull and partly popped; five elements, so that the vector is     *)
(* shifted both when it empties and when it does not.  Threads of a kind are      *)
(* interchangeable, but the liveness properties name them: no symmetry is used.   *)
EXTENDS ThreadSafeQueue
===============================================================================
