------------------------------ MODULE MCGenBook ------------------------------
(* GenBook for TLC: a root with two moves that a symmetry exchanges and one   *)
(* that is not, whose children lead to one finished position.                 *)
EXTENDS GenBook

CONSTANTS t1, t2

MCChild ==
  "r" :> (1 :> "a" @@ 2 :> "a" @@ 3 :> "b") @@
  "a" :> (1 :> "x") @@
  "b" :> (1 :> "x") @@
  "x" :> (1 :> "z") @@
  "z" :> <<>>

MCPolite == [n \in DOMAIN MCChild |-> [m \in DOMAIN MCChild[n] |-> IF n = "r" /\ m = 2 THEN 1 ELSE m]]

MCProgress == "r" :> 0 @@ "a" :> 1 @@ "b" :> 1 @@ "x" :> 2 @@ "z" :> 3

MCLines == << <<2, 1, 1, 1>>, <<1, 1>>, <<3, 1>> >>

ThreadSymmetry == Permutations(Threads)
=============================================================================
