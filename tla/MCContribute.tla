---------------------------- MODULE MCContribute ----------------------------
(* Instance of Contribute.  One of the nets to rate is also the net of selfplay.       *)
EXTENDS Contribute

CONSTANTS n1, n2

MCNames == {n1, n2}
MCSelfplayNames == {n1}
MCRatingPairs == {<<n1, n2>>}
=============================================================================
