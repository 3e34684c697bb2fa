----------------------------- MODULE SearchService -----------------------------
(* What an AsyncBot promises to the code that drives it, without its threads,   *)
(* its mutex or its condition variables: searches run one at a time; one that   *)
(* is accepted and not killed first runs to its end and gives its answer once;  *)
(* a stop that reaches a search is not taken back; a killed bot starts nothing. *)
EXTENDS Naturals

CONSTANT MaxSearchId

VARIABLES
  phase,    \* "idle", "queued" or "searching"
  stop,     \* the current search has been asked to stop, or has hit a limit
  killed,
  owed,     \* the answer the current search will give: 0 if none, or its id
  answers   \* how often each id was answered

service == <<phase, stop, killed, owed, answers>>

Init ==
  /\ phase = "idle"
  /\ stop = FALSE
  /\ killed = FALSE
  /\ owed = 0
  /\ answers = [i \in 1..MaxSearchId |-> 0]

Accept ==
  /\ phase = "idle"
  /\ ~killed
  /\ phase' = "queued"
  /\ stop' = FALSE
  /\ owed' \in {0} \cup {i \in 1..MaxSearchId : answers[i] = 0}
  /\ UNCHANGED <<killed, answers>>

Start ==
  /\ phase = "queued"
  /\ ~killed
  /\ phase' = "searching"
  /\ UNCHANGED <<stop, killed, owed, answers>>

(* Only a search that was asked to stop, or that hit a limit, ends.             *)
Finish ==
  /\ phase = "searching"
  /\ stop
  /\ phase' = "idle"
  /\ answers' = [i \in 1..MaxSearchId |-> answers[i] + IF i = owed THEN 1 ELSE 0]
  /\ owed' = 0
  /\ UNCHANGED <<stop, killed>>

(* A search that was killed before it started gives no answer.                  *)
Drop ==
  /\ phase = "queued"
  /\ killed
  /\ phase' = "idle"
  /\ owed' = 0
  /\ UNCHANGED <<stop, killed, answers>>

Stop == stop' = TRUE /\ UNCHANGED <<phase, killed, owed, answers>>

Kill ==
  /\ killed' = TRUE
  /\ stop' \in {stop, TRUE}
  /\ UNCHANGED <<phase, owed, answers>>

Next == Accept \/ Start \/ Finish \/ Drop \/ Stop \/ Kill

Spec == Init /\ [][Next]_service

(* An accepted search starts or is dropped, and one told to stop ends.          *)
Fairness == WF_service(Start \/ Finish \/ Drop)

FairSpec == Spec /\ Fairness
=================================================================================
