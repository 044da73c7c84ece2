---------------------------- MODULE PriorityLine ----------------------------
(***************************************************************************)
(* What the execution queue promises the engine, without heap, sequence    *)
(* numbers, tombstones, locks and events: executions stand in one line,    *)
(* each behind those of its own and of better bands; the first is served,  *)
(* any may leave, and nobody else moves.  ExecutionQueue implements it.    *)
(***************************************************************************)
EXTENDS Integers, FiniteSets

CONSTANTS
  Executions,
  Priorities,  \* bands, a lower number is better
  Places       \* how many may stand in the line

VARIABLES
  waiting,  \* who stands in the line
  band,     \* the band of each
  ahead,    \* pairs: the first is served before the second
  served    \* who has been served

vars == <<waiting, band, ahead, served>>

Init ==
  /\ waiting = {} /\ served = {} /\ ahead = {}
  /\ band = [e \in {} |-> 0]

\* e joins behind everyone of band p or better.
Admit(e, p) ==
  /\ e \notin waiting \cup served
  /\ Cardinality(waiting) < Places
  /\ waiting' = waiting \cup {e}
  /\ band' = [f \in waiting' |-> IF f = e THEN p ELSE band[f]]
  /\ ahead' = ahead \cup {<<f, e>> : f \in {g \in waiting : band[g] <= p}}
                    \cup {<<e, f>> : f \in {g \in waiting : band[g] > p}}
  /\ UNCHANGED served

\* Those of out leave; the others keep their order.
Leave(out) ==
  /\ waiting' = waiting \ out
  /\ band' = [f \in waiting' |-> band[f]]
  /\ ahead' = ahead \cap (waiting' \X waiting')

Withdraw(e) == e \in waiting /\ Leave({e}) /\ UNCHANGED served

Serve(e) ==
  /\ e \in waiting
  /\ \A f \in waiting : <<f, e>> \notin ahead
  /\ Leave({e})
  /\ served' = served \cup {e}

\* The line is closed.
Clear == Leave(waiting) /\ UNCHANGED served

Next ==
  \/ \E e \in Executions : Withdraw(e) \/ Serve(e) \/ \E p \in Priorities : Admit(e, p)
  \/ Clear

Spec == Init /\ [][Next]_vars

=============================================================================
