----------------------------- MODULE BoundedPool -----------------------------
(***************************************************************************)
(* What a connection pool promises its client, without queues or tasks: a  *)
(* grant never takes the connections in use past the limit in force.  A    *)
(* lowered limit takes nothing back; it only holds up further grants.      *)
(***************************************************************************)
EXTENDS Naturals

VARIABLES
  limit,      \* the pool size last asked for
  unlimited,  \* TRUE while the pool is elastic
  inUse       \* connections granted and not given back

vars == <<limit, unlimited, inUse>>

Init ==
  /\ limit = 0
  /\ unlimited \in BOOLEAN
  /\ inUse = 0

SetLimit ==
  /\ limit' \in Nat
  /\ unlimited' = (unlimited /\ limit' = limit)
  /\ UNCHANGED inUse

Grant ==
  /\ inUse' \in Nat
  /\ inUse' > inUse
  /\ unlimited \/ inUse' <= limit
  /\ UNCHANGED <<limit, unlimited>>

GiveBack ==
  /\ inUse' \in Nat
  /\ inUse' = inUse - 1
  /\ UNCHANGED <<limit, unlimited>>

Next == SetLimit \/ Grant \/ GiveBack

Spec == Init /\ [][Next]_vars
=============================================================================
