---------------------------- MODULE PoolMetrics ----------------------------
(***************************************************************************)
(* The Prometheus metrics of a connection pool                             *)
(* (overload-metrics/src/lib.rs), updated by the steps of QueuePool at the *)
(* places where connection.rs calls them.  An attempt is counted with the   *)
(* step that spawns its task, whose first act is to count it.              *)
(***************************************************************************)
EXTENDS QueuePool

CONSTANT MaxAttempts  \* connection attempts in a behaviour (a bound)

ASSUME MaxAttemptsAssumption == MaxAttempts \in Nat

VARIABLES
  attempt, success, broken, dropped,  \* counters
  idle, busy                          \* gauges

counters == <<attempt, success, broken, dropped>>
gauges == <<idle, busy>>
meteredVars == <<vars, attempt, success, broken, dropped, idle, busy>>

MeteredInit ==
  /\ Init
  /\ attempt = 0 /\ success = 0 /\ broken = 0 /\ dropped = 0
  /\ idle = 0 /\ busy = 0

\* The connections drained from the queue count as dropped.
MeteredResize(c) ==
  /\ Resize(c) /\ Bounded'
  /\ dropped' = dropped + (Len(connections) - Len(connections'))
  /\ attempt' = attempt + ToOpen(c)
  /\ attempt' <= MaxAttempts
  /\ UNCHANGED <<success, broken, gauges>>

\* So do those the size enforcement removes, which also stop being idle.
MeteredGet(n) ==
  /\ GetConnections(n) /\ Bounded'
  /\ dropped' = dropped + (Len(Claimed) - Len(Enforced))
  /\ idle' = idle - (Len(Claimed) - Len(Enforced))
  /\ attempt' = attempt + ElasticDeficit(n)
  /\ attempt' <= MaxAttempts
  /\ UNCHANGED <<success, broken, busy>>

\* A mutant: broken connections are counted as broken, not as dropped.
MutMeteredHandOut(ready) ==
  /\ HandOut(ready)
  /\ broken' = broken + (faults' - faults)
  /\ dropped' = dropped + Cardinality(checking \ ready) - (faults' - faults)
  /\ attempt' = attempt + Refill(ready)
  /\ attempt' <= MaxAttempts
  /\ busy' = busy + Cardinality(ready)
  /\ idle' = idle - Cardinality(ready)
  /\ UNCHANGED success

\* What is handed out is busy and not idle; what is not, is dropped.
MeteredHandOut(ready) ==
  /\ HandOut(ready)
  /\ broken' = broken + (faults' - faults)
  /\ dropped' = dropped + Cardinality(checking \ ready)
  /\ attempt' = attempt + Refill(ready)
  /\ attempt' <= MaxAttempts
  /\ busy' = busy + Cardinality(ready)
  /\ idle' = idle - Cardinality(ready)
  /\ UNCHANGED success

MeteredReturn(c, expired) ==
  /\ ReturnConnection(c, expired)
  /\ busy' = busy - 1
  /\ idle' = idle + 1
  /\ UNCHANGED counters

MeteredOpen(c) ==
  /\ OpenSucceeds(c)
  /\ success' = success + 1
  /\ idle' = idle + 1
  /\ UNCHANGED <<attempt, broken, dropped, busy>>

MeteredShrink(i) ==
  /\ ShrinkNew(i)
  /\ dropped' = dropped + (Len(new_connections) - Len(new_connections'))
  /\ idle' = idle - (Len(new_connections) - Len(new_connections'))
  /\ UNCHANGED <<attempt, success, broken, busy>>

\* Steps without a call to the metrics.
Unmetered ==
  /\ SendRequests \/ AbandonBatch \/ OpenFails
  /\ UNCHANGED <<counters, gauges>>

MeteredNext ==
  \/ \E c \in 0..MaxCount : MeteredResize(c)
  \/ \E n \in 1..MaxRequest : MeteredGet(n)
  \/ \E ready \in SUBSET checking : MeteredHandOut(ready)
  \/ \E c \in inflight, expired \in BOOLEAN : MeteredReturn(c, expired)
  \/ \E c \in Conn : MeteredOpen(c)
  \/ \E i \in 1..Len(shrinking) : MeteredShrink(i)
  \/ Unmetered

MeteredSpec == MeteredInit /\ [][MeteredNext]_meteredVars

-----------------------------------------------------------------------------
\* The metrics agree with the pool in every state: every connection ever
\* opened is dropped, exists, or was lost by the client (get_requests failed);
\* every attempt has succeeded, has failed, or is under way; and the gauge
\* "Number of busy/borrowed connection from pool"
\* (overload-metrics/src/lib.rs:130) counts what the client borrowed and has
\* not returned, the lost ones for ever.
MetricsAccount ==
  /\ success = dropped + Cardinality(Existing) + lost
  /\ attempt = success + (faults - broken) + opening
  /\ busy = InUse
=============================================================================
