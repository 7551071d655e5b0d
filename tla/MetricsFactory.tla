--------------------------- MODULE MetricsFactory ---------------------------
(***************************************************************************)
(* MetricsFactory (overload-metrics/src/lib.rs): the map from job ids to   *)
(* Metrics, behind a lock, and the Prometheus registry, which has a lock   *)
(* of its own.  The handlers of a job on a secondary                       *)
(* (cluster-executor/src/secondary.rs) get the metrics when they start;    *)
(* one that receives Stop or Finished removes them.                        *)
(*                                                                         *)
(* metrics_with_buckets looks the job up under the read lock, then again   *)
(* under the write lock, which it keeps while it registers the collectors  *)
(* one by one.  remove_metrics gives the lock back before it unregisters.  *)
(*                                                                         *)
(* One job: the collectors of different jobs differ in a label.  A Metrics *)
(* is named after the handler that created it.                             *)
(***************************************************************************)
EXTENDS Naturals, Sequences

CONSTANTS
  Handler,  \* the handlers of the job, by connection from the primary
  None      \* no Metrics, no handler

ASSUME NoneAssumption == None \notin Handler

VARIABLES
  metrics,   \* the Metrics in the map, or None
  registry,  \* whose collector is registered under each name, or None
  writer,    \* the handler that holds the write lock, or None
  pc,        \* where each handler is
  done,      \* the collectors it has registered, or unregistered
  uses,      \* the Metrics it got, or None
  removed    \* somebody has removed the job's metrics

vars == <<metrics, registry, writer, pc, done, uses, removed>>

\* The order in which metrics_with_buckets registers.
RegisterOrder ==
  <<"response_time", "status_count", "request_count", "attempt", "success",
    "broken", "dropped", "idle", "busy", "size", "assertion_failure">>

\* A mutant: one of the collectors is forgotten.
MutUnregisterOrder ==
  <<"size", "idle", "request_count", "busy", "dropped", "broken", "success",
    "attempt", "status_count", "response_time">>

\* The order in which remove_metrics unregisters.
UnregisterOrder ==
  <<"size", "idle", "request_count", "busy", "dropped", "broken", "success",
    "attempt", "status_count", "response_time", "assertion_failure">>

Collector == {RegisterOrder[i] : i \in 1..Len(RegisterOrder)}

Init ==
  /\ metrics = None
  /\ registry = [c \in Collector |-> None]
  /\ writer = None
  /\ pc = [h \in Handler |-> "new"]
  /\ done = [h \in Handler |-> 0]
  /\ uses = [h \in Handler |-> None]
  /\ removed = FALSE

Goto(h, place) == pc' = [pc EXCEPT ![h] = place]

\* The handler has the metrics m of its job.
Got(h, m) == Goto(h, "using") /\ uses' = [uses EXCEPT ![h] = m]

-----------------------------------------------------------------------------
(* metrics_with_buckets                                                    *)

Read(h) ==
  /\ pc[h] = "new"
  /\ writer = None
  /\ IF metrics # None THEN Got(h, metrics)
                       ELSE Goto(h, "absent") /\ UNCHANGED uses
  /\ UNCHANGED <<metrics, registry, writer, done, removed>>

\* A mutant: the second look, under the write lock, is left out.
MutWrite(h) ==
  /\ pc[h] = "absent"
  /\ writer = None
  /\ writer' = h
  /\ Goto(h, "creating")
  /\ UNCHANGED <<metrics, registry, done, uses, removed>>

\* "retry again to check if another thread already created metrics"
Write(h) ==
  /\ pc[h] = "absent"
  /\ writer = None
  /\ IF metrics # None
     THEN Got(h, metrics) /\ UNCHANGED writer
     ELSE Goto(h, "creating") /\ writer' = h /\ UNCHANGED uses
  /\ UNCHANGED <<metrics, registry, done, removed>>

\* A mutant: a name that is taken is taken over.
MutOverwrite(h) ==
  /\ pc[h] = "creating"
  /\ done[h] < Len(RegisterOrder)
  /\ registry' = [registry EXCEPT ![RegisterOrder[done[h] + 1]] = h]
  /\ done' = [done EXCEPT ![h] = @ + 1]
  /\ UNCHANGED <<metrics, writer, pc, uses, removed>>

\* register(...).unwrap(): a name that is taken makes the handler panic, which
\* gives the lock back and leaves what has been registered.
Register(h) ==
  /\ pc[h] = "creating"
  /\ done[h] < Len(RegisterOrder)
  /\ LET c == RegisterOrder[done[h] + 1]
     IN  IF registry[c] = None
         THEN /\ registry' = [registry EXCEPT ![c] = h]
              /\ done' = [done EXCEPT ![h] = @ + 1]
              /\ UNCHANGED <<pc, writer>>
         ELSE /\ Goto(h, "panicked")
              /\ writer' = None
              /\ UNCHANGED <<registry, done>>
  /\ UNCHANGED <<metrics, uses, removed>>

Insert(h) ==
  /\ pc[h] = "creating"
  /\ done[h] = Len(RegisterOrder)
  /\ metrics' = h
  /\ writer' = None
  /\ Got(h, h)
  /\ UNCHANGED <<registry, done, removed>>

-----------------------------------------------------------------------------
\* The handler lost its connection, or failed: the metrics stay.
Leave(h) ==
  /\ pc[h] = "using"
  /\ Goto(h, "gone")
  /\ UNCHANGED <<metrics, registry, writer, done, uses, removed>>

\* remove_metrics after Stop or Finished: out of the map, under the lock ...
Remove(h) ==
  /\ pc[h] = "using"
  /\ writer = None
  /\ metrics' = None
  /\ done' = [done EXCEPT ![h] = 0]
  /\ Goto(h, IF metrics = None THEN "gone" ELSE "removing")
  /\ removed' = TRUE
  /\ UNCHANGED <<registry, writer, uses>>

\* ... and out of the registry, without it.  Collectors of the same name are
\* the same to the registry, whoever registered them; an error is logged.
Unregister(h) ==
  /\ pc[h] = "removing"
  /\ registry' = [registry EXCEPT ![UnregisterOrder[done[h] + 1]] = None]
  /\ done' = [done EXCEPT ![h] = @ + 1]
  /\ Goto(h, IF done[h] + 1 = Len(UnregisterOrder) THEN "gone" ELSE "removing")
  /\ UNCHANGED <<metrics, writer, uses, removed>>

-----------------------------------------------------------------------------
HandlerStep(h) ==
  \/ Read(h) \/ Write(h) \/ Register(h) \/ Insert(h)
  \/ Leave(h) \/ Remove(h) \/ Unregister(h)

Next == \E h \in Handler : HandlerStep(h)

Spec == Init /\ [][Next]_vars

-----------------------------------------------------------------------------
\* The metrics in the map can be scraped in full: each of their collectors is
\* the registered one, although remove_metrics unregisters the former ones of
\* the job while nobody holds the lock.
EntryRegistered ==
  metrics # None => \A c \in Collector : registry[c] = metrics

\* "another thread already created metrics" (overload-metrics/src/lib.rs:65):
\* as long as nobody removes the job's metrics, handlers that start together
\* get the same ones, and none of them panics in register(...).unwrap().
SharedMetrics ==
  ~removed => \A h \in Handler : /\ pc[h] # "panicked"
                                 /\ pc[h] = "using" => uses[h] = metrics

\* When the metrics are gone from the map and nobody is at work, nothing of
\* them is left in the registry, so that the job id can be used again; except
\* after a panic, which leaves what it had registered.
RemovedInFull ==
  /\ metrics = None
  /\ \A h \in Handler : pc[h] \notin {"creating", "removing", "panicked"}
  => \A c \in Collector : registry[c] = None
=============================================================================
