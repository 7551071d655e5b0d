---------------------------- MODULE PoolHandoff ----------------------------
(***************************************************************************)
(* How the connection pool of a job survives a lost connection between the *)
(* primary and a secondary (cluster-executor/src/secondary.rs).            *)
(*                                                                         *)
(* Each connection from the primary has a handler.  A handler that loses   *)
(* its connection puts the pool into CONNECTION_POOLS and notifies whoever *)
(* holds the receiver it left in CONNECTION_POOLS_USAGE_LISTENER; the      *)
(* handler of the next connection takes that receiver, waits on it, and    *)
(* takes the pool.  Each access to the two maps takes its lock, and other  *)
(* handlers may run between two accesses.                                  *)
(*                                                                         *)
(* One job on one secondary.  A receiver is named after the handler that   *)
(* has the sending end; a handler that is gone, and that no receiver       *)
(* refers to, stands for the handler of a new connection.                  *)
(***************************************************************************)
EXTENDS Naturals, FiniteSets

CONSTANTS
  Handler,    \* handlers that may exist at one time (a bound)
  None,       \* no receiver
  Punctual,   \* TRUE iff a handler has its pool, or has given up, before the
              \* primary connects again
  MaxBreaks   \* connections that break, and downloads from the primary that
              \* fail, in a behaviour (a bound)

ASSUME HandlerAssumption == IsFiniteSet(Handler) /\ None \notin Handler
ASSUME FlagAssumption == Punctual \in BOOLEAN
ASSUME BreaksAssumption == MaxBreaks \in Nat

VARIABLES
  stored,    \* CONNECTION_POOLS holds a pool for the job
  listener,  \* the receiver in CONNECTION_POOLS_USAGE_LISTENER, or None
  pc,        \* where each handler is
  owns,      \* the handlers that own a pool
  rx,        \* the receiver each handler waits on, or None
  tx,        \* what became of each handler's sending end
  link,      \* the primary's end of each handler's connection
  over,      \* the primary has ended the job
  \* bookkeeping of the model
  breaks,    \* connections broken and downloads failed so far
  orphaned   \* a handler returned on a failed Reset

vars == <<stored, listener, pc, owns, rx, tx, link, over, breaks, orphaned>>

Init ==
  /\ stored = FALSE
  /\ listener = None
  /\ pc = [h \in Handler |-> "gone"]
  /\ owns = {}
  /\ rx = [h \in Handler |-> None]
  /\ tx = [h \in Handler |-> "open"]
  /\ link = [h \in Handler |-> "down"]
  /\ over = FALSE
  /\ breaks = 0
  /\ orphaned = FALSE

Goto(h, place) == pc' = [pc EXCEPT ![h] = place]

-----------------------------------------------------------------------------
(* The primary and the network.                                            *)

\* create_senders_for_cluster_nodes: the primary has no sender for this
\* secondary and connects.  Eleven seconds have passed since it last tried: a
\* handler that had its pool has registered.
Connect(h) ==
  /\ ~over
  /\ \A k \in Handler : link[k] = "down"
  /\ pc[h] = "gone"
  /\ \A k \in Handler : rx[k] # h
  /\ listener # h
  /\ \A k \in Handler : pc[k] # "registering"
  /\ Punctual => \A k \in Handler : pc[k] \notin {"preparing", "waiting"}
  /\ Goto(h, "preparing")
  /\ link' = [link EXCEPT ![h] = "up"]
  /\ tx' = [tx EXCEPT ![h] = "open"]
  /\ UNCHANGED <<stored, listener, owns, rx, over, breaks, orphaned>>

\* The connection breaks, and the primary removes the sender.
Break(h) ==
  /\ link[h] = "up"
  /\ pc[h] # "gone"
  /\ breaks < MaxBreaks
  /\ breaks' = breaks + 1
  /\ link' = [link EXCEPT ![h] = "down"]
  /\ UNCHANGED <<stored, listener, pc, owns, rx, tx, over, orphaned>>

\* The handler returned: sending fails, and the primary removes the sender.
SenderDropped(h) ==
  /\ link[h] = "up"
  /\ pc[h] = "gone"
  /\ link' = [link EXCEPT ![h] = "down"]
  /\ UNCHANGED <<stored, listener, pc, owns, rx, tx, over, breaks, orphaned>>

\* The job ends: Finished to every sender there is, or, when the task of the
\* job panics, just the end of the stream.
JobEnds(message) ==
  /\ ~over
  /\ over' = TRUE
  /\ link' = [h \in Handler |-> IF link[h] = "up" THEN message ELSE link[h]]
  /\ UNCHANGED <<stored, listener, pc, owns, rx, tx, breaks, orphaned>>

-----------------------------------------------------------------------------
(* A handler: init_connection_pool.                                        *)

\* The handler returns; with it go its pool and its sending end.
Return(h) ==
  /\ Goto(h, "gone")
  /\ owns' = owns \ {h}
  /\ tx' = [tx EXCEPT ![h] = IF @ = "open" THEN "dropped" ELSE @]

\* The handshake or prepare (a download from the primary) failed before the
\* pool was touched.
PrepareFails(h) ==
  /\ pc[h] = "preparing"
  /\ link[h] = "up" => breaks < MaxBreaks
  /\ breaks' = IF link[h] = "up" THEN breaks + 1 ELSE breaks
  /\ Return(h)
  /\ UNCHANGED <<stored, listener, rx, link, over, orphaned>>

\* The receiver is removed from the map; without one there is no pool yet.
TakeListener(h) ==
  /\ pc[h] = "preparing"
  /\ listener' = None
  /\ IF listener = None
     THEN owns' = owns \cup {h} /\ Goto(h, "registering") /\ UNCHANGED rx
     ELSE rx' = [rx EXCEPT ![h] = listener] /\ Goto(h, "waiting")
            /\ UNCHANGED owns
  /\ UNCHANGED <<stored, tx, link, over, breaks, orphaned>>

\* Notified: the pool is taken out of CONNECTION_POOLS, and unwrapped.
Notified(h) ==
  /\ pc[h] = "waiting"
  /\ tx[rx[h]] = "sent"
  /\ rx' = [rx EXCEPT ![h] = None]
  /\ stored' = FALSE
  /\ IF stored THEN owns' = owns \cup {h} /\ Goto(h, "registering")
               ELSE UNCHANGED owns /\ Goto(h, "panicked")
  /\ UNCHANGED <<listener, tx, link, over, breaks, orphaned>>

\* A mutant: the receiver is not put back.
MutGiveUp(h) ==
  /\ pc[h] = "waiting"
  /\ tx[rx[h]] # "sent"
  /\ rx' = [rx EXCEPT ![h] = None]
  /\ Return(h)
  /\ UNCHANGED <<listener, stored, link, over, breaks, orphaned>>

\* Not notified within 9.7 seconds, or the sending end is gone: the receiver
\* goes back into the map.
GiveUp(h) ==
  /\ pc[h] = "waiting"
  /\ tx[rx[h]] # "sent"
  /\ listener' = rx[h]
  /\ rx' = [rx EXCEPT ![h] = None]
  /\ Return(h)
  /\ UNCHANGED <<stored, link, over, breaks, orphaned>>

\* A new channel; its receiver goes into the map.
Register(h) ==
  /\ pc[h] = "registering"
  /\ listener' = h
  /\ Goto(h, "serving")
  /\ UNCHANGED <<stored, owns, rx, tx, link, over, breaks, orphaned>>

-----------------------------------------------------------------------------
(* A handler: the message loop, and how it ends.                           *)

\* Mutants: a lost connection is treated as the end of the stream; the pool is
\* dropped and not stored.
MutErrorAsEnd(h) ==
  /\ pc[h] = "serving"
  /\ link[h] = "down"
  /\ Return(h)
  /\ UNCHANGED <<stored, listener, rx, link, over, breaks, orphaned>>

MutNotStored(h) ==
  /\ pc[h] = "serving"
  /\ link[h] = "down"
  /\ owns' = owns \ {h}
  /\ Goto(h, "notifying")
  /\ UNCHANGED <<stored, listener, rx, tx, link, over, breaks, orphaned>>

\* The receiver fails: the pool goes into CONNECTION_POOLS ...
ReceiveError(h) ==
  /\ pc[h] = "serving"
  /\ link[h] = "down"
  /\ stored' = TRUE
  /\ owns' = owns \ {h}
  /\ Goto(h, "notifying")
  /\ UNCHANGED <<listener, rx, tx, link, over, breaks, orphaned>>

\* ... and whoever has the receiver is told.
Notify(h) ==
  /\ pc[h] = "notifying"
  /\ tx' = [tx EXCEPT ![h] = "sent"]
  /\ Goto(h, "gone")
  /\ UNCHANGED <<stored, listener, owns, rx, link, over, breaks, orphaned>>

\* The stream ended without Finished.
ReceiveNone(h) ==
  /\ pc[h] = "serving"
  /\ link[h] = "closed"
  /\ Return(h)
  /\ link' = [link EXCEPT ![h] = "down"]
  /\ UNCHANGED <<stored, listener, rx, over, breaks, orphaned>>

\* prepare failed for the request that follows a Reset.  The receiver stays in
\* the map, and nobody will send.
ResetFails(h) ==
  /\ pc[h] = "serving"
  /\ link[h] = "up"
  /\ Return(h)
  /\ orphaned' = TRUE
  /\ UNCHANGED <<stored, listener, rx, link, over, breaks>>

\* Finished: the job's pool is removed ...
Finished(h) ==
  /\ pc[h] = "serving"
  /\ link[h] = "finished"
  /\ stored' = FALSE
  /\ Goto(h, "clearing")
  /\ link' = [link EXCEPT ![h] = "down"]
  /\ UNCHANGED <<listener, owns, rx, tx, over, breaks, orphaned>>

\* ... and then its receiver (and its metrics).
Clear(h) ==
  /\ pc[h] = "clearing"
  /\ listener' = None
  /\ Return(h)
  /\ UNCHANGED <<stored, rx, link, over, breaks, orphaned>>

-----------------------------------------------------------------------------
HandlerStep(h) ==
  \/ PrepareFails(h) \/ TakeListener(h) \/ Notified(h) \/ GiveUp(h)
  \/ Register(h) \/ ReceiveError(h) \/ Notify(h) \/ ReceiveNone(h)
  \/ Finished(h) \/ Clear(h)

Next ==
  \/ \E h \in Handler :
       Connect(h) \/ Break(h) \/ SenderDropped(h) \/ HandlerStep(h)
         \/ ResetFails(h)
  \/ \E message \in {"finished", "closed"} : JobEnds(message)

Spec == Init /\ [][Next]_vars

\* The runtime polls every handler, and waiting has a timeout.  The primary
\* sends a rate message every second, so that it notices a dead connection,
\* and looks for secondaries without a sender every eleven seconds.
FairSpec ==
  /\ Spec
  /\ \A h \in Handler : WF_vars(HandlerStep(h)) /\ WF_vars(SenderDropped(h))
  /\ WF_vars(\E h \in Handler : Connect(h))

-----------------------------------------------------------------------------
\* "should avoid creating new pool when reconnected. Otherwise, it'll lead to
\* inconsistent number of connections" (secondary.rs:475-476): a job has at
\* most one pool on a secondary, owned by a handler or stored.
OnePool == Cardinality(owns) + (IF stored THEN 1 ELSE 0) <= 1

\* "get_existing_queue_pool(&job_id).await.unwrap()" (secondary.rs:531): a
\* handler that is notified finds the pool.
NoPanic == \A h \in Handler : pc[h] # "panicked"

\* Once connections no longer break and downloads no longer fail, the job is
\* served by a handler with a pool for good: the primary's retries and the
\* waiting of init_connection_pool bring the pool and the connection together.
\* (Not so after a handler has returned on a failed Reset: every later one
\* waits on the receiver it left behind, and gives up.)
Recovered ==
  <>[](\/ over \/ orphaned
       \/ \E h \in Handler : pc[h] = "serving" /\ link[h] = "up")
=============================================================================
