------------------------------ MODULE QueuePool ------------------------------
(***************************************************************************)
(* The connection pool of one job on one secondary                         *)
(* (cluster-executor/src/connection.rs) together with its only client, the *)
(* request loop of cluster-executor/src/secondary.rs, and the tasks both    *)
(* of them spawn:                                                          *)
(*   - the client resizes the pool, asks for connections, and hands each   *)
(*     batch it got to a task that sends the requests;                     *)
(*   - a sending task gives every connection back when its response is in; *)
(*   - opening tasks connect to the target; a shrinking task removes       *)
(*     connections nobody has claimed yet.                                 *)
(* The client owns the pool (&mut self); tasks reach only new_connections, *)
(* recyclable_connections and failed_connection, through locks and atomics.*)
(*                                                                         *)
(* A connection is an element of Conn.  An element in no container is a    *)
(* connection that does not exist; dropping one makes it available again.  *)
(***************************************************************************)
EXTENDS Integers, Sequences, FiniteSets, SequencesExt

CONSTANTS
  Conn,         \* the connections that may exist at one time (a bound)
  KeepAlive,    \* max_request_per_connection of the request
  MaxCount,     \* the largest pool size a rate message asks for (a bound)
  MaxRequest,   \* the largest batch the client asks for (a bound)
  PromptShrink, \* TRUE iff a spawned shrink runs before the client goes on
  MaxShrinks,   \* resizers still to remove connections at one time (a bound)
  MaxFaults,    \* failed opens and broken connections in a behaviour (a bound)
  MaxLost       \* connections the client abandons in a behaviour (a bound)

ASSUME ConnAssumption == IsFiniteSet(Conn)
ASSUME NumberAssumption ==
  /\ KeepAlive \in Nat \ {0}
  /\ MaxCount \in Nat
  /\ MaxRequest \in Nat
  /\ MaxShrinks \in Nat
  /\ MaxFaults \in Nat
  /\ MaxLost \in Nat
ASSUME FlagAssumption == PromptShrink \in BOOLEAN

VARIABLES
  \* fields of QueuePool
  max_connection, connections, recyclable_connections, new_connections,
  busy_connections, elastic, failed_connection,
  \* fields of HttpConnection, by connection
  remaining_reuse, should_drop,
  \* tasks: connections being opened, the numbers of connections that spawned
  \* resizers are still to remove, connections a response is awaited on
  opening, shrinking, inflight,
  \* the client: where it is, the connections popped and being checked, the
  \* connections it was given and has not used yet
  pc, checking, granted,
  \* bookkeeping of the model
  lost, faults

poolVars == <<max_connection, connections, recyclable_connections,
              new_connections, busy_connections, elastic, failed_connection>>
connVars == <<remaining_reuse, should_drop>>
taskVars == <<opening, shrinking, inflight>>
clientVars == <<pc, checking, granted>>
vars == <<max_connection, connections, recyclable_connections,
          new_connections, busy_connections, elastic, failed_connection,
          remaining_reuse, should_drop, opening, shrinking, inflight,
          pc, checking, granted, lost, faults>>

-----------------------------------------------------------------------------
\* The larger of n and 0: std::cmp::max(0, n).
AtLeastZero(n) == IF n > 0 THEN n ELSE 0

\* The smaller of two numbers: std::cmp::min.
Smaller(m, n) == IF m < n THEN m ELSE n

\* What is left of a VecDeque after drain(0..len - n): its last n elements.
LastOf(s, n) == IF Len(s) > n THEN SubSeq(s, Len(s) - n + 1, Len(s)) ELSE s

\* What is left after truncate(n): the first n elements.
FirstOf(s, n) == IF Len(s) > n THEN SubSeq(s, 1, n) ELSE s

\* The connections that exist.
Existing ==
  ToSet(connections) \cup ToSet(recyclable_connections)
    \cup ToSet(new_connections) \cup checking \cup granted \cup inflight

\* Drop the connections of S: their fields go back to a blank value.
DropAll(S) ==
  /\ remaining_reuse' =
       [c \in Conn |-> IF c \in S THEN 0 ELSE remaining_reuse[c]]
  /\ should_drop' = [c \in Conn |-> c \notin S /\ should_drop[c]]

-----------------------------------------------------------------------------
\* The pool of a job, elastic or not.
Init ==
  /\ max_connection = 0
  /\ connections = <<>>
  /\ recyclable_connections = <<>>
  /\ new_connections = <<>>
  /\ busy_connections = 0
  /\ elastic \in BOOLEAN
  /\ failed_connection = 0
  /\ remaining_reuse = [c \in Conn |-> 0]
  /\ should_drop = [c \in Conn |-> FALSE]
  /\ opening = 0
  /\ shrinking = <<>>
  /\ inflight = {}
  /\ pc = "idle"
  /\ checking = {}
  /\ granted = {}
  /\ lost = 0
  /\ faults = 0

\* The connections a resize to c opens: new_connections, the busy ones and
\* the kept idle ones count as active; attempts under way do not.
ToOpen(c) ==
  IF c > max_connection
  THEN AtLeastZero(c - (Len(new_connections) + busy_connections
                          + Len(LastOf(connections, c))))
  ELSE 0

\* The connections a resize to c asks the spawned resizer to remove.
ToRemove(c) == AtLeastZero(max_connection - c)

(***************************************************************************)
(* set_connection_count, with the spawn of resize_connection_pool.  The    *)
(* removal the resizer performs is ShrinkNew; the opening is OpenSucceeds  *)
(* and OpenFails.                                                          *)
(***************************************************************************)
SetConnectionCount(c) ==
  /\ pc = "idle"
  /\ PromptShrink => shrinking = <<>>
  /\ elastic' = (elastic /\ c = max_connection)
  /\ connections' = LastOf(connections, c)
  /\ DropAll(ToSet(connections) \ ToSet(LastOf(connections, c)))
  /\ max_connection' = c
  /\ opening' = opening + ToOpen(c)
  /\ shrinking' = IF ToRemove(c) > 0 THEN Append(shrinking, ToRemove(c))
                                    ELSE shrinking
  /\ UNCHANGED <<recyclable_connections, new_connections, busy_connections,
                 failed_connection, inflight, clientVars, lost, faults>>

\* A mutant: claimed connections go to the front of the queue.
MutClaimedFirst == recyclable_connections \o new_connections \o connections

\* claim_connections, twice: what was returned, then what was opened, goes to
\* the back of the queue.
Claimed == connections \o recyclable_connections \o new_connections

\* A mutant: returned connections go on counting as busy.
MutStillBusy == busy_connections

\* The busy connections once the returned ones have been claimed.
StillBusy == busy_connections - Len(recyclable_connections)

\* A mutant: the size is enforced on the idle connections alone.
MutEnforcedIdle ==
  IF elastic THEN Claimed ELSE FirstOf(Claimed, max_connection)

\* "re-enforce the pool size": a pool that is not elastic keeps no more than
\* max_connection connections, the busy ones included.
Enforced ==
  IF elastic
  THEN Claimed
  ELSE LET excess == Len(Claimed) + StillBusy - max_connection
       IN  IF excess > 0
           THEN FirstOf(Claimed, AtLeastZero(Len(Claimed) - excess))
           ELSE Claimed

\* A mutant: an empty queue is taken for one that is being filled.
MutElasticDeficit(n) ==
  IF elastic /\ Claimed # <<>> THEN AtLeastZero(n - Len(Claimed)) ELSE 0

\* An elastic pool opens what the queue lacks, whatever is being opened.
ElasticDeficit(n) ==
  IF elastic THEN AtLeastZero(n - Len(Claimed)) ELSE 0

\* The connections the popping loop gets for a request of n.
Take(n) == Smaller(n, Len(Enforced))

\* A mutant: connections are handed out and stay in the queue.
MutUnpopped(n) == Enforced

\* What pop_front leaves.
Unpopped(n) == SubSeq(Enforced, Take(n) + 1, Len(Enforced))

(***************************************************************************)
(* get_connections up to the readiness checks: claim, enforce the size,    *)
(* pop up to n connections.  The checks are awaited, so tasks may run      *)
(* between this step and the next.                                         *)
(***************************************************************************)
GetConnections(n) ==
  /\ pc = "idle"
  /\ PromptShrink => shrinking = <<>>
  /\ checking' = {Enforced[i] : i \in 1..Take(n)}
  /\ connections' = Unpopped(n)
  /\ DropAll(ToSet(Claimed) \ ToSet(Enforced))
  /\ recyclable_connections' = <<>>
  /\ new_connections' = <<>>
  /\ busy_connections' = StillBusy
  /\ opening' = opening + ElasticDeficit(n)
  /\ pc' = "checking"
  /\ UNCHANGED <<max_connection, elastic, failed_connection, shrinking,
                 inflight, granted, lost, faults>>

\* A mutant: expired connections are not made up for.
MutRefillBroken(ready) ==
  Cardinality({c \in checking : ~should_drop[c]} \ ready) + failed_connection

\* "refill broken & dropped connections", and the attempts that failed.
Refill(ready) == Cardinality(checking \ ready) + failed_connection

(***************************************************************************)
(* The rest of get_connections: popped connections marked should_drop are  *)
(* dropped, those that are not ready are broken, and as many are opened    *)
(* again, together with the attempts that failed since the last call.      *)
(***************************************************************************)
HandOut(ready) ==
  /\ pc = "checking"
  /\ ready \subseteq {c \in checking : ~should_drop[c]}
  /\ LET broken == {c \in checking : ~should_drop[c]} \ ready
     IN  /\ faults + Cardinality(broken) <= MaxFaults
         /\ faults' = faults + Cardinality(broken)
  /\ opening' = opening + Refill(ready)
  /\ failed_connection' = 0
  /\ DropAll(checking \ ready)
  /\ busy_connections' = busy_connections + Cardinality(ready)
  /\ granted' = ready
  /\ checking' = {}
  /\ pc' = IF ready = {} THEN "idle" ELSE "granted"
  /\ UNCHANGED <<max_connection, connections, recyclable_connections,
                 new_connections, elastic, shrinking, inflight, lost>>

\* The client has a request for each connection and spawns the sending task.
SendRequests ==
  /\ pc = "granted"
  /\ inflight' = inflight \cup granted
  /\ granted' = {}
  /\ pc' = "idle"
  /\ UNCHANGED <<poolVars, connVars, opening, shrinking, checking, lost,
                 faults>>

\* get_requests failed or gave nothing: the client returns from the cycle and
\* the batch is dropped, without return_connection.
AbandonBatch ==
  /\ pc = "granted"
  /\ lost + Cardinality(granted) <= MaxLost
  /\ lost' = lost + Cardinality(granted)
  /\ DropAll(granted)
  /\ granted' = {}
  /\ pc' = "idle"
  /\ UNCHANGED <<poolVars, taskVars, checking, faults>>

-----------------------------------------------------------------------------
\* A mutant: the last use is one too many.
MutSpent(c) == remaining_reuse[c] < 1

\* The request just served was the last of the keep-alive allowance.
Spent(c) == remaining_reuse[c] <= 1

\* return_connection, once the response (or an error) is in.
ReturnConnection(c, expired) ==
  /\ c \in inflight
  /\ inflight' = inflight \ {c}
  /\ should_drop' = [should_drop EXCEPT
                       ![c] = @ \/ expired \/ Spent(c)]
  /\ remaining_reuse' = [remaining_reuse EXCEPT ![c] = @ - 1]
  /\ recyclable_connections' = Append(recyclable_connections, c)
  /\ UNCHANGED <<max_connection, connections, new_connections,
                 busy_connections, elastic, failed_connection, opening,
                 shrinking, clientVars, lost, faults>>

(***************************************************************************)
(* add_new_connection.  The attempts of all opening tasks are counted      *)
(* together and end one by one: a task that ends with s connections and f  *)
(* failures is s steps OpenSucceeds and f steps OpenFails.                 *)
(***************************************************************************)
OpenSucceeds(c) ==
  /\ opening > 0
  /\ c \notin Existing
  /\ opening' = opening - 1
  /\ new_connections' = Append(new_connections, c)
  /\ remaining_reuse' = [remaining_reuse EXCEPT ![c] = KeepAlive]
  /\ should_drop' = [should_drop EXCEPT ![c] = FALSE]
  /\ UNCHANGED <<max_connection, connections, recyclable_connections,
                 busy_connections, elastic, failed_connection, shrinking,
                 inflight, clientVars, lost, faults>>

OpenFails ==
  /\ opening > 0
  /\ faults < MaxFaults
  /\ opening' = opening - 1
  /\ failed_connection' = failed_connection + 1
  /\ faults' = faults + 1
  /\ UNCHANGED <<max_connection, connections, recyclable_connections,
                 new_connections, busy_connections, elastic, connVars,
                 shrinking, inflight, clientVars, lost>>

\* The negative branch of resize_connection_pool, in the resizer spawned i-th
\* among those that have not run: resize_conn_container removes from the end
\* of new_connections.
ShrinkNew(i) ==
  /\ shrinking' = RemoveAt(shrinking, i)
  /\ LET kept == FirstOf(new_connections,
                         AtLeastZero(Len(new_connections) - shrinking[i]))
     IN  /\ new_connections' = kept
         /\ DropAll(ToSet(new_connections) \ ToSet(kept))
  /\ UNCHANGED <<max_connection, connections, recyclable_connections,
                 busy_connections, elastic, failed_connection, opening,
                 inflight, clientVars, lost, faults>>

-----------------------------------------------------------------------------
\* Connections that exist, are being opened or are still to be opened again.
Demand == Cardinality(Existing) + opening + failed_connection

\* The bounds on connections and tasks: the client may not ask for more.
Bounded == Demand <= Cardinality(Conn) /\ Len(shrinking) <= MaxShrinks

\* A rate message resizes the pool when it names another size than the last
\* one did.  Those of an elastic job always name 0 (Elastic::nth), the size
\* the handler starts from, and never do.
Resize(c) == ~elastic /\ SetConnectionCount(c)

Client ==
  \/ \E c \in 0..MaxCount : Resize(c) /\ Bounded'
  \/ \E n \in 1..MaxRequest : GetConnections(n) /\ Bounded'
  \/ \E ready \in SUBSET checking : HandOut(ready)
  \/ SendRequests
  \/ AbandonBatch

Tasks ==
  \/ \E c \in inflight, expired \in BOOLEAN : ReturnConnection(c, expired)
  \/ \E c \in Conn : OpenSucceeds(c)
  \/ OpenFails
  \/ \E i \in 1..Len(shrinking) : ShrinkNew(i)

Next == Client \/ Tasks

Spec == Init /\ [][Next]_vars

\* Fairness.  The runtime polls every ready task, so an opening attempt and a
\* shrink end (the attempt has a timeout).  The client, which has requests to
\* send in every cycle, asks in every cycle, and resizes at most once in each:
\* hence the strong fairness of GetConnections.  The target answers each
\* request: the code sets no timeout on a response.
FairSpec ==
  /\ Spec
  /\ SF_vars(\E n \in 1..MaxRequest : GetConnections(n) /\ Bounded')
  /\ WF_vars(\E ready \in SUBSET checking : HandOut(ready))
  /\ WF_vars(SendRequests \/ AbandonBatch)
  /\ \A c \in Conn :
       WF_vars(\E expired \in BOOLEAN : ReturnConnection(c, expired))
  /\ WF_vars(OpenFails \/ \E c \in Conn : OpenSucceeds(c))
  /\ WF_vars(\E i \in 1..Len(shrinking) : ShrinkNew(i))

-----------------------------------------------------------------------------
\* The types of the pool, its tasks and its client.
TypeOK ==
  /\ max_connection \in Nat
  /\ connections \in Seq(Conn)
  /\ recyclable_connections \in Seq(Conn)
  /\ new_connections \in Seq(Conn)
  /\ busy_connections \in Int
  /\ elastic \in BOOLEAN
  /\ failed_connection \in Nat
  /\ remaining_reuse \in [Conn -> Int]
  /\ should_drop \in [Conn -> BOOLEAN]
  /\ opening \in Nat
  /\ shrinking \in Seq(Nat)
  /\ inflight \in SUBSET Conn
  /\ pc \in {"idle", "checking", "granted"}
  /\ checking \in SUBSET Conn
  /\ granted \in SUBSET Conn
  /\ lost \in Nat
  /\ faults \in Nat

\* A connection is in one place: no two containers share one and no queue
\* holds one twice, so no two requests are ever sent over one connection at a
\* time.  (claim_connections, return_connection and the spawned tasks move
\* connections between containers while the client works.)
OnePlace ==
  /\ IsInjective(Claimed)
  /\ ToSet(Claimed) \cap (checking \cup granted \cup inflight) = {}
  /\ checking \cap (granted \cup inflight) = {}
  /\ granted \cap inflight = {}

\* busy_connections is exactly the connections in use, those returned and not
\* claimed yet, and those the client dropped without returning them.  It is a
\* usize: were it less than the returned ones, "busy_connections -=
\* returned_to_pool" (connection.rs:127) would wrap around.
BusyExact ==
  busy_connections = Cardinality(granted) + Cardinality(inflight)
                       + Len(recyclable_connections) + lost

\* A connection in use has a request left in its keep-alive allowance and is
\* not marked to be dropped: no connection serves more than KeepAlive
\* requests (connection.rs:339-346, 165).
WithinKeepAlive ==
  \A c \in granted \cup inflight :
    remaining_reuse[c] \in 1..KeepAlive /\ ~should_drop[c]

\* The connections the resizer that has not run, if there is one, removes.
PendingRemoval ==
  IF shrinking = <<>> THEN 0
  ELSE Smaller(shrinking[1], Len(new_connections))

\* "If a connection is closed by remote target, a new connection will be
\* created" (docs/src/connection/README.md:9): what is in the pool, in use,
\* being opened or counted in failed_connection never falls below the pool
\* size, whatever breaks, expires, fails to open or is removed by a resize.
Replaced ==
  max_connection <=
    Len(connections) + Len(new_connections) - PendingRemoval
      + Cardinality(checking) + busy_connections + opening + failed_connection

\* The connections in use as the client sees them.  A connection it lost
\* counts for ever: the pool never learns that it is gone.
InUse == Cardinality(granted) + Cardinality(inflight) + lost

\* get_connections implements the contract of BoundedPool: a fixed-size pool
\* never hands out connections past max_connection, however many were opened
\* too many, returned late, or in use when the pool was shrunk.
Contract == INSTANCE BoundedPool
              WITH limit <- max_connection, unlimited <- elastic, inUse <- InUse
ImplementsBoundedPool == Contract!Spec

\* "Connections are maintained in a circular queue ... we can ensure that all
\* connection in the pool are getting used" (docs/src/connection/README.md:7):
\* no connection stays idle for ever while the client asks for connections.
EveryConnectionUsed ==
  \A c \in Conn :
    c \in ToSet(connections) ~> c \notin ToSet(connections)

\* A client that keeps asking is served again and again by an elastic pool,
\* and by one whose size stays the same and exceeds what the client has lost:
\* failed attempts, broken and expired connections are all made up for.
ClientServed ==
  \/ []<>(granted # {})
  \/ ~elastic /\ ~ \E k \in 1..MaxCount :
                            <>[](max_connection = k /\ lost < k)
=============================================================================
