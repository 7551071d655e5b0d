---------------------------- MODULE RequestCycle ----------------------------
(***************************************************************************)
(* One rate message on a secondary: the loop that asks the pool for        *)
(* connections and sends a request over each of them                       *)
(* (cluster-executor/src/secondary.rs, send_multiple_requests in Batch     *)
(* mode and send_n_request_in_t_duration in Immediate mode), the providers *)
(* it gets the requests from (request_providers.rs), the future of each    *)
(* request (HttpRequestFuture in cluster-executor/src/lib.rs) and the task *)
(* that runs the Lua assertions of the job (response-assert/src/lib.rs).   *)
(*                                                                         *)
(* Requests are numbered in the order in which they are spawned; what is   *)
(* known of a request is where its future is.  Time is what remains of the *)
(* cycle, in coarse ticks; it passes at any moment.                        *)
(***************************************************************************)
EXTENDS Integers, Sequences, FiniteSets, Functions

CONSTANTS
  MaxQps,   \* the largest number of requests of a rate message (a bound)
  MaxTime,  \* the ticks of a cycle (a bound)
  Bundle    \* what Batch mode asks the pool for at most (bundle_size)

ASSUME BoundAssumption ==
  MaxQps \in Nat /\ MaxTime \in Nat /\ Bundle \in Nat \ {0}

Req == 1..MaxQps
Mode == {"Batch", "Immediate"}

\* The kinds of providers: requests from memory or by turns, which may fail; a
\* file of requests, read at random; generated requests.
Provider == {"RequestList", "RequestFile", "Generated"}

VARIABLES
  mode, provider, lua,  \* of the job; lua: it has a Lua assertion
  qps,        \* number_of_req
  pc,         \* where the loop is
  time,       \* time_remaining()
  remaining,  \* total_remaining_qps
  available,  \* connections the loop got and has no requests for yet
  lost,       \* connections dropped without being returned
  batch,      \* the batch just spawned: rows generated, and which goes where
  phase,      \* where the future of each request is
  queue,      \* the channel to the Lua executor
  verdicts,   \* requests whose oneshot channel holds a verdict
  requests, statuses  \* counters of the job's metrics

jobVars == <<mode, provider, lua, qps>>
loopVars == <<pc, remaining, available, lost, batch>>
luaVars == <<queue, verdicts>>
counters == <<requests, statuses>>
vars == <<mode, provider, lua, qps, pc, time, remaining, available, lost,
          batch, phase, queue, verdicts, requests, statuses>>

\* The requests whose future is in one of the phases of P.
In(P) == {r \in Req : phase[r] \in P}

Min2(m, n) == IF m < n THEN m ELSE n

NoBatch == [rows |-> 0, uses |-> <<>>]

\* A cycle starts late when the one before it took too long (time_offset).
Init ==
  /\ mode \in Mode
  /\ provider \in Provider
  /\ lua \in BOOLEAN
  /\ qps \in 0..MaxQps
  /\ pc = "start"
  /\ time \in -1..MaxTime
  /\ remaining = qps
  /\ available = 0
  /\ lost = 0
  /\ batch = NoBatch
  /\ phase = [r \in Req |-> "unsent"]
  /\ queue = <<>>
  /\ verdicts = {}
  /\ requests = 0 /\ statuses = 0

Tick ==
  /\ time > -1
  /\ time' = time - 1
  /\ UNCHANGED <<jobVars, loopVars, phase, luaVars, counters>>

-----------------------------------------------------------------------------
(* The loop.                                                               *)

\* Nothing to send; in Immediate mode also when less than 10 ms remain.
Start ==
  /\ pc = "start"
  /\ pc' = IF qps = 0 \/ (mode = "Immediate" /\ time < 1) THEN "over"
                                                          ELSE "asking"
  /\ UNCHANGED <<jobVars, time, remaining, available, lost, batch, phase,
                 luaVars, counters>>

\* A mutant: the last bundle is as large as the others.
MutAsked == IF mode = "Batch" THEN Bundle ELSE remaining

\* requested_connection.  In Immediate mode a bundle is larger than any rate.
Asked == IF mode = "Batch" THEN Min2(Bundle, remaining) ELSE remaining

\* A mutant: the loop is left only when all requests are sent.
MutOutOfTime == FALSE

OutOfTime == time < 0

\* The top of the loop, when it is too late to send any more ...
GiveUp ==
  /\ pc = "asking"
  /\ OutOfTime
  /\ pc' = "over"
  /\ UNCHANGED <<jobVars, time, remaining, available, lost, batch, phase,
                 luaVars, counters>>

\* ... and when it is not.  The pool has k connections (see QueuePool); if it
\* has none the loop sleeps and tries again.
Ask(k) ==
  /\ pc = "asking"
  /\ ~OutOfTime
  /\ k <= Asked
  /\ available' = k
  /\ pc' = IF k = 0 THEN "asking" ELSE "generating"
  /\ UNCHANGED <<jobVars, time, remaining, lost, batch, phase, luaVars,
                 counters>>

\* The numbers of requests a provider may return when asked for n: a file of
\* requests is read at random row ids, some of which may be equal or absent.
Provided(n) == IF provider = "RequestFile" THEN 0..n ELSE {n}

\* The loop returns, or its task panics, and the connections are dropped.
DropBatch(place) ==
  /\ pc' = place
  /\ lost' = lost + available
  /\ available' = 0
  /\ UNCHANGED <<jobVars, time, remaining, batch, phase, luaVars, counters>>

\* get_requests failed: an empty list or file, or an error of the database.
GenerateFails ==
  /\ pc = "generating"
  /\ provider # "Generated"
  /\ DropBatch("over")

\* A random row of a RequestFile without rows: the range 1..=0 is empty.
GeneratePanics ==
  /\ pc = "generating"
  /\ provider = "RequestFile"
  /\ DropBatch("panicked")

\* No request: Immediate mode returns.  Batch mode goes on and never gets out
\* of fill_req_if_less_than_connections.
GenerateNothing ==
  /\ pc = "generating"
  /\ 0 \in Provided(available)
  /\ IF mode = "Immediate"
     THEN DropBatch("over")
     ELSE /\ pc' = "spinning"
          /\ UNCHANGED <<jobVars, time, remaining, available, lost, batch,
                         phase, luaVars, counters>>

\* fill_req_if_less_than_connections: n requests, repeated in turn up to k.
Fill(n, k) == [i \in 1..k |-> ((i - 1) % n) + 1]

\* The requests are popped from the end, one for each connection, and a task
\* is spawned that sends them.
Spawn(n) ==
  /\ pc = "generating"
  /\ n \in Provided(available) \ {0}
  /\ batch' = [rows |-> n, uses |-> Fill(n, available)]
  /\ LET sent == Cardinality(Req \ In({"unsent"}))
     IN  phase' = [r \in Req |-> IF r \in sent + 1 .. sent + available
                                 THEN "built" ELSE phase[r]]
  /\ remaining' = remaining - available
  /\ available' = 0
  /\ pc' = "spawned"
  /\ UNCHANGED <<jobVars, time, lost, luaVars, counters>>

\* The bottom of the loop; the batch is the spawned task's, and the loop goes
\* on after a sleep.
GoOn ==
  /\ pc = "spawned"
  /\ pc' = IF time < 0 \/ remaining = 0 THEN "over" ELSE "asking"
  /\ batch' = NoBatch
  /\ UNCHANGED <<jobVars, time, remaining, available, lost, phase, luaVars,
                 counters>>

-----------------------------------------------------------------------------
(* The future of a request.                                                *)

Goto(r, place) == phase' = [phase EXCEPT ![r] = place]

\* The first poll.
Begin(r) ==
  /\ phase[r] = "built"
  /\ Goto(r, "waiting")
  /\ requests' = requests + 1
  /\ UNCHANGED <<jobVars, loopVars, time, luaVars, statuses>>

Response(r) ==
  /\ phase[r] = "waiting"
  /\ Goto(r, "body")
  /\ statuses' = statuses + 1
  /\ UNCHANGED <<jobVars, loopVars, time, luaVars, requests>>

\* A mutant: an error is not counted.
MutResponseError(r) ==
  /\ phase[r] = "waiting"
  /\ Goto(r, "done")
  /\ UNCHANGED <<jobVars, loopVars, time, luaVars, counters>>

\* The error is counted as a status of its own.
ResponseError(r) ==
  /\ phase[r] = "waiting"
  /\ Goto(r, "done")
  /\ statuses' = statuses + 1
  /\ UNCHANGED <<jobVars, loopVars, time, luaVars, requests>>

\* The body is there; if it is text, the Lua executor is asked about it.  (The
\* counter of failed assertions is left out, and with it simple_assert.)
Body(r, text) ==
  /\ phase[r] = "body"
  /\ IF lua /\ text
     THEN Goto(r, "asserting") /\ queue' = Append(queue, r)
     ELSE Goto(r, "done") /\ UNCHANGED queue
  /\ UNCHANGED <<jobVars, loopVars, time, verdicts, counters>>

\* do_lua_assertion: the verdict is in.
Verdict(r) ==
  /\ phase[r] = "asserting"
  /\ r \in verdicts
  /\ Goto(r, "done")
  /\ verdicts' = verdicts \ {r}
  /\ UNCHANGED <<jobVars, loopVars, time, queue, counters>>

\* A mutant: the future waits for the verdict, however long it takes.
MutVerdictTimeout(r) == FALSE /\ UNCHANGED vars

\* do_lua_assertion: no verdict within 50 ms; the receiver is dropped.
VerdictTimeout(r) ==
  /\ phase[r] = "asserting"
  /\ r \notin verdicts
  /\ Goto(r, "done")
  /\ UNCHANGED <<jobVars, loopVars, time, luaVars, counters>>

\* A mutant: the executor answers the newest message.
MutNewest == queue[Len(queue)]

\* The message the executor receives.
Oldest == Head(queue)

\* The Lua executor handles a message; a verdict nobody waits for is lost.
Execute ==
  /\ queue # <<>>
  /\ queue' = Tail(queue)
  /\ verdicts' = IF phase[Oldest] = "asserting" THEN verdicts \cup {Oldest}
                                                ELSE verdicts
  /\ UNCHANGED <<jobVars, loopVars, time, phase, counters>>

-----------------------------------------------------------------------------
Generate ==
  \/ GenerateFails \/ GeneratePanics \/ GenerateNothing
  \/ \E n \in 1..MaxQps : Spawn(n)

Loop == Start \/ GiveUp \/ Generate \/ GoOn

Future(r) ==
  \/ Begin(r) \/ Response(r) \/ ResponseError(r)
  \/ \E text \in BOOLEAN : Body(r, text)
  \/ Verdict(r) \/ VerdictTimeout(r)

Next ==
  \/ Tick
  \/ Loop
  \/ \E k \in 0..MaxQps : Ask(k)
  \/ \E r \in Req : Future(r)
  \/ Execute

Spec == Init /\ [][Next]_vars

\* Time passes, the runtime polls the loop and the futures, and the target
\* answers.  The pool may never have a connection, and a Lua function may run
\* for ever: nothing is assumed of Ask and Execute.
FairSpec ==
  /\ Spec
  /\ WF_vars(Tick)
  /\ WF_vars(Loop)
  /\ \A r \in Req : WF_vars(Future(r))

-----------------------------------------------------------------------------
\* Requests spawned and requests still to send make up the rate, whatever the
\* pool had; total_remaining_qps is a u32 and is never taken below zero.  Of a
\* batch each request the provider returned is sent, none more than once more
\* often than another ("clone the connections and fill up", secondary.rs:950).
RateKept ==
  /\ remaining >= 0
  /\ Cardinality(Req \ In({"unsent"})) + remaining = qps
  /\ available + lost <= remaining
  /\ LET times(i) == Cardinality({p \in DOMAIN batch.uses : batch.uses[p] = i})
     IN  \A i, j \in 1..batch.rows : times(i) \in 1 .. times(j) + 1

\* Every request that was sent is counted once when it is first polled, and
\* once with a status, a response's or an error's, unless it still waits.
RequestsCounted ==
  /\ requests = Cardinality(Req \ In({"unsent", "built"}))
  /\ requests = statuses + Cardinality(In({"waiting"}))

\* Verdicts go to the requests that asked for them, each once: a message is in
\* the channel for each request that has no verdict yet and still waits for
\* it, and a request that has one is not asked about again.
VerdictsInOrder ==
  /\ IsInjective(queue)
  /\ verdicts \subseteq In({"asserting"})
  /\ \A r \in In({"asserting"}) : r \notin verdicts <=> r \in Range(queue)

\* Every connection a request is sent over is returned to the pool: its future
\* ends, even if the Lua executor hangs (the timeout of do_lua_assertion).
ConnectionsReturned == \A r \in Req : phase[r] = "built" ~> phase[r] = "done"

\* The loop ends with the cycle, even if the pool never has a connection;
\* except in Batch mode when a request file yields no row.
CycleEnds ==
  <>(pc \in {"over", "panicked"} \/ (mode = "Batch" /\ pc = "spinning"))
=============================================================================
