----------------------------- MODULE ClusterApi -----------------------------
(***************************************************************************)
(* The HTTP API of a node, and how it forwards to the primary what it      *)
(* cannot serve itself (overload/src/overload/cluster/mod.rs and           *)
(* secondary.rs; standalone.rs for a node without a cluster; the routes of *)
(* filters.rs and filters_cluster.rs).                                     *)
(*                                                                         *)
(* A handler asks the cluster one question at a time, is it active, is     *)
(* this node the primary, who are the secondaries, who is the primary, and *)
(* the answers may change between two questions.  A call that is forwarded *)
(* is a stack of handlers: all but the last wait for an answer.  Whoever   *)
(* receives a forwarded call handles it like any other.                    *)
(***************************************************************************)
EXTENDS Naturals, Sequences, SequencesExt, FiniteSets

CONSTANTS
  Node,
  Call,        \* calls of clients
  Workloads,   \* what the calls ask for: functions from Call to requests
  None,        \* Option::None, a query parameter that is not there
  Bad,         \* a query parameter that is not a number
  MaxChanges,  \* changes of the cluster in a behaviour (a bound)
  MaxFaults,   \* connections that break, and writes that fail (a bound)
  MaxHops      \* handlers of one call (a bound)

ASSUME NoneAssumption == \A c \in Call : None # <<c, 1>>
ASSUME HopsAssumption == MaxHops \in Nat

VARIABLES
  view,      \* what the cluster (cluster_mode) tells each node
  standalone,  \* the node runs without a cluster
  request,   \* what each call asks for
  pc,        \* where the last handler of the call is
  path,      \* the handlers of the call: their nodes, and the job ids
  name,      \* the name in the request the last handler got
  query,     \* the query parameters it got
  answer,    \* the last handler's answer
  jobs,      \* the tasks spawned
  table,     \* JOB_STATUS of each node: the ids
  stopped,   \* the entries a stop has marked
  files,     \* the files of each node, by call
  \* bookkeeping of the model
  changes, faults,
  calm,      \* the cluster agreed on its primary and nothing has changed or
             \* failed since the call was made
  expected   \* the answer of the node that served the call

vars == <<view, standalone, request, pc, path, name, query, answer, jobs,
          table, stopped, files, changes, faults, calm, expected>>

\* The effects of serving a call.
effects == <<jobs, table, stopped, files>>

bounds == <<changes, faults, calm>>

-----------------------------------------------------------------------------
(* What a node may be told by the cluster.                                 *)

Inactive == [active |-> FALSE, primary |-> FALSE, secondaries |-> None,
             primaries |-> None]

Leader(n, others) == [active |-> TRUE, primary |-> TRUE,
                      secondaries |-> others, primaries |-> {n}]

Follower(known) == [active |-> TRUE, primary |-> FALSE, secondaries |-> None,
                    primaries |-> known]

View(n) ==
  {Inactive, Leader(n, {}), Leader(n, Node \ {n}), Follower(None), Follower({})}
    \cup {Follower({p}) : p \in Node \ {n}}

\* One primary, which every other node follows.
Agreed(v) ==
  \E p \in Node : /\ v[p].primary
                  /\ \A n \in Node \ {p} : v[n] = Follower({p})

-----------------------------------------------------------------------------
(* Names, queries and answers.                                             *)

Here(c) == Last(path[c]).node

\* job_id: a name that ends in a UUID, maybe with a number, is kept, any other
\* one (None here) gets a UUID.
JobId(c, requested) ==
  IF requested = None THEN <<c, Len(path[c]) + 1>> ELSE requested

NoParams == [job_id |-> None, offset |-> None, limit |-> None]

Default(value, default) == IF value = None THEN default ELSE value

\* TryFrom for JobStatusQueryParams: job_id has priority, and nothing may be
\* left over.
ValidQuery(q) ==
  IF q.job_id # None
  THEN q.offset = None /\ q.limit = None
  ELSE Default(q.offset, 0) # Bad /\ Default(q.limit, 20) \notin {Bad, 0}

\* A mutant: a forwarded query has no limit.
MutForwarded(q) ==
  IF q.job_id # None THEN q
  ELSE [q EXCEPT !.offset = Default(@, 0), !.limit = None]

\* Display for JobStatusQueryParams.
Forwarded(q) ==
  IF q.job_id # None THEN q
  ELSE [q EXCEPT !.offset = Default(@, 0), !.limit = Default(@, 20)]

\* get_job_status: which of the len entries, in the order of the table.
Page(len, offset, limit) ==
  {count \in 1..len : count > offset /\ ~(count - offset > limit)}

\* get_status_by_job_id, stop_request_by_job_id: ids by prefix.
Matching(ids, prefix) == {id \in ids : IsPrefix(prefix, id)}

Answer(kind, id, data) == [kind |-> kind, id |-> id, data |-> data]

Failure == Answer("Failed", <<>>, {})

IsTest(c) == request[c].op \in {"test", "tests"}

-----------------------------------------------------------------------------
Init ==
  /\ view \in {v \in [Node -> UNION {View(n) : n \in Node}] :
                 Agreed(v) /\ \A n \in Node : v[n] \in View(n)}
  /\ standalone \in BOOLEAN
  /\ request \in Workloads
  /\ pc = [c \in Call |-> "new"]
  /\ path = [c \in Call |-> <<>>]
  /\ name = [c \in Call |-> None]
  /\ query = [c \in Call |-> NoParams]
  /\ answer = [c \in Call |-> Failure]
  /\ jobs = {}
  /\ table = [n \in Node |-> {}]
  /\ stopped = [n \in Node |-> {}]
  /\ files = [n \in Node |-> {}]
  /\ changes = 0 /\ faults = 0
  /\ calm = [c \in Call |-> FALSE]
  /\ expected = [c \in Call |-> Failure]

Goto(c, place) == pc' = [pc EXCEPT ![c] = place]

\* The last handler answers.
Reply(c, a) == Goto(c, "returning") /\ answer' = [answer EXCEPT ![c] = a]

Served(c, a) == Reply(c, a) /\ expected' = [expected EXCEPT ![c] = a]

\* The cluster changes under a node's feet.
Change(n, v) ==
  /\ ~standalone
  /\ changes < MaxChanges
  /\ v # view[n]
  /\ view' = [view EXCEPT ![n] = v]
  /\ changes' = changes + 1
  /\ calm' = [c \in Call |-> FALSE]
  /\ UNCHANGED <<standalone, request, pc, path, name, query, answer, effects,
                 faults, expected>>

Fault ==
  /\ faults < MaxFaults
  /\ faults' = faults + 1
  /\ calm' = [c \in Call |-> FALSE]
  /\ UNCHANGED changes

\* The id a client was given for another call of its own.
Known(c) == IF pc[c] = "answered" /\ IsTest(c) THEN answer[c].id ELSE <<>>

\* A request arrives at node n with the name requested and the query q, and
\* its handler starts.  The route of the status turns down a wrong query.
Arrive(c, n, requested, q) ==
  /\ path' = [path EXCEPT ![c] = Append(@, [node |-> n,
                                            id |-> JobId(c, requested)])]
  /\ name' = [name EXCEPT ![c] = requested]
  /\ query' = [query EXCEPT ![c] = q]
  /\ IF request[c].op = "status" /\ ~ValidQuery(q)
     THEN Reply(c, Failure)
     ELSE Goto(c, "received") /\ UNCHANGED answer

\* A client calls node n.  A stop, and the status of one job, name the id the
\* client got for the call it is about.
Submit(c, n) ==
  /\ pc[c] = "new"
  /\ LET r == request[c]
         about == r.op = "stop" \/ (r.op = "status" /\ r.query.job_id # None)
     IN  \E d \in Call :
           /\ about => Known(d) # <<>>
           /\ ~about => d = c
           /\ Arrive(c, n, None,
                     IF about THEN [r.query EXCEPT !.job_id = Known(d)]
                              ELSE r.query)
  /\ calm' = [calm EXCEPT ![c] = Agreed(view) \/ standalone]
  /\ UNCHANGED <<view, standalone, request, effects, changes, faults,
                 expected>>

-----------------------------------------------------------------------------
(* The handlers of a cluster: is_active, then is_primary.                  *)

CheckActive(c) ==
  /\ pc[c] = "received" /\ ~standalone
  /\ IF view[Here(c)].active
     THEN Goto(c, "active") /\ UNCHANGED answer
     ELSE Reply(c, IF IsTest(c)
                   THEN Answer("Error", Last(path[c]).id, {})
                   ELSE Failure)
  /\ UNCHANGED <<view, standalone, request, path, name, query, effects, bounds,
                 expected>>

CheckPrimary(c) ==
  /\ pc[c] = "active"
  /\ Goto(c, IF ~view[Here(c)].primary THEN "forwarding"
             ELSE IF request[c].op = "test" THEN "counting" ELSE "serving")
  /\ UNCHANGED <<view, standalone, request, path, name, query, answer, effects,
                 bounds, expected>>

\* handle_request_cluster asks for the secondaries, and asks again.
CountSecondaries(c) ==
  /\ pc[c] = "counting"
  /\ IF view[Here(c)].secondaries = None
     THEN Served(c, Answer("Error", Last(path[c]).id, {}))
     ELSE Goto(c, "counted") /\ UNCHANGED <<answer, expected>>
  /\ UNCHANGED <<view, standalone, request, path, name, query, effects,
                 bounds>>

\* The second answer is unwrapped.  A handler that panics closes the
\* connection: to the one before it, forwarding has failed.
CountAgain(c) ==
  /\ pc[c] = "counted"
  /\ LET others == view[Here(c)].secondaries
     IN  /\ others # None => UNCHANGED path
         /\ IF others = None
            THEN /\ UNCHANGED expected
                 /\ IF Len(path[c]) = 1
                    THEN Goto(c, "reset") /\ UNCHANGED <<answer, path>>
                    ELSE /\ path' = [path EXCEPT ![c] = Front(@)]
                         /\ Reply(c, Answer("Error",
                                            Last(Front(path[c])).id, {}))
            ELSE IF others = {}
            THEN Served(c, Answer("Error", Last(path[c]).id, {}))
            ELSE Goto(c, "serving") /\ UNCHANGED <<answer, expected>>
  /\ UNCHANGED <<view, standalone, request, name, query, effects, bounds>>

-----------------------------------------------------------------------------
(* Serving a call, on the primary or on a standalone node.                 *)

Spawn(c, indices) ==
  jobs' = jobs \cup
    {[call |-> c, idx |-> i, node |-> Here(c), hop |-> Len(path[c]),
      id |-> IF request[c].op = "test" THEN Last(path[c]).id
             ELSE Append(Last(path[c]).id, i)] : i \in indices}

\* The requests of the call whose pre_check is Ok.
Checked(c) == {i \in DOMAIN request[c].checks : request[c].checks[i]}

All(c) == DOMAIN request[c].checks

\* handle_multi_request checks and spawns one request after the other.
BeforeFirstError(c) == {i \in All(c) : \A j \in 1..i : j \in Checked(c)}

\* handle_request of a cluster and of a standalone node check the request;
\* handle_multi_request_cluster does not.
Accepted(c) ==
  IF request[c].op = "tests" /\ ~standalone THEN All(c)
                                            ELSE BeforeFirstError(c)

Ready(c) == pc[c] = "serving" \/ (standalone /\ pc[c] = "received")

\* A mutant: a request is spawned before it is checked.
MutServeTest(c) ==
  /\ Ready(c) /\ IsTest(c)
  /\ Spawn(c, {i \in All(c) : \A j \in 1..(i - 1) : j \in Accepted(c)})
  /\ Served(c, Answer(IF Accepted(c) = All(c) THEN "Starting" ELSE "Error",
                      Last(path[c]).id, {}))
  /\ UNCHANGED <<view, standalone, request, path, name, query, table, stopped,
                 files, bounds>>

ServeTest(c) ==
  /\ Ready(c) /\ IsTest(c)
  /\ Spawn(c, Accepted(c))
  /\ Served(c, Answer(IF Accepted(c) = All(c) THEN "Starting" ELSE "Error",
                      Last(path[c]).id, {}))
  /\ UNCHANGED <<view, standalone, request, path, name, query, table, stopped,
                 files, bounds>>

\* A spawned task enters its job into the table.
Begin(j) ==
  /\ j.id \notin table[j.node]
  /\ table' = [table EXCEPT ![j.node] = @ \cup {j.id}]
  /\ UNCHANGED <<view, standalone, request, pc, path, name, query, answer, jobs,
                 stopped, files, bounds, expected>>

ServeStop(c) ==
  /\ Ready(c) /\ request[c].op = "stop"
  /\ LET hit == Matching(table[Here(c)], query[c].job_id)
     IN  /\ stopped' = [stopped EXCEPT ![Here(c)] = @ \cup hit]
         /\ Served(c, Answer("Ok", <<>>, hit))
  /\ UNCHANGED <<view, standalone, request, path, name, query, jobs, table,
                 files, bounds>>

\* The entries a status shows: by id, or by their places in the table.
Shown(n, q) ==
  IF q.job_id # None THEN Matching(table[n], q.job_id)
  ELSE Page(Cardinality(table[n]), Default(q.offset, 0), Default(q.limit, 20))

\* What was asked for is what the client's own query, not the forwarded one,
\* would show here.
Asked(c) == IF query[c].job_id # None THEN query[c] ELSE request[c].query

ServeStatus(c) ==
  /\ Ready(c) /\ request[c].op = "status"
  /\ Reply(c, Answer("Ok", <<>>, Shown(Here(c), query[c])))
  /\ expected' = [expected EXCEPT
                    ![c] = Answer("Ok", <<>>, Shown(Here(c), Asked(c)))]
  /\ UNCHANGED <<view, standalone, request, path, name, query, effects,
                 bounds>>

\* The file is saved here (FileTransfer has the steps), or that fails.
ServeUpload(c) ==
  /\ Ready(c) /\ request[c].op = "upload"
  /\ \/ /\ files' = [files EXCEPT ![Here(c)] = @ \cup {c}]
        /\ Served(c, Answer("Ok", <<>>, {c}))
        /\ UNCHANGED bounds
     \/ /\ Fault
        /\ Served(c, Failure)
        /\ UNCHANGED files
  /\ UNCHANGED <<view, standalone, request, path, name, query, jobs, table,
                 stopped>>

-----------------------------------------------------------------------------
(* Forwarding.                                                             *)

\* A mutant: the request is forwarded under the name the client gave it.
MutForwardedName(c) == name[c]

\* The job id is the name of the request that is forwarded.
ForwardedName(c) == IF IsTest(c) THEN Last(path[c]).id ELSE None

\* forward_test_request and the other forwards: to the first primary there is.
Forward(c) ==
  /\ pc[c] = "forwarding"
  /\ LET known == view[Here(c)].primaries
     IN  IF known = None \/ known = {}
         THEN /\ Reply(c, IF ~IsTest(c) THEN Failure
                          ELSE Answer("Error",
                                      IF known = None THEN Last(path[c]).id
                                                      ELSE <<"error">>, {}))
              /\ UNCHANGED <<path, name, query>>
         ELSE /\ Len(path[c]) < MaxHops
              /\ \E p \in known :
                   Arrive(c, p, ForwardedName(c),
                          IF request[c].op = "status" THEN Forwarded(query[c])
                                                      ELSE query[c])
  /\ UNCHANGED <<view, standalone, request, effects, bounds, expected>>

\* A connection between two handlers breaks: the one that waits answers with
\* an error under its own id.  Those behind it have served the call, or are
\* cancelled.
LinkBreaks(c, k) ==
  /\ pc[c] \notin {"new", "answered", "reset"}
  /\ k < Len(path[c])
  /\ Fault
  /\ path' = [path EXCEPT ![c] = SubSeq(@, 1, k)]
  /\ Reply(c, IF IsTest(c) THEN Answer("Error", path[c][k].id, {})
                           ELSE Failure)
  /\ UNCHANGED <<view, standalone, request, name, query, effects, expected>>

\* The handler before gets the answer.  The answer to a test is passed on; of
\* the others an error is not an answer that can be parsed, and makes an error.
Return(c) ==
  /\ pc[c] = "returning"
  /\ IF Len(path[c]) > 1
     THEN path' = [path EXCEPT ![c] = Front(@)] /\ UNCHANGED pc
     ELSE Goto(c, "answered") /\ UNCHANGED path
  /\ UNCHANGED <<view, standalone, request, name, query, answer, effects,
                 bounds, expected>>

-----------------------------------------------------------------------------
Handle(c) ==
  \/ CheckActive(c) \/ CheckPrimary(c) \/ CountSecondaries(c) \/ CountAgain(c)
  \/ ServeTest(c) \/ ServeStop(c) \/ ServeStatus(c) \/ ServeUpload(c)
  \/ Forward(c) \/ Return(c)

Next ==
  \/ \E c \in Call : \/ \E n \in Node : Submit(c, n)
                     \/ Handle(c)
                     \/ \E k \in 1..MaxHops : LinkBreaks(c, k)
  \/ \E n \in Node : \E v \in View(n) : Change(n, v)
  \/ \E j \in jobs : Begin(j)

Spec == Init /\ [][Next]_vars

-----------------------------------------------------------------------------
\* Whatever answer a client gets to a test, an error after a lost connection
\* and a multi-request refused half way (standalone.rs:24) included, the id in
\* it is the one of all the jobs it has started: the client can stop them.
AnswerNamesJobs ==
  \A c \in Call : pc[c] = "answered" =>
    \A j \in jobs : j.call = c => IsPrefix(answer[c].id, j.id)

\* However often a call is forwarded, each of its requests is started at most
\* once; all of them are if the answer is "Starting", and, where each request
\* is checked, none from the first one on that fails its check.
StartedOnce ==
  /\ \A i, j \in jobs : i.call = j.call /\ i.idx = j.idx => i = j
  /\ \A c \in Call :
       LET started == {j.idx : j \in {i \in jobs : i.call = c}}
       IN  /\ pc[c] = "answered" /\ answer[c].kind = "Starting" =>
                started = All(c)
           /\ IsTest(c) /\ standalone => started \subseteq BeforeFirstError(c)

\* "forward request to primary" (cluster/mod.rs:43): as long as the cluster
\* agrees on its primary and nothing breaks, the client gets the same answer
\* from every node, the one the primary gives to what the client asked for.
SameFromEveryNode ==
  \A c \in Call : calm[c] =>
    /\ Len(path[c]) <= 2
    /\ pc[c] = "answered" /\ (request[c].op = "status" => ValidQuery(query[c]))
         => answer[c] = expected[c]
=============================================================================
