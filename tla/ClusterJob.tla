----------------------------- MODULE ClusterJob -----------------------------
(***************************************************************************)
(* One job in a cluster: the loop of the primary (handle_request in        *)
(* cluster-executor/src/primary.rs), which keeps a sender to each          *)
(* secondary it knows and sends it the request and, every second, its      *)
(* share of the rates; and the handlers of the secondaries                 *)
(* (handle_connection_from_primary_v2 in secondary.rs), which read the     *)
(* messages of their connection one by one.  A job that splits its request *)
(* file between the secondaries splits it anew when secondaries come or    *)
(* go (reset_request).                                                     *)
(*                                                                         *)
(* A connection is used for one sender and one handler.  The pool of the   *)
(* handler is modelled in PoolHandoff, the status of the job in            *)
(* JobRegistry, the cycle of a rate message in RequestCycle.               *)
(***************************************************************************)
EXTENDS Naturals, Sequences, FiniteSets, SequencesExt, SplitFile,
        RateSchedule

CONSTANTS
  Secondary,   \* the nodes that may be secondaries
  Sizes,       \* the numbers of rows a request file may have
  Rate,        \* requests per second of the job
  RefreshAt,   \* the counter at which the secondaries are looked up again:
               \* 10 in the code, scaled
  MaxSeconds,  \* seconds of the job (a bound)
  MaxConns,    \* connections made (a bound)
  MaxLag,      \* messages a handler is behind at most when a second begins
               \* (a bound)
  MaxChanges,  \* changes of the members of the cluster (a bound)
  MaxFaults    \* failures (a bound)

ASSUME BoundAssumption ==
  /\ Sizes \subseteq Nat \ {0}
  /\ RefreshAt \in Nat

VARIABLES
  split,           \* whether the job splits its file: require_reset()
  size,            \* rows of the file
  members,         \* the secondaries of the cluster
  pc, counter,     \* of the loop of the primary
  new_nodes,       \* the secondaries it has just connected to
  senders,         \* the connection of each secondary there is a sender for
  sender_dropped,  \* whether one was removed since the last split
  channel,         \* messages sent on each connection and not received
  alive,           \* connections that are not broken
  handler,         \* where the handler of each connection is
  reset,           \* of each handler
  reader,          \* the request specification of each handler
  seconds, changes, faults,  \* for the bounds
  calm,            \* bookkeeping: refreshes since the last disturbance
  unread,          \* bookkeeping: the primary could not read the file
  unexpected       \* bookkeeping: a handler got a message out of order

primaryVars == <<pc, counter, new_nodes, senders, sender_dropped>>
connVars == <<channel, alive, handler, reset, reader>>
jobVars == <<split, size>>
bounds == <<seconds, changes, faults>>
notes == <<calm, unread, unexpected>>
vars == <<split, size, members, pc, counter, new_nodes, senders,
          sender_dropped, channel, alive, handler, reset, reader, seconds,
          changes, faults, calm, unread, unexpected>>

Init ==
  /\ split \in BOOLEAN
  /\ size \in Sizes
  /\ split \/ \A n \in Sizes : size <= n  \* otherwise no file is read
  /\ members \in SUBSET Secondary
  /\ pc = "starting" /\ counter = 0 /\ new_nodes = {}
  /\ senders = <<>> /\ sender_dropped = FALSE
  /\ channel = <<>> /\ alive = {}
  /\ handler = <<>> /\ reset = <<>> /\ reader = <<>>
  /\ seconds = 0 /\ changes = 0 /\ faults = 0
  /\ calm = 0 /\ unread = FALSE /\ unexpected = FALSE

-----------------------------------------------------------------------------
(* The primary.  A send on a broken connection fails and does nothing; the *)
(* failure is looked at only when the rates are sent.  As a connection     *)
(* delivers in order, and a break may lose whatever is still to be         *)
(* received, the sends between two lookups are one step.                   *)

\* The connections after messages[s] are sent to each secondary s.
Sent(messages) ==
  [c \in DOMAIN channel |->
     IF \E s \in DOMAIN messages : senders[s] = c /\ c \in alive
     THEN channel[c] \o messages[CHOOSE s \in DOMAIN messages : senders[s] = c]
     ELSE channel[c]]

\* create_senders_for_cluster_nodes: new are those that could be connected to.
Connect(new) ==
  /\ pc \in {"starting", "refreshing"}
  /\ new \subseteq members \ DOMAIN senders
  /\ Len(channel) + Cardinality(new) <= MaxConns
  /\ LET nodes == SetToSeq(new)
         conn(s) == Len(channel) + CHOOSE i \in DOMAIN nodes : nodes[i] = s
     IN  /\ senders' = [s \in DOMAIN senders \cup new |->
                          IF s \in new THEN conn(s) ELSE senders[s]]
         /\ alive' = alive \cup {conn(s) : s \in new}
         /\ channel' = channel \o [i \in DOMAIN nodes |-> <<>>]
         /\ handler' = handler \o [i \in DOMAIN nodes |-> "metadata"]
         /\ reset' = reset \o [i \in DOMAIN nodes |-> FALSE]
         /\ reader' = reader \o [i \in DOMAIN nodes |-> Reader(size, NoRange)]
  /\ new_nodes' = new
  /\ pc' = IF pc = "starting" THEN "introducing" ELSE "announcing"
  /\ UNCHANGED <<jobVars, members, counter, sender_dropped, bounds, notes>>

Metadata(s) == IF s \in new_nodes THEN <<[type |-> "Metadata"]>> ELSE <<>>
Request(range) == <<[type |-> "Request", range |-> range]>>

\* The place of a secondary in the order of the map of senders, some order.
Place(s) ==
  LET order == SetToSeq(DOMAIN senders)
  IN  CHOOSE i \in DOMAIN order : order[i] = s

\* The request as it is sent to s: its own range of the file, if the file can
\* be read, or the same for all.
RequestFor(s, readable) ==
  IF ~split THEN IF s \in new_nodes THEN Request(NoRange) ELSE <<>>
  ELSE IF readable
  THEN Request(split_ranges(size, Cardinality(DOMAIN senders))[Place(s)])
  ELSE <<>>

\* process_and_send_request divides the rows by the number of senders.
Divides(readable) == ~split \/ ~readable \/ senders # <<>>

\* The file of the primary can be read, or not.
Reads(readable) ==
  /\ readable \/ (split /\ faults < MaxFaults)
  /\ faults' = IF readable THEN faults ELSE faults + 1
  /\ unread' = (unread \/ ~readable)

\* The rest of init_senders.
Introduce(readable) ==
  /\ pc = "introducing"
  /\ Reads(readable)
  /\ channel' = Sent([s \in DOMAIN senders |->
                        Metadata(s) \o RequestFor(s, readable)])
  /\ pc' = IF Divides(readable) THEN "counting" ELSE "panicked"
  /\ UNCHANGED <<jobVars, members, counter, new_nodes, senders,
                 sender_dropped, alive, handler, reset, reader, seconds,
                 changes, calm, unexpected>>

\* The top of the loop.
Count ==
  /\ pc = "counting"
  /\ seconds < MaxSeconds
  /\ \A s \in DOMAIN senders : Len(channel[senders[s]]) <= MaxLag
  /\ seconds' = seconds + 1
  /\ IF counter = RefreshAt
     THEN pc' = "refreshing" /\ counter' = 0
     ELSE pc' = "sending" /\ counter' = counter + 1
  /\ UNCHANGED <<jobVars, members, new_nodes, senders, sender_dropped,
                 connVars, changes, faults, notes>>

\* reset_request: to all senders, the new ones included.
ResetRequest(readable) ==
  /\ Reads(readable)
  /\ channel' = Sent([s \in DOMAIN senders |->
                        Metadata(s) \o <<[type |-> "Reset"]>>
                          \o RequestFor(s, readable)])
  /\ pc' = IF Divides(readable) THEN "sending" ELSE "panicked"

\* The new secondaries are sent the request; a file is split anew.
Announce(readable) ==
  /\ pc = "announcing"
  /\ IF split /\ (new_nodes # {} \/ sender_dropped)
     THEN ResetRequest(readable)
     ELSE /\ readable
          /\ channel' = Sent([s \in DOMAIN senders |->
                                Metadata(s) \o RequestFor(s, FALSE)])
          /\ pc' = "sending"
          /\ UNCHANGED <<faults, unread>>
  /\ sender_dropped' = (sender_dropped /\ new_nodes # {})
  /\ new_nodes' = {}
  /\ calm' = Smaller(calm + 1, 2)
  /\ UNCHANGED <<jobVars, members, counter, senders, alive, handler, reset,
                 reader, seconds, changes, unexpected>>

\* A mutant: a dropped sender is forgotten by the next second.
MutDropped(failed) == failed # {}

\* sender_dropped is set by a failure, and stays.
Dropped(failed) == sender_dropped \/ failed # {}

\* send_rate_message_to_secondaries, and the senders that failed are removed.
SendRates ==
  /\ pc = "sending"
  /\ channel' = Sent([s \in DOMAIN senders |->
                        <<[type |-> "Rates",
                           qps |-> Shares(Rate, Cardinality(DOMAIN senders))
                                     [Place(s)]]>>])
  /\ LET failed == {s \in DOMAIN senders : senders[s] \notin alive} IN
       /\ senders' = [s \in DOMAIN senders \ failed |-> senders[s]]
       /\ sender_dropped' = Dropped(failed)
  /\ pc' = "counting"
  /\ UNCHANGED <<jobVars, members, counter, new_nodes, alive, handler, reset,
                 reader, bounds, notes>>

\* The rates of the job are at an end, or it was stopped.
End ==
  /\ pc = "counting"
  /\ channel' = Sent([s \in DOMAIN senders |-> <<[type |-> "Finished"]>>])
  /\ senders' = <<>>
  /\ pc' = "over"
  /\ UNCHANGED <<jobVars, members, counter, new_nodes, sender_dropped, alive,
                 handler, reset, reader, bounds, notes>>

-----------------------------------------------------------------------------
(* The handlers.                                                           *)

\* The handler of connection c goes to place p with the specification r.
Goes(c, p, r) ==
  /\ handler' = [handler EXCEPT ![c] = p]
  /\ reader' = [reader EXCEPT ![c] = r]

\* The handler of connection c returns, and drops what it has.
Returns(c) ==
  /\ Goes(c, "over", Reader(size, NoRange))
  /\ reset' = [reset EXCEPT ![c] = FALSE]

\* Where a request is waited for, a Reset is let pass once.
Awaits(c) == handler[c] \in {"request", "again"}

\* A mutant: a Reset that comes before the request is an error.
MutTolerates(c, message) == message.type = "Request"

\* What check_for_metadata_msg and check_for_request_msg let pass.
Tolerates(c, message) ==
  IF Awaits(c)
  THEN \/ message.type = "Request"
       \/ message.type = "Reset" /\ handler[c] = "request"
  ELSE message.type = "Metadata"

\* The messages before the loop: anything else than what is waited for makes
\* the handler return an error.
Prepare(c, message) ==
  /\ handler[c] \in {"metadata", "request", "again"}
  /\ CASE ~Tolerates(c, message) -> Returns(c)
       [] Tolerates(c, message) /\ message.type = "Metadata" ->
            Goes(c, "request", reader[c]) /\ UNCHANGED reset
       [] Tolerates(c, message) /\ message.type = "Reset" ->
            Goes(c, "again", reader[c]) /\ UNCHANGED reset
       [] Tolerates(c, message) /\ message.type = "Request" ->
            /\ Goes(c, "running", Reader(size, message.range))
            /\ UNCHANGED reset
  /\ unexpected' = (unexpected \/ ~Tolerates(c, message))

\* The loop: rates are a call of get_n, a request replaces the one there is.
Handle(c, message) ==
  /\ handler[c] = "running"
  /\ CASE message.type = "Rates" ->
            /\ Goes(c, "running",
                    IF split THEN GetN(reader[c], message.qps) ELSE reader[c])
            /\ UNCHANGED <<reset, unexpected>>
       [] message.type = "Reset" ->
            /\ reset' = [reset EXCEPT ![c] = TRUE]
            /\ UNCHANGED <<handler, reader, unexpected>>
       [] message.type = "Request" ->
            /\ Goes(c, "running", Reader(size, message.range))
            /\ reset' = [reset EXCEPT ![c] = FALSE]
            /\ unexpected' = (unexpected \/ ~reset[c])
       [] message.type = "Finished" ->
            Returns(c) /\ UNCHANGED unexpected
       [] message.type = "Metadata" ->
            unexpected' = TRUE /\ UNCHANGED <<handler, reader, reset>>

Receive(c) ==
  /\ channel[c] # <<>>
  /\ reader[c].data_need = 0
  /\ Prepare(c, Head(channel[c])) \/ Handle(c, Head(channel[c]))
  /\ channel' = [channel EXCEPT ![c] = Tail(@)]
  /\ UNCHANGED <<jobVars, members, primaryVars, alive, bounds, calm, unread>>

\* A round of the loop of get_n.
Read(c) ==
  /\ handler[c] = "running"
  /\ reader[c].data_need > 0
  /\ reader' = [reader EXCEPT ![c] = ReadBlock(@)]
  /\ UNCHANGED <<jobVars, members, primaryVars, channel, alive, handler,
                 reset, bounds, notes>>

\* There is no one left who could send: an error, or None.
Gone(c) ==
  c \notin alive \/ c \notin {senders[s] : s \in DOMAIN senders}

\* The handler gets an error, or None, from its receiver.
Lose(c) ==
  /\ handler[c] # "over"
  /\ channel[c] = <<>>
  /\ reader[c].data_need = 0
  /\ Gone(c)
  /\ Returns(c)
  /\ UNCHANGED <<jobVars, members, primaryVars, channel, alive, bounds, notes>>

\* A handler has returned, and its end of the connection is closed.
Close(c) ==
  /\ handler[c] = "over"
  /\ c \in alive
  /\ alive' = alive \ {c}
  /\ channel' = [channel EXCEPT ![c] = <<>>]
  /\ calm' = 0
  /\ UNCHANGED <<jobVars, members, primaryVars, handler, reset, reader,
                 bounds, unread, unexpected>>

-----------------------------------------------------------------------------
(* What goes wrong.                                                        *)

\* The connection breaks; only a part of what was sent arrives.
Break(c) ==
  /\ faults < MaxFaults
  /\ c \in alive
  /\ \E n \in 0..Len(channel[c]) :
       channel' = [channel EXCEPT ![c] = SubSeq(@, 1, n)]
  /\ alive' = alive \ {c}
  /\ faults' = faults + 1
  /\ calm' = 0
  /\ UNCHANGED <<jobVars, members, primaryVars, handler, reset, reader,
                 seconds, changes, unread, unexpected>>

\* A handler fails: no message in time, the request file cannot be fetched, or
\* the pool is not handed over.
Fail(c) ==
  /\ faults < MaxFaults
  /\ handler[c] # "over"
  /\ reader[c].data_need = 0
  /\ Returns(c)
  /\ faults' = faults + 1
  /\ calm' = 0
  /\ UNCHANGED <<jobVars, members, primaryVars, channel, alive, seconds,
                 changes, unread, unexpected>>

\* A secondary joins or leaves the cluster.
Change(s) ==
  /\ changes < MaxChanges
  /\ members' = IF s \in members THEN members \ {s} ELSE members \cup {s}
  /\ changes' = changes + 1
  /\ calm' = 0
  /\ UNCHANGED <<jobVars, primaryVars, connVars, seconds, faults, unread,
                 unexpected>>

Primary ==
  \/ \E new \in SUBSET members : Connect(new)
  \/ \E readable \in BOOLEAN : Introduce(readable) \/ Announce(readable)
  \/ Count
  \/ SendRates
  \/ End

Handler(c) == Receive(c) \/ Read(c) \/ Lose(c) \/ Close(c)

Next ==
  \/ Primary
  \/ \E c \in DOMAIN handler : Handler(c) \/ Break(c) \/ Fail(c)
  \/ \E s \in Secondary : Change(s)

Spec == Init /\ [][Next]_vars

-----------------------------------------------------------------------------
(* Properties.                                                             *)

\* The handlers of the senders of the primary.
Current == {senders[s] : s \in DOMAIN senders}

\* "split the file equally between secondary nodes"
\* (docs/src/request/split-file.md:3): when nothing has happened for two
\* lookups and all is received, the senders of a job that splits its file have
\* ranges that cover all rows, differ by at most one in length and share no
\* row as long as there are enough (handle_request, reset_request).
RowsCovered ==
  split /\ ~unread /\ calm = 2 /\ pc = "counting" /\ senders # <<>>
    /\ (\A c \in Current : channel[c] = <<>>) =>
      LET rows(c) == Rows(reader[c].range) IN
        /\ UNION {rows(c) : c \in Current} = 1..size
        /\ \A c, d \in Current :
             /\ Cardinality(rows(c)) <= Cardinality(rows(d)) + 1
             /\ c # d /\ Cardinality(Current) <= size =>
                  rows(c) \cap rows(d) = {}

\* As long as the primary can read the file, no handler gets a message it does
\* not expect: metadata, then the request, possibly after a Reset, then rates,
\* and another request only after a Reset (check_for_metadata_msg,
\* check_for_request_msg, handle_connection_from_primary_v2).
InOrder == ~unread => ~unexpected

\* A secondary reads its range in turn, whatever the rates and however often
\* the file is split anew (SplitRequestFile::get_n).
ReadInTurn == \A c \in DOMAIN reader : InTurn(reader[c])

\* Every get_n, which loops until it has the rows it was asked for, returns:
\* each of its queries finds at least one row.
ReadsReturn ==
  \A c \in DOMAIN reader :
    reader[c].data_need > 0 =>
      ReadBlock(reader[c]).data_need < reader[c].data_need

\* Whenever no split is under way, no row is read by two secondaries that the
\* primary sends rates to, also while one has been lost and the file has not
\* been split anew (process_and_send_request).
NoRowTwice ==
  LET reading == {c \in Current \cap alive : handler[c] = "running"} IN
    split /\ Cardinality(DOMAIN senders) <= size
      /\ (\A c \in Current \cap alive :
            \A i \in DOMAIN channel[c] : channel[c][i].type # "Request") =>
        \A c, d \in reading :
          c # d => Rows(reader[c].range) \cap Rows(reader[d].range) = {}
=============================================================================
