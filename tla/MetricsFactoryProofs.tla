------------------------ MODULE MetricsFactoryProofs ------------------------
(***************************************************************************)
(* The three properties of MetricsFactory, for any number of handlers.     *)
(*                                                                         *)
(* They rest on the two orders: the collector that is registered first is  *)
(* the last but one to be unregistered, and the one that is registered     *)
(* last is also unregistered last.  A handler that meets the collectors of *)
(* a removal under way therefore panics, or finds just the last collector  *)
(* left and cannot finish before the removal does.                         *)
(***************************************************************************)
EXTENDS MetricsFactory, TLAPS

N == 11

\* What the proofs use of the orders in which metrics_with_buckets registers
\* and remove_metrics unregisters.
LEMMA Orders ==
  /\ Len(RegisterOrder) = N
  /\ Len(UnregisterOrder) = N
  /\ \A i \in 1..N : RegisterOrder[i] \in Collector
  /\ \A i \in 1..N : UnregisterOrder[i] \in Collector
  /\ \A c \in Collector : \E i \in 1..N : RegisterOrder[i] = c
  /\ \A c \in Collector : \E i \in 1..N : UnregisterOrder[i] = c
  /\ \A i, j \in 1..N : RegisterOrder[i] = RegisterOrder[j] => i = j
  /\ \A i, j \in 1..N : UnregisterOrder[i] = UnregisterOrder[j] => i = j
  /\ RegisterOrder[1] = UnregisterOrder[N - 1]
  /\ RegisterOrder[N] = UnregisterOrder[N]
<1>1. Len(RegisterOrder) = N /\ Len(UnregisterOrder) = N
  BY DEF RegisterOrder, UnregisterOrder, N
<1>2. \A i \in 1..N : RegisterOrder[i] \in Collector
  BY <1>1 DEF Collector
<1>3. \A i \in 1..N : i \in {1, 2, 3, 4, 5, 6, 7, 8, 9, 10, 11}
  BY DEF N
<1>4. Collector = {"response_time", "status_count", "request_count", "attempt",
                   "success", "broken", "dropped", "idle", "busy", "size",
                   "assertion_failure"}
  BY DEF Collector, RegisterOrder
<1>5. \A i \in 1..N : UnregisterOrder[i] \in Collector
  BY <1>3, <1>4 DEF UnregisterOrder
<1>6. \A c \in Collector : \E i \in 1..N : RegisterOrder[i] = c
  BY <1>1 DEF Collector
<1>7. \A c \in Collector : \E i \in 1..N : UnregisterOrder[i] = c
  <2>1. /\ \A i \in {1, 2, 3, 4, 5, 6, 7, 8, 9, 10, 11} : i \in 1..N
        /\ UnregisterOrder[1] = "size" /\ UnregisterOrder[2] = "idle"
        /\ UnregisterOrder[3] = "request_count" /\ UnregisterOrder[4] = "busy"
        /\ UnregisterOrder[5] = "dropped" /\ UnregisterOrder[6] = "broken"
        /\ UnregisterOrder[7] = "success" /\ UnregisterOrder[8] = "attempt"
        /\ UnregisterOrder[9] = "status_count"
        /\ UnregisterOrder[10] = "response_time"
        /\ UnregisterOrder[11] = "assertion_failure"
    BY DEF UnregisterOrder, N
  <2> QED BY <2>1, <1>4
<1>8. \A i, j \in 1..N : RegisterOrder[i] = RegisterOrder[j] => i = j
  BY <1>3 DEF RegisterOrder
<1>9. \A i, j \in 1..N : UnregisterOrder[i] = UnregisterOrder[j] => i = j
  BY <1>3 DEF UnregisterOrder
<1>10. /\ RegisterOrder[1] = UnregisterOrder[N - 1]
       /\ RegisterOrder[N] = UnregisterOrder[N]
  BY DEF RegisterOrder, UnregisterOrder, N
<1> QED BY <1>1, <1>2, <1>5, <1>6, <1>7, <1>8, <1>9, <1>10

-----------------------------------------------------------------------------
(* The inductive invariant.                                                *)

Place == {"new", "absent", "creating", "panicked", "using", "gone", "removing"}

Typed ==
  /\ metrics \in Handler \cup {None}
  /\ registry \in [Collector -> Handler \cup {None}]
  /\ writer \in Handler \cup {None}
  /\ pc \in [Handler -> Place]
  /\ done \in [Handler -> 0..N]
  /\ uses \in [Handler -> Handler \cup {None}]
  /\ removed \in BOOLEAN

\* Only the handler with the write lock creates, and then the map is empty.
Creation ==
  \A h \in Handler : pc[h] = "creating" =>
    /\ writer = h /\ metrics = None
    /\ \A i \in 1..N : i <= done[h] => registry[RegisterOrder[i]] = h

\* What a removal has yet to unregister is still registered, and the map stays
\* empty until the removal is over.
Removal ==
  \A h \in Handler : pc[h] = "removing" =>
    /\ removed /\ metrics = None /\ done[h] < N
    /\ \A i \in 1..N : i > done[h] => registry[UnregisterOrder[i]] # None

\* Nobody registers before a removal is at its last collector, or registers
\* that one before the removal is over; removals do not overlap.
Overlap ==
  \A h, k \in Handler : pc[k] = "removing" =>
    /\ pc[h] = "creating" /\ done[h] > 0 => done[k] = N - 1 /\ done[h] < N
    /\ pc[h] = "removing" => h = k

\* Whatever is registered is in the map, or somebody is at work on it, or has
\* left it in a panic.
Owed ==
  \A c \in Collector : registry[c] # None =>
    \/ metrics # None
    \/ \E h \in Handler : \E i \in 1..N :
         pc[h] = "creating" /\ i <= done[h] /\ c = RegisterOrder[i]
    \/ \E h \in Handler : \E i \in 1..N :
         pc[h] = "removing" /\ i > done[h] /\ c = UnregisterOrder[i]
    \/ \E h \in Handler : pc[h] = "panicked"

\* A handler starts from zero, and using means that there were metrics.
Started ==
  \A h \in Handler :
    /\ pc[h] \in {"new", "absent"} => done[h] = 0
    /\ writer = h => pc[h] = "creating"
    /\ pc[h] = "using" => uses[h] # None

IInv == /\ Typed /\ Creation /\ Removal /\ Overlap /\ Owed /\ Started
        /\ EntryRegistered /\ SharedMetrics
-----------------------------------------------------------------------------
(* The proofs.                                                             *)

\* It holds before any handler has started.
LEMMA Starts == Init => IInv
<1> SUFFICES ASSUME Init PROVE IInv
  OBVIOUS
<1> N \in Nat /\ 0 \in 0..N
  BY DEF N
<1> QED BY NoneAssumption DEF Init, IInv, Typed, Place, Creation, Removal,
    Overlap, Owed, Started, EntryRegistered, SharedMetrics

\* metrics_with_buckets: the look under the read lock.
LEMMA ReadKeeps ==
  ASSUME IInv, NEW h \in Handler, Read(h)
  PROVE  IInv'
<1> N = 11
  BY DEF N
<1>0. Typed
  BY DEF IInv
<1>1. Typed'
  BY <1>0 DEF Read, Goto, Got, Typed, Place
<1>2. Creation'
  BY DEF Read, Goto, Got, IInv, Typed, Creation
<1>3. Removal'
  BY DEF Read, Goto, Got, IInv, Typed, Removal
<1>4. Overlap'
  BY DEF Read, Goto, Got, IInv, Typed, Overlap
<1>5. Owed'
  BY DEF Read, Goto, IInv, Typed, Place, Owed
<1>6. Started'
  BY DEF Read, Goto, Got, IInv, Typed, Started
<1>7. EntryRegistered'
  BY DEF Read, IInv, EntryRegistered
<1>8. SharedMetrics'
  BY DEF Read, Goto, Got, IInv, Typed, SharedMetrics
<1> QED BY <1>1, <1>2, <1>3, <1>4, <1>5, <1>6, <1>7, <1>8 DEF IInv

\* metrics_with_buckets: the look under the write lock.
LEMMA WriteKeeps ==
  ASSUME IInv, NEW h \in Handler, Write(h)
  PROVE  IInv'
<1> N = 11
  BY DEF N
<1>0. Typed
  BY DEF IInv
<1>1. Typed'
  BY <1>0 DEF Write, Goto, Got, Typed, Place
<1>2. Creation'
  BY NoneAssumption DEF Write, Goto, Got, IInv, Typed, Creation, Started,
       EntryRegistered, SharedMetrics
<1>3. Removal'
  BY DEF Write, Goto, Got, IInv, Typed, Removal
<1>4. Overlap'
  BY DEF Write, Goto, Got, IInv, Typed, Overlap, Started
<1>5. Owed'
  BY DEF Write, Goto, IInv, Typed, Owed
<1>6. Started'
  BY DEF Write, Goto, Got, IInv, Typed, Started
<1>7. EntryRegistered'
  BY DEF Write, IInv, EntryRegistered
<1>8. SharedMetrics'
  BY DEF Write, Goto, Got, IInv, Typed, SharedMetrics
<1> QED BY <1>1, <1>2, <1>3, <1>4, <1>5, <1>6, <1>7, <1>8 DEF IInv

\* metrics_with_buckets: one collector is registered, or the handler panics.
LEMMA RegisterKeeps ==
  ASSUME IInv, NEW h \in Handler, Register(h)
  PROVE  IInv'
<1> N = 11
  BY DEF N
<1>0. Typed
  BY DEF IInv
<1>1. Typed'
  BY <1>0, NoneAssumption, Orders DEF Register, Goto, Got, IInv, Typed, Place,
       Creation, Removal, Overlap, Owed, Started, EntryRegistered,
       SharedMetrics
<1>2. Creation'
  BY Orders DEF Register, Goto, IInv, Typed, Creation
<1>3. Removal'
  BY Orders DEF Register, Goto, IInv, Typed, Removal
<1>4. Overlap'
  BY Orders DEF Register, Goto, IInv, Typed, Removal, Overlap
<1>5. Owed'
  BY Orders DEF Register, Goto, IInv, Typed, Place, Owed
<1>6. Started'
  BY NoneAssumption DEF Register, Goto, IInv, Typed, Started
<1>7. EntryRegistered'
  BY DEF Register, IInv, Typed, EntryRegistered
<1>8. SharedMetrics'
  BY Orders DEF Register, IInv, Typed, Creation, Removal, Owed,
       EntryRegistered, SharedMetrics
<1> QED BY <1>1, <1>2, <1>3, <1>4, <1>5, <1>6, <1>7, <1>8 DEF IInv

\* metrics_with_buckets: the entry of the map.
LEMMA InsertKeeps ==
  ASSUME IInv, NEW h \in Handler, Insert(h)
  PROVE  IInv'
<1> N = 11
  BY DEF N
<1>0. Typed
  BY DEF IInv
<1>1. Typed'
  BY <1>0 DEF Insert, Goto, Got, Typed, Place
<1>2. Creation'
  BY DEF Insert, Goto, Got, IInv, Typed, Creation
<1>3. Removal'
  BY Orders DEF Insert, Goto, Got, IInv, Removal, Overlap
<1>4. Overlap'
  BY DEF Insert, Goto, Got, IInv, Overlap
<1>5. Owed'
  BY NoneAssumption DEF Insert, Owed
<1>6. Started'
  BY NoneAssumption DEF Insert, Goto, Got, IInv, Typed, Started
<1>7. EntryRegistered'
  BY Orders DEF Insert, IInv, Creation, EntryRegistered
<1>8. SharedMetrics'
  BY DEF Insert, Goto, Got, IInv, Typed, Creation, Started, SharedMetrics
<1> QED BY <1>1, <1>2, <1>3, <1>4, <1>5, <1>6, <1>7, <1>8 DEF IInv

\* A handler that leaves touches nothing.
LEMMA LeaveKeeps ==
  ASSUME IInv, NEW h \in Handler, Leave(h)
  PROVE  IInv'
<1> N = 11
  BY DEF N
<1>0. Typed
  BY DEF IInv
<1>1. Typed'
  BY <1>0 DEF Leave, Goto, Typed, Place
<1>2. Creation'
  BY DEF Leave, Goto, IInv, Creation
<1>3. Removal'
  BY DEF Leave, Goto, IInv, Removal
<1>4. Overlap'
  BY DEF Leave, Goto, IInv, Overlap
<1>5. Owed'
  BY DEF Leave, Goto, IInv, Owed
<1>6. Started'
  BY DEF Leave, Goto, IInv, Started
<1>7. EntryRegistered'
  BY DEF Leave, IInv, EntryRegistered
<1>8. SharedMetrics'
  BY DEF Leave, Goto, IInv, SharedMetrics
<1> QED BY <1>1, <1>2, <1>3, <1>4, <1>5, <1>6, <1>7, <1>8 DEF IInv

\* remove_metrics: the map.
LEMMA RemoveKeeps ==
  ASSUME IInv, NEW h \in Handler, Remove(h)
  PROVE  IInv'
<1> N = 11
  BY DEF N
<1>0. Typed
  BY DEF IInv
<1>1. Typed'
  BY <1>0 DEF Remove, Goto, Typed, Place
<1>2. Creation'
  BY DEF Remove, Goto, IInv, Place, Creation
<1>3. Removal'
  BY Orders DEF Remove, Goto, IInv, Typed, Removal, EntryRegistered
<1>4. Overlap'
  BY DEF Remove, Goto, IInv, Creation, Removal, Overlap
<1>5. Owed'
  BY Orders DEF Remove, Goto, IInv, Typed, Owed, SharedMetrics
<1>6. Started'
  BY DEF Remove, Goto, IInv, Started
<1>7. EntryRegistered'
  BY DEF Remove, EntryRegistered
<1>8. SharedMetrics'
  BY DEF Remove, SharedMetrics
<1> QED BY <1>1, <1>2, <1>3, <1>4, <1>5, <1>6, <1>7, <1>8 DEF IInv

\* remove_metrics: one collector is unregistered.
LEMMA UnregisterKeeps ==
  ASSUME IInv, NEW h \in Handler, Unregister(h)
  PROVE  IInv'
<1> N = 11
  BY DEF N
<1>0. Typed
  BY DEF IInv
<1>1. Typed'
  BY Orders DEF Unregister, Goto, IInv, Typed, Place, Removal,
       EntryRegistered, SharedMetrics
<1>2. Creation'
  BY Orders DEF Unregister, Goto, IInv, Typed, Creation, Removal, Overlap,
       EntryRegistered, SharedMetrics
<1>3. Removal'
  BY Orders DEF Unregister, Goto, IInv, Typed, Creation, Removal, Overlap,
       EntryRegistered, SharedMetrics
<1>4. Overlap'
  BY Orders DEF Unregister, Goto, IInv, Typed, Place, Overlap
<1>5. Owed'
  BY Orders DEF Unregister, Goto, IInv, Typed, Place, Creation, Removal,
       Overlap, Owed, EntryRegistered, SharedMetrics
<1>6. Started'
  BY DEF Unregister, Goto, IInv, Started
<1>7. EntryRegistered'
  BY DEF Unregister, IInv, Removal, EntryRegistered
<1>8. SharedMetrics'
  BY DEF Unregister, Goto, IInv, SharedMetrics
<1> QED BY <1>1, <1>2, <1>3, <1>4, <1>5, <1>6, <1>7, <1>8 DEF IInv

-----------------------------------------------------------------------------
(* The theorems.                                                           *)

\* IInv is an invariant.
LEMMA Invariance == Spec => []IInv
<1>1. ASSUME IInv, [Next]_vars PROVE IInv'
  <2>1. ASSUME NEW h \in Handler, HandlerStep(h) PROVE IInv'
    BY <1>1, <2>1, ReadKeeps, WriteKeeps, RegisterKeeps, InsertKeeps,
         LeaveKeeps, RemoveKeeps, UnregisterKeeps DEF HandlerStep
  <2>2. CASE UNCHANGED vars
    BY <1>1, <2>2 DEF vars, IInv, Typed, Creation, Removal, Overlap, Owed,
         Started, EntryRegistered, SharedMetrics
  <2> QED BY <1>1, <2>1, <2>2 DEF Next
<1> QED BY <1>1, Starts, PTL DEF Spec

\* The collectors of the metrics in the map are the registered ones, however
\* many handlers get, create and remove the metrics of the job, and although
\* remove_metrics unregisters without the lock.
THEOREM EntryRegisteredAlways == Spec => []EntryRegistered
<1>1. IInv => EntryRegistered
  BY DEF IInv
<1> QED BY <1>1, Invariance, PTL

\* Until somebody removes the metrics, every handler that looks them up gets
\* the same ones, and register(...).unwrap() does not panic.
THEOREM SharedMetricsAlways == Spec => []SharedMetrics
<1>1. IInv => SharedMetrics
  BY DEF IInv
<1> QED BY <1>1, Invariance, PTL

\* remove_metrics leaves nothing in the registry, unless a handler panicked
\* while it registered.
THEOREM RemovedInFullAlways == Spec => []RemovedInFull
<1>1. IInv => RemovedInFull
  BY DEF IInv, Owed, RemovedInFull
<1> QED BY <1>1, Invariance, PTL
=============================================================================
