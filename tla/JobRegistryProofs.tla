------------------------- MODULE JobRegistryProofs -------------------------
(***************************************************************************)
(* StopBounded and EndedShown of JobRegistry, for any number of tasks and  *)
(* of jobs, any duration, and whatever is submitted again or stopped.      *)
(***************************************************************************)
EXTENDS JobRegistry, TLAPS

Typed ==
  /\ mode \in {"primary", "standalone"}
  /\ job \in [Task -> JobId]
  /\ status \in [JobId -> Status \cup {"none"}]
  /\ pc \in [Task -> Place]
  /\ counter \in [Task -> 0..10]
  /\ late \in [Task -> Nat]

\* The rate messages a task may have sent since it last read the table, when
\* it waits for the next second and its count is n.
SinceCheck(n) ==
  IF mode = "standalone" THEN n + 1
  ELSE IF n = 0 THEN 1 ELSE ((n - 1) % 5) + 1

\* The messages sent since the entry became "Stopped" are some of those since
\* the table was last read, when it was not "Stopped".
Lateness ==
  \A t \in Task :
    /\ mode = "standalone" => counter[t] <= 4
    /\ status[job[t]] # "Stopped" => late[t] = 0
    /\ pc[t] \in {"new", "spawned", "connecting"} =>
         late[t] = 0 /\ counter[t] = 0
    /\ pc[t] = "waiting" => late[t] <= SinceCheck(counter[t])
    /\ pc[t] = "sending" => late[t] < SinceCheck(counter[t])
    /\ late[t] <= 5

\* An entry that shows a job as running was written by a task of that job
\* which has not ended since, or has panicked.
Shown ==
  \A j \in JobId : status[j] \in {"Starting", "InProgress"} =>
    \E t \in Task :
      job[t] = j
        /\ pc[t] \in {"connecting", "waiting", "sending", "ending", "dead"}

IInv == Typed /\ Lateness /\ Shown
-----------------------------------------------------------------------------
(* The proofs.                                                             *)

\* Between two looks into the table there are at most five seconds.
LEMMA Counting ==
  ASSUME mode \in {"primary", "standalone"},
         NEW n \in 0..10, mode = "standalone" => n <= 4
  PROVE  /\ NextCount(n) \in 0..10
         /\ mode = "standalone" => NextCount(n) <= 4
         /\ SinceCheck(n) \in 1..5
         /\ SinceCheck(NextCount(n)) \in 1..5
         /\ ~CheckDue(n) => SinceCheck(n) < SinceCheck(NextCount(n))
<1>1. CASE mode = "standalone"
  BY <1>1 DEF NextCount, SinceCheck, CheckDue
<1>2. CASE mode = "primary"
  <2>1. n \in {0, 1, 2, 3, 4, 5, 6, 7, 8, 9, 10}
    OBVIOUS
  <2> QED BY <1>2, <2>1 DEF NextCount, SinceCheck, CheckDue
<1> QED BY <1>1, <1>2

\* It holds before anything is submitted.
LEMMA Starts == Init => IInv
<1> SUFFICES ASSUME Init PROVE IInv
  OBVIOUS
<1>1. Typed
  BY TaskAssumption, ModeAssumption DEF Init, Typed, Place
<1>2. \A t \in Task : job[t] \in JobId
  BY <1>1 DEF Typed
<1>3. Lateness
  BY <1>2 DEF Init, Lateness
<1>4. Shown
  BY DEF Init, Shown
<1> QED BY <1>1, <1>3, <1>4 DEF IInv

\* A task is spawned.
LEMMA SubmitKeeps ==
  ASSUME IInv, NEW t \in Task, Submit(t)
  PROVE  IInv'
<1>1. Typed'
  BY DEF Submit, fixed, Goto, Place, Status, IInv, Typed
<1>2. Lateness'
  BY Counting DEF Submit, fixed, Goto, IInv, Typed, Lateness, SinceCheck
<1>3. Shown'
  BY DEF Submit, fixed, Goto, IInv, Typed, Shown
<1> QED BY <1>1, <1>2, <1>3 DEF IInv

\* The task enters its job.
LEMMA BeginKeeps ==
  ASSUME IInv, NEW t \in Task, Begin(t)
  PROVE  IInv'
<1>1. Typed'
  BY DEF Begin, fixed, Goto, Place, Status, Insert, Rewritten, IInv, Typed
<1>2. Lateness'
  BY Counting DEF Begin, fixed, Goto, Insert, Rewritten, IInv, Typed, Lateness, SinceCheck
<1>3. Shown'
  BY DEF Begin, fixed, Goto, Insert, Rewritten, IInv, Typed, Shown
<1> QED BY <1>1, <1>2, <1>3 DEF IInv

\* The task has connected, and overwrites the entry.
LEMMA ConnectedKeeps ==
  ASSUME IInv, NEW t \in Task, Connected(t)
  PROVE  IInv'
<1>1. Typed'
  BY DEF Connected, fixed, Goto, Place, Status, Insert, Rewritten, IInv, Typed
<1>2. Lateness'
  BY Counting DEF Connected, fixed, Goto, Insert, Rewritten, IInv, Typed,
       Lateness, SinceCheck
<1>3. Shown'
  BY DEF Connected, fixed, Goto, Insert, Rewritten, IInv, Typed, Shown
<1> QED BY <1>1, <1>2, <1>3 DEF IInv

\* The task panics while it connects.
LEMMA PanicKeeps ==
  ASSUME IInv, NEW t \in Task, Panic(t)
  PROVE  IInv'
<1>1. Typed'
  BY DEF Panic, fixed, Goto, Place, IInv, Typed
<1>2. Lateness'
  BY Counting DEF Panic, fixed, Goto, IInv, Typed, Lateness, SinceCheck
<1>3. Shown'
  BY DEF Panic, fixed, Goto, IInv, Typed, Shown
<1> QED BY <1>1, <1>2, <1>3 DEF IInv

\* The rates of a second are sent.
LEMMA SendRatesKeeps ==
  ASSUME IInv, NEW t \in Task, SendRates(t)
  PROVE  IInv'
<1>1. Typed'
  BY DEF SendRates, fixed, Goto, Place, IInv, Typed
<1>2. Lateness'
  BY Counting DEF SendRates, fixed, Goto, IInv, Typed, Lateness, SinceCheck
<1>3. Shown'
  BY DEF SendRates, fixed, Goto, IInv, Typed, Shown
<1> QED BY <1>1, <1>2, <1>3 DEF IInv

\* There are no more rates.
LEMMA StreamEndsKeeps ==
  ASSUME IInv, NEW t \in Task, StreamEnds(t)
  PROVE  IInv'
<1>1. Typed'
  BY DEF StreamEnds, fixed, Goto, Place, IInv, Typed
<1>2. Lateness'
  BY Counting DEF StreamEnds, fixed, Goto, IInv, Typed, Lateness, SinceCheck
<1>3. Shown'
  BY DEF StreamEnds, fixed, Goto, IInv, Typed, Shown
<1> QED BY <1>1, <1>2, <1>3 DEF IInv

\* The task enters that its job is completed.
LEMMA EndKeeps ==
  ASSUME IInv, NEW t \in Task, End(t)
  PROVE  IInv'
<1>1. Typed'
  BY DEF End, fixed, Goto, Place, Status, Insert, Rewritten, IInv, Typed
<1>2. Lateness'
  BY Counting DEF End, fixed, Goto, Insert, Rewritten, IInv, Typed, Lateness, SinceCheck
<1>3. Shown'
  BY DEF End, fixed, Goto, Insert, Rewritten, IInv, Typed, Shown
<1> QED BY <1>1, <1>2, <1>3 DEF IInv

\* Entries are marked as stopped; late starts from where it was.
LEMMA StopKeeps ==
  ASSUME IInv, NEW ids \in StopTarget, Stop(ids)
  PROVE  IInv'
<1>1. Typed'
  BY DEF Stop, fixed, Status, IInv, Typed
<1>2. Lateness'
  BY Counting DEF Stop, fixed, IInv, Typed, Lateness, SinceCheck
<1>3. Shown'
  BY DEF Stop, fixed, IInv, Typed, Shown
<1> QED BY <1>1, <1>2, <1>3 DEF IInv

\* The cleanup collects ids.
LEMMA CleanupReadKeeps ==
  ASSUME IInv, CleanupRead
  PROVE  IInv'
<1>1. Typed'
  BY DEF CleanupRead, fixed, IInv, Typed
<1>2. Lateness'
  BY Counting DEF CleanupRead, fixed, IInv, Typed, Lateness, SinceCheck
<1>3. Shown'
  BY DEF CleanupRead, fixed, IInv, Typed, Shown
<1> QED BY <1>1, <1>2, <1>3 DEF IInv

\* The cleanup removes entries, which are not stopped then.
LEMMA CleanupRemoveKeeps ==
  ASSUME IInv, CleanupRemove
  PROVE  IInv'
<1>1. Typed'
  BY DEF CleanupRemove, fixed, Rewritten, Status, IInv, Typed
<1>2. Lateness'
  BY Counting DEF CleanupRemove, fixed, Rewritten, IInv, Typed, Lateness, SinceCheck
<1>3. Shown'
  BY DEF CleanupRemove, fixed, Rewritten, IInv, Typed, Shown
<1> QED BY <1>1, <1>2, <1>3 DEF IInv

\* The task reads the table, if it is time to; it does not go on sending when
\* it is and its entry is "Stopped".
LEMMA SecondKeeps ==
  ASSUME IInv, NEW t \in Task, Second(t)
  PROVE  IInv'
<1>0. /\ mode \in {"primary", "standalone"} /\ counter[t] \in 0..10
      /\ mode = "standalone" => counter[t] <= 4
  BY DEF IInv, Typed, Lateness
<1>1. /\ NextCount(counter[t]) \in 0..10
      /\ mode = "standalone" => NextCount(counter[t]) <= 4
      /\ SinceCheck(counter[t]) \in 1..5
      /\ SinceCheck(NextCount(counter[t])) \in 1..5
      /\ ~CheckDue(counter[t]) =>
           SinceCheck(counter[t]) < SinceCheck(NextCount(counter[t]))
  BY <1>0, Counting
<1>2. Typed'
  BY <1>1 DEF Second, fixed, Goto, Place, IInv, Typed
<1>3. Lateness'
  <2>1. CASE CheckDue(counter[t]) /\ status[job[t]] = "Stopped"
    BY <2>1 DEF Second, fixed, Goto, IInv, Typed, Lateness, SinceCheck
  <2>2. CASE ~(CheckDue(counter[t]) /\ status[job[t]] = "Stopped")
    <3>1. late[t] < SinceCheck(NextCount(counter[t]))
      BY <1>1, <2>2 DEF Second, IInv, Typed, Lateness
    <3> QED BY <1>1, <2>2, <3>1
          DEF Second, fixed, Goto, IInv, Typed, Lateness, SinceCheck
  <2> QED BY <2>1, <2>2
<1>4. Shown'
  BY DEF Second, fixed, Goto, IInv, Typed, Shown
<1> QED BY <1>2, <1>3, <1>4 DEF IInv

-----------------------------------------------------------------------------
(* The theorems.                                                           *)

\* IInv is an invariant.
LEMMA Invariance == Spec => []IInv
<1>1. ASSUME IInv, [Next]_vars PROVE IInv'
  <2>1. ASSUME NEW t \in Task, Submit(t) \/ TaskStep(t) PROVE IInv'
    BY <1>1, <2>1, SubmitKeeps, BeginKeeps, ConnectedKeeps, PanicKeeps,
       SecondKeeps, SendRatesKeeps, StreamEndsKeeps, EndKeeps DEF TaskStep
  <2>2. ASSUME NEW ids \in StopTarget, Stop(ids) PROVE IInv'
    BY <1>1, <2>2, StopKeeps
  <2>3. CASE UNCHANGED vars
    BY <1>1, <2>3 DEF vars, IInv, Typed, Lateness, SinceCheck, Shown
  <2> QED BY <1>1, <2>1, <2>2, <2>3, CleanupReadKeeps, CleanupRemoveKeeps
        DEF Next
<1> QED BY <1>1, Starts, PTL DEF Spec

\* "check for stop every 5 seconds" (primary.rs:48, standalone.rs:55): for any
\* jobs and whatever is stopped and removed, a job whose entry stays "Stopped"
\* sends the rates of at most five more seconds.
THEOREM StopBoundedAlways == Spec => []StopBounded
<1>1. IInv => StopBounded
  BY DEF IInv, Lateness, StopBounded
<1> QED BY <1>1, Invariance, PTL

\* A job all of whose tasks have ended is not shown as running, although
\* several tasks, stops and the cleanup write its entry.
THEOREM EndedShownAlways == Spec => []EndedShown
<1>1. IInv => EndedShown
  BY DEF IInv, Shown, EndedShown
<1> QED BY <1>1, Invariance, PTL
=============================================================================
