---------------------------- MODULE JobRegistry ----------------------------
(***************************************************************************)
(* JOB_STATUS, the table of jobs of the primary (or of a standalone node), *)
(* and everybody who writes it: the task of each submitted job             *)
(* (cluster-executor/src/primary.rs or standalone.rs, handle_request), the *)
(* stop request of the API (stop_request_by_job_id) and the periodic       *)
(* cleanup (cleanup_job).  All of them run concurrently; each access takes *)
(* the table's lock, and the awaits between two accesses let others in.    *)
(*                                                                         *)
(* A task that is stopped goes by what it reads in the table, so whatever  *)
(* overwrites or removes its entry also decides whether it stops.          *)
(***************************************************************************)
EXTENDS Naturals, FiniteSets

CONSTANTS
  Task,        \* the tasks of submitted jobs
  JobId,       \* the keys of JOB_STATUS
  Jobs,        \* the ways the tasks get their ids; one that is submitted again
               \* has several tasks
  StopTarget,  \* for each stop request, the ids that start with its job_id
  Modes,       \* the kinds of node: "primary" or "standalone"
  Duration,    \* rate messages a job sends unless stopped (a bound)
  MayPanic,    \* TRUE iff connecting to the executors may fail
  Overlap,     \* TRUE iff an id may be submitted again while its job runs
  FollowStops  \* TRUE iff told and sentSince are kept

ASSUME TaskAssumption == IsFiniteSet(Task) /\ Jobs \subseteq [Task -> JobId]
ASSUME TargetAssumption == StopTarget \subseteq SUBSET JobId
ASSUME DurationAssumption == Duration \in Nat
ASSUME ModeAssumption == Modes \subseteq {"primary", "standalone"}
ASSUME OptionAssumption == {MayPanic, Overlap, FollowStops} \subseteq BOOLEAN

VARIABLES
  mode,       \* whose handle_request runs: primary.rs or standalone.rs
  job,        \* the job id of each task
  status,     \* JOB_STATUS; "none" for a key that is absent
  pc,         \* where each task is
  counter,    \* the task's count of seconds
  remaining,  \* what is left of the task's stream of rates
  cleaning,   \* the ids cleanup_job collected
  cleaner,    \* where cleanup_job is
  \* bookkeeping of the model
  told,       \* tasks running when a stop was answered "Job stopped"
  late,       \* rate messages since the task's entry became "Stopped"
  sentSince   \* rate messages since the task was told to stop, up to 6

fixed == <<mode, job>>
vars == <<mode, job, status, pc, counter, remaining, cleaning, cleaner, told,
          late, sentSince>>

\* JobStatus, without the errors that only answers carry.
Status == {"Starting", "InProgress", "Stopped", "Completed", "Failed"}

\* Where a task can be: not submitted; spawned and not yet in the table;
\* connecting to the executors; waiting for the next second; about to send
\* the rates of this second; about to send the end message; ended; panicked.
Place == {"new", "spawned", "connecting", "waiting", "sending", "ending",
          "ended", "dead"}

Running(t) == pc[t] \in {"connecting", "waiting", "sending"}

Init ==
  /\ mode \in Modes
  /\ job \in Jobs
  /\ status = [j \in JobId |-> "none"]
  /\ pc = [t \in Task |-> "new"]
  /\ counter = [t \in Task |-> 0]
  /\ remaining = [t \in Task |-> Duration]
  /\ cleaning = {}
  /\ cleaner = "asleep"
  /\ told = {}
  /\ late = [t \in Task |-> 0]
  /\ sentSince = [t \in Task |-> 0]

Goto(t, place) == pc' = [pc EXCEPT ![t] = place]

\* The entries of ids are written, and no longer "Stopped".
Rewritten(ids) ==
  late' = [t \in Task |-> IF job[t] \in ids THEN 0 ELSE late[t]]

\* JOB_STATUS.write().await.insert(job_id, s)
Insert(t, s) ==
  /\ status' = [status EXCEPT ![job[t]] = s]
  /\ Rewritten({job[t]})

-----------------------------------------------------------------------------
\* handle_request of the API: the task is spawned, the client gets "Starting".
\* A name that ends in a UUID is used as the id as it is, so that a client may
\* submit an id again, even one that is in the table.
Submit(t) ==
  /\ pc[t] = "new"
  /\ \A u \in Task : job[u] = job[t] => Overlap \/ pc[u] \in {"new", "ended"}
  /\ Goto(t, "spawned")
  /\ UNCHANGED <<fixed, status, counter, remaining, cleaning, cleaner, told,
                 late, sentSince>>

Begin(t) ==
  /\ pc[t] = "spawned"
  /\ Insert(t, "Starting")
  /\ Goto(t, "connecting")
  /\ UNCHANGED <<fixed, counter, remaining, cleaning, cleaner, told,
                 sentSince>>

\* The senders are there and the request has been sent.
Connected(t) ==
  /\ pc[t] = "connecting"
  /\ Insert(t, "InProgress")
  /\ Goto(t, "waiting")
  /\ UNCHANGED <<fixed, counter, remaining, cleaning, cleaner, told,
                 sentSince>>

\* The standalone task unwraps the connection to its executor; the primary
\* divides by the number of senders when it splits a request file.
Panic(t) ==
  /\ MayPanic
  /\ pc[t] = "connecting"
  /\ Goto(t, "dead")
  /\ UNCHANGED <<fixed, status, counter, remaining, cleaning, cleaner, told,
                 late, sentSince>>

\* A mutant: the table is read every ten seconds.
MutCheckDue(n) == IF mode = "primary" THEN n = 10 ELSE n + 1 = 10

\* "check for stop every 5 seconds"
CheckDue(n) == IF mode = "primary" THEN n % 5 = 0 ELSE (n + 1) % 5 = 0

\* The primary starts again after it has updated the secondaries, when the
\* count is 10; the standalone task after each check.
NextCount(n) ==
  IF mode = "primary"
  THEN IF n = 10 THEN 0 ELSE n + 1
  ELSE IF CheckDue(n) THEN 0 ELSE n + 1

\* The next second of the stream: read the table if it is time to.
Second(t) ==
  /\ pc[t] = "waiting"
  /\ remaining[t] > 0
  /\ remaining' = [remaining EXCEPT ![t] = @ - 1]
  /\ IF CheckDue(counter[t]) /\ status[job[t]] = "Stopped"
     THEN /\ Goto(t, "ending")
          /\ UNCHANGED counter
     ELSE /\ Goto(t, "sending")
          /\ counter' = [counter EXCEPT ![t] = NextCount(@)]
  /\ UNCHANGED <<fixed, status, cleaning, cleaner, told, late, sentSince>>

\* The rate messages of this second.
SendRates(t) ==
  /\ pc[t] = "sending"
  /\ late' = [late EXCEPT
                ![t] = IF status[job[t]] = "Stopped" THEN @ + 1 ELSE @]
  /\ sentSince' = [sentSince EXCEPT
                     ![t] = IF t \in told /\ @ < 6 THEN @ + 1 ELSE @]
  /\ Goto(t, "waiting")
  /\ UNCHANGED <<fixed, status, counter, remaining, cleaning, cleaner, told>>

\* A mutant: a task waits for its entry to be there when it ends.
MutStreamEnds(t) ==
  /\ pc[t] = "waiting"
  /\ remaining[t] = 0
  /\ status[job[t]] # "none"
  /\ Goto(t, "ending")
  /\ UNCHANGED <<fixed, status, counter, remaining, cleaning, cleaner, told,
                 late, sentSince>>

\* The stream is exhausted.
StreamEnds(t) ==
  /\ pc[t] = "waiting"
  /\ remaining[t] = 0
  /\ Goto(t, "ending")
  /\ UNCHANGED <<fixed, status, counter, remaining, cleaning, cleaner, told,
                 late, sentSince>>

\* A mutant: a job that ends by itself leaves its entry as it is.
MutEnd(t) ==
  /\ pc[t] = "ending"
  /\ IF remaining[t] = 0 THEN UNCHANGED <<status, late>>
                         ELSE Insert(t, "Completed")
  /\ Goto(t, "ended")
  /\ UNCHANGED <<fixed, counter, remaining, cleaning, cleaner, told,
                 sentSince>>

\* The end messages are sent, then the entry is written.
End(t) ==
  /\ pc[t] = "ending"
  /\ Insert(t, "Completed")
  /\ Goto(t, "ended")
  /\ UNCHANGED <<fixed, counter, remaining, cleaning, cleaner, told,
                 sentSince>>

-----------------------------------------------------------------------------
\* A stop of a job with this status is answered "Job stopped".
AnsweredStopped(s) == s \in {"Starting", "InProgress"}

\* stop_request_by_job_id: every entry whose key starts with the id becomes
\* "Stopped"; the answer depends on what it was.
Stop(ids) ==
  LET hit == {j \in ids : status[j] # "none"}
      stopped == {j \in hit : AnsweredStopped(status[j])}
  IN  /\ status' = [j \in JobId |-> IF j \in hit THEN "Stopped" ELSE status[j]]
      /\ told' = told \cup {t \in Task : /\ FollowStops
                                       /\ Running(t)
                                       /\ job[t] \in stopped}
      /\ UNCHANGED <<fixed, pc, counter, remaining, cleaning, cleaner, late,
                     sentSince>>

\* A mutant: stopped jobs are not removed.
MutRemovable(s) == s = "Completed"

\* The predicate of the cleanup task (overload/src/overload/lib.rs, init).
Removable(s) == s \in {"Failed", "Stopped", "Completed"}

\* cleanup_job collects ids under the read lock and releases it ...
CleanupRead ==
  /\ cleaner = "asleep"
  /\ cleaning' = {j \in JobId : Removable(status[j])}
  /\ cleaner' = "collected"
  /\ UNCHANGED <<fixed, status, pc, counter, remaining, told, late, sentSince>>

\* ... and removes them under the write lock, whatever they are by now.
CleanupRemove ==
  /\ cleaner = "collected"
  /\ status' = [j \in JobId |-> IF j \in cleaning THEN "none" ELSE status[j]]
  /\ cleaning' = {}
  /\ cleaner' = "asleep"
  /\ Rewritten(cleaning)
  /\ UNCHANGED <<fixed, pc, counter, remaining, told, sentSince>>

-----------------------------------------------------------------------------
TaskStep(t) ==
  \/ Begin(t) \/ Connected(t) \/ Panic(t) \/ Second(t) \/ SendRates(t)
  \/ StreamEnds(t) \/ End(t)

Next ==
  \/ \E t \in Task : Submit(t) \/ TaskStep(t)
  \/ \E ids \in StopTarget : Stop(ids)
  \/ CleanupRead
  \/ CleanupRemove

Spec == Init /\ [][Next]_vars

\* The runtime polls every task: the steps of a submitted job and the steps of
\* the cleanup are never put off for ever.  Nobody has to submit or to stop.
FairSpec ==
  /\ Spec
  /\ \A t \in Task : WF_vars(TaskStep(t))
  /\ WF_vars(CleanupRead)
  /\ WF_vars(CleanupRemove)

-----------------------------------------------------------------------------
\* A job whose entry stays "Stopped" sends at most the rates of five more
\* seconds: "check for stop every 5 seconds" (primary.rs:48, standalone.rs:55).
StopBounded == \A t \in Task : late[t] <= 5

\* Once every task of an id has ended, the table does not show it as running:
\* it is "Completed", "Stopped" by a stop that came late, or removed.
EndedShown ==
  \A j \in JobId :
    /\ \E t \in Task : job[t] = j
    /\ \A t \in Task : job[t] = j => pc[t] = "ended"
    => status[j] \notin {"Starting", "InProgress"}

\* Every submitted job comes to its end, stopped or not.
JobsEnd == \A t \in Task : pc[t] = "spawned" ~> pc[t] \in {"ended", "dead"}

\* The entries of ended jobs do not pile up: an id whose tasks have all ended
\* and which nobody submits again is eventually gone for good.
EntriesRemoved ==
  \A j \in JobId :
    (<>[](\A t \in Task : job[t] = j => pc[t] \in {"new", "ended"}))
      => <>[](status[j] = "none")

-----------------------------------------------------------------------------
\* "Stop a test by id" (docs/src/api/stop-test.md:2) and the answer "Job
\* stopped": a job that was told to stop sends the rates of no more than five
\* seconds, the interval at which it reads the table.
StopHonoured == \A t \in told : sentSince[t] <= 5
=============================================================================
