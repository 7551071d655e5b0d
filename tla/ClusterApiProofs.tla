-------------------------- MODULE ClusterApiProofs --------------------------
(***************************************************************************)
(* AnswerNamesJobs and StartedOnce of ClusterApi, for any cluster, any     *)
(* calls, and any number of hops, changes and faults.                      *)
(***************************************************************************)
EXTENDS ClusterApi, SequenceTheorems, TLAPS

Entry == [node : Node, id : Call \X Nat]

Typed ==
  /\ DOMAIN view = Node /\ \A n \in Node : view[n] \in View(n)
  /\ DOMAIN pc = Call
  /\ path \in [Call -> Seq(Entry)]
  /\ DOMAIN answer = Call

Finished(c) == pc[c] \in {"returning", "answered"}

\* A call that has arrived has a handler, and the handlers of a test have the
\* job id the first one chose: it is the name of the forwarded request.
Paths ==
  \A c \in Call :
    /\ pc[c] = "new" <=> path[c] = <<>>
    /\ IsTest(c) => \A k \in DOMAIN path[c] : path[c][k].id = <<c, 1>>

\* Jobs are spawned by a handler that answers, under the id of the test.
Spawned ==
  \A j \in jobs :
    /\ j.call \in Call /\ IsTest(j.call) /\ Finished(j.call)
    /\ j.idx \in Accepted(j.call)
    /\ j.id \in {<<j.call, 1>>, Append(<<j.call, 1>>, j.idx)}

\* A call spawns once.
Once == \A i, j \in jobs : i.call = j.call /\ i.idx = j.idx => i = j

\* The answer on its way back has the id of the test, unless nothing was
\* spawned; and "Starting" means that everything was.
Answers ==
  \A c \in Call :
    /\ IsTest(c) /\ Finished(c) =>
         answer[c].id = <<c, 1>> \/ \A j \in jobs : j.call # c
    /\ answer[c].kind = "Starting" =>
         /\ Finished(c)
         /\ \A i \in All(c) : \E j \in jobs : j.call = c /\ j.idx = i

IInv == Typed /\ Paths /\ Spawned /\ Once /\ Answers
-----------------------------------------------------------------------------
(* Lemmas.                                                                 *)

\* It holds before any call.
LEMMA Starts == Init => IInv
<1> SUFFICES ASSUME Init PROVE IInv
  OBVIOUS
<1>1. Typed
  BY DEF Init, Typed
<1>2. Paths /\ Spawned /\ Once
  BY DEF Init, Paths, Spawned, Once
<1>3. Answers
  BY DEF Init, Answers, Failure, Answer
<1> QED BY <1>1, <1>2, <1>3 DEF IInv

\* The handlers of a call that has arrived, with and without the last.
LEMMA Handlers ==
  ASSUME IInv, NEW c \in Call, pc[c] # "new"
  PROVE  /\ Len(path[c]) \in Nat /\ Len(path[c]) > 0
         /\ path[c] \in Seq(Entry) /\ path[c] # <<>>
         /\ Here(c) \in Node
         /\ Last(path[c]).id \in Call \X Nat
         /\ IsTest(c) => Last(path[c]).id = <<c, 1>>
<1>1. /\ path[c] \in Seq(Entry) /\ path[c] # <<>>
      /\ IsTest(c) => \A k \in DOMAIN path[c] : path[c][k].id = <<c, 1>>
  BY DEF IInv, Typed, Paths
<1>2. /\ Len(path[c]) \in Nat /\ Len(path[c]) > 0
      /\ Len(path[c]) \in DOMAIN path[c]
  BY <1>1
<1>3. path[c][Len(path[c])] \in Entry
  BY <1>1, <1>2
<1> QED BY <1>1, <1>2, <1>3 DEF Last, Here, Entry

\* The first k handlers of a call.
LEMMA Shortened ==
  ASSUME IInv, NEW c \in Call, NEW k \in 1..Len(path[c])
  PROVE  /\ SubSeq(path[c], 1, k) \in Seq(Entry)
         /\ SubSeq(path[c], 1, k) # <<>>
         /\ Last(SubSeq(path[c], 1, k)) = path[c][k]
         /\ IsTest(c) => /\ \A i \in DOMAIN SubSeq(path[c], 1, k) :
                              SubSeq(path[c], 1, k)[i].id = <<c, 1>>
                         /\ path[c][k].id = <<c, 1>>
<1> DEFINE p == SubSeq(path[c], 1, k)
<1>1. /\ path[c] \in Seq(Entry)
      /\ IsTest(c) => \A i \in DOMAIN path[c] : path[c][i].id = <<c, 1>>
  BY DEF IInv, Typed, Paths
<1>2. p \in Seq(Entry) /\ Len(p) = k /\ \A i \in 1..k : p[i] = path[c][i]
  BY <1>1
<1>3. DOMAIN p = 1..k /\ k \in DOMAIN p /\ 1..k \subseteq DOMAIN path[c]
  BY <1>1, <1>2
<1> HIDE DEF p
<1>4. p # <<>>
  BY <1>3
<1>5. Last(p) = path[c][k]
  BY <1>2, <1>3 DEF Last
<1>6. IsTest(c) => /\ \A i \in DOMAIN p : p[i].id = <<c, 1>>
                   /\ path[c][k].id = <<c, 1>>
  BY <1>1, <1>2, <1>3
<1> QED BY <1>2, <1>4, <1>5, <1>6 DEF p

\* A path without its last handler keeps the others, in their places.
LEMMA WithoutLast ==
  ASSUME IInv, NEW c \in Call, pc[c] # "new", Len(path[c]) > 1
  PROVE  /\ Front(path[c]) \in Seq(Entry) /\ Front(path[c]) # <<>>
         /\ IsTest(c) => /\ \A i \in DOMAIN Front(path[c]) :
                              Front(path[c])[i].id = <<c, 1>>
                         /\ Last(Front(path[c])).id = <<c, 1>>
<1> DEFINE k == Len(path[c]) - 1
<1>1. Len(path[c]) \in Nat /\ Len(path[c]) > 0
  BY Handlers
<1>2. k \in 1..Len(path[c])
  BY <1>1
<1>3. /\ SubSeq(path[c], 1, k) \in Seq(Entry)
      /\ SubSeq(path[c], 1, k) # <<>>
      /\ Last(SubSeq(path[c], 1, k)) = path[c][k]
      /\ IsTest(c) => /\ \A i \in DOMAIN SubSeq(path[c], 1, k) :
                           SubSeq(path[c], 1, k)[i].id = <<c, 1>>
                      /\ path[c][k].id = <<c, 1>>
  BY <1>2, Shortened
<1>4. Front(path[c]) = SubSeq(path[c], 1, k)
  BY DEF Front
<1> QED BY <1>3, <1>4

\* Steps that spawn nothing leave what is known of the jobs, as long as calls
\* that have an answer keep one.
LEMMA JobsStay ==
  ASSUME IInv, UNCHANGED <<standalone, request, jobs>>,
         \A d \in Call : Finished(d) => Finished(d)'
  PROVE  Spawned' /\ Once'
<1>1. \A d \in Call : Accepted(d)' = Accepted(d)
  BY DEF Accepted, All, BeforeFirstError, Checked
<1>2. \A d \in Call : IsTest(d)' = IsTest(d)
  BY DEF IsTest
<1>3. Spawned'
  BY <1>1, <1>2 DEF IInv, Spawned
<1>4. Once'
  BY DEF IInv, Once
<1> QED BY <1>3, <1>4

\* A handler goes on, and does not answer yet.
LEMMA MoveKeeps ==
  ASSUME IInv, NEW c \in Call, pc[c] # "new", ~Finished(c),
         NEW place, place \notin {"new", "returning", "answered"},
         Goto(c, place),
         UNCHANGED <<view, standalone, request, path, answer, jobs>>
  PROVE  IInv'
<1>1. Typed' /\ Paths'
  BY DEF Goto, IInv, Typed, Paths, IsTest
<1>2. Spawned' /\ Once'
  <2>1. \A d \in Call : Finished(d) => Finished(d)'
    BY DEF Goto, IInv, Typed, Finished
  <2> QED BY <2>1, JobsStay
<1>3. Answers'
  BY DEF Goto, IInv, Typed, Answers, Finished, IsTest, All
<1> QED BY <1>1, <1>2, <1>3 DEF IInv

\* A handler answers without having spawned anything, maybe in place of the
\* handlers behind it.
LEMMA ReplyKeeps ==
  ASSUME IInv, NEW c \in Call, pc[c] # "new",
         NEW a, a.kind # "Starting",
         IsTest(c) => a.id = <<c, 1>> \/ \A j \in jobs : j.call # c,
         Reply(c, a),
         NEW p \in Seq(Entry), p # <<>>, path' = [path EXCEPT ![c] = p],
         IsTest(c) => \A k \in DOMAIN p : p[k].id = <<c, 1>>,
         UNCHANGED <<view, standalone, request, jobs>>
  PROVE  IInv'
<1>1. Typed' /\ Paths'
  BY DEF Reply, Goto, IInv, Typed, Paths, IsTest
<1>2. Spawned' /\ Once'
  <2>1. \A d \in Call : Finished(d) => Finished(d)'
    BY DEF Reply, Goto, IInv, Typed, Finished
  <2> QED BY <2>1, JobsStay
<1>3. Answers'
  BY DEF Reply, Goto, IInv, Typed, Answers, Finished, IsTest, All
<1> QED BY <1>1, <1>2, <1>3 DEF IInv

\* A handler answers without having spawned anything, and waits for nobody.
LEMMA SamePathKeeps ==
  ASSUME IInv, NEW c \in Call, pc[c] # "new",
         NEW a, a.kind # "Starting",
         IsTest(c) => a.id = <<c, 1>> \/ \A j \in jobs : j.call # c,
         Reply(c, a), UNCHANGED <<view, standalone, request, path, jobs>>
  PROVE  IInv'
<1>1. /\ path[c] \in Seq(Entry) /\ path[c] # <<>>
      /\ path' = [path EXCEPT ![c] = path[c]]
      /\ IsTest(c) => \A k \in DOMAIN path[c] : path[c][k].id = <<c, 1>>
  BY DEF IInv, Typed, Paths
<1> QED BY <1>1, ReplyKeeps

\* A call arrives at a node, under the id of the test.
LEMMA ArriveKeeps ==
  ASSUME IInv, NEW c \in Call, ~Finished(c),
         NEW n \in Node, NEW requested, NEW q, Arrive(c, n, requested, q),
         JobId(c, requested) \in Call \X Nat,
         IsTest(c) => JobId(c, requested) = <<c, 1>>,
         UNCHANGED <<view, standalone, request, jobs>>
  PROVE  IInv'
<1> DEFINE e == [node |-> n, id |-> JobId(c, requested)]
           p == Append(path[c], e)
<1>1. path[c] \in Seq(Entry) /\ e \in Entry
  BY DEF IInv, Typed, Entry
<1>2. /\ p \in Seq(Entry) /\ p # <<>>
      /\ IsTest(c) => \A k \in DOMAIN p : p[k].id = <<c, 1>>
  BY <1>1 DEF IInv, Paths
<1>3. path' = [path EXCEPT ![c] = p]
  BY DEF Arrive
<1>4. CASE Reply(c, Failure) /\ request[c].op = "status"
  <2>1. ~IsTest(c) /\ Failure.kind # "Starting"
    BY <1>4 DEF IsTest, Failure, Answer
  <2>2. Typed' /\ Paths'
    BY <1>2, <1>3, <1>4 DEF Reply, Goto, IInv, Typed, Paths, IsTest
  <2>3. Spawned' /\ Once'
    <3>1. \A d \in Call : Finished(d) => Finished(d)'
      BY <1>4 DEF Reply, Goto, IInv, Typed, Finished
    <3> QED BY <3>1, JobsStay
  <2>4. Answers'
    BY <1>4, <2>1 DEF Reply, Goto, IInv, Typed, Answers, Finished, IsTest, All
  <2> QED BY <2>2, <2>3, <2>4 DEF IInv
<1>5. CASE Goto(c, "received") /\ UNCHANGED answer
  <2>1. Typed' /\ Paths'
    BY <1>2, <1>3, <1>5 DEF Goto, IInv, Typed, Paths, IsTest
  <2>2. Spawned' /\ Once'
    <3>1. \A d \in Call : Finished(d) => Finished(d)'
      BY <1>5 DEF Goto, IInv, Typed, Finished
    <3> QED BY <3>1, JobsStay
  <2>3. Answers'
    BY <1>5 DEF Goto, IInv, Typed, Answers, Finished, IsTest, All
  <2> QED BY <2>1, <2>2, <2>3 DEF IInv
<1> QED BY <1>4, <1>5 DEF Arrive

\* The cluster changes, or a task enters its job: no handler is concerned.
LEMMA AsideKeeps ==
  ASSUME IInv, DOMAIN view' = Node, \A n \in Node : view'[n] \in View(n),
         UNCHANGED <<standalone, request, pc, path, answer, jobs>>
  PROVE  IInv'
<1>1. Typed' /\ Paths'
  BY DEF IInv, Typed, Paths, IsTest
<1>2. Spawned' /\ Once'
  BY JobsStay DEF Finished
<1>3. Answers'
  BY DEF IInv, Answers, Finished, IsTest, All
<1> QED BY <1>1, <1>2, <1>3 DEF IInv

-----------------------------------------------------------------------------
(* The steps.                                                              *)

\* A client calls: the first handler of a test chooses the id <<c, 1>>.
LEMMA SubmitKeeps ==
  ASSUME IInv, NEW c \in Call, NEW n \in Node, Submit(c, n)
  PROVE  IInv'
<1>1. path[c] = <<>> /\ ~Finished(c)
  BY DEF Submit, IInv, Paths, Finished
<1>2. JobId(c, None) = <<c, 1>>
  BY <1>1 DEF JobId
<1>3. PICK q : Arrive(c, n, None, q)
  BY DEF Submit
<1>4. UNCHANGED <<view, standalone, request, jobs>>
  BY DEF Submit, effects
<1> QED BY <1>1, <1>2, <1>3, <1>4, ArriveKeeps

\* A handler whose node is not active answers under its own id.
LEMMA CheckActiveKeeps ==
  ASSUME IInv, NEW c \in Call, CheckActive(c)
  PROVE  IInv'
<1>1. pc[c] # "new" /\ ~Finished(c)
  BY DEF CheckActive, Finished
<1>2. UNCHANGED <<view, standalone, request, path, jobs>>
  BY DEF CheckActive, effects
<1>3. CASE Goto(c, "active") /\ UNCHANGED answer
  BY <1>1, <1>2, <1>3, MoveKeeps
<1>4. ASSUME NEW a, Reply(c, a), a.kind # "Starting",
             IsTest(c) => a.id = Last(path[c]).id
      PROVE  IInv'
  BY <1>1, <1>2, <1>4, SamePathKeeps, Handlers
<1> QED BY <1>3, <1>4 DEF CheckActive, Failure, Answer

\* The handler learns whether its node is the primary.
LEMMA CheckPrimaryKeeps ==
  ASSUME IInv, NEW c \in Call, CheckPrimary(c)
  PROVE  IInv'
<1>1. pc[c] # "new" /\ ~Finished(c)
  BY DEF CheckPrimary, Finished
<1>2. UNCHANGED <<view, standalone, request, path, answer, jobs>>
  BY DEF CheckPrimary, effects
<1>3. PICK place \in {"forwarding", "counting", "serving"} : Goto(c, place)
  BY DEF CheckPrimary
<1> QED BY <1>1, <1>2, <1>3, MoveKeeps

\* The handler learns whether there are secondaries.
LEMMA CountSecondariesKeeps ==
  ASSUME IInv, NEW c \in Call, CountSecondaries(c)
  PROVE  IInv'
<1>1. pc[c] # "new" /\ ~Finished(c)
  BY DEF CountSecondaries, Finished
<1>2. UNCHANGED <<view, standalone, request, path, jobs>>
  BY DEF CountSecondaries, effects
<1>3. CASE Goto(c, "counted") /\ UNCHANGED answer
  BY <1>1, <1>2, <1>3, MoveKeeps
<1>4. ASSUME NEW a, Reply(c, a), a.kind # "Starting",
             IsTest(c) => a.id = Last(path[c]).id
      PROVE  IInv'
  BY <1>1, <1>2, <1>4, SamePathKeeps, Handlers
<1> QED BY <1>3, <1>4 DEF CountSecondaries, Served, Answer

\* A handler that panics is taken for a broken connection by the one before.
LEMMA CountAgainKeeps ==
  ASSUME IInv, NEW c \in Call, CountAgain(c)
  PROVE  IInv'
<1>1. pc[c] # "new" /\ ~Finished(c)
  BY DEF CountAgain, Finished
<1>2. UNCHANGED <<view, standalone, request, jobs>>
  BY DEF CountAgain, effects
<1>3. CASE \E place \in {"reset", "serving"} :
             Goto(c, place) /\ UNCHANGED <<answer, path>>
  BY <1>1, <1>2, <1>3, MoveKeeps
<1>4. ASSUME NEW a, Reply(c, a), a.kind # "Starting",
             IsTest(c) => a.id = Last(path[c]).id, UNCHANGED path
      PROVE  IInv'
  BY <1>1, <1>2, <1>4, SamePathKeeps, Handlers
<1>5. CASE /\ Len(path[c]) # 1
           /\ path' = [path EXCEPT ![c] = Front(@)]
           /\ Reply(c, Answer("Error", Last(Front(path[c])).id, {}))
  <2>1. \A n \in Nat : n > 0 /\ n # 1 => n > 1
    OBVIOUS
  <2>2. Len(path[c]) > 1
    BY <1>1, <1>5, <2>1, Handlers
  <2> QED BY <1>1, <1>2, <1>5, <2>2, WithoutLast, ReplyKeeps DEF Answer
<1> QED BY <1>3, <1>4, <1>5 DEF CountAgain, Served, Answer

\* The jobs of a test are spawned, once, by the handler that answers.
LEMMA ServeTestKeeps ==
  ASSUME IInv, NEW c \in Call, ServeTest(c)
  PROVE  IInv'
<1> DEFINE job(i) ==
             [call |-> c, idx |-> i, node |-> Here(c), hop |-> Len(path[c]),
              id |-> IF request[c].op = "test" THEN Last(path[c]).id
                     ELSE Append(Last(path[c]).id, i)]
           new == {job(i) : i \in Accepted(c)}
           a == Answer(IF Accepted(c) = All(c) THEN "Starting" ELSE "Error",
                       Last(path[c]).id, {})
<1>1. pc[c] # "new" /\ ~Finished(c) /\ IsTest(c)
  BY DEF ServeTest, Ready, Finished
<1>2. jobs' = jobs \cup new
  BY DEF ServeTest, Spawn
<1>3. /\ pc' = [pc EXCEPT ![c] = "returning"]
      /\ answer' = [answer EXCEPT ![c] = a]
      /\ UNCHANGED <<view, standalone, request, path>>
  BY DEF ServeTest, Served, Reply, Goto
<1>4. Last(path[c]).id = <<c, 1>>
  BY <1>1, Handlers
<1>5. \A j \in jobs : j.call # c
  BY <1>1 DEF IInv, Spawned
<1>6. \A j \in new : /\ j.call = c /\ j.idx \in Accepted(c)
                     /\ j.id \in {<<c, 1>>, Append(<<c, 1>>, j.idx)}
                     /\ j = job(j.idx)
  BY <1>4
<1>7. \A i \in Accepted(c) : job(i) \in new /\ job(i).call = c /\ job(i).idx = i
  OBVIOUS
<1> HIDE DEF new, job
<1>8. Typed' /\ Paths'
  BY <1>1, <1>3 DEF IInv, Typed, Paths, IsTest
<1>9. Spawned'
  <2>1. \A d \in Call : Accepted(d)' = Accepted(d)
    BY <1>3 DEF Accepted, All, BeforeFirstError, Checked
  <2>2. \A d \in Call : IsTest(d)' = IsTest(d)
    BY <1>3 DEF IsTest
  <2>3. \A d \in Call : Finished(d) => Finished(d)'
    BY <1>3 DEF Finished, IInv, Typed
  <2>4. Finished(c)'
    BY <1>3 DEF Finished, IInv, Typed
  <2> QED BY <1>1, <1>2, <1>6, <2>1, <2>2, <2>3, <2>4 DEF IInv, Spawned
<1>10. Once'
  BY <1>2, <1>5, <1>6 DEF IInv, Once
<1>11. Answers'
  <2>1. ASSUME NEW d \in Call, d # c
        PROVE  /\ IsTest(d)' /\ Finished(d)' =>
                    answer'[d].id = <<d, 1>> \/ \A j \in jobs' : j.call # d
               /\ answer'[d].kind = "Starting" =>
                    /\ Finished(d)'
                    /\ \A i \in All(d)' : \E j \in jobs' : j.call = d /\ j.idx = i
    BY <1>2, <1>3, <1>6, <2>1
      DEF IInv, Typed, Answers, Finished, IsTest, All
  <2>2. answer'[c] = a /\ Finished(c)' /\ All(c)' = All(c)
    BY <1>3 DEF IInv, Typed, Finished, All
  <2>3. answer'[c].id = <<c, 1>>
    BY <1>4, <2>2 DEF Answer
  <2>4. answer'[c].kind = "Starting" =>
          \A i \in All(c)' : \E j \in jobs' : j.call = c /\ j.idx = i
    BY <1>2, <1>7, <2>2 DEF Answer
  <2> QED BY <2>1, <2>2, <2>3, <2>4 DEF Answers
<1> QED BY <1>8, <1>9, <1>10, <1>11 DEF IInv

\* Stop: the answer names no new job.
LEMMA ServeStopKeeps ==
  ASSUME IInv, NEW c \in Call, ServeStop(c)
  PROVE  IInv'
<1>1. pc[c] # "new" /\ ~Finished(c) /\ ~IsTest(c)
  BY DEF ServeStop, Ready, Finished, IsTest
<1>2. UNCHANGED <<view, standalone, request, path, jobs>>
  BY DEF ServeStop, effects
<1>3. PICK a : Reply(c, a) /\ a.kind # "Starting"
  BY DEF ServeStop, Served, Answer, Failure
<1> QED BY <1>1, <1>2, <1>3, SamePathKeeps

\* Status: the answer names no new job.
LEMMA ServeStatusKeeps ==
  ASSUME IInv, NEW c \in Call, ServeStatus(c)
  PROVE  IInv'
<1>1. pc[c] # "new" /\ ~Finished(c) /\ ~IsTest(c)
  BY DEF ServeStatus, Ready, Finished, IsTest
<1>2. UNCHANGED <<view, standalone, request, path, jobs>>
  BY DEF ServeStatus, effects
<1>3. PICK a : Reply(c, a) /\ a.kind # "Starting"
  BY DEF ServeStatus, Served, Answer, Failure
<1> QED BY <1>1, <1>2, <1>3, SamePathKeeps

\* Upload: the answer names no new job.
LEMMA ServeUploadKeeps ==
  ASSUME IInv, NEW c \in Call, ServeUpload(c)
  PROVE  IInv'
<1>1. pc[c] # "new" /\ ~Finished(c) /\ ~IsTest(c)
  BY DEF ServeUpload, Ready, Finished, IsTest
<1>2. UNCHANGED <<view, standalone, request, path, jobs>>
  BY DEF ServeUpload, effects
<1>3. PICK a : Reply(c, a) /\ a.kind # "Starting"
  BY DEF ServeUpload, Served, Answer, Failure
<1> QED BY <1>1, <1>2, <1>3, SamePathKeeps

\* A handler forwards a test under its own id; one that knows no primary
\* answers, and nothing has been spawned.
LEMMA ForwardKeeps ==
  ASSUME IInv, NEW c \in Call, Forward(c)
  PROVE  IInv'
<1> DEFINE known == view[Here(c)].primaries
<1>1. pc[c] # "new" /\ ~Finished(c)
  BY DEF Forward, Finished
<1>2. UNCHANGED <<view, standalone, request, jobs>>
  BY DEF Forward, effects
<1>3. CASE known = None \/ known = {}
  <2>1. \A j \in jobs : j.call # c
    BY <1>1 DEF IInv, Spawned
  <2>2. PICK a : Reply(c, a) /\ a.kind # "Starting" /\ UNCHANGED path
    BY <1>3 DEF Forward, Failure, Answer
  <2> QED BY <1>1, <1>2, <2>1, <2>2, SamePathKeeps
<1>4. CASE ~(known = None \/ known = {})
  <2>1. known \subseteq Node
    <3>1. Here(c) \in Node
      BY <1>1, Handlers
    <3>2. view[Here(c)] \in View(Here(c))
      BY <3>1 DEF IInv, Typed
    <3> QED BY <1>4, <3>1, <3>2 DEF View, Inactive, Leader, Follower
  <2>2. PICK p \in known : \E q : Arrive(c, p, ForwardedName(c), q)
    BY <1>4 DEF Forward
  <2>3. PICK q : Arrive(c, p, ForwardedName(c), q)
    BY <2>2
  <2>4. CASE IsTest(c)
    <3>1. ForwardedName(c) = <<c, 1>>
      BY <1>1, <2>4, Handlers DEF ForwardedName
    <3>2. JobId(c, ForwardedName(c)) = <<c, 1>>
      BY <3>1, NoneAssumption DEF JobId
    <3> QED BY <1>1, <1>2, <2>1, <2>3, <3>2, ArriveKeeps
  <2>5. CASE ~IsTest(c)
    <3>1. JobId(c, ForwardedName(c)) = <<c, Len(path[c]) + 1>>
      BY <2>5 DEF ForwardedName, JobId
    <3>2. Len(path[c]) + 1 \in Nat
      BY <1>1, Handlers
    <3> QED BY <1>1, <1>2, <2>1, <2>3, <2>5, <3>1, <3>2, ArriveKeeps
  <2> QED BY <2>4, <2>5
<1> QED BY <1>3, <1>4

\* A handler that loses the connection it forwarded on answers under its id,
\* which is that of the jobs spawned behind it.
LEMMA LinkBreaksKeeps ==
  ASSUME IInv, NEW c \in Call, NEW k \in 1..MaxHops, LinkBreaks(c, k)
  PROVE  IInv'
<1>1. pc[c] # "new"
  BY DEF LinkBreaks
<1>2. UNCHANGED <<view, standalone, request, jobs>>
  BY DEF LinkBreaks, effects
<1>3. k \in 1..Len(path[c])
  BY <1>1, Handlers, HopsAssumption DEF LinkBreaks
<1>4. path' = [path EXCEPT ![c] = SubSeq(path[c], 1, k)]
  BY DEF LinkBreaks
<1>5. PICK a : Reply(c, a) /\ a.kind # "Starting"
                 /\ (IsTest(c) => a.id = path[c][k].id)
  BY DEF LinkBreaks, Failure, Answer
<1> QED BY <1>1, <1>2, <1>3, <1>4, <1>5, Shortened, ReplyKeeps

\* An answer goes back one handler, or to the client.
LEMMA ReturnKeeps ==
  ASSUME IInv, NEW c \in Call, Return(c)
  PROVE  IInv'
<1>1. pc[c] # "new" /\ Finished(c)
  BY DEF Return, Finished
<1>2. UNCHANGED <<view, standalone, request, answer, jobs>>
  BY DEF Return, effects
<1>3. Typed' /\ Paths'
  <2>1. CASE Len(path[c]) > 1
    <3>1. /\ Front(path[c]) \in Seq(Entry) /\ Front(path[c]) # <<>>
          /\ IsTest(c) => \A i \in DOMAIN Front(path[c]) :
                            Front(path[c])[i].id = <<c, 1>>
      BY <1>1, <2>1, WithoutLast
    <3>2. path' = [path EXCEPT ![c] = Front(path[c])] /\ UNCHANGED pc
      BY <2>1 DEF Return
    <3> QED BY <1>1, <1>2, <3>1, <3>2 DEF IInv, Typed, Paths, IsTest
  <2>2. CASE ~(Len(path[c]) > 1)
    BY <1>1, <1>2, <2>2 DEF Return, Goto, IInv, Typed, Paths, IsTest
  <2> QED BY <2>1, <2>2
<1>4. \A d \in Call : Finished(d)' = Finished(d)
  <2>1. DOMAIN pc = Call
    BY DEF IInv, Typed
  <2>2. pc' = pc \/ pc' = [pc EXCEPT ![c] = "answered"]
    BY DEF Return, Goto
  <2> QED BY <1>1, <2>1, <2>2 DEF Finished
<1>5. Spawned' /\ Once'
  BY <1>2, <1>4, JobsStay
<1>6. Answers'
  BY <1>2, <1>4 DEF IInv, Answers, IsTest, All
<1> QED BY <1>3, <1>5, <1>6 DEF IInv

\* The view of a node changes: no call does.
LEMMA ChangeKeeps ==
  ASSUME IInv, NEW n \in Node, NEW v \in View(n), Change(n, v)
  PROVE  IInv'
<1>1. DOMAIN view' = Node /\ \A m \in Node : view'[m] \in View(m)
  BY DEF Change, IInv, Typed
<1> QED BY <1>1, AsideKeeps DEF Change, effects

\* A spawned job enters the table: no call changes.
LEMMA BeginKeeps ==
  ASSUME IInv, NEW j \in jobs, Begin(j)
  PROVE  IInv'
<1>1. DOMAIN view' = Node /\ \A m \in Node : view'[m] \in View(m)
  BY DEF Begin, IInv, Typed
<1> QED BY <1>1, AsideKeeps DEF Begin

-----------------------------------------------------------------------------
(* The theorems.                                                           *)

\* IInv is an invariant.
LEMMA Invariance == Spec => []IInv
<1>1. ASSUME IInv, [Next]_vars PROVE IInv'
  <2>1. ASSUME NEW c \in Call, NEW n \in Node, Submit(c, n) PROVE IInv'
    BY <1>1, <2>1, SubmitKeeps
  <2>2. ASSUME NEW c \in Call, Handle(c) PROVE IInv'
    BY <1>1, <2>2, CheckActiveKeeps, CheckPrimaryKeeps, CountSecondariesKeeps,
       CountAgainKeeps, ServeTestKeeps, ServeStopKeeps, ServeStatusKeeps,
       ServeUploadKeeps, ForwardKeeps, ReturnKeeps DEF Handle
  <2>3. ASSUME NEW c \in Call, NEW k \in 1..MaxHops, LinkBreaks(c, k)
        PROVE  IInv'
    BY <1>1, <2>3, LinkBreaksKeeps
  <2>4. ASSUME NEW n \in Node, NEW v \in View(n), Change(n, v) PROVE IInv'
    BY <1>1, <2>4, ChangeKeeps
  <2>5. ASSUME NEW j \in jobs, Begin(j) PROVE IInv'
    BY <1>1, <2>5, BeginKeeps
  <2>6. CASE UNCHANGED vars
    <3>1. DOMAIN view' = Node /\ \A m \in Node : view'[m] \in View(m)
      BY <1>1, <2>6 DEF vars, IInv, Typed
    <3> QED BY <1>1, <2>6, <3>1, AsideKeeps DEF vars
  <2> QED BY <1>1, <2>1, <2>2, <2>3, <2>4, <2>5, <2>6 DEF Next
<1> QED BY <1>1, Starts, PTL DEF Spec

\* An id is a prefix of itself and of the ids made from it.
LEMMA NamesItself ==
  ASSUME NEW c, NEW i
  PROVE  /\ IsPrefix(<<c, 1>>, <<c, 1>>)
         /\ IsPrefix(<<c, 1>>, Append(<<c, 1>>, i))
<1> DEFINE s == <<c, 1>>
           t == Append(s, i)
           S == {c, 1, i}
<1>1. s \in Seq(S) /\ Len(s) = 2 /\ t \in Seq(S) /\ Len(t) = 3
  OBVIOUS
<1>2. \A k \in 1..2 : t[k] = s[k]
  OBVIOUS
<1>3. /\ SubSeq(s, 1, 2) \in Seq(S) /\ SubSeq(t, 1, 2) \in Seq(S)
      /\ Len(SubSeq(s, 1, 2)) = 2 /\ Len(SubSeq(t, 1, 2)) = 2
      /\ \A k \in 1..2 : SubSeq(s, 1, 2)[k] = s[k] /\ SubSeq(t, 1, 2)[k] = t[k]
  BY <1>1
<1> HIDE DEF s, t, S
<1>4. SubSeq(s, 1, 2) = SubSeq(t, 1, 2)
  BY <1>2, <1>3, SeqEqual
<1>5. IsPrefix(s, s) /\ IsPrefix(s, t)
  BY <1>1, <1>4 DEF IsPrefix
<1> QED BY <1>5 DEF s, t

\* Whichever node a test is sent to, and whatever changes or breaks while it
\* is forwarded, the id in the answer is that of all the jobs it started.
THEOREM AnswerNamesJobsAlways == Spec => []AnswerNamesJobs
<1>1. ASSUME IInv PROVE AnswerNamesJobs
  <2> SUFFICES ASSUME NEW c \in Call, pc[c] = "answered",
                      NEW j \in jobs, j.call = c
               PROVE  IsPrefix(answer[c].id, j.id)
    BY DEF AnswerNamesJobs
  <2>1. IsTest(c) /\ Finished(c) /\ j.id \in {<<c, 1>>, Append(<<c, 1>>, j.idx)}
    BY <1>1 DEF IInv, Spawned
  <2>2. answer[c].id = <<c, 1>>
    BY <1>1, <2>1 DEF IInv, Answers
  <2> QED BY <2>1, <2>2, NamesItself
<1> QED BY <1>1, Invariance, PTL

\* A test is started at most once, however often it is forwarded, and in full
\* if the answer is "Starting"; a standalone node starts no request from the
\* first one on that fails its check.
THEOREM StartedOnceAlways == Spec => []StartedOnce
<1>1. ASSUME IInv PROVE StartedOnce
  <2>1. \A i, j \in jobs : i.call = j.call /\ i.idx = j.idx => i = j
    BY <1>1 DEF IInv, Once
  <2>2. ASSUME NEW c \in Call
        PROVE  LET started == {j.idx : j \in {i \in jobs : i.call = c}}
               IN  /\ pc[c] = "answered" /\ answer[c].kind = "Starting" =>
                        started = All(c)
                   /\ IsTest(c) /\ standalone => started \subseteq BeforeFirstError(c)
    <3> DEFINE started == {j.idx : j \in {i \in jobs : i.call = c}}
    <3>1. started \subseteq Accepted(c)
      BY <1>1 DEF IInv, Spawned
    <3>2. Accepted(c) \subseteq All(c)
      BY DEF Accepted, BeforeFirstError
    <3>3. answer[c].kind = "Starting" => All(c) \subseteq started
      BY <1>1 DEF IInv, Answers
    <3>4. standalone => Accepted(c) = BeforeFirstError(c)
      BY DEF Accepted
    <3> QED BY <3>1, <3>2, <3>3, <3>4
  <2> QED BY <2>1, <2>2 DEF StartedOnce
<1> QED BY <1>1, Invariance, PTL
=============================================================================
