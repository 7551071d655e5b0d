---------------------------- MODULE RateSchedule ----------------------------
(***************************************************************************)
(* The load a job asks for, second by second: the rate schemes             *)
(* (cluster-executor/src/rate_spec.rs), their validation                   *)
(* (overload-http/src/rate_spec.rs) and the shares of each secondary       *)
(* (calculate_req_per_secondary).                                          *)
(*                                                                         *)
(* A scheme is a record with its kind.  The slope of a linear scheme is a  *)
(* fraction; the numbers are far from the limits of f32 and u32.           *)
(***************************************************************************)
LOCAL INSTANCE Integers
LOCAL INSTANCE Sequences
LOCAL INSTANCE TLC

\* A step is accepted when it ends after it starts.
StepAccepted(s) == s.start < s.end

SortedSteps(steps) == SortSeq(steps, LAMBDA s, t : s.start < t.start)

\* A mutant: steps may leave gaps between them.
MutContinuous(seq) ==
  \A i \in 2..Len(seq) : seq[i - 1].end < seq[i].start

\* Each step starts right after the one before.
Continuous(seq) ==
  \A i \in 2..Len(seq) : seq[i - 1].end + 1 = seq[i].start

\* TryFrom<StepsShadowType>: more than one step, from 0 on, without gaps.
StepsAccepted(steps) ==
  /\ \A i \in DOMAIN steps : StepAccepted(steps[i])
  /\ Len(steps) > 1
  /\ SortedSteps(steps)[1].start = 0
  /\ Continuous(SortedSteps(steps))

\* Whether a scheme can be deserialised, and to what.
SchemeOK(s) == s.kind = "Steps" => StepsAccepted(s.steps)
SchemeFrom(s) ==
  IF s.kind = "Steps" THEN [s EXCEPT !.steps = SortedSteps(@)] ELSE s

-----------------------------------------------------------------------------
Ceil(n, d) == (n + d - 1) \div d

LesserRate(m, n) == IF m < n THEN m ELSE n

\* Steps::next: the step under the cursor, else the one after it, else the
\* last one.  The cursor counts from 1.
StepFits(s, cursor, nth) ==
  s.steps[cursor].start <= nth /\ nth <= s.steps[cursor].end

MovesOn(s, cursor, nth) ==
  s.kind = "Steps" /\ ~StepFits(s, cursor, nth) /\ cursor < Len(s.steps)

NextStep(s, cursor, nth) ==
  IF MovesOn(s, cursor, nth) THEN cursor + 1 ELSE cursor

StepRate(s, cursor, nth) ==
  IF StepFits(s, cursor, nth) THEN s.steps[cursor].rate
  ELSE IF MovesOn(s, cursor, nth) THEN s.steps[cursor + 1].rate
  ELSE s.steps[Len(s.steps)].rate

\* RateScheme::next for each kind of scheme.
NextRate(s, cursor, nth) ==
  CASE s.kind = "ConstantRate" -> s.count_per_sec
    [] s.kind = "ArraySpec" ->
         IF s.count_per_sec = <<>> THEN 0
         ELSE s.count_per_sec[(nth % Len(s.count_per_sec)) + 1]
    [] s.kind = "Linear" -> LesserRate(Ceil(s.num * nth, s.den) + s.b, s.max)
    [] s.kind = "Elastic" -> 0
    [] s.kind = "Steps" -> StepRate(s, cursor, nth)

\* A mutant: the remainder is lost.
MutShares(total, n) == [i \in 1..n |-> total \div n]

\* calculate_req_per_secondary: the remainder goes to the first ones.
Shares(total, n) ==
  [i \in 1..n |-> total \div n + (IF i <= total % n THEN 1 ELSE 0)]

-----------------------------------------------------------------------------
\* What a list of steps means: the rate of the step a second falls in, and
\* that of the last step once all of them are over.
RateOfSecond(s, nth) ==
  IF \E i \in 1..Len(s.steps) : StepFits(s, i, nth)
  THEN s.steps[CHOOSE i \in 1..Len(s.steps) : StepFits(s, i, nth)].rate
  ELSE s.steps[Len(s.steps)].rate
=============================================================================
