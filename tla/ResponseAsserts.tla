-------------------------- MODULE ResponseAsserts ---------------------------
(***************************************************************************)
(* The assertions on a response: simple_assert and the results of a Lua    *)
(* assertion (response-assert/src/lib.rs, lua-helper/src/lib.rs), down to  *)
(* the failures that are counted (cluster-executor/src/lib.rs).            *)
(*                                                                         *)
(* A URL has the segments of its path, cut at the slashes, and the parts   *)
(* of its query, cut at the ampersands: <<name, value>>, or <<name>>       *)
(* without an equals sign.  A response is <<"text">> or <<"json", f>> with *)
(* f what the JSON paths of the assertions select in it: <<"ok", values>>  *)
(* or <<"error">>.                                                         *)
(***************************************************************************)
EXTENDS Integers, Sequences, SequencesExt, Functions, SchemaData

CONSTANTS
  IdBits,  \* the width of the ids of assertions: 32 bits, scaled
  LuaId    \* the id of a failure of Lua itself: i32::MAX, scaled

Failure(id, error) == <<<<id, error>>>>

\* A mutant: the first segment is the one before the first slash.
MutSegment(url, n) == url.path[n]

\* The path starts with a slash: the first string of the split is empty.
Segment(url, n) == url.path[n + 1]

\* The value of the last part of the query with this name.
Param(url, name) ==
  LET parts == {i \in DOMAIN url.query : url.query[i][1] = name}
  IN  url.query[CHOOSE i \in parts : \A j \in parts : j <= i][2]

\* The values an assertion expects: <<"ok", values>>, <<"error">>, or Panic
\* where the query has a part without an equals sign.  No request body is
\* given to simple_assert.
Expected(expectation, url) ==
  CASE expectation.kind = "RequestPath" ->
         IF Len(url.path) < expectation.segment + 1 THEN <<"error">>
         ELSE <<"ok", <<Str(Segment(url, expectation.segment))>>>>
    [] expectation.kind = "RequestQueryParam" ->
         IF \E i \in DOMAIN url.query : Len(url.query[i]) = 1 THEN Panic
         ELSE IF \E i \in DOMAIN url.query :
                   url.query[i][1] = expectation.name
         THEN <<"ok", <<Str(Param(url, expectation.name))>>>>
         ELSE <<"error">>
    [] expectation.kind = "RequestBody" -> <<"error">>
    [] expectation.kind = "Constant" -> <<"ok", <<expectation.value>>>>

\* The values an assertion finds.
Found(actual, response) ==
  IF actual.kind = "FromJsonResponse" THEN response[2][actual.path]
                                      ELSE <<"ok", <<actual.value>>>>

\* One round of the loop of simple_assert: the errors it adds.  An assertion is
\* matched if and only if it adds none.
ErrorsOf(assertion, url, response) ==
  LET expected == Expected(assertion.expectation, url)
      found == Found(assertion.actual, response)
  IN  CASE expected[1] = "error" ->
             Failure(assertion.id, "InvalidExpectation")
        [] expected[1] = "ok" /\ found[1] = "error" ->
             Failure(assertion.id, "InvalidActual")
        [] expected[1] = "ok" /\ found[1] = "ok" ->
             IF found = expected THEN <<>>
             ELSE Failure(assertion.id, "FailedAssert")

\* simple_assert: the errors of all assertions, in order, or Panic.
SimpleAssert(assertions, url, response) ==
  IF \E i \in DOMAIN assertions :
       Expected(assertions[i].expectation, url) = Panic
  THEN Panic
  ELSE <<"ok", FlattenSeq([i \in DOMAIN assertions |->
                             ErrorsOf(assertions[i], url, response)])>>

\* do_simple_assertion: a response that is not JSON has no failed assertions;
\* it counts as a parse failure.
SimpleFailures(assertions, url, response) ==
  IF response[1] = "text" THEN <<"ok", <<>>>>
                          ELSE SimpleAssert(assertions, url, response)

-----------------------------------------------------------------------------
(* Lua.  The function returns a table of results, or fails.                *)

\* LuaAssertionResult::from_lua fails on a result without its error, and the
\* whole call with it.
Returned(results) ==
  \A i \in DOMAIN results : results[i].success \/ results[i].error

\* assertion_id as u32
AsUnsigned(id) == id % 2^IdBits

\* call_lua_func_from_registry, and of its results only the failed ones.
LuaFailures(call) ==
  IF call[1] = "error" \/ ~Returned(call[2])
  THEN Failure(LuaId, "LuaAssertionFailure")
  ELSE LET failed == SelectSeq(call[2], LAMBDA r : ~r.success)
       IN  FlattenSeq([i \in DOMAIN failed |->
                         Failure(AsUnsigned(failed[i].id),
                                 "LuaAssertionFailure")])

-----------------------------------------------------------------------------
(* What an assertion says.                                                 *)

\* Some value is both the one expected and the only one found.
Holds(assertion, url, response) ==
  LET e == assertion.expectation
      a == assertion.actual
      expected(v) ==
        \/ e.kind = "Constant" /\ v = e.value
        \/ /\ e.kind = "RequestPath"
           /\ \E i \in DOMAIN url.path :
                i - 1 = e.segment /\ v = Str(url.path[i])
        \/ /\ e.kind = "RequestQueryParam"
           /\ \E i \in DOMAIN url.query :
                /\ url.query[i][1] = e.name /\ v = Str(url.query[i][2])
                /\ \A j \in (i + 1)..Len(url.query) : url.query[j][1] # e.name
      found(v) ==
        \/ a.kind = "Constant" /\ v = a.value
        \/ a.kind = "FromJsonResponse" /\ response[2][a.path] = <<"ok", <<v>>>>
      values ==
        {Str(url.path[i]) : i \in DOMAIN url.path}
          \cup {Str(part[2]) :
                  part \in {p \in Range(url.query) : Len(p) = 2}}
          \cup (IF e.kind = "Constant" THEN {e.value} ELSE {})
  IN  \E v \in values : expected(v) /\ found(v)
=============================================================================
