---------------------------- MODULE RequestData -----------------------------
(***************************************************************************)
(* The contents of a test, from its submission to what is counted for a    *)
(* response: the request specification is deserialised by the node that    *)
(* gets it, serialised and deserialised again on each hop to another node  *)
(* (to the primary, to a secondary).  The primary asks its rate schemes    *)
(* once a second (RequestGenerator); the request provider of a secondary   *)
(* (request_providers.rs) makes the requests, whose responses are checked  *)
(* by the assertions of the test.                                          *)
(***************************************************************************)
EXTENDS Integers, Sequences, FiniteSets, UrlParams, JsonTemplates,
        ResponseAsserts, RateSchedule

CONSTANTS
  Jobs,      \* the tests that may be submitted
  Absolute,  \* the strings that start with a slash
  MaxHops    \* how often a test is sent on

VARIABLES
  job,      \* the test as it was submitted
  stage,    \* how far it got
  held,     \* the request specification, as the node that has it holds it
  schemes,  \* the two rate schemes, as that node holds them
  hops,     \* how often it was sent on
  current_count,  \* seconds generated so far
  current_step,   \* the cursor of each scheme
  rates,          \* the rates of the last second
  sent,     \* a request of it
  verdict   \* what the assertions counted for the response

generatorVars == <<current_count, current_step, rates>>
vars == <<job, stage, held, schemes, hops, current_count, current_step, rates,
          sent, verdict>>

Field == {"qps", "connections"}

Nothing == [data |-> Null, url |-> <<>>, body |-> Null]
NoVerdict == [response |-> <<"text">>, call |-> <<"none">>,
              simple |-> <<>>, lua |-> <<>>]

Init ==
  /\ job \in Jobs
  /\ stage = "submitted"
  /\ held = <<>>
  /\ schemes = job.schemes
  /\ hops = 0
  /\ current_count = 0
  /\ current_step = [f \in Field |-> 1]
  /\ rates = [f \in Field |-> 0]
  /\ sent = Nothing
  /\ verdict = NoVerdict

-----------------------------------------------------------------------------
(* The request specification, on the wire and in memory.                   *)

\* Option<DataSchema>: a set of at most one schema.
OptionOK(json) == json = Null \/ SchemaOK(json)
OptionFrom(json) == IF json = Null THEN {} ELSE {SchemaFromValue(json)}
OptionTo(option) ==
  IF option = {} THEN Null ELSE ValueFromSchema(CHOOSE s \in option : TRUE)

\* validate_url_json_val: a string, and one of a template or of a path.
UrlOK(url) == url[1] = "tmpl" \/ (url[1] = "str" /\ url[2] \in Absolute)

\* Whether a specification can be deserialised, and to what.  Only the schemas
\* of a RandomDataRequest are held in another form than they are sent in.
SpecOK(spec) ==
  CASE job.kind = "RandomDataRequest" ->
         OptionOK(spec.params) /\ OptionOK(spec.body)
    [] job.kind = "JsonTemplateRequest" -> UrlOK(spec.url)
    [] job.kind = "RequestList" -> TRUE

SpecFrom(spec) ==
  IF job.kind = "RandomDataRequest"
  THEN [params |-> OptionFrom(spec.params), body |-> OptionFrom(spec.body)]
  ELSE spec

SpecTo(spec) ==
  IF job.kind = "RandomDataRequest"
  THEN [params |-> OptionTo(spec.params), body |-> OptionTo(spec.body)]
  ELSE spec

SchemesOK(pair) == \A f \in Field : SchemeOK(pair[f])
SchemesFrom(pair) == [f \in Field |-> SchemeFrom(pair[f])]

\* The node that a test is submitted to deserialises it.
Submit ==
  /\ stage = "submitted"
  /\ IF SpecOK(job.spec) /\ SchemesOK(job.schemes)
     THEN /\ stage' = "accepted"
          /\ held' = SpecFrom(job.spec)
          /\ schemes' = SchemesFrom(job.schemes)
     ELSE stage' = "rejected" /\ UNCHANGED <<held, schemes>>
  /\ UNCHANGED <<job, hops, generatorVars, sent, verdict>>

\* It is sent to another node, which deserialises what was serialised.
Hop ==
  /\ stage = "accepted"
  /\ hops < MaxHops
  /\ current_count = 0
  /\ hops' = hops + 1
  /\ LET spec == SpecTo(held) IN
       IF SpecOK(spec) /\ SchemesOK(schemes)
       THEN /\ held' = SpecFrom(spec)
            /\ schemes' = SchemesFrom(schemes)
            /\ UNCHANGED stage
       ELSE stage' = "lost" /\ UNCHANGED <<held, schemes>>
  /\ UNCHANGED <<job, generatorVars, sent, verdict>>

\* RequestGenerator::poll_next, once a second.
PollNext ==
  /\ stage = "accepted"
  /\ current_count < job.duration
  /\ rates' = [f \in Field |-> NextRate(schemes[f], current_step[f],
                                        current_count)]
  /\ current_step' = [f \in Field |-> NextStep(schemes[f], current_step[f],
                                               current_count)]
  /\ current_count' = current_count + 1
  /\ UNCHANGED <<job, stage, held, schemes, hops, sent, verdict>>

-----------------------------------------------------------------------------
(* The request providers: get_n, for one request.                          *)

\* What generate_data may return for the schema of an option.
Generated(option) == UNION {ObjectData(schema) : schema \in option}

\* RandomDataRequest::get_n.  Of a GET request there is no body.
GetRandom ==
  /\ job.kind = "RandomDataRequest"
  /\ \E data \in IF held.params = {} THEN {Null} ELSE Generated(held.params),
        body \in IF job.method = "POST" /\ held.body # {}
                 THEN Generated(held.body) ELSE {Null} :
       LET url == IF data[1] # "obj" THEN UrlText(job.url)
                  ELSE SubstituteParamWithData(UrlText(job.url),
                         FindParamPositions(job.url), data[2])
       IN  /\ stage' = IF data = Panic \/ body = Panic \/ url = NoText
                       THEN "panicked" ELSE "sent"
           /\ sent' = [data |-> data, url |-> url, body |-> body]

\* JsonTemplate::get_n: a URL that is not a string after all is a panic.
GetTemplate ==
  /\ job.kind = "JsonTemplateRequest"
  /\ \E urls \in TemplateMaps(held.url), bodies \in TemplateMaps(held.body) :
       \E url \in Populate(held.url, urls),
          body \in Populate(held.body, bodies) :
         /\ stage' = IF body = Panic \/ url[1] \notin {"str", "letters"}
                     THEN "panicked" ELSE "sent"
         /\ sent' = [data |-> Null, url |-> url, body |-> body]

\* RequestList::get_n: one of the requests, at random.
GetListed ==
  /\ job.kind = "RequestList"
  /\ \/ held = <<>> /\ stage' = "failed" /\ UNCHANGED sent
     \/ \E i \in DOMAIN held :
          /\ stage' = "sent"
          /\ sent' = [data |-> Null, url |-> held[i], body |-> Null]

GetN ==
  /\ stage = "accepted"
  /\ GetRandom \/ GetTemplate \/ GetListed
  /\ UNCHANGED <<job, held, schemes, hops, generatorVars, verdict>>

-----------------------------------------------------------------------------
(* The response.                                                           *)

\* The body of the response has arrived: the simple assertions, and the Lua
\* assertion if the verdict of the executor comes in time.
Check ==
  /\ stage = "sent"
  /\ job.kind = "RequestList"
  /\ \E response \in job.responses, call \in job.calls \cup {<<"late">>} :
       LET simple == SimpleFailures(job.assertions, sent.url, response) IN
         /\ stage' = IF simple = Panic THEN "panicked" ELSE "checked"
         /\ verdict' =
              [response |-> response, call |-> call,
               simple |-> IF simple = Panic THEN <<>> ELSE simple[2],
               lua |-> IF simple = Panic \/ call = <<"late">> THEN <<>>
                                                  ELSE LuaFailures(call)]
  /\ UNCHANGED <<job, held, schemes, hops, generatorVars, sent>>

Next == Submit \/ Hop \/ PollNext \/ GetN \/ Check

Spec == Init /\ [][Next]_vars

-----------------------------------------------------------------------------
(* Properties.                                                             *)

\* A test is the same on every node it gets to.  Steps are sorted and checked
\* again.  A schema is turned into JSON and parsed without loss
\* (convert_data_schema_to_map, parse_properties), unless an array has items
\* of an unknown type: such a schema is accepted by the first node and refused
\* by the next.
SpecSurvives ==
  /\ stage \notin {"submitted", "rejected", "lost"} =>
       held = SpecFrom(job.spec) /\ schemes = SchemesFrom(job.schemes)
  /\ stage = "lost" =>
       \E json \in {job.spec.params, job.spec.body} \ {Null} :
         ~KnownItems(Obj([type |-> Str("object")] @@ json[2]))

\* Steps::next keeps a cursor and looks no further than the next step: for
\* every accepted list of steps it still gives each second the rate of the
\* step that second falls in (docs/src/connection/steps-qps.md:13-14); and
\* what the secondaries are given of the rates adds up to them, with shares
\* that differ by at most one (calculate_req_per_secondary).
RatesAsSpecified ==
  \A f \in Field :
    /\ current_count > 0 /\ schemes[f].kind = "Steps" =>
         rates[f] = RateOfSecond(schemes[f], current_count - 1)
    /\ \A n \in 1..3 :
         LET shares == Shares(rates[f], n) IN
           /\ FoldSeq(+, 0, shares) = rates[f]
           /\ \A i, j \in 1..n : shares[i] - shares[j] <= 1

\* The data of a request satisfy the schemas of the test as they were
\* submitted, wherever they are generated, if the schemas follow the
\* documentation; and such schemas never make the generator panic.
DataConform ==
  job.kind = "RandomDataRequest" /\ stage \in {"sent", "panicked"} =>
    \A pair \in {<<job.spec.params, sent.data>>, <<job.spec.body, sent.body>>} :
      LET root == Obj([type |-> Str("object")] @@ pair[1][2]) IN
        pair[1] # Null /\ Documented(root) /\ pair[2] # Null =>
          Conforms(pair[2], root)

\* Each parameter of the URL of a request is replaced by its own datum, the
\* rest of the URL is kept (substitute_param_with_data).
UrlFilled ==
  job.kind = "RandomDataRequest" /\ stage \in {"sent", "panicked"}
    /\ sent.data[1] = "obj" =>
      sent.url = Substituted(job.url, sent.data[2])

\* Each template of a body is replaced by a result of its own expression and
\* the rest of the body is kept (populate_data), if no key has a slash in it.
TemplatesFilled ==
  job.kind = "JsonTemplateRequest" /\ stage = "sent" =>
    /\ PlainKeys(job.spec.body) => Filled(sent.body, job.spec.body)
    /\ Filled(sent.url, job.spec.url)

\* A JSON response has one failure for each assertion that does not hold, with
\* the id of that assertion and in their order; a Lua assertion that returns
\* has one for each failed result, one that fails has exactly one, under the
\* id kept for that (simple_assert, call_lua_func_from_registry).
FailuresExact ==
  stage = "checked" =>
    LET ids(failures) == [i \in DOMAIN failures |-> failures[i][1]]
        broken == SelectSeq(job.assertions, LAMBDA a :
                              ~Holds(a, sent.url, verdict.response))
        failed == SelectSeq(verdict.call[2], LAMBDA r : ~r.success)
        call == verdict.call
    IN  /\ ids(verdict.simple) =
             IF verdict.response = <<"text">> THEN <<>>
             ELSE [i \in DOMAIN broken |-> broken[i].id]
        /\ call[1] = "error" => ids(verdict.lua) = <<LuaId>>
        /\ call[1] = "ok" =>
             \/ /\ Len(verdict.lua) = Len(failed)
                /\ \A i \in DOMAIN failed :
                     failed[i].id \in Nat => verdict.lua[i][1] = failed[i].id
             \/ /\ ids(verdict.lua) = <<LuaId>>
                /\ \E i \in DOMAIN failed : ~failed[i].error
=============================================================================
