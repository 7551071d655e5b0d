--------------------------- MODULE MCRequestData ----------------------------
(* Tests with small schemas, bodies and assertions.                        *)
EXTENDS RequestData

MCLanguage == [digits |-> {"7", "42"}, letters |-> {"ab"}]
MCNumeral == ("7" :> 7) @@ ("42" :> 42)
MCMinInt == -9
MCIntDefault == <<0, 2>>
MCLenDefault == <<1, 2>>

\* The schemes of the tests that are about something else.
NoLoad == [f \in {"qps", "connections"} |->
             [kind |-> "ConstantRate", count_per_sec |-> 0]]

\* The functions that give some of the keywords one of their values.
PartialChoices(values) ==
  UNION {{f \in [keys -> UNION Range(values)] :
            \A k \in keys : f[k] \in values[k]} : keys \in SUBSET DOMAIN values}

Constants == {Num(3), Str("x"), Obj([a |-> Num(1)])}
Patterns == {Str("digits"), Str("letters"), Str("("), Num(1)}

Integers_ ==
  {Obj([type |-> Str("integer")] @@ con) :
     con \in PartialChoices([minimum |-> {Num(-1), Num(1), Str("1")},
                      maximum |-> {Num(0), Num(2)},
                      constant |-> Constants, pattern |-> Patterns])}

Strings_ ==
  {Obj([type |-> Str("string")] @@ con) :
     con \in PartialChoices([minLength |-> {Num(-1), Num(0), Num(2)},
                      maxLength |-> {Num(0), Num(3)},
                      constant |-> Constants, pattern |-> Patterns])}

Others_ ==
  {Obj([type |-> Str("boolean")]), Obj([type |-> Num(1)]), Str("{}"),
   Obj([type |-> Str("object")]),
   Obj([type |-> Str("object"), constant |-> Obj([a |-> Num(1)])]),
   Obj([type |-> Str("object"), properties |-> Num(1)])}

\* One property of each kind, for the schemas within schemas.
Some_ ==
  Others_ \cup
  {Obj([type |-> Str("integer"), minimum |-> Num(1), maximum |-> Num(2)]),
   Obj([type |-> Str("integer"), pattern |-> Str("digits")]),
   Obj([type |-> Str("string")]),
   Obj([type |-> Str("string"), constant |-> Str("x")])}

Objects_ ==
  {Obj([type |-> Str("object"), properties |-> Obj([p |-> v])]) : v \in Some_}
    \cup {Obj([type |-> Str("object"), properties |-> Obj(<<>>)])}

Arrays_(items) ==
  {Obj([type |-> Str("array")] @@ con) :
     con \in PartialChoices([items |-> items,
                      minLength |-> {Num(-1), Num(0), Num(1)},
                      maxLength |-> {Num(0), Num(2)}])}

Properties_ ==
  Integers_ \cup Strings_ \cup Some_ \cup Objects_ \cup Arrays_(Some_)
    \cup Arrays_({Obj([type |-> Str("array"), items |-> v, minLength |-> Num(1),
                       maxLength |-> Num(1)]) : v \in Some_})
    \cup Arrays_(Objects_)

RandomJobs ==
  [kind : {"RandomDataRequest"}, schemes : {NoLoad}, duration : {0},
   method : {"POST"}, url : {<<"/">>},
   spec : [params : {Null},
           body : {Obj([properties |-> Obj([p |-> v])]) : v \in Properties_}
                    \cup {Obj([properties |-> Obj([p |-> v, q |-> w])]) :
                            v \in Some_, w \in Objects_}
                    \cup {Null, Obj(<<>>), Obj([properties |-> Num(1)])}]]

\* URLs with at most two parameters, and with three of them.
Urls2 == {<<"/", "a">>, <<"/", "a", "/", "bb">>, <<"a", "/", "a">>,
          <<"/", "bb", "a", "/">>, <<"/", "c", "/", "a">>}
Urls3 == Urls2 \cup {<<"/", "a", "/", "bb", "/", "a">>}

ParamSchemas ==
  {Obj([properties |-> Obj([a |-> v, bb |-> w])]) :
     v \in {Obj([type |-> Str("string"), minLength |-> Num(0),
                 maxLength |-> Num(4)]),
            Obj([type |-> Str("object"), constant |-> Num(1)])},
     w \in {Obj([type |-> Str("integer"), minimum |-> Num(-10),
                 maximum |-> Num(10)]),
            Obj([type |-> Str("string"), pattern |-> Str("letters")])}}

UrlJobs(urls) ==
  [kind : {"RandomDataRequest"}, schemes : {NoLoad}, duration : {0},
   method : {"GET"}, url : urls,
   spec : [params : ParamSchemas \cup {Null},
           body : {Null, Obj([properties |-> Obj(<<>>)])}]]

-----------------------------------------------------------------------------
Template(e) == <<"tmpl", e>>
Templates ==
  {Template(<<"randomInt", 1, 3>>), Template(<<"randomInt", 1, 1>>),
   Template(<<"randomStr", -1, 2>>), Template(<<"patternStr", "digits">>),
   Template(<<"patternStr", "(">>), Template(<<"toInt", "42">>),
   Template(<<"toInt", "ab">>), Template(<<"noSuchFunction">>)}

Leaves == {Num(5), Template(<<"randomInt", 1, 3>>),
           Template(<<"patternStr", "digits">>)}

\* Objects of objects; "a/b" is a key as good as "a" and "b".
Keys == {<<"a">>, <<"b">>, <<"a", "b">>}
Flat == {Obj(f) : f \in UNION {[keys -> Leaves] : keys \in SUBSET Keys}}
Nested == {Obj(f) : f \in UNION {[keys -> Leaves \cup
                                    {Obj(<<"b">> :> v @@ <<"a">> :> w) :
                                       v \in Leaves, w \in Leaves}] :
                                   keys \in SUBSET Keys \ {Keys}}}

TemplateJobs ==
  [kind : {"JsonTemplateRequest"}, schemes : {NoLoad}, duration : {0},
   spec : [url : {Str("/path")}, body : Templates \cup Flat \cup Nested]
            \cup [url : Templates \cup {Str("path"), Num(1)}, body : {Null}]]

-----------------------------------------------------------------------------
RequestUrls ==
  [path : {<<"", "x">>, <<"", "x", "7">>},
   query : {<<>>, <<<<"q", "7">>>>, <<<<"q", "x">>, <<"q", "7">>>>,
            <<<<"q", "7">>, <<"r">>>>}]

Expectations ==
  [kind : {"RequestPath"}, segment : {1, 2}]
    \cup [kind : {"RequestQueryParam"}, name : {"q", "s"}]
    \cup [kind : {"RequestBody"}, path : {"p"}]
    \cup [kind : {"Constant"}, value : {Num(7), Str("x")}]

FromResponse == [kind |-> "FromJsonResponse", path |-> "p"]
Seven == [kind |-> "Constant", value |-> Str("7")]
Actuals == {FromResponse, Seven}

Responses ==
  {<<"text">>} \cup
  {<<"json", [p |-> s]>> : s \in {<<"error">>, <<"ok", <<>>>>,
     <<"ok", <<Num(7)>>>>, <<"ok", <<Str("7")>>>>, <<"ok", <<Str("x")>>>>,
     <<"ok", <<Str("x"), Str("7")>>>>}}

LuaResults ==
  [id : {-1, 3}, success : {TRUE}, error : {FALSE}]
    \cup [id : {-1, 3}, success : {FALSE}, error : BOOLEAN]

Calls == {<<"error">>} \cup
  {<<"ok", results>> :
     results \in {<<>>} \cup {<<r>> : r \in LuaResults}
                   \cup {<<r, s>> : r \in LuaResults, s \in LuaResults}}

ListJobs ==
  [kind : {"RequestList"}, schemes : {NoLoad}, duration : {0},
   spec : {<<>>} \cup {<<url>> : url \in RequestUrls}
            \cup {<<[path |-> <<"", "x">>, query |-> <<>>],
                    [path |-> <<"", "7">>, query |-> <<>>]>>},
   assertions :
     {<<[id |-> 1, expectation |-> e, actual |-> a]>> :
        e \in Expectations, a \in Actuals}
     \cup {<<[id |-> 2, expectation |-> e, actual |-> FromResponse],
             [id |-> 1, expectation |-> d, actual |-> Seven]>> :
             e \in Expectations, d \in Expectations},
   responses : {Responses}, calls : {{}}]
  \cup
  [kind : {"RequestList"}, schemes : {NoLoad}, duration : {0},
   spec : {<<[path |-> <<"", "x">>, query |-> <<>>]>>},
   assertions : {<<>>}, responses : {{<<"text">>}}, calls : {Calls}]

-----------------------------------------------------------------------------
\* Two or three steps over seven seconds, in any order, with or without gaps.
SmallStep == [start : 0..5, end : 1..6, rate : {1, 4}]
FirstStep == {s \in SmallStep : s.start = 0 /\ s.end \in 1..3 /\ s.rate = 1}
LaterStep == {s \in SmallStep : s.start > 1 /\ s.start <= s.end}
StepLists ==
  {<<t, s>> : s \in FirstStep, t \in LaterStep}
    \cup {<<s>> : s \in FirstStep}
    \cup {<<s, t, u>> : s \in FirstStep, t \in LaterStep, u \in LaterStep}

OtherSchemes ==
  {[kind |-> "ConstantRate", count_per_sec |-> 5],
   [kind |-> "ArraySpec", count_per_sec |-> <<>>],
   [kind |-> "ArraySpec", count_per_sec |-> <<3, 1, 2>>],
   [kind |-> "Linear", num |-> 3, den |-> 2, b |-> 1, max |-> 7]}

Schemes ==
  OtherSchemes \cup {[kind |-> "Steps", steps |-> l] : l \in StepLists}

\* Steps are tried for the one, and any scheme for the other.
LoadJobs ==
  [kind : {"RequestList"}, duration : {8}, spec : {<<>>},
   schemes : [qps : OtherSchemes, connections : Schemes]
               \cup [qps : Schemes, connections : {[kind |-> "Elastic"]}],
   assertions : {<<>>}, responses : {{}}, calls : {{}}]

MCJobs == LoadJobs \cup RandomJobs
            \cup UrlJobs(Urls2) \cup TemplateJobs \cup ListJobs
MCJobs3 == UrlJobs(Urls3)
MCAbsolute == {"/path"}
=============================================================================
