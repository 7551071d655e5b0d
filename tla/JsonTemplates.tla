--------------------------- MODULE JsonTemplates ----------------------------
(***************************************************************************)
(* Request bodies and URLs with templates (datagen/src/template.rs): the   *)
(* strings of a JSON value that hold a template are found and compiled     *)
(* once, each under the JSON pointer to it; for every request a copy of    *)
(* the value gets the results, looked up by these pointers.                *)
(*                                                                         *)
(* JSON values are those of SchemaData, and <<"tmpl", e>> for a string     *)
(* with a template of the expression e.  The keys of an object are         *)
(* sequences: a key as it is written, cut at its slashes, since these are  *)
(* what a pointer is cut at.  An array is an object of its positions.      *)
(***************************************************************************)
EXTENDS Integers, Sequences, FiniteSets, Functions, SchemaData

\* The functions a template may call (register_template_functions) and what
\* they return: a set of JSON values.  An error, of the compiler or of the
\* call, is put in place of the result.
Larger(m, n) == IF m > n THEN m ELSE n

Evaluate(e) ==
  CASE e[1] = "randomInt" ->
         IF e[2] < e[3] THEN {Num(n) : n \in e[2]..(e[3] - 1)} ELSE {Panic}
    [] e[1] = "randomStr" ->
         {Letters(n) : n \in Larger(1, e[2])..Larger(Larger(1, e[2]), e[3])}
    [] e[1] = "patternStr" ->
         IF e[2] \in DOMAIN Language THEN {Str(s) : s \in Language[e[2]]}
                                     ELSE {Str("error")}
    [] e[1] = "toInt" ->
         {IF e[2] \in DOMAIN Numeral THEN Num(Numeral[e[2]])
                                     ELSE Str("error")}
    [] OTHER -> {Str("error")}

\* A mutant: the pointer of an element leaves out the key of its array.
MutNewPath(path, key) == key

\* format!("{path}/{key}"), without escaping the slashes of the key.
NewPath(path, key) == path \o key

\* parse_templates_inner: the pairs of a pointer and an expression.  The code
\* keeps them in a map: of two with one pointer the later one stays.
RECURSIVE ParseTemplates(_, _)
ParseTemplates(json, path) ==
  CASE json[1] = "tmpl" -> {<<path, json[2]>>}
    [] json[1] = "obj" ->
         UNION {ParseTemplates(json[2][key], NewPath(path, key)) :
                  key \in DOMAIN json[2]}
    [] OTHER -> {}

TemplateMaps(json) ==
  LET pairs == ParseTemplates(json, <<>>)
      paths == {pair[1] : pair \in pairs}
  IN  {f \in [paths -> {pair[2] : pair \in pairs}] :
         \A path \in paths : <<path, f[path]>> \in pairs}

\* Value::pointer_mut and the assignment through it: a pointer goes down by one
\* key for each of its parts, and nothing happens where there is no such key.
RECURSIVE Assign(_, _, _)
Assign(json, path, value) ==
  IF path = <<>> THEN value
  ELSE IF json[1] = "obj" /\ <<Head(path)>> \in DOMAIN json[2]
  THEN <<"obj", [json[2] EXCEPT ![<<Head(path)>>] =
                   Assign(@, Tail(path), value)]>>
  ELSE json

\* populate_data: the values that may come out of it.  The pointers of a map
\* lead to different strings, so that the order of the map does not matter.
RECURSIVE Populate(_, _)
Populate(json, templates) ==
  IF DOMAIN templates = {} \/ json = Panic THEN {json}
  ELSE LET path == CHOOSE p \in DOMAIN templates : TRUE
           rest == Restrict(templates, DOMAIN templates \ {path})
       IN  UNION {Populate(IF value = Panic THEN Panic
                           ELSE Assign(json, path, value), rest) :
                    value \in Evaluate(templates[path])}

\* What a value should become: each template a result, and nothing else.
RECURSIVE Filled(_, _)
Filled(value, json) ==
  CASE json[1] = "tmpl" -> value \in Evaluate(json[2])
    [] json[1] = "obj" ->
         /\ value[1] = "obj"
         /\ DOMAIN value[2] = DOMAIN json[2]
         /\ \A key \in DOMAIN json[2] :
              Filled(value[2][key], json[2][key])
    [] OTHER -> value = json

\* Whether no key has a slash in it.
RECURSIVE PlainKeys(_)
PlainKeys(json) ==
  json[1] = "obj" =>
    \A key \in DOMAIN json[2] : Len(key) = 1 /\ PlainKeys(json[2][key])
=============================================================================
