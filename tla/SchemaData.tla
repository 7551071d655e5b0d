----------------------------- MODULE SchemaData -----------------------------
(***************************************************************************)
(* The schemas of random request data and the data generated from them     *)
(* (datagen/src/lib.rs): a schema is parsed from JSON when a request is    *)
(* deserialised, turned back into JSON when the request is sent to another *)
(* node, and read by the generator for every request.                      *)
(*                                                                         *)
(* A JSON value is a pair of its kind and its contents: <<"int", n>>,      *)
(* <<"str", s>>, <<"obj", f>> with f a function of the keys, or            *)
(* <<"arr", s>> with s a sequence.  A string of n random letters is        *)
(* <<"letters", n>>.                                                       *)
(***************************************************************************)
EXTENDS Integers, Sequences, FiniteSets, Functions, TLC

CONSTANTS
  Language,    \* the strings a pattern generates, for the valid patterns
  Numeral,     \* the numbers of the strings that parse as one
  IntDefault,  \* the range of an integer without limits (0 to 100, scaled)
  LenDefault,  \* the range of a length without limits (1 to 20, scaled)
  MinInt       \* i64::MIN, scaled

Null == <<"null">>
Panic == <<"panic">>
Num(n) == <<"int", n>>
Str(s) == <<"str", s>>
Letters(n) == <<"letters", n>>
Arr(s) == <<"arr", s>>
Obj(f) == <<"obj", f>>

Has(v, k) == v[1] = "obj" /\ k \in DOMAIN v[2]
Get(v, k) == v[2][k]

Keywords ==
  {"minLength", "maxLength", "minimum", "maximum", "constant", "pattern"}

\* KEY_FOR_KEYLESS_SCHEMAS, the name of the items of an array.
Keyless == "__"

-----------------------------------------------------------------------------
(* Parsing.                                                                *)

TypeOf(v) ==
  IF Has(v, "type") /\ Get(v, "type")[1] = "str" THEN Get(v, "type")[2]
                                                 ELSE "none"

KnownType(v) == TypeOf(v) \in {"object", "string", "integer", "array"}

\* parse_constraints: limits are integers, a pattern is a regular expression,
\* a constant is anything.
Constraint(k, v) ==
  /\ k \in {"minLength", "maxLength", "minimum", "maximum"} => v[1] = "int"
  /\ k = "pattern" => v[1] = "str" /\ v[2] \in DOMAIN Language

\* validate_constraints: both limits or none, and in order.
Limits(con, min, max) ==
  /\ min \in DOMAIN con <=> max \in DOMAIN con
  /\ min \in DOMAIN con => con[min][2] <= con[max][2]

\* get_constraints: what it returns, and whether it returns at all.
Constraints(v) == Restrict(v[2], DOMAIN v[2] \cap Keywords)

ConstraintsOK(v) ==
  LET con == Constraints(v) IN
    /\ \A k \in DOMAIN con : Constraint(k, con[k])
    /\ Limits(con, "minimum", "maximum")
    /\ Limits(con, "minLength", "maxLength")

\* The errors of parse_properties.
RECURSIVE PropertyOK(_)
PropertyOK(v) ==
  CASE TypeOf(v) = "none" -> FALSE
    [] TypeOf(v) = "object" /\ Has(v, "properties") ->
         /\ Get(v, "properties")[1] = "obj"
         /\ \A k \in DOMAIN Get(v, "properties")[2] :
              PropertyOK(Get(v, "properties")[2][k])
    [] TypeOf(v) = "object" -> Has(v, "constant")
    [] TypeOf(v) = "array" ->
         Has(v, "items") /\ PropertyOK(Get(v, "items")) /\ ConstraintsOK(v)
    [] TypeOf(v) \in {"string", "integer"} -> ConstraintsOK(v)
    [] OTHER -> TRUE

\* parse_properties: the schemas of the properties, by name.  A property of an
\* unknown type has none.
RECURSIVE ParseProperties(_)
ParseProperties(properties) ==
  [k \in {p \in DOMAIN properties : KnownType(properties[p])} |->
     LET v == properties[k] IN
       CASE TypeOf(v) = "object" /\ Has(v, "properties") ->
              [kind |-> "Object",
               data |-> ParseProperties(Get(v, "properties")[2])]
         [] TypeOf(v) = "object" ->
              [kind |-> "ConstantObject",
               con |-> [constant |-> Get(v, "constant")]]
         [] TypeOf(v) = "string" ->
              [kind |-> "String", con |-> Constraints(v)]
         [] TypeOf(v) = "integer" ->
              [kind |-> "Integer", con |-> Constraints(v)]
         [] TypeOf(v) = "array" ->
              [kind |-> "Array",
               data |-> ParseProperties(Keyless :> Get(v, "items")),
               con |-> Constraints(v)]]

\* data_schema_from_value: whether it succeeds, and the schemas of the root.
SchemaOK(v) ==
  /\ Has(v, "properties")
  /\ Get(v, "properties")[1] = "obj"
  /\ \A k \in DOMAIN Get(v, "properties")[2] :
       PropertyOK(Get(v, "properties")[2][k])

SchemaFromValue(v) == ParseProperties(Get(v, "properties")[2])

-----------------------------------------------------------------------------
(* Serialising: convert_data_schema_to_map.                                *)

RECURSIVE ToMap(_)

\* A mutant: the limits of an array are not written.
MutArrayValue(schema) ==
  Obj([type |-> Str("array"),
       items |-> IF Keyless \in DOMAIN schema.data
                 THEN ToMap(schema.data)[Keyless] ELSE Str("{}")])

\* The items of an array are written without their name, if there are any.
ArrayValue(schema) ==
  Obj([type |-> Str("array"),
       items |-> IF Keyless \in DOMAIN schema.data
                 THEN ToMap(schema.data)[Keyless] ELSE Str("{}")]
      @@ schema.con)

ToMap(schemas) ==
  [k \in DOMAIN schemas |->
     LET schema == schemas[k] IN
       CASE schema.kind = "String" ->
              Obj([type |-> Str("string")] @@ schema.con)
         [] schema.kind = "Integer" ->
              Obj([type |-> Str("integer")] @@ schema.con)
         [] schema.kind = "ConstantObject" ->
              Obj([type |-> Str("object")] @@ schema.con)
         [] schema.kind = "Object" ->
              Obj([type |-> Str("object"),
                   properties |-> Obj(ToMap(schema.data))])
         [] schema.kind = "Array" -> ArrayValue(schema)]

\* data_value_from_schema
ValueFromSchema(schemas) == Obj([properties |-> Obj(ToMap(schemas))])

-----------------------------------------------------------------------------
(* Generating: the set of the values that may come out.                    *)

\* The range given by two limits.
RangeOf(con, min, max, default) ==
  LET limit(k, d) == IF k \in DOMAIN con THEN con[k][2] ELSE d
  IN  limit(min, default[1]) .. limit(max, default[2])

\* generate_integer_data: a constant before a pattern before limits.
IntegerData(con) ==
  CASE "constant" \in DOMAIN con ->
         {IF con.constant[1] = "int" THEN con.constant ELSE Num(MinInt)}
    [] "constant" \notin DOMAIN con /\ "pattern" \in DOMAIN con ->
         {Num(IF s \in DOMAIN Numeral THEN Numeral[s] ELSE 0) :
            s \in Language[con.pattern[2]]}
    [] OTHER ->
         {Num(n) : n \in RangeOf(con, "minimum", "maximum", IntDefault)}

\* generate_string_data.  A negative length, as an unsigned number, is more
\* than a string can hold.
StringData(con) ==
  CASE "constant" \in DOMAIN con ->
         {IF con.constant[1] = "str" THEN con.constant
          ELSE Str("Error: invalid constant constraint")}
    [] "constant" \notin DOMAIN con /\ "pattern" \in DOMAIN con ->
         {Str(s) : s \in Language[con.pattern[2]]}
    [] OTHER ->
         {IF n < 0 THEN Panic ELSE Letters(n) :
            n \in RangeOf(con, "minLength", "maxLength", LenDefault)}

RECURSIVE ObjectData(_)

\* A mutant: the upper limit is not reached but passed.
MutArrayData(schemas, con) ==
  LET elements ==
        IF Keyless \in DOMAIN schemas
        THEN {IF d = Panic THEN Panic ELSE d[2][Keyless] :
                d \in ObjectData(schemas)}
        ELSE {Panic}
      sizes == RangeOf(con, "minLength", "maxLength", LenDefault)
      arrays == UNION {[1..(len + 1) -> elements] : len \in sizes}
  IN  {IF Panic \in Range(s) THEN Panic ELSE Arr(s) : s \in arrays}

\* generate_array_data: items of an unknown type have no data to unwrap, which
\* matters only when the array has elements.
ArrayData(schemas, con) ==
  LET elements ==
        IF Keyless \in DOMAIN schemas
        THEN {IF d = Panic THEN Panic ELSE d[2][Keyless] :
                d \in ObjectData(schemas)}
        ELSE {Panic}
      sizes == RangeOf(con, "minLength", "maxLength", LenDefault)
      arrays == UNION {[1..len -> elements] : len \in sizes}
  IN  {IF Panic \in Range(s) THEN Panic ELSE Arr(s) : s \in arrays}

\* generate_object_data
ObjectData(schemas) ==
  LET data == [k \in DOMAIN schemas |->
                 LET schema == schemas[k] IN
                   CASE schema.kind = "String" -> StringData(schema.con)
                     [] schema.kind = "Integer" -> IntegerData(schema.con)
                     [] schema.kind = "Object" -> ObjectData(schema.data)
                     [] schema.kind = "Array" ->
                          ArrayData(schema.data, schema.con)
                     [] schema.kind = "ConstantObject" ->
                          {schema.con.constant}]
      objects == {f \in [DOMAIN schemas -> UNION Range(data)] :
                    \A k \in DOMAIN schemas : f[k] \in data[k]}
  IN  {IF Panic \in Range(f) THEN Panic ELSE Obj(f) : f \in objects}

-----------------------------------------------------------------------------
(* What the documentation of the schemas asks for.                         *)

\* A property that follows the documentation: a constant is of the type of the
\* property, as is what a pattern generates; lengths are not negative; the
\* type is one of the supported ones, for the items of an array too.
RECURSIVE Documented(_)
Documented(v) ==
  LET con == Constraints(v) IN
  /\ KnownType(v)
  /\ TypeOf(v) = "integer" =>
       /\ "constant" \in DOMAIN con => con.constant[1] = "int"
       /\ "pattern" \in DOMAIN con =>
            Language[con.pattern[2]] \subseteq DOMAIN Numeral
  /\ TypeOf(v) = "string" /\ "constant" \in DOMAIN con =>
       con.constant[1] = "str"
  /\ "minLength" \in DOMAIN con => con.minLength[2] >= 0
  /\ TypeOf(v) = "array" => Documented(Get(v, "items"))
  /\ TypeOf(v) = "object" /\ Has(v, "properties") =>
       \A k \in DOMAIN Get(v, "properties")[2] :
         Documented(Get(v, "properties")[2][k])

\* Whether the items of all arrays of a property are of a known type.
RECURSIVE KnownItems(_)
KnownItems(v) ==
  /\ TypeOf(v) = "array" =>
       KnownType(Get(v, "items")) /\ KnownItems(Get(v, "items"))
  /\ TypeOf(v) = "object" /\ Has(v, "properties") =>
       \A k \in DOMAIN Get(v, "properties")[2] :
         KnownItems(Get(v, "properties")[2][k])

\* Whether datum d is what property v describes.
RECURSIVE Conforms(_, _)
Conforms(d, v) ==
  LET con == Constraints(v)
      within(n, min, max, default) ==
        IF min \in DOMAIN con THEN con[min][2] <= n /\ n <= con[max][2]
                              ELSE default[1] <= n /\ n <= default[2]
  IN
  CASE TypeOf(v) \in {"integer", "string"} /\ "constant" \in DOMAIN con ->
         d = con.constant
    [] TypeOf(v) = "object" /\ Has(v, "properties") ->
         LET properties == Get(v, "properties")[2] IN
           /\ d[1] = "obj"
           /\ DOMAIN d[2] = DOMAIN properties
           /\ \A k \in DOMAIN properties : Conforms(d[2][k], properties[k])
    [] TypeOf(v) = "object" /\ ~Has(v, "properties") ->
         d = Get(v, "constant")
    [] TypeOf(v) = "array" ->
         /\ d[1] = "arr"
         /\ within(Len(d[2]), "minLength", "maxLength", LenDefault)
         /\ \A i \in DOMAIN d[2] : Conforms(d[2][i], Get(v, "items"))
    [] TypeOf(v) = "integer" /\ "constant" \notin DOMAIN con ->
         /\ d[1] = "int"
         /\ IF "pattern" \in DOMAIN con
            THEN \E s \in Language[con.pattern[2]] : d[2] = Numeral[s]
            ELSE within(d[2], "minimum", "maximum", IntDefault)
    [] TypeOf(v) = "string" /\ "constant" \notin DOMAIN con ->
         IF "pattern" \in DOMAIN con
         THEN d[1] = "str" /\ d[2] \in Language[con.pattern[2]]
         ELSE /\ d[1] = "letters"
              /\ within(d[2], "minLength", "maxLength", LenDefault)
=============================================================================
