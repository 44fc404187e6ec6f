---------------------------- MODULE SchemaCheck -----------------------------
(***************************************************************************)
(* tools/schema-check: which JSON documents an Avro schema of schemas/     *)
(* accepts.  The two schemas are below, field by field.                    *)
(*                                                                         *)
(* A JSON value is a record with one field, named for its kind; so is a    *)
(* node of a schema, where an object that only names a type stands for it. *)
(* A JSON object is a function from its keys; the order in which a schema  *)
(* lists the fields of a record is left out.                               *)
(***************************************************************************)
EXTENDS Sequences

IsKind(v, kind) == DOMAIN v = {kind}

Null == [null |-> TRUE]
Number == [number |-> 0]
Str(s) == [string |-> s]
Obj(entries) == [object |-> entries]
Arr(items) == [array |-> items]

Primitive(name) == [primitive |-> name]
Union(options) == [union |-> options]
MapOf(values) == [map |-> values]
ArrayOf(items) == [items |-> items]
RecordOf(fields) == [fields |-> fields]

Required(type) == [type |-> type, default |-> FALSE]
Defaulted(type) == [type |-> type, default |-> TRUE]

-----------------------------------------------------------------------------
(* An option of the union is the word "null".                               *)
UnionAllowsNull(type) ==
  IsKind(type, "union")
    /\ \E i \in DOMAIN type.union : type.union[i] = Primitive("null")

MayBeMissing(field) == field.default \/ UnionAllowsNull(field.type)

ValidatePrimitive(name, v) ==
  name \in {"string", "null"} /\ IsKind(v, name)

(* How a part of the value is validated against a part of the schema is     *)
(* given to the functions below as =|.                                      *)
ValidateUnion(options, v, _ =| _) == \E i \in DOMAIN options : options[i] =| v

(* Mutant: keys the record does not know are let through.                   *)
AnyKey(fields, v) == TRUE

NoOtherKey(fields, v) == DOMAIN v.object \subseteq DOMAIN fields

ValidateRecord(fields, v, _ =| _) ==
  /\ IsKind(v, "object")
  /\ \A name \in DOMAIN fields :
       IF name \in DOMAIN v.object
       THEN fields[name].type =| v.object[name]
       ELSE MayBeMissing(fields[name])
  /\ NoOtherKey(fields, v)

ValidateArray(items, v, _ =| _) ==
  IsKind(v, "array") /\ \A i \in DOMAIN v.array : items =| v.array[i]

ValidateMap(values, v, _ =| _) ==
  IsKind(v, "object") /\ \A key \in DOMAIN v.object : values =| v.object[key]

(* One step of validate, which calls itself for the parts.                  *)
ValidateType(schema, v, _ =| _) ==
  CASE IsKind(schema, "primitive") -> ValidatePrimitive(schema.primitive, v)
    [] IsKind(schema, "union")     -> ValidateUnion(schema.union, v, =|)
    [] IsKind(schema, "fields")    -> ValidateRecord(schema.fields, v, =|)
    [] IsKind(schema, "items")     -> ValidateArray(schema.items, v, =|)
    [] IsKind(schema, "map")       -> ValidateMap(schema.map, v, =|)

(* The recursion, as deep as the schemas are: a trace is a record of a      *)
(* policy with a list of records of strings.                                *)
Validate1(schema, v) == ValidateType(schema, v, LAMBDA part, w : FALSE)
Validate2(schema, v) == ValidateType(schema, v, Validate1)
Validate3(schema, v) == ValidateType(schema, v, Validate2)
Validate4(schema, v) == ValidateType(schema, v, Validate3)
Validate(schema, v) == ValidateType(schema, v, Validate4)

-----------------------------------------------------------------------------
StringField == Required(Primitive("string"))
OptionalField == Defaulted(Union(<<Primitive("null"), Primitive("string")>>))
MapField == Defaulted(MapOf(Primitive("string")))
ListField == Defaulted(ArrayOf(Primitive("string")))

SubjectSchema ==
  RecordOf([type |-> StringField, id |-> StringField, attributes |-> MapField])

RequestSchema ==
  RecordOf([action |-> StringField, resource |-> StringField,
            environment |-> StringField, attributes |-> MapField])

PolicySchema ==
  RecordOf([engine         |-> StringField,
            bundle_version |-> OptionalField,
            bundle_hash    |-> StringField,
            decision       |-> StringField,
            rationale      |-> Defaulted(ArrayOf(RecordOf(
                                 [code |-> StringField, message |-> StringField])))])

DecisionTraceSchema ==
  RecordOf([schema_version      |-> StringField,
            event_id            |-> StringField,
            event_time          |-> StringField,
            correlation_id      |-> StringField,
            trace_id            |-> StringField,
            span_id             |-> OptionalField,
            subject             |-> Required(SubjectSchema),
            request             |-> Required(RequestSchema),
            policy              |-> Required(PolicySchema),
            data_classification |-> StringField,
            pii_flags           |-> ListField,
            evidence_refs       |-> ListField])

EvidenceSchema ==
  RecordOf([schema_version |-> StringField,
            event_id       |-> StringField,
            event_time     |-> StringField,
            correlation_id |-> StringField,
            trace_id       |-> StringField,
            span_id        |-> OptionalField,
            evidence_type  |-> StringField,
            action         |-> StringField,
            result         |-> StringField,
            details        |-> MapField,
            workload       |-> Required(RecordOf(
                                 [service_name |-> StringField,
                                  version      |-> OptionalField,
                                  image_digest |-> OptionalField]))])
=============================================================================
