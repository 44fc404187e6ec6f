--------------------------- MODULE ContractProofs ---------------------------
(***************************************************************************)
(* Proofs about the documents of the decision loop, for any documents that *)
(* are sent.                                                               *)
(*                                                                         *)
(* The schemas, the structs and the table of paths are data that operators *)
(* walk.  Each walk is first shown to ask what a flat predicate asks, key  *)
(* by key: IsTrace and IsEvidence for the validator, the lemmas Encoded... *)
(* for what the gateway and a worker write, WorkerReads and RequestReads   *)
(* for what is read.  From then on only the flat facts are compared: the   *)
(* schema with what is written (EncodedTrace, EncodedEvidence), with the   *)
(* table (WalkConforms, ConformsWalk), and with what a worker decodes      *)
(* (TraceDecodes).                                                         *)
(*                                                                         *)
(* The invariant then says of a trace of the gateway that the schema       *)
(* accepts it and which texts are in it, and of any trace that the texts a *)
(* worker reads are texts.                                                 *)
(***************************************************************************)
EXTENDS Contract, TLAPS

-----------------------------------------------------------------------------
(* What the schemas ask of a document, key by key.                          *)

IsString(v) == IsKind(v, "string")
IsOptional(v) == IsKind(v, "null") \/ IsKind(v, "string")
IsStringMap(v) == IsKind(v, "object") /\ StringsIn(v.object)
IsStringList(v) == IsKind(v, "array") /\ StringsIn(v.array)

(* An object with strings at all of names and nothing outside of all.       *)
HasStrings(v, names, all) ==
  /\ IsKind(v, "object")
  /\ names \subseteq DOMAIN v.object /\ DOMAIN v.object \subseteq all
  /\ \A name \in names : IsString(v.object[name])

IsSubject(v) ==
  /\ HasStrings(v, {"type", "id"}, {"type", "id", "attributes"})
  /\ "attributes" \in DOMAIN v.object => IsStringMap(v.object["attributes"])

IsRequest(v) ==
  /\ HasStrings(v, {"action", "resource", "environment"},
                   {"action", "resource", "environment", "attributes"})
  /\ "attributes" \in DOMAIN v.object => IsStringMap(v.object["attributes"])

IsRationaleList(v) ==
  IsKind(v, "array") /\ \A i \in DOMAIN v.array : IsRationale(v.array[i])

IsPolicy(v) ==
  /\ HasStrings(v, {"engine", "bundle_hash", "decision"},
                   {"engine", "bundle_hash", "decision", "bundle_version",
                    "rationale"})
  /\ "bundle_version" \in DOMAIN v.object => IsOptional(v.object["bundle_version"])
  /\ "rationale" \in DOMAIN v.object => IsRationaleList(v.object["rationale"])

TraceTexts == {"schema_version", "event_id", "event_time", "correlation_id",
               "trace_id", "data_classification"}
TraceNames == TraceTexts \cup {"span_id", "subject", "request", "policy",
                               "pii_flags", "evidence_refs"}

IsTrace(v) ==
  /\ HasStrings(v, TraceTexts, TraceNames)
  /\ "span_id" \in DOMAIN v.object => IsOptional(v.object["span_id"])
  /\ {"subject", "request", "policy"} \subseteq DOMAIN v.object
  /\ IsSubject(v.object["subject"])
  /\ IsRequest(v.object["request"])
  /\ IsPolicy(v.object["policy"])
  /\ "pii_flags" \in DOMAIN v.object => IsStringList(v.object["pii_flags"])
  /\ "evidence_refs" \in DOMAIN v.object => IsStringList(v.object["evidence_refs"])

IsWorkload(v) ==
  /\ HasStrings(v, {"service_name"}, {"service_name", "version", "image_digest"})
  /\ "version" \in DOMAIN v.object => IsOptional(v.object["version"])
  /\ "image_digest" \in DOMAIN v.object => IsOptional(v.object["image_digest"])

EvidenceTexts == {"schema_version", "event_id", "event_time", "correlation_id",
                  "trace_id", "evidence_type", "action", "result"}
EvidenceNames == EvidenceTexts \cup {"span_id", "details", "workload"}

IsEvidence(v) ==
  /\ HasStrings(v, EvidenceTexts, EvidenceNames)
  /\ "span_id" \in DOMAIN v.object => IsOptional(v.object["span_id"])
  /\ "details" \in DOMAIN v.object => IsStringMap(v.object["details"])
  /\ "workload" \in DOMAIN v.object
  /\ IsWorkload(v.object["workload"])

-----------------------------------------------------------------------------
(* The validator asks for no more and no less.                              *)

(* Of a string, wherever the schemas have one.                              *)
LEMMA PrimitiveCheck ==
  ASSUME NEW v
  PROVE  /\ Validate1(Primitive("string"), v) <=> IsString(v)
         /\ Validate2(Primitive("string"), v) <=> IsString(v)
         /\ Validate3(Primitive("string"), v) <=> IsString(v)
         /\ Validate4(Primitive("string"), v) <=> IsString(v)
         /\ Validate2(Primitive("null"), v) <=> IsKind(v, "null")
         /\ Validate3(Primitive("null"), v) <=> IsKind(v, "null")
<1> USE DEF ValidateType, Primitive, ValidatePrimitive, ValidateUnion,
            ValidateRecord, ValidateArray, ValidateMap, IsKind
<1>1. Validate1(Primitive("string"), v) <=> IsString(v)
  BY DEF Validate1, IsString
<1>2. Validate2(Primitive("string"), v) <=> IsString(v)
  BY DEF Validate2, IsString
<1>3. Validate3(Primitive("string"), v) <=> IsString(v)
  BY DEF Validate3, IsString
<1>4. Validate4(Primitive("string"), v) <=> IsString(v)
  BY DEF Validate4, IsString
<1>5. Validate2(Primitive("null"), v) <=> IsKind(v, "null")
  BY DEF Validate2
<1>6. Validate3(Primitive("null"), v) <=> IsKind(v, "null")
  BY DEF Validate3
<1> QED
  BY <1>1, <1>2, <1>3, <1>4, <1>5, <1>6

(* Of a string that may be null.                                            *)
LEMMA UnionCheck ==
  ASSUME NEW v
  PROVE  /\ Validate3(OptionalField.type, v) <=> IsOptional(v)
         /\ Validate4(OptionalField.type, v) <=> IsOptional(v)
<1> DEFINE U == <<Primitive("null"), Primitive("string")>>
<1>1. /\ DOMAIN U = {1, 2}
      /\ U[1] = Primitive("null") /\ U[2] = Primitive("string")
  OBVIOUS
<1>2. OptionalField.type = Union(U)
  BY DEF OptionalField, Defaulted
<1> HIDE DEF U
<1> USE DEF ValidateType, ValidateUnion, ValidateRecord, ValidateArray,
            ValidateMap, Union, IsKind
<1>3. Validate3(Union(U), v) <=> \E i \in DOMAIN U : Validate2(U[i], v)
  BY DEF Validate3
<1>4. Validate4(Union(U), v) <=> \E i \in DOMAIN U : Validate3(U[i], v)
  BY DEF Validate4
<1> QED
  BY <1>1, <1>2, <1>3, <1>4, PrimitiveCheck DEF IsOptional, IsString

(* Of a map of strings and a list of strings.                               *)
LEMMA ManyCheck ==
  ASSUME NEW v
  PROVE  /\ Validate3(MapField.type, v) <=> IsStringMap(v)
         /\ Validate4(MapField.type, v) <=> IsStringMap(v)
         /\ Validate4(ListField.type, v) <=> IsStringList(v)
<1>1. /\ MapField.type = MapOf(Primitive("string"))
      /\ ListField.type = ArrayOf(Primitive("string"))
  BY DEF MapField, ListField, Defaulted
<1> USE DEF ValidateType, ValidateUnion, ValidateRecord, ValidateArray,
            ValidateMap, MapOf, ArrayOf
<1>2. /\ Validate3(MapOf(Primitive("string")), v)
           <=> /\ IsKind(v, "object")
               /\ \A key \in DOMAIN v.object :
                    Validate2(Primitive("string"), v.object[key])
      /\ Validate4(MapOf(Primitive("string")), v)
           <=> /\ IsKind(v, "object")
               /\ \A key \in DOMAIN v.object :
                    Validate3(Primitive("string"), v.object[key])
  BY DEF Validate3, Validate4, IsKind
<1>3. Validate4(ArrayOf(Primitive("string")), v)
        <=> /\ IsKind(v, "array")
            /\ \A i \in DOMAIN v.array : Validate3(Primitive("string"), v.array[i])
  BY DEF Validate4, IsKind
<1> QED
  BY <1>1, <1>2, <1>3, PrimitiveCheck
     DEF IsStringMap, IsStringList, StringsIn, IsString

(* A record, key by key.                                                    *)
LEMMA RecordCheck ==
  ASSUME NEW F, NEW v
  PROVE  /\ Validate2(RecordOf(F), v)
              <=> /\ IsKind(v, "object") /\ DOMAIN v.object \subseteq DOMAIN F
                  /\ \A name \in DOMAIN F :
                       IF name \in DOMAIN v.object
                       THEN Validate1(F[name].type, v.object[name])
                       ELSE MayBeMissing(F[name])
         /\ Validate4(RecordOf(F), v)
              <=> /\ IsKind(v, "object") /\ DOMAIN v.object \subseteq DOMAIN F
                  /\ \A name \in DOMAIN F :
                       IF name \in DOMAIN v.object
                       THEN Validate3(F[name].type, v.object[name])
                       ELSE MayBeMissing(F[name])
         /\ Validate(RecordOf(F), v)
              <=> /\ IsKind(v, "object") /\ DOMAIN v.object \subseteq DOMAIN F
                  /\ \A name \in DOMAIN F :
                       IF name \in DOMAIN v.object
                       THEN Validate4(F[name].type, v.object[name])
                       ELSE MayBeMissing(F[name])
<1> USE DEF ValidateType, ValidateUnion, ValidateRecord, ValidateArray,
            ValidateMap, NoOtherKey, RecordOf, IsKind
<1>1. Validate2(RecordOf(F), v)
        <=> /\ IsKind(v, "object") /\ DOMAIN v.object \subseteq DOMAIN F
            /\ \A name \in DOMAIN F :
                 IF name \in DOMAIN v.object
                 THEN Validate1(F[name].type, v.object[name])
                 ELSE MayBeMissing(F[name])
  BY DEF Validate2
<1>2. Validate4(RecordOf(F), v)
        <=> /\ IsKind(v, "object") /\ DOMAIN v.object \subseteq DOMAIN F
            /\ \A name \in DOMAIN F :
                 IF name \in DOMAIN v.object
                 THEN Validate3(F[name].type, v.object[name])
                 ELSE MayBeMissing(F[name])
  BY DEF Validate4
<1>3. Validate(RecordOf(F), v)
        <=> /\ IsKind(v, "object") /\ DOMAIN v.object \subseteq DOMAIN F
            /\ \A name \in DOMAIN F :
                 IF name \in DOMAIN v.object
                 THEN Validate4(F[name].type, v.object[name])
                 ELSE MayBeMissing(F[name])
  BY DEF Validate
<1> QED
  BY <1>1, <1>2, <1>3

(* Only a string field is missed.                                           *)
LEMMA FieldTypes ==
  /\ StringField.type = Primitive("string")
  /\ ~MayBeMissing(StringField)
  /\ MayBeMissing(OptionalField) /\ MayBeMissing(MapField)
  /\ MayBeMissing(ListField)
  /\ \A fields : /\ Required(RecordOf(fields)).type = RecordOf(fields)
                 /\ ~MayBeMissing(Required(RecordOf(fields)))
  /\ \A items : /\ Defaulted(ArrayOf(items)).type = ArrayOf(items)
                /\ MayBeMissing(Defaulted(ArrayOf(items)))
BY DEF StringField, OptionalField, MapField, ListField, MayBeMissing, Required,
       Defaulted, UnionAllowsNull, IsKind, Primitive, RecordOf, ArrayOf

(* Of the subject of a trace.                                               *)
LEMMA SubjectCheck ==
  ASSUME NEW v
  PROVE  Validate4(SubjectSchema, v) <=> IsSubject(v)
<1> DEFINE F == [type |-> StringField, id |-> StringField, attributes |-> MapField]
<1>1. /\ DOMAIN F = {"type", "id", "attributes"}
      /\ F["type"] = StringField /\ F["id"] = StringField
      /\ F["attributes"] = MapField
  OBVIOUS
<1>2. SubjectSchema = RecordOf(F)
  BY DEF SubjectSchema
<1> HIDE DEF F
<1> QED
  BY <1>1, <1>2, RecordCheck, FieldTypes, PrimitiveCheck, ManyCheck
     DEF IsSubject, HasStrings

(* Of its request.                                                          *)
LEMMA RequestCheck ==
  ASSUME NEW v
  PROVE  Validate4(RequestSchema, v) <=> IsRequest(v)
<1> DEFINE F == [action |-> StringField, resource |-> StringField,
                 environment |-> StringField, attributes |-> MapField]
<1>1. /\ DOMAIN F = {"action", "resource", "environment", "attributes"}
      /\ F["action"] = StringField /\ F["resource"] = StringField
      /\ F["environment"] = StringField /\ F["attributes"] = MapField
  OBVIOUS
<1>2. RequestSchema = RecordOf(F)
  BY DEF RequestSchema
<1> HIDE DEF F
<1> QED
  BY <1>1, <1>2, RecordCheck, FieldTypes, PrimitiveCheck, ManyCheck
     DEF IsRequest, HasStrings

(* Of the rationale of its policy decision.                                 *)
LEMMA RationaleCheck ==
  ASSUME NEW v
  PROVE  Validate3(ArrayOf(RecordOf([code    |-> StringField,
                                     message |-> StringField])), v)
           <=> IsRationaleList(v)
<1> DEFINE F == [code |-> StringField, message |-> StringField]
<1>1. /\ DOMAIN F = {"code", "message"}
      /\ F["code"] = StringField /\ F["message"] = StringField
  OBVIOUS
<1> HIDE DEF F
<1>2. \A w : Validate2(RecordOf(F), w) <=> IsRationale(w)
  BY <1>1, RecordCheck, FieldTypes, PrimitiveCheck
     DEF IsRationale, StringsIn, IsString
<1>3. Validate3(ArrayOf(RecordOf(F)), v)
        <=> /\ IsKind(v, "array")
            /\ \A i \in DOMAIN v.array : Validate2(RecordOf(F), v.array[i])
  BY DEF Validate3, ValidateType, ValidateUnion, ValidateRecord, ValidateArray,
         ValidateMap, ArrayOf, IsKind
<1> QED
  BY <1>2, <1>3 DEF IsRationaleList, F

(* Of its policy decision.                                                  *)
LEMMA PolicyCheck ==
  ASSUME NEW v
  PROVE  Validate4(PolicySchema, v) <=> IsPolicy(v)
<1> DEFINE A == ArrayOf(RecordOf([code |-> StringField, message |-> StringField]))
           F == [engine |-> StringField, bundle_version |-> OptionalField,
                 bundle_hash |-> StringField, decision |-> StringField,
                 rationale |-> Defaulted(A)]
<1>1. /\ DOMAIN F = {"engine", "bundle_version", "bundle_hash", "decision",
                     "rationale"}
      /\ F["engine"] = StringField /\ F["bundle_version"] = OptionalField
      /\ F["bundle_hash"] = StringField /\ F["decision"] = StringField
      /\ F["rationale"] = Defaulted(A)
  OBVIOUS
<1>2. PolicySchema = RecordOf(F)
  BY DEF PolicySchema
<1>3. /\ Defaulted(A).type = A /\ MayBeMissing(Defaulted(A))
      /\ \A w : Validate3(A, w) <=> IsRationaleList(w)
  BY FieldTypes, RationaleCheck
<1> HIDE DEF A, F
<1> QED
  BY <1>1, <1>2, <1>3, RecordCheck, FieldTypes, PrimitiveCheck, UnionCheck
     DEF IsPolicy, HasStrings

(* Of the workload of an evidence event.                                    *)
LEMMA WorkloadCheck ==
  ASSUME NEW v
  PROVE  Validate4(EvidenceSchema.fields["workload"].type, v) <=> IsWorkload(v)
<1> DEFINE F == [service_name |-> StringField, version |-> OptionalField,
                 image_digest |-> OptionalField]
<1>1. /\ DOMAIN F = {"service_name", "version", "image_digest"}
      /\ F["service_name"] = StringField /\ F["version"] = OptionalField
      /\ F["image_digest"] = OptionalField
  OBVIOUS
<1>2. EvidenceSchema.fields["workload"].type = RecordOf(F)
  BY DEF EvidenceSchema, RecordOf, Required
<1> HIDE DEF F
<1> QED
  BY <1>1, <1>2, RecordCheck, FieldTypes, PrimitiveCheck, UnionCheck
     DEF IsWorkload, HasStrings

(* The validator accepts a decision trace if it has, key by key, what       *)
(* IsTrace says, and only then.                                             *)
LEMMA TraceCheck ==
  ASSUME NEW v
  PROVE  Validate(DecisionTraceSchema, v) <=> IsTrace(v)
<1> DEFINE F == DecisionTraceSchema.fields
<1>1. DOMAIN F = TraceNames
  BY DEF DecisionTraceSchema, RecordOf, TraceNames, TraceTexts
<1>2. /\ \A name \in TraceTexts : F[name] = StringField
      /\ F["span_id"] = OptionalField
      /\ F["pii_flags"] = ListField /\ F["evidence_refs"] = ListField
  BY DEF DecisionTraceSchema, RecordOf, TraceTexts
<1>3. /\ F["subject"] = Required(SubjectSchema)
      /\ F["request"] = Required(RequestSchema)
      /\ F["policy"] = Required(PolicySchema)
  BY DEF DecisionTraceSchema, RecordOf
<1>4. /\ Required(SubjectSchema).type = SubjectSchema
      /\ Required(RequestSchema).type = RequestSchema
      /\ Required(PolicySchema).type = PolicySchema
      /\ ~MayBeMissing(Required(SubjectSchema))
      /\ ~MayBeMissing(Required(RequestSchema))
      /\ ~MayBeMissing(Required(PolicySchema))
  BY FieldTypes DEF SubjectSchema, RequestSchema, PolicySchema
<1>5. DecisionTraceSchema = RecordOf(F)
  BY DEF DecisionTraceSchema, RecordOf
<1> HIDE DEF F
<1> DEFINE Fits(name) ==
             IF name \in DOMAIN v.object
             THEN Validate4(F[name].type, v.object[name])
             ELSE MayBeMissing(F[name])
<1>6. /\ \A name \in TraceTexts :
           Fits(name) <=> name \in DOMAIN v.object /\ IsString(v.object[name])
      /\ Fits("span_id")
           <=> ("span_id" \in DOMAIN v.object => IsOptional(v.object["span_id"]))
      /\ \A name \in {"pii_flags", "evidence_refs"} :
           Fits(name) <=> (name \in DOMAIN v.object => IsStringList(v.object[name]))
  BY <1>2, FieldTypes, PrimitiveCheck, UnionCheck, ManyCheck
<1>7. /\ Fits("subject")
           <=> "subject" \in DOMAIN v.object /\ IsSubject(v.object["subject"])
      /\ Fits("request")
           <=> "request" \in DOMAIN v.object /\ IsRequest(v.object["request"])
      /\ Fits("policy")
           <=> "policy" \in DOMAIN v.object /\ IsPolicy(v.object["policy"])
  BY <1>3, <1>4, SubjectCheck, RequestCheck, PolicyCheck
<1>8. Validate(DecisionTraceSchema, v)
        <=> /\ IsKind(v, "object") /\ DOMAIN v.object \subseteq TraceNames
            /\ \A name \in TraceNames : Fits(name)
  BY <1>1, <1>5, RecordCheck
<1> HIDE DEF Fits
<1> QED
  BY <1>6, <1>7, <1>8 DEF IsTrace, HasStrings, TraceNames

(* The validator accepts an evidence event if it has, key by key, what      *)
(* IsEvidence says, and only then.                                          *)
LEMMA EvidenceCheck ==
  ASSUME NEW v
  PROVE  Validate(EvidenceSchema, v) <=> IsEvidence(v)
<1> DEFINE F == EvidenceSchema.fields
<1>1. DOMAIN F = EvidenceNames
  BY DEF EvidenceSchema, RecordOf, EvidenceNames, EvidenceTexts
<1>2. /\ \A name \in EvidenceTexts : F[name] = StringField
      /\ F["span_id"] = OptionalField /\ F["details"] = MapField
  BY DEF EvidenceSchema, RecordOf, EvidenceTexts
<1>3. ~MayBeMissing(F["workload"])
  BY FieldTypes DEF EvidenceSchema, RecordOf
<1>4. EvidenceSchema = RecordOf(F)
  BY DEF EvidenceSchema, RecordOf
<1>5. \A w : Validate4(F["workload"].type, w) <=> IsWorkload(w)
  BY WorkloadCheck
<1> HIDE DEF F
<1> DEFINE Fits(name) ==
             IF name \in DOMAIN v.object
             THEN Validate4(F[name].type, v.object[name])
             ELSE MayBeMissing(F[name])
<1>6. /\ \A name \in EvidenceTexts :
           Fits(name) <=> name \in DOMAIN v.object /\ IsString(v.object[name])
      /\ Fits("span_id")
           <=> ("span_id" \in DOMAIN v.object => IsOptional(v.object["span_id"]))
      /\ Fits("details")
           <=> ("details" \in DOMAIN v.object => IsStringMap(v.object["details"]))
      /\ Fits("workload")
           <=> "workload" \in DOMAIN v.object /\ IsWorkload(v.object["workload"])
  BY <1>2, <1>3, <1>5, FieldTypes, PrimitiveCheck, UnionCheck, ManyCheck
<1>7. Validate(EvidenceSchema, v)
        <=> /\ IsKind(v, "object") /\ DOMAIN v.object \subseteq EvidenceNames
            /\ \A name \in EvidenceNames : Fits(name)
  BY <1>1, <1>4, RecordCheck
<1> HIDE DEF Fits
<1> QED
  BY <1>6, <1>7 DEF IsEvidence, HasStrings, EvidenceNames

-----------------------------------------------------------------------------
(* What is made of a struct, key by key.                                    *)

(* A field that is not left out.                                            *)
Stays(field, x) == field.omitempty => ~IsEmpty(field.type, x)

(* A field is of the type it is declared with; without omitempty it always  *)
(* stays.                                                                   *)
LEMMA GoTypes ==
  /\ \A type : Kept(type).type = type /\ OmitEmpty(type).type = type
  /\ \A type, x : Stays(Kept(type), x)
  /\ \A x : Stays(OmitEmpty(GoPointer), x) <=> x # Nil
  /\ \A x : Stays(OmitEmpty(GoMap), x) <=> x # Nil /\ DOMAIN x.map # {}
  /\ \A of, x : Stays(OmitEmpty(GoList(of)), x) <=> x # Nil /\ x.list # << >>
BY DEF Kept, OmitEmpty, Stays, IsEmpty, GoPointer, GoMap, GoList, Nil

(* A struct becomes an object of the fields that stay, on each level of     *)
(* the recursion where there is a struct.                                   *)
LEMMA EncodedStruct ==
  ASSUME NEW F, NEW x
  PROVE  /\ LET v == Encoded(GoStruct(F), x)
            IN  /\ IsKind(v, "object")
                /\ DOMAIN v.object = {name \in DOMAIN F : Stays(F[name], x[name])}
                /\ \A name \in DOMAIN v.object :
                     v.object[name] = Encoded4(F[name].type, x[name])
         /\ LET v == Encoded4(GoStruct(F), x)
            IN  /\ IsKind(v, "object")
                /\ DOMAIN v.object = {name \in DOMAIN F : Stays(F[name], x[name])}
                /\ \A name \in DOMAIN v.object :
                     v.object[name] = Encoded3(F[name].type, x[name])
         /\ LET v == Encoded2(GoStruct(F), x)
            IN  /\ IsKind(v, "object")
                /\ DOMAIN v.object = {name \in DOMAIN F : Stays(F[name], x[name])}
                /\ \A name \in DOMAIN v.object :
                     v.object[name] = Encoded1(F[name].type, x[name])
<1> DEFINE N == {name \in DOMAIN F : Stays(F[name], x[name])}
<1>1. Encoded(GoStruct(F), x) = Obj([name \in N |-> Encoded4(F[name].type, x[name])])
  BY DEF Encoded, EncodedType, GoStruct, Stays
<1>2. Encoded4(GoStruct(F), x) = Obj([name \in N |-> Encoded3(F[name].type, x[name])])
  BY DEF Encoded4, EncodedType, GoStruct, Stays
<1>3. Encoded2(GoStruct(F), x) = Obj([name \in N |-> Encoded1(F[name].type, x[name])])
  BY DEF Encoded2, EncodedType, GoStruct, Stays
<1>4. \A f : IsKind(Obj(f), "object") /\ Obj(f).object = f
  BY DEF Obj, IsKind
<1> HIDE DEF N
<1> QED
  BY <1>1, <1>2, <1>3, <1>4 DEF N

(* A string becomes a string, and a pointer that is nil null.               *)
LEMMA EncodedText ==
  ASSUME NEW x
  PROVE  /\ Encoded1(GoString, x) = Str(x)
         /\ Encoded3(GoString, x) = Str(x)
         /\ Encoded4(GoString, x) = Str(x)
         /\ Encoded3(GoPointer, x) = IF x = Nil THEN Null ELSE Str(x.ptr)
         /\ Encoded4(GoPointer, x) = IF x = Nil THEN Null ELSE Str(x.ptr)
<1> USE DEF EncodedType, GoString, GoPointer
<1>1. /\ Encoded1(GoString, x) = Str(x)
      /\ Encoded3(GoString, x) = Str(x)
      /\ Encoded4(GoString, x) = Str(x)
  BY DEF Encoded1, Encoded3, Encoded4
<1>2. Encoded3(GoPointer, x) = IF x = Nil THEN Null ELSE Str(x.ptr)
  BY DEF Encoded3
<1>3. Encoded4(GoPointer, x) = IF x = Nil THEN Null ELSE Str(x.ptr)
  BY DEF Encoded4
<1> QED
  BY <1>1, <1>2, <1>3

(* A map becomes an object of strings, a list an array.                     *)
LEMMA EncodedMany ==
  ASSUME NEW x, x # Nil
  PROVE  /\ Encoded3(GoMap, x) = Obj([key \in DOMAIN x.map |-> Str(x.map[key])])
         /\ Encoded4(GoMap, x) = Obj([key \in DOMAIN x.map |-> Str(x.map[key])])
         /\ \A of : /\ Encoded3(GoList(of), x)
                         = Arr([i \in DOMAIN x.list |-> Encoded2(of, x.list[i])])
                    /\ Encoded4(GoList(of), x)
                         = Arr([i \in DOMAIN x.list |-> Encoded3(of, x.list[i])])
<1> USE DEF EncodedType, GoMap, GoList
<1>1. Encoded3(GoMap, x) = Obj([key \in DOMAIN x.map |-> Str(x.map[key])])
  BY DEF Encoded3
<1>2. Encoded4(GoMap, x) = Obj([key \in DOMAIN x.map |-> Str(x.map[key])])
  BY DEF Encoded4
<1>3. ASSUME NEW of
      PROVE  Encoded3(GoList(of), x)
               = Arr([i \in DOMAIN x.list |-> Encoded2(of, x.list[i])])
  BY DEF Encoded3
<1>4. ASSUME NEW of
      PROVE  Encoded4(GoList(of), x)
               = Arr([i \in DOMAIN x.list |-> Encoded3(of, x.list[i])])
  BY DEF Encoded4
<1> QED
  BY <1>1, <1>2, <1>3, <1>4

(* What is made of texts, maps and lists has the kinds the schemas ask for. *)
LEMMA EncodedKinds ==
  /\ \A s : IsString(Str(s)) /\ Str(s).string = s
  /\ \A x : /\ IsOptional(Encoded3(GoPointer, x))
            /\ IsOptional(Encoded4(GoPointer, x))
  /\ \A x : x # Nil => /\ IsStringMap(Encoded3(GoMap, x))
                       /\ IsStringMap(Encoded4(GoMap, x))
                       /\ IsStringList(Encoded4(GoList(GoString), x))
                       /\ IsRationaleList(Encoded3(GoList(RationaleItem), x))
<1>1. \A s : IsString(Str(s)) /\ Str(s).string = s
  BY DEF IsString, IsKind, Str
<1>2. \A f : /\ IsKind(Obj(f), "object") /\ Obj(f).object = f
             /\ IsKind(Arr(f), "array") /\ Arr(f).array = f
  BY DEF Obj, Arr, IsKind
<1>3. IsKind(Null, "null")
  BY DEF Null, IsKind
<1>4. ASSUME NEW x
      PROVE  IsRationale(Encoded2(RationaleItem, x))
  <2> DEFINE F == [code |-> Kept(GoString), message |-> Kept(GoString)]
             v == Encoded2(RationaleItem, x)
  <2>1. /\ DOMAIN F = {"code", "message"}
        /\ F["code"] = Kept(GoString) /\ F["message"] = Kept(GoString)
    OBVIOUS
  <2>2. RationaleItem = GoStruct(F)
    BY DEF RationaleItem
  <2> HIDE DEF F
  <2>3. /\ IsKind(v, "object")
        /\ DOMAIN v.object = {name \in DOMAIN F : Stays(F[name], x[name])}
        /\ \A name \in DOMAIN v.object :
             v.object[name] = Encoded1(F[name].type, x[name])
    BY <2>2, EncodedStruct
  <2> HIDE DEF v
  <2>4. \A name \in {"code", "message"} : Stays(F[name], x[name])
    BY <2>1, GoTypes
  <2>5. DOMAIN v.object = {"code", "message"}
    BY <2>1, <2>3, <2>4
  <2>6. \A name \in {"code", "message"} : v.object[name] = Str(x[name])
    BY <2>1, <2>3, <2>5, GoTypes, EncodedText
  <2>7. IsRationale(v)
    BY <1>1, <2>3, <2>5, <2>6 DEF IsRationale, StringsIn, IsString
  <2> QED
    BY <2>7 DEF v
<1>5. ASSUME NEW x
      PROVE  IsOptional(Encoded3(GoPointer, x)) /\ IsOptional(Encoded4(GoPointer, x))
  BY <1>1, <1>3, EncodedText DEF IsOptional, IsString
<1>6. ASSUME NEW x, x # Nil
      PROVE  /\ IsStringMap(Encoded3(GoMap, x))
             /\ IsStringMap(Encoded4(GoMap, x))
  <2> DEFINE m == [key \in DOMAIN x.map |-> Str(x.map[key])]
  <2>1. StringsIn(m)
    BY <1>1 DEF StringsIn, IsString
  <2>2. Encoded3(GoMap, x) = Obj(m) /\ Encoded4(GoMap, x) = Obj(m)
    BY <1>6, EncodedMany
  <2> HIDE DEF m
  <2> QED
    BY <1>2, <2>1, <2>2 DEF IsStringMap
<1>7. ASSUME NEW x, x # Nil
      PROVE  IsStringList(Encoded4(GoList(GoString), x))
  <2> DEFINE m == [i \in DOMAIN x.list |-> Encoded3(GoString, x.list[i])]
  <2>1. StringsIn(m)
    BY <1>1, EncodedText DEF StringsIn, IsString
  <2>2. Encoded4(GoList(GoString), x) = Arr(m)
    BY <1>7, EncodedMany
  <2> HIDE DEF m
  <2> QED
    BY <1>2, <2>1, <2>2 DEF IsStringList
<1>8. ASSUME NEW x, x # Nil
      PROVE  IsRationaleList(Encoded3(GoList(RationaleItem), x))
  <2> DEFINE m == [i \in DOMAIN x.list |-> Encoded2(RationaleItem, x.list[i])]
  <2>1. \A i \in DOMAIN m : IsRationale(m[i])
    BY <1>4
  <2>2. Encoded3(GoList(RationaleItem), x) = Arr(m)
    BY <1>8, EncodedMany
  <2> HIDE DEF m
  <2> QED
    BY <1>2, <2>1, <2>2 DEF IsRationaleList
<1> QED
  BY <1>1, <1>5, <1>6, <1>7, <1>8

(* A struct whose fields keep or lose what is empty, for the parts of a     *)
(* trace.                                                                   *)
LEMMA EncodedSubject ==
  ASSUME NEW x
  PROVE  LET v == Encoded4(Subject, x)
         IN  /\ IsSubject(v)
             /\ v.object["type"] = Str(x.type) /\ v.object["id"] = Str(x.id)
<1> DEFINE F == [type |-> Kept(GoString), id |-> Kept(GoString),
                 attributes |-> OmitEmpty(GoMap)]
           v == Encoded4(Subject, x)
<1>1. /\ DOMAIN F = {"type", "id", "attributes"}
      /\ F["type"] = Kept(GoString) /\ F["id"] = Kept(GoString)
      /\ F["attributes"] = OmitEmpty(GoMap)
  OBVIOUS
<1>2. Subject = GoStruct(F)
  BY DEF Subject
<1> HIDE DEF F
<1>3. /\ IsKind(v, "object")
      /\ DOMAIN v.object = {name \in DOMAIN F : Stays(F[name], x[name])}
      /\ \A name \in DOMAIN v.object :
           v.object[name] = Encoded3(F[name].type, x[name])
  BY <1>2, EncodedStruct
<1> HIDE DEF v
<1>4. /\ \A name \in {"type", "id"} : Stays(F[name], x[name])
      /\ Stays(F["attributes"], x["attributes"]) => x["attributes"] # Nil
  BY <1>1, GoTypes
<1>5. /\ {"type", "id"} \subseteq DOMAIN v.object
      /\ DOMAIN v.object \subseteq DOMAIN F
      /\ "attributes" \in DOMAIN v.object => x["attributes"] # Nil
  BY <1>1, <1>3, <1>4
<1>6. \A name \in {"type", "id"} : v.object[name] = Str(x[name])
  BY <1>1, <1>3, <1>5, GoTypes, EncodedText
<1>7. "attributes" \in DOMAIN v.object => IsStringMap(v.object["attributes"])
  BY <1>1, <1>3, <1>5, GoTypes, EncodedKinds
<1> QED
  BY <1>1, <1>3, <1>5, <1>6, <1>7, EncodedKinds DEF IsSubject, HasStrings, v

(* The request of a trace.                                                  *)
LEMMA EncodedRequest ==
  ASSUME NEW x
  PROVE  LET v == Encoded4(Request, x)
         IN  /\ IsRequest(v)
             /\ v.object["action"] = Str(x.action)
             /\ v.object["resource"] = Str(x.resource)
             /\ v.object["environment"] = Str(x.environment)
<1> DEFINE F == [action |-> Kept(GoString), resource |-> Kept(GoString),
                 environment |-> Kept(GoString), attributes |-> OmitEmpty(GoMap)]
           v == Encoded4(Request, x)
           T == {"action", "resource", "environment"}
<1>1. /\ DOMAIN F = T \cup {"attributes"}
      /\ \A name \in T : F[name] = Kept(GoString)
      /\ F["attributes"] = OmitEmpty(GoMap)
  OBVIOUS
<1>2. Request = GoStruct(F)
  BY DEF Request
<1> HIDE DEF F
<1>3. /\ IsKind(v, "object")
      /\ DOMAIN v.object = {name \in DOMAIN F : Stays(F[name], x[name])}
      /\ \A name \in DOMAIN v.object :
           v.object[name] = Encoded3(F[name].type, x[name])
  BY <1>2, EncodedStruct
<1> HIDE DEF v
<1>4. /\ \A name \in T : Stays(F[name], x[name])
      /\ Stays(F["attributes"], x["attributes"]) => x["attributes"] # Nil
  BY <1>1, GoTypes
<1>5. /\ T \subseteq DOMAIN v.object
      /\ DOMAIN v.object \subseteq T \cup {"attributes"}
      /\ "attributes" \in DOMAIN v.object => x["attributes"] # Nil
  BY <1>1, <1>3, <1>4
<1>6. \A name \in T : v.object[name] = Str(x[name])
  BY <1>1, <1>3, <1>5, GoTypes, EncodedText
<1>7. "attributes" \in DOMAIN v.object => IsStringMap(v.object["attributes"])
  BY <1>1, <1>3, <1>5, GoTypes, EncodedKinds
<1> QED
  BY <1>3, <1>5, <1>6, <1>7, EncodedKinds DEF IsRequest, HasStrings, v

(* The policy decision of a trace.                                          *)
LEMMA EncodedPolicy ==
  ASSUME NEW x
  PROVE  LET v == Encoded4(PolicyDecision, x)
         IN  /\ IsPolicy(v)
             /\ v.object["engine"] = Str(x.engine)
             /\ v.object["bundle_hash"] = Str(x.bundle_hash)
             /\ v.object["decision"] = Str(x.decision)
<1> DEFINE F == PolicyDecision.fields
           v == Encoded4(PolicyDecision, x)
           T == {"engine", "bundle_hash", "decision"}
<1>1. /\ DOMAIN F = T \cup {"bundle_version", "rationale"}
      /\ \A name \in T : F[name] = Kept(GoString)
      /\ F["bundle_version"] = OmitEmpty(GoPointer)
      /\ F["rationale"] = OmitEmpty(GoList(RationaleItem))
  BY DEF PolicyDecision, PolicyFields, Joined, GoStruct
<1>2. PolicyDecision = GoStruct(F)
  BY DEF PolicyDecision, GoStruct
<1> HIDE DEF F
<1>3. /\ IsKind(v, "object")
      /\ DOMAIN v.object = {name \in DOMAIN F : Stays(F[name], x[name])}
      /\ \A name \in DOMAIN v.object :
           v.object[name] = Encoded3(F[name].type, x[name])
  BY <1>2, EncodedStruct
<1> HIDE DEF v
<1>4. /\ \A name \in T : Stays(F[name], x[name])
      /\ Stays(F["rationale"], x["rationale"]) => x["rationale"] # Nil
  BY <1>1, GoTypes
<1>5. /\ T \subseteq DOMAIN v.object
      /\ DOMAIN v.object \subseteq T \cup {"bundle_version", "rationale"}
      /\ "rationale" \in DOMAIN v.object => x["rationale"] # Nil
  BY <1>1, <1>3, <1>4
<1>6. \A name \in T : v.object[name] = Str(x[name])
  BY <1>1, <1>3, <1>5, GoTypes, EncodedText
<1>7. /\ "bundle_version" \in DOMAIN v.object => IsOptional(v.object["bundle_version"])
      /\ "rationale" \in DOMAIN v.object => IsRationaleList(v.object["rationale"])
  BY <1>1, <1>3, <1>5, GoTypes, EncodedKinds
<1> QED
  BY <1>3, <1>5, <1>6, <1>7, EncodedKinds DEF IsPolicy, HasStrings, v

(* The workload of an evidence event.                                       *)
LEMMA EncodedWorkload ==
  ASSUME NEW x
  PROVE  IsWorkload(Encoded4(WorkloadIdentity, x))
<1> DEFINE F == [service_name |-> Kept(GoString), version |-> OmitEmpty(GoPointer),
                 image_digest |-> OmitEmpty(GoPointer)]
           v == Encoded4(WorkloadIdentity, x)
<1>1. /\ DOMAIN F = {"service_name", "version", "image_digest"}
      /\ F["service_name"] = Kept(GoString)
      /\ F["version"] = OmitEmpty(GoPointer)
      /\ F["image_digest"] = OmitEmpty(GoPointer)
  OBVIOUS
<1>2. WorkloadIdentity = GoStruct(F)
  BY DEF WorkloadIdentity
<1> HIDE DEF F
<1>3. /\ IsKind(v, "object")
      /\ DOMAIN v.object = {name \in DOMAIN F : Stays(F[name], x[name])}
      /\ \A name \in DOMAIN v.object :
           v.object[name] = Encoded3(F[name].type, x[name])
  BY <1>2, EncodedStruct
<1> HIDE DEF v
<1>4. Stays(F["service_name"], x["service_name"])
  BY <1>1, GoTypes
<1>5. /\ "service_name" \in DOMAIN v.object
      /\ DOMAIN v.object \subseteq DOMAIN F
  BY <1>1, <1>3, <1>4
<1>6. IsString(v.object["service_name"])
  BY <1>1, <1>3, <1>5, GoTypes, EncodedText, EncodedKinds
<1>7. /\ "version" \in DOMAIN v.object => IsOptional(v.object["version"])
      /\ "image_digest" \in DOMAIN v.object => IsOptional(v.object["image_digest"])
  BY <1>1, <1>3, GoTypes, EncodedKinds
<1> QED
  BY <1>1, <1>3, <1>5, <1>6, <1>7 DEF IsWorkload, HasStrings, v

(* Whatever the gateway puts into a trace, the schema accepts it.           *)
LEMMA EncodedTrace ==
  ASSUME NEW x
  PROVE  LET v == Encoded(DecisionTrace, x)
         IN  /\ IsTrace(v)
             /\ \A name \in TraceTexts : v.object[name] = Str(x[name])
             /\ "span_id" \in DOMAIN v.object <=> x.span_id # Nil
             /\ x.span_id # Nil => v.object["span_id"] = Str(x.span_id.ptr)
             /\ v.object["subject"] = Encoded4(Subject, x.subject)
             /\ v.object["request"] = Encoded4(Request, x.request)
             /\ v.object["policy"] = Encoded4(PolicyDecision, x.policy)
<1> DEFINE F == DecisionTrace.fields
           v == Encoded(DecisionTrace, x)
           Parts == {"subject", "request", "policy"}
           Lost == {"span_id", "pii_flags", "evidence_refs"}
<1>1. DOMAIN F = TraceTexts \cup Parts \cup Lost
  BY DEF DecisionTrace, TraceFields, Joined, GoStruct, TraceTexts
<1>2. \A name \in TraceTexts : F[name] = Kept(GoString)
  BY DEF DecisionTrace, TraceFields, Joined, GoStruct, TraceTexts
<1>3. /\ F["span_id"] = OmitEmpty(GoPointer)
      /\ F["pii_flags"] = OmitEmpty(GoList(GoString))
      /\ F["evidence_refs"] = OmitEmpty(GoList(GoString))
      /\ F["subject"] = Kept(Subject)
      /\ F["request"] = Kept(Request)
      /\ F["policy"] = Kept(PolicyDecision)
  BY DEF DecisionTrace, TraceFields, Joined, GoStruct
<1>4. DecisionTrace = GoStruct(F)
  BY DEF DecisionTrace, GoStruct
<1> HIDE DEF F
<1>5. /\ IsKind(v, "object")
      /\ DOMAIN v.object = {name \in DOMAIN F : Stays(F[name], x[name])}
      /\ \A name \in DOMAIN v.object :
           v.object[name] = Encoded4(F[name].type, x[name])
  BY <1>4, EncodedStruct
<1> HIDE DEF v
<1>6. /\ \A name \in TraceTexts \cup Parts : Stays(F[name], x[name])
      /\ Stays(F["span_id"], x["span_id"]) <=> x["span_id"] # Nil
      /\ \A name \in {"pii_flags", "evidence_refs"} :
           Stays(F[name], x[name]) => x[name] # Nil
  BY <1>2, <1>3, GoTypes
<1>7. /\ TraceTexts \cup Parts \subseteq DOMAIN v.object
      /\ DOMAIN v.object \subseteq TraceTexts \cup Parts \cup Lost
      /\ "span_id" \in DOMAIN v.object <=> x["span_id"] # Nil
      /\ \A name \in {"pii_flags", "evidence_refs"} :
           name \in DOMAIN v.object => x[name] # Nil
  BY <1>1, <1>5, <1>6
<1>8. \A name \in TraceTexts : v.object[name] = Str(x[name])
  BY <1>2, <1>5, <1>7, GoTypes, EncodedText
<1>9. /\ v.object["subject"] = Encoded4(Subject, x["subject"])
      /\ v.object["request"] = Encoded4(Request, x["request"])
      /\ v.object["policy"] = Encoded4(PolicyDecision, x["policy"])
  BY <1>3, <1>5, <1>7, GoTypes
<1>10. x["span_id"] # Nil => v.object["span_id"] = Str(x["span_id"].ptr)
  BY <1>3, <1>5, <1>7, GoTypes, EncodedText
<1>11. \A name \in {"pii_flags", "evidence_refs"} :
         name \in DOMAIN v.object => IsStringList(v.object[name])
  BY <1>3, <1>5, <1>7, GoTypes, EncodedKinds
<1>12. /\ IsSubject(v.object["subject"]) /\ IsRequest(v.object["request"])
       /\ IsPolicy(v.object["policy"])
  BY <1>9, EncodedSubject, EncodedRequest, EncodedPolicy
<1>13. HasStrings(v, TraceTexts, TraceNames)
  BY <1>5, <1>7, <1>8, EncodedKinds DEF HasStrings, TraceNames
<1>14. "span_id" \in DOMAIN v.object => IsOptional(v.object["span_id"])
  BY <1>7, <1>10, EncodedKinds DEF IsOptional, IsString
<1>15. IsTrace(v)
  BY <1>7, <1>11, <1>12, <1>13, <1>14 DEF IsTrace
<1> QED
  BY <1>7, <1>8, <1>9, <1>10, <1>15 DEF v

(* So it is with what a worker or the gateway puts into evidence, if the    *)
(* gateway has details.                                                     *)
LEMMA EncodedEvidence ==
  ASSUME NEW x, NEW field, field \in {Kept(GoMap), OmitEmpty(GoMap)},
         field = Kept(GoMap) => x.details # Nil
  PROVE  LET v == Encoded(GoStruct(EvidenceFields(field)), x)
         IN  /\ IsEvidence(v)
             /\ \A name \in EvidenceTexts : v.object[name] = Str(x[name])
             /\ "span_id" \in DOMAIN v.object <=> x.span_id # Nil
             /\ x.span_id # Nil => v.object["span_id"] = Str(x.span_id.ptr)
<1> DEFINE F == EvidenceFields(field)
           v == Encoded(GoStruct(F), x)
<1>1. DOMAIN F = EvidenceTexts \cup {"span_id", "details", "workload"}
  BY DEF EvidenceFields, EvidenceTexts
<1>2. \A name \in EvidenceTexts : F[name] = Kept(GoString)
  BY DEF EvidenceFields, EvidenceTexts
<1>3. /\ F["span_id"] = OmitEmpty(GoPointer)
      /\ F["details"] = field
      /\ F["workload"] = Kept(WorkloadIdentity)
  BY DEF EvidenceFields
<1> HIDE DEF F
<1>4. /\ IsKind(v, "object")
      /\ DOMAIN v.object = {name \in DOMAIN F : Stays(F[name], x[name])}
      /\ \A name \in DOMAIN v.object :
           v.object[name] = Encoded4(F[name].type, x[name])
  BY EncodedStruct
<1> HIDE DEF v
<1>5. /\ \A name \in EvidenceTexts \cup {"workload"} : Stays(F[name], x[name])
      /\ Stays(F["span_id"], x["span_id"]) <=> x["span_id"] # Nil
      /\ Stays(F["details"], x["details"]) => x["details"] # Nil
      /\ F["details"].type = GoMap
  BY <1>2, <1>3, GoTypes
<1>6. /\ EvidenceTexts \cup {"workload"} \subseteq DOMAIN v.object
      /\ DOMAIN v.object \subseteq EvidenceNames
      /\ "span_id" \in DOMAIN v.object <=> x["span_id"] # Nil
      /\ "details" \in DOMAIN v.object => x["details"] # Nil
  BY <1>1, <1>4, <1>5 DEF EvidenceNames
<1>7. \A name \in EvidenceTexts : v.object[name] = Str(x[name])
  BY <1>2, <1>4, <1>6, GoTypes, EncodedText
<1>8. IsWorkload(v.object["workload"])
  BY <1>3, <1>4, <1>6, GoTypes, EncodedWorkload
<1>9. x["span_id"] # Nil => v.object["span_id"] = Str(x["span_id"].ptr)
  BY <1>3, <1>4, <1>6, GoTypes, EncodedText
<1>10. "details" \in DOMAIN v.object => IsStringMap(v.object["details"])
  BY <1>4, <1>5, <1>6, EncodedKinds
<1>11. HasStrings(v, EvidenceTexts, EvidenceNames)
  BY <1>4, <1>6, <1>7, EncodedKinds DEF HasStrings
<1>12. "span_id" \in DOMAIN v.object => IsOptional(v.object["span_id"])
  BY <1>6, <1>9, EncodedKinds DEF IsOptional, IsString
<1>13. IsEvidence(v)
  BY <1>6, <1>8, <1>10, <1>11, <1>12 DEF IsEvidence
<1> QED
  BY <1>6, <1>7, <1>9, <1>13 DEF v, F

-----------------------------------------------------------------------------
(* What is read from a document, key by key.                                *)

(* What a string field is given, and what a pointer is.                     *)
Text(v) == IF IsKind(v, "string") THEN v.string ELSE ""
Pointer(v) == IF IsKind(v, "string") THEN Ptr(v.string) ELSE Nil

(* What a field is that no document gave a value.                           *)
LEMMA ZeroValues ==
  /\ ZeroValue2(GoString) = "" /\ ZeroValue(GoString) = ""
  /\ ZeroValue1(GoString) = ""
  /\ ZeroValue2(GoPointer) = Nil /\ ZeroValue(GoPointer) = Nil
  /\ \A F : \A name \in DOMAIN F :
       /\ ZeroValue(GoStruct(F))[name] = ZeroValue2(F[name].type)
       /\ ZeroValue2(GoStruct(F))[name] = ZeroValue1(F[name].type)
<1> USE DEF ZeroValue1, GoString, GoPointer, GoStruct
<1>1. /\ ZeroValue1(GoString) = ""
      /\ ZeroValue2(GoString) = "" /\ ZeroValue2(GoPointer) = Nil
      /\ ZeroValue(GoString) = "" /\ ZeroValue(GoPointer) = Nil
  BY DEF ZeroValue2, ZeroValue
<1>2. ASSUME NEW F, NEW name \in DOMAIN F
      PROVE  /\ ZeroValue(GoStruct(F))[name] = ZeroValue2(F[name].type)
             /\ ZeroValue2(GoStruct(F))[name] = ZeroValue1(F[name].type)
  <2>1. ZeroValue(GoStruct(F)) = [n \in DOMAIN F |-> ZeroValue2(F[n].type)]
    BY DEF ZeroValue
  <2>2. ZeroValue2(GoStruct(F)) = [n \in DOMAIN F |-> ZeroValue1(F[n].type)]
    BY DEF ZeroValue2
  <2> QED
    BY <2>1, <2>2
<1> QED
  BY <1>1, <1>2

(* What a string or a pointer is given, on each level where there is one.   *)
LEMMA DecodedText ==
  ASSUME NEW v
  PROVE  /\ \A strict : Decodes1(GoString, v, strict)
              => Decoded1(GoString, v) = Text(v)
         /\ \A strict : Decodes2(GoString, v, strict)
              => Decoded2(GoString, v) = Text(v)
         /\ \A strict : Decodes2(GoPointer, v, strict)
              => Decoded2(GoPointer, v) = Pointer(v)
<1> USE DEF DecodesType, DecodedType, GoString, GoPointer, IsKind
<1>1. ASSUME NEW strict, Decodes1(GoString, v, strict)
      PROVE  Decoded1(GoString, v) = Text(v)
  BY <1>1, ZeroValues DEF Decodes1, Decoded1, Text
<1>2. ASSUME NEW strict, Decodes2(GoString, v, strict)
      PROVE  Decoded2(GoString, v) = Text(v)
  BY <1>2, ZeroValues DEF Decodes2, Decoded2, Text
<1>3. ASSUME NEW strict, Decodes2(GoPointer, v, strict)
      PROVE  Decoded2(GoPointer, v) = Pointer(v)
  BY <1>3, ZeroValues DEF Decodes2, Decoded2, Pointer
<1> QED
  BY <1>1, <1>2, <1>3

(* Which documents decode into a struct, on each level where there is one.  *)
LEMMA DecodesStruct ==
  ASSUME NEW F, NEW v, NEW strict
  PROVE  /\ Decodes(GoStruct(F), v, strict)
              <=> \/ IsKind(v, "null")
                  \/ /\ IsKind(v, "object")
                     /\ \A key \in DOMAIN v.object :
                          IF key \in DOMAIN F
                          THEN Decodes2(F[key].type, v.object[key], strict)
                          ELSE ~strict
         /\ Decodes2(GoStruct(F), v, strict)
              <=> \/ IsKind(v, "null")
                  \/ /\ IsKind(v, "object")
                     /\ \A key \in DOMAIN v.object :
                          IF key \in DOMAIN F
                          THEN Decodes1(F[key].type, v.object[key], strict)
                          ELSE ~strict
<1> USE DEF DecodesType, GoStruct
<1>1. Decodes(GoStruct(F), v, strict)
        <=> \/ IsKind(v, "null")
            \/ /\ IsKind(v, "object")
               /\ \A key \in DOMAIN v.object :
                    IF key \in DOMAIN F
                    THEN Decodes2(F[key].type, v.object[key], strict)
                    ELSE ~strict
  BY DEF Decodes
<1>2. Decodes2(GoStruct(F), v, strict)
        <=> \/ IsKind(v, "null")
            \/ /\ IsKind(v, "object")
               /\ \A key \in DOMAIN v.object :
                    IF key \in DOMAIN F
                    THEN Decodes1(F[key].type, v.object[key], strict)
                    ELSE ~strict
  BY DEF Decodes2
<1> QED
  BY <1>1, <1>2

(* What they give its fields.                                               *)
LEMMA DecodedStruct ==
  ASSUME NEW F, NEW v, NEW name \in DOMAIN F
  PROVE  /\ IsKind(v, "null") =>
              /\ Decoded(GoStruct(F), v)[name] = ZeroValue2(F[name].type)
              /\ Decoded2(GoStruct(F), v)[name] = ZeroValue2(F[name].type)
         /\ IsKind(v, "object") =>
              /\ Decoded(GoStruct(F), v)[name]
                   = IF name \in DOMAIN v.object
                     THEN Decoded2(F[name].type, v.object[name])
                     ELSE ZeroValue(F[name].type)
              /\ Decoded2(GoStruct(F), v)[name]
                   = IF name \in DOMAIN v.object
                     THEN Decoded1(F[name].type, v.object[name])
                     ELSE ZeroValue(F[name].type)
<1> USE DEF DecodedType, GoStruct, IsKind
<1>1. CASE IsKind(v, "null")
  <2>1. Decoded(GoStruct(F), v) = ZeroValue(GoStruct(F))
    BY <1>1 DEF Decoded
  <2>2. Decoded2(GoStruct(F), v) = ZeroValue(GoStruct(F))
    BY <1>1 DEF Decoded2
  <2>3. ZeroValue(GoStruct(F))[name] = ZeroValue2(F[name].type)
    BY ZeroValues
  <2> QED
    BY <1>1, <2>1, <2>2, <2>3
<1>2. CASE IsKind(v, "object")
  <2>1. Decoded(GoStruct(F), v)
          = [n \in DOMAIN F |-> IF n \in DOMAIN v.object
                                THEN Decoded2(F[n].type, v.object[n])
                                ELSE ZeroValue(F[n].type)]
    BY <1>2 DEF Decoded
  <2>2. Decoded2(GoStruct(F), v)
          = [n \in DOMAIN F |-> IF n \in DOMAIN v.object
                                THEN Decoded1(F[n].type, v.object[n])
                                ELSE ZeroValue(F[n].type)]
    BY <1>2 DEF Decoded2
  <2> QED
    BY <1>2, <2>1, <2>2
<1> QED
  BY <1>1, <1>2

(* What lies at a path of one key, or of two.                               *)
LEMMA AtPaths ==
  ASSUME NEW v
  PROVE  /\ At(v, << >>) = v
         /\ \A a : At(v, <<a>>) = Get(v, a)
         /\ \A a, b : At(v, <<a, b>>) = Get(Get(v, a), b)
BY DEF At

(* Nothing is no document.                                                  *)
LEMMA NoKindOfMissing ==
  /\ ~IsKind(Missing, "string") /\ ~IsKind(Missing, "null")
  /\ ~IsKind(Missing, "object") /\ ~IsKind(Missing, "array")
  /\ Text(Missing) = "" /\ Pointer(Missing) = Nil
BY DEF Missing, IsKind, Text, Pointer

(* A text at a key, or at a key of a part, is read as it is written.        *)
LEMMA TextsRead ==
  ASSUME NEW F, NEW v, NEW strict, Decodes(GoStruct(F), v, strict),
         NEW name \in DOMAIN F
  PROVE  LET d == Decoded(GoStruct(F), v)
         IN  /\ F[name].type = GoString => d[name] = Text(Get(v, name))
             /\ F[name].type = GoPointer => d[name] = Pointer(Get(v, name))
             /\ \A G : \A key \in DOMAIN G :
                  F[name].type = GoStruct(G) /\ G[key].type = GoString
                    => d[name][key] = Text(Get(Get(v, name), key))
<1> DEFINE d == Decoded(GoStruct(F), v)
<1>1. \/ IsKind(v, "null")
      \/ /\ IsKind(v, "object")
         /\ \A key \in DOMAIN v.object :
              IF key \in DOMAIN F
              THEN Decodes2(F[key].type, v.object[key], strict)
              ELSE ~strict
  BY DecodesStruct
<1>2. \A G : \A key \in DOMAIN G :
        G[key].type = GoString =>
          /\ ZeroValue(GoStruct(G))[key] = "" /\ ZeroValue2(GoStruct(G))[key] = ""
  BY ZeroValues
<1>3. \A w : ~IsKind(w, "object") => \A key : Text(Get(w, key)) = ""
  BY NoKindOfMissing DEF Get
<1>4. CASE IsKind(v, "null")
  <2>1. ~IsKind(v, "object")
    BY <1>4 DEF IsKind
  <2>2. \A key : Get(v, key) = Missing
    BY <2>1 DEF Get
  <2>3. d[name] = ZeroValue2(F[name].type)
    BY <1>4, DecodedStruct
  <2> HIDE DEF d
  <2>4. ASSUME NEW G, NEW key \in DOMAIN G,
               F[name].type = GoStruct(G), G[key].type = GoString
        PROVE  d[name][key] = Text(Get(Get(v, name), key))
    BY <1>2, <1>3, <2>2, <2>3, <2>4, NoKindOfMissing
  <2>5. F[name].type = GoString => d[name] = Text(Get(v, name))
    BY <2>2, <2>3, ZeroValues, NoKindOfMissing
  <2>6. F[name].type = GoPointer => d[name] = Pointer(Get(v, name))
    BY <2>2, <2>3, ZeroValues, NoKindOfMissing
  <2> QED
    BY <2>4, <2>5, <2>6 DEF d
<1>5. CASE IsKind(v, "object") /\ name \notin DOMAIN v.object
  <2>1. Get(v, name) = Missing
    BY <1>5 DEF Get
  <2>2. d[name] = ZeroValue(F[name].type)
    BY <1>5, DecodedStruct
  <2> HIDE DEF d
  <2> QED
    BY <1>2, <1>3, <2>1, <2>2, ZeroValues, NoKindOfMissing DEF d
<1>6. CASE IsKind(v, "object") /\ name \in DOMAIN v.object
  <2> DEFINE w == v.object[name]
  <2>1. Get(v, name) = w
    BY <1>6 DEF Get
  <2>2. ~IsKind(v, "null")
    BY <1>6 DEF IsKind
  <2>3. Decodes2(F[name].type, w, strict)
    BY <1>1, <1>6, <2>2
  <2>4. d[name] = Decoded2(F[name].type, w)
    BY <1>6, DecodedStruct
  <2> HIDE DEF d, w
  <2>5. ASSUME NEW G, NEW key \in DOMAIN G,
               F[name].type = GoStruct(G), G[key].type = GoString
        PROVE  d[name][key] = Text(Get(w, key))
    <3>1. \/ IsKind(w, "null")
          \/ /\ IsKind(w, "object")
             /\ key \in DOMAIN w.object => Decodes1(GoString, w.object[key], strict)
      BY <2>3, <2>5, DecodesStruct
    <3>2. CASE IsKind(w, "null")
      <4>1. ~IsKind(w, "object")
        BY <3>2 DEF IsKind
      <4>2. d[name][key] = ZeroValue2(GoString)
        BY <2>4, <2>5, <3>2, DecodedStruct
      <4>3. Text(Get(w, key)) = ""
        BY <1>3, <4>1
      <4> QED
        BY <4>2, <4>3, ZeroValues
    <3>3. CASE IsKind(w, "object") /\ key \notin DOMAIN w.object
      <4>1. d[name][key] = ZeroValue(GoString)
        BY <2>4, <2>5, <3>3, DecodedStruct
      <4> QED
        BY <3>3, <4>1, ZeroValues, NoKindOfMissing DEF Get
    <3>4. CASE IsKind(w, "object") /\ key \in DOMAIN w.object
      <4>1. ~IsKind(w, "null")
        BY <3>4 DEF IsKind
      <4>2. d[name][key] = Decoded1(GoString, w.object[key])
        BY <2>4, <2>5, <3>4, DecodedStruct
      <4> QED
        BY <3>1, <3>4, <4>1, <4>2, DecodedText DEF Get
    <3> QED
      BY <3>1, <3>2, <3>3, <3>4
  <2>6. F[name].type = GoString => d[name] = Text(w)
    BY <2>3, <2>4, DecodedText
  <2>7. F[name].type = GoPointer => d[name] = Pointer(w)
    BY <2>3, <2>4, DecodedText
  <2> QED
    BY <2>1, <2>5, <2>6, <2>7 DEF d
<1> QED
  BY <1>1, <1>4, <1>5, <1>6

(* What a worker reads of a trace, and /decide of a request.                *)
WorkerPaths == Mandatory \ {<<"data_classification">>}

(* The fields of the worker's trace.                                        *)
LEMMA WorkerFields ==
  /\ WorkerTrace = GoStruct(WorkerTrace.fields)
  /\ DOMAIN WorkerTrace.fields
       = (TraceTexts \ {"data_classification"})
           \cup {"span_id", "subject", "request", "policy"}
  /\ \A name \in TraceTexts \ {"data_classification"} :
       WorkerTrace.fields[name].type = GoString
  /\ WorkerTrace.fields["span_id"].type = GoPointer
  /\ WorkerTrace.fields["subject"].type = Subject
  /\ WorkerTrace.fields["request"].type = Request
  /\ WorkerTrace.fields["policy"].type = GoStruct(PolicyFields(<< >>))
<1>1. \A f : Joined(<< >>, f) = [name \in DOMAIN f |-> f[name]]
  BY DEF Joined
<1> DEFINE f == [schema_version |-> Kept(GoString), event_id |-> Kept(GoString),
                 event_time |-> Kept(GoString), correlation_id |-> Kept(GoString),
                 trace_id |-> Kept(GoString), span_id |-> OmitEmpty(GoPointer),
                 subject |-> Kept(Subject), request |-> Kept(Request),
                 policy |-> Kept(GoStruct(PolicyFields(<< >>)))]
<1>2. WorkerTrace = GoStruct(Joined(<< >>, f))
  BY DEF WorkerTrace, TraceFields
<1>3. Joined(<< >>, f) = f
  BY <1>1
<1>4. WorkerTrace.fields = f /\ WorkerTrace = GoStruct(f)
  BY <1>2, <1>3 DEF GoStruct
<1>5. DOMAIN f = (TraceTexts \ {"data_classification"})
                   \cup {"span_id", "subject", "request", "policy"}
  BY DEF TraceTexts
<1>6. \A name \in TraceTexts \ {"data_classification"} : f[name].type = GoString
  BY GoTypes DEF TraceTexts
<1>7. /\ f["span_id"].type = GoPointer
      /\ f["subject"].type = Subject
      /\ f["request"].type = Request
      /\ f["policy"].type = GoStruct(PolicyFields(<< >>))
  BY GoTypes
<1> HIDE DEF f
<1> QED
  BY <1>4, <1>5, <1>6, <1>7

(* The fields of its parts.                                                 *)
LEMMA PartFields ==
  /\ \E G : /\ Subject = GoStruct(G)
            /\ DOMAIN G = {"type", "id", "attributes"}
            /\ G["type"].type = GoString /\ G["id"].type = GoString
            /\ G["attributes"].type = GoMap
  /\ \E G : /\ Request = GoStruct(G)
            /\ DOMAIN G = {"action", "resource", "environment", "attributes"}
            /\ G["action"].type = GoString /\ G["resource"].type = GoString
            /\ G["environment"].type = GoString /\ G["attributes"].type = GoMap
  /\ \E G : /\ GoStruct(PolicyFields(<< >>)) = GoStruct(G)
            /\ DOMAIN G = {"engine", "bundle_version", "bundle_hash", "decision"}
            /\ G["engine"].type = GoString /\ G["bundle_version"].type = GoPointer
            /\ G["bundle_hash"].type = GoString /\ G["decision"].type = GoString
<1>1. \E G : /\ Subject = GoStruct(G)
             /\ DOMAIN G = {"type", "id", "attributes"}
             /\ G["type"].type = GoString /\ G["id"].type = GoString
             /\ G["attributes"].type = GoMap
  <2> WITNESS [type |-> Kept(GoString), id |-> Kept(GoString),
               attributes |-> OmitEmpty(GoMap)]
  <2> QED
    BY GoTypes DEF Subject
<1>2. \E G : /\ Request = GoStruct(G)
             /\ DOMAIN G = {"action", "resource", "environment", "attributes"}
             /\ G["action"].type = GoString /\ G["resource"].type = GoString
             /\ G["environment"].type = GoString /\ G["attributes"].type = GoMap
  <2> WITNESS [action |-> Kept(GoString), resource |-> Kept(GoString),
               environment |-> Kept(GoString), attributes |-> OmitEmpty(GoMap)]
  <2> QED
    BY GoTypes DEF Request
<1>3. \E G : /\ GoStruct(PolicyFields(<< >>)) = GoStruct(G)
             /\ DOMAIN G = {"engine", "bundle_version", "bundle_hash", "decision"}
             /\ G["engine"].type = GoString /\ G["bundle_version"].type = GoPointer
             /\ G["bundle_hash"].type = GoString /\ G["decision"].type = GoString
  <2> WITNESS PolicyFields(<< >>)
  <2> QED
    BY GoTypes DEF PolicyFields, Joined
<1> QED
  BY <1>1, <1>2, <1>3

(* A worker reads every text of a trace as it is written, wherever it is.   *)
LEMMA WorkerReads ==
  ASSUME NEW v, NEW strict, Decodes(WorkerTrace, v, strict)
  PROVE  LET d == Decoded(WorkerTrace, v)
         IN  /\ \A name \in TraceTexts \ {"data_classification"} :
                  d[name] = Text(Get(v, name))
             /\ d["span_id"] = Pointer(Get(v, "span_id"))
             /\ \A key \in {"type", "id"} :
                  d["subject"][key] = Text(Get(Get(v, "subject"), key))
             /\ \A key \in {"action", "resource", "environment"} :
                  d["request"][key] = Text(Get(Get(v, "request"), key))
             /\ \A key \in {"engine", "bundle_hash", "decision"} :
                  d["policy"][key] = Text(Get(Get(v, "policy"), key))
<1> DEFINE F == WorkerTrace.fields
           d == Decoded(GoStruct(F), v)
<1>1. Decodes(GoStruct(F), v, strict) /\ d = Decoded(WorkerTrace, v)
  BY WorkerFields
<1>2. /\ \A name \in TraceTexts \ {"data_classification"} :
           name \in DOMAIN F /\ F[name].type = GoString
      /\ "span_id" \in DOMAIN F /\ F["span_id"].type = GoPointer
      /\ "subject" \in DOMAIN F /\ F["subject"].type = Subject
      /\ "request" \in DOMAIN F /\ F["request"].type = Request
      /\ "policy" \in DOMAIN F /\ F["policy"].type = GoStruct(PolicyFields(<< >>))
  BY WorkerFields
<1> HIDE DEF F
<1>3. ASSUME NEW name \in DOMAIN F
      PROVE  /\ F[name].type = GoString => d[name] = Text(Get(v, name))
             /\ F[name].type = GoPointer => d[name] = Pointer(Get(v, name))
             /\ \A G : \A key \in DOMAIN G :
                  F[name].type = GoStruct(G) /\ G[key].type = GoString
                    => d[name][key] = Text(Get(Get(v, name), key))
  BY <1>1, TextsRead
<1> HIDE DEF d
<1>4. \A key \in {"type", "id"} : d["subject"][key] = Text(Get(Get(v, "subject"), key))
  BY <1>2, <1>3, PartFields
<1>5. \A key \in {"action", "resource", "environment"} :
        d["request"][key] = Text(Get(Get(v, "request"), key))
  BY <1>2, <1>3, PartFields
<1>6. \A key \in {"engine", "bundle_hash", "decision"} :
        d["policy"][key] = Text(Get(Get(v, "policy"), key))
  BY <1>2, <1>3, PartFields
<1>7. /\ \A name \in TraceTexts \ {"data_classification"} :
           d[name] = Text(Get(v, name))
      /\ d["span_id"] = Pointer(Get(v, "span_id"))
  BY <1>2, <1>3
<1> QED
  BY <1>1, <1>4, <1>5, <1>6, <1>7

(* What must be present is what the table of the schema demands, but for    *)
(* the classification.                                                      *)
LEMMA PresentPaths ==
  ASSUME NEW v, Decodes(WorkerTrace, v, FALSE)
  PROVE  LET d == Decoded(WorkerTrace, v)
         IN  /\ ValidateTrace(d)
                  <=> /\ \A p \in WorkerPaths : Text(At(v, p)) # ""
                      /\ ToLower(Text(At(v, <<"policy", "decision">>)))
                           \in {"allow", "deny"}
             /\ d.correlation_id = Text(At(v, <<"correlation_id">>))
             /\ d.trace_id = Text(At(v, <<"trace_id">>))
             /\ d.span_id = Pointer(At(v, <<"span_id">>))
<1> DEFINE d == Decoded(WorkerTrace, v)
<1>1. /\ \A name \in TraceTexts \ {"data_classification"} :
           d[name] = Text(At(v, <<name>>))
      /\ d["span_id"] = Pointer(At(v, <<"span_id">>))
      /\ \A key \in {"type", "id"} :
           d["subject"][key] = Text(At(v, <<"subject", key>>))
      /\ \A key \in {"action", "resource", "environment"} :
           d["request"][key] = Text(At(v, <<"request", key>>))
      /\ \A key \in {"engine", "bundle_hash", "decision"} :
           d["policy"][key] = Text(At(v, <<"policy", key>>))
  <2>1. /\ \A name \in TraceTexts \ {"data_classification"} :
             d[name] = Text(Get(v, name))
        /\ d["span_id"] = Pointer(Get(v, "span_id"))
        /\ \A key \in {"type", "id"} :
             d["subject"][key] = Text(Get(Get(v, "subject"), key))
        /\ \A key \in {"action", "resource", "environment"} :
             d["request"][key] = Text(Get(Get(v, "request"), key))
        /\ \A key \in {"engine", "bundle_hash", "decision"} :
             d["policy"][key] = Text(Get(Get(v, "policy"), key))
    BY WorkerReads
  <2> HIDE DEF d
  <2>2. /\ \A a : At(v, <<a>>) = Get(v, a)
        /\ \A a, b : At(v, <<a, b>>) = Get(Get(v, a), b)
    BY AtPaths
  <2> QED
    BY <2>1, <2>2
<1> HIDE DEF d
<1>2. WorkerPaths =
        {<<"schema_version">>, <<"event_id">>, <<"event_time">>,
         <<"correlation_id">>, <<"trace_id">>, <<"subject", "type">>,
         <<"subject", "id">>, <<"request", "action">>, <<"request", "resource">>,
         <<"request", "environment">>, <<"policy", "engine">>,
         <<"policy", "bundle_hash">>, <<"policy", "decision">>}
  BY DEF WorkerPaths, Mandatory
<1>3. /\ d.schema_version = Text(At(v, <<"schema_version">>))
      /\ d.event_id = Text(At(v, <<"event_id">>))
      /\ d.event_time = Text(At(v, <<"event_time">>))
      /\ d.correlation_id = Text(At(v, <<"correlation_id">>))
      /\ d.trace_id = Text(At(v, <<"trace_id">>))
      /\ d.subject.type = Text(At(v, <<"subject", "type">>))
      /\ d.subject.id = Text(At(v, <<"subject", "id">>))
      /\ d.request.action = Text(At(v, <<"request", "action">>))
      /\ d.request.resource = Text(At(v, <<"request", "resource">>))
      /\ d.request.environment = Text(At(v, <<"request", "environment">>))
      /\ d.policy.engine = Text(At(v, <<"policy", "engine">>))
      /\ d.policy.bundle_hash = Text(At(v, <<"policy", "bundle_hash">>))
      /\ d.policy.decision = Text(At(v, <<"policy", "decision">>))
  BY <1>1 DEF TraceTexts
<1>4. "" \notin MustBePresent(d) <=> \A p \in WorkerPaths : Text(At(v, p)) # ""
  BY <1>2, <1>3 DEF MustBePresent
<1> QED
  BY <1>1, <1>3, <1>4 DEF ValidateTrace, d

(* A worker decodes every trace the schema accepts.                         *)
LEMMA TraceDecodes ==
  ASSUME NEW v, IsTrace(v)
  PROVE  Decodes(WorkerTrace, v, FALSE)
<1> DEFINE F == WorkerTrace.fields
<1>1. WorkerTrace = GoStruct(F)
  BY WorkerFields
<1>2. /\ DOMAIN F = (TraceTexts \ {"data_classification"})
                      \cup {"span_id", "subject", "request", "policy"}
      /\ \A name \in TraceTexts \ {"data_classification"} : F[name].type = GoString
      /\ F["span_id"].type = GoPointer
      /\ F["subject"].type = Subject
      /\ F["request"].type = Request
      /\ F["policy"].type = GoStruct(PolicyFields(<< >>))
  BY WorkerFields
<1> HIDE DEF F
<1>3. /\ \A w : IsOptional(w) =>
           Decodes2(GoPointer, w, FALSE) /\ Decodes1(GoPointer, w, FALSE)
      /\ \A w : IsString(w) =>
           Decodes2(GoString, w, FALSE) /\ Decodes1(GoString, w, FALSE)
      /\ \A w : IsStringMap(w) => Decodes1(GoMap, w, FALSE)
  <2>1. ASSUME NEW w, IsOptional(w)
        PROVE  Decodes2(GoPointer, w, FALSE) /\ Decodes1(GoPointer, w, FALSE)
    BY <2>1 DEF Decodes2, Decodes1, DecodesType, GoPointer, IsOptional
  <2>2. ASSUME NEW w, IsString(w)
        PROVE  Decodes2(GoString, w, FALSE) /\ Decodes1(GoString, w, FALSE)
    BY <2>2 DEF Decodes2, Decodes1, DecodesType, GoString, IsString
  <2>3. ASSUME NEW w, IsStringMap(w)
        PROVE  Decodes1(GoMap, w, FALSE)
    BY <2>3 DEF Decodes1, DecodesType, GoMap, IsStringMap, StringsIn
  <2> QED
    BY <2>1, <2>2, <2>3
<1>4. Decodes2(Subject, v.object["subject"], FALSE)
  <2> DEFINE w == v.object["subject"]
  <2>1. IsSubject(w)
    BY DEF IsTrace
  <2> HIDE DEF w
  <2>2. PICK G : /\ Subject = GoStruct(G)
                 /\ DOMAIN G = {"type", "id", "attributes"}
                 /\ G["type"].type = GoString /\ G["id"].type = GoString
                 /\ G["attributes"].type = GoMap
    BY PartFields
  <2>3. /\ IsKind(w, "object")
        /\ DOMAIN w.object \subseteq DOMAIN G
        /\ \A key \in {"type", "id"} : IsString(w.object[key])
        /\ "attributes" \in DOMAIN w.object => IsStringMap(w.object["attributes"])
    BY <2>1, <2>2 DEF IsSubject, HasStrings
  <2>4. \A key \in DOMAIN w.object : Decodes1(G[key].type, w.object[key], FALSE)
    BY <1>3, <2>2, <2>3
  <2> QED
    BY <2>2, <2>3, <2>4, DecodesStruct DEF w
<1>5. Decodes2(Request, v.object["request"], FALSE)
  <2> DEFINE w == v.object["request"]
  <2>1. IsRequest(w)
    BY DEF IsTrace
  <2> HIDE DEF w
  <2>2. PICK G : /\ Request = GoStruct(G)
                 /\ DOMAIN G = {"action", "resource", "environment", "attributes"}
                 /\ G["action"].type = GoString /\ G["resource"].type = GoString
                 /\ G["environment"].type = GoString
                 /\ G["attributes"].type = GoMap
    BY PartFields
  <2>3. /\ IsKind(w, "object")
        /\ DOMAIN w.object \subseteq DOMAIN G
        /\ \A key \in {"action", "resource", "environment"} : IsString(w.object[key])
        /\ "attributes" \in DOMAIN w.object => IsStringMap(w.object["attributes"])
    BY <2>1, <2>2 DEF IsRequest, HasStrings
  <2>4. \A key \in DOMAIN w.object : Decodes1(G[key].type, w.object[key], FALSE)
    BY <1>3, <2>2, <2>3
  <2> QED
    BY <2>2, <2>3, <2>4, DecodesStruct DEF w
<1>6. Decodes2(GoStruct(PolicyFields(<< >>)), v.object["policy"], FALSE)
  <2> DEFINE w == v.object["policy"]
             P == GoStruct(PolicyFields(<< >>))
  <2>1. IsPolicy(w)
    BY DEF IsTrace
  <2>2. PICK G : /\ P = GoStruct(G)
                 /\ DOMAIN G = {"engine", "bundle_version", "bundle_hash", "decision"}
                 /\ G["engine"].type = GoString
                 /\ G["bundle_version"].type = GoPointer
                 /\ G["bundle_hash"].type = GoString /\ G["decision"].type = GoString
    BY PartFields
  <2> HIDE DEF w, P
  <2>3. /\ IsKind(w, "object")
        /\ \A key \in {"engine", "bundle_hash", "decision"} : IsString(w.object[key])
        /\ "bundle_version" \in DOMAIN w.object
             => IsOptional(w.object["bundle_version"])
    BY <2>1 DEF IsPolicy, HasStrings
  <2>4. \A key \in DOMAIN w.object :
          key \in DOMAIN G => Decodes1(G[key].type, w.object[key], FALSE)
    BY <1>3, <2>2, <2>3
  <2> QED
    BY <2>2, <2>3, <2>4, DecodesStruct DEF w, P
<1>7. \A key \in DOMAIN v.object :
        key \in DOMAIN F => Decodes2(F[key].type, v.object[key], FALSE)
  <2>1. /\ \A name \in TraceTexts : IsString(v.object[name])
        /\ "span_id" \in DOMAIN v.object => IsOptional(v.object["span_id"])
    BY DEF IsTrace, HasStrings
  <2> QED
    BY <1>2, <1>3, <1>4, <1>5, <1>6, <2>1
<1>8. IsKind(v, "object")
  BY DEF IsTrace, HasStrings
<1> QED
  BY <1>1, <1>7, <1>8, DecodesStruct

-----------------------------------------------------------------------------
(* The table and the walk.                                                  *)

(* A document has no other kinds, and one kind only.                        *)
LEMMA JSONKinds ==
  ASSUME NEW v
  PROVE  /\ IsJSON2(v) => v # Missing /\ ~IsKind(v, "missing")
         /\ IsJSON1(v) => v # Missing /\ ~IsKind(v, "missing")
         /\ IsJSON2(v) /\ DOMAIN v \subseteq {"missing", "null", "string"}
              => IsOptional(v)
         /\ IsJSON1(v) /\ DOMAIN v \subseteq {"missing", "null", "string"}
              => IsOptional(v)
         /\ IsJSON2(v) /\ IsKind(v, "string") => v = Str(v.string)
         /\ IsJSON1(v) /\ IsKind(v, "string") => v = Str(v.string)
         /\ IsJSON2(v) /\ IsKind(v, "null") => v = Null
         /\ IsJSON(v) /\ IsKind(v, "object")
              => \A key \in DOMAIN v.object : IsJSON2(v.object[key])
         /\ IsJSON2(v) /\ IsKind(v, "object")
              => \A key \in DOMAIN v.object : IsJSON1(v.object[key])
<1> DEFINE Kind == v \in {Null, Number} \/ (IsKind(v, "string") /\ v = Str(v.string))
                     \/ IsKind(v, "object") \/ IsKind(v, "array")
<1>1. IsJSON1(v) => Kind
  BY DEF IsJSON1, JSONType
<1>2. IsJSON2(v) => Kind
  BY DEF IsJSON2, JSONType
<1>3. Kind => /\ v # Missing /\ ~IsKind(v, "missing")
              /\ DOMAIN v \subseteq {"missing", "null", "string"} => IsOptional(v)
              /\ IsKind(v, "string") => v = Str(v.string)
              /\ IsKind(v, "null") => v = Null
  BY DEF IsKind, Null, Number, Missing, IsOptional
<1>4. IsJSON(v) /\ IsKind(v, "object")
        => \A key \in DOMAIN v.object : IsJSON2(v.object[key])
  BY DEF IsJSON, JSONType, IsKind, Null, Number
<1>5. IsJSON2(v) /\ IsKind(v, "object")
        => \A key \in DOMAIN v.object : IsJSON1(v.object[key])
  BY DEF IsJSON2, JSONType, IsKind, Null, Number
<1> HIDE DEF Kind
<1> QED
  BY <1>1, <1>2, <1>3, <1>4, <1>5

(* The paths of the table, part by part.                                    *)
LEMMA TablePaths ==
  /\ \A key : <<key>> \in Paths <=> key \in TraceNames
  /\ \A key : <<"subject", key>> \in Paths <=> key \in {"type", "id", "attributes"}
  /\ \A key : <<"request", key>> \in Paths
                <=> key \in {"action", "resource", "environment", "attributes"}
  /\ \A key : <<"policy", key>> \in Paths
                <=> key \in {"engine", "bundle_hash", "decision", "bundle_version",
                             "rationale"}
<1> USE DEF Paths, Mandatory, Optional, Sections, Maps, Lists, Rationale,
            TraceNames, TraceTexts
<1>1. \A key : <<key>> \in Paths <=> key \in TraceNames
  OBVIOUS
<1>2. \A key : <<"subject", key>> \in Paths <=> key \in {"type", "id", "attributes"}
  OBVIOUS
<1>3. \A key : <<"request", key>> \in Paths
                <=> key \in {"action", "resource", "environment", "attributes"}
  OBVIOUS
<1>4. \A key : <<"policy", key>> \in Paths
                <=> key \in {"engine", "bundle_hash", "decision", "bundle_version",
                             "rationale"}
  OBVIOUS
<1> HIDE DEF Paths, TraceNames
<1> QED
  BY <1>1, <1>2, <1>3, <1>4

(* What lies in a part.                                                     *)
LEMMA PartKeys ==
  ASSUME NEW v, NothingElse(v)
  PROVE  /\ DOMAIN v.object \subseteq TraceNames
         /\ DOMAIN Get(v, "subject").object \subseteq {"type", "id", "attributes"}
         /\ DOMAIN Get(v, "request").object
              \subseteq {"action", "resource", "environment", "attributes"}
         /\ DOMAIN Get(v, "policy").object
              \subseteq {"engine", "bundle_hash", "decision", "bundle_version",
                         "rationale"}
<1>1. \A part \in {"subject", "request", "policy"} :
        \A key \in DOMAIN Get(v, part).object : <<part, key>> \in Paths
  <2>1. ASSUME NEW part \in {"subject", "request", "policy"}
        PROVE  <<part>> \in Sections /\ <<part>>[1] = part
    BY DEF Sections
  <2>2. \A part : At(v, <<part>>) = Get(v, part)
    BY AtPaths
  <2> QED
    BY <2>1, <2>2 DEF NothingElse
<1>2. \A key \in DOMAIN v.object : <<key>> \in Paths
  BY DEF NothingElse
<1> QED
  BY <1>1, <1>2, TablePaths

(* The table, key by key.                                                   *)
MayBe(v) == DOMAIN v \subseteq {"missing", "null", "string"}
NoneOrMap(v) == v = Missing \/ IsStringMap(v)
NoneOrList(v) == v = Missing \/ IsStringList(v)
NoneOrRationale(v) == v = Missing \/ IsRationaleList(v)

(* The table asks of the keys of a trace and of its parts what follows.     *)
LEMMA TableKeys ==
  ASSUME NEW v
  PROVE  IsDecisionTrace(v) <=>
           LET s == Get(v, "subject")
               r == Get(v, "request")
               p == Get(v, "policy")
           IN  /\ IsKind(v, "object") /\ IsKind(s, "object")
               /\ IsKind(r, "object") /\ IsKind(p, "object")
               /\ NothingElse(v)
               /\ \A name \in TraceTexts : IsString(Get(v, name))
               /\ \A name \in {"type", "id"} : IsString(Get(s, name))
               /\ \A name \in {"action", "resource", "environment"} :
                    IsString(Get(r, name))
               /\ \A name \in {"engine", "bundle_hash", "decision"} :
                    IsString(Get(p, name))
               /\ MayBe(Get(v, "span_id")) /\ MayBe(Get(p, "bundle_version"))
               /\ NoneOrMap(Get(s, "attributes")) /\ NoneOrMap(Get(r, "attributes"))
               /\ NoneOrList(Get(v, "pii_flags")) /\ NoneOrList(Get(v, "evidence_refs"))
               /\ NoneOrRationale(Get(p, "rationale"))
<1> DEFINE s == Get(v, "subject")
           r == Get(v, "request")
           p == Get(v, "policy")
<1>1. /\ At(v, << >>) = v
      /\ \A a : At(v, <<a>>) = Get(v, a)
      /\ \A b : At(v, <<"subject", b>>) = Get(s, b)
      /\ \A b : At(v, <<"request", b>>) = Get(r, b)
      /\ \A b : At(v, <<"policy", b>>) = Get(p, b)
  <2>1. /\ At(v, << >>) = v /\ \A a : At(v, <<a>>) = Get(v, a)
        /\ \A a, b : At(v, <<a, b>>) = Get(Get(v, a), b)
    BY AtPaths
  <2> QED
    BY <2>1
<1>2. (\A q \in Sections \cup {<< >>} : IsKind(At(v, q), "object"))
        <=> /\ IsKind(v, "object") /\ IsKind(s, "object")
            /\ IsKind(r, "object") /\ IsKind(p, "object")
  BY <1>1 DEF Sections
<1> HIDE DEF s, r, p
<1>3. (\A q \in Mandatory : IsKind(At(v, q), "string"))
        <=> /\ \A name \in TraceTexts : IsString(Get(v, name))
            /\ \A name \in {"type", "id"} : IsString(Get(s, name))
            /\ \A name \in {"action", "resource", "environment"} :
                 IsString(Get(r, name))
            /\ \A name \in {"engine", "bundle_hash", "decision"} :
                 IsString(Get(p, name))
  BY <1>1 DEF Mandatory, IsString, TraceTexts
<1>4. (\A q \in Optional : DOMAIN At(v, q) \subseteq {"missing", "null", "string"})
        <=> MayBe(Get(v, "span_id")) /\ MayBe(Get(p, "bundle_version"))
  BY <1>1 DEF Optional, MayBe
<1>5. (\A q \in Maps : \/ At(v, q) = Missing
                       \/ IsKind(At(v, q), "object") /\ StringsIn(At(v, q).object))
        <=> NoneOrMap(Get(s, "attributes")) /\ NoneOrMap(Get(r, "attributes"))
  BY <1>1 DEF Maps, NoneOrMap, IsStringMap
<1>6. (\A q \in Lists : \/ At(v, q) = Missing
                        \/ IsKind(At(v, q), "array") /\ StringsIn(At(v, q).array))
        <=> NoneOrList(Get(v, "pii_flags")) /\ NoneOrList(Get(v, "evidence_refs"))
  BY <1>1 DEF Lists, NoneOrList, IsStringList
<1>7. (\/ At(v, Rationale) = Missing
       \/ /\ IsKind(At(v, Rationale), "array")
          /\ \A i \in DOMAIN At(v, Rationale).array :
               IsRationale(At(v, Rationale).array[i]))
        <=> NoneOrRationale(Get(p, "rationale"))
  BY <1>1 DEF Rationale, NoneOrRationale, IsRationaleList
<1> QED
  BY <1>2, <1>3, <1>4, <1>5, <1>6, <1>7 DEF IsDecisionTrace, s, r, p

(* What the walk accepts conforms to the table.                             *)
LEMMA WalkConforms ==
  ASSUME NEW v, IsTrace(v)
  PROVE  IsDecisionTrace(v)
<1> DEFINE s == v.object["subject"]
           r == v.object["request"]
           p == v.object["policy"]
<1>1. /\ IsKind(v, "object")
      /\ TraceTexts \cup {"subject", "request", "policy"} \subseteq DOMAIN v.object
      /\ DOMAIN v.object \subseteq TraceNames
      /\ \A name \in TraceTexts : IsString(v.object[name])
      /\ "span_id" \in DOMAIN v.object => IsOptional(v.object["span_id"])
      /\ "pii_flags" \in DOMAIN v.object => IsStringList(v.object["pii_flags"])
      /\ "evidence_refs" \in DOMAIN v.object => IsStringList(v.object["evidence_refs"])
      /\ IsSubject(s) /\ IsRequest(r) /\ IsPolicy(p)
  BY DEF IsTrace, HasStrings
<1>2. s = Get(v, "subject") /\ r = Get(v, "request") /\ p = Get(v, "policy")
  BY <1>1 DEF Get
<1> HIDE DEF s, r, p
<1>3. /\ IsKind(s, "object") /\ DOMAIN s.object \subseteq {"type", "id", "attributes"}
      /\ {"type", "id"} \subseteq DOMAIN s.object
      /\ \A name \in {"type", "id"} : IsString(s.object[name])
      /\ "attributes" \in DOMAIN s.object => IsStringMap(s.object["attributes"])
  BY <1>1 DEF IsSubject, HasStrings
<1>4. /\ IsKind(r, "object")
      /\ DOMAIN r.object \subseteq {"action", "resource", "environment", "attributes"}
      /\ {"action", "resource", "environment"} \subseteq DOMAIN r.object
      /\ \A name \in {"action", "resource", "environment"} : IsString(r.object[name])
      /\ "attributes" \in DOMAIN r.object => IsStringMap(r.object["attributes"])
  BY <1>1 DEF IsRequest, HasStrings
<1>5. /\ IsKind(p, "object")
      /\ DOMAIN p.object \subseteq {"engine", "bundle_hash", "decision",
                                    "bundle_version", "rationale"}
      /\ {"engine", "bundle_hash", "decision"} \subseteq DOMAIN p.object
      /\ \A name \in {"engine", "bundle_hash", "decision"} : IsString(p.object[name])
      /\ "bundle_version" \in DOMAIN p.object => IsOptional(p.object["bundle_version"])
      /\ "rationale" \in DOMAIN p.object => IsRationaleList(p.object["rationale"])
  BY <1>1 DEF IsPolicy, HasStrings
<1>6. NothingElse(v)
  <2>1. At(v, <<"subject">>) = s /\ At(v, <<"request">>) = r /\ At(v, <<"policy">>) = p
    BY <1>2, AtPaths
  <2>2. \A key \in DOMAIN v.object : <<key>> \in Paths
    BY <1>1, TablePaths
  <2>3. /\ \A key \in DOMAIN s.object : <<"subject", key>> \in Paths
        /\ \A key \in DOMAIN r.object : <<"request", key>> \in Paths
        /\ \A key \in DOMAIN p.object : <<"policy", key>> \in Paths
    BY <1>3, <1>4, <1>5, TablePaths
  <2>4. ASSUME NEW q \in Sections
        PROVE  \A key \in DOMAIN At(v, q).object : <<q[1], key>> \in Paths
    <3>1. q = <<"subject">> \/ q = <<"request">> \/ q = <<"policy">>
      BY DEF Sections
    <3> QED
      BY <2>1, <2>3, <3>1
  <2> QED
    BY <2>2, <2>4 DEF NothingElse
<1>7. \A w : IsOptional(w) => MayBe(w)
  BY DEF IsOptional, MayBe, IsKind
<1>8. MayBe(Missing)
  BY DEF MayBe, Missing
<1>9. /\ \A name \in TraceTexts : IsString(Get(v, name))
      /\ MayBe(Get(v, "span_id"))
      /\ NoneOrList(Get(v, "pii_flags")) /\ NoneOrList(Get(v, "evidence_refs"))
  BY <1>1, <1>7, <1>8 DEF Get, NoneOrList
<1>10. /\ \A name \in {"type", "id"} : IsString(Get(s, name))
       /\ NoneOrMap(Get(s, "attributes"))
  BY <1>3 DEF Get, NoneOrMap
<1>11. /\ \A name \in {"action", "resource", "environment"} : IsString(Get(r, name))
       /\ NoneOrMap(Get(r, "attributes"))
  BY <1>4 DEF Get, NoneOrMap
<1>12. /\ \A name \in {"engine", "bundle_hash", "decision"} : IsString(Get(p, name))
       /\ MayBe(Get(p, "bundle_version"))
       /\ NoneOrRationale(Get(p, "rationale"))
  BY <1>5, <1>7, <1>8 DEF Get, NoneOrRationale
<1> QED
  BY <1>1, <1>2, <1>3, <1>4, <1>5, <1>6, <1>9, <1>10, <1>11, <1>12, TableKeys

(* And the other way round, of a document.                                  *)
LEMMA ConformsWalk ==
  ASSUME NEW v, IsJSON(v), IsDecisionTrace(v)
  PROVE  IsTrace(v)
<1> DEFINE s == Get(v, "subject")
           r == Get(v, "request")
           p == Get(v, "policy")
<1>1. /\ IsKind(v, "object") /\ IsKind(s, "object")
      /\ IsKind(r, "object") /\ IsKind(p, "object")
      /\ NothingElse(v)
      /\ \A name \in TraceTexts : IsString(Get(v, name))
      /\ \A name \in {"type", "id"} : IsString(Get(s, name))
      /\ \A name \in {"action", "resource", "environment"} : IsString(Get(r, name))
      /\ \A name \in {"engine", "bundle_hash", "decision"} : IsString(Get(p, name))
      /\ MayBe(Get(v, "span_id")) /\ MayBe(Get(p, "bundle_version"))
      /\ NoneOrMap(Get(s, "attributes")) /\ NoneOrMap(Get(r, "attributes"))
      /\ NoneOrList(Get(v, "pii_flags")) /\ NoneOrList(Get(v, "evidence_refs"))
      /\ NoneOrRationale(Get(p, "rationale"))
  BY TableKeys
<1>2. \A w, key : IsKind(w, "object") /\ key \in DOMAIN w.object
                    => Get(w, key) = w.object[key]
  BY DEF Get
<1>3. \A w, key : IsString(Get(w, key)) \/ IsKind(Get(w, key), "object")
                    => key \in DOMAIN w.object /\ Get(w, key) = w.object[key]
  BY NoKindOfMissing DEF Get, IsString
<1>4. /\ DOMAIN v.object \subseteq TraceNames
      /\ DOMAIN s.object \subseteq {"type", "id", "attributes"}
      /\ DOMAIN r.object \subseteq {"action", "resource", "environment", "attributes"}
      /\ DOMAIN p.object \subseteq {"engine", "bundle_hash", "decision",
                                    "bundle_version", "rationale"}
  BY <1>1, PartKeys
<1>5. \A key \in DOMAIN v.object : IsJSON2(v.object[key])
  BY <1>1, JSONKinds
<1>6. /\ "subject" \in DOMAIN v.object /\ s = v.object["subject"]
      /\ "request" \in DOMAIN v.object /\ r = v.object["request"]
      /\ "policy" \in DOMAIN v.object /\ p = v.object["policy"]
  BY <1>1, <1>3
<1> HIDE DEF s, r, p
<1>7. /\ \A key \in DOMAIN s.object : IsJSON1(s.object[key])
      /\ \A key \in DOMAIN r.object : IsJSON1(r.object[key])
      /\ \A key \in DOMAIN p.object : IsJSON1(p.object[key])
  BY <1>1, <1>5, <1>6, JSONKinds
<1>8. IsSubject(s)
  <2>1. \A name \in {"type", "id"} :
          name \in DOMAIN s.object /\ IsString(s.object[name])
    BY <1>1, <1>3
  <2>2. "attributes" \in DOMAIN s.object => IsStringMap(s.object["attributes"])
    BY <1>1, <1>2, <1>7, JSONKinds DEF NoneOrMap
  <2> QED
    BY <1>1, <1>4, <2>1, <2>2 DEF IsSubject, HasStrings
<1>9. IsRequest(r)
  <2>1. \A name \in {"action", "resource", "environment"} :
          name \in DOMAIN r.object /\ IsString(r.object[name])
    BY <1>1, <1>3
  <2>2. "attributes" \in DOMAIN r.object => IsStringMap(r.object["attributes"])
    BY <1>1, <1>2, <1>7, JSONKinds DEF NoneOrMap
  <2> QED
    BY <1>1, <1>4, <2>1, <2>2 DEF IsRequest, HasStrings
<1>10. IsPolicy(p)
  <2>1. \A name \in {"engine", "bundle_hash", "decision"} :
          name \in DOMAIN p.object /\ IsString(p.object[name])
    BY <1>1, <1>3
  <2>2. "rationale" \in DOMAIN p.object => IsRationaleList(p.object["rationale"])
    BY <1>1, <1>2, <1>7, JSONKinds DEF NoneOrRationale
  <2>3. "bundle_version" \in DOMAIN p.object => IsOptional(p.object["bundle_version"])
    BY <1>1, <1>2, <1>7, JSONKinds DEF MayBe
  <2> QED
    BY <1>1, <1>4, <2>1, <2>2, <2>3 DEF IsPolicy, HasStrings
<1>11. \A name \in TraceTexts : name \in DOMAIN v.object /\ IsString(v.object[name])
  BY <1>1, <1>3
<1>12. "span_id" \in DOMAIN v.object => IsOptional(v.object["span_id"])
  BY <1>1, <1>2, <1>5, JSONKinds DEF MayBe
<1>13. \A name \in {"pii_flags", "evidence_refs"} :
         name \in DOMAIN v.object => IsStringList(v.object[name])
  BY <1>1, <1>2, <1>5, JSONKinds DEF NoneOrList
<1> QED
  BY <1>1, <1>4, <1>6, <1>8, <1>9, <1>10, <1>11, <1>12, <1>13
     DEF IsTrace, HasStrings

-----------------------------------------------------------------------------
(* What the steps keep.                                                     *)

Plain(v) ==
  /\ IsKind(v, "string") => v = Str(v.string)
  /\ IsKind(v, "null") => v = Null

(* The texts a worker reads are texts and nulls, whoever wrote the trace.   *)
PlainTexts(v) == \A p \in Mandatory \cup {<<"span_id">>} : Plain(At(v, p))

(* Of a work order these may be empty.                                      *)
OrderGaps == {<<"request", "action">>, <<"request", "resource">>}

(* What holds of every trace of the gateway.                                *)
GatewayTrace ==
  /\ IsTrace(trace)
  /\ \A p \in WorkerPaths \ OrderGaps : At(trace, p) # Str("")
  /\ via = "decide" => \A p \in OrderGaps : At(trace, p) # Str("")
  /\ At(trace, <<"policy", "decision">>) \in {Str("allow"), Str("deny")}
  /\ At(body, <<"correlation_id">>) \in
       {Missing, Null, Str(""), At(trace, <<"correlation_id">>)}
  /\ At(trace, <<"span_id">>) # Str("random")
       => At(trace, <<"trace_id">>) = At(trace, <<"span_id">>)

(* The parts of the invariant.                                              *)
OriginInv ==
  /\ via \in {"decide", "order", "foreign"}
  /\ via = "decide" => body \in Bodies
  /\ via = "order" => body = Null
  /\ via = "foreign" => trace \in Records

TraceInv ==
  /\ PlainTexts(trace)
  /\ pc \in {"posted", "refused"} => trace = Null /\ via # "foreign"
  /\ via # "foreign" => pc \in {"posted", "refused"} \/ GatewayTrace

EvidenceInv == evidence # Null => IsEvidence(evidence)

ChainInv ==
  pc = "executed" =>
    /\ \A p \in IDs : At(evidence, p) = At(trace, p)
    /\ \/ At(evidence, <<"span_id">>) = At(trace, <<"span_id">>)
       \/ /\ At(evidence, <<"span_id">>) = Missing
          /\ At(trace, <<"span_id">>) = Null

ContractInv ==
  OriginInv /\ TraceInv /\ EvidenceInv /\ SkippedOnlyForGaps /\ ChainInv

(* A document is plain.                                                     *)
LEMMA DocumentTexts ==
  ASSUME NEW v, v = Missing \/ IsJSON(v)
  PROVE  PlainTexts(v)
<1>1. Plain(Missing)
  BY NoKindOfMissing DEF Plain
<1>2. \A w, key : \/ Get(w, key) = Missing
                  \/ /\ IsKind(w, "object") /\ key \in DOMAIN w.object
                     /\ Get(w, key) = w.object[key]
  BY DEF Get
<1>3. \A key : Plain(Get(v, key))
  <2>1. v = Missing => \A key : Get(v, key) = Missing
    BY NoKindOfMissing DEF Get
  <2>2. IsJSON(v) /\ IsKind(v, "object") => \A key \in DOMAIN v.object :
                                               Plain(v.object[key])
    BY JSONKinds DEF Plain
  <2> QED
    BY <1>1, <1>2, <2>1, <2>2
<1>4. \A part, key : Plain(Get(Get(v, part), key))
  <2>1. ASSUME NEW part, NEW key
        PROVE  Plain(Get(Get(v, part), key))
    <3> DEFINE w == Get(v, part)
    <3>1. CASE w = Missing
      <4>1. Get(w, key) = Missing
        BY <3>1, NoKindOfMissing DEF Get
      <4> QED
        BY <1>1, <4>1
    <3>2. CASE w # Missing
      <4>1. IsJSON(v) /\ IsKind(v, "object") /\ part \in DOMAIN v.object
            /\ w = v.object[part]
        BY <1>2, <3>2, NoKindOfMissing
      <4>2. IsJSON2(w)
        BY <4>1, JSONKinds
      <4> HIDE DEF w
      <4>3. IsKind(w, "object") => \A k \in DOMAIN w.object : IsJSON1(w.object[k])
        BY <4>2, JSONKinds
      <4>4. \A x : IsJSON1(x) => Plain(x)
        BY DEF IsJSON1, JSONType, Plain, IsKind, Null, Number
      <4>5. Plain(Get(w, key))
        BY <1>1, <1>2, <4>3, <4>4
      <4> QED
        BY <4>5 DEF w
    <3> QED
      BY <3>1, <3>2
  <2> QED
    BY <2>1
<1>5. /\ \A a : At(v, <<a>>) = Get(v, a)
      /\ \A a, b : At(v, <<a, b>>) = Get(Get(v, a), b)
  BY AtPaths
<1> QED
  BY <1>3, <1>4, <1>5 DEF PlainTexts, Mandatory

(* What lies in a trace the gateway makes.                                  *)
LEMMA EncodedPaths ==
  ASSUME NEW t
  PROVE  LET v == Encoded(DecisionTrace, t)
         IN  /\ IsTrace(v)
             /\ \A name \in TraceTexts : At(v, <<name>>) = Str(t[name])
             /\ At(v, <<"span_id">>)
                  = IF t.span_id = Nil THEN Missing ELSE Str(t.span_id.ptr)
             /\ At(v, <<"subject", "type">>) = Str(t.subject.type)
             /\ At(v, <<"subject", "id">>) = Str(t.subject.id)
             /\ At(v, <<"request", "action">>) = Str(t.request.action)
             /\ At(v, <<"request", "resource">>) = Str(t.request.resource)
             /\ At(v, <<"request", "environment">>) = Str(t.request.environment)
             /\ At(v, <<"policy", "engine">>) = Str(t.policy.engine)
             /\ At(v, <<"policy", "bundle_hash">>) = Str(t.policy.bundle_hash)
             /\ At(v, <<"policy", "decision">>) = Str(t.policy.decision)
<1> DEFINE v == Encoded(DecisionTrace, t)
           s == Encoded4(Subject, t.subject)
           r == Encoded4(Request, t.request)
           p == Encoded4(PolicyDecision, t.policy)
<1>1. /\ IsTrace(v)
      /\ \A name \in TraceTexts : v.object[name] = Str(t[name])
      /\ "span_id" \in DOMAIN v.object <=> t.span_id # Nil
      /\ t.span_id # Nil => v.object["span_id"] = Str(t.span_id.ptr)
      /\ v.object["subject"] = s
      /\ v.object["request"] = r
      /\ v.object["policy"] = p
  BY EncodedTrace
<1>2. /\ IsSubject(s)
      /\ s.object["type"] = Str(t.subject.type) /\ s.object["id"] = Str(t.subject.id)
  BY EncodedSubject
<1>3. /\ IsRequest(r)
      /\ r.object["action"] = Str(t.request.action)
      /\ r.object["resource"] = Str(t.request.resource)
      /\ r.object["environment"] = Str(t.request.environment)
  BY EncodedRequest
<1>4. /\ IsPolicy(p)
      /\ p.object["engine"] = Str(t.policy.engine)
      /\ p.object["bundle_hash"] = Str(t.policy.bundle_hash)
      /\ p.object["decision"] = Str(t.policy.decision)
  BY EncodedPolicy
<1> HIDE DEF v, s, r, p
<1>5. /\ \A name \in TraceTexts : Get(v, name) = Str(t[name])
      /\ Get(v, "span_id") = IF t.span_id = Nil THEN Missing ELSE Str(t.span_id.ptr)
      /\ Get(v, "subject") = s /\ Get(v, "request") = r /\ Get(v, "policy") = p
  BY <1>1 DEF IsTrace, HasStrings, Get
<1>6. /\ Get(s, "type") = Str(t.subject.type) /\ Get(s, "id") = Str(t.subject.id)
      /\ Get(r, "action") = Str(t.request.action)
      /\ Get(r, "resource") = Str(t.request.resource)
      /\ Get(r, "environment") = Str(t.request.environment)
      /\ Get(p, "engine") = Str(t.policy.engine)
      /\ Get(p, "bundle_hash") = Str(t.policy.bundle_hash)
      /\ Get(p, "decision") = Str(t.policy.decision)
  BY <1>2, <1>3, <1>4 DEF IsSubject, IsRequest, IsPolicy, HasStrings, Get
<1>7. /\ \A a : At(v, <<a>>) = Get(v, a)
      /\ \A a, b : At(v, <<a, b>>) = Get(Get(v, a), b)
  BY AtPaths
<1>8. /\ \A name \in TraceTexts : At(v, <<name>>) = Str(t[name])
      /\ At(v, <<"span_id">>)
           = IF t.span_id = Nil THEN Missing ELSE Str(t.span_id.ptr)
  BY <1>5, <1>7
<1>9. /\ At(v, <<"subject", "type">>) = Str(t.subject.type)
      /\ At(v, <<"subject", "id">>) = Str(t.subject.id)
      /\ At(v, <<"request", "action">>) = Str(t.request.action)
      /\ At(v, <<"request", "resource">>) = Str(t.request.resource)
      /\ At(v, <<"request", "environment">>) = Str(t.request.environment)
      /\ At(v, <<"policy", "engine">>) = Str(t.policy.engine)
      /\ At(v, <<"policy", "bundle_hash">>) = Str(t.policy.bundle_hash)
      /\ At(v, <<"policy", "decision">>) = Str(t.policy.decision)
  BY <1>5, <1>6, <1>7
<1> QED
  BY <1>1, <1>8, <1>9 DEF v

(* Texts are told apart by what they say.                                   *)
LEMMA StrIsOne == \A a, b : Str(a) = Str(b) <=> a = b
<1>1. ASSUME NEW a, NEW b, Str(a) = Str(b)
      PROVE  a = b
  <2>1. Str(a).string = Str(b).string
    BY <1>1
  <2> QED
    BY <2>1 DEF Str
<1> QED
  BY <1>1

(* A text is a text and nothing else.                                       *)
LEMMA StrIsPlain ==
  \A a : Plain(Str(a)) /\ IsString(Str(a)) /\ Str(a) # Missing /\ Str(a) # Null
BY DEF Str, Missing, Null, Plain, IsString, IsKind

(* A text is read as what it says.                                          *)
LEMMA StrIsRead == \A a : Text(Str(a)) = a /\ Pointer(Str(a)) = Ptr(a)
BY DEF Str, Text, Pointer, IsKind

(* A pointer to a text is not nil.                                          *)
LEMMA PtrIsSet == \A a : Ptr(a) # Nil /\ Ptr(a).ptr = a
BY DEF Ptr, Nil

(* A trace of a request with ids, from the policy to the paths.             *)
Given(req, corr, ids) ==
  /\ corr # "" /\ ids[1] # "" /\ req.subject.type # "" /\ req.subject.id # ""
  /\ req.request.environment # ""

MadeOf(v, req, corr, ids) ==
  /\ IsTrace(v) /\ v # Null /\ PlainTexts(v)
  /\ \A p \in WorkerPaths \ OrderGaps : At(v, p) # Str("")
  /\ At(v, <<"request", "action">>) = Str(req.request.action)
  /\ At(v, <<"request", "resource">>) = Str(req.request.resource)
  /\ At(v, <<"policy", "decision">>) \in {Str("allow"), Str("deny")}
  /\ At(v, <<"correlation_id">>) = Str(corr)
  /\ At(v, <<"trace_id">>) = Str(ids[1])
  /\ At(v, <<"span_id">>) = Str(ids[2])

(* A request that passed the checks of /decide, or that the MCP server made, *)
(* leads to a trace the schema accepts, with its texts at their paths.      *)
LEMMA GatewayEmits ==
  ASSUME NEW req, NEW policy \in PolicyDecisions, NEW corr, NEW ids,
         Given(req, corr, ids)
  PROVE  MadeOf(Encoded(DecisionTrace, TraceOf(req, policy, corr, ids)),
                req, corr, ids)
<1> DEFINE t == TraceOf(req, policy, corr, ids)
           v == Encoded(DecisionTrace, t)
<1>1. /\ t.schema_version = "x" /\ t.event_id = "random" /\ t.event_time = "x"
      /\ t.correlation_id = corr /\ t.trace_id = ids[1] /\ t.span_id = Ptr(ids[2])
      /\ t.subject = req.subject /\ t.request = req.request /\ t.policy = policy
  BY DEF TraceOf
<1>2. /\ policy.engine = "x" /\ policy.bundle_hash = "x"
      /\ policy.decision \in {"allow", "deny"}
  BY DEF PolicyDecisions
<1> HIDE DEF t
<1>3. /\ IsTrace(v)
      /\ \A name \in TraceTexts : At(v, <<name>>) = Str(t[name])
      /\ At(v, <<"span_id">>) = IF t.span_id = Nil THEN Missing ELSE Str(t.span_id.ptr)
      /\ At(v, <<"subject", "type">>) = Str(t.subject.type)
      /\ At(v, <<"subject", "id">>) = Str(t.subject.id)
      /\ At(v, <<"request", "action">>) = Str(t.request.action)
      /\ At(v, <<"request", "resource">>) = Str(t.request.resource)
      /\ At(v, <<"request", "environment">>) = Str(t.request.environment)
      /\ At(v, <<"policy", "engine">>) = Str(t.policy.engine)
      /\ At(v, <<"policy", "bundle_hash">>) = Str(t.policy.bundle_hash)
      /\ At(v, <<"policy", "decision">>) = Str(t.policy.decision)
  BY EncodedPaths
<1> HIDE DEF v
<1>4. /\ At(v, <<"schema_version">>) = Str("x")
      /\ At(v, <<"event_id">>) = Str("random")
      /\ At(v, <<"event_time">>) = Str("x")
      /\ At(v, <<"correlation_id">>) = Str(corr)
      /\ At(v, <<"trace_id">>) = Str(ids[1])
      /\ At(v, <<"data_classification">>) = Str(t["data_classification"])
  BY <1>1, <1>3 DEF TraceTexts
<1>5. At(v, <<"span_id">>) = Str(ids[2])
  <2>1. t.span_id # Nil /\ t.span_id.ptr = ids[2]
    BY <1>1, PtrIsSet
  <2> QED
    BY <1>3, <2>1
<1>6. v # Null
  <2>1. IsKind(v, "object")
    BY <1>3 DEF IsTrace, HasStrings
  <2>2. ~IsKind(Null, "object")
    BY DEF IsKind, Null
  <2> QED
    BY <2>1, <2>2
<1>7. PlainTexts(v)
  <2>1. \A p \in Mandatory \cup {<<"span_id">>} : \E a : At(v, p) = Str(a)
    BY <1>3, <1>4, <1>5 DEF Mandatory
  <2> QED
    BY <2>1, StrIsPlain DEF PlainTexts
<1>8. \A p \in WorkerPaths \ OrderGaps : At(v, p) # Str("")
  <2>1. \A p \in WorkerPaths \ OrderGaps : \E a : At(v, p) = Str(a) /\ a # ""
    BY <1>1, <1>2, <1>3, <1>4 DEF Given, WorkerPaths, OrderGaps, Mandatory
  <2>2. \A a : a # "" => Str(a) # Str("")
    BY StrIsOne
  <2> QED
    BY <2>1, <2>2
<1>9. /\ At(v, <<"request", "action">>) = Str(req.request.action)
      /\ At(v, <<"request", "resource">>) = Str(req.request.resource)
      /\ At(v, <<"policy", "decision">>) \in {Str("allow"), Str("deny")}
  BY <1>1, <1>2, <1>3
<1> QED
  BY <1>3, <1>4, <1>5, <1>6, <1>7, <1>8, <1>9 DEF MadeOf, v, t

(* What /decide reads of the ids of a request.                              *)
LEMMA RequestReads ==
  ASSUME NEW v, NEW strict, Decodes(DecisionRequest, v, strict)
  PROVE  LET req == Decoded(DecisionRequest, v)
         IN  /\ req.correlation_id = Text(At(v, <<"correlation_id">>))
             /\ req.trace_id = Text(At(v, <<"trace_id">>))
             /\ req.span_id = Text(At(v, <<"span_id">>))
<1> DEFINE F == DecisionRequest.fields
           d == Decoded(GoStruct(F), v)
           N == {"correlation_id", "trace_id", "span_id"}
<1>1. DecisionRequest = GoStruct(F)
  BY DEF DecisionRequest, GoStruct
<1>2. \A name \in N : name \in DOMAIN F /\ F[name] = OmitEmpty(GoString)
  BY DEF DecisionRequest, GoStruct
<1> HIDE DEF F
<1>3. \A name \in N : F[name].type = GoString
  BY <1>2, GoTypes
<1>4. ASSUME NEW name \in DOMAIN F
      PROVE  F[name].type = GoString => d[name] = Text(Get(v, name))
  BY <1>1, TextsRead
<1> HIDE DEF d
<1>5. \A name \in N : d[name] = Text(Get(v, name))
  BY <1>2, <1>3, <1>4
<1>6. \A a : At(v, <<a>>) = Get(v, a)
  BY AtPaths
<1>7. /\ d.correlation_id = Text(At(v, <<"correlation_id">>))
      /\ d.trace_id = Text(At(v, <<"trace_id">>))
      /\ d.span_id = Text(At(v, <<"span_id">>))
  BY <1>5, <1>6
<1> QED
  BY <1>1, <1>7 DEF d

(* Where a string is read, one is, or null, or nothing.                     *)
LEMMA ReadKinds ==
  ASSUME NEW F, NEW v, NEW strict, Decodes(GoStruct(F), v, strict),
         NEW name \in DOMAIN F, F[name].type \in {GoString, GoPointer}
  PROVE  LET w == Get(v, name)
         IN  w = Missing \/ IsKind(w, "null") \/ IsKind(w, "string")
<1>1. \/ IsKind(v, "null")
      \/ /\ IsKind(v, "object")
         /\ \A key \in DOMAIN v.object :
              key \in DOMAIN F => Decodes2(F[key].type, v.object[key], strict)
  BY DecodesStruct
<1>2. ASSUME NEW type \in {GoString, GoPointer}, NEW w, Decodes2(type, w, strict)
      PROVE  IsKind(w, "null") \/ IsKind(w, "string")
  BY <1>2 DEF Decodes2, DecodesType, GoString, GoPointer
<1>3. CASE IsKind(v, "null")
  BY <1>3 DEF Get, IsKind
<1>4. CASE IsKind(v, "object") /\ name \in DOMAIN v.object
  <2>1. ~IsKind(v, "null")
    BY <1>4 DEF IsKind
  <2>2. Decodes2(F[name].type, v.object[name], strict)
    BY <1>1, <1>4, <2>1
  <2> QED
    BY <1>2, <1>4, <2>2 DEF Get
<1>5. CASE IsKind(v, "object") /\ name \notin DOMAIN v.object
  BY <1>5 DEF Get
<1> QED
  BY <1>1, <1>3, <1>4, <1>5

(* A trace the schema accepts is skipped for a gap or its decision.         *)
LEMMA SkippedTrace ==
  ASSUME NEW v, PlainTexts(v), IsTrace(v),
         ~(Decodes(WorkerTrace, v, FALSE) /\ ValidateTrace(Decoded(WorkerTrace, v)))
  PROVE  \/ \E p \in WorkerPaths : At(v, p) = Str("")
         \/ At(v, <<"policy", "decision">>) \notin Decisions
<1> DEFINE D == <<"policy", "decision">>
<1>1. \A p \in Mandatory : At(v, p) = Str(Text(At(v, p)))
  <2>1. \A p \in Mandatory : IsKind(At(v, p), "string")
    BY WalkConforms DEF IsDecisionTrace
  <2> QED
    BY <2>1 DEF PlainTexts, Plain, Text
<1>2. Decodes(WorkerTrace, v, FALSE)
  BY TraceDecodes
<1>3. ~ /\ \A p \in WorkerPaths : Text(At(v, p)) # ""
        /\ ToLower(Text(At(v, D))) \in {"allow", "deny"}
  BY <1>2, PresentPaths
<1>4. \A p \in WorkerPaths : p \in Mandatory
  BY DEF WorkerPaths
<1>5. D \in Mandatory
  BY DEF Mandatory
<1>6. CASE \E p \in WorkerPaths : Text(At(v, p)) = ""
  BY <1>1, <1>4, <1>6
<1>7. CASE ToLower(Text(At(v, D))) \notin {"allow", "deny"}
  <2> DEFINE d == Text(At(v, D))
  <2>1. At(v, D) = Str(d)
    BY <1>1, <1>5
  <2>2. d # "allow" /\ d # "ALLOW" /\ d # "deny"
    BY <1>7 DEF ToLower
  <2> HIDE DEF d, D
  <2>3. Str(d) # Str("allow") /\ Str(d) # Str("ALLOW") /\ Str(d) # Str("deny")
    BY <2>2, StrIsOne
  <2>4. At(v, D) \notin Decisions
    BY <2>1, <2>3 DEF Decisions
  <2> QED
    BY <2>4 DEF D
<1> QED
  BY <1>3, <1>6, <1>7

(* What a worker makes of a trace has the ids of the trace.                 *)
LEMMA ExecutedTrace ==
  ASSUME NEW v, NEW workload, PlainTexts(v), Decodes(WorkerTrace, v, FALSE),
         ValidateTrace(Decoded(WorkerTrace, v))
  PROVE  LET e == Encoded(WorkerEvidenceEvent,
                          TraceToEvidence(Decoded(WorkerTrace, v), workload))
         IN  /\ IsEvidence(e)
             /\ \A p \in IDs : At(e, p) = At(v, p)
             /\ \/ At(e, <<"span_id">>) = At(v, <<"span_id">>)
                \/ /\ At(e, <<"span_id">>) = Missing
                   /\ At(v, <<"span_id">>) = Null
<1> DEFINE d == Decoded(WorkerTrace, v)
           x == TraceToEvidence(d, workload)
           e == Encoded(WorkerEvidenceEvent, x)
           w == At(v, <<"span_id">>)
<1>1. /\ \A p \in WorkerPaths : Text(At(v, p)) # ""
      /\ d.correlation_id = Text(At(v, <<"correlation_id">>))
      /\ d.trace_id = Text(At(v, <<"trace_id">>))
      /\ d.span_id = Pointer(w)
  BY PresentPaths
<1>2. /\ x.correlation_id = d.correlation_id /\ x.trace_id = d.trace_id
      /\ x.span_id = d.span_id
  BY DEF TraceToEvidence
<1>3. w = Missing \/ IsKind(w, "null") \/ IsKind(w, "string")
  <2>1. /\ Decodes(GoStruct(WorkerTrace.fields), v, FALSE)
        /\ "span_id" \in DOMAIN WorkerTrace.fields
        /\ WorkerTrace.fields["span_id"].type = GoPointer
    BY WorkerFields
  <2>2. \A strict : Decodes(GoStruct(WorkerTrace.fields), v, strict) =>
          LET g == Get(v, "span_id")
          IN  g = Missing \/ IsKind(g, "null") \/ IsKind(g, "string")
    BY <2>1, ReadKinds
  <2>3. w = Get(v, "span_id")
    BY AtPaths
  <2> QED
    BY <2>1, <2>2, <2>3
<1> HIDE DEF d, x, w
<1>4. /\ IsEvidence(e)
      /\ \A name \in EvidenceTexts : e.object[name] = Str(x[name])
      /\ "span_id" \in DOMAIN e.object <=> x.span_id # Nil
      /\ x.span_id # Nil => e.object["span_id"] = Str(x.span_id.ptr)
  <2>1. OmitEmpty(GoMap) # Kept(GoMap)
    BY DEF OmitEmpty, Kept
  <2> QED
    BY <2>1, EncodedEvidence DEF WorkerEvidenceEvent
<1> HIDE DEF e
<1>5. /\ Get(e, "correlation_id") = Str(x["correlation_id"])
      /\ Get(e, "trace_id") = Str(x["trace_id"])
      /\ Get(e, "span_id") = IF x.span_id = Nil THEN Missing ELSE Str(x.span_id.ptr)
  BY <1>4 DEF IsEvidence, HasStrings, EvidenceTexts, Get
<1>6. /\ At(e, <<"correlation_id">>) = Str(d.correlation_id)
      /\ At(e, <<"trace_id">>) = Str(d.trace_id)
      /\ At(e, <<"span_id">>) = Get(e, "span_id")
  BY <1>2, <1>5, AtPaths
<1>7. \A p \in IDs : At(v, p) = Str(Text(At(v, p)))
  <2>1. \A p \in IDs : p \in WorkerPaths /\ p \in Mandatory
    BY DEF IDs, WorkerPaths, Mandatory
  <2> QED
    BY <1>1, <2>1 DEF PlainTexts, Plain, Text
<1>8. \A p \in IDs : At(e, p) = At(v, p)
  BY <1>1, <1>6, <1>7 DEF IDs
<1>9. Plain(w)
  BY DEF PlainTexts, w
<1>10. CASE IsKind(w, "string")
  <2>1. w = Str(w.string) /\ x.span_id = Ptr(w.string)
    BY <1>1, <1>2, <1>9, <1>10 DEF Plain, Pointer
  <2>2. x.span_id # Nil /\ x.span_id.ptr = w.string
    BY <2>1, PtrIsSet
  <2>3. At(e, <<"span_id">>) = w
    BY <1>5, <1>6, <2>1, <2>2
  <2> QED
    BY <1>4, <1>8, <2>3 DEF e, x, d, w
<1>11. CASE ~IsKind(w, "string")
  <2>1. x.span_id = Nil
    BY <1>1, <1>2, <1>11 DEF Pointer
  <2>2. At(e, <<"span_id">>) = Missing
    BY <1>5, <1>6, <2>1
  <2>3. w = Missing \/ w = Null
    BY <1>3, <1>9, <1>11 DEF Plain
  <2> QED
    BY <1>4, <1>8, <2>2, <2>3 DEF e, x, d, w
<1> QED
  BY <1>10, <1>11

-----------------------------------------------------------------------------
(* The steps.                                                               *)

(* What no body and no trace are written as.                                *)
LEMMA NullDocument == PlainTexts(Null) /\ \A key : At(Null, <<key>>) = Missing
<1>1. IsJSON(Null)
  BY DEF IsJSON, JSONType
<1>2. \A key : Get(Null, key) = Missing
  BY DEF Get, IsKind, Null
<1> QED
  BY <1>1, <1>2, DocumentTexts, AtPaths

(* The invariant holds at the start.                                        *)
LEMMA StartInv == Init => ContractInv
<1> SUFFICES ASSUME Init PROVE ContractInv
  OBVIOUS
<1>1. OriginInv
  BY DEF Init, OriginInv
<1>2. trace = Null \/ (via = "foreign" /\ trace \in Records)
  BY DEF Init
<1>3. PlainTexts(trace)
  <2>1. trace \in Records => trace = Missing \/ IsJSON(trace)
    BY DocumentsAssumption
  <2> QED
    BY <1>2, <2>1, DocumentTexts, NullDocument
<1>4. \/ pc = "posted" /\ trace = Null /\ via # "foreign"
      \/ pc = "published" /\ via = "foreign"
  BY DEF Init
<1>5. TraceInv
  BY <1>3, <1>4 DEF TraceInv
<1>6. EvidenceInv /\ SkippedOnlyForGaps /\ ChainInv
  BY <1>4 DEF Init, EvidenceInv, SkippedOnlyForGaps, ChainInv
<1> QED
  BY <1>1, <1>5, <1>6 DEF ContractInv

(* The /decide handler keeps it.                                            *)
LEMMA DecideKeeps == ContractInv /\ Decide => ContractInv'
<1> SUFFICES ASSUME ContractInv, Decide PROVE ContractInv'
  OBVIOUS
<1>1. /\ via = "decide" /\ pc = "posted" /\ trace = Null
      /\ via' = "decide" /\ body' = body /\ body \in Bodies
      /\ evidence' = evidence /\ EvidenceInv /\ PlainTexts(trace)
  BY DEF ContractInv, OriginInv, TraceInv, Decide
<1>2. OriginInv' /\ EvidenceInv'
  BY <1>1 DEF OriginInv, EvidenceInv
<1>3. pc' \in {"published", "refused"}
  BY DEF Decide
<1>4. SkippedOnlyForGaps' /\ ChainInv'
  BY <1>3 DEF SkippedOnlyForGaps, ChainInv
<1>5. CASE pc' = "refused" /\ trace' = trace
  BY <1>1, <1>2, <1>4, <1>5 DEF ContractInv, TraceInv
<1>6. CASE pc' = "published" /\ Accepted
           /\ \E policy \in PolicyDecisions :
                LET req == Decoded(DecisionRequest, body)
                IN  trace' = Encoded(DecisionTrace,
                               TraceOf(req, policy,
                                       IF req.correlation_id = "" THEN "random"
                                       ELSE req.correlation_id,
                                       TraceIDs(span, req.trace_id, req.span_id)))
  <2> DEFINE req == Decoded(DecisionRequest, body)
             corr == IF req.correlation_id = "" THEN "random" ELSE req.correlation_id
             ids == TraceIDs(span, req.trace_id, req.span_id)
  <2>1. PICK policy \in PolicyDecisions :
          trace' = Encoded(DecisionTrace, TraceOf(req, policy, corr, ids))
    BY <1>6
  <2>2. /\ req.correlation_id = Text(At(body, <<"correlation_id">>))
        /\ req.trace_id = Text(At(body, <<"trace_id">>))
        /\ req.span_id = Text(At(body, <<"span_id">>))
    <3>1. \A strict : Decodes(DecisionRequest, body, strict) =>
            /\ req.correlation_id = Text(At(body, <<"correlation_id">>))
            /\ req.trace_id = Text(At(body, <<"trace_id">>))
            /\ req.span_id = Text(At(body, <<"span_id">>))
      BY RequestReads
    <3> QED
      BY <1>6, <3>1 DEF Accepted
  <2>3. /\ req.subject.type # "" /\ req.subject.id # "" /\ req.request.action # ""
        /\ req.request.resource # "" /\ req.request.environment # ""
    BY <1>6 DEF Accepted, ValidRequest
  <2>4. PlainTexts(body)
    BY <1>1, DocumentsAssumption, DocumentTexts
  <2>5. \A p \in {<<"trace_id">>, <<"span_id">>} :
          Text(At(body, p)) \in {"", "request"}
    <3>1. ASSUME NEW p \in {<<"trace_id">>, <<"span_id">>}
          PROVE  Text(At(body, p)) \in {"", "request"}
      <4>1. IsKind(At(body, p), "string") => At(body, p) \in {Str(""), Str("request")}
        BY <1>1, IDsAssumption
      <4>2. ~IsKind(At(body, p), "string") => Text(At(body, p)) = ""
        BY DEF Text
      <4> QED
        BY <4>1, <4>2, StrIsRead
    <3> QED
      BY <3>1
  <2>6. req.trace_id \in {"", "request"} /\ req.span_id \in {"", "request"}
    BY <2>2, <2>5
  <2>7. At(body, <<"correlation_id">>) \in {Missing, Null, Str(""), Str(corr)}
    <3> DEFINE w == At(body, <<"correlation_id">>)
               F == DecisionRequest.fields
    <3>1. w = Missing \/ IsKind(w, "null") \/ IsKind(w, "string")
      <4>1. /\ DecisionRequest = GoStruct(F)
            /\ "correlation_id" \in DOMAIN F
            /\ F["correlation_id"] = OmitEmpty(GoString)
        BY DEF DecisionRequest, GoStruct
      <4>2. F["correlation_id"].type = GoString
        BY <4>1, GoTypes
      <4> HIDE DEF F
      <4>3. \A strict : Decodes(GoStruct(F), body, strict) =>
              LET g == Get(body, "correlation_id")
              IN  g = Missing \/ IsKind(g, "null") \/ IsKind(g, "string")
        BY <4>1, <4>2, ReadKinds
      <4>4. Decodes(GoStruct(F), body, TRUE)
        BY <1>6, <4>1 DEF Accepted
      <4>5. w = Get(body, "correlation_id")
        BY AtPaths
      <4> QED
        BY <4>3, <4>4, <4>5
    <3>2. Plain(w)
      BY <2>4 DEF PlainTexts, Mandatory
    <3>3. req.correlation_id = Text(w)
      BY <2>2
    <3> HIDE DEF w, req
    <3>4. CASE IsKind(w, "string")
      <4>1. w = Str(req.correlation_id)
        BY <3>2, <3>3, <3>4 DEF Plain, Text
      <4> QED
        BY <4>1 DEF w
    <3>5. CASE ~IsKind(w, "string")
      BY <3>1, <3>2, <3>5 DEF Plain, w
    <3> QED
      BY <3>4, <3>5
  <2>8. corr # ""
    OBVIOUS
  <2> HIDE DEF req
  <2>9. ids[1] # "" /\ (ids[2] # "random" => ids[1] = ids[2])
    BY <2>6 DEF TraceIDs
  <2> HIDE DEF corr, ids
  <2>10. MadeOf(trace', req, corr, ids)
    <3>1. Given(req, corr, ids)
      BY <2>3, <2>8, <2>9 DEF Given
    <3> QED
      BY <2>1, <3>1, GatewayEmits
  <2>11. At(trace', <<"span_id">>) # Str("random")
           => At(trace', <<"trace_id">>) = At(trace', <<"span_id">>)
    BY <2>9, <2>10 DEF MadeOf
  <2>12. \A p \in OrderGaps : At(trace', p) # Str("")
    <3>1. /\ Str(req.request.action) # Str("")
          /\ Str(req.request.resource) # Str("")
      BY <2>3, StrIsOne
    <3> QED
      BY <2>10, <3>1 DEF OrderGaps, MadeOf
  <2>13. GatewayTrace'
    BY <1>1, <2>7, <2>10, <2>11, <2>12 DEF GatewayTrace, MadeOf
  <2>14. TraceInv'
    BY <1>6, <2>10, <2>13 DEF TraceInv, MadeOf
  <2> QED
    BY <1>2, <1>4, <2>14 DEF ContractInv
<1> QED
  BY <1>5, <1>6 DEF Decide

(* A work order keeps it.                                                   *)
LEMMA OrderKeeps == ContractInv /\ Order => ContractInv'
<1> SUFFICES ASSUME ContractInv, Order PROVE ContractInv'
  OBVIOUS
<1>1. /\ via = "order" /\ via' = "order" /\ body' = body /\ body = Null
      /\ evidence' = evidence /\ EvidenceInv /\ pc' = "published"
  BY DEF ContractInv, OriginInv, Order
<1>2. OriginInv' /\ EvidenceInv' /\ SkippedOnlyForGaps' /\ ChainInv'
  BY <1>1 DEF OriginInv, EvidenceInv, SkippedOnlyForGaps, ChainInv
<1>3. PICK action, resource \in {"", "x"},
           attributes \in {Nil, Map([context |-> "x"])}, policy \in PolicyDecisions :
        trace' = Encoded(DecisionTrace,
                         TraceOf(OrderRequest(action, resource, attributes), policy,
                                 "random", <<"random", "random">>))
  BY DEF Order
<1> DEFINE req == OrderRequest(action, resource, attributes)
           corr == "random"
           ids == <<"random", "random">>
<1>4. /\ req.subject.type # "" /\ req.subject.id # "" /\ req.request.environment # ""
  BY DEF OrderRequest
<1>5. corr # "" /\ ids[1] # "" /\ ids[1] = ids[2]
  OBVIOUS
<1> HIDE DEF req, corr, ids
<1>6. trace' = Encoded(DecisionTrace, TraceOf(req, policy, corr, ids))
  BY <1>3 DEF req, corr, ids
<1>7. MadeOf(trace', req, corr, ids)
  <2>1. Given(req, corr, ids)
    BY <1>4, <1>5 DEF Given
  <2> QED
    BY <1>3, <1>6, <2>1, GatewayEmits
<1>8. GatewayTrace'
  BY <1>1, <1>5, <1>7, NullDocument DEF GatewayTrace, MadeOf
<1>9. TraceInv'
  BY <1>1, <1>7, <1>8 DEF TraceInv, MadeOf
<1> QED
  BY <1>2, <1>9 DEF ContractInv

(* A worker keeps it.                                                       *)
LEMMA ExecuteKeeps == ContractInv /\ Execute => ContractInv'
<1> SUFFICES ASSUME ContractInv, Execute PROVE ContractInv'
  OBVIOUS
<1>1. /\ via' = via /\ body' = body /\ trace' = trace /\ pc = "published"
      /\ OriginInv /\ EvidenceInv /\ TraceInv /\ PlainTexts(trace)
      /\ pc' \in {"executed", "skipped"}
  BY DEF ContractInv, TraceInv, Execute
<1>2. OriginInv'
  BY <1>1 DEF OriginInv
<1>3. via # "foreign" => GatewayTrace
  BY <1>1 DEF TraceInv
<1>4. TraceInv'
  BY <1>1 DEF TraceInv, GatewayTrace
<1>5. CASE pc' = "executed" /\ Executable
           /\ \E workload \in WorkloadIdentities :
                evidence' = Encoded(WorkerEvidenceEvent,
                              TraceToEvidence(Decoded(WorkerTrace, trace), workload))
  <2>1. PICK workload \in WorkloadIdentities :
          evidence' = Encoded(WorkerEvidenceEvent,
                        TraceToEvidence(Decoded(WorkerTrace, trace), workload))
    BY <1>5
  <2>2. /\ Decodes(WorkerTrace, trace, FALSE)
        /\ ValidateTrace(Decoded(WorkerTrace, trace))
    BY <1>5 DEF Executable
  <2>3. /\ IsEvidence(evidence')
        /\ \A p \in IDs : At(evidence', p) = At(trace, p)
        /\ \/ At(evidence', <<"span_id">>) = At(trace, <<"span_id">>)
           \/ /\ At(evidence', <<"span_id">>) = Missing
              /\ At(trace, <<"span_id">>) = Null
    BY <1>1, <2>1, <2>2, ExecutedTrace
  <2>4. EvidenceInv' /\ ChainInv' /\ SkippedOnlyForGaps'
    BY <1>1, <1>5, <2>3 DEF EvidenceInv, ChainInv, SkippedOnlyForGaps
  <2> QED
    BY <1>2, <1>4, <2>4 DEF ContractInv
<1>6. CASE pc' = "skipped" /\ ~Executable /\ evidence' = evidence
  <2>1. EvidenceInv' /\ ChainInv'
    BY <1>1, <1>6 DEF EvidenceInv, ChainInv
  <2>2. IsTrace(trace) => \/ \E p \in WorkerPaths : At(trace, p) = Str("")
                          \/ At(trace, <<"policy", "decision">>) \notin Decisions
    BY <1>1, <1>6, SkippedTrace DEF Executable
  <2>3. {Str("allow"), Str("deny")} \subseteq Decisions
    BY DEF Decisions
  <2>4. via # "foreign" => \E p \in OrderGaps : At(trace, p) = Str("")
    BY <1>3, <2>2, <2>3 DEF GatewayTrace
  <2>5. via # "decide"
    BY <1>3, <2>4 DEF GatewayTrace
  <2>6. via = "order" => Str("") \in {At(trace, <<"request", "action">>),
                                      At(trace, <<"request", "resource">>)}
    BY <2>4 DEF OrderGaps
  <2>7. Validate(DecisionTraceSchema, trace) =>
          \/ \E p \in Mandatory : At(trace, p) = Str("")
          \/ At(trace, <<"policy", "decision">>) \notin Decisions
    BY <2>2, TraceCheck DEF WorkerPaths
  <2>8. SkippedOnlyForGaps'
    BY <1>1, <2>5, <2>6, <2>7 DEF SkippedOnlyForGaps
  <2> QED
    BY <1>2, <1>4, <2>1, <2>8 DEF ContractInv
<1> QED
  BY <1>5, <1>6 DEF Execute

(* The report of an agent keeps it.                                         *)
LEMMA ReportKeeps == ContractInv /\ Report => ContractInv'
<1> SUFFICES ASSUME ContractInv, Report PROVE ContractInv'
  OBVIOUS
<1>1. /\ via' = via /\ body' = body /\ trace' = trace
      /\ pc = "published" /\ pc' = "reported"
      /\ OriginInv /\ TraceInv
  BY DEF ContractInv, Report
<1>2. OriginInv' /\ TraceInv' /\ SkippedOnlyForGaps' /\ ChainInv'
  BY <1>1 DEF OriginInv, TraceInv, GatewayTrace, SkippedOnlyForGaps, ChainInv
<1>3. \E x : evidence' = Encoded(EvidenceEvent, x) /\ x.details # Nil
  <2>1. PICK corr \in {"", Decoded(WorkerTrace, trace).correlation_id},
             action, result \in {"", "x"},
             details \in {Map(<< >>), Map([summary |-> "x"])} :
          evidence' = Encoded(EvidenceEvent,
            [schema_version |-> "x", event_id |-> "random", event_time |-> "x",
             correlation_id |-> corr, trace_id |-> "random", span_id |-> Nil,
             evidence_type |-> "action.executed", action |-> action,
             result |-> result, details |-> details,
             workload |-> [service_name |-> "x", version |-> Nil,
                           image_digest |-> Nil]])
    BY DEF Report
  <2>2. details # Nil
    <3>1. \A m : Map(m) # Nil
      BY DEF Map, Nil
    <3> QED
      BY <3>1
  <2> DEFINE x == [schema_version |-> "x", event_id |-> "random", event_time |-> "x",
                   correlation_id |-> corr, trace_id |-> "random", span_id |-> Nil,
                   evidence_type |-> "action.executed", action |-> action,
                   result |-> result, details |-> details,
                   workload |-> [service_name |-> "x", version |-> Nil,
                                 image_digest |-> Nil]]
  <2>3. x.details # Nil
    BY <2>2
  <2>4. evidence' = Encoded(EvidenceEvent, x)
    BY <2>1
  <2> HIDE DEF x
  <2> QED
    BY <2>3, <2>4
<1>4. IsEvidence(evidence')
  BY <1>3, EncodedEvidence DEF EvidenceEvent
<1> QED
  BY <1>2, <1>4 DEF ContractInv, EvidenceInv

(* So it always holds.                                                      *)
LEMMA ContractInvariance == Spec => []ContractInv
<1>1. ContractInv /\ UNCHANGED vars => ContractInv'
  BY DEF ContractInv, OriginInv, TraceInv, GatewayTrace, EvidenceInv, ChainInv,
         SkippedOnlyForGaps, vars
<1>2. ContractInv /\ [Next]_vars => ContractInv'
  BY <1>1, DecideKeeps, OrderKeeps, ExecuteKeeps, ReportKeeps DEF Next
<1> QED
  BY <1>2, StartInv, PTL DEF Spec

-----------------------------------------------------------------------------
(* What the gateway emits, for /decide, an order or a report, and what a    *)
(* worker makes of any document, the schemas accept.                        *)
THEOREM EmittedEventsAreValid == Spec => []EmittedEventsValidate
<1>1. ContractInv => EmittedEventsValidate
  <2>1. ContractInv => /\ via # "foreign" /\ trace # Null => IsTrace(trace)
                       /\ evidence # Null => IsEvidence(evidence)
    BY DEF ContractInv, TraceInv, GatewayTrace, EvidenceInv
  <2> QED
    BY <2>1, TraceCheck, EvidenceCheck DEF EmittedEventsValidate
<1> QED
  BY <1>1, ContractInvariance, PTL

(* validate of tools/schema-check, walking the schema, and the table of     *)
(* paths agree about every record there can be in the trace topic.          *)
THEOREM CheckConforms == Spec => []CheckIsConformance
<1>1. ContractInv => CheckIsConformance
  <2> SUFFICES ASSUME ContractInv, trace # Null
               PROVE  IsTrace(trace) <=> IsDecisionTrace(trace)
    BY TraceCheck DEF CheckIsConformance
  <2>1. IsTrace(trace) => IsDecisionTrace(trace)
    BY WalkConforms
  <2>2. CASE IsTrace(trace)
    BY <2>1, <2>2
  <2>3. CASE trace = Missing
    <3>1. ~IsDecisionTrace(trace)
      BY <2>3, TableKeys, NoKindOfMissing
    <3> QED
      BY <2>1, <3>1
  <2>4. CASE IsJSON(trace)
    BY <2>1, <2>4, ConformsWalk
  <2>5. IsTrace(trace) \/ trace = Missing \/ IsJSON(trace)
    BY DocumentsAssumption DEF ContractInv, OriginInv, TraceInv, GatewayTrace
  <2> QED
    BY <2>2, <2>3, <2>4, <2>5
<1> QED
  BY <1>1, ContractInvariance, PTL

(* What validateTrace of the worker refuses of the traces the schema        *)
(* accepts has a gap or a decision it does not know, and nothing that       *)
(* handleDecide accepted is refused.                                        *)
THEOREM SkipsOnlyGaps == Spec => []SkippedOnlyForGaps
<1>1. ContractInv => SkippedOnlyForGaps
  BY DEF ContractInv
<1> QED
  BY <1>1, ContractInvariance, PTL

(* handleDecide and traceIDsForDecisionTrace keep the ids of a caller, or   *)
(* of its span, together, and traceToEvidence hands on those of the trace.  *)
THEOREM IdsAreKept == Spec => []ChainKeepsIds
<1>1. ContractInv => ChainKeepsIds
  <2>1. IDs \subseteq WorkerPaths \ OrderGaps
    BY DEF IDs, WorkerPaths, Mandatory, OrderGaps
  <2> QED
    BY <2>1 DEF ContractInv, TraceInv, GatewayTrace, ChainInv, ChainKeepsIds
<1> QED
  BY <1>1, ContractInvariance, PTL
=============================================================================
