------------------------------- MODULE GoJSON -------------------------------
(***************************************************************************)
(* What encoding/json does with the structs of the services: which         *)
(* documents it decodes into a struct, the value it gives it, and the      *)
(* document it makes of one.  External, modelled as the services use it.   *)
(* Keys are compared as they are written.                                  *)
(*                                                                         *)
(* A Go type is a record; Nil is a pointer, map or slice that is nil.      *)
(***************************************************************************)
EXTENDS SchemaCheck

GoString == [go |-> "string"]
GoPointer == [go |-> "pointer"]
GoMap == [go |-> "map"]
GoList(of) == [go |-> "list", of |-> of]
GoStruct(fields) == [go |-> "struct", fields |-> fields]

Kept(type) == [type |-> type, omitempty |-> FALSE]
OmitEmpty(type) == [type |-> type, omitempty |-> TRUE]

Nil == [nil |-> TRUE]
Ptr(s) == [ptr |-> s]
List(items) == [list |-> items]
Map(entries) == [map |-> entries]

(* v decodes into the type; strict is DisallowUnknownFields.  Here and      *)
(* below, one step of a recursion is given what it does with a part, of the *)
(* type to the left of the infix operator.                                  *)
DecodesType(type, v, strict, _ =| _) ==
  \/ IsKind(v, "null")
  \/ type.go \in {"string", "pointer"} /\ IsKind(v, "string")
  \/ /\ type.go = "map" /\ IsKind(v, "object")
     /\ \A key \in DOMAIN v.object :
          IsKind(v.object[key], "string") \/ IsKind(v.object[key], "null")
  \/ /\ type.go = "list" /\ IsKind(v, "array")
     /\ \A i \in DOMAIN v.array : type.of =| v.array[i]
  \/ /\ type.go = "struct" /\ IsKind(v, "object")
     /\ \A key \in DOMAIN v.object :
          IF key \in DOMAIN type.fields
          THEN type.fields[key].type =| v.object[key]
          ELSE ~strict

(* What the services decode is at most three types deep.                    *)
Decodes1(type, v, strict) ==
  DecodesType(type, v, strict, LAMBDA part, w : FALSE)
Decodes2(type, v, strict) ==
  DecodesType(type, v, strict, LAMBDA part, w : Decodes1(part, w, strict))
Decodes(type, v, strict) ==
  DecodesType(type, v, strict, LAMBDA part, w : Decodes2(part, w, strict))

ZeroValue1(type) == IF type.go = "string" THEN "" ELSE Nil

ZeroValue2(type) ==
  IF type.go = "struct"
  THEN [name \in DOMAIN type.fields |-> ZeroValue1(type.fields[name].type)]
  ELSE ZeroValue1(type)

ZeroValue(type) ==
  IF type.go = "struct"
  THEN [name \in DOMAIN type.fields |-> ZeroValue2(type.fields[name].type)]
  ELSE ZeroValue1(type)

(* The value a document that decodes gives; null leaves what was there.     *)
DecodedType(type, v, _ \star _) ==
  CASE IsKind(v, "null") -> ZeroValue(type)
    [] type.go = "string" /\ IsKind(v, "string") -> v.string
    [] type.go = "pointer" /\ IsKind(v, "string") -> Ptr(v.string)
    [] type.go = "map" /\ IsKind(v, "object") ->
         Map([key \in DOMAIN v.object |->
                IF IsKind(v.object[key], "null") THEN "" ELSE v.object[key].string])
    [] type.go = "list" /\ IsKind(v, "array") ->
         List([i \in DOMAIN v.array |-> type.of \star v.array[i]])
    [] type.go = "struct" /\ IsKind(v, "object") ->
         [name \in DOMAIN type.fields |->
            IF name \in DOMAIN v.object
            THEN type.fields[name].type \star v.object[name]
            ELSE ZeroValue(type.fields[name].type)]

Decoded1(type, v) == DecodedType(type, v, LAMBDA part, w : Nil)
Decoded2(type, v) == DecodedType(type, v, Decoded1)
Decoded(type, v) == DecodedType(type, v, Decoded2)

(* What omitempty leaves out.                                               *)
IsEmpty(type, x) ==
  \/ type.go = "string" /\ x = ""
  \/ type.go \in {"pointer", "map", "list"} /\ x = Nil
  \/ type.go = "map" /\ x # Nil /\ DOMAIN x.map = {}
  \/ type.go = "list" /\ x # Nil /\ x.list = << >>

EncodedType(type, x, _ \star _) ==
  CASE type.go = "string" -> Str(x)
    [] type.go \in {"pointer", "map", "list"} /\ x = Nil -> Null
    [] type.go = "pointer" /\ x # Nil -> Str(x.ptr)
    [] type.go = "map" /\ x # Nil -> Obj([key \in DOMAIN x.map |-> Str(x.map[key])])
    [] type.go = "list" /\ x # Nil ->
         Arr([i \in DOMAIN x.list |-> type.of \star x.list[i]])
    [] type.go = "struct" ->
         Obj([name \in {n \in DOMAIN type.fields :
                          type.fields[n].omitempty
                            => ~IsEmpty(type.fields[n].type, x[n])} |->
                type.fields[name].type \star x[name]])

(* What they encode is at most five types deep, like the schema of a trace. *)
Encoded1(type, x) == EncodedType(type, x, LAMBDA part, y : Null)
Encoded2(type, x) == EncodedType(type, x, Encoded1)
Encoded3(type, x) == EncodedType(type, x, Encoded2)
Encoded4(type, x) == EncodedType(type, x, Encoded3)
Encoded(type, x) == EncodedType(type, x, Encoded4)
=============================================================================
