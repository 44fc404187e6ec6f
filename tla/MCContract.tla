----------------------------- MODULE MCContract -----------------------------
(* Instance of Contract for TLC: a request and a trace record with every    *)
(* field, spoilt in up to two places.                                       *)
EXTENDS Contract, TLC

Texts(names) == [name \in names |-> Str("x")]
Strings == Obj([k |-> Str("x")])

FullSubject == Obj(Texts({"type", "id"}) @@ [attributes |-> Strings])
FullRequest ==
  Obj(Texts({"action", "resource", "environment"}) @@ [attributes |-> Strings])

FullBody ==
  Obj([correlation_id |-> Str("request"), trace_id |-> Str("request"),
       span_id |-> Str("request"), subject |-> FullSubject, request |-> FullRequest,
       data_classification |-> Str("x"), pii_flags |-> Arr(<<Str("x")>>)])

FullRecord(decision) ==
  Obj(Texts({"schema_version", "event_id", "event_time", "correlation_id",
             "trace_id", "span_id", "data_classification"})
      @@ [subject |-> FullSubject, request |-> FullRequest,
          policy |-> Obj(Texts({"engine", "bundle_version", "bundle_hash"})
                         @@ [decision  |-> Str(decision),
                             rationale |-> Arr(<<Obj(Texts({"code", "message"}))>>)]),
          pii_flags |-> Arr(<<Str("x")>>), evidence_refs |-> Arr(<< >>)])

(* The document with the value at a path replaced, or left out if it is     *)
(* Missing; unchanged where the path leads through something not an object. *)
RECURSIVE With(_, _, _)
With(v, path, x) ==
  IF path = << >> THEN x
  ELSE IF ~IsKind(v, "object") THEN v
  ELSE LET inner == IF Head(path) \in DOMAIN v.object
                    THEN With(v.object[Head(path)], Tail(path), x)
                    ELSE IF Len(path) = 1 THEN x ELSE Missing
       IN  Obj([key \in {k \in DOMAIN v.object \cup {Head(path)} :
                          k = Head(path) => inner # Missing} |->
                  IF key = Head(path) THEN inner ELSE v.object[key]])

Spoils == {Missing, Null, Number, Str(""), Obj(<< >>), Arr(<<Null>>)}

Spoilt(v, paths) == {With(v, p, x) : p \in paths, x \in Spoils}
SpoiltTwice(v, paths) ==
  {v} \cup Spoilt(v, paths) \cup UNION {Spoilt(w, paths) : w \in Spoilt(v, paths)}

BodyPaths ==
  {<<"correlation_id">>, <<"trace_id">>, <<"span_id">>, <<"subject">>,
   <<"subject", "id">>, <<"request">>, <<"request", "action">>,
   <<"request", "attributes">>, <<"request", "attributes", "k">>,
   <<"data_classification">>, <<"pii_flags">>, <<"unknown">>}

RecordPaths ==
  {<< >>, <<"correlation_id">>, <<"span_id">>, <<"subject">>, <<"request", "resource">>,
   <<"request", "attributes">>, <<"request", "attributes", "k">>,
   <<"policy">>, <<"policy", "decision">>, <<"policy", "rationale">>,
   <<"policy", "bundle_version">>, <<"policy", "unknown">>,
   <<"data_classification">>, <<"pii_flags">>, <<"unknown">>}

MCBodies == SpoiltTwice(FullBody, BodyPaths)
MCRecords ==
  SpoiltTwice(FullRecord("allow"), RecordPaths)
    \cup {FullRecord(d) : d \in {"deny", "ALLOW", "maybe"}}
=============================================================================
