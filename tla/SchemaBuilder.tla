--------------------------- MODULE SchemaBuilder ---------------------------
(***************************************************************************)
(* python/schema_builder.cc: the schema that is made of a definition, as   *)
(* nested dicts, without any message.  It reads the definition in code of  *)
(* its own, by which the parser is not bound.                              *)
(***************************************************************************)
EXTENDS MessageLayout

FieldNamed(d, name) ==
  CHOOSE f \in {Definitions[d][k] : k \in DOMAIN Definitions[d]} : ~f.const /\ f.name = name

\* Mutant: only arrays of any length are arrays.
schemaForAnyLength(S, f) ==
  IF ArraySize(f) # -1
  THEN IF f.type = "object" THEN [type |-> "object", children |-> S[f.of]] ELSE [type |-> f.type]
  ELSE IF f.type = "object" THEN [type |-> "array", children |-> S[f.of]]
       ELSE [type |-> "array", member_type |-> f.type]

\* The schema of field f, from those of the definitions, S.
schemaForField(S, f) ==
  IF ArraySize(f) = 0
  THEN IF f.type = "object" THEN [type |-> "object", children |-> S[f.of]] ELSE [type |-> f.type]
  ELSE IF f.type = "object" THEN [type |-> "array", children |-> S[f.of]]
       ELSE [type |-> "array", member_type |-> f.type]

\* The schemas of the definitions, as far as n steps find them.
generateSchema ==
  LET S[n \in Nat] ==
        [d \in DefNames |->
           IF n = 0 THEN NoFields
           ELSE [name \in FieldNames(d) |-> schemaForField(S[n - 1], FieldNamed(d, name))]] IN
  S

-----------------------------------------------------------------------------
\* Value v looks as schema s says, if those of the definitions nested in it are S.
Conforms(S, values, s, v) ==
  CASE v.type = "object" -> s = [type |-> "object", children |-> S[v.def]]
    [] v.type \in {"array", "primitive_array"} ->
         /\ s.type = "array"
         /\ \A k \in 0 .. SizeOf(v) - 1 :
              LET element == At(values, v, k) IN
              s = IF element.type = "object"
                  THEN [type |-> "array", children |-> S[element.def]]
                  ELSE [type |-> "array", member_type |-> element.type]
    [] OTHER -> s = [type |-> v.type]

(***************************************************************************)
(* getSchema() tells the truth about every message: each object that was   *)
(* parsed has the fields that the schema of its definition says, scalars,  *)
(* arrays and objects of the types there, and the message is one of its    *)
(* own definition.  So the schema builder and the parser read a definition *)
(* in the same way, at every depth (schema_builder.cc, message_parser.cc). *)
(***************************************************************************)
SchemaDescribes ==
  NamesApart /\ parsed_ =>
    /\ data_[1].type = "object" /\ data_[1].def = message.msg_def_
    /\ \A p \in DOMAIN data_ : data_[p].type = "object" =>
         \A n \in 1..Depth :
           LET s == generateSchema[n][data_[p].def] IN
           /\ DOMAIN s = FieldNames(data_[p].def)
           /\ \A key \in DOMAIN s :
                Conforms(generateSchema[n - 1], data_, s[key], Get(data_, data_[p], key))

=============================================================================
