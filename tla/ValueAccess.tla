---------------------------- MODULE ValueAccess ----------------------------
(***************************************************************************)
(* What users make of a parsed message: the reads, conversions and         *)
(* iterators of lib/ros_value.h and lib/ros_value.cc, the Python objects   *)
(* of python/adapters.h and python/embag.cc, and the schema that           *)
(* python/schema_builder.cc makes of the definition without any message.   *)
(*                                                                         *)
(* A value that was read is named by the bytes it was read from.  A        *)
(* conversion that may throw returns Ok(result) or Raised.                 *)
(***************************************************************************)
EXTENDS SchemaBuilder

Ok(x) == [ok |-> TRUE, py |-> x]
Raised == [ok |-> FALSE, py |-> <<>>]

\* A dict or list of conversions: the first that throws ends it.
Gather(f) ==
  IF \A k \in DOMAIN f : f[k].ok THEN Ok([k \in DOMAIN f |-> f[k].py]) ELSE Raised

-----------------------------------------------------------------------------
(* Arrays of primitives as blobs.                                          *)

\* getElementType() of an array looks at its first element.
HasElementType(v) == v.type = "primitive_array" \/ (v.type = "array" /\ SizeOf(v) > 0)
getElementType(values, v) ==
  IF v.type = "primitive_array" THEN v.element_type ELSE At(values, v, 0).type

\* The buffer protocol: the elements as an array of one dimension.
BufferInfo(values, v) ==
  IF HasElementType(v) /\ getElementType(values, v) \in Primitives
       /\ v.type = "primitive_array" /\ BufferAccessible(v)
  THEN Ok([ptr |-> Blob(v), itemsize |-> PrimitiveSize[v.element_type], shape |-> SizeOf(v)])
  ELSE Raised

-----------------------------------------------------------------------------
(***************************************************************************)
(* Python objects.  Options of dict(): which arrays become blobs (none,    *)
(* uint8 unless the caller says otherwise, or all), and of which kind, and *)
(* what a time becomes.                                                    *)
(***************************************************************************)
default_array_blob_types == {"byte"} \cap Primitives

Options ==
  [array_blob_types : {{}, default_array_blob_types, Primitives}, memoryview : BOOLEAN,
   ros_time_py_type : {"None", "int", "float", "str"}]

\* A time may stay a RosTime, or become an int or a float, nothing else.
castRosTime(v, py_type) ==
  IF py_type = "str" THEN Raised
  ELSE Ok([as |-> IF py_type = "None" THEN "RosTime" ELSE py_type, bytes |-> Extent(v)])

castValue(v, time) ==
  IF v.type \in Container THEN Ok([as |-> "RosValue", value |-> v])
  ELSE IF ~Accessible(v) THEN Raised
  ELSE IF v.type = "time" THEN castRosTime(v, time)
  ELSE Ok([as |-> v.type, bytes |-> Extent(v)])

RECURSIVE rosValueToDict(_, _, _), rosValueToList(_, _, _)

primitiveArrayToPyObject(values, v, opt) ==
  IF v.element_type \notin opt.array_blob_types
  THEN rosValueToList(values, v, [opt EXCEPT !.array_blob_types = default_array_blob_types])
  ELSE IF ~BufferInfo(values, v).ok THEN Raised
  ELSE Ok([as |-> IF opt.memoryview THEN "memoryview" ELSE "bytes",
           bytes |-> BufferInfo(values, v).py.ptr])

ToPyObject(values, v, opt) ==
  CASE v.type = "object" -> rosValueToDict(values, v, opt)
    [] v.type = "array" -> rosValueToList(values, v, opt)
    [] v.type = "primitive_array" -> primitiveArrayToPyObject(values, v, opt)
    [] OTHER -> castValue(v, opt.ros_time_py_type)

\* getValues() and getObjects()
getValues(values, v) == [k \in 1..SizeOf(v) |-> At(values, v, k - 1)]
getObjects(values, v) == [key \in FieldNames(v.def) |-> Get(values, v, key)]

rosValueToList(values, v, opt) ==
  LET items == getValues(values, v) IN
  Gather([k \in DOMAIN items |-> ToPyObject(values, items[k], opt)])

rosValueToDict(values, v, opt) ==
  LET items == getObjects(values, v) IN
  Gather([key \in DOMAIN items |-> ToPyObject(values, items[key], opt)])

-----------------------------------------------------------------------------
(***************************************************************************)
(* Iterators: over the fields of an object by field_indexes_ (keys, items  *)
(* and __iter__ of an object), and by position over any container (values  *)
(* of an object, __iter__ of an array).                                    *)
(***************************************************************************)
\* Mutant: the iteration ends before the last element.
ValuesButLast(values, v) ==
  [k \in 1..SizeOf(v) - 1 |-> castValue(At(values, v, k - 1), "None")]

Values(values, v) == [k \in 1..SizeOf(v) |-> castValue(At(values, v, k - 1), "None")]
Items(values, v) ==
  {<<key, castValue(getObjects(values, v)[key], "None")>> : key \in FieldNames(v.def)}

\* What a user finds who goes through a value with these iterators only.
RECURSIVE Walk(_, _)
Visit(values, r) ==
  IF ~r.ok THEN Raised
  ELSE IF r.py.as = "RosValue" THEN Walk(values, r.py.value)
  ELSE r
Walk(values, v) ==
  IF v.type = "object"
  THEN LET items == Items(values, v) IN
       Gather([key \in {item[1] : item \in items} |->
                 Visit(values, (CHOOSE item \in items : item[1] = key)[2])])
  ELSE LET seq == Values(values, v) IN
       Gather([k \in DOMAIN seq |-> Visit(values, seq[k])])

-----------------------------------------------------------------------------
(***************************************************************************)
(* toString(): one line per leaf, with the path to it.  An array of        *)
(* primitives is one line of "unknown type".                               *)
(***************************************************************************)
Key(name) == [key |-> name]
Idx(k) == [idx |-> k]

RECURSIVE toString(_, _, _)

toString(values, v, path) ==
  CASE v.type = "object" ->
         UNION {toString(values, getObjects(values, v)[key], Append(path, Key(key))) :
                  key \in FieldNames(v.def)}
    [] v.type = "array" ->
         UNION {toString(values, At(values, v, k), Append(path, Idx(k))) :
                  k \in 0 .. SizeOf(v) - 1}
    [] OTHER -> {[path |-> path, shows |-> v]}

\* The value a path leads to, by name and position.
RECURSIVE Follow(_, _, _)
Follow(values, v, path) ==
  IF path = <<>> THEN {v}
  ELSE LET step == Head(path) IN
       IF v.type = "object" /\ "key" \in DOMAIN step /\ step.key \in FieldNames(v.def)
       THEN Follow(values, Get(values, v, step.key), Tail(path))
       ELSE IF v.type = "array" /\ "idx" \in DOMAIN step
       THEN Follow(values, At(values, v, step.idx), Tail(path))
       ELSE {}

-----------------------------------------------------------------------------
(* Properties.                                                             *)

\* The Python object of a member laid out as tree t.
RECURSIVE ExpectedField(_, _, _), ExpectedObject(_, _, _)
ExpectedItem(f, t, opt) ==
  IF f.type = "object" THEN ExpectedObject(f.of, t, opt)
  ELSE [as |-> IF f.type # "time" THEN f.type
               ELSE IF opt.ros_time_py_type = "None" THEN "RosTime" ELSE opt.ros_time_py_type,
        bytes |-> Extent(t)]
ExpectedField(f, t, opt) ==
  IF f.array = "none" THEN ExpectedItem(f, t, opt)
  ELSE IF f.type \in opt.array_blob_types
  THEN [as |-> IF opt.memoryview THEN "memoryview" ELSE "bytes",
        bytes |-> UNION {Extent(t[k]) : k \in DOMAIN t}]
  ELSE [k \in DOMAIN t |-> ExpectedItem(f, t[k], opt)]
ExpectedObject(d, t, opt) ==
  [name \in FieldNames(d) |->
     ExpectedField(FieldNamed(d, name), t[name], opt)]

\* A blob type whose array has no element and lies at the end of the buffer.
EmptyBlobAtEnd(opt) ==
  \E p \in DOMAIN data_ :
    /\ data_[p].type = "primitive_array" /\ data_[p].length = 0
    /\ data_[p].element_type \in opt.array_blob_types
    /\ data_[p].offset = Len(Buffer) + 1

\* There is a time, and it is to become something it cannot.
TimeRefused(opt) ==
  /\ opt.ros_time_py_type = "str"
  /\ \E p \in DOMAIN data_ :
       \/ data_[p].type = "time"
       \/ /\ data_[p].type = "primitive_array" /\ data_[p].length > 0
          /\ data_[p].element_type = "time" /\ "time" \notin opt.array_blob_types

(***************************************************************************)
(* What is parsed is laid out, and dict() with any options is the message  *)
(* as it is laid out, every value read from its own bytes and every blob   *)
(* from exactly those of its elements (adapters.h).  Of a whole message,   *)
(* dict() throws for one reason besides a bad option: a blob without       *)
(* elements at the end of the buffer (ros_value.cc:47).                    *)
(***************************************************************************)
DictAsLaidOut ==
  parsed_ =>
    /\ Reference.ok
    /\ LET tree == Reference.tree
           whole == Intact IN
       \A opt \in Options :
         LET dict == rosValueToDict(data_, data_[1], opt) IN
         /\ dict.ok => dict.py = ExpectedObject(message.msg_def_, tree, opt)
         /\ whole => (dict.ok <=> ~(EmptyBlobAtEnd(opt) \/ TimeRefused(opt)))

\* The fields of a definition in their order.
FieldSeq(d) == SelectSeq(Definitions[d], LAMBDA member : ~member.const)

(***************************************************************************)
(* Every way through a message leads to the same values.  Iterating over   *)
(* the items of objects and the elements of arrays finds what dict()       *)
(* without blobs does, exceptions included.  values() of any object, which *)
(* goes by position, yields the values that items() has under the names of *)
(* the fields, in the order of the definition (python/embag.cc:201).  And  *)
(* the path in front of each printed line leads to the value printed, by   *)
(* get() and at(), and is in front of no other.                            *)
(***************************************************************************)
WaysAgree ==
  parsed_ =>
    LET lines == toString(data_, data_[1], <<>>) IN
    /\ Walk(data_, data_[1]) =
         rosValueToDict(data_, data_[1],
           [array_blob_types |-> {}, memoryview |-> FALSE, ros_time_py_type |-> "None"])
    /\ \A p \in DOMAIN data_ : data_[p].type = "object" =>
         LET fields == FieldSeq(data_[p].def)
             found == Values(data_, data_[p]) IN
         /\ Len(found) = Len(fields)
         /\ Items(data_, data_[p]) = {<<fields[k].name, found[k]>> : k \in DOMAIN fields}
    /\ \A l \in lines : Follow(data_, data_[1], l.path) = {l.shows}
    /\ Cardinality({l.path : l \in lines}) = Cardinality(lines)

=============================================================================
