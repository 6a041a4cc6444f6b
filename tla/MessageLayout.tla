--------------------------- MODULE MessageLayout ---------------------------
(***************************************************************************)
(* The layout of a ROS message, by which MessageParser is judged: fields   *)
(* one after the other, an embedded message in place of its field, arrays  *)
(* element by element, a length before a string or an array without a      *)
(* length in its type.  Nothing here knows of vectors or offsets in them.  *)
(*                                                                         *)
(* A parsed message is compared as a tree: objects as functions from names *)
(* and arrays as sequences, with the place in the buffer at the leaves.    *)
(***************************************************************************)
EXTENDS MessageParser

CONSTANT Depth  \* how many steps a layout, or a message, is followed

ASSUME DepthAssumption == Depth \in Nat

LeafAt(type, o) == [type |-> type, offset |-> o]

Cut == [ok |-> FALSE, end |-> 0, tree |-> <<>>]
Laid(end, tree) == [ok |-> TRUE, end |-> end, tree |-> tree]

\* What is laid out at offset o: one value of the type of field f, n of them,
\* or the members of definition d from the k-th one on.
Value(f, o) == [what |-> "value", field |-> f, at |-> o]
Elements(f, n, o) == [what |-> "elements", field |-> f, n |-> n, at |-> o]
Members(d, k, o) == [what |-> "members", def |-> d, k |-> k, at |-> o]

Part ==
  [what : {"value"}, field : Member, at : Nat \ {0}]
    \cup [what : {"elements"}, field : Member, n : Nat, at : Nat \ {0}]
    \cup [what : {"members"}, def : DefNames, k : Nat \ {0}, at : Nat \ {0}]

\* Field f at offset o of buffer buf.
FieldPart(f, o, buf) ==
  CASE f.array = "none"  -> Value(f, o)
    [] f.array = "fixed" -> Elements(f, f.n, o)
    [] OTHER             -> Elements(f, buf[o], o + LengthSize)

NoFields == [name \in {} |-> <<>>]
WithField(name, tree, others) ==
  [n \in DOMAIN others \cup {name} |-> IF n = name THEN tree ELSE others[n]]

(***************************************************************************)
(* One step: how a part is laid out in buffer buf, from the layouts L of   *)
(* what it consists of.  A length behind the buffer cuts it off.           *)
(***************************************************************************)
LayValue(L, buf, f, o) ==
  CASE f.type = "object" -> L[Members(f.of, 1, o)]
    [] f.type = "string" ->
         IF o > Len(buf) THEN Cut
         ELSE Laid(o + LengthSize + buf[o], LeafAt("string", o))
    [] OTHER -> Laid(o + PrimitiveSize[f.type], LeafAt(f.type, o))

LayElements(L, f, n, o) ==
  IF n = 0 THEN Laid(o, <<>>)
  ELSE LET first == L[Value(f, o)]
           others == L[Elements(f, n - 1, first.end)] IN
       IF first.ok /\ others.ok
       THEN Laid(others.end, <<first.tree>> \o others.tree)
       ELSE Cut

LayMembers(L, buf, d, k, o) ==
  IF k > Len(Definitions[d]) THEN Laid(o, NoFields)
  ELSE IF Definitions[d][k].const THEN L[Members(d, k + 1, o)]
  ELSE LET f == Definitions[d][k]
           here == IF f.array = "dynamic" /\ o > Len(buf) THEN Cut
                   ELSE L[FieldPart(f, o, buf)]
           behind == L[Members(d, k + 1, here.end)] IN
       IF here.ok /\ behind.ok
       THEN Laid(behind.end, WithField(f.name, here.tree, behind.tree))
       ELSE Cut

LayPart(L, buf, part) ==
  CASE part.what = "value"    -> LayValue(L, buf, part.field, part.at)
    [] part.what = "elements" -> LayElements(L, part.field, part.n, part.at)
    [] part.what = "members"  -> LayMembers(L, buf, part.def, part.k, part.at)

\* The layouts in buffer buf, as far as n steps find them.
Layout(buf) ==
  LET L[n \in Nat] ==
        [part \in Part |-> IF n = 0 THEN Cut ELSE LayPart(L[n - 1], buf, part)] IN
  L

Whole == Members(message.msg_def_, 1, message.raw_buffer_offset)
Reference == Layout(Buffer)[Depth][Whole]

\* The message is whole: its data ends where the layout does.
Intact ==
  Reference.ok /\ Reference.end = message.raw_buffer_offset + message.raw_data_len

\* What a user finds who walks through a value, from what T finds in its parts;
\* and what is found in n steps.
WalkOnce(T, values, v) ==
  CASE v.type = "object" -> [key \in FieldNames(v.def) |-> T[Get(values, v, key)]]
    [] v.type \in {"array", "primitive_array"} ->
         [k \in 1..SizeOf(v) |-> T[At(values, v, k - 1)]]
    [] OTHER -> LeafAt(v.type, v.offset)

Tree(values) ==
  LET T[n \in Nat] ==
        [v \in RosValue |-> IF n = 0 THEN <<>> ELSE WalkOnce(T[n - 1], values, v)] IN
  T

-----------------------------------------------------------------------------
\* No array has length 0 in its type, which the parser takes for a scalar.
ArraysSized ==
  \A d \in DefNames : \A k \in DOMAIN Definitions[d] :
    Definitions[d][k].array = "fixed" => Definitions[d][k].n > 0

\* The fields of a definition have names of their own.
NamesApart ==
  \A d \in DefNames : \A k, l \in DOMAIN Definitions[d] :
    ~Definitions[d][k].const /\ ~Definitions[d][l].const
      /\ Definitions[d][k].name = Definitions[d][l].name => k = l

(***************************************************************************)
(* What data() returns is the message as it is laid out in the buffer,     *)
(* field by field and element by element (message_parser.cc, parse).       *)
(***************************************************************************)
DecodedAsLaidOut ==
  ArraysSized /\ NamesApart /\ parsed_ /\ Reference.ok =>
    Tree(data_)[Depth][data_[1]] = Reference.tree

\* A message that is whole is parsed without an exception; only a length
\* behind the end of the buffer makes parse() throw.
ThrowsOnlyWhenCut == ArraysSized /\ outcome = "thrown" => ~Reference.ok

\* While a message that is whole is parsed, the parser stays in its data: it
\* never looks at the records behind it in the buffer of the chunk.
StaysInMessage ==
  ArraysSized /\ Intact /\ stack # <<>> =>
    /\ message_buffer_offset_ <= message.raw_buffer_offset + message.raw_data_len
    /\ Finished /\ Len(stack) = 1 => message_buffer_offset_ = Reference.end

\* The bytes a user is shown of a value: a blob, or what as<T>() looks at.
Reads(v) ==
  IF v.type = "primitive_array" THEN Blob(v)
  ELSE IF v.type \in Container THEN {} ELSE Extent(v)

\* Of a message that is whole, as<T>() and the blobs read nothing but the message,
\* although only the first byte of a value is looked up with vector::at
\* (ros_value.cc, getPrimitive).
ReadsWithinMessage ==
  ArraysSized /\ Intact /\ parsed_ =>
    \A p \in DOMAIN data_ :
      Reads(data_[p]) \subseteq Span(message.raw_buffer_offset, message.raw_data_len)

=============================================================================
