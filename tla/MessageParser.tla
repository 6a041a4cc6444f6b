--------------------------- MODULE MessageParser ---------------------------
(***************************************************************************)
(* lib/message_parser.cc and the accessors of lib/ros_value.cc: how the    *)
(* bytes of one message become a vector of RosValues, and how a user walks *)
(* through it.  lib/ros_message.h parses when data() is called first.      *)
(*                                                                         *)
(* The children of a value lie next to each other in the vector.  So the   *)
(* parser first appends all fields of an object, then visits each of them, *)
(* while the buffer holds the fields one after the other.  The recursion   *)
(* of initObject and initArray is an explicit stack of their frames.       *)
(*                                                                         *)
(* Positions in the vector and in the buffer count from 1.  The buffer is  *)
(* counted in units, and a length takes LengthSize of them.                *)
(***************************************************************************)
EXTENDS Integers, Sequences, FiniteSets

CONSTANTS
  Definitions,   \* Definitions[d]: the members of the message definition d
  PrimitiveSize, \* PrimitiveSize[t]: the size of the primitive type t
  Messages       \* the messages: their buffer, place in it, and definition

LengthSize == 1

DefNames == DOMAIN Definitions
Primitives == DOMAIN PrimitiveSize
Type == Primitives \cup {"string", "object"}

\* FieldDef or ConstantDef.  of is the definition of an object.
Member ==
  [name  : STRING,
   const : BOOLEAN,
   type  : Type,
   array : {"none", "fixed", "dynamic"},
   n     : Nat,
   of    : DefNames]

ASSUME DefinitionAssumption ==
  /\ Definitions \in [DefNames -> Seq(Member)]
  /\ PrimitiveSize \in [Primitives -> Nat \ {0}]
  /\ Primitives \cap {"string", "object", "array", "primitive_array"} = {}

\* RosMessage: raw_buffer is the buffer of a whole chunk.
ASSUME MessageAssumption ==
  \A m \in Messages :
    /\ m.msg_def_ \in DefNames
    /\ m.raw_buffer \in Seq(Nat)
    /\ m.raw_buffer_offset \in 1..Len(m.raw_buffer) + 1
    /\ m.raw_data_len \in Nat

\* array_size as the grammar leaves it: 0 for a field that is not an array,
\* -1 for an array of any length.
ArraySize(f) == IF f.array = "none" THEN 0 ELSE IF f.array = "fixed" THEN f.n ELSE -1

-----------------------------------------------------------------------------
(* RosValue, for each of its types.                                        *)

List == [offset : Nat, length : Nat]
NoList == [offset |-> 0, length |-> 0]

RosValue ==
  [type : Primitives \cup {"string"}, offset : Nat]
    \cup [type : {"object"}, children : List, def : DefNames]
    \cup [type : {"array"}, children : List]
    \cup [type : {"primitive_array"}, element_type : Primitives, offset : Nat, length : Nat]

\* The value emplace_back makes, for one element of a field and for a field.
NewElement(f) ==
  IF f.type = "object"
  THEN [type |-> "object", children |-> NoList, def |-> f.of]
  ELSE [type |-> f.type, offset |-> 0]

\* Mutant: an array of strings is taken for one of primitives.
NewFieldStringBlob(f) ==
  IF ArraySize(f) = 0 THEN NewElement(f)
  ELSE IF f.type = "object" THEN [type |-> "array", children |-> NoList]
  ELSE [type |-> "primitive_array", element_type |-> f.type, offset |-> 0, length |-> 0]

NewField(f) ==
  IF ArraySize(f) = 0 THEN NewElement(f)
  ELSE IF f.type \in {"object", "string"} THEN [type |-> "array", children |-> NoList]
  ELSE [type |-> "primitive_array", element_type |-> f.type, offset |-> 0, length |-> 0]

\* Frames of the calls in progress.  at is the value a call initialises.
Frame ==
  [fn : {"initObject"}, at : Nat, def : DefNames, loop : {"emplace", "init"}, next : Nat]
    \cup [fn : {"initArray"}, at : Nat, field : Member, next : Nat]

VARIABLES
  message,                \* the message at hand
  ros_values_,            \* the vector that is filled
  ros_values_offset_,     \* where the next value goes
  message_buffer_offset_, \* where the next data is
  stack,                  \* the calls in progress, the innermost one last
  parsed_, data_,         \* RosMessage: what data() returns, once parsed
  outcome                 \* how the last parse ended

vars == <<message, ros_values_, ros_values_offset_, message_buffer_offset_, stack,
          parsed_, data_, outcome>>

Buffer == message.raw_buffer
Top == stack[Len(stack)]
Below == SubSeq(stack, 1, Len(stack) - 1)
MembersOf(frame) == Definitions[frame.def]

-----------------------------------------------------------------------------
Init ==
  /\ message \in Messages
  /\ ros_values_ = <<>>
  /\ ros_values_offset_ = 1
  /\ message_buffer_offset_ = 0
  /\ stack = <<>>
  /\ parsed_ = FALSE
  /\ data_ = <<>>
  /\ outcome = "none"

ObjectFrame(p, d) ==
  [fn |-> "initObject", at |-> p, def |-> d, loop |-> "emplace", next |-> 1]
ArrayFrame(p, f) == [fn |-> "initArray", at |-> p, field |-> f, next |-> 1]

\* data(), has() or toString() of a message that was not parsed: hydrate(),
\* which makes a parser, and parse() up to the loops of initObject.
Hydrate ==
  /\ stack = <<>>
  /\ ~parsed_
  /\ ros_values_' = <<[type |-> "object", def |-> message.msg_def_,
                       children |-> [offset |-> 2, length |-> 0]]>>
  /\ ros_values_offset_' = 2
  /\ message_buffer_offset_' = message.raw_buffer_offset
  /\ stack' = <<ObjectFrame(1, message.msg_def_)>>
  /\ outcome' = "none"
  /\ UNCHANGED <<message, parsed_, data_>>

\* The parser is destroyed.
EndParse(how) ==
  /\ ros_values_' = <<>>
  /\ ros_values_offset_' = 1
  /\ message_buffer_offset_' = 0
  /\ stack' = <<>>
  /\ outcome' = how
  /\ UNCHANGED message

\* vector::at threw: the message stays unparsed.
Throw == EndParse("thrown") /\ UNCHANGED <<parsed_, data_>>

-----------------------------------------------------------------------------
(* The first loop of initObject appends the fields.                        *)

Emplacing ==
  /\ stack # <<>>
  /\ Top.fn = "initObject"
  /\ Top.loop = "emplace"

Advanced == Append(Below, [Top EXCEPT !.next = @ + 1])

\* Mutant: the offset stays behind the vector.
EmplaceFieldUncounted ==
  /\ Emplacing
  /\ Top.next <= Len(MembersOf(Top))
  /\ LET member == MembersOf(Top)[Top.next] IN
     IF member.const
     THEN UNCHANGED ros_values_
     ELSE ros_values_' = Append(ros_values_, NewField(member))
  /\ stack' = Advanced
  /\ UNCHANGED <<message, ros_values_offset_, message_buffer_offset_, parsed_, data_, outcome>>

EmplaceField ==
  /\ Emplacing
  /\ Top.next <= Len(MembersOf(Top))
  /\ LET member == MembersOf(Top)[Top.next] IN
     IF member.const
     THEN UNCHANGED <<ros_values_, ros_values_offset_>>
     ELSE /\ ros_values_' = Append(ros_values_, NewField(member))
          /\ ros_values_offset_' = ros_values_offset_ + 1
  /\ stack' = Advanced
  /\ UNCHANGED <<message, message_buffer_offset_, parsed_, data_, outcome>>

AllEmplaced ==
  /\ Emplacing
  /\ Top.next > Len(MembersOf(Top))
  /\ stack' = Append(Below, [Top EXCEPT !.loop = "init", !.next = 1])
  /\ UNCHANGED <<message, ros_values_, ros_values_offset_, message_buffer_offset_,
                 parsed_, data_, outcome>>

-----------------------------------------------------------------------------
(* The second loop of initObject visits the fields, the loop of initArray  *)
(* the elements of an array.                                               *)

Initialising == stack # <<>> /\ ~Emplacing

Turns ==
  IF Top.fn = "initObject" THEN Len(MembersOf(Top)) ELSE ros_values_[Top.at].children.length

\* Mutant: the constant is not passed.
SkipNoConstant ==
  /\ Initialising
  /\ Top.fn = "initObject"
  /\ Top.next <= Turns
  /\ MembersOf(Top)[Top.next].const
  /\ UNCHANGED vars

SkipConstant ==
  /\ Initialising
  /\ Top.fn = "initObject"
  /\ Top.next <= Turns
  /\ MembersOf(Top)[Top.next].const
  /\ stack' = Advanced
  /\ UNCHANGED <<message, ros_values_, ros_values_offset_, message_buffer_offset_,
                 parsed_, data_, outcome>>

\* The field of this turn.
Field == IF Top.fn = "initObject" THEN MembersOf(Top)[Top.next] ELSE Top.field

AtField ==
  /\ Initialising
  /\ Top.next <= Turns
  /\ ~Field.const

\* The place of the field or element in the vector, and the vector with the
\* field counted.
Target ==
  LET list == ros_values_[Top.at].children IN
  IF Top.fn = "initObject" THEN list.offset + list.length ELSE list.offset + Top.next - 1

Counted ==
  IF Top.fn = "initObject"
  THEN [ros_values_ EXCEPT ![Top.at].children.length = @ + 1]
  ELSE ros_values_

\* The type the switch looks at.
TargetType == ros_values_[Target].type

InitObject ==
  /\ AtField
  /\ TargetType = "object"
  /\ ros_values_' = [Counted EXCEPT ![Target].children =
                       [offset |-> ros_values_offset_, length |-> 0]]
  /\ stack' = Append(Advanced, ObjectFrame(Target, Field.of))
  /\ UNCHANGED <<message, ros_values_offset_, message_buffer_offset_, parsed_, data_, outcome>>

\* A value of fixed size is not read, only passed.
InitPrimitive ==
  /\ AtField
  /\ TargetType \in Primitives
  /\ ros_values_' = [Counted EXCEPT ![Target].offset = message_buffer_offset_]
  /\ message_buffer_offset_' = message_buffer_offset_ + PrimitiveSize[Field.type]
  /\ stack' = Advanced
  /\ UNCHANGED <<message, ros_values_offset_, parsed_, data_, outcome>>

\* Mutant: a length in the last unit is not found.
LengthBeforeLast == message_buffer_offset_ < Len(Buffer)

\* vector::at finds the length at the present offset.
LengthThere == message_buffer_offset_ <= Len(Buffer)

InitString ==
  /\ AtField
  /\ TargetType = "string"
  /\ LengthThere
  /\ ros_values_' = [Counted EXCEPT ![Target].offset = message_buffer_offset_]
  /\ message_buffer_offset_' =
       message_buffer_offset_ + Buffer[message_buffer_offset_] + LengthSize
  /\ stack' = Advanced
  /\ UNCHANGED <<message, ros_values_offset_, parsed_, data_, outcome>>

Dynamic == ArraySize(Field) = -1
ArrayLength == IF Dynamic THEN Buffer[message_buffer_offset_] ELSE ArraySize(Field)

\* Mutants: the length is part of the elements, or precedes fixed arrays too.
ElementsAtLength == message_buffer_offset_
ElementsBehindLength == message_buffer_offset_ + LengthSize

\* Where the elements are.
ElementsStart == message_buffer_offset_ + IF Dynamic THEN LengthSize ELSE 0

InitPrimitiveArray ==
  /\ AtField
  /\ TargetType = "primitive_array"
  /\ Dynamic => LengthThere
  /\ ros_values_' = [Counted EXCEPT ![Target].length = ArrayLength,
                                    ![Target].offset = ElementsStart]
  /\ message_buffer_offset_' = ElementsStart + ArrayLength * PrimitiveSize[Field.type]
  /\ stack' = Advanced
  /\ UNCHANGED <<message, ros_values_offset_, parsed_, data_, outcome>>

\* An array of objects or strings: append its elements, then visit them.
InitArray ==
  /\ AtField
  /\ TargetType = "array"
  /\ Dynamic => LengthThere
  /\ ros_values_' =
       [Counted EXCEPT ![Target].children =
          [offset |-> ros_values_offset_, length |-> ArrayLength]]
       \o [k \in 1..ArrayLength |-> NewElement(Field)]
  /\ ros_values_offset_' = ros_values_offset_ + ArrayLength
  /\ message_buffer_offset_' = ElementsStart
  /\ stack' = Append(Advanced, ArrayFrame(Target, Field))
  /\ UNCHANGED <<message, parsed_, data_, outcome>>

\* The length of a string or an array lies behind the buffer.
ReadPastEnd ==
  /\ AtField
  /\ TargetType = "string" \/ (TargetType \in {"array", "primitive_array"} /\ Dynamic)
  /\ ~LengthThere
  /\ Throw

Finished == Initialising /\ Top.next > Turns

\* initObject or initArray returns to the call below.
Return ==
  /\ Finished
  /\ Len(stack) > 1
  /\ stack' = Below
  /\ UNCHANGED <<message, ros_values_, ros_values_offset_, message_buffer_offset_,
                 parsed_, data_, outcome>>

\* parse() returns, and the message is parsed.
Finish ==
  /\ Finished
  /\ Len(stack) = 1
  /\ data_' = ros_values_
  /\ parsed_' = TRUE
  /\ EndParse("parsed")

ParseStep ==
  \/ EmplaceField \/ AllEmplaced
  \/ SkipConstant
  \/ InitObject \/ InitPrimitive \/ InitString \/ InitPrimitiveArray \/ InitArray
  \/ ReadPastEnd
  \/ Return \/ Finish

Next == Hydrate \/ ParseStep

Spec == Init /\ [][Next]_vars

\* A parse goes on: the code does not wait for anything.
FairSpec == Spec /\ WF_vars(ParseStep)

-----------------------------------------------------------------------------
(* Access to a parsed value v of the vector values.                        *)

\* size()
SizeOf(v) == IF v.type = "primitive_array" THEN v.length ELSE v.children.length

\* at(idx), of an object or array and of an array of primitives.  The latter
\* makes a value of its own, whatever the index.
At(values, v, idx) ==
  IF v.type = "primitive_array"
  THEN [type |-> v.element_type, offset |-> v.offset + idx * PrimitiveSize[v.element_type]]
  ELSE values[v.children.offset + idx]

\* field_indexes_: constants do not count.
IndexOf(d, member) ==
  Cardinality({k \in DOMAIN Definitions[d] : k < member /\ ~Definitions[d][k].const})

FieldNames(d) ==
  {Definitions[d][k].name : k \in {l \in DOMAIN Definitions[d] : ~Definitions[d][l].const}}

\* get(key)
Get(values, v, key) ==
  LET k == CHOOSE l \in DOMAIN Definitions[v.def] :
             ~Definitions[v.def][l].const /\ Definitions[v.def][l].name = key IN
  At(values, v, IndexOf(v.def, k))

\* getPrimitive() finds its bytes with vector::at; only the first is looked for.
Accessible(v) == v.offset <= Len(Buffer)

\* getPrimitiveArrayRosValueBuffer()
BufferAccessible(v) == Accessible(At(data_, v, 0))

Span(start, size) == start .. start + size - 1

\* Containers have elements, the other values are read with as<T>().
Container == {"object", "array", "primitive_array"}

\* Mutant: the length is not part of the string.
ExtentBehindLength(v) ==
  IF v.type = "string" THEN Span(v.offset + LengthSize, Buffer[v.offset] + LengthSize)
  ELSE Span(v.offset, PrimitiveSize[v.type])

\* The bytes as<T>() looks at; as<std::string>() reads the length, and then
\* as many characters.
Extent(v) ==
  IF v.type = "string" THEN Span(v.offset, LengthSize + Buffer[v.offset])
  ELSE Span(v.offset, PrimitiveSize[v.type])

\* Mutant: the number of elements is taken for that of bytes.
BlobOfCount(v) == Span(At(data_, v, 0).offset, v.length)

\* getPrimitiveArrayRosValueBuffer() and ...BufferSize()
Blob(v) == Span(At(data_, v, 0).offset, v.length * PrimitiveSize[v.element_type])

-----------------------------------------------------------------------------
(* Properties.                                                             *)

TypeOK ==
  /\ message \in Messages
  /\ ros_values_ \in Seq(RosValue) /\ data_ \in Seq(RosValue)
  /\ ros_values_offset_ \in Nat \ {0}
  /\ message_buffer_offset_ \in Nat
  /\ stack \in Seq(Frame)
  /\ parsed_ \in BOOLEAN
  /\ outcome \in {"none", "thrown", "parsed"}

Children(values, p) ==
  IF values[p].type \in {"object", "array"}
  THEN values[p].children.offset .. values[p].children.offset + values[p].children.length - 1
  ELSE {}

Apart(values) ==
  \A p \in DOMAIN values :
    /\ Children(values, p) \subseteq p + 1 .. Len(values)
    /\ \A q \in DOMAIN values \ {p} : Children(values, p) \cap Children(values, q) = {}

(***************************************************************************)
(* Offsets are handed out before the values are there (message_parser.cc,  *)
(* initObject and initArray).  Still the children of a value lie in the    *)
(* vector, behind it, and no value has two parents: while the vector is    *)
(* filled, and in what data() returns.                                     *)
(***************************************************************************)
ChildrenApart == Apart(ros_values_) /\ Apart(data_)

\* Every parse ends, with a result or an exception.
ParseEnds == stack # <<>> ~> stack = <<>>

=============================================================================
